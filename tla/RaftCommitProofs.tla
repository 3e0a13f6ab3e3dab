-------------------------- MODULE RaftCommitProofs --------------------------
(***************************************************************************)
(* What is committed stays committed: in every cluster of odd size, for    *)
(* every number of terms, commands, failing saves and concurrent calls, as *)
(* long as elections are safe and no node comes back with less than it     *)
(* acknowledged.                                                           *)
(*                                                                         *)
(* The argument: as long as an entry can still be chosen every later       *)
(* leader has it, because some voter of that leader had acknowledged it    *)
(* first and the vote rule compared two logs.  What a leader counts as     *)
(* committed has been chosen, and a follower commits what a leader of its  *)
(* term has counted.                                                       *)
(***************************************************************************)
EXTENDS RaftLogProofs

-----------------------------------------------------------------------------
(* Votes                                                                   *)

(* The vote rule of RequestVote: a log that may be voted for by the holder *)
(* of what can still be chosen has it too.                                 *)
LEMMA UpToDate ==
  ASSUME Sound, AckInv, NEW v \in Server, NEW c \in Server,
         NEW t \in DOMAIN leaderLog, NEW i \in Nat, Own(leaderLog, t, i),
         Choosable(acks, currentTerm, t, i), Agree(log[v], leaderLog[t], i),
         NEW q, q.lastIdx = LastLogInfo(log[c]).index,
         q.lastTerm = LastLogInfo(log[c]).term, LogOk(q, log[v])
  PROVE  Agree(log[c], leaderLog[t], i)
<1> DEFINE a == log[v]
           b == log[c]
           F == leaderLog[t]
<1>1. /\ a \in Seq(Entry) /\ b \in Seq(Entry) /\ F \in Seq(Entry) /\ t \in Nat
      /\ Len(a) \in Nat /\ Len(b) \in Nat /\ Len(F) \in Nat
  BY SoundTypes, Zenon
<1>2. Rooted(a, leaderLog) /\ Rooted(b, leaderLog)
  BY Zenon DEF Sound, LogInv, RootedInv
<1>3. \A u \in DOMAIN leaderLog : /\ leaderLog[u] \in Seq(Entry) /\ u \in Nat
                                  /\ Rooted(leaderLog[u], leaderLog)
                                  /\ Below(leaderLog[u], u)
  BY SoundTypes, Zenon DEF Sound, LogInv, RootedInv, TermsInv
<1>4. i \in 1 .. Len(F) /\ F[i].term = t /\ i \in 1 .. Len(a) /\ a[i] = F[i]
  BY SMTT(30) DEF Own, Agree
<1>5. q.lastIdx = LastLogInfo(b).index /\ q.lastTerm = LastLogInfo(b).term
  BY Zenon
<1>6. Agree(a, F, i) /\ LogOk(q, a)
  BY Zenon
<1>7. \A u \in DOMAIN leaderLog : t < u => Agree(leaderLog[u], F, i)
  BY Zenon DEF AckInv, LeadersAgree
<1> SUFFICES Agree(b, F, i)
  BY Zenon
<1> HIDE DEF a, b, F
<1>8. Len(a) \in 1 .. Len(a) /\ a # << >>
  BY <1>1, <1>4, SMTT(30)
<1>9. a[i].term <= a[Len(a)].term
  BY <1>1, <1>2, <1>3, <1>4, <1>8, RootedTerms, SMTT(30)
<1>10. a[Len(a)].term \in Nat /\ a[Len(a)].index = Len(a)
  BY <1>1, <1>2, <1>8, EntryFields, Zenon DEF Rooted
<1>11. LastLogInfo(a).term = a[Len(a)].term /\ LastLogInfo(a).index = Len(a)
  BY <1>8, <1>10, Zenon DEF LastLogInfo
<1>12. b # << >>
  <2> SUFFICES ASSUME b = << >> PROVE FALSE
    BY Zenon
  <2>1. q.lastIdx = 0 /\ q.lastTerm = 0
    BY <1>5, Zenon DEF LastLogInfo
  <2> QED
    BY <2>1, <1>6, <1>8, <1>10, <1>11, SMTT(30) DEF LogOk
<1>13. Len(b) \in 1 .. Len(b)
  BY <1>1, <1>12, SMTT(30)
<1> DEFINE tb == b[Len(b)].term
<1>14. /\ tb \in Nat /\ b[Len(b)].index = Len(b) /\ tb \in DOMAIN leaderLog
       /\ Agree(b, leaderLog[tb], Len(b))
  BY <1>1, <1>2, <1>13, EntryFields, Zenon DEF Rooted
<1>15. q.lastTerm = tb /\ q.lastIdx = Len(b)
  BY <1>5, <1>12, <1>14, Zenon DEF LastLogInfo
<1>16. \/ tb > a[Len(a)].term
       \/ tb = a[Len(a)].term /\ Len(b) >= Len(a)
  BY <1>6, <1>11, <1>15, Zenon DEF LogOk
<1> HIDE DEF tb
<1>17. t <= tb /\ (tb = t => i <= Len(b))
  BY <1>1, <1>4, <1>9, <1>10, <1>13, <1>14, <1>16, SMTT(30)
<1>18. CASE tb = t
  BY <1>1, <1>14, <1>17, <1>18, AgreeLess, Zenon DEF F
<1>19. CASE t < tb
  <2> DEFINE G == leaderLog[tb]
  <2>1. Agree(G, F, i) /\ Agree(b, G, Len(b)) /\ G \in Seq(Entry)
    BY <1>3, <1>7, <1>14, <1>19, ZenonT(30)
  <2>2. i <= Len(b)
    <3> SUFFICES ASSUME Len(b) < i PROVE FALSE
      BY <1>1, SMTT(30)
    <3>1. Len(b) \in 1 .. Len(G) /\ i \in 1 .. Len(G) /\ Len(b) <= i
      BY <1>1, <1>4, <1>13, <2>1, SMTT(30) DEF Agree
    <3>2. G[Len(b)].term <= G[i].term
      BY <1>3, <1>14, <3>1, RootedTerms, ZenonT(30)
    <3>3. G[Len(b)] = b[Len(b)] /\ G[i] = F[i]
      BY <1>4, <1>13, <2>1, SMTT(30) DEF Agree
    <3> QED
      BY <1>1, <1>4, <1>14, <1>19, <3>2, <3>3, SMTT(30) DEF tb
  <2> HIDE DEF G
  <2>3. Agree(b, G, i)
    BY <1>1, <2>1, <2>2, AgreeLess, Zenon
  <2> QED
    BY <2>1, <2>3, AgreeTransitive, Zenon
<1> QED
  BY <1>1, <1>14, <1>17, <1>18, <1>19, SMTT(30)

(* What a voter had saved from an earlier term, it had saved before.       *)
LEMMA ServedBefore ==
  ASSUME Sound, Sound', AckInv, AnyKind, NEW b \in ballots,
         NEW t \in DOMAIN leaderLog', NEW i \in Nat, t < b[2],
         Acked(acks', b[1], t, i), Own(leaderLog', t, i),
         Choosable(acks', currentTerm', t, i)
  PROVE  /\ t \in DOMAIN leaderLog /\ Acked(acks, b[1], t, i)
         /\ Own(leaderLog, t, i) /\ Choosable(acks, currentTerm, t, i)
         /\ \A l : Agree(l, leaderLog[t], i) => Agree(l, leaderLog'[t], i)
<1>1. b[1] \in Server /\ b[2] \in Nat /\ b[2] <= currentTerm[b[1]]
  BY Zenon DEF Sound, StateTypeOK, HistoryTypeOK, ElectionInv, BallotsCurrent
<1>2. currentTerm[b[1]] \in Nat /\ t \in Nat
  BY <1>1, SoundTypes, Zenon DEF Sound, LogTypes
<1>3. CASE Quiet
  <2>1. UNCHANGED <<leaderLog, acks>> /\ TermsRise
    BY <1>3, Zenon DEF Quiet
  <2>2. \A n \in Server : /\ currentTerm[n] \in Nat /\ currentTerm'[n] \in Nat
                          /\ currentTerm[n] <= currentTerm'[n]
    BY <2>1, Zenon DEF Sound, LogTypes, TermsRise
  <2> QED
    BY <1>2, <2>1, <2>2, ChoosableBefore, Zenon
<1>4. ASSUME NEW r \in leaderRpcs, Merging(r)
      PROVE  /\ t \in DOMAIN leaderLog /\ Acked(acks, b[1], t, i)
             /\ Own(leaderLog, t, i) /\ Choosable(acks, currentTerm, t, i)
             /\ \A l : Agree(l, leaderLog[t], i) => Agree(l, leaderLog'[t], i)
  <2> DEFINE n == r.peer
             a == <<n, r.term, r.prev + Len(r.entries)>>
  <2>1. /\ currentTerm[n] <= r.term /\ currentTerm'[n] = r.term
        /\ \A m \in Server \ {n} : currentTerm'[m] = currentTerm[m]
        /\ acks' = acks \/ acks' = acks \cup {a}
        /\ UNCHANGED leaderLog
    BY <1>4, Zenon DEF Merging
  <2>2. n \in Server /\ r.term \in Nat
    BY Zenon DEF Sound, LogTypes, LeaderRpc
  <2>3. a[1] = n /\ a[2] = r.term
    BY Zenon
  <2> HIDE DEF a
  <2>4. Acked(acks, b[1], t, i)
    <3> SUFFICES ASSUME ~Acked(acks, b[1], t, i) PROVE FALSE
      BY Zenon
    <3>1. b[1] = n /\ t = r.term
      BY <2>1, <2>3, Zenon DEF Acked
    <3> QED
      BY <3>1, <1>1, <1>2, <2>1, SMTT(30)
  <2>5. Choosable(acks, currentTerm, t, i)
    <3>1. \A v \in Server : /\ currentTerm[v] \in Nat /\ currentTerm'[v] \in Nat
                            /\ currentTerm[v] <= currentTerm'[v]
      BY <2>1, <2>2, SoundTypes, SMTT(30)
    <3>2. \A d \in acks' : d \in acks \/ currentTerm[d[1]] <= d[2]
      BY <2>1, <2>3, Zenon
    <3> QED
      BY <1>2, <3>1, <3>2, ChoosableBefore, Zenon
  <2> QED
    BY <2>1, <2>4, <2>5, Zenon
<1>5. ASSUME NEW n \in Server, Electing(n)
      PROVE  /\ t \in DOMAIN leaderLog /\ Acked(acks, b[1], t, i)
             /\ Own(leaderLog, t, i) /\ Choosable(acks, currentTerm, t, i)
             /\ \A l : Agree(l, leaderLog[t], i) => Agree(l, leaderLog'[t], i)
  <2>1. UNCHANGED <<currentTerm, acks>>
    BY <1>5, Zenon DEF Electing
  <2>2. /\ t # currentTerm[n] /\ Own(leaderLog, t, i)
        /\ DOMAIN leaderLog' = DOMAIN leaderLog \cup {currentTerm[n]}
        /\ \A u \in DOMAIN leaderLog : leaderLog'[u] = leaderLog[u]
    BY <1>5, ElectingEffect, Zenon
  <2> QED
    BY <2>1, <2>2, Zenon
<1>6. ASSUME NEW n \in Server, NEW e \in Entry, Appending(n, e)
      PROVE  /\ t \in DOMAIN leaderLog /\ Acked(acks, b[1], t, i)
             /\ Own(leaderLog, t, i) /\ Choosable(acks, currentTerm, t, i)
             /\ \A l : Agree(l, leaderLog[t], i) => Agree(l, leaderLog'[t], i)
  <2> DEFINE t0 == currentTerm[n]
             N  == Len(log[n]) + 1
             a  == <<n, t0, N>>
  <2>1. UNCHANGED currentTerm /\ acks' = acks \cup {a}
    BY <1>6, Zenon DEF Appending
  <2>2. /\ log[n] = leaderLog[t0] /\ DOMAIN leaderLog' = DOMAIN leaderLog
        /\ \A u \in DOMAIN leaderLog :
             Agree(leaderLog[u], leaderLog'[u], Len(leaderLog[u]))
        /\ \A u, j : Own(leaderLog', u, j) =>
             Own(leaderLog, u, j) \/ (u = t0 /\ j = N)
        /\ \A v, u, j : Acked(acks', v, u, j) =>
             Acked(acks, v, u, j) \/ (v = n /\ u = t0 /\ j <= N)
    BY <1>6, AppendingEffect, Zenon
  <2>3. a[1] = n /\ a[2] = t0 /\ Len(log[n]) \in Nat /\ N = Len(log[n]) + 1
    BY SoundTypes, Zenon
  <2>4. Choosable(acks, currentTerm, t, i)
    <3>1. \A v \in Server : /\ currentTerm[v] \in Nat /\ currentTerm'[v] \in Nat
                            /\ currentTerm[v] <= currentTerm'[v]
      BY <2>1, SoundTypes, SMTT(30)
    <3>2. \A d \in acks' : d \in acks \/ currentTerm[d[1]] <= d[2]
      BY <2>1, <2>3, <3>1, Zenon
    <3> QED
      BY <1>2, <3>1, <3>2, ChoosableBefore, Zenon
  <2> HIDE DEF t0, N, a
  <2>5. ~(b[1] = n /\ t = t0)
    BY <1>1, <1>2, SMTT(30) DEF t0
  <2>6. Acked(acks, b[1], t, i)
    BY <2>2, <2>5, SMTT(30)
  <2>7. i <= Len(leaderLog[t]) /\ t \in DOMAIN leaderLog
    BY <1>1, <2>6, AckedTerm, Zenon DEF AckInv
  <2>8. Own(leaderLog, t, i)
    BY <2>2, <2>3, <2>7, SMTT(30)
  <2>9. /\ Agree(leaderLog[t], leaderLog'[t], Len(leaderLog[t]))
        /\ leaderLog[t] \in Seq(Entry) /\ Len(leaderLog[t]) \in Nat
        /\ Len(leaderLog'[t]) \in Nat
    BY <2>2, <2>7, SoundTypes, SMTT(30) DEF Sound, LogTypes
  <2>10. \A l : Agree(l, leaderLog[t], i) => Agree(l, leaderLog'[t], i)
    BY <2>7, <2>9, SMTT(30) DEF Agree
  <2> QED
    BY <2>4, <2>6, <2>7, <2>8, <2>10, ZenonT(30)
<1> QED
  BY <1>3, <1>4, <1>5, <1>6, Zenon DEF AnyKind

(* The log of a candidate does not change while it can win.                *)
LEMMA RunningKept ==
  ASSUME Sound, Sound', AnyKind, NEW c \in Server, NEW u, Running(c, u)',
         RoleStays(c, Candidate)
  PROVE  Running(c, u) /\ log'[c] = log[c]
<1>1. /\ state[c] = Candidate /\ currentTerm'[c] = u /\ currentTerm[c] = u
      /\ u \notin DOMAIN leaderLog'
  BY Zenon DEF Running, RoleStays
<1>2. CASE Quiet
  BY <1>1, <1>2, Zenon DEF Quiet, Running
<1>3. ASSUME NEW r \in leaderRpcs, Merging(r)
      PROVE  Running(c, u) /\ log'[c] = log[c]
  <2>1. /\ currentTerm'[r.peer] = r.term /\ UNCHANGED leaderLog
        /\ \A m \in Server \ {r.peer} : log'[m] = log[m]
    BY <1>3, Zenon DEF Merging
  <2>2. r.term \in DOMAIN leaderLog
    BY Zenon DEF Sound, LogInv, CallsInv, GoodCall, LeadersInv
  <2> QED
    BY <1>1, <2>1, <2>2, Zenon DEF Running
<1>4. ASSUME NEW n \in Server, Electing(n)
      PROVE  Running(c, u) /\ log'[c] = log[c]
  <2>1. DOMAIN leaderLog' = DOMAIN leaderLog \cup {currentTerm[n]} /\ UNCHANGED log
    BY <1>4, Zenon DEF Electing
  <2> QED
    BY <1>1, <2>1, Zenon DEF Running
<1>5. ASSUME NEW n \in Server, NEW e \in Entry, Appending(n, e)
      PROVE  Running(c, u) /\ log'[c] = log[c]
  <2>1. /\ DOMAIN leaderLog' = DOMAIN leaderLog /\ state[n] = Leader
        /\ \A m \in Server \ {n} : log'[m] = log[m]
    BY <1>5, Zenon DEF Appending
  <2> QED
    BY <1>1, <2>1, Zenon DEF Running, Leader, Candidate
<1> QED
  BY <1>2, <1>3, <1>4, <1>5, Zenon DEF AnyKind

LEMMA KindTerms ==
  ASSUME Sound, Sound', AnyKind
  PROVE  TermsRise
<1>1. \A n \in Server : currentTerm[n] \in Nat /\ currentTerm'[n] \in Nat
  BY Zenon DEF Sound, LogTypes
<1>2. ASSUME NEW r \in leaderRpcs, Merging(r)
      PROVE  TermsRise
  BY <1>1, <1>2, SMTT(30) DEF Merging, TermsRise
<1>3. ASSUME NEW n \in Server, Electing(n) \/ \E e \in Entry : Appending(n, e)
      PROVE  TermsRise
  BY <1>1, <1>3, SMTT(30) DEF Electing, Appending, TermsRise
<1> QED
  BY <1>2, <1>3, Zenon DEF AnyKind, Quiet

LEMMA BallotsBegunKept ==
  ASSUME Sound, Sound', TermsRise, BallotsBegun, NEW b \in ballots
  PROVE  b[2] <= currentTerm'[b[3]]
<1>1. b[2] \in Nat /\ b[3] \in Server /\ b[2] <= currentTerm[b[3]]
  BY Zenon DEF Sound, StateTypeOK, HistoryTypeOK, BallotsBegun
<1>2. /\ currentTerm[b[3]] \in Nat /\ currentTerm'[b[3]] \in Nat
      /\ currentTerm[b[3]] <= currentTerm'[b[3]]
  BY <1>1, Zenon DEF Sound, LogTypes, TermsRise
<1> QED
  BY <1>1, <1>2, SMTT(30)

(* A vote that was right stays right.                                      *)
LEMMA ServedKept ==
  ASSUME Sound, Sound', AckInv, VoteInv, AnyKind, NEW b \in ballots,
         RoleStays(b[3], Candidate), Running(b[3], b[2])',
         NEW t \in DOMAIN leaderLog', NEW i \in Nat, t < b[2],
         Acked(acks', b[1], t, i), Own(leaderLog', t, i),
         Choosable(acks', currentTerm', t, i)
  PROVE  Agree(log'[b[3]], leaderLog'[t], i)
<1>1. b[3] \in Server
  BY Zenon DEF Sound, StateTypeOK, HistoryTypeOK
<1>2. Running(b[3], b[2]) /\ log'[b[3]] = log[b[3]]
  BY <1>1, RunningKept, Zenon
<1>3. /\ t \in DOMAIN leaderLog /\ Acked(acks, b[1], t, i)
      /\ Own(leaderLog, t, i) /\ Choosable(acks, currentTerm, t, i)
      /\ \A l : Agree(l, leaderLog[t], i) => Agree(l, leaderLog'[t], i)
  BY ServedBefore, Zenon
<1> QED
  BY <1>2, <1>3, Zenon DEF VoteInv, VotersServed

(* The steps that give no vote.                                            *)
RequestsStayTrue ==
    \A r \in voteRpcs' : r.phase = "req" =>
        \/ r \in voteRpcs
        \/ /\ r.lastIdx = LastLogInfo(log'[r.cand]).index
           /\ r.lastTerm = LastLogInfo(log'[r.cand]).term

LEMMA VoteKept ==
  ASSUME Sound, Sound', AckInv, VoteInv, AnyKind, CandidatesStay,
         UNCHANGED ballots, RequestsStayTrue
  PROVE  VoteInv'
<1>1. TermsRise
  BY KindTerms, Zenon
<1>2. BallotsBegun'
  BY <1>1, BallotsBegunKept, Zenon DEF VoteInv, BallotsBegun
<1>3. VotersServed'
  <2> SUFFICES ASSUME NEW b \in ballots, Running(b[3], b[2])',
                      NEW t \in DOMAIN leaderLog', NEW i \in Nat, t < b[2],
                      Acked(acks', b[1], t, i), Own(leaderLog', t, i),
                      Choosable(acks', currentTerm', t, i)
               PROVE  Agree(log'[b[3]], leaderLog'[t], i)
    BY Zenon DEF VotersServed
  <2>1. RoleStays(b[3], Candidate)
    BY Zenon DEF CandidatesStay, Sound, StateTypeOK, HistoryTypeOK
  <2> QED
    BY <2>1, ServedKept, Zenon
<1>4. RequestsTrue'
  <2> SUFFICES ASSUME NEW r \in voteRpcs', r.phase = "req", Running(r.cand, r.term)'
               PROVE  /\ r.lastIdx = LastLogInfo(log'[r.cand]).index
                      /\ r.lastTerm = LastLogInfo(log'[r.cand]).term
    BY Zenon DEF RequestsTrue
  <2>1. r.cand \in Server
    BY Zenon DEF Sound, StateTypeOK, NetworkTypeOK, VoteRpc
  <2>2. Running(r.cand, r.term) /\ log'[r.cand] = log[r.cand]
    BY <2>1, RunningKept, Zenon DEF CandidatesStay
  <2> QED
    BY <2>2, Zenon DEF RequestsStayTrue, VoteInv, RequestsTrue
<1> QED
  BY <1>2, <1>3, <1>4, Zenon DEF VoteInv

LEMMA VoteBecomeCandidate ==
  ASSUME Sound, Sound', AckInv, VoteInv, NEW n \in Server,
         NEW reached \in SUBSET Peers(n), BecomeCandidate(n, reached)
  PROVE  VoteInv'
<1> DEFINE t0 == currentTerm[n] + 1
           b0 == <<n, t0, n>>
           calls == {[cand |-> n, peer |-> p, term |-> t0, phase |-> "call",
                      lastIdx |-> 0, lastTerm |-> 0, rterm |-> 0,
                      granted |-> FALSE] : p \in reached}
<1>1. /\ Quiet /\ \A m \in Server \ {n} : RoleStays(m, Candidate)
      /\ currentTerm'[n] = t0
  BY KindBecomeCandidate, Zenon
<1>2. /\ ballots' = ballots \cup {b0}
      /\ voteRpcs' = voteRpcs \cup calls \/ voteRpcs' = voteRpcs
  BY Zenon DEF BecomeCandidate
<1>3. \A r \in voteRpcs' : r.phase = "req" => r \in voteRpcs
  BY <1>2, SMTT(30)
<1>4. AnyKind /\ TermsRise /\ UNCHANGED <<log, leaderLog, acks>>
  BY <1>1, Zenon DEF AnyKind, Quiet
<1>5. currentTerm[n] \in Nat /\ t0 \in Nat /\ ~(t0 <= currentTerm[n])
  BY SoundTypes, SMTT(30)
<1>6. b0[1] = n /\ b0[2] = t0 /\ b0[3] = n
  BY Zenon
<1> HIDE DEF t0, b0, calls
<1>7. BallotsBegun'
  <2> SUFFICES ASSUME NEW b \in ballots' PROVE b[2] <= currentTerm'[b[3]]
    BY Zenon DEF BallotsBegun
  <2>1. CASE b \in ballots
    BY <2>1, <1>4, BallotsBegunKept, Zenon DEF VoteInv
  <2>2. CASE b = b0
    BY <2>2, <1>1, <1>5, <1>6, SMTT(30)
  <2> QED
    BY <1>2, <2>1, <2>2, Zenon
<1>8. VotersServed'
  <2> SUFFICES ASSUME NEW b \in ballots', Running(b[3], b[2])',
                      NEW t \in DOMAIN leaderLog', NEW i \in Nat, t < b[2],
                      Acked(acks', b[1], t, i), Own(leaderLog', t, i),
                      Choosable(acks', currentTerm', t, i)
               PROVE  Agree(log'[b[3]], leaderLog'[t], i)
    BY Zenon DEF VotersServed
  <2>1. CASE b = b0
    <3>1. Choosable(acks, currentTerm, t, i)
      <4>1. \A v \in Server : /\ currentTerm[v] \in Nat /\ currentTerm'[v] \in Nat
                              /\ currentTerm[v] <= currentTerm'[v]
        BY <1>4, Zenon DEF Sound, LogTypes, TermsRise
      <4>2. t \in Nat
        BY <1>4, SoundTypes, Zenon
      <4> QED
        BY <1>4, <4>1, <4>2, ChoosableBefore, Zenon
    <3> QED
      BY <2>1, <3>1, <1>4, <1>6, Zenon DEF AckInv, AckedKept
  <2>2. CASE b \in ballots
    <3>1. b[3] \in Server /\ b[2] <= currentTerm[b[3]] /\ currentTerm'[b[3]] = b[2]
      BY <2>2, Zenon
         DEF Sound, StateTypeOK, HistoryTypeOK, VoteInv, BallotsBegun, Running
    <3>2. b[3] # n
      BY <3>1, <1>1, <1>5, Zenon
    <3> QED
      BY <2>2, <3>1, <3>2, <1>1, <1>4, ServedKept, ZenonT(30)
  <2> QED
    BY <1>2, <2>1, <2>2, Zenon
<1>9. RequestsTrue'
  <2> SUFFICES ASSUME NEW r \in voteRpcs', r.phase = "req", Running(r.cand, r.term)'
               PROVE  /\ r.lastIdx = LastLogInfo(log'[r.cand]).index
                      /\ r.lastTerm = LastLogInfo(log'[r.cand]).term
    BY Zenon DEF RequestsTrue
  <2>1. r \in voteRpcs /\ r.cand \in Server
    BY <1>3, Zenon DEF Sound, StateTypeOK, NetworkTypeOK, VoteRpc
  <2>2. r.term <= currentTerm[r.cand] /\ currentTerm'[r.cand] = r.term
    BY <2>1, Zenon DEF Sound, ElectionInv, CallInv, Running
  <2>3. r.cand # n
    BY <2>2, <1>1, <1>5, Zenon
  <2>4. Running(r.cand, r.term) /\ log'[r.cand] = log[r.cand]
    BY <2>1, <2>3, <1>1, <1>4, RunningKept, ZenonT(30)
  <2> QED
    BY <2>1, <2>4, Zenon DEF VoteInv, RequestsTrue
<1> QED
  BY <1>7, <1>8, <1>9, Zenon DEF VoteInv

LEMMA VoteRequestVote ==
  ASSUME Sound, Sound', AckInv, VoteInv, NEW r \in voteRpcs, RequestVote(r)
  PROVE  VoteInv'
<1> DEFINE n  == r.peer
           newer == r.term > currentTerm[n]
           term  == IF newer THEN r.term ELSE currentTerm[n]
           b0 == <<n, r.term, r.cand>>
<1>1. Quiet /\ CandidatesStay
  BY KindRequestVote, Zenon
<1>2. AnyKind /\ TermsRise /\ UNCHANGED <<log, leaderLog, acks>>
  BY <1>1, Zenon DEF AnyKind, Quiet
<1>3. /\ r.cand \in Server /\ n \in Server /\ r.term \in Nat /\ currentTerm[n] \in Nat
      /\ r.term <= currentTerm[r.cand] /\ r.phase = "req" /\ r \in VoteRpc
  BY SoundTypes, Zenon
     DEF Sound, StateTypeOK, NetworkTypeOK, VoteRpc, ElectionInv, CallInv,
                    RequestVote
<1>4. \/ UNCHANGED ballots
      \/ /\ LogOk(r, log[n]) /\ r.term >= currentTerm[n]
         /\ ballots' = ballots \cup {<<n, term, r.cand>>}
  BY Zenon DEF RequestVote
<1>5. \/ UNCHANGED ballots
      \/ LogOk(r, log[n]) /\ ballots' = ballots \cup {b0}
  BY <1>3, <1>4, SMTT(30)
<1>6. \A s \in voteRpcs' : s.phase = "req" => s \in voteRpcs
  <2>1. \A t, g : VoteReply(r, t, g).phase = "resp"
    BY <1>3, Zenon DEF VoteReply, VoteRpc
  <2>2. \/ \E t, g : voteRpcs' = (voteRpcs \ {r}) \cup {VoteReply(r, t, g)}
        \/ voteRpcs' = voteRpcs \ {r}
    BY Zenon DEF RequestVote
  <2> QED
    BY <2>1, <2>2, SMTT(30)
<1>7. RequestsStayTrue
  BY <1>6, Zenon DEF RequestsStayTrue
<1>8. CASE UNCHANGED ballots
  BY <1>1, <1>2, <1>7, <1>8, VoteKept, ZenonT(30)
<1>9. CASE LogOk(r, log[n]) /\ ballots' = ballots \cup {b0}
  <2>1. b0[1] = n /\ b0[2] = r.term /\ b0[3] = r.cand
    BY Zenon
  <2> HIDE DEF b0
  <2>2. BallotsBegun'
    <3> SUFFICES ASSUME NEW b \in ballots' PROVE b[2] <= currentTerm'[b[3]]
      BY Zenon DEF BallotsBegun
    <3>1. CASE b \in ballots
      BY <3>1, <1>2, BallotsBegunKept, Zenon DEF VoteInv
    <3>2. CASE b = b0
      <4>1. /\ currentTerm[r.cand] \in Nat /\ currentTerm'[r.cand] \in Nat
            /\ currentTerm[r.cand] <= currentTerm'[r.cand]
        BY <1>2, <1>3, Zenon DEF Sound, LogTypes, TermsRise
      <4> QED
        BY <3>2, <4>1, <1>3, <2>1, SMTT(30)
    <3> QED
      BY <1>9, <3>1, <3>2, Zenon
  <2>3. VotersServed'
    <3> SUFFICES ASSUME NEW b \in ballots', Running(b[3], b[2])',
                        NEW t \in DOMAIN leaderLog', NEW i \in Nat, t < b[2],
                        Acked(acks', b[1], t, i), Own(leaderLog', t, i),
                        Choosable(acks', currentTerm', t, i)
                 PROVE  Agree(log'[b[3]], leaderLog'[t], i)
      BY Zenon DEF VotersServed
    <3>1. CASE b \in ballots
      <4>1. RoleStays(b[3], Candidate)
        BY <3>1, <1>1, Zenon DEF CandidatesStay, Sound, StateTypeOK, HistoryTypeOK
      <4> QED
        BY <3>1, <4>1, <1>2, ServedKept, Zenon
    <3>2. CASE b = b0
      <4>1. Choosable(acks, currentTerm, t, i)
        <5>1. \A v \in Server : /\ currentTerm[v] \in Nat /\ currentTerm'[v] \in Nat
                                /\ currentTerm[v] <= currentTerm'[v]
          BY <1>2, Zenon DEF Sound, LogTypes, TermsRise
        <5>2. t \in Nat
          BY <1>2, SoundTypes, Zenon
        <5> QED
          BY <1>2, <5>1, <5>2, ChoosableBefore, ZenonT(30)
      <4>2. Agree(log[n], leaderLog[t], i)
        BY <3>2, <4>1, <1>2, <1>3, <2>1, ZenonT(30) DEF AckInv, AckedKept
      <4>3. Running(r.cand, r.term)
        BY <3>2, <1>1, <1>2, <1>3, <2>1, RunningKept, ZenonT(30) DEF CandidatesStay
      <4>4. /\ r.lastIdx = LastLogInfo(log[r.cand]).index
            /\ r.lastTerm = LastLogInfo(log[r.cand]).term
        BY <4>3, <1>3, Zenon DEF VoteInv, RequestsTrue
      <4>5. Agree(log[r.cand], leaderLog[t], i)
        BY <4>1, <4>2, <4>4, <1>2, <1>3, <1>9, UpToDate, ZenonT(30)
      <4> QED
        BY <3>2, <4>5, <1>2, <2>1, Zenon
    <3> QED
      BY <1>9, <3>1, <3>2, ZenonT(30)
  <2>4. RequestsTrue'
    <3> SUFFICES ASSUME NEW s \in voteRpcs', s.phase = "req", Running(s.cand, s.term)'
                 PROVE  /\ s.lastIdx = LastLogInfo(log'[s.cand]).index
                        /\ s.lastTerm = LastLogInfo(log'[s.cand]).term
      BY Zenon DEF RequestsTrue
    <3>1. s \in voteRpcs /\ s.cand \in Server
      BY <1>6, Zenon DEF Sound, StateTypeOK, NetworkTypeOK, VoteRpc
    <3>2. Running(s.cand, s.term) /\ log'[s.cand] = log[s.cand]
      BY <3>1, <1>1, <1>2, RunningKept, Zenon DEF CandidatesStay
    <3> QED
      BY <3>1, <3>2, Zenon DEF VoteInv, RequestsTrue
  <2> QED
    BY <2>2, <2>3, <2>4, Zenon DEF VoteInv
<1> QED
  BY <1>5, <1>8, <1>9, Zenon

LEMMA VoteSendRequestVote ==
  ASSUME Sound, Sound', AckInv, VoteInv, NEW r \in voteRpcs, SendRequestVote(r)
  PROVE  VoteInv'
<1> DEFINE last == LastLogInfo(log[r.cand])
           q == VoteRequest(r, last)
<1>1. /\ voteRpcs' = (voteRpcs \ {r}) \cup {q}
      /\ UNCHANGED <<logVars, historyVars>>
  BY Zenon DEF SendRequestVote
<1>2. UNCHANGED <<log, ballots>>
  BY <1>1, Zenon DEF logVars, historyVars
<1>3. Quiet /\ CandidatesStay
  BY KindElsewhere, Zenon
<1>4. q.cand = r.cand /\ q.lastIdx = last.index /\ q.lastTerm = last.term
  <2>1. r \in VoteRpc
    BY Zenon DEF Sound, StateTypeOK, NetworkTypeOK
  <2> HIDE DEF last
  <2> QED
    BY <2>1, Zenon DEF VoteRequest, VoteRpc
<1> HIDE DEF q
<1>5. RequestsStayTrue
  <2> SUFFICES ASSUME NEW s \in voteRpcs', s \notin voteRpcs
               PROVE  /\ s.lastIdx = LastLogInfo(log'[s.cand]).index
                      /\ s.lastTerm = LastLogInfo(log'[s.cand]).term
    BY Zenon DEF RequestsStayTrue
  <2>1. s = q
    BY <1>1, Zenon
  <2> QED
    BY <2>1, <1>2, <1>4, Zenon
<1> QED
  BY <1>2, <1>3, <1>5, VoteKept, Zenon DEF AnyKind

(* The steps that neither vote nor ask for votes.                          *)
LEMMA VoteElsewhere ==
  ASSUME Sound, Sound', AckInv, VoteInv, AnyKind, CandidatesStay,
         UNCHANGED ballots, voteRpcs' \subseteq voteRpcs
  PROVE  VoteInv'
  BY VoteKept, Zenon DEF RequestsStayTrue

LEMMA VoteStep ==
  ASSUME DurableRestarts, LogsSurvive, Sound, Sound', FilesCurrent, AckInv, VoteInv,
         PlainNext \/ UNCHANGED vars
  PROVE  VoteInv'
<1>1. AnyKind
  BY StepKinds, Zenon
<1>2. ASSUME UNCHANGED vars PROVE VoteInv'
  <2>1. UNCHANGED <<ballots, voteRpcs>>
    BY <1>2, Zenon DEF vars, historyVars
  <2> QED
    BY <1>1, <1>2, <2>1, KindElsewhere, VoteElsewhere, Zenon
<1>3. ASSUME NEW n \in Server, NEW reached \in SUBSET Peers(n), SendHeartbeats(n, reached)
      PROVE  VoteInv'
  <2>1. UNCHANGED <<ballots, voteRpcs>>
    BY <1>3, Zenon DEF SendHeartbeats, historyVars
  <2> QED
    BY <1>1, <1>3, <2>1, KindElsewhere, VoteElsewhere, Zenon
<1>4. ASSUME NEW n \in Server, ApplyPendingEntries(n)
      PROVE  VoteInv'
  <2>1. UNCHANGED <<ballots, voteRpcs>>
    BY <1>4, Zenon DEF ApplyPendingEntries, historyVars
  <2> QED
    BY <1>1, <1>4, <2>1, KindElsewhere, VoteElsewhere, ZenonT(30)
<1>5. ASSUME NEW r \in leaderRpcs, SendAppendEntries(r)
      PROVE  VoteInv'
  <2>1. UNCHANGED <<ballots, voteRpcs>>
    <3>1. UNCHANGED <<historyVars, voteRpcs>>
      BY <1>5, Zenon DEF SendAppendEntries
    <3> QED
      BY <3>1, Zenon DEF historyVars
  <2> QED
    BY <1>1, <1>5, <2>1, KindElsewhere, VoteElsewhere, Zenon
<1>6. ASSUME LoseRpc PROVE VoteInv'
  <2>1. UNCHANGED ballots /\ voteRpcs' \subseteq voteRpcs
    BY <1>6, Zenon DEF LoseRpc, historyVars
  <2> QED
    BY <1>1, <1>6, <2>1, KindElsewhere, VoteElsewhere, Zenon
<1>7. ASSUME NEW n \in Server, BecomeLeader(n)
      PROVE  VoteInv'
  <2>1. UNCHANGED <<ballots, voteRpcs>>
    BY <1>7, Zenon DEF BecomeLeader
  <2> QED
    BY <1>1, <1>7, <2>1, KindBecomeLeader, VoteElsewhere, ZenonT(30)
<1>8. ASSUME NEW n \in Server, NEW reached \in SUBSET Peers(n),
             ReplicateCommand(n, reached)
      PROVE  VoteInv'
  <2>1. UNCHANGED <<historyVars, voteRpcs, electionVars>>
    BY <1>8, Zenon DEF ReplicateCommand
  <2>2. UNCHANGED <<ballots, voteRpcs>>
    BY <2>1, Zenon DEF historyVars
  <2>3. CandidatesStay
    BY <2>1, Zenon DEF electionVars, CandidatesStay, RoleStays
  <2> QED
    BY <1>1, <2>2, <2>3, VoteElsewhere, Zenon
<1>9. ASSUME NEW n \in Server, Restart(n)
      PROVE  VoteInv'
  <2>1. UNCHANGED ballots /\ voteRpcs' = {r \in voteRpcs : r.cand = n => r.phase = "req"}
    BY <1>9, Zenon DEF Restart, Reboot
  <2>2. CandidatesStay
    BY <1>9, KindRestart, Zenon
  <2> QED
    BY <1>1, <2>1, <2>2, VoteElsewhere, ZenonT(30)
<1>10. ASSUME NEW r \in voteRpcs, HandleVoteReply(r)
       PROVE  VoteInv'
  <2>1. UNCHANGED ballots /\ voteRpcs' = voteRpcs \ {r}
    BY <1>10, Zenon DEF HandleVoteReply
  <2> QED
    BY <1>1, <1>10, <2>1, KindHandleVoteReply, VoteElsewhere, Zenon
<1>11. ASSUME NEW r \in leaderRpcs, AppendEntries(r)
       PROVE  VoteInv'
  <2>1. UNCHANGED <<historyVars, voteRpcs>> \/ r.prev - logBase[r.peer] < 0
    BY <1>11, Zenon DEF AppendEntries
  <2>2. r.prev \in Nat /\ logBase[r.peer] = 0
    BY Zenon DEF Sound, LogTypes, LeaderRpc
  <2>3. UNCHANGED <<ballots, voteRpcs>>
    BY <2>1, <2>2, SMTT(30) DEF historyVars
  <2>4. CandidatesStay
    BY <1>11, KindAppendEntries, Zenon
  <2> QED
    BY <1>1, <2>3, <2>4, VoteElsewhere, Zenon
<1>12. ASSUME NEW r \in leaderRpcs, HandleAppendReply(r)
       PROVE  VoteInv'
  <2>1. UNCHANGED <<historyVars, voteRpcs>>
    BY <1>12, Zenon DEF HandleAppendReply
  <2>2. UNCHANGED <<ballots, voteRpcs>>
    BY <2>1, Zenon DEF historyVars
  <2> QED
    BY <1>1, <1>12, <2>2, KindHandleAppendReply, VoteElsewhere, Zenon
<1> QED
  BY <1>2, <1>3, <1>4, <1>5, <1>6, <1>7, <1>8, <1>9, <1>10, <1>11, <1>12,
     VoteBecomeCandidate, VoteSendRequestVote, VoteRequestVote, StepSplit, ZenonT(30)

-----------------------------------------------------------------------------
(* The files: until a save fails they hold the logs                        *)

LEMMA FilesKept ==
  ASSUME FilesCurrent, UNCHANGED <<log, disk, faults>>
  PROVE  FilesCurrent'
  BY Zenon DEF FilesCurrent

LEMMA FilesFailed ==
  ASSUME Sound, SaveFails
  PROVE  FilesCurrent'
  BY SMTT(30) DEF FilesCurrent, SaveFails, Sound, StateTypeOK, ClientTypeOK

LEMMA FilesSaved ==
  ASSUME Sound, FilesCurrent, NEW n \in Server, NEW t, NEW v, NEW l, Saved(n, t, v, l),
         log' = [log EXCEPT ![n] = l]
  PROVE  FilesCurrent'
<1>1. disk'[n].log = l /\ \A m \in Server \ {n} : disk'[m] = disk[m]
  <2>1. disk' = [disk EXCEPT ![n] = [term |-> t, vote |-> v, log |-> l]]
    BY Zenon DEF Saved
  <2> QED
    BY <2>1, Zenon DEF Sound, StateTypeOK, DiskTypeOK
<1>2. log'[n] = l /\ \A m \in Server \ {n} : log'[m] = log[m]
  BY Zenon DEF Sound, StateTypeOK, LogTypeOK
<1>3. UNCHANGED faults
  BY Zenon DEF Saved
<1> QED
  BY <1>1, <1>2, <1>3, Zenon DEF FilesCurrent

LEMMA FilesStep ==
  ASSUME DurableRestarts, Sound, FilesCurrent, PlainNext \/ UNCHANGED vars
  PROVE  FilesCurrent'
<1>1. ASSUME \/ UNCHANGED vars \/ LoseRpc
             \/ \E n \in Server : BecomeLeader(n) \/ ApplyPendingEntries(n)
             \/ \E n \in Server : \E reached \in SUBSET Peers(n) : SendHeartbeats(n, reached)
             \/ \E r \in voteRpcs : SendRequestVote(r) \/ HandleVoteReply(r)
             \/ \E r \in leaderRpcs : SendAppendEntries(r) \/ HandleAppendReply(r)
      PROVE  FilesCurrent'
  <2>1. UNCHANGED <<logVars, disk, faults>> \/ UNCHANGED <<log, disk, faults>>
        \/ UNCHANGED <<logVars, diskVars, faults>> \/ UNCHANGED <<log, diskVars, faults>>
    BY <1>1, ZenonT(30) DEF LoseRpc, BecomeLeader, ApplyPendingEntries, SendHeartbeats,
       SendRequestVote, HandleVoteReply, SendAppendEntries, HandleAppendReply, vars
  <2>2. UNCHANGED <<log, disk, faults>>
    BY <2>1, Zenon DEF logVars, diskVars
  <2> QED
    BY <2>2, FilesKept, Zenon
<1>2. ASSUME NEW n \in Server, Restart(n)
      PROVE  FilesCurrent'
  <2>1. /\ log' = [log EXCEPT ![n] = disk[n].log]
        /\ disk' = [disk EXCEPT ![n] = disk[n]] /\ UNCHANGED faults
    BY <1>2, Zenon DEF Restart, Reboot
  <2>2. UNCHANGED disk
    BY <2>1, Zenon DEF Sound, StateTypeOK, DiskTypeOK
  <2>3. log'[n] = disk[n].log /\ \A m \in Server \ {n} : log'[m] = log[m]
    BY <2>1, Zenon DEF Sound, StateTypeOK, LogTypeOK
  <2> QED
    BY <2>1, <2>2, <2>3, Zenon DEF FilesCurrent
<1>3. ASSUME NEW n \in Server, NEW t, NEW v, Saved(n, t, v, log[n]), UNCHANGED log
      PROVE  FilesCurrent'
  <2>1. log' = [log EXCEPT ![n] = log[n]]
    BY <1>3, Zenon DEF Sound, StateTypeOK, LogTypeOK
  <2> QED
    BY <1>3, <2>1, FilesSaved, Zenon
<1>4. ASSUME NEW n \in Server, NEW reached, BecomeCandidate(n, reached)
      PROVE  FilesCurrent'
  <2>1. /\ SaveFails \/ \E t, v : Saved(n, t, v, log[n])
        /\ UNCHANGED logVars
    BY <1>4, Zenon DEF BecomeCandidate
  <2>2. UNCHANGED log
    BY <2>1, Zenon DEF logVars
  <2> QED
    BY <1>3, <2>1, <2>2, FilesFailed, Zenon
<1>5. ASSUME NEW r \in voteRpcs, RequestVote(r)
      PROVE  FilesCurrent'
  <2>1. /\ \/ SaveFails \/ UNCHANGED <<disk, faults>>
           \/ \E t, v : Saved(r.peer, t, v, log[r.peer])
        /\ UNCHANGED logVars
    BY <1>5, Zenon DEF RequestVote
  <2>2. UNCHANGED log /\ r.peer \in Server
    BY <2>1, Zenon DEF logVars, Sound, StateTypeOK, NetworkTypeOK, VoteRpc
  <2> QED
    BY <1>3, <2>1, <2>2, FilesFailed, FilesKept, Zenon
<1>6. ASSUME NEW r \in leaderRpcs, AppendEntries(r)
      PROVE  FilesCurrent'
  <2> DEFINE n == r.peer
             merged == MergeEntries(log[n], r.prev - logBase[n], r.entries)
  <2>1. \/ UNCHANGED <<log, disk, faults>>
        \/ UNCHANGED <<logVars, diskVars, faults>>
        \/ /\ log' = [log EXCEPT ![n] = merged]
           /\ \/ merged = log[n] /\ UNCHANGED <<disk, faults>>
              \/ \E t, v : Saved(n, t, v, merged)
              \/ SaveFails
        \/ r.prev - logBase[n] < 0
    BY <1>6, Zenon DEF AppendEntries
  <2>2. n \in Server /\ ~(r.prev - logBase[n] < 0)
    BY SMTT(30) DEF Sound, LogTypes, LeaderRpc
  <2> HIDE DEF n, merged
  <2>3. ASSUME merged = log[n], log' = [log EXCEPT ![n] = merged], UNCHANGED <<disk, faults>>
        PROVE  UNCHANGED <<log, disk, faults>>
    BY <2>3, Zenon DEF Sound, StateTypeOK, LogTypeOK
  <2>4. UNCHANGED <<logVars, diskVars, faults>> => UNCHANGED <<log, disk, faults>>
    BY Zenon DEF logVars, diskVars
  <2> QED
    BY <2>1, <2>2, <2>3, <2>4, FilesFailed, FilesKept, FilesSaved, ZenonT(30)
<1>7. ASSUME NEW n \in Server, NEW reached, ReplicateCommand(n, reached)
      PROVE  FilesCurrent'
  <2>1. \/ SaveFails
        \/ \E t, v, l : Saved(n, t, v, l) /\ log' = [log EXCEPT ![n] = l]
    BY <1>7, Zenon DEF ReplicateCommand
  <2> QED
    BY <2>1, FilesFailed, FilesSaved, Zenon
<1> QED
  BY <1>1, <1>2, <1>4, <1>5, <1>6, <1>7, StepSplit, ZenonT(30)

-----------------------------------------------------------------------------
(* What leaders count                                                      *)

(* matchIndex and the replies on their way report acknowledgements.        *)
CountsTrue ==
    \A l \in Server : state[l] = Leader =>
        \A p \in Server : matchIndex[l][p] > 0
          => <<p, currentTerm[l], matchIndex[l][p]>> \in acks

RepliesTrue ==
    \A r \in leaderRpcs : r.phase = "resp" /\ r.success
        => <<r.peer, r.term, r.match>> \in acks

CountInv == CountsTrue /\ RepliesTrue

RepliesStayTrue ==
    \A r \in leaderRpcs' : r.phase = "resp" /\ r.success
        => r \in leaderRpcs \/ <<r.peer, r.term, r.match>> \in acks'

LEMMA AcksKept ==
  ASSUME AnyKind
  PROVE  acks \subseteq acks'
  BY Zenon DEF AnyKind, Quiet, Merging, Electing, Appending

LEMMA CountKept ==
  ASSUME CountInv, AnyKind, RepliesStayTrue,
         \A l \in Server : state'[l] = Leader =>
             RoleStays(l, Leader) /\ matchIndex'[l] = matchIndex[l]
  PROVE  CountInv'
<1>1. acks \subseteq acks'
  BY AcksKept, Zenon
<1>2. CountsTrue'
  BY <1>1, Zenon DEF CountInv, CountsTrue, RoleStays
<1>3. RepliesTrue'
  BY <1>1, Zenon DEF CountInv, RepliesTrue, RepliesStayTrue
<1> QED
  BY <1>2, <1>3, Zenon DEF CountInv

LEMMA CountElsewhere ==
  ASSUME CountInv, AnyKind, LeadersStay, UNCHANGED matchIndex,
         leaderRpcs' \subseteq leaderRpcs
  PROVE  CountInv'
<1>1. RepliesStayTrue
  BY Zenon DEF RepliesStayTrue
<1> QED
  BY <1>1, CountKept, Zenon DEF LeadersStay

LEMMA CountSendHeartbeats ==
  ASSUME Sound, CountInv, NEW n \in Server, NEW reached \in SUBSET Peers(n),
         SendHeartbeats(n, reached)
  PROVE  CountInv'
<1>1. AnyKind /\ LeadersStay
  BY KindElsewhere, Zenon DEF AnyKind
<1>2. UNCHANGED matchIndex /\ Spawn(n, reached, commitIndex[n])
  BY Zenon DEF SendHeartbeats, leaderVars
<1>3. RepliesStayTrue
  BY <1>2, SpawnedCalls, ZenonT(30) DEF RepliesStayTrue
<1> QED
  BY <1>1, <1>2, <1>3, CountKept, ZenonT(30) DEF LeadersStay

LEMMA CountSendAppendEntries ==
  ASSUME Sound, CountInv, NEW r \in leaderRpcs, SendAppendEntries(r)
  PROVE  CountInv'
<1>1. AnyKind /\ LeadersStay
  BY KindElsewhere, Zenon DEF AnyKind
<1>2. /\ \/ leaderRpcs' = leaderRpcs \ {r}
         \/ Advance(r, [r EXCEPT !.phase = "icall"])
         \/ \E prev, pterm, es : Advance(r, AppendRequest(r, prev, pterm, es))
      /\ UNCHANGED leaderVars
  BY Zenon DEF SendAppendEntries
<1>3. r \in LeaderRpc
  BY Zenon DEF Sound, LogTypes
<1>4. /\ [r EXCEPT !.phase = "icall"].phase = "icall"
      /\ \A prev, pterm, es : AppendRequest(r, prev, pterm, es).phase = "req"
  BY <1>3, Zenon DEF AppendRequest, LeaderRpc
<1>5. RepliesStayTrue
  BY <1>2, <1>4, Zenon DEF RepliesStayTrue, Advance
<1> QED
  BY <1>1, <1>2, <1>5, CountKept, ZenonT(30) DEF LeadersStay, leaderVars

LEMMA CountAppendEntries ==
  ASSUME Sound, CountInv, NEW r \in leaderRpcs, AppendEntries(r)
  PROVE  CountInv'
<1>1. LeadersStay /\ Answered(r)
  BY KindAppendEntries, Zenon
<1>2. AnyKind
  BY KindAppendEntries, Zenon DEF AnyKind
<1>3. UNCHANGED matchIndex
  <2>1. UNCHANGED leaderVars \/ r.prev - logBase[r.peer] < 0
    BY Zenon DEF AppendEntries
  <2>2. r.prev \in Nat /\ logBase[r.peer] = 0
    BY Zenon DEF Sound, LogTypes, LeaderRpc
  <2> QED
    BY <2>1, <2>2, SMTT(30) DEF leaderVars
<1>4. RepliesStayTrue
  <2>1. r \in LeaderRpc
    BY Zenon DEF Sound, LogTypes
  <2>2. \A t : AppendReply(r, t, FALSE).success = FALSE
    BY <2>1, Zenon DEF AppendReply, LeaderRpc
  <2> DEFINE s == AppendReply(r, r.term, TRUE)
  <2>3. s.peer = r.peer /\ s.term = r.term /\ s.match = r.prev + Len(r.entries)
    BY <2>1, Zenon DEF AppendReply, LeaderRpc
  <2> HIDE DEF s
  <2>4. CASE leaderRpcs' = leaderRpcs \ {r}
    BY <2>4, Zenon DEF RepliesStayTrue
  <2>5. CASE \E t \in Nat : Advance(r, AppendReply(r, t, FALSE))
    BY <2>2, <2>5, Zenon DEF RepliesStayTrue, Advance
  <2>6. CASE /\ Advance(r, s)
             /\ acks' = acks \cup {<<r.peer, r.term, r.prev + Len(r.entries)>>}
    BY <2>3, <2>6, Zenon DEF RepliesStayTrue, Advance
  <2> QED
    BY <1>1, <2>4, <2>5, <2>6, ZenonT(30) DEF Answered, s
<1> QED
  BY <1>1, <1>2, <1>3, <1>4, CountKept, ZenonT(30) DEF LeadersStay

LEMMA CountHandleAppendReply ==
  ASSUME Sound, CountInv, NEW r \in leaderRpcs, HandleAppendReply(r)
  PROVE  CountInv'
<1> DEFINE n == r.leader
<1>1. AnyKind /\ LeadersStay /\ UNCHANGED acks
  BY KindHandleAppendReply, Zenon DEF AnyKind, Quiet
<1>2. r \in LeaderRpc /\ n \in Server /\ r.peer \in Server /\ r.match \in Nat
  BY Zenon DEF Sound, LogTypes, LeaderRpc
<1>3. /\ r.phase = "resp"
      /\ leaderRpcs' = leaderRpcs \ {r} \/ Advance(r, Retry(r))
      /\ \/ UNCHANGED leaderVars
         \/ UNCHANGED matchIndex
         \/ /\ Matched(n, r.peer, r.match) /\ r.success
            /\ currentTerm[n] = r.term /\ UNCHANGED electionVars
  BY Zenon DEF HandleAppendReply
<1>4. RepliesStayTrue
  <2>1. Retry(r).phase = "call"
    BY <1>2, RetryFields, Zenon
  <2> QED
    BY <1>3, <2>1, Zenon DEF RepliesStayTrue, Advance
<1>5. CASE UNCHANGED leaderVars \/ UNCHANGED matchIndex
  BY <1>1, <1>4, <1>5, CountKept, Zenon DEF leaderVars, LeadersStay
<1>6. CASE /\ Matched(n, r.peer, r.match) /\ r.success
           /\ currentTerm[n] = r.term /\ UNCHANGED electionVars
  <2> DEFINE m == IF r.match > matchIndex[n][r.peer] THEN r.match
                                                     ELSE matchIndex[n][r.peer]
  <2>1. matchIndex' = [matchIndex EXCEPT ![n][r.peer] = m]
    BY <1>6, Zenon DEF Matched
  <2>2. /\ matchIndex'[n][r.peer] = m
        /\ \A p \in Server : p # r.peer => matchIndex'[n][p] = matchIndex[n][p]
        /\ \A l \in Server : l # n => matchIndex'[l] = matchIndex[l]
    <3> HIDE DEF m
    <3> QED
      BY <1>2, <2>1, Zenon DEF Sound, StateTypeOK, LeaderTypeOK
  <2>3. <<r.peer, currentTerm[n], r.match>> \in acks
    BY <1>3, <1>6, Zenon DEF CountInv, RepliesTrue
  <2>4. CountsTrue'
    <3> SUFFICES ASSUME NEW l \in Server, state'[l] = Leader, NEW p \in Server,
                        matchIndex'[l][p] > 0
                 PROVE  <<p, currentTerm'[l], matchIndex'[l][p]>> \in acks'
      BY Zenon DEF CountsTrue
    <3>1. state[l] = Leader /\ currentTerm'[l] = currentTerm[l]
      BY <1>6, Zenon DEF electionVars
    <3>2. CASE l = n /\ p = r.peer
      BY <1>1, <2>2, <2>3, <3>1, <3>2, ZenonT(30) DEF CountInv, CountsTrue
    <3>3. CASE l # n \/ p # r.peer
      <4>1. matchIndex'[l][p] = matchIndex[l][p]
        BY <2>2, <3>3, Zenon
      <4> QED
        BY <1>1, <3>1, <4>1, Zenon DEF CountInv, CountsTrue
    <3> QED
      BY <3>2, <3>3, Zenon
  <2>5. RepliesTrue'
    BY <1>1, <1>4, Zenon DEF CountInv, RepliesTrue, RepliesStayTrue
  <2> QED
    BY <2>4, <2>5, Zenon DEF CountInv
<1> QED
  BY <1>3, <1>5, <1>6, Zenon

LEMMA CountReplicateCommand ==
  ASSUME Sound, CountInv, NEW n \in Server, NEW reached \in SUBSET Peers(n),
         ReplicateCommand(n, reached)
  PROVE  CountInv'
<1>1. /\ LeadersStay
      /\ \/ Quiet /\ UNCHANGED leaderRpcs
         \/ \E e \in Entry : Appending(n, e) /\ \E commit : Spawn(n, reached, commit)
  <2>1. /\ LeadersStay
        /\ \/ Quiet /\ UNCHANGED <<leaderRpcs, commitIndex>>
           \/ \E e \in Entry :
                /\ Appending(n, e)
                /\ LET commit == UpdateCommitIndex(n, Append(log[n], e), matchIndex[n])
                   IN  Commit(n, commit) /\ Spawn(n, reached, commit)
    BY KindReplicateCommand, Zenon
  <2> QED
    BY <2>1, Zenon
<1>2. AnyKind
  BY <1>1, Zenon DEF AnyKind
<1>3. UNCHANGED matchIndex
  <2>1. UNCHANGED leaderVars
    BY Zenon DEF ReplicateCommand
  <2> QED
    BY <2>1, Zenon DEF leaderVars
<1>4. RepliesStayTrue
  BY <1>1, SpawnedCalls, Zenon DEF RepliesStayTrue
<1> QED
  BY <1>1, <1>2, <1>3, <1>4, CountKept, ZenonT(30) DEF LeadersStay

LEMMA CountBecomeLeader ==
  ASSUME Sound, CountInv, NEW n \in Server, BecomeLeader(n)
  PROVE  CountInv'
<1>1. \/ Quiet /\ LeadersStay /\ UNCHANGED matchIndex
      \/ /\ Electing(n) /\ \A m \in Server \ {n} : RoleStays(m, Leader)
         /\ \A p \in Server : matchIndex'[n][p] = 0
         /\ \A m \in Server \ {n} : matchIndex'[m] = matchIndex[m]
  BY KindBecomeLeader, Zenon
<1>2. UNCHANGED leaderRpcs
  BY Zenon DEF BecomeLeader
<1>3. CASE Quiet /\ LeadersStay /\ UNCHANGED matchIndex
  BY <1>2, <1>3, CountElsewhere, Zenon DEF AnyKind
<1>4. CASE /\ Electing(n) /\ \A m \in Server \ {n} : RoleStays(m, Leader)
           /\ \A p \in Server : matchIndex'[n][p] = 0
           /\ \A m \in Server \ {n} : matchIndex'[m] = matchIndex[m]
  <2>1. UNCHANGED acks
    BY <1>4, Zenon DEF Electing
  <2>2. CountsTrue'
    <3> SUFFICES ASSUME NEW l \in Server, state'[l] = Leader, NEW p \in Server,
                        matchIndex'[l][p] > 0
                 PROVE  <<p, currentTerm'[l], matchIndex'[l][p]>> \in acks'
      BY Zenon DEF CountsTrue
    <3>1. l # n
      BY <1>4, SMTT(30)
    <3> QED
      BY <1>4, <2>1, <3>1, Zenon DEF CountInv, CountsTrue, RoleStays
  <2>3. RepliesTrue'
    BY <1>2, <2>1, Zenon DEF CountInv, RepliesTrue
  <2> QED
    BY <2>2, <2>3, Zenon DEF CountInv
<1> QED
  BY <1>1, <1>3, <1>4, Zenon

LEMMA CountRestart ==
  ASSUME DurableRestarts, LogsSurvive, FilesCurrent, Sound, CountInv, NEW n \in Server,
         Restart(n)
  PROVE  CountInv'
<1>1. /\ matchIndex' = [matchIndex EXCEPT ![n] = [p \in Server |-> 0]]
      /\ state' = [state EXCEPT ![n] = Follower]
      /\ leaderRpcs' = {r \in leaderRpcs \ {} : r.leader = n => r.phase \in {"req", "ireq"}}
  BY Zenon DEF Restart, Reboot
<1>2. AnyKind /\ LeadersStay
  BY KindRestart, Zenon DEF AnyKind
<1>3. state'[n] # Leader
  BY <1>1, Zenon DEF Sound, StateTypeOK, ElectionTypeOK, Follower, Leader
<1>4. \A m \in Server \ {n} : matchIndex'[m] = matchIndex[m]
  BY <1>1, Zenon DEF Sound, StateTypeOK, LeaderTypeOK
<1>5. RepliesStayTrue
  BY <1>1, Zenon DEF RepliesStayTrue
<1> QED
  BY <1>2, <1>3, <1>4, <1>5, CountKept, ZenonT(30) DEF LeadersStay

LEMMA CountStep ==
  ASSUME DurableRestarts, LogsSurvive, Sound, FilesCurrent, CountInv,
         PlainNext \/ UNCHANGED vars
  PROVE  CountInv'
<1>1. ASSUME \/ UNCHANGED vars \/ LoseRpc
             \/ \E n \in Server :
                  \/ ApplyPendingEntries(n)
                  \/ \E reached \in SUBSET Peers(n) : BecomeCandidate(n, reached)
             \/ \E r \in voteRpcs :
                  SendRequestVote(r) \/ RequestVote(r) \/ HandleVoteReply(r)
      PROVE  CountInv'
  <2>1. UNCHANGED leaderVars /\ leaderRpcs' \subseteq leaderRpcs
    <3>1. ASSUME LoseRpc PROVE UNCHANGED leaderVars /\ leaderRpcs' \subseteq leaderRpcs
      BY <3>1, Zenon DEF LoseRpc
    <3>2. ASSUME ~LoseRpc PROVE UNCHANGED <<leaderVars, leaderRpcs>>
      BY <1>1, <3>2, ZenonT(30) DEF ApplyPendingEntries, BecomeCandidate, SendRequestVote,
         RequestVote, HandleVoteReply, vars
    <3> QED
      BY <3>1, <3>2, Zenon
  <2>2. Quiet /\ LeadersStay
    BY <1>1, KindElsewhere, KindBecomeCandidate, KindRequestVote, KindHandleVoteReply,
       Zenon
  <2> QED
    BY <2>1, <2>2, CountElsewhere, Zenon DEF AnyKind, leaderVars
<1> QED
  BY <1>1, CountBecomeLeader, CountReplicateCommand, CountRestart,
     CountSendHeartbeats, CountSendAppendEntries, CountAppendEntries,
     CountHandleAppendReply, StepSplit, ZenonT(30)

-----------------------------------------------------------------------------
(* The invariant of acknowledgements, and what it says of matchIndex       *)

ChoiceInv == FilesCurrent /\ AckInv /\ VoteInv /\ CountInv

LEMMA ChoiceInit == Init => ChoiceInv
<1> SUFFICES ASSUME Init PROVE ChoiceInv
  BY Zenon
<1>1. FilesCurrent
  BY Zenon DEF Init, FilesCurrent
<1>2. AckInv
  BY SMTT(30) DEF Init, AckInv, AcksOfLeaders, AckedKept, LeadersAgree, LeadersAck, Acked
<1>3. VoteInv
  BY Zenon DEF Init, VoteInv, BallotsBegun, VotersServed, RequestsTrue
<1>4. CountInv
  BY SMTT(30) DEF Init, CountInv, CountsTrue, RepliesTrue
<1> QED
  BY <1>1, <1>2, <1>3, <1>4, Zenon DEF ChoiceInv

LEMMA ChoiceStep ==
  ASSUME DurableRestarts, LogsSurvive, Sound, Sound', ChoiceInv,
         PlainNext \/ UNCHANGED vars
  PROVE  ChoiceInv'
<1>1. FilesCurrent /\ AckInv /\ VoteInv /\ CountInv
  BY Zenon DEF ChoiceInv
<1>2. AnyKind
  BY <1>1, StepKinds, ZenonT(30)
<1> QED
  BY <1>1, <1>2, FilesStep, AckStep, VoteStep, CountStep, ZenonT(30) DEF ChoiceInv

(* An entry below a leader's matchIndex for a peer was acknowledged, so
   the peer still has it. *)
LEMMA CountsAreSound ==
  ASSUME Sound, ChoiceInv
  PROVE  MatchIndexSound
<1> SUFFICES ASSUME NEW l \in Server, NEW p \in Peers(l), state[l] = Leader,
                    currentTerm[p] <= currentTerm[l],
                    NEW i \in 1 .. matchIndex[l][p], Covers(l, i)
             PROVE  Covers(p, i) /\ At(p, i) = At(l, i)
  BY Zenon DEF MatchIndexSound
<1> DEFINE T == currentTerm[l]
           k == matchIndex[l][p]
<1>1. p \in Server /\ k \in Nat /\ i \in Nat /\ i <= k /\ 0 < k /\ 0 < i
  <2>1. p \in Server /\ k \in Nat
    BY Zenon DEF Peers, Sound, StateTypeOK, LeaderTypeOK
  <2> QED
    BY <2>1, InRange, Zenon
<1>2. <<p, T, k>> \in acks
  BY <1>1, Zenon DEF ChoiceInv, CountInv, CountsTrue
<1>3. Acked(acks, p, T, i)
  BY <1>1, <1>2, Zenon DEF Acked
<1>4. T \in Nat /\ T <= currentTerm[p] /\ T \in DOMAIN leaderLog
  BY <1>1, <1>3, AckedTerm, ZenonT(30) DEF ChoiceInv, AckInv
<1>5. currentTerm[p] = T
  BY <1>1, <1>4, SoundTypes, LeqAntisymmetric, ZenonT(30)
<1>6. Agree(log[p], leaderLog[T], i)
  BY <1>1, <1>3, <1>4, <1>5, ZenonT(30) DEF ChoiceInv, AckInv, AckedKept
<1>7. log[l] = leaderLog[T]
  BY Zenon DEF Sound, LogInv, LeadersInv
<1>8. /\ logBase[l] = 0 /\ logBase[p] = 0
      /\ Len(log[p]) \in Nat /\ Len(log[l]) \in Nat
  BY <1>1, SoundTypes, Zenon DEF Sound, LogTypes
<1>9. i \in 1 .. i /\ i - 0 = i
  BY <1>1, InRange, Zenon
<1>10. i \in 1 .. Len(log[p]) /\ log[p][i] = log[l][i]
  BY <1>1, <1>6, <1>7, <1>8, <1>9, RangeGrows, ZenonT(30) DEF Agree
<1> QED
  BY <1>8, <1>9, <1>10, Zenon DEF Covers, At

-----------------------------------------------------------------------------
(* Commitment: what is counted as committed has been chosen                *)

(* The first k entries of l have been chosen, in term u or before.         *)
CommitOk(L, A, l, u, k) ==
    k = 0 \/ \E t \in DOMAIN L : \E j \in Nat :
        t <= u /\ k <= j /\ Chosen(L, A, t, j) /\ Agree(l, L[t], k)

(* commitIndex, and the commit index a leader's call carries, are of       *)
(* chosen entries; what was applied is what the log still has.             *)
CommitsChosen ==
    \A n \in Server : CommitOk(leaderLog, acks, log[n], currentTerm[n], commitIndex[n])

CallsChosen ==
    \A r \in leaderRpcs : CommitOk(leaderLog, acks, leaderLog[r.term], r.term, r.commit)

AppliedKept ==
    \A n \in Server :
        /\ lastApplied[n] <= commitIndex[n] /\ Len(kv[n]) = lastApplied[n]
        /\ Agree(kv[n], log[n], lastApplied[n])

CommitInv == CommitsChosen /\ CallsChosen /\ AppliedKept

LEMMA LeadersGrow ==
  ASSUME Sound, Sound', AnyKind, NEW t \in DOMAIN leaderLog
  PROVE  /\ t \in DOMAIN leaderLog'
         /\ Agree(leaderLog[t], leaderLog'[t], Len(leaderLog[t]))
<1>1. Agree(leaderLog[t], leaderLog[t], Len(leaderLog[t]))
  BY SoundTypes, SMTT(30) DEF Agree
<1>2. ASSUME NEW n \in Server, Electing(n)
      PROVE  t \in DOMAIN leaderLog' /\ leaderLog'[t] = leaderLog[t]
  BY <1>2, ElectingEffect, Zenon
<1>3. ASSUME NEW n \in Server, NEW e \in Entry, Appending(n, e)
      PROVE  /\ t \in DOMAIN leaderLog'
             /\ Agree(leaderLog[t], leaderLog'[t], Len(leaderLog[t]))
  BY <1>3, AppendingEffect, Zenon
<1>4. Quiet \/ (\E r \in leaderRpcs : Merging(r)) => UNCHANGED leaderLog
  BY Zenon DEF Quiet, Merging
<1> QED
  BY <1>1, <1>2, <1>3, <1>4, ZenonT(30) DEF AnyKind

LEMMA ChosenLater ==
  ASSUME Sound, Sound', AnyKind, NEW t \in DOMAIN leaderLog, NEW j \in Nat,
         Chosen(leaderLog, acks, t, j)
  PROVE  /\ t \in DOMAIN leaderLog' /\ Chosen(leaderLog', acks', t, j)
         /\ Agree(leaderLog[t], leaderLog'[t], j)
<1>1. /\ t \in DOMAIN leaderLog'
      /\ Agree(leaderLog[t], leaderLog'[t], Len(leaderLog[t]))
  BY LeadersGrow, ZenonT(30)
<1>2. /\ leaderLog[t] \in Seq(Entry) /\ leaderLog'[t] \in Seq(Entry)
      /\ Len(leaderLog[t]) \in Nat /\ Len(leaderLog'[t]) \in Nat
  BY <1>1, LenIsNat, Zenon DEF Sound, LogTypes
<1>3. j \in 1 .. Len(leaderLog[t]) /\ leaderLog[t][j].term = t
  BY Zenon DEF Chosen, Own
<1>4. Own(leaderLog', t, j)
  BY <1>1, <1>2, <1>3, RangeGrows, ZenonT(30) DEF Own, Agree
<1>5. Agree(leaderLog[t], leaderLog'[t], j)
  BY <1>1, <1>2, <1>3, InRange, AgreeLess, ZenonT(30)
<1>6. Majority(Holders(acks', t, j))
  <2>1. Holders(acks, t, j) \subseteq Holders(acks', t, j)
    BY AcksKept, Zenon DEF Holders, Acked
  <2>2. Holders(acks, t, j) \in SUBSET Server /\ Holders(acks', t, j) \in SUBSET Server
    BY Zenon DEF Holders
  <2> QED
    BY <2>1, <2>2, MajorityGrows, Zenon DEF Chosen
<1> QED
  BY <1>1, <1>4, <1>5, <1>6, ZenonT(30) DEF Chosen

LEMMA CommitOkLater ==
  ASSUME Sound, Sound', AnyKind, NEW l, NEW m, NEW u \in Nat, NEW w \in Nat, u <= w,
         NEW k \in Nat, CommitOk(leaderLog, acks, l, u, k), Agree(l, m, k)
  PROVE  CommitOk(leaderLog', acks', m, w, k)
<1> SUFFICES ASSUME k # 0 PROVE CommitOk(leaderLog', acks', m, w, k)
  BY Zenon DEF CommitOk
<1>1. PICK t \in DOMAIN leaderLog, j \in Nat :
        /\ t <= u /\ k <= j /\ Chosen(leaderLog, acks, t, j)
        /\ Agree(l, leaderLog[t], k)
  BY Zenon DEF CommitOk
<1>2. /\ t \in DOMAIN leaderLog' /\ Chosen(leaderLog', acks', t, j)
      /\ Agree(leaderLog[t], leaderLog'[t], j)
  BY <1>1, ChosenLater, ZenonT(30)
<1>3. t \in Nat /\ leaderLog[t] \in Seq(Entry) /\ leaderLog'[t] \in Seq(Entry)
  BY <1>2, Zenon DEF Sound, LogTypes
<1>4. Agree(leaderLog[t], leaderLog'[t], k)
  BY <1>1, <1>2, <1>3, AgreeLess, ZenonT(30)
<1>5. Agree(m, leaderLog[t], k)
  BY <1>1, AgreeSymmetric, AgreeTransitive, ZenonT(30)
<1>6. Agree(m, leaderLog'[t], k)
  BY <1>4, <1>5, AgreeTransitive, ZenonT(30)
<1>7. t <= w
  BY <1>1, <1>3, LeqTransitive, Zenon
<1> QED
  BY <1>1, <1>2, <1>6, <1>7, ZenonT(30) DEF CommitOk

LEMMA CommitTypes ==
  ASSUME Sound
  PROVE  /\ \A n \in Server :
              /\ commitIndex[n] \in Nat /\ lastApplied[n] \in Nat
              /\ kv[n] \in Seq(Entry) /\ Len(kv[n]) \in Nat
         /\ \A r \in leaderRpcs :
              /\ r.peer \in Server /\ r.leader \in Server /\ r.term \in Nat
              /\ r.commit \in Nat /\ r.prev \in Nat /\ r.match \in Nat
              /\ r.entries \in Seq(Entry) /\ Len(r.entries) \in Nat
              /\ r.term \in DOMAIN leaderLog
<1>1. \A n \in Server : /\ commitIndex[n] \in Nat /\ lastApplied[n] \in Nat
                        /\ kv[n] \in Seq(Entry) /\ Len(kv[n]) \in Nat
  BY SMTT(30) DEF Sound, StateTypeOK, LogTypeOK
<1>2. \A r \in leaderRpcs :
              /\ r.peer \in Server /\ r.leader \in Server /\ r.term \in Nat
              /\ r.commit \in Nat /\ r.prev \in Nat /\ r.match \in Nat
              /\ r.entries \in Seq(Entry) /\ Len(r.entries) \in Nat
  BY SMTT(30) DEF Sound, LogTypes, LeaderRpc
<1>3. \A r \in leaderRpcs : r.term \in DOMAIN leaderLog
  <2> SUFFICES ASSUME NEW r \in leaderRpcs PROVE r.term \in DOMAIN leaderLog
    BY Zenon
  <2>1. <<r.leader, r.term>> \in elected
    BY Zenon DEF Sound, LogInv, CallsInv, GoodCall
  <2> QED
    BY <2>1, Zenon DEF Sound, LogInv, LeadersInv
<1> QED
  BY <1>1, <1>2, <1>3, ZenonT(30)

(* No step changes what a node counts as committed.                        *)
LEMMA CommittedKept ==
  ASSUME Sound, Sound', AckInv, CommitsChosen, AnyKind, NEW n \in Server
  PROVE  Agree(log[n], log'[n], commitIndex[n])
<1> DEFINE k == commitIndex[n]
<1>1. k \in Nat /\ log[n] \in Seq(Entry) /\ log'[n] \in Seq(Entry)
      /\ Len(log[n]) \in Nat /\ Len(log'[n]) \in Nat
  BY CommitTypes, LenIsNat, ZenonT(30) DEF Sound, LogTypes
<1>2. CommitOk(leaderLog, acks, log[n], currentTerm[n], k)
  BY Zenon DEF CommitsChosen
<1> SUFFICES Agree(log[n], log'[n], k)
  BY Zenon
<1> HIDE DEF k
<1>3. k <= Len(log[n])
  BY <1>1, <1>2, LeqSelf, ZenonT(30) DEF CommitOk, Agree
<1>4. log'[n] = log[n] => Agree(log[n], log'[n], k)
  BY <1>1, <1>3, Zenon DEF Agree
<1>5. Quiet \/ (\E m \in Server : Electing(m)) => log'[n] = log[n]
  BY Zenon DEF Quiet, Electing
<1>6. ASSUME NEW m \in Server, NEW e \in Entry, Appending(m, e)
      PROVE  Agree(log[n], log'[n], k)
  <2>1. Agree(log[n], log'[n], Len(log[n]))
    BY <1>6, AppendingEffect, Zenon
  <2> QED
    BY <2>1, <1>1, <1>3, AgreeLess, ZenonT(30)
<1>7. ASSUME NEW r \in leaderRpcs, Merging(r), r.peer = n, k # 0
      PROVE  Agree(log[n], log'[n], k)
  <2>1. PICK t \in DOMAIN leaderLog, j \in Nat :
          /\ t <= currentTerm[n] /\ k <= j /\ Chosen(leaderLog, acks, t, j)
          /\ Agree(log[n], leaderLog[t], k)
    BY <1>2, <1>7, Zenon DEF CommitOk
  <2>2. Own(leaderLog, t, j) /\ Choosable(acks, currentTerm, t, j)
    BY <2>1, ChosenIsChoosable, Zenon
  <2>3. Agree(log'[n], leaderLog[t], k)
    BY <2>1, <2>2, <1>1, <1>7, MergeKeepsChoosable, ZenonT(30)
  <2> QED
    BY <2>1, <2>3, <1>1, AgreeSymmetric, AgreeTransitive, ZenonT(30)
<1>8. ASSUME NEW r \in leaderRpcs, Merging(r)
      PROVE  Agree(log[n], log'[n], k)
  <2>1. r.peer # n => log'[n] = log[n]
    BY <1>8, Zenon DEF Merging
  <2>2. k = 0 => Agree(log[n], log'[n], k)
    BY <1>1, AgreeOnNone, Zenon
  <2> QED
    BY <1>4, <1>7, <1>8, <2>1, <2>2, ZenonT(30)
<1> QED
  BY <1>4, <1>5, <1>6, <1>8, ZenonT(30) DEF AnyKind

(* The commit index of a node stays, or moves on to what has been chosen.  *)
CommitMoves(n) ==
    \/ commitIndex'[n] = commitIndex[n]
    \/ /\ commitIndex[n] <= commitIndex'[n]
       /\ CommitOk(leaderLog', acks', log'[n], currentTerm'[n], commitIndex'[n])

CallCommits ==
    \A r \in leaderRpcs' :
        \/ \E s \in leaderRpcs : s.term = r.term /\ s.commit = r.commit
        \/ CommitOk(leaderLog', acks', leaderLog'[r.term], r.term, r.commit)

(* What CommittedStable asks of a step.                                    *)
CommitsStay ==
    \A n \in Server : /\ commitIndex[n] <= commitIndex'[n]
                      /\ Agree(log[n], log'[n], commitIndex[n])

LEMMA CommitsKept ==
  ASSUME Sound, Sound', AckInv, CommitInv, AnyKind, CallCommits,
         \A n \in Server : CommitMoves(n)
  PROVE  CommitsStay /\ CommitsChosen' /\ CallsChosen'
<1>1. CommitsStay
  <2> SUFFICES ASSUME NEW n \in Server
               PROVE  /\ commitIndex[n] <= commitIndex'[n]
                      /\ Agree(log[n], log'[n], commitIndex[n])
    BY Zenon DEF CommitsStay
  <2> QED
    BY CommittedKept, CommitTypes, SMTT(30) DEF CommitInv, CommitMoves
<1>2. TermsRise
  BY KindTerms, Zenon
<1>3. CommitsChosen'
  <2> SUFFICES ASSUME NEW n \in Server, commitIndex'[n] = commitIndex[n]
               PROVE  CommitOk(leaderLog', acks', log'[n], currentTerm'[n], commitIndex[n])
    BY Zenon DEF CommitsChosen, CommitMoves
  <2>1. CommitOk(leaderLog, acks, log[n], currentTerm[n], commitIndex[n])
    BY Zenon DEF CommitInv, CommitsChosen
  <2>2. /\ currentTerm[n] \in Nat /\ currentTerm'[n] \in Nat
        /\ currentTerm[n] <= currentTerm'[n] /\ commitIndex[n] \in Nat
    BY <1>2, CommitTypes, Zenon DEF Sound, LogTypes, TermsRise
  <2>3. Agree(log[n], log'[n], commitIndex[n])
    BY <1>1, Zenon DEF CommitsStay
  <2> QED
    BY <2>1, <2>2, <2>3, CommitOkLater, ZenonT(30)
<1>4. CallsChosen'
  <2> SUFFICES ASSUME NEW r \in leaderRpcs', NEW s \in leaderRpcs,
                      s.term = r.term, s.commit = r.commit
               PROVE  CommitOk(leaderLog', acks', leaderLog'[s.term], s.term, s.commit)
    BY Zenon DEF CallsChosen, CallCommits
  <2> DEFINE F == leaderLog[s.term]
             G == leaderLog'[s.term]
             k == s.commit
  <2>1. s.term \in Nat /\ k \in Nat /\ s.term \in DOMAIN leaderLog
    BY CommitTypes, Zenon
  <2>2. CommitOk(leaderLog, acks, F, s.term, k)
    BY Zenon DEF CommitInv, CallsChosen
  <2>3. F \in Seq(Entry) /\ G \in Seq(Entry) /\ Len(F) \in Nat /\ Agree(F, G, Len(F))
    BY <2>1, LeadersGrow, LenIsNat, ZenonT(30) DEF Sound, LogTypes
  <2> SUFFICES CommitOk(leaderLog', acks', G, s.term, k)
    BY Zenon
  <2> HIDE DEF F, G, k
  <2>4. k <= Len(F)
    BY <2>1, <2>2, <2>3, LeqSelf, ZenonT(30) DEF CommitOk, Agree
  <2>5. Agree(F, G, k)
    BY <2>1, <2>3, <2>4, AgreeLess, ZenonT(30)
  <2> QED
    BY <2>1, <2>2, <2>5, CommitOkLater, LeqSelf, ZenonT(30)
<1> QED
  BY <1>1, <1>3, <1>4, ZenonT(30)

LEMMA AppliedStays ==
  ASSUME Sound, Sound', CommitInv, CommitsStay, UNCHANGED <<lastApplied, kv>>
  PROVE  AppliedKept'
<1> SUFFICES ASSUME NEW n \in Server
             PROVE  /\ lastApplied[n] <= commitIndex'[n] /\ Len(kv[n]) = lastApplied[n]
                    /\ Agree(kv[n], log'[n], lastApplied[n])
  BY Zenon DEF AppliedKept
<1>1. /\ lastApplied[n] <= commitIndex[n] /\ Len(kv[n]) = lastApplied[n]
      /\ Agree(kv[n], log[n], lastApplied[n])
      /\ commitIndex[n] <= commitIndex'[n] /\ Agree(log[n], log'[n], commitIndex[n])
  BY Zenon DEF CommitInv, AppliedKept, CommitsStay
<1>2. /\ lastApplied[n] \in Nat /\ commitIndex[n] \in Nat /\ commitIndex'[n] \in Nat
      /\ log[n] \in Seq(Entry) /\ log'[n] \in Seq(Entry)
  BY CommitTypes, Zenon DEF Sound, LogTypes, StateTypeOK, LogTypeOK
<1>3. Agree(log[n], log'[n], lastApplied[n])
  BY <1>1, <1>2, AgreeLess, Zenon
<1> QED
  BY <1>1, <1>2, <1>3, AgreeTransitive, LeqTransitive, ZenonT(30)

(* The steps that move no commit index and make no call.                   *)
LEMMA CommitElsewhere ==
  ASSUME Sound, Sound', AckInv, CommitInv, AnyKind, CallCommits,
         UNCHANGED <<commitIndex, lastApplied, kv>>
  PROVE  CommitInv' /\ CommitsStay
<1>1. \A n \in Server : CommitMoves(n)
  BY Zenon DEF CommitMoves
<1> QED
  BY <1>1, CommitsKept, AppliedStays, Zenon DEF CommitInv

LEMMA OldCalls ==
  ASSUME leaderRpcs' \subseteq leaderRpcs
  PROVE  CallCommits
  BY Zenon DEF CallCommits

(* updateCommitIndex finds an entry of its own term that a majority has    *)
(* acknowledged, or leaves the commit index alone.                         *)
LEMMA CountedCommit ==
  ASSUME Sound, NEW n \in Server, NEW l \in Seq(Entry), NEW match,
         NEW L, NEW A, NEW t, t = currentTerm[n], t \in DOMAIN L, L[t] = l,
         \A i \in Nat : Own(L, t, i) => Acked(A, n, t, i),
         \A p \in Server : /\ match[p] \in Nat
                           /\ match[p] > 0 => <<p, t, match[p]>> \in A,
         NEW k, k = UpdateCommitIndex(n, l, match)
  PROVE  k = commitIndex[n] \/ (commitIndex[n] <= k /\ CommitOk(L, A, l, t, k))
<1> DEFINE range == {i \in commitIndex[n] + 1 .. logBase[n] + Len(l) : i > logBase[n]}
           new == {i \in range :
                     /\ OnMajority(n, match, i)
                     /\ \A j \in range : j > i => ~OnMajority(n, match, j)
                     /\ CommitsDirectly(n, l[i - logBase[n]])}
<1>1. /\ commitIndex[n] \in Nat /\ logBase[n] = 0 /\ Len(l) \in Nat /\ t \in Nat
  BY CommitTypes, SoundTypes, LenIsNat, ZenonT(30) DEF Sound, LogTypes
<1>2. \A i \in new : /\ i \in 1 .. Len(l) /\ commitIndex[n] <= i
                     /\ OnMajority(n, match, i) /\ l[i - logBase[n]].term = currentTerm[n]
  BY <1>1, SMTT(30) DEF CommitsDirectly
<1>3. k = IF new = {} THEN commitIndex[n] ELSE CHOOSE i \in new : TRUE
  BY Zenon DEF UpdateCommitIndex
<1> HIDE DEF new
<1>4. CASE new = {}
  BY <1>3, <1>4, ZenonT(30)
<1>5. CASE new # {}
  <2>1. k \in new
    BY <1>3, <1>5, Zenon
  <2>2. /\ k \in 1 .. Len(l) /\ commitIndex[n] <= k /\ OnMajority(n, match, k)
        /\ l[k].term = t /\ k \in Nat
    <3>1. /\ k \in 1 .. Len(l) /\ commitIndex[n] <= k
          /\ OnMajority(n, match, k) /\ l[k - logBase[n]].term = currentTerm[n]
      BY <1>2, <2>1, Zenon
    <3>2. k - logBase[n] = k /\ k \in Nat
      BY <1>1, <3>1, InRange, Zenon
    <3> QED
      BY <3>1, <3>2, Zenon
  <2>3. Own(L, t, k)
    BY <2>2, Zenon DEF Own
  <2> DEFINE Q == {p \in Peers(n) : match[p] >= k}
             H == Holders(A, t, k)
  <2>4. Q \cup {n} \subseteq H
    <3>1. n \in H
      BY <2>2, <2>3, Zenon DEF Holders
    <3>2. ASSUME NEW p \in Q PROVE p \in H
      <4> DEFINE a == <<p, t, match[p]>>
      <4>1. p \in Server /\ match[p] \in Nat /\ k <= match[p] /\ match[p] > 0
        <5>1. p \in Server /\ match[p] >= k
          BY <3>2, Zenon DEF Peers
        <5>2. match[p] \in Nat
          BY <5>1, Zenon
        <5>3. k \in Nat /\ k > 0
          BY <1>1, <2>2, SMTT(30)
        <5> QED
          BY <5>1, <5>2, <5>3, SMTT(30)
      <4>2. a \in A
        BY <4>1, Zenon
      <4>3. a[1] = p /\ a[2] = t /\ k <= a[3]
        BY <4>1, Zenon
      <4> HIDE DEF a
      <4>4. Acked(A, p, t, k)
        BY <4>2, <4>3, Zenon DEF Acked
      <4> QED
        BY <4>1, <4>4, ZenonT(30) DEF Holders
    <3> QED
      BY <3>1, <3>2, Zenon
  <2>5. /\ Server \in SUBSET Server /\ n \in Server \ Q /\ n \notin Q
        /\ H \in SUBSET Server /\ Q \in SUBSET Server /\ Q \cup {n} \in SUBSET Server
    BY Zenon DEF Holders, Peers
  <2>6. 1 + Cardinality(Q) > Cardinality(Server) \div 2
    BY <2>2, Zenon DEF OnMajority
  <2> HIDE DEF Q, H
  <2>7. Cardinality(Q) \in Nat /\ Cardinality(Server) \in Nat
    BY <2>5, Zenon DEF Sound, Counting
  <2>8. Cardinality(Q \cup {n}) = Cardinality(Q) + 1
    BY <2>5, ZenonT(30) DEF Sound, Counting
  <2>9. Majority(Q \cup {n})
    BY <2>6, <2>7, <2>8, SMTT(30) DEF Majority
  <2>10. Majority(H)
    BY <2>4, <2>5, <2>9, MajorityGrows, ZenonT(30)
  <2>11. Chosen(L, A, t, k)
    BY <2>3, <2>10, Zenon DEF Chosen, H
  <2>12. Agree(l, L[t], k)
    BY <1>1, <2>2, InRange, AgreeSelf, Zenon
  <2> QED
    BY <1>1, <2>2, <2>11, <2>12, LeqSelf, ZenonT(30) DEF CommitOk
<1> QED
  BY <1>4, <1>5, ZenonT(30)

LEMMA CommitSendHeartbeats ==
  ASSUME Sound, Sound', AckInv, CommitInv, NEW n \in Server,
         NEW reached \in SUBSET Peers(n), SendHeartbeats(n, reached)
  PROVE  CommitInv' /\ CommitsStay
<1>1. Quiet
  BY KindElsewhere, Zenon
<1>2. /\ state[n] = Leader /\ Spawn(n, reached, commitIndex[n])
      /\ UNCHANGED <<commitIndex, lastApplied, kv>>
  BY Zenon DEF SendHeartbeats, logVars, commitVars
<1>3. CallCommits
  <2> SUFFICES ASSUME NEW r \in leaderRpcs', r \notin leaderRpcs
               PROVE  CommitOk(leaderLog', acks', leaderLog'[r.term], r.term, r.commit)
    BY Zenon DEF CallCommits
  <2>1. r.term = currentTerm[n] /\ r.commit = commitIndex[n]
    BY <1>2, SpawnedCalls, SMTT(30)
  <2>2. CommitOk(leaderLog, acks, log[n], currentTerm[n], commitIndex[n])
    BY Zenon DEF CommitInv, CommitsChosen
  <2>3. log[n] = leaderLog[currentTerm[n]]
    BY <1>2, Zenon DEF Sound, LogInv, LeadersInv
  <2>4. UNCHANGED <<leaderLog, acks>>
    BY <1>1, Zenon DEF Quiet
  <2> QED
    BY <2>1, <2>2, <2>3, <2>4, ZenonT(30)
<1> QED
  BY <1>1, <1>2, <1>3, CommitElsewhere, Zenon DEF AnyKind

(* A call that moves on keeps its term and its commit index.               *)
LEMMA CallsMoveOn ==
  ASSUME NEW r \in leaderRpcs, NEW s, Advance(r, s), s.term = r.term, s.commit = r.commit
  PROVE  CallCommits
  BY Zenon DEF CallCommits, Advance

LEMMA CommitSendAppendEntries ==
  ASSUME Sound, Sound', AckInv, CommitInv, NEW r \in leaderRpcs, SendAppendEntries(r)
  PROVE  CommitInv' /\ CommitsStay
<1>1. AnyKind
  BY KindElsewhere, Zenon DEF AnyKind
<1>2. /\ \/ leaderRpcs' = leaderRpcs \ {r}
         \/ Advance(r, [r EXCEPT !.phase = "icall"])
         \/ \E prev, pterm, es : Advance(r, AppendRequest(r, prev, pterm, es))
      /\ UNCHANGED logVars
  BY Zenon DEF SendAppendEntries
<1>3. r \in LeaderRpc
  BY Zenon DEF Sound, LogTypes
<1>4. /\ [r EXCEPT !.phase = "icall"].term = r.term
      /\ [r EXCEPT !.phase = "icall"].commit = r.commit
      /\ \A prev, pterm, es : /\ AppendRequest(r, prev, pterm, es).term = r.term
                              /\ AppendRequest(r, prev, pterm, es).commit = r.commit
  BY <1>3, Zenon DEF AppendRequest, LeaderRpc
<1>5. CallCommits
  BY <1>2, <1>4, CallsMoveOn, OldCalls, Zenon
<1>6. UNCHANGED <<commitIndex, lastApplied, kv>>
  BY <1>2, Zenon DEF logVars, commitVars
<1> QED
  BY <1>1, <1>5, <1>6, CommitElsewhere, ZenonT(30)

(* Rule 6 of AppendEntries: the leader's commit index is of chosen         *)
(* entries, and up to the end of the request the follower now has them.    *)
LEMMA FollowerCommit ==
  ASSUME Sound, Sound', CommitInv, NEW r \in leaderRpcs, Merging(r),
         NEW k, k = LeaderCommit(r.peer, r)
  PROVE  \/ k = commitIndex[r.peer]
         \/ /\ commitIndex[r.peer] <= k
            /\ CommitOk(leaderLog', acks', log'[r.peer], currentTerm'[r.peer], k)
<1> DEFINE n == r.peer
           F == leaderLog[r.term]
           m == log'[n]
           last == r.prev + Len(r.entries)
<1> SUFFICES ASSUME k # commitIndex[n]
             PROVE  commitIndex[n] <= k /\ CommitOk(leaderLog', acks', m, r.term, k)
  BY Zenon DEF Merging
<1>1. /\ n \in Server /\ r.term \in Nat /\ r.commit \in Nat /\ last \in Nat
      /\ commitIndex[n] \in Nat /\ r.term \in DOMAIN leaderLog /\ F \in Seq(Entry)
      /\ m \in Seq(Entry)
  <2>1. /\ n \in Server /\ r.term \in Nat /\ r.commit \in Nat /\ last \in Nat
        /\ commitIndex[n] \in Nat /\ r.term \in DOMAIN leaderLog
    BY CommitTypes, SMTT(30)
  <2> QED
    BY <2>1, Zenon DEF Sound, LogTypes
<1>2. k \in Nat /\ k <= r.commit /\ k <= last /\ commitIndex[n] <= k
  BY <1>1, SMTT(30) DEF LeaderCommit
<1>3. Agree(m, F, last)
  BY RequestMerges, Zenon DEF Sound, Merging
<1>4. CommitOk(leaderLog, acks, F, r.term, r.commit)
  BY Zenon DEF CommitInv, CallsChosen
<1>5. AnyKind
  BY Zenon DEF AnyKind
<1> HIDE DEF n, F, m, last
<1>6. Agree(m, F, k)
  BY <1>1, <1>2, <1>3, AgreeLess, Zenon
<1>7. CommitOk(leaderLog, acks, F, r.term, k)
  <2>1. CASE r.commit = 0
    BY <2>1, <1>1, <1>2, LeqSelf, ZenonT(30) DEF CommitOk
  <2>2. CASE r.commit # 0
    <3>1. PICK t \in DOMAIN leaderLog, j \in Nat :
            /\ t <= r.term /\ r.commit <= j /\ Chosen(leaderLog, acks, t, j)
            /\ Agree(F, leaderLog[t], r.commit)
      BY <1>4, <2>2, Zenon DEF CommitOk
    <3>2. leaderLog[t] \in Seq(Entry)
      BY SoundTypes, Zenon
    <3>3. Agree(F, leaderLog[t], k) /\ k <= j
      BY <3>1, <3>2, <1>1, <1>2, AgreeLess, LeqTransitive, ZenonT(30)
    <3> QED
      BY <3>1, <3>3, Zenon DEF CommitOk
  <2> QED
    BY <2>1, <2>2, Zenon
<1>8. CommitOk(leaderLog', acks', m, r.term, k)
  BY <1>1, <1>2, <1>5, <1>6, <1>7, AgreeSymmetric, CommitOkLater, LeqSelf, ZenonT(30)
<1> QED
  BY <1>2, <1>8, Zenon

LEMMA CommitAppendEntries ==
  ASSUME Sound, Sound', AckInv, CommitInv, NEW r \in leaderRpcs, AppendEntries(r)
  PROVE  CommitInv' /\ CommitsStay
<1> DEFINE n == r.peer
<1>1. AnyKind /\ Answered(r)
  BY KindAppendEntries, Zenon DEF AnyKind
<1>2. UNCHANGED <<lastApplied, kv>>
  <2>1. \/ UNCHANGED <<lastApplied, kv>> \/ UNCHANGED logVars
        \/ r.prev - logBase[r.peer] < 0
    BY Zenon DEF AppendEntries
  <2>2. r.prev \in Nat /\ logBase[r.peer] = 0
    BY Zenon DEF Sound, LogTypes, LeaderRpc
  <2> QED
    BY <2>1, <2>2, SMTT(30) DEF logVars
<1>3. r \in LeaderRpc /\ n \in Server
  BY Zenon DEF Sound, LogTypes, LeaderRpc
<1>4. \A t, ok : AppendReply(r, t, ok).term = r.term /\ AppendReply(r, t, ok).commit = r.commit
  BY <1>3, Zenon DEF AppendReply, LeaderRpc
<1>5. CallCommits
  BY <1>1, <1>4, CallsMoveOn, OldCalls, Zenon DEF Answered
<1>6. CASE UNCHANGED commitIndex
  BY <1>1, <1>2, <1>5, <1>6, CommitElsewhere, ZenonT(30)
<1>7. CASE Merging(r) /\ Commit(n, LeaderCommit(n, r))
  <2> DEFINE k == LeaderCommit(n, r)
  <2>1. \/ k = commitIndex[n]
        \/ /\ commitIndex[n] <= k
           /\ CommitOk(leaderLog', acks', log'[n], currentTerm'[n], k)
    BY <1>7, FollowerCommit, Zenon
  <2>2. commitIndex' = [commitIndex EXCEPT ![n] = k]
    BY <1>7, Zenon DEF Commit
  <2> HIDE DEF k
  <2>3. commitIndex'[n] = k /\ \A m \in Server \ {n} : commitIndex'[m] = commitIndex[m]
    BY <1>3, <2>2, Zenon DEF Sound, StateTypeOK, LogTypeOK
  <2>4. \A m \in Server : CommitMoves(m)
    BY <2>1, <2>3, Zenon DEF CommitMoves
  <2> QED
    BY <1>1, <1>2, <1>5, <2>4, CommitsKept, AppliedStays, ZenonT(30) DEF CommitInv
<1> QED
  BY <1>1, <1>6, <1>7, Zenon DEF Answered

LEMMA CommitHandleAppendReply ==
  ASSUME Sound, Sound', AckInv, CountInv, CommitInv, NEW r \in leaderRpcs,
         HandleAppendReply(r)
  PROVE  CommitInv' /\ CommitsStay
<1> DEFINE n == r.leader
           p == r.peer
           t == currentTerm[n]
<1>1. AnyKind /\ UNCHANGED <<log, leaderLog, acks>>
  BY KindHandleAppendReply, Zenon DEF AnyKind, Quiet
<1>2. r \in LeaderRpc /\ n \in Server /\ p \in Server /\ r.match \in Nat
  BY Zenon DEF Sound, LogTypes, LeaderRpc
<1>3. /\ r.phase = "resp" /\ UNCHANGED <<lastApplied, kv>>
      /\ leaderRpcs' = leaderRpcs \ {r} \/ Advance(r, Retry(r))
      /\ \/ UNCHANGED commitVars
         \/ /\ Matched(n, p, r.match) /\ r.success /\ state[n] = Leader
            /\ t = r.term /\ UNCHANGED electionVars
  BY Zenon DEF HandleAppendReply
<1>4. CallCommits
  <2>1. Retry(r).term = r.term /\ Retry(r).commit = r.commit
    BY <1>2, RetryFields, Zenon
  <2> QED
    BY <1>3, <2>1, CallsMoveOn, OldCalls, ZenonT(30)
<1>5. CASE UNCHANGED commitVars
  BY <1>1, <1>3, <1>4, <1>5, CommitElsewhere, ZenonT(30) DEF commitVars
<1>6. CASE /\ Matched(n, p, r.match) /\ r.success /\ state[n] = Leader
           /\ t = r.term /\ UNCHANGED electionVars
  <2> DEFINE m == IF r.match > matchIndex[n][p] THEN r.match ELSE matchIndex[n][p]
             match == [matchIndex[n] EXCEPT ![p] = m]
             k == UpdateCommitIndex(n, log[n], match)
  <2>1. commitIndex' = [commitIndex EXCEPT ![n] = k]
    BY <1>6, Zenon DEF Matched, Commit
  <2>2. <<p, t, r.match>> \in acks
    BY <1>3, <1>6, Zenon DEF CountInv, RepliesTrue
  <2>3. \A q \in Server : /\ matchIndex[n][q] \in Nat
                          /\ matchIndex[n][q] > 0 => <<q, t, matchIndex[n][q]>> \in acks
    BY <1>2, <1>6, Zenon DEF CountInv, CountsTrue, Sound, StateTypeOK, LeaderTypeOK
  <2>4. \A q \in Server : match[q] = IF q = p THEN m ELSE matchIndex[n][q]
    BY <1>2, Zenon DEF Sound, StateTypeOK, LeaderTypeOK
  <2>5. m \in {r.match, matchIndex[n][p]}
    BY Zenon
  <2> HIDE DEF m, match, k, t, n, p
  <2>6. \A q \in Server : match[q] \in Nat /\ (match[q] > 0 => <<q, t, match[q]>> \in acks)
    BY <1>2, <2>2, <2>3, <2>4, <2>5, ZenonT(30)
  <2>7. /\ <<n, t>> \in elected /\ log[n] = leaderLog[t] /\ t \in DOMAIN leaderLog
    BY <1>2, <1>6, ZenonT(30) DEF Sound, LogInv, LeadersInv, t
  <2>8. \A i \in Nat : Own(leaderLog, t, i) => Acked(acks, n, t, i)
    BY <2>7, Zenon DEF AckInv, LeadersAck
  <2>9. log[n] \in Seq(Entry)
    BY <1>2, SoundTypes, Zenon
  <2>10. k = commitIndex[n] \/ (commitIndex[n] <= k /\ CommitOk(leaderLog, acks, log[n], t, k))
    BY <1>2, <2>6, <2>7, <2>8, <2>9, CountedCommit, ZenonT(30) DEF k, t
  <2>11. commitIndex'[n] = k /\ \A q \in Server \ {n} : commitIndex'[q] = commitIndex[q]
    BY <1>2, <2>1, ZenonT(30) DEF Sound, StateTypeOK, LogTypeOK
  <2>12. currentTerm' = currentTerm
    BY <1>6, Zenon DEF electionVars
  <2>13. \A q \in Server : CommitMoves(q)
    BY <1>1, <2>10, <2>11, <2>12, ZenonT(30) DEF CommitMoves, t
  <2> QED
    BY <1>1, <1>3, <1>4, <2>13, CommitsKept, AppliedStays, ZenonT(30) DEF CommitInv
<1> QED
  BY <1>3, <1>5, <1>6, Zenon

LEMMA CommitReplicateCommand ==
  ASSUME Sound, Sound', AckInv, AckInv', CountInv, CommitInv, NEW n \in Server,
         NEW reached \in SUBSET Peers(n), ReplicateCommand(n, reached)
  PROVE  CommitInv' /\ CommitsStay
<1> DEFINE t == currentTerm[n]
<1>1. UNCHANGED <<lastApplied, kv>>
  BY Zenon DEF ReplicateCommand
<1>2. \/ Quiet /\ UNCHANGED <<leaderRpcs, commitIndex>>
      \/ \E e \in Entry :
           /\ Appending(n, e)
           /\ LET commit == UpdateCommitIndex(n, Append(log[n], e), matchIndex[n])
              IN  Commit(n, commit) /\ Spawn(n, reached, commit)
  BY KindReplicateCommand, Zenon
<1>3. CASE Quiet /\ UNCHANGED <<leaderRpcs, commitIndex>>
  BY <1>1, <1>3, OldCalls, CommitElsewhere, ZenonT(30) DEF AnyKind
<1>4. ASSUME NEW e \in Entry, Appending(n, e), NEW k,
             k = UpdateCommitIndex(n, Append(log[n], e), matchIndex[n]),
             Commit(n, k), Spawn(n, reached, k)
      PROVE  CommitInv' /\ CommitsStay
  <2> DEFINE new == Append(log[n], e)
  <2>1. AnyKind /\ state[n] = Leader /\ log'[n] = new /\ UNCHANGED <<currentTerm, elected>>
    BY <1>4, Zenon DEF AnyKind, Appending
  <2>2. /\ <<n, t>> \in elected /\ log[n] = leaderLog[t] /\ t \in DOMAIN leaderLog
        /\ leaderLog'[t] = new /\ t \in DOMAIN leaderLog'
    <3>1. /\ <<n, t>> \in elected /\ log[n] = leaderLog[t] /\ t \in DOMAIN leaderLog
          /\ leaderLog'[t] = log'[n] /\ DOMAIN leaderLog' = DOMAIN leaderLog
      BY <1>4, AppendingEffect, Zenon
    <3> QED
      BY <2>1, <3>1, Zenon
  <2>3. new \in Seq(Entry) /\ log[n] \in Seq(Entry)
    BY SoundTypes, SMTT(30)
  <2>4. \A i \in Nat : Own(leaderLog', t, i) => Acked(acks', n, t, i)
    BY <2>1, <2>2, Zenon DEF AckInv, LeadersAck
  <2>5. \A q \in Server : /\ matchIndex[n][q] \in Nat
                          /\ matchIndex[n][q] > 0 => <<q, t, matchIndex[n][q]>> \in acks'
    <3>1. acks \subseteq acks'
      BY <2>1, AcksKept, Zenon
    <3> QED
      BY <2>1, <3>1, Zenon
         DEF CountInv, CountsTrue, Sound, StateTypeOK, LeaderTypeOK
  <2>6. k = UpdateCommitIndex(n, new, matchIndex[n])
    BY <1>4, Zenon
  <2> HIDE DEF new, t
  <2>7. k = commitIndex[n] \/ (commitIndex[n] <= k /\ CommitOk(leaderLog', acks', new, t, k))
    BY <2>2, <2>3, <2>4, <2>5, <2>6, CountedCommit, ZenonT(30) DEF t
  <2>8. commitIndex'[n] = k /\ \A q \in Server \ {n} : commitIndex'[q] = commitIndex[q]
    <3>1. commitIndex' = [commitIndex EXCEPT ![n] = k]
      BY <1>4, Zenon DEF Commit
    <3> QED
      BY <3>1, Zenon DEF Sound, StateTypeOK, LogTypeOK
  <2>9. \A q \in Server : CommitMoves(q)
    BY <2>1, <2>7, <2>8, ZenonT(30) DEF CommitMoves, t
  <2>10. CommitOk(leaderLog', acks', new, t, k)
    <3> SUFFICES ASSUME k = commitIndex[n] PROVE CommitOk(leaderLog', acks', new, t, k)
      BY <2>7, Zenon
    <3>1. CommitOk(leaderLog, acks, log[n], t, k)
      BY Zenon DEF CommitInv, CommitsChosen, t
    <3>2. Agree(log[n], new, k)
      BY <2>1, CommittedKept, Zenon DEF CommitInv
    <3>3. k \in Nat /\ t \in Nat
      BY CommitTypes, SoundTypes, Zenon DEF t
    <3> QED
      BY <2>1, <3>1, <3>2, <3>3, CommitOkLater, LeqSelf, ZenonT(30)
  <2>11. CallCommits
    <3> SUFFICES ASSUME NEW s \in leaderRpcs', s \notin leaderRpcs
                 PROVE  CommitOk(leaderLog', acks', leaderLog'[s.term], s.term, s.commit)
      BY ZenonT(30) DEF CallCommits
    <3>1. s.term = t /\ s.commit = k
      BY <1>4, SpawnedCalls, SMTT(30) DEF t
    <3> QED
      BY <2>2, <2>10, <3>1, Zenon
  <2> QED
    BY <1>1, <2>1, <2>9, <2>11, CommitsKept, AppliedStays, ZenonT(30) DEF CommitInv
<1> QED
  BY <1>2, <1>3, <1>4, Zenon

LEMMA CommitApplyPendingEntries ==
  ASSUME Sound, Sound', AckInv, CommitInv, NEW n \in Server, ApplyPendingEntries(n)
  PROVE  CommitInv' /\ CommitsStay
<1> DEFINE a == lastApplied[n]
           e == log[n][a + 1]
<1>1. AnyKind /\ UNCHANGED <<log, leaderRpcs, commitIndex>>
  <2>1. UNCHANGED <<log, leaderRpcs, commitVars>>
    BY Zenon DEF ApplyPendingEntries
  <2> QED
    BY <2>1, KindElsewhere, Zenon DEF AnyKind, commitVars
<1>2. /\ a \in Nat /\ commitIndex[n] \in Nat /\ kv[n] \in Seq(Entry)
      /\ logBase[n] = 0 /\ log[n] \in Seq(Entry) /\ Len(log[n]) \in Nat
  BY CommitTypes, SoundTypes, Zenon DEF Sound, LogTypes
<1>3. /\ a < commitIndex[n] /\ a + 1 - logBase[n] \in 1 .. Len(log[n])
      /\ lastApplied' = [lastApplied EXCEPT ![n] = a + 1]
      /\ kv' = [kv EXCEPT ![n] = Append(kv[n], log[n][a + 1 - logBase[n]])]
  BY ZenonT(30) DEF ApplyPendingEntries
<1>4. /\ a + 1 - logBase[n] = a + 1 /\ a + 1 \in 1 .. Len(log[n]) /\ e \in Entry
      /\ a + 1 <= commitIndex[n]
  BY <1>2, <1>3, SMTT(30)
<1>5. /\ lastApplied'[n] = a + 1 /\ kv'[n] = Append(kv[n], e)
      /\ \A m \in Server \ {n} : lastApplied'[m] = lastApplied[m] /\ kv'[m] = kv[m]
  BY <1>3, <1>4, Zenon DEF Sound, StateTypeOK, LogTypeOK
<1>6. Len(kv[n]) = a /\ Agree(kv[n], log[n], a)
  BY Zenon DEF CommitInv, AppliedKept
<1> HIDE DEF a, e
<1>7. /\ Len(kv'[n]) = a + 1 /\ kv'[n][a + 1] = e /\ Agree(kv[n], kv'[n], a)
  <2> DEFINE l == Append(kv[n], e)
  <2>1. /\ Len(l) = Len(kv[n]) + 1 /\ l[Len(kv[n]) + 1] = e
        /\ Agree(kv[n], l, Len(kv[n]))
    BY <1>2, <1>4, AppendedLog, Zenon
  <2> QED
    BY <2>1, <1>5, <1>6, Zenon
<1>8. Agree(kv'[n], log[n], a + 1)
  <2>1. ASSUME NEW j \in 1 .. a + 1 PROVE kv'[n][j] = log[n][j]
    <3>1. j = a + 1 \/ j \in 1 .. a
      BY <1>2, SMTT(30)
    <3> QED
      BY <3>1, <1>6, <1>7, Zenon DEF Agree, e
  <2> QED
    BY <2>1, <1>2, <1>4, <1>7, InRange, LeqSelf, ZenonT(30) DEF Agree
<1>9. CommitsStay /\ CommitsChosen' /\ CallsChosen'
  <2>1. CallCommits /\ \A m \in Server : CommitMoves(m)
    BY <1>1, OldCalls, Zenon DEF CommitMoves
  <2> QED
    BY <1>1, <2>1, CommitsKept, Zenon
<1>10. AppliedKept'
  <2> SUFFICES ASSUME NEW m \in Server
               PROVE  /\ lastApplied'[m] <= commitIndex[m] /\ Len(kv'[m]) = lastApplied'[m]
                      /\ Agree(kv'[m], log[m], lastApplied'[m])
    BY <1>1, ZenonT(30) DEF AppliedKept
  <2>1. CASE m = n
    BY <2>1, <1>4, <1>5, <1>7, <1>8, ZenonT(30)
  <2>2. CASE m # n
    BY <2>2, <1>5, Zenon DEF CommitInv, AppliedKept
  <2> QED
    BY <2>1, <2>2, Zenon
<1> QED
  BY <1>9, <1>10, Zenon DEF CommitInv

(* loadPersistedState counts all that was saved as committed, so nothing   *)
(* below holds once a node has restarted.                                  *)
NoRestarts == MaxRestarts = 0

LEMMA CommitStep ==
  ASSUME DurableRestarts, NoRestarts, Sound, Sound', ChoiceInv, ChoiceInv', CommitInv,
         PlainNext \/ UNCHANGED vars
  PROVE  CommitInv' /\ CommitsStay
<1>1. AckInv /\ AckInv' /\ CountInv
  BY Zenon DEF ChoiceInv
<1>2. AnyKind
  BY StepKinds, Zenon DEF ChoiceInv, LogsSurvive, NoRestarts
<1>3. ASSUME \/ UNCHANGED vars \/ LoseRpc
             \/ \E n \in Server :
                  \/ BecomeLeader(n)
                  \/ \E reached \in SUBSET Peers(n) : BecomeCandidate(n, reached)
             \/ \E r \in voteRpcs :
                  SendRequestVote(r) \/ RequestVote(r) \/ HandleVoteReply(r)
      PROVE  CommitInv' /\ CommitsStay
  <2>1. UNCHANGED logVars
    BY <1>3, ZenonT(30) DEF LoseRpc, BecomeLeader, BecomeCandidate, SendRequestVote,
       RequestVote, HandleVoteReply, vars
  <2>2. leaderRpcs' \subseteq leaderRpcs
    <3>1. ASSUME LoseRpc PROVE leaderRpcs' \subseteq leaderRpcs
      BY <3>1, Zenon DEF LoseRpc
    <3>2. ASSUME ~LoseRpc PROVE UNCHANGED leaderRpcs
      BY <1>3, <3>2, ZenonT(30) DEF BecomeLeader, BecomeCandidate, SendRequestVote,
         RequestVote, HandleVoteReply, vars
    <3> QED
      BY <3>1, <3>2, Zenon
  <2> QED
    BY <1>1, <1>2, <2>1, <2>2, OldCalls, CommitElsewhere, ZenonT(30)
       DEF logVars, commitVars
<1>4. ASSUME NEW n \in Server, Restart(n) PROVE FALSE
  <2>1. restarts < 0
    BY <1>4, Zenon DEF Restart, NoRestarts
  <2>2. restarts \in 0 .. MaxRestarts
    BY Zenon DEF Sound, StateTypeOK, ClientTypeOK
  <2> QED
    BY <2>1, <2>2, SMTT(30) DEF NoRestarts
<1> QED
  BY <1>1, <1>3, <1>4, CommitSendHeartbeats, CommitSendAppendEntries, CommitAppendEntries,
     CommitHandleAppendReply, CommitReplicateCommand, CommitApplyPendingEntries,
     StepSplit, ZenonT(30)

LEMMA CommitInit == Init => CommitInv
<1> SUFFICES ASSUME Init PROVE CommitInv
  BY Zenon
<1>1. CommitsChosen /\ CallsChosen
  BY Zenon DEF Init, CommitsChosen, CallsChosen, CommitOk
<1>2. AppliedKept
  <2>1. \A n \in Server : kv[n] = << >> /\ log[n] = << >> /\ lastApplied[n] = 0
                          /\ commitIndex[n] = 0
    BY Zenon DEF Init
  <2>2. Len(<< >>) = 0 /\ 0 \in Nat
    BY SMT
  <2> QED
    BY <2>1, <2>2, LeqSelf, AgreeOnNone, ZenonT(30) DEF AppliedKept
<1> QED
  BY <1>1, <1>2, Zenon DEF CommitInv

CommitSound == Sound /\ ChoiceInv /\ CommitInv

-----------------------------------------------------------------------------
(* What follows from it                                                    *)

(* A committed entry of n is one that has been chosen.                     *)
LEMMA CommittedChosen ==
  ASSUME CommitSound, NEW n \in Server, NEW i \in Committed(n)
  PROVE  \E t \in DOMAIN leaderLog : \E j \in Nat :
           /\ t \in Nat /\ t <= currentTerm[n] /\ i \in 1 .. j
           /\ Own(leaderLog, t, j) /\ Majority(Holders(acks, t, j))
           /\ Choosable(acks, currentTerm, t, j)
           /\ i \in 1 .. Len(log[n]) /\ log[n][i] = leaderLog[t][i] /\ At(n, i) = log[n][i]
<1>1. Sound /\ CommitInv
  BY Zenon DEF CommitSound
<1>2. logBase[n] = 0 /\ commitIndex[n] \in Nat /\ Len(log[n]) \in Nat
  BY <1>1, CommitTypes, SoundTypes, ZenonT(30) DEF Sound, LogTypes
<1>3. i \in 1 .. commitIndex[n] /\ i \in 1 .. Len(log[n]) /\ At(n, i) = log[n][i]
  <2>1. i \in 1 .. commitIndex[n] /\ i - logBase[n] \in 1 .. Len(log[n])
    BY Zenon DEF Committed, Covers
  <2>2. i - 0 = i
    BY <2>1, <1>2, InRange, Zenon
  <2> QED
    BY <2>1, <2>2, <1>2, Zenon DEF At
<1>4. CommitOk(leaderLog, acks, log[n], currentTerm[n], commitIndex[n])
  BY <1>1, ZenonT(30) DEF CommitInv, CommitsChosen
<1>5. PICK t \in DOMAIN leaderLog, j \in Nat :
        /\ t <= currentTerm[n] /\ commitIndex[n] <= j /\ Chosen(leaderLog, acks, t, j)
        /\ Agree(log[n], leaderLog[t], commitIndex[n])
  BY <1>2, <1>3, <1>4, InRange, Zenon DEF CommitOk
<1>6. Own(leaderLog, t, j) /\ Choosable(acks, currentTerm, t, j)
  BY <1>1, <1>5, ChosenIsChoosable, Zenon
<1>7. t \in Nat
  BY <1>1, SoundTypes, Zenon
<1>8. i \in 1 .. j /\ log[n][i] = leaderLog[t][i]
  BY <1>2, <1>3, <1>5, RangeGrows, Zenon DEF Agree
<1> QED
  BY <1>3, <1>5, <1>6, <1>7, <1>8, ZenonT(30) DEF Chosen

(* Two nodes that have committed an index committed the entry chosen
   there. *)
LEMMA CommittedAgree ==
  ASSUME CommitSound
  PROVE  StateMachineSafety
<1> SUFFICES ASSUME NEW n \in Server, NEW m \in Server,
                    NEW i \in Committed(n), i \in Committed(m)
             PROVE  At(n, i) = At(m, i)
  BY Zenon DEF StateMachineSafety
<1>1. PICK t \in DOMAIN leaderLog, j \in Nat :
        /\ t \in Nat /\ i \in 1 .. j /\ Own(leaderLog, t, j)
        /\ Choosable(acks, currentTerm, t, j)
        /\ log[n][i] = leaderLog[t][i] /\ At(n, i) = log[n][i]
  BY CommittedChosen, Zenon
<1>2. PICK u \in DOMAIN leaderLog, k \in Nat :
        /\ u \in Nat /\ i \in 1 .. k /\ Own(leaderLog, u, k)
        /\ Choosable(acks, currentTerm, u, k)
        /\ log[m][i] = leaderLog[u][i] /\ At(m, i) = log[m][i]
  BY CommittedChosen, Zenon
<1>3. LeadersAgree
  BY Zenon DEF CommitSound, ChoiceInv, AckInv
<1>4. t < u => leaderLog[u][i] = leaderLog[t][i]
  BY <1>1, <1>3, Zenon DEF LeadersAgree, Agree
<1>5. u < t => leaderLog[t][i] = leaderLog[u][i]
  BY <1>2, <1>3, Zenon DEF LeadersAgree, Agree
<1>6. t < u \/ u < t \/ t = u
  BY <1>1, <1>2, Compared, Zenon
<1> QED
  BY <1>1, <1>2, <1>4, <1>5, <1>6, ZenonT(30)

(* A committed entry is chosen, and a leader of no earlier term has every
   chosen entry. *)
LEMMA LeadersHaveCommitted ==
  ASSUME CommitSound
  PROVE  LeaderCompleteness
<1> SUFFICES ASSUME NEW l \in Server, NEW n \in Server, NEW i \in Committed(n),
                    state[l] = Leader, currentTerm[n] <= currentTerm[l]
             PROVE  Covers(l, i) /\ At(l, i) = At(n, i)
  BY Zenon DEF LeaderCompleteness
<1> DEFINE u == currentTerm[l]
<1>1. Sound /\ LeadersAgree
  BY Zenon DEF CommitSound, ChoiceInv, AckInv
<1>2. PICK t \in DOMAIN leaderLog, j \in Nat :
        /\ t \in Nat /\ t <= currentTerm[n] /\ i \in 1 .. j /\ Own(leaderLog, t, j)
        /\ Choosable(acks, currentTerm, t, j)
        /\ log[n][i] = leaderLog[t][i] /\ At(n, i) = log[n][i]
  BY CommittedChosen, ZenonT(30)
<1>3. /\ u \in DOMAIN leaderLog /\ log[l] = leaderLog[u]
  BY <1>1, ZenonT(30) DEF Sound, LogInv, LeadersInv
<1>4. /\ u \in Nat /\ currentTerm[n] \in Nat /\ logBase[l] = 0
      /\ Len(leaderLog[u]) \in Nat /\ Len(leaderLog[t]) \in Nat
  BY <1>1, <1>3, SoundTypes, ZenonT(30) DEF Sound, LogTypes
<1> HIDE DEF u
<1>5. t = u \/ t < u
  BY <1>2, <1>4, LeqTransitive, LeqSplits, Zenon DEF u
<1>6. i \in 1 .. Len(leaderLog[u]) /\ leaderLog[u][i] = leaderLog[t][i]
  <2>1. CASE t = u
    BY <2>1, <1>2, <1>4, InRange, RangeGrows, ZenonT(30) DEF Own
  <2>2. CASE t < u
    BY <2>2, <1>1, <1>2, <1>3, <1>4, RangeGrows, ZenonT(30) DEF LeadersAgree, Agree
  <2> QED
    BY <1>5, <2>1, <2>2, Zenon
<1>7. i - 0 = i
  BY <1>4, <1>6, InRange, Zenon
<1> QED
  BY <1>2, <1>3, <1>4, <1>6, <1>7, ZenonT(30) DEF Covers, At, u

(* A majority holds a committed entry, so a candidate whose log would win
   a majority has a log at least as up-to-date as one of its holders, and
   with it the entry. *)
LEMMA LackingIsOutvoted ==
  ASSUME CommitSound
  PROVE  CommittedOutvotes
<1> SUFFICES ASSUME NEW n \in Server, NEW c \in Server, NEW i \in Committed(n),
                    NEW q, q = [lastIdx |-> LastLogInfo(log[c]).index,
                                lastTerm |-> LastLogInfo(log[c]).term],
                    Majority({c} \cup {v \in Server : LogOk(q, log[v])})
             PROVE  Covers(c, i) /\ At(c, i) = At(n, i)
  BY Zenon DEF CommittedOutvotes
<1> DEFINE S == {c} \cup {v \in Server : LogOk(q, log[v])}
<1>1. Sound /\ AckInv
  BY Zenon DEF CommitSound, ChoiceInv
<1>2. PICK t \in DOMAIN leaderLog, j \in Nat :
        /\ t \in Nat /\ i \in 1 .. j /\ Own(leaderLog, t, j)
        /\ Majority(Holders(acks, t, j)) /\ Choosable(acks, currentTerm, t, j)
        /\ log[n][i] = leaderLog[t][i] /\ At(n, i) = log[n][i]
  BY CommittedChosen, Zenon
<1>3. S \in SUBSET Server /\ Holders(acks, t, j) \in SUBSET Server
  BY Zenon DEF Holders
<1>4. PICK v \in Server : v \in S /\ v \in Holders(acks, t, j)
  BY <1>1, <1>2, <1>3, MajoritiesShare, ZenonT(30)
<1>5. Agree(log[v], leaderLog[t], j)
  BY <1>1, <1>2, <1>4, Zenon DEF Holders, AckInv, AckedKept
<1>6. q.lastIdx = LastLogInfo(log[c]).index /\ q.lastTerm = LastLogInfo(log[c]).term
  BY Zenon
<1>7. Agree(log[c], leaderLog[t], j)
  BY <1>1, <1>2, <1>4, <1>5, <1>6, UpToDate, ZenonT(30)
<1>8. logBase[c] = 0 /\ Len(log[c]) \in Nat /\ Len(leaderLog[t]) \in Nat
  BY <1>1, SoundTypes, Zenon DEF Sound, LogTypes
<1>9. i \in 1 .. Len(log[c]) /\ log[c][i] = leaderLog[t][i]
  BY <1>2, <1>7, <1>8, RangeGrows, Zenon DEF Agree
<1>10. i - 0 = i
  BY <1>2, InRange, Zenon
<1> QED
  BY <1>2, <1>8, <1>9, <1>10, Zenon DEF Covers, At

(* While no write fails, the majority that acknowledged a committed entry
   has it in its files. *)
LEMMA CommittedSaved ==
  ASSUME MaxFaults = 0, CommitSound
  PROVE  CommittedDurable
<1> SUFFICES ASSUME NEW n \in Server, NEW i \in Committed(n)
             PROVE  Majority({m \in Server : OnDisk(m, At(n, i))})
  BY Zenon DEF CommittedDurable
<1> DEFINE D == {m \in Server : OnDisk(m, At(n, i))}
<1>1. Sound /\ AckInv /\ FilesCurrent
  BY Zenon DEF CommitSound, ChoiceInv
<1>2. PICK t \in DOMAIN leaderLog, j \in Nat :
        /\ t \in Nat /\ i \in 1 .. j /\ Own(leaderLog, t, j)
        /\ Majority(Holders(acks, t, j)) /\ Choosable(acks, currentTerm, t, j)
        /\ log[n][i] = leaderLog[t][i] /\ At(n, i) = log[n][i]
  BY CommittedChosen, ZenonT(30)
<1>3. \A m \in Server : disk[m].log = log[m]
  BY <1>1, SMTT(30) DEF FilesCurrent, Sound, StateTypeOK, ClientTypeOK
<1>4. ASSUME NEW m \in Holders(acks, t, j) PROVE m \in D
  <2>1. m \in Server /\ Agree(log[m], leaderLog[t], j)
    BY <1>1, <1>2, Zenon DEF Holders, AckInv, AckedKept
  <2>2. Len(log[m]) \in Nat /\ Len(leaderLog[t]) \in Nat
    BY <1>1, <2>1, SoundTypes, ZenonT(30)
  <2>3. i \in 1 .. Len(disk[m].log) /\ disk[m].log[i] = At(n, i)
    BY <1>2, <1>3, <2>1, <2>2, RangeGrows, ZenonT(30) DEF Agree
  <2> QED
    BY <2>1, <2>3, Zenon DEF OnDisk
<1>5. D \in SUBSET Server /\ Holders(acks, t, j) \in SUBSET Server
  BY Zenon DEF Holders
<1> QED
  BY <1>1, <1>2, <1>4, <1>5, MajorityGrows, ZenonT(30)

(* A step that lowers no commitIndex and keeps the log below it leaves
   every committed entry where it is. *)
LEMMA CommittedNotTakenBack ==
  ASSUME CommitSound, CommitSound', CommitsStay, NEW n \in Server, NEW i \in Committed(n)
  PROVE  i <= commitIndex'[n] /\ Covers(n, i)' /\ At(n, i)' = At(n, i)
<1>1. /\ logBase[n] = 0 /\ logBase'[n] = 0 /\ Len(log'[n]) \in Nat
      /\ Len(log[n]) \in Nat
  BY LenIsNat, Zenon DEF CommitSound, Sound, LogTypes
<1>2. commitIndex[n] \in Nat /\ commitIndex'[n] \in Nat
  BY Zenon DEF CommitSound, Sound, StateTypeOK, LogTypeOK
<1>3. /\ commitIndex[n] <= commitIndex'[n]
      /\ Agree(log[n], log'[n], commitIndex[n])
  BY Zenon DEF CommitsStay
<1>4. i \in 1 .. commitIndex[n] /\ i \in Nat /\ i <= commitIndex[n] /\ i - 0 = i
  BY <1>2, InRange, Zenon DEF Committed
<1>5. i \in 1 .. Len(log'[n]) /\ log[n][i] = log'[n][i]
  BY <1>1, <1>2, <1>3, <1>4, RangeGrows, ZenonT(30) DEF Agree
<1>6. i <= commitIndex'[n]
  BY <1>2, <1>3, <1>4, LeqTransitive, Zenon
<1> QED
  BY <1>1, <1>4, <1>5, <1>6, ZenonT(30) DEF Covers, At

(* The state machine has been handed the committed entries in the order
   of the log. *)
LEMMA AppliedIsPrefix ==
  ASSUME CommitSound
  PROVE  AppliedPrefix
<1> SUFFICES ASSUME NEW n \in Server
             PROVE  /\ Len(kv[n]) = lastApplied[n]
                    /\ \A i \in 1 .. Len(kv[n]) : /\ kv[n][i].index = i
                                                  /\ Covers(n, i) => kv[n][i] = At(n, i)
  BY Zenon DEF AppliedPrefix
<1>1. Sound /\ AppliedKept
  BY Zenon DEF CommitSound, CommitInv
<1>2. Len(kv[n]) = lastApplied[n] /\ Agree(kv[n], log[n], lastApplied[n])
  BY <1>1, Zenon DEF AppliedKept
<1>3. logBase[n] = 0 /\ lastApplied[n] \in Nat /\ Len(log[n]) \in Nat
  BY <1>1, CommitTypes, SoundTypes, ZenonT(30) DEF Sound, LogTypes
<1>4. \A i \in 1 .. Len(log[n]) : log[n][i].index = i
  BY <1>1, Zenon DEF Sound, LogInv, RootedInv, Rooted
<1>5. ASSUME NEW i \in 1 .. Len(kv[n])
      PROVE  kv[n][i].index = i /\ (Covers(n, i) => kv[n][i] = At(n, i))
  <2>1. i \in 1 .. Len(log[n]) /\ kv[n][i] = log[n][i]
    BY <1>2, <1>3, RangeGrows, Zenon DEF Agree
  <2>2. i - 0 = i
    BY <1>2, <1>3, InRange, Zenon
  <2> QED
    BY <2>1, <2>2, <1>3, <1>4, Zenon DEF At
<1> QED
  BY <1>2, <1>5, Zenon
=============================================================================
