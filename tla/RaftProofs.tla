----------------------------- MODULE RaftProofs -----------------------------
(***************************************************************************)
(* What Raft guarantees for every cluster and every bound: the state is    *)
(* well-typed and the indexes of a node are ordered.                       *)
(***************************************************************************)
EXTENDS RaftInvariants, TLAPS

-----------------------------------------------------------------------------
(* Lemmas about the operators                                              *)

(* The elements of logs that the handlers put together.                    *)
LEMMA ElementOfSeq ==
  ASSUME NEW S, NEW s \in Seq(S), NEW i \in 1 .. Len(s)
  PROVE  s[i] \in S
  OBVIOUS

LEMMA EmptySeq ==
  ASSUME NEW S
  PROVE  <<>> \in Seq(S) /\ \A s \in Seq(S) : s = <<>> <=> Len(s) = 0
  OBVIOUS

LEMMA AtMostItself ==
  ASSUME NEW k \in Nat
  PROVE  k <= k
  OBVIOUS

LEMMA NextOfNat ==
  ASSUME NEW k \in Nat
  PROVE  1 \in Nat /\ k + 1 \in Nat
  OBVIOUS

LEMMA AppendProperties ==
  ASSUME NEW S, NEW s \in Seq(S), NEW e \in S
  PROVE  /\ Append(s, e) \in Seq(S) /\ Len(Append(s, e)) = Len(s) + 1
         /\ \A i \in 1 .. Len(s) : Append(s, e)[i] = s[i]
         /\ Append(s, e)[Len(s) + 1] = e
  OBVIOUS

LEMMA SubSeqProperties ==
  ASSUME NEW S, NEW s, NEW a \in Int, NEW b \in Int, \A i \in a .. b : s[i] \in S
  PROVE  /\ SubSeq(s, a, b) \in Seq(S)
         /\ Len(SubSeq(s, a, b)) = (IF a <= b THEN b - a + 1 ELSE 0)
         /\ \A i \in 1 .. b - a + 1 : SubSeq(s, a, b)[i] = s[a + i - 1]
  OBVIOUS

LEMMA ConcatProperties ==
  ASSUME NEW S, NEW s \in Seq(S), NEW t \in Seq(S)
  PROVE  /\ s \o t \in Seq(S) /\ Len(s \o t) = Len(s) + Len(t)
         /\ \A i \in 1 .. Len(s) + Len(t) :
              (s \o t)[i] = IF i <= Len(s) THEN s[i] ELSE t[i - Len(s)]
  OBVIOUS

(* Rule 4 of AppendEntries leaves the log alone, or cuts it where it still *)
(* has entries and appends the rest of the request.                        *)
LEMMA MergeCases ==
  ASSUME NEW l \in Seq(Entry), NEW es \in Seq(Entry), NEW off \in Nat, off <= Len(l)
  PROVE  \/ MergeEntries(l, off, es) = l
         \/ \E i \in 1 .. Len(es) :
              /\ off + i - 1 <= Len(l)
              /\ MergeEntries(l, off, es)
                   = SubSeq(l, 1, off + i - 1) \o SubSeq(es, i, Len(es))
<1> DEFINE Differs(i) == off + i > Len(l) \/ l[off + i].term # es[i].term
           cut == {i \in 1 .. Len(es) :
                     Differs(i) /\ \A j \in 1 .. i - 1 : ~Differs(j)}
           i == CHOOSE k \in cut : TRUE
<1>1. MergeEntries(l, off, es)
        = IF cut = {} THEN l ELSE SubSeq(l, 1, off + i - 1) \o SubSeq(es, i, Len(es))
  BY Zenon DEF MergeEntries
<1>2. CASE cut = {}
  BY <1>1, <1>2, Zenon
<1>3. CASE cut # {}
  <2>1. i \in cut
    BY <1>3, Zenon
  <2>2. i \in 1 .. Len(es) /\ \A j \in 1 .. i - 1 : ~Differs(j)
    BY <2>1, Zenon
  <2>3. Len(l) \in Nat /\ Len(es) \in Nat
    OBVIOUS
  <2>4. MergeEntries(l, off, es) = SubSeq(l, 1, off + i - 1) \o SubSeq(es, i, Len(es))
    BY <1>1, <1>3, Zenon
  <2> HIDE DEF i, cut
  <2>5. off + i - 1 <= Len(l)
    <3>1. CASE i = 1
      BY <3>1, <2>3
    <3>2. CASE i > 1
      <4>1. i - 1 \in 1 .. i - 1
        BY <3>2, <2>2, <2>3
      <4>2. ~Differs(i - 1)
        BY <4>1, <2>2, Zenon
      <4> QED
        BY <4>2, <2>2, <2>3
    <3> QED
      BY <3>1, <3>2, <2>2, <2>3
  <2> QED
    BY <2>2, <2>4, <2>5, Zenon
<1> QED
  BY <1>2, <1>3, Zenon

LEMMA MergeType ==
  ASSUME NEW l \in Seq(Entry), NEW es \in Seq(Entry), NEW off \in Nat, off <= Len(l)
  PROVE  MergeEntries(l, off, es) \in Seq(Entry)
<1>1. CASE MergeEntries(l, off, es) = l
  BY <1>1, Zenon
<1>2. ASSUME NEW i \in 1 .. Len(es), off + i - 1 <= Len(l),
             MergeEntries(l, off, es)
               = SubSeq(l, 1, off + i - 1) \o SubSeq(es, i, Len(es))
      PROVE  MergeEntries(l, off, es) \in Seq(Entry)
  <2>1. Len(l) \in Nat /\ Len(es) \in Nat
    OBVIOUS
  <2>2. SubSeq(l, 1, off + i - 1) \in Seq(Entry)
    <3>1. off + i - 1 \in 0 .. Len(l)
      BY <1>2, <2>1
    <3> QED
      BY <3>1, <2>1, SubSeqProperties
  <2>3. SubSeq(es, i, Len(es)) \in Seq(Entry)
    BY <2>1, SubSeqProperties
  <2> QED
    BY <1>2, <2>2, <2>3, ConcatProperties, ZenonT(30)
<1> QED
  BY <1>1, <1>2, MergeCases, Zenon

LEMMA MergeNothing ==
  ASSUME NEW l, NEW off
  PROVE  MergeEntries(l, off, << >>) = l
<1> DEFINE Differs(i) == off + i > Len(l) \/ l[off + i].term # << >>[i].term
           cut == {i \in 1 .. Len(<< >>) :
                     Differs(i) /\ \A j \in 1 .. i - 1 : ~Differs(j)}
<1>1. MergeEntries(l, off, << >>)
        = IF cut = {} THEN l
          ELSE LET i == CHOOSE i \in cut : TRUE
               IN  SubSeq(l, 1, off + i - 1) \o SubSeq(<< >>, i, Len(<< >>))
  BY Zenon DEF MergeEntries
<1>2. 1 .. Len(<< >>) = {}
  OBVIOUS
<1>3. cut = {}
  BY <1>2, Zenon
<1> QED
  BY <1>1, <1>3, Zenon

(* The index that updateCommitIndex moves to is an index.                  *)
LEMMA UpdateCommitType ==
  ASSUME StateTypeOK, NEW n \in Server, NEW l \in Seq(Entry), NEW match
  PROVE  /\ UpdateCommitIndex(n, l, match) \in Nat
         /\ UpdateCommitIndex(n, l, match) >= commitIndex[n]
<1> DEFINE range == {i \in commitIndex[n] + 1 .. logBase[n] + Len(l) : i > logBase[n]}
           new == {i \in range :
                     /\ OnMajority(n, match, i)
                     /\ \A j \in range : j > i => ~OnMajority(n, match, j)
                     /\ CommitsDirectly(n, l[i - logBase[n]])}
<1>1. commitIndex[n] \in Nat /\ logBase[n] \in Nat /\ Len(l) \in Nat
  BY DEF StateTypeOK, LogTypeOK
<1>2. \A i \in new : i \in Nat /\ i >= commitIndex[n]
  BY <1>1
<1>3. UpdateCommitIndex(n, l, match)
        = IF new = {} THEN commitIndex[n] ELSE CHOOSE i \in new : TRUE
  BY Zenon DEF UpdateCommitIndex
<1> HIDE DEF new
<1>4. CASE new = {}
  BY <1>1, <1>3, <1>4
<1>5. CASE new # {}
  <2>1. (CHOOSE i \in new : TRUE) \in new
    BY <1>5, Zenon
  <2> QED
    BY <2>1, <1>2, <1>3, <1>5, Zenon
<1> QED
  BY <1>4, <1>5, Zenon

(* getLastLogInfoLocked returns an index and a term.                       *)
LEMMA LastLogInfoType ==
  ASSUME NEW l \in Seq(Entry)
  PROVE  LastLogInfo(l) \in [index : Nat, term : Nat]
<1>1. CASE l = << >>
  BY <1>1, Zenon DEF LastLogInfo
<1>2. CASE l # << >>
  <2>1. l[Len(l)] \in Entry
    BY <1>2, EmptySeq, ElementOfSeq
  <2> QED
    BY <1>2, <2>1, Zenon DEF LastLogInfo, Entry
<1> QED
  BY <1>1, <1>2, Zenon

-----------------------------------------------------------------------------
(* Type correctness                                                        *)

(* The records of calls keep their type as the calls move on.              *)
LEMMA VoteRequestType ==
  ASSUME NEW r \in VoteRpc, NEW last \in [index : Nat, term : Nat]
  PROVE  VoteRequest(r, last) \in VoteRpc
  BY Zenon DEF VoteRequest, VoteRpc

LEMMA VoteReplyType ==
  ASSUME NEW r \in VoteRpc, NEW t \in Nat, NEW g \in BOOLEAN
  PROVE  VoteReply(r, t, g) \in VoteRpc
  BY Zenon DEF VoteReply, VoteRpc

LEMMA AppendRequestType ==
  ASSUME NEW r \in LeaderRpc, NEW prev \in Nat, NEW pterm \in Nat,
         NEW es \in Seq(Entry)
  PROVE  /\ AppendRequest(r, prev, pterm, es) \in LeaderRpc
         /\ AppendRequest(r, prev, pterm, es).phase = "req"
  BY Zenon DEF AppendRequest, LeaderRpc

LEMMA AppendReplyType ==
  ASSUME NEW r \in LeaderRpc, NEW t \in Nat, NEW ok \in BOOLEAN
  PROVE  /\ AppendReply(r, t, ok) \in LeaderRpc
         /\ AppendReply(r, t, ok).phase = "resp"
<1>1. r.prev + Len(r.entries) \in Nat
  BY DEF LeaderRpc
<1>2. << >> \in Seq(Entry) /\ 0 \in Nat
  BY EmptySeq, Zenon
<1> QED
  BY <1>1, <1>2, Zenon DEF AppendReply, LeaderRpc

LEMMA RetryType ==
  ASSUME NEW r \in LeaderRpc
  PROVE  Retry(r) \in LeaderRpc /\ Retry(r).phase = "call"
<1>1. 0 \in Nat
  BY Zenon
<1> QED
  BY <1>1, Zenon DEF Retry, LeaderRpc

(* A save leaves well-formed files, whether it succeeds or fails.          *)
LEMMA SavedType ==
  ASSUME DiskTypeOK, faults \in 0 .. MaxFaults, UNCHANGED diskSnap,
         NEW n \in Server, NEW t \in Nat, NEW v \in Server \cup {None},
         NEW l \in Seq(Entry),
         Saved(n, t, v, l) \/ SaveFails \/ UNCHANGED <<disk, faults>>
  PROVE  DiskTypeOK' /\ faults' \in 0 .. MaxFaults
<1> DEFINE d == [term |-> t, vote |-> v, log |-> l]
<1>1. d \in [term : Nat, vote : Server \cup {None}, log : Seq(Entry)]
  BY Zenon
<1> HIDE DEF d
<1>2. CASE Saved(n, t, v, l)
  BY <1>1, <1>2, Zenon DEF Saved, DiskTypeOK, d
<1>3. CASE SaveFails \/ UNCHANGED <<disk, faults>>
  BY <1>3, BoundsAssumption DEF SaveFails, DiskTypeOK
<1> QED
  BY <1>2, <1>3, Zenon

LEMMA NoSnapType == NoSnap \in Snap
  BY EmptySeq, Zenon DEF NoSnap, Snap

LEMMA TypeInit == Init => StateTypeOK
  BY ServerAssumption, BoundsAssumption, NoSnapType, EmptySeq
     DEF Init, StateTypeOK, ElectionTypeOK, LogTypeOK, LeaderTypeOK, DiskTypeOK,
         NetworkTypeOK, ClientTypeOK, HistoryTypeOK, Follower, Candidate, Leader

LEMMA TypeBecomeCandidate ==
  ASSUME StateTypeOK, NEW n \in Server, NEW reached \in SUBSET Peers(n),
         BecomeCandidate(n, reached)
  PROVE  StateTypeOK'
<1> DEFINE t == currentTerm[n] + 1
           Call(p) == [cand |-> n, peer |-> p, term |-> t, phase |-> "call",
                       lastIdx |-> 0, lastTerm |-> 0, rterm |-> 0,
                       granted |-> FALSE]
<1> USE DEF StateTypeOK
<1>1. t \in Nat
  BY DEF ElectionTypeOK
<1>2. timer' \in [Server -> BOOLEAN]
  BY Zenon DEF ElectionTypeOK, BecomeCandidate, ResetElectionTimer, StopElectionTimer
<1>3. ElectionTypeOK' /\ HistoryTypeOK'
  <2>1. /\ currentTerm' \in [Server -> Nat]
        /\ votedFor' \in [Server -> Server \cup {None}]
        /\ state' \in [Server -> {Follower, Candidate, Leader}]
        /\ leaderId' \in [Server -> Server \cup {None}]
    <3>1. /\ currentTerm' = [currentTerm EXCEPT ![n] = t]
          /\ votedFor' = [votedFor EXCEPT ![n] = n]
          /\ state' = [state EXCEPT ![n] = Candidate]
          /\ leaderId' = [leaderId EXCEPT ![n] = None]
      BY Zenon DEF BecomeCandidate
    <3> HIDE DEF t
    <3> QED
      BY <1>1, <3>1, ZenonT(30) DEF ElectionTypeOK
  <2>2. /\ votesReceived' \in [Server -> Nat]
        /\ promoting' \in [Server -> Nat]
    <3>1. /\ votesReceived' = [votesReceived EXCEPT ![n] = 1]
          /\ \/ promoting' = [promoting EXCEPT ![n] = IF Peers(n) = {} THEN @ + 1 ELSE @]
             \/ promoting' = promoting
      BY Zenon DEF BecomeCandidate
    <3>2. /\ votesReceived \in [Server -> Nat] /\ promoting \in [Server -> Nat]
          /\ promoting[n] \in Nat
      BY Zenon DEF ElectionTypeOK
    <3>3. 1 \in Nat /\ promoting[n] + 1 \in Nat
      BY <3>2, NextOfNat, Zenon
    <3> QED
      BY <3>1, <3>2, <3>3, ZenonT(30)
  <2>3. HistoryTypeOK'
    BY DEF ElectionTypeOK, HistoryTypeOK, BecomeCandidate
  <2> QED
    BY <1>2, <2>1, <2>2, <2>3, Zenon DEF ElectionTypeOK
<1>4. LogTypeOK' /\ LeaderTypeOK'
  BY Zenon DEF LogTypeOK, LeaderTypeOK, BecomeCandidate, logVars,
         commitVars, leaderVars
<1>5. DiskTypeOK' /\ faults' \in 0 .. MaxFaults
  <2>1. \/ Saved(n, t, n, log[n])
        \/ SaveFails
    BY Zenon DEF BecomeCandidate
  <2> QED
    BY <2>1, <1>1, SavedType, Zenon
       DEF BecomeCandidate, ClientTypeOK, LogTypeOK
<1>6. ClientTypeOK'
  BY <1>5, Zenon DEF ClientTypeOK, BecomeCandidate, clientVars
<1>7. NetworkTypeOK'
  <2>1. \A p \in reached : Call(p) \in VoteRpc
    BY <1>1, Zenon DEF VoteRpc, Peers
  <2>2. \/ voteRpcs' = voteRpcs \cup {Call(p) : p \in reached}
        \/ voteRpcs' = voteRpcs
    BY Zenon DEF BecomeCandidate
  <2>3. voteRpcs' \subseteq VoteRpc
    <3>1. voteRpcs \subseteq VoteRpc
      BY Zenon DEF NetworkTypeOK
    <3>2. {Call(p) : p \in reached} \subseteq VoteRpc
      BY <2>1, Zenon
    <3> HIDE DEF Call
    <3> QED
      BY <2>2, <3>1, <3>2, Zenon
  <2> QED
    BY <2>3, Zenon DEF NetworkTypeOK, BecomeCandidate
<1> QED
  BY <1>3, <1>4, <1>5, <1>6, <1>7, Zenon

LEMMA TypeSendRequestVote ==
  ASSUME StateTypeOK, NEW r \in voteRpcs, SendRequestVote(r)
  PROVE  StateTypeOK'
<1> USE DEF StateTypeOK
<1>1. r \in VoteRpc /\ r.cand \in Server
  BY Zenon DEF NetworkTypeOK, VoteRpc
<1>2. LastLogInfo(log[r.cand]) \in [index : Nat, term : Nat]
  BY <1>1, LastLogInfoType, Zenon DEF LogTypeOK
<1>3. VoteRequest(r, LastLogInfo(log[r.cand])) \in VoteRpc
  BY <1>1, <1>2, VoteRequestType, Zenon
<1>4. NetworkTypeOK'
  BY <1>3, Zenon DEF NetworkTypeOK, SendRequestVote
<1> QED
  BY <1>4, Zenon DEF SendRequestVote, ElectionTypeOK, LogTypeOK,
     LeaderTypeOK, DiskTypeOK, ClientTypeOK, HistoryTypeOK, electionVars,
     logVars, commitVars, leaderVars, diskVars, clientVars, historyVars

LEMMA TypeRequestVote ==
  ASSUME StateTypeOK, NEW r \in voteRpcs, RequestVote(r)
  PROVE  StateTypeOK'
<1> DEFINE n    == r.peer
           term == IF r.term > currentTerm[n] THEN r.term ELSE currentTerm[n]
           vote == IF r.term > currentTerm[n] THEN None ELSE votedFor[n]
<1> USE DEF StateTypeOK
<1>1. /\ r \in VoteRpc /\ n \in Server /\ r.cand \in Server /\ r.term \in Nat
      /\ term \in Nat /\ vote \in Server \cup {None} /\ log[n] \in Seq(Entry)
  BY Zenon DEF NetworkTypeOK, VoteRpc, ElectionTypeOK, LogTypeOK
<1>2. VoteReply(r, term, TRUE) \in VoteRpc /\ VoteReply(r, term, FALSE) \in VoteRpc
  BY <1>1, VoteReplyType, Zenon
<1>3. /\ currentTerm' = [currentTerm EXCEPT ![n] = term]
      /\ state' = [state EXCEPT ![n] = IF r.term > currentTerm[n] THEN Follower ELSE @]
      /\ votedFor' = [votedFor EXCEPT ![n] = vote]
         \/ votedFor' = [votedFor EXCEPT ![n] = r.cand]
      /\ timer' = timer \/ timer' = [timer EXCEPT ![n] = TRUE]
      /\ ballots' = ballots \/ ballots' = ballots \cup {<<n, term, r.cand>>}
      /\ \/ voteRpcs' = voteRpcs \ {r}
         \/ voteRpcs' = (voteRpcs \ {r}) \cup {VoteReply(r, term, FALSE)}
         \/ voteRpcs' = (voteRpcs \ {r}) \cup {VoteReply(r, term, TRUE)}
      /\ Saved(n, term, vote, log[n]) \/ SaveFails \/ UNCHANGED <<disk, faults>>
  BY Zenon DEF RequestVote, ResetElectionTimer
<1>4. /\ UNCHANGED <<leaderId, votesReceived, promoting, logVars, leaderVars>>
      /\ UNCHANGED <<diskSnap, leaderRpcs, clientVars, restarts, voters, elected>>
  BY Zenon DEF RequestVote, ResetElectionTimer
<1> HIDE DEF n, term, vote
<1>5. timer' \in [Server -> BOOLEAN]
  BY <1>1, <1>3, Zenon DEF ElectionTypeOK
<1>6. /\ currentTerm' \in [Server -> Nat]
      /\ votedFor' \in [Server -> Server \cup {None}]
      /\ state' \in [Server -> {Follower, Candidate, Leader}]
  BY <1>1, <1>3, ZenonT(40) DEF ElectionTypeOK
<1>7. ElectionTypeOK'
  BY <1>4, <1>5, <1>6, Zenon DEF ElectionTypeOK
<1>8. LogTypeOK' /\ LeaderTypeOK'
  BY <1>4, Zenon DEF LogTypeOK, LeaderTypeOK, logVars, commitVars, leaderVars
<1>9. DiskTypeOK' /\ faults' \in 0 .. MaxFaults
  BY <1>1, <1>3, <1>4, SavedType, Zenon DEF ClientTypeOK
<1>10. ClientTypeOK'
  BY <1>4, <1>9, Zenon DEF ClientTypeOK, clientVars
<1>11. NetworkTypeOK'
  BY <1>2, <1>3, <1>4, Zenon DEF NetworkTypeOK
<1>12. HistoryTypeOK'
  BY <1>1, <1>3, <1>4 DEF HistoryTypeOK
<1> QED
  BY <1>7, <1>8, <1>9, <1>10, <1>11, <1>12, Zenon

(* stepDown, called with a term of a reply.                                *)
LEMMA TypeStepDown ==
  ASSUME ElectionTypeOK, NEW n \in Server, NEW t \in Nat, StepDown(n, t),
         UNCHANGED <<timer, promoting>>
  PROVE  ElectionTypeOK'
  BY Zenon DEF ElectionTypeOK, StepDown

LEMMA TypeHandleVoteReply ==
  ASSUME StateTypeOK, NEW r \in voteRpcs, HandleVoteReply(r)
  PROVE  StateTypeOK'
<1> DEFINE n == r.cand
<1> USE DEF StateTypeOK
<1>1. n \in Server /\ r.peer \in Server /\ r.rterm \in Nat
  BY Zenon DEF NetworkTypeOK, VoteRpc
<1>2. /\ voteRpcs' = voteRpcs \ {r}
      /\ UNCHANGED <<logVars, leaderVars, diskVars, leaderRpcs>>
      /\ UNCHANGED <<clientVars, restarts, faults, ballots, elected>>
      /\ \/ UNCHANGED <<electionVars, voters>>
         \/ StepDown(n, r.rterm) /\ UNCHANGED <<timer, promoting, voters>>
         \/ /\ votesReceived' = [votesReceived EXCEPT ![n] = votesReceived[n] + 1]
            /\ voters' = [voters EXCEPT ![n] = @ \cup {r.peer}]
            /\ promoting' = [promoting EXCEPT ![n] =
                 IF votesReceived[n] + 1 > Cardinality(Peers(n)) \div 2
                   THEN @ + 1 ELSE @]
            /\ UNCHANGED <<currentTerm, votedFor, state, leaderId, timer>>
  BY Zenon DEF HandleVoteReply
<1> HIDE DEF n
<1>3. ElectionTypeOK' /\ voters' \in [Server -> SUBSET Server]
  <2>1. CASE UNCHANGED <<electionVars, voters>>
    BY <2>1, Zenon DEF ElectionTypeOK, HistoryTypeOK, electionVars
  <2>2. CASE StepDown(n, r.rterm) /\ UNCHANGED <<timer, promoting, voters>>
    BY <2>2, <1>1, TypeStepDown, Zenon DEF HistoryTypeOK
  <2>3. CASE /\ votesReceived' = [votesReceived EXCEPT ![n] = votesReceived[n] + 1]
             /\ voters' = [voters EXCEPT ![n] = @ \cup {r.peer}]
             /\ promoting' = [promoting EXCEPT ![n] =
                  IF votesReceived[n] + 1 > Cardinality(Peers(n)) \div 2
                    THEN @ + 1 ELSE @]
             /\ UNCHANGED <<currentTerm, votedFor, state, leaderId, timer>>
    BY <2>3, <1>1 DEF ElectionTypeOK, HistoryTypeOK
  <2> QED
    BY <1>2, <2>1, <2>2, <2>3, Zenon
<1>4. LogTypeOK' /\ LeaderTypeOK'
  BY <1>2, Zenon DEF LogTypeOK, LeaderTypeOK, logVars, commitVars,
              leaderVars, diskVars
<1>5. DiskTypeOK' /\ ClientTypeOK'
  BY <1>2, Zenon DEF DiskTypeOK, ClientTypeOK, diskVars, clientVars
<1>6. NetworkTypeOK'
  BY <1>2, Zenon DEF NetworkTypeOK
<1>7. HistoryTypeOK'
  BY <1>2, <1>3, Zenon DEF HistoryTypeOK
<1> QED
  BY <1>3, <1>4, <1>5, <1>6, <1>7, Zenon

LEMMA TypeBecomeLeader ==
  ASSUME StateTypeOK, NEW n \in Server, BecomeLeader(n)
  PROVE  StateTypeOK'
<1> DEFINE last == LastLogInfo(log[n]).index
<1> USE DEF StateTypeOK
<1>1. last \in Nat /\ last + 1 \in Nat \ {0}
  <2>1. LastLogInfo(log[n]) \in [index : Nat, term : Nat]
    BY LastLogInfoType, Zenon DEF LogTypeOK
  <2> QED
    BY <2>1
<1>2. /\ promoting[n] > 0
      /\ promoting' = [promoting EXCEPT ![n] = @ - 1]
      /\ state' = [state EXCEPT ![n] = Leader] \/ state' = state
      /\ leaderId' = [leaderId EXCEPT ![n] = n] \/ leaderId' = leaderId
      /\ timer' = [timer EXCEPT ![n] = FALSE] \/ timer' = timer
      /\ elected' = elected \cup {<<n, currentTerm[n]>>} \/ elected' = elected
      /\ UNCHANGED <<currentTerm, votedFor, votesReceived, logVars, diskVars>>
      /\ UNCHANGED <<voteRpcs, leaderRpcs, clientVars, restarts, faults>>
      /\ UNCHANGED <<ballots, voters>>
  BY Zenon DEF BecomeLeader, StopElectionTimer
<1>9. /\ \/ nextIndex' = [nextIndex EXCEPT ![n] = [p \in Server |-> last + 1]]
         \/ nextIndex' = nextIndex
      /\ \/ matchIndex' = [matchIndex EXCEPT ![n] = [p \in Server |-> 0]]
         \/ matchIndex' = matchIndex
  BY Zenon DEF BecomeLeader, leaderVars
<1> HIDE DEF last
<1>3. timer' \in [Server -> BOOLEAN]
  BY <1>2, Zenon DEF ElectionTypeOK
<1>4. ElectionTypeOK'
  <2>1. promoting' \in [Server -> Nat]
    BY <1>2 DEF ElectionTypeOK
  <2>2. /\ state' \in [Server -> {Follower, Candidate, Leader}]
        /\ leaderId' \in [Server -> Server \cup {None}]
    BY <1>2, Zenon DEF ElectionTypeOK
  <2> QED
    BY <1>2, <1>3, <2>1, <2>2, Zenon DEF ElectionTypeOK
<1>5. LeaderTypeOK'
  <2>1. /\ [p \in Server |-> last + 1] \in [Server -> Nat \ {0}]
        /\ [p \in Server |-> 0] \in [Server -> Nat]
    BY <1>1, Zenon
  <2> QED
    BY <1>9, <2>1, Zenon DEF LeaderTypeOK
<1>6. HistoryTypeOK'
  BY <1>2 DEF HistoryTypeOK, ElectionTypeOK
<1>7. LogTypeOK'
  BY <1>2, Zenon DEF LogTypeOK, logVars, commitVars, diskVars
<1>8. DiskTypeOK' /\ ClientTypeOK' /\ NetworkTypeOK'
  BY <1>2, Zenon DEF DiskTypeOK, ClientTypeOK, NetworkTypeOK, diskVars, clientVars
<1> QED
  BY <1>4, <1>5, <1>6, <1>7, <1>8, Zenon

(* The calls that a leader spawns are well-formed and not transfers.       *)
LEMMA TypeSpawn ==
  ASSUME NetworkTypeOK, ElectionTypeOK,
         NEW n \in Server, NEW reached \in SUBSET Peers(n), NEW commit \in Nat,
         Spawn(n, reached, commit)
  PROVE  /\ leaderRpcs' \subseteq LeaderRpc
         /\ \A r \in leaderRpcs' : r \in leaderRpcs \/ r.phase = "call"
<1> DEFINE Call(p) ==
             [leader |-> n, peer |-> p, term |-> currentTerm[n], commit |-> commit,
              phase |-> "call", prev |-> 0, prevTerm |-> 0, entries |-> << >>,
              snap |-> NoSnap, match |-> 0, rterm |-> 0, success |-> FALSE]
<1>1. leaderRpcs' = leaderRpcs \cup {Call(p) : p \in reached}
  BY Zenon DEF Spawn
<1>2. \A p \in reached : Call(p) \in LeaderRpc
  BY NoSnapType, EmptySeq, Zenon DEF LeaderRpc, Peers, ElectionTypeOK
<1>3. \A p \in reached : Call(p).phase = "call"
  BY Zenon
<1> HIDE DEF Call
<1> QED
  BY <1>1, <1>2, <1>3, Zenon DEF NetworkTypeOK

LEMMA TypeSendHeartbeats ==
  ASSUME StateTypeOK, NEW n \in Server, NEW reached \in SUBSET Peers(n),
         SendHeartbeats(n, reached)
  PROVE  StateTypeOK'
<1> USE DEF StateTypeOK
<1>1. Spawn(n, reached, commitIndex[n]) /\ commitIndex[n] \in Nat
  BY Zenon DEF SendHeartbeats, LogTypeOK
<1>2. leaderRpcs' \subseteq LeaderRpc
  BY <1>1, TypeSpawn, Zenon
<1>3. NetworkTypeOK'
  BY <1>2, Zenon DEF NetworkTypeOK, SendHeartbeats, logVars, diskVars
<1> QED
  BY <1>3, Zenon DEF SendHeartbeats, ElectionTypeOK, LogTypeOK, LeaderTypeOK,
     DiskTypeOK, ClientTypeOK, HistoryTypeOK, electionVars, logVars, commitVars,
     leaderVars, diskVars, clientVars, historyVars

File == [term : Nat, vote : Server \cup {None}, log : Seq(Entry)]

(* A process that starts from well-formed files has a well-formed state.   *)
LEMMA TypeReboot ==
  ASSUME StateTypeOK, NEW n \in Server, NEW d \in File, NEW s \in Snap,
         NEW handling, Reboot(n, d, s, handling), restarts' \in 0 .. MaxRestarts
  PROVE  StateTypeOK'
<1> DEFINE commit == RestoredCommit(d, s)
<1> USE DEF StateTypeOK
<1>1. d \in [term : Nat, vote : Server \cup {None}, log : Seq(Entry)]
  BY Zenon DEF File
<1>2. s.index \in Nat /\ s.data \in Seq(Entry)
  BY Zenon DEF Snap
<1>3. commit \in Nat
  <2>1. LastSaved(d) \in Nat
    <3>1. CASE d.log = << >>
      BY <3>1, Zenon DEF LastSaved
    <3>2. CASE d.log # << >>
      <4>1. d.log[Len(d.log)] \in Entry
        BY <3>2, <1>1, EmptySeq, ElementOfSeq
      <4> QED
        BY <3>2, <4>1, Zenon DEF LastSaved, Entry
    <3> QED
      BY <3>1, <3>2, Zenon
  <2> QED
    BY <2>1, <1>2, Zenon DEF RestoredCommit
<1> HIDE DEF commit
<1>5. ElectionTypeOK'
  <2>1. timer' \in [Server -> BOOLEAN]
    BY Zenon DEF Reboot, ElectionTypeOK
  <2>2. /\ currentTerm' \in [Server -> Nat]
        /\ votedFor' \in [Server -> Server \cup {None}]
        /\ leaderId' \in [Server -> Server \cup {None}]
    BY <1>1, Zenon DEF Reboot, ElectionTypeOK
  <2>3. /\ state' \in [Server -> {Follower, Candidate, Leader}]
        /\ votesReceived' \in [Server -> Nat]
        /\ promoting' \in [Server -> Nat]
    BY Zenon DEF Reboot, ElectionTypeOK
  <2> QED
    BY <2>1, <2>2, <2>3, Zenon DEF ElectionTypeOK
<1>6. LogTypeOK'
  <2>1. /\ log' = [log EXCEPT ![n] = d.log]
        /\ logBase' = [logBase EXCEPT ![n] = s.index]
        /\ snapshot' = [snapshot EXCEPT ![n] = s]
        /\ commitIndex' = [commitIndex EXCEPT ![n] = commit]
        /\ lastApplied' = [lastApplied EXCEPT ![n] =
                             IF s.index > 0 THEN s.index ELSE commit]
        /\ woken' = [woken EXCEPT ![n] = FALSE]
        /\ kv' = [kv EXCEPT ![n] = s.data]
    BY Zenon DEF Reboot, commit
  <2>2. woken' \in [Server -> BOOLEAN]
    BY <2>1, Zenon DEF LogTypeOK
  <2>3. /\ log' \in [Server -> Seq(Entry)] /\ kv' \in [Server -> Seq(Entry)]
        /\ snapshot' \in [Server -> Snap]
    BY <1>1, <1>2, <2>1, Zenon DEF LogTypeOK
  <2>4. /\ logBase' \in [Server -> Nat] /\ commitIndex' \in [Server -> Nat]
        /\ lastApplied' \in [Server -> Nat]
    BY <1>2, <1>3, <2>1, Zenon DEF LogTypeOK
  <2> QED
    BY <2>2, <2>3, <2>4, Zenon DEF LogTypeOK
<1>7. LeaderTypeOK'
  <2>1. /\ [p \in Server |-> 1] \in [Server -> Nat \ {0}]
        /\ [p \in Server |-> 0] \in [Server -> Nat]
    OBVIOUS
  <2>2. /\ nextIndex' = [nextIndex EXCEPT ![n] = [p \in Server |-> 1]]
        /\ matchIndex' = [matchIndex EXCEPT ![n] = [p \in Server |-> 0]]
    BY Zenon DEF Reboot
  <2> QED
    BY <2>1, <2>2, Zenon DEF LeaderTypeOK
<1>8. DiskTypeOK'
  BY <1>1, Zenon DEF Reboot, DiskTypeOK
<1>9. /\ voteRpcs' \subseteq voteRpcs /\ leaderRpcs' \subseteq leaderRpcs
      /\ pending' \subseteq pending
      /\ UNCHANGED <<submitted, faults, ballots, elected>>
      /\ voters' = [voters EXCEPT ![n] = {}]
  BY Zenon DEF Reboot
<1>10. NetworkTypeOK' /\ ClientTypeOK' /\ HistoryTypeOK'
  BY <1>9, BoundsAssumption, Zenon DEF NetworkTypeOK, ClientTypeOK, HistoryTypeOK
<1> QED
  BY <1>5, <1>6, <1>7, <1>8, <1>10, Zenon

LEMMA OneMoreRestart ==
  ASSUME StateTypeOK, restarts < MaxRestarts, restarts' = restarts + 1
  PROVE  restarts' \in 0 .. MaxRestarts
<1>1. MaxRestarts \in Nat /\ restarts \in 0 .. MaxRestarts
  BY BoundsAssumption, Zenon DEF StateTypeOK, ClientTypeOK
<1> QED
  BY ONLY <1>1, restarts < MaxRestarts, restarts' = restarts + 1

LEMMA TypeRestart ==
  ASSUME StateTypeOK, NEW n \in Server, Restart(n)
  PROVE  StateTypeOK'
<1>1. disk[n] \in File /\ diskSnap[n] \in Snap
  BY Zenon DEF StateTypeOK, DiskTypeOK, File
<1>2. restarts' \in 0 .. MaxRestarts
  <2>1. restarts < MaxRestarts /\ restarts' = restarts + 1
    BY Zenon DEF Restart
  <2> QED
    BY <2>1, OneMoreRestart, Zenon
<1>3. Reboot(n, disk[n], diskSnap[n], {})
  BY Zenon DEF Restart
<1> QED
  BY <1>1, <1>2, <1>3, TypeReboot, Zenon

LEMMA TypeSendAppendEntries ==
  ASSUME StateTypeOK, NEW r \in leaderRpcs, SendAppendEntries(r)
  PROVE  StateTypeOK'
<1> DEFINE n     == r.leader
           base  == logBase[n]
           wish  == nextIndex[n][r.peer] - 1
           prev  == IF wish - base \in 1 .. Len(log[n]) THEN wish ELSE 0
           first == prev + 1
           pterm == IF prev > 0 THEN log[n][prev - base].term ELSE 0
           es    == IF first <= base THEN << >>
                    ELSE SubSeq(log[n], first - base, Len(log[n]) - base)
<1> USE DEF StateTypeOK
<1>1. r \in LeaderRpc /\ n \in Server /\ r.peer \in Server
  BY Zenon DEF NetworkTypeOK, LeaderRpc
<1>2. /\ base \in Nat /\ wish \in Nat /\ log[n] \in Seq(Entry)
      /\ Len(log[n]) \in Nat
  <2>1. base \in Nat
    BY <1>1, Zenon DEF LogTypeOK
  <2>2. nextIndex[n][r.peer] \in Nat \ {0}
    BY <1>1, Zenon DEF LeaderTypeOK
  <2>3. log[n] \in Seq(Entry)
    BY <1>1, Zenon DEF LogTypeOK
  <2>4. wish \in Nat
    BY <2>2
  <2>5. Len(log[n]) \in Nat
    BY <2>3
  <2> QED
    BY <2>1, <2>3, <2>4, <2>5, Zenon
<1>3. \/ leaderRpcs' = leaderRpcs \ {r}
      \/ /\ wish < base
         /\ Advance(r, [r EXCEPT !.phase = "icall"])
      \/ Advance(r, AppendRequest(r, prev, pterm, es))
  BY Zenon DEF SendAppendEntries
<1>4. /\ UNCHANGED <<electionVars, logVars, leaderVars, diskVars, voteRpcs>>
      /\ UNCHANGED <<clientVars, restarts, faults, historyVars>>
  BY Zenon DEF SendAppendEntries
<1> HIDE DEF n, base, wish
<1>5. prev \in Nat /\ (prev > 0 => prev - base \in 1 .. Len(log[n]))
  BY <1>2
<1>6. pterm \in Nat
  <2>1. CASE prev > 0
    <3>1. log[n][prev - base] \in Entry
      BY <2>1, <1>2, <1>5, ElementOfSeq, Zenon
    <3>2. pterm = log[n][prev - base].term
      BY <2>1, Zenon
    <3> HIDE DEF prev, pterm
    <3> QED
      BY <3>1, <3>2, Zenon DEF Entry
  <2>2. CASE ~(prev > 0)
    BY <2>2, Zenon
  <2> QED
    BY <2>1, <2>2, Zenon
<1> HIDE DEF prev, pterm
<1>7. es \in Seq(Entry)
  <2>1. CASE first <= base
    BY <2>1, EmptySeq, Zenon
  <2>2. CASE ~(first <= base)
    <3>1. /\ first - base \in Int /\ first - base >= 1
          /\ Len(log[n]) - base \in Int /\ Len(log[n]) - base <= Len(log[n])
      BY <2>2, <1>2, <1>5
    <3>2. \A k \in first - base .. Len(log[n]) - base : k \in 1 .. Len(log[n])
      BY <3>1, <1>2
    <3>3. \A k \in first - base .. Len(log[n]) - base : log[n][k] \in Entry
      BY <3>2, <1>2, ElementOfSeq, Zenon
    <3>4. SubSeq(log[n], first - base, Len(log[n]) - base) \in Seq(Entry)
      BY <3>1, <3>3, SubSeqProperties, Zenon
    <3> QED
      BY <2>2, <3>4, Zenon
  <2> QED
    BY <2>1, <2>2, Zenon
<1> HIDE DEF es
<1>8. /\ AppendRequest(r, prev, pterm, es) \in LeaderRpc
      /\ AppendRequest(r, prev, pterm, es).phase = "req"
  BY <1>1, <1>5, <1>6, <1>7, AppendRequestType, Zenon
<1>9. [r EXCEPT !.phase = "icall"] \in LeaderRpc
  BY <1>1, Zenon DEF LeaderRpc
<1>10. NetworkTypeOK'
  BY <1>3, <1>4, <1>8, <1>9, Zenon DEF NetworkTypeOK, Advance
<1> QED
  BY <1>4, <1>10, Zenon DEF ElectionTypeOK, LogTypeOK, LeaderTypeOK, DiskTypeOK,
     ClientTypeOK, HistoryTypeOK, electionVars, logVars, commitVars, leaderVars,
     diskVars, clientVars, historyVars

(* The commit index moves to another index.                                *)
LEMMA TypeCommit ==
  ASSUME LogTypeOK, NEW n \in Server, NEW i \in Nat,
         Commit(n, i) \/ UNCHANGED commitVars
  PROVE  commitIndex' \in [Server -> Nat] /\ woken' \in [Server -> BOOLEAN]
<1>1. commitIndex' \in [Server -> Nat]
  <2>1. \/ commitIndex' = [commitIndex EXCEPT ![n] = i]
        \/ commitIndex' = commitIndex
    BY Zenon DEF Commit, commitVars
  <2>2. commitIndex \in [Server -> Nat]
    BY Zenon DEF LogTypeOK
  <2> QED
    BY <2>1, <2>2, Zenon
<1>2. woken' \in [Server -> BOOLEAN]
  BY Zenon DEF LogTypeOK, Commit, commitVars
<1> QED
  BY <1>1, <1>2, Zenon

LEMMA TypeAppendEntries ==
  ASSUME StateTypeOK, NEW r \in leaderRpcs, AppendEntries(r)
  PROVE  StateTypeOK'
<1> DEFINE n       == r.peer
           newer   == r.term > currentTerm[n]
           vote    == IF newer THEN None ELSE votedFor[n]
           role    == IF newer THEN Follower ELSE state[n]
           off     == r.prev - logBase[n]
           merged  == MergeEntries(log[n], off, r.entries)
           new     == IF PrevOk(n, r) THEN merged ELSE log[n]
<1> USE DEF StateTypeOK
<1>1. /\ r \in LeaderRpc /\ n \in Server /\ r.leader \in Server
      /\ r.term \in Nat /\ r.prev \in Nat /\ r.commit \in Nat
      /\ r.entries \in Seq(Entry)
  BY Zenon DEF NetworkTypeOK, LeaderRpc
<1>2. /\ currentTerm[n] \in Nat /\ log[n] \in Seq(Entry) /\ logBase[n] \in Nat
      /\ commitIndex[n] \in Nat
  <2>1. currentTerm[n] \in Nat
    BY <1>1, Zenon DEF ElectionTypeOK
  <2>2. log[n] \in Seq(Entry) /\ commitIndex[n] \in Nat /\ logBase[n] \in Nat
    BY <1>1, Zenon DEF LogTypeOK
  <2> QED
    BY <2>1, <2>2, Zenon
<1>3. vote \in Server \cup {None} /\ role \in {Follower, Candidate, Leader}
  BY <1>1, Zenon DEF ElectionTypeOK
<1>4. ASSUME ~(PrevOk(n, r) /\ off < 0 /\ r.entries # << >>)
      PROVE  new \in Seq(Entry)
  <2>1. CASE PrevOk(n, r) /\ off >= 0
    <3>1. off \in Nat /\ off <= Len(log[n])
      BY <2>1, <1>1, <1>2, SMTT(30) DEF PrevOk
    <3>2. merged \in Seq(Entry)
      BY <3>1, <1>1, <1>2, MergeType, Zenon
    <3> QED
      BY <2>1, <3>2, Zenon
  <2>2. CASE PrevOk(n, r) /\ r.entries = << >>
    <3>1. Len(r.entries) = 0
      BY <2>2
    <3>2. merged = log[n]
      BY <3>1 DEF MergeEntries
    <3> QED
      BY <2>2, <3>2, <1>2, Zenon
  <2>3. CASE ~PrevOk(n, r)
    BY <2>3, <1>2, Zenon
  <2>4. off \in Int
    BY <1>1, <1>2
  <2> HIDE DEF off
  <2> QED
    BY <1>4, <2>1, <2>2, <2>3, <2>4
<1>5. LeaderCommit(n, r) \in Nat
  BY <1>1, <1>2 DEF LeaderCommit
<1>6. /\ \A ok \in BOOLEAN : /\ AppendReply(r, r.term, ok) \in LeaderRpc
                             /\ AppendReply(r, r.term, ok).phase = "resp"
      /\ AppendReply(r, currentTerm[n], FALSE) \in LeaderRpc
      /\ AppendReply(r, currentTerm[n], FALSE).phase = "resp"
  BY <1>1, <1>2, AppendReplyType, Zenon
<1>7. CASE r.term < currentTerm[n]
  <2>0. ~(r.term >= currentTerm[n])
    <3>1. r.term \in Nat /\ currentTerm[n] \in Nat
      BY <1>1, <1>2, Zenon
    <3> HIDE DEF n
    <3> QED
      BY <3>1, <1>7
  <2>1. Advance(r, AppendReply(r, currentTerm[n], FALSE))
    BY <2>0, Zenon DEF AppendEntries
  <2>2. UNCHANGED <<electionVars, logVars, leaderVars, diskVars, voteRpcs,
                    clientVars, restarts, faults, historyVars>>
    BY <2>0, Zenon DEF AppendEntries
  <2>3. NetworkTypeOK'
    BY <2>1, <2>2, <1>6, Zenon
       DEF Advance, NetworkTypeOK, logVars, diskVars
  <2> QED
    BY <2>2, <2>3, Zenon DEF ElectionTypeOK, LogTypeOK, LeaderTypeOK, DiskTypeOK,
       ClientTypeOK, HistoryTypeOK, electionVars, logVars, commitVars,
       leaderVars, diskVars, clientVars, historyVars
<1>9. CASE /\ ~(r.term < currentTerm[n])
           /\ PrevOk(n, r) /\ off < 0 /\ r.entries # << >>
  <2>1. ~(off >= 0)
    <3>1. off \in Int
      BY <1>1, <1>2
    <3>2. off < 0
      BY <1>9, Zenon
    <3> HIDE DEF off
    <3> QED
      BY ONLY <3>1, <3>2
  <2>2. Reboot(n, disk[n], diskSnap[n], {r}) /\ UNCHANGED restarts
    BY <1>9, <2>1, Zenon DEF AppendEntries
  <2>3. disk[n] \in File /\ diskSnap[n] \in Snap
    BY <1>1, Zenon DEF DiskTypeOK, File
  <2>4. restarts' \in 0 .. MaxRestarts
    BY <2>2, Zenon DEF ClientTypeOK
  <2> HIDE DEF n, StateTypeOK
  <2> QED
    BY <1>1, <2>2, <2>3, <2>4, TypeReboot, Zenon
<1>8. CASE /\ ~(r.term < currentTerm[n])
           /\ ~(PrevOk(n, r) /\ off < 0 /\ r.entries # << >>)
  <2>1. new \in Seq(Entry)
    BY <1>4, <1>8, Zenon
  <2>2. /\ currentTerm' = [currentTerm EXCEPT ![n] = r.term]
        /\ votedFor' = [votedFor EXCEPT ![n] = vote]
        /\ state' = [state EXCEPT ![n] = role]
        /\ leaderId' = [leaderId EXCEPT ![n] =
                          IF role # Leader THEN r.leader ELSE @]
        /\ timer' = [timer EXCEPT ![n] = TRUE]
        /\ log' = [log EXCEPT ![n] = new] \/ log' = log
        /\ Commit(n, LeaderCommit(n, r)) \/ UNCHANGED commitVars
        /\ Saved(n, r.term, vote, new) \/ SaveFails \/ UNCHANGED <<disk, faults>>
        /\ \/ leaderRpcs' = leaderRpcs \ {r}
           \/ \E ok \in BOOLEAN : Advance(r, AppendReply(r, r.term, ok))
    BY <1>8, Zenon DEF AppendEntries, ResetElectionTimer
  <2>3. /\ UNCHANGED <<votesReceived, promoting, logBase, snapshot, lastApplied>>
        /\ UNCHANGED <<kv, leaderVars, diskSnap, voteRpcs, clientVars, restarts>>
        /\ UNCHANGED historyVars
    BY <1>8, Zenon DEF AppendEntries, ResetElectionTimer
  <2> HIDE DEF n, vote, role, off, merged, new
  <2>4. ElectionTypeOK'
    <3>1. timer' \in [Server -> BOOLEAN]
      BY <1>1, <2>2, Zenon DEF ElectionTypeOK
    <3>2. /\ currentTerm' \in [Server -> Nat]
          /\ votedFor' \in [Server -> Server \cup {None}]
          /\ state' \in [Server -> {Follower, Candidate, Leader}]
          /\ leaderId' \in [Server -> Server \cup {None}]
      BY <1>1, <1>3, <2>2, Zenon DEF ElectionTypeOK
    <3> QED
      BY <3>1, <3>2, <2>3, Zenon DEF ElectionTypeOK
  <2>5. LogTypeOK'
    <3>1. commitIndex' \in [Server -> Nat] /\ woken' \in [Server -> BOOLEAN]
      BY <1>1, <1>5, <2>2, TypeCommit, Zenon
    <3>2. log' \in [Server -> Seq(Entry)]
      BY <1>1, <2>1, <2>2, Zenon DEF LogTypeOK
    <3> QED
      BY <3>1, <3>2, <2>3, Zenon DEF LogTypeOK
  <2>6. DiskTypeOK' /\ faults' \in 0 .. MaxFaults
    BY <1>1, <1>3, <2>1, <2>2, <2>3, SavedType, Zenon DEF ClientTypeOK
  <2>7. leaderRpcs' \subseteq LeaderRpc
    BY <1>6, <2>2 DEF Advance, NetworkTypeOK
  <2>8. NetworkTypeOK'
    BY <2>3, <2>7, Zenon DEF NetworkTypeOK
  <2>9. LeaderTypeOK' /\ ClientTypeOK' /\ HistoryTypeOK'
    BY <2>3, <2>6, Zenon DEF LeaderTypeOK, ClientTypeOK, HistoryTypeOK, leaderVars,
                      clientVars, historyVars
  <2> QED
    BY <2>4, <2>5, <2>6, <2>8, <2>9, Zenon
<1> QED
  BY <1>7, <1>8, <1>9, Zenon

(* What a leader learns from a peer's reply leaves its indexes indexes.    *)
LEMMA TypeMatched ==
  ASSUME StateTypeOK, NEW n \in Server, NEW p \in Server, NEW match \in Nat,
         Matched(n, p, match)
  PROVE  /\ LeaderTypeOK'
         /\ commitIndex' \in [Server -> Nat] /\ woken' \in [Server -> BOOLEAN]
<1> DEFINE m == IF match > matchIndex[n][p] THEN match ELSE matchIndex[n][p]
           i == UpdateCommitIndex(n, log[n], [matchIndex[n] EXCEPT ![p] = m])
<1> USE DEF StateTypeOK
<1>1. m \in Nat /\ m + 1 \in Nat \ {0}
  BY DEF LeaderTypeOK
<1>2. i \in Nat
  BY UpdateCommitType, Zenon DEF LogTypeOK
<1>3. /\ matchIndex' = [matchIndex EXCEPT ![n][p] = m]
      /\ nextIndex' = [nextIndex EXCEPT ![n][p] = m + 1]
      /\ Commit(n, i)
  BY Zenon DEF Matched
<1> HIDE DEF m, i
<1>4. LeaderTypeOK'
  BY <1>1, <1>3, Zenon DEF LeaderTypeOK
<1> QED
  BY <1>2, <1>3, <1>4, TypeCommit, Zenon

LEMMA TypeHandleAppendReply ==
  ASSUME StateTypeOK, NEW r \in leaderRpcs, HandleAppendReply(r)
  PROVE  StateTypeOK'
<1> DEFINE n == r.leader
<1> USE DEF StateTypeOK
<1>1. /\ r \in LeaderRpc /\ n \in Server /\ r.peer \in Server
      /\ r.rterm \in Nat /\ r.match \in Nat
  BY Zenon DEF NetworkTypeOK, LeaderRpc
<1>2. /\ leaderRpcs' = leaderRpcs \ {r} \/ Advance(r, Retry(r))
      /\ \/ UNCHANGED electionVars
         \/ StepDown(n, r.rterm) /\ UNCHANGED <<timer, promoting>>
      /\ \/ UNCHANGED <<leaderVars, commitVars>>
         \/ Matched(n, r.peer, r.match)
         \/ /\ nextIndex' = [nextIndex EXCEPT ![n][r.peer] = IF @ > 1 THEN @ - 1 ELSE @]
            /\ UNCHANGED <<matchIndex, commitVars>>
      /\ UNCHANGED <<log, logBase, snapshot, lastApplied, kv, diskVars>>
      /\ UNCHANGED <<voteRpcs, clientVars, restarts, faults, historyVars>>
  BY Zenon DEF HandleAppendReply
<1> HIDE DEF n
<1>3. ElectionTypeOK'
  BY <1>1, <1>2, TypeStepDown, Zenon DEF ElectionTypeOK, electionVars
<1>4. /\ LeaderTypeOK'
      /\ commitIndex' \in [Server -> Nat] /\ woken' \in [Server -> BOOLEAN]
  <2>1. CASE UNCHANGED <<leaderVars, commitVars>>
    BY <2>1, Zenon DEF LeaderTypeOK, LogTypeOK, leaderVars, commitVars
  <2>2. CASE Matched(n, r.peer, r.match)
    BY <2>2, <1>1, TypeMatched, Zenon
  <2>3. CASE /\ nextIndex' = [nextIndex EXCEPT ![n][r.peer] = IF @ > 1 THEN @ - 1 ELSE @]
             /\ UNCHANGED <<matchIndex, commitVars>>
    <3> DEFINE next == IF nextIndex[n][r.peer] > 1 THEN nextIndex[n][r.peer] - 1
                                                   ELSE nextIndex[n][r.peer]
    <3>1. nextIndex[n][r.peer] \in Nat \ {0}
      BY <1>1, Zenon DEF LeaderTypeOK
    <3>2. next \in Nat \ {0}
      BY <3>1
    <3>3. nextIndex' = [nextIndex EXCEPT ![n][r.peer] = next]
      BY <2>3, Zenon
    <3> HIDE DEF next
    <3>4. nextIndex' \in [Server -> [Server -> Nat \ {0}]]
      BY <3>2, <3>3, <1>1, Zenon DEF LeaderTypeOK
    <3> QED
      BY <2>3, <3>4, Zenon DEF LeaderTypeOK, LogTypeOK, commitVars
  <2> QED
    BY <1>2, <2>1, <2>2, <2>3, Zenon
<1>5. LogTypeOK'
  BY <1>2, <1>4, Zenon DEF LogTypeOK
<1>6. NetworkTypeOK'
  BY <1>1, <1>2, RetryType, Zenon DEF Advance, NetworkTypeOK, diskVars
<1>7. DiskTypeOK' /\ ClientTypeOK' /\ HistoryTypeOK'
  BY <1>2, Zenon DEF DiskTypeOK, ClientTypeOK, HistoryTypeOK, diskVars, clientVars,
              historyVars
<1> QED
  BY <1>3, <1>4, <1>5, <1>6, <1>7, Zenon

LEMMA TypeReplicateCommand ==
  ASSUME StateTypeOK, NEW n \in Server, NEW reached \in SUBSET Peers(n),
         ReplicateCommand(n, reached)
  PROVE  StateTypeOK'
<1> DEFINE c      == submitted + 1
           index  == LastIndex(n) + 1
           entry  == [index |-> index, term |-> currentTerm[n], cmd |-> c]
           new    == Append(log[n], entry)
           commit == UpdateCommitIndex(n, new, matchIndex[n])
           call   == [node |-> n, index |-> index, cmd |-> c]
<1> USE DEF StateTypeOK
<1>1. c \in 0 .. MaxCommands /\ index \in Nat /\ currentTerm[n] \in Nat
  <2>1. submitted < MaxCommands
    BY Zenon DEF ReplicateCommand
  <2>2. c \in 0 .. MaxCommands
    BY <2>1, BoundsAssumption DEF ClientTypeOK
  <2>3. index \in Nat /\ currentTerm[n] \in Nat
    BY DEF LastIndex, LogTypeOK, ElectionTypeOK
  <2> QED
    BY <2>2, <2>3, Zenon
<1>2. /\ new \in Seq(Entry)
      /\ call \in [node : Server, index : Nat, cmd : Nat]
  BY <1>1 DEF LogTypeOK, Entry
<1>3. commit \in Nat
  BY <1>2, UpdateCommitType, Zenon
<1>4. /\ submitted' = c
      /\ \/ /\ Saved(n, currentTerm[n], votedFor[n], new)
            /\ log' = [log EXCEPT ![n] = new]
            /\ Commit(n, commit)
            /\ Spawn(n, reached, commit)
            /\ pending' = pending \cup {call}
         \/ SaveFails /\ UNCHANGED <<log, commitVars, leaderRpcs, pending>>
      /\ UNCHANGED <<electionVars, logBase, snapshot, lastApplied, kv>>
      /\ UNCHANGED <<leaderVars, diskSnap, voteRpcs, restarts, historyVars>>
  BY Zenon DEF ReplicateCommand
<1> HIDE DEF c, index, new, commit, call
<1>5. LogTypeOK'
  <2>1. commitIndex' \in [Server -> Nat] /\ woken' \in [Server -> BOOLEAN]
    BY <1>3, <1>4, TypeCommit, Zenon
  <2>2. log \in [Server -> Seq(Entry)]
    BY Zenon DEF LogTypeOK
  <2>3. log' = [log EXCEPT ![n] = new] \/ log' = log
    BY <1>4, Zenon
  <2>4. log' \in [Server -> Seq(Entry)]
    BY <1>2, <2>2, <2>3, Zenon
  <2> QED
    BY <1>4, <2>1, <2>4, Zenon DEF LogTypeOK
<1>6. DiskTypeOK' /\ faults' \in 0 .. MaxFaults
  BY <1>1, <1>2, <1>4, SavedType, Zenon DEF ClientTypeOK, ElectionTypeOK
<1>7. ClientTypeOK'
  BY <1>1, <1>2, <1>4, <1>6, Zenon DEF ClientTypeOK
<1>8. NetworkTypeOK'
  BY <1>3, <1>4, TypeSpawn, Zenon DEF NetworkTypeOK
<1>9. ElectionTypeOK' /\ LeaderTypeOK' /\ HistoryTypeOK'
  BY <1>4, Zenon DEF ElectionTypeOK, LeaderTypeOK, HistoryTypeOK, electionVars,
              leaderVars, historyVars
<1> QED
  BY <1>5, <1>6, <1>7, <1>8, <1>9, Zenon

LEMMA TypeApplyPendingEntries ==
  ASSUME StateTypeOK, NEW n \in Server, ApplyPendingEntries(n)
  PROVE  StateTypeOK'
<1> DEFINE a == lastApplied[n] + 1 - logBase[n]
<1> USE DEF StateTypeOK
<1>1. a \in 1 .. Len(log[n]) /\ log[n] \in Seq(Entry)
  BY Zenon DEF ApplyPendingEntries, LogTypeOK
<1>2. log[n][a] \in Entry
  BY <1>1, ElementOfSeq, Zenon
<1>3. /\ lastApplied' = [lastApplied EXCEPT ![n] = @ + 1]
      /\ kv' = [kv EXCEPT ![n] = Append(@, log[n][a])]
      /\ UNCHANGED <<log, logBase, snapshot, commitIndex, woken>>
  BY Zenon DEF ApplyPendingEntries, commitVars
<1>4. kv' \in [Server -> Seq(Entry)] /\ lastApplied' \in [Server -> Nat]
  <2>1. kv \in [Server -> Seq(Entry)] /\ lastApplied \in [Server -> Nat]
    BY Zenon DEF LogTypeOK
  <2>2. Append(kv[n], log[n][a]) \in Seq(Entry)
    BY <1>2, <2>1
  <2> HIDE DEF a
  <2> QED
    BY <1>3, <2>1, <2>2
<1>5. LogTypeOK'
  BY <1>3, <1>4, Zenon DEF LogTypeOK
<1> QED
  BY <1>5, Zenon DEF ApplyPendingEntries, ElectionTypeOK, LeaderTypeOK,
     DiskTypeOK, NetworkTypeOK, ClientTypeOK, HistoryTypeOK, electionVars,
     leaderVars, diskVars, clientVars, historyVars

LEMMA TypeLoseRpc == StateTypeOK /\ LoseRpc => StateTypeOK'
<1> SUFFICES ASSUME StateTypeOK, LoseRpc PROVE StateTypeOK'
  BY Zenon
<1> USE DEF StateTypeOK
<1>1. voteRpcs' \subseteq voteRpcs /\ leaderRpcs' \subseteq leaderRpcs
  BY Zenon DEF LoseRpc
<1>2. NetworkTypeOK'
  BY <1>1, Zenon DEF LoseRpc, NetworkTypeOK, logVars, diskVars
<1> QED
  BY <1>2, Zenon DEF LoseRpc, ElectionTypeOK, LogTypeOK, LeaderTypeOK, DiskTypeOK,
     ClientTypeOK, HistoryTypeOK, electionVars, logVars, commitVars, leaderVars,
     diskVars, clientVars, historyVars

(* The loop of InstallSnapshot returns what is left of a log.              *)
LEMMA TailAfterType ==
  ASSUME KeptInOrder, NEW l \in Seq(Entry), NEW i
  PROVE  TailAfter(l, i) \in Seq(Entry)
<1>1. {k \in 1 .. Len(l) : l[k].index > i} \in SUBSET (1 .. Len(l))
  BY Zenon
<1> QED
  BY <1>1, Zenon DEF TailAfter, KeptInOrder

(* Snapshot cuts the log behind an entry it has.                           *)
LEMMA SnapshotTypes ==
  ASSUME KeptInOrder, StateTypeOK, NEW n \in Server, NEW i \in Nat,
         CanSnapshot(n, i)
  PROVE  /\ SnapshotAt(n, i) \in Snap /\ SnapshotAt(n, i).index = i
         /\ SubSeq(log[n], i - logBase[n] + 1, Len(log[n])) \in Seq(Entry)
<1> DEFINE k == i - logBase[n]
           K == {x \in 1 .. Len(kv[n]) : kv[n][x].index <= i}
<1>1. /\ log[n] \in Seq(Entry) /\ kv[n] \in Seq(Entry) /\ logBase[n] \in Nat
      /\ Len(log[n]) \in Nat
  BY DEF StateTypeOK, LogTypeOK
<1>2. k \in 1 .. Len(log[n])
  BY Zenon DEF CanSnapshot, HasEntry
<1>3. log[n][k] \in Entry
  BY <1>1, <1>2, ElementOfSeq, Zenon
<1>4. log[n][k].term \in Nat
  BY <1>3, Zenon DEF Entry
<1>5. Kept(kv[n], K) \in Seq(Entry)
  <2>1. K \in SUBSET (1 .. Len(kv[n]))
    BY Zenon
  <2> HIDE DEF K
  <2> QED
    BY <2>1, <1>1, Zenon DEF KeptInOrder
<1>6. SnapshotAt(n, i) = [index |-> i, term |-> log[n][k].term,
                          data |-> Kept(kv[n], K)]
  BY Zenon DEF SnapshotAt
<1>7. SubSeq(log[n], k + 1, Len(log[n])) \in Seq(Entry)
  <2>1. \A x \in k + 1 .. Len(log[n]) : log[n][x] \in Entry
    BY <1>1, <1>2, ElementOfSeq
  <2>2. k + 1 \in Int
    BY <1>2
  <2> HIDE DEF k
  <2> QED
    BY <2>1, <2>2, <1>1, SubSeqProperties
<1> HIDE DEF k, K
<1>8. SnapshotAt(n, i) \in Snap /\ SnapshotAt(n, i).index = i
  <2> DEFINE d == Kept(kv[n], K)
             t == log[n][k].term
             z == [index |-> i, term |-> t, data |-> d]
  <2>1. d \in Seq(Entry) /\ t \in Nat /\ SnapshotAt(n, i) = z
    BY <1>4, <1>5, <1>6, Zenon
  <2> HIDE DEF d, t
  <2>2. z \in Snap /\ z.index = i
    BY <2>1, Zenon DEF Snap
  <2> HIDE DEF z
  <2> QED
    BY <2>1, <2>2, Zenon
<1> QED
  BY <1>7, <1>8, Zenon DEF k

(* The two saves of a compaction leave well-formed files, whichever fails. *)
LEMMA SavedBothType ==
  ASSUME DiskTypeOK, faults \in 0 .. MaxFaults,
         NEW n \in Server, NEW t \in Nat, NEW v \in Server \cup {None},
         NEW l \in Seq(Entry), NEW s \in Snap,
         \/ SavedBoth(n, t, v, l, s)
         \/ SaveFails /\ UNCHANGED diskSnap
         \/ SnapshotSaveFails(n, t, v, l)
  PROVE  DiskTypeOK' /\ faults' \in 0 .. MaxFaults
<1> DEFINE d == [term |-> t, vote |-> v, log |-> l]
<1>1. d \in [term : Nat, vote : Server \cup {None}, log : Seq(Entry)]
  BY Zenon
<1>2. /\ disk' = [disk EXCEPT ![n] = d] \/ disk' = disk
      /\ diskSnap' = [diskSnap EXCEPT ![n] = s] \/ diskSnap' = diskSnap
      /\ faults' = faults \/ (faults < MaxFaults /\ faults' = faults + 1)
  BY Zenon DEF SavedBoth, Saved, SaveFails, SnapshotSaveFails
<1> HIDE DEF d
<1>3. DiskTypeOK'
  BY <1>1, <1>2, Zenon DEF DiskTypeOK
<1>4. faults' \in 0 .. MaxFaults
  BY <1>2, BoundsAssumption
<1> QED
  BY <1>3, <1>4, Zenon

LEMMA TypeSnapshot ==
  ASSUME KeptInOrder, StateTypeOK, NEW n \in Server, NEW i \in Nat, Snapshot(n, i)
  PROVE  StateTypeOK'
<1> DEFINE s == SnapshotAt(n, i)
           l == SubSeq(log[n], i - logBase[n] + 1, Len(log[n]))
<1>1. /\ CanSnapshot(n, i) /\ Compact(n, s, l)
      /\ \/ SavedBoth(n, currentTerm[n], votedFor[n], l, s)
         \/ SaveFails /\ UNCHANGED diskSnap
         \/ SnapshotSaveFails(n, currentTerm[n], votedFor[n], l)
      /\ UNCHANGED <<electionVars, commitVars, lastApplied, kv, leaderVars>>
      /\ UNCHANGED <<voteRpcs, leaderRpcs, clientVars, restarts, historyVars>>
  BY Zenon DEF Snapshot
<1>2. s \in Snap /\ s.index = i /\ l \in Seq(Entry)
  BY <1>1, SnapshotTypes, Zenon
<1> HIDE DEF s, l
<1> USE DEF StateTypeOK
<1>3. currentTerm[n] \in Nat /\ votedFor[n] \in Server \cup {None}
  BY Zenon DEF ElectionTypeOK
<1>4. DiskTypeOK' /\ faults' \in 0 .. MaxFaults
  BY <1>1, <1>2, <1>3, SavedBothType, Zenon DEF ClientTypeOK
<1>5. LogTypeOK'
  <2>1. /\ log' = [log EXCEPT ![n] = l]
        /\ logBase' = [logBase EXCEPT ![n] = i]
        /\ snapshot' = [snapshot EXCEPT ![n] = s]
    BY <1>1, <1>2, Zenon DEF Compact
  <2> QED
    BY <1>1, <1>2, <2>1, Zenon DEF LogTypeOK, commitVars
<1> QED
  BY <1>1, <1>4, <1>5, Zenon DEF ElectionTypeOK, LeaderTypeOK, NetworkTypeOK,
     ClientTypeOK, HistoryTypeOK, electionVars, leaderVars, clientVars,
     historyVars

LEMMA TypeCrashInSnapshot ==
  ASSUME KeptInOrder, StateTypeOK, NEW n \in Server, NEW i \in Nat, CrashInSnapshot(n, i)
  PROVE  StateTypeOK'
<1> DEFINE l == SubSeq(log[n], i - logBase[n] + 1, Len(log[n]))
           d == [term |-> currentTerm[n], vote |-> votedFor[n], log |-> l]
<1>1. CanSnapshot(n, i) /\ Reboot(n, d, diskSnap[n], {})
  BY Zenon DEF CrashInSnapshot
<1>2. l \in Seq(Entry)
  BY <1>1, SnapshotTypes, Zenon
<1>3. restarts' \in 0 .. MaxRestarts
  <2>1. restarts < MaxRestarts /\ restarts' = restarts + 1
    BY Zenon DEF CrashInSnapshot
  <2> QED
    BY <2>1, OneMoreRestart, Zenon
<1>4. /\ currentTerm[n] \in Nat /\ votedFor[n] \in Server \cup {None}
      /\ diskSnap[n] \in Snap
  BY Zenon DEF StateTypeOK, ElectionTypeOK, DiskTypeOK
<1> HIDE DEF l
<1>5. d \in File
  BY <1>2, <1>4, Zenon DEF File
<1> HIDE DEF d
<1> QED
  BY <1>1, <1>3, <1>4, <1>5, TypeReboot, Zenon

LEMMA TypeSendInstallSnapshot ==
  ASSUME StateTypeOK, NEW r \in leaderRpcs, SendInstallSnapshot(r)
  PROVE  StateTypeOK'
<1> DEFINE q == [r EXCEPT !.phase = "ireq", !.snap = snapshot[r.leader]]
<1>1. r \in LeaderRpc /\ snapshot[r.leader] \in Snap
  BY Zenon DEF StateTypeOK, NetworkTypeOK, LogTypeOK, LeaderRpc
<1>2. q \in LeaderRpc
  BY <1>1, Zenon DEF LeaderRpc
<1>3. /\ leaderRpcs' = (leaderRpcs \ {r}) \cup {q}
      /\ UNCHANGED <<electionVars, logVars, leaderVars, diskVars, voteRpcs>>
      /\ UNCHANGED <<clientVars, restarts, faults, historyVars>>
  BY Zenon DEF SendInstallSnapshot, Advance
<1> HIDE DEF q
<1>4. NetworkTypeOK'
  BY <1>2, <1>3, Zenon DEF StateTypeOK, NetworkTypeOK
<1> QED
  BY <1>3, <1>4, Zenon DEF StateTypeOK, ElectionTypeOK, LogTypeOK, LeaderTypeOK,
     DiskTypeOK, ClientTypeOK, HistoryTypeOK, electionVars, logVars, commitVars,
     leaderVars, diskVars, clientVars, historyVars

LEMMA TypeInstallSnapshot ==
  ASSUME KeptInOrder, StateTypeOK, NEW r \in leaderRpcs, InstallSnapshot(r)
  PROVE  StateTypeOK'
<1> DEFINE n    == r.peer
           s    == r.snap
           vote == IF r.term > currentTerm[n] THEN None ELSE votedFor[n]
           l    == TailAfter(log[n], s.index)
           Reply(t) == [r EXCEPT !.phase = "iresp", !.snap = NoSnap,
                                 !.match = r.snap.index, !.rterm = t]
<1> USE DEF StateTypeOK
<1>1. /\ r \in LeaderRpc /\ n \in Server /\ r.leader \in Server
      /\ r.term \in Nat /\ s \in Snap
  BY Zenon DEF NetworkTypeOK, LeaderRpc
<1>2. s.index \in Nat /\ s.data \in Seq(Entry)
  BY <1>1, Zenon DEF Snap
<1>3. /\ currentTerm[n] \in Nat /\ vote \in Server \cup {None}
      /\ l \in Seq(Entry)
  BY <1>1, TailAfterType, Zenon DEF ElectionTypeOK, LogTypeOK
<1>4. \A t \in Nat : Reply(t) \in LeaderRpc
  BY <1>1, <1>2, NoSnapType, Zenon DEF LeaderRpc
<1>5. UNCHANGED <<leaderVars, voteRpcs, clientVars, restarts, historyVars>>
  BY Zenon DEF InstallSnapshot
<1>6. CASE r.term < currentTerm[n]
  <2>1. ~(r.term >= currentTerm[n])
    <3>1. r.term \in Nat /\ currentTerm[n] \in Nat
      BY <1>1, <1>3, Zenon
    <3> HIDE DEF n
    <3> QED
      BY <3>1, <1>6
  <2>2. /\ leaderRpcs' = (leaderRpcs \ {r}) \cup {Reply(currentTerm[n])}
        /\ UNCHANGED <<electionVars, logVars, diskVars, faults>>
    BY <2>1, Zenon DEF InstallSnapshot, InstallReply, Advance
  <2>3. NetworkTypeOK'
    BY <1>3, <1>4, <1>5, <2>2, Zenon DEF NetworkTypeOK
  <2> QED
    BY <1>5, <2>2, <2>3, Zenon DEF ElectionTypeOK, LogTypeOK, LeaderTypeOK,
       DiskTypeOK, ClientTypeOK, HistoryTypeOK, electionVars, logVars,
       commitVars, leaderVars, diskVars, clientVars, historyVars
<1>7. CASE ~(r.term < currentTerm[n])
  <2>1. /\ currentTerm' = [currentTerm EXCEPT ![n] = r.term]
        /\ votedFor' = [votedFor EXCEPT ![n] = vote]
        /\ state' = [state EXCEPT ![n] =
                       IF r.term > currentTerm[n] THEN Follower ELSE @]
        /\ votesReceived' = [votesReceived EXCEPT ![n] =
                               IF r.term > currentTerm[n] THEN 0 ELSE @]
        /\ leaderId' = [leaderId EXCEPT ![n] = r.leader]
        /\ timer' = [timer EXCEPT ![n] = TRUE]
        /\ UNCHANGED <<promoting, woken>>
    BY <1>7, Zenon DEF InstallSnapshot, ResetElectionTimer
  <2>2. /\ \/ UNCHANGED <<log, logBase, snapshot, commitIndex, lastApplied>>
           \/ /\ log' = [log EXCEPT ![n] = l]
              /\ logBase' = [logBase EXCEPT ![n] = s.index]
              /\ snapshot' = [snapshot EXCEPT ![n] = s]
              /\ commitIndex' = [commitIndex EXCEPT ![n] = s.index]
              /\ lastApplied' = [lastApplied EXCEPT ![n] = s.index]
        /\ kv' = kv \/ kv' = [kv EXCEPT ![n] = s.data]
        /\ \/ leaderRpcs' = (leaderRpcs \ {r}) \cup {Reply(r.term)}
           \/ leaderRpcs' = leaderRpcs \ {r}
    BY <1>7, Zenon DEF InstallSnapshot, InstallReply, Advance, Compact
  <2>3. \/ UNCHANGED <<diskVars, faults>>
        \/ SavedBoth(n, r.term, vote, l, s)
        \/ SaveFails /\ UNCHANGED diskSnap
        \/ SnapshotSaveFails(n, r.term, vote, l)
    BY <1>7, Zenon DEF InstallSnapshot
  <2> HIDE DEF n, s, vote, l, Reply
  <2>4. ElectionTypeOK'
    <3>1. timer' \in [Server -> BOOLEAN]
      BY <1>1, <2>1, Zenon DEF ElectionTypeOK
    <3>2. /\ currentTerm' \in [Server -> Nat]
          /\ votedFor' \in [Server -> Server \cup {None}]
          /\ leaderId' \in [Server -> Server \cup {None}]
      BY <1>1, <1>3, <2>1, Zenon DEF ElectionTypeOK
    <3>3. /\ state' \in [Server -> {Follower, Candidate, Leader}]
          /\ votesReceived' \in [Server -> Nat]
      BY <1>1, <2>1, Zenon DEF ElectionTypeOK
    <3> QED
      BY <2>1, <3>1, <3>2, <3>3, Zenon DEF ElectionTypeOK
  <2>5. LogTypeOK'
    <3>1. /\ log' \in [Server -> Seq(Entry)] /\ kv' \in [Server -> Seq(Entry)]
          /\ snapshot' \in [Server -> Snap]
      <4>1. log' = log \/ log' = [log EXCEPT ![n] = l]
        BY <2>2, Zenon
      <4>2. snapshot' = snapshot \/ snapshot' = [snapshot EXCEPT ![n] = s]
        BY <2>2, Zenon
      <4>3. kv' = kv \/ kv' = [kv EXCEPT ![n] = s.data]
        BY <2>2, Zenon
      <4>4. log' \in [Server -> Seq(Entry)]
        BY <1>3, <4>1, Zenon DEF LogTypeOK
      <4>5. kv' \in [Server -> Seq(Entry)]
        BY <1>2, <4>3, Zenon DEF LogTypeOK
      <4>6. snapshot' \in [Server -> Snap]
        BY <1>1, <4>2, Zenon DEF LogTypeOK
      <4> QED
        BY <4>4, <4>5, <4>6, Zenon
    <3>2. /\ logBase' \in [Server -> Nat] /\ commitIndex' \in [Server -> Nat]
          /\ lastApplied' \in [Server -> Nat]
      BY <1>1, <1>2, <2>2, Zenon DEF LogTypeOK
    <3> QED
      BY <2>1, <3>1, <3>2, Zenon DEF LogTypeOK
  <2>6. DiskTypeOK' /\ faults' \in 0 .. MaxFaults
    <3>1. CASE UNCHANGED <<diskVars, faults>>
      BY <3>1, Zenon DEF DiskTypeOK, ClientTypeOK, diskVars
    <3>2. CASE ~UNCHANGED <<diskVars, faults>>
      BY <3>2, <1>1, <1>3, <2>3, SavedBothType, Zenon DEF ClientTypeOK
    <3> QED
      BY <3>1, <3>2, Zenon
  <2>7. NetworkTypeOK'
    BY <1>1, <1>4, <1>5, <2>2, Zenon DEF NetworkTypeOK
  <2> QED
    BY <1>5, <2>4, <2>5, <2>6, <2>7, Zenon DEF LeaderTypeOK, ClientTypeOK,
       HistoryTypeOK, leaderVars, clientVars, historyVars
<1> QED
  BY <1>6, <1>7, Zenon

LEMMA TypeCrashInInstall ==
  ASSUME KeptInOrder, StateTypeOK, NEW r \in leaderRpcs, CrashInInstall(r)
  PROVE  StateTypeOK'
<1> DEFINE n == r.peer
           d == [term |-> r.term,
                 vote |-> IF r.term > currentTerm[n] THEN None ELSE votedFor[n],
                 log  |-> TailAfter(log[n], r.snap.index)]
<1>1. /\ restarts < MaxRestarts /\ restarts' = restarts + 1
      /\ Reboot(n, d, diskSnap[n], {r})
  BY Zenon DEF CrashInInstall
<1>2. restarts' \in 0 .. MaxRestarts
  BY <1>1, OneMoreRestart, Zenon
<1>3. n \in Server /\ r.term \in Nat
  BY Zenon DEF StateTypeOK, NetworkTypeOK, LeaderRpc
<1>4. /\ votedFor[n] \in Server \cup {None} /\ log[n] \in Seq(Entry)
      /\ diskSnap[n] \in Snap
  BY <1>3, Zenon DEF StateTypeOK, ElectionTypeOK, LogTypeOK, DiskTypeOK
<1>5. TailAfter(log[n], r.snap.index) \in Seq(Entry)
  BY <1>4, TailAfterType, Zenon
<1>6. d \in File
  BY <1>3, <1>4, <1>5, Zenon DEF File
<1> HIDE DEF n, d
<1> QED
  BY <1>1, <1>2, <1>3, <1>4, <1>6, TypeReboot, Zenon

LEMMA TypeHandleInstallReply ==
  ASSUME StateTypeOK, NEW r \in leaderRpcs, HandleInstallReply(r)
  PROVE  StateTypeOK'
<1> DEFINE n == r.leader
<1> USE DEF StateTypeOK
<1>1. /\ n \in Server /\ r.peer \in Server
      /\ r.rterm \in Nat /\ r.match \in Nat
  BY Zenon DEF NetworkTypeOK, LeaderRpc
<1>2. /\ leaderRpcs' = leaderRpcs \ {r}
      /\ \/ UNCHANGED electionVars
         \/ StepDown(n, r.rterm) /\ UNCHANGED <<timer, promoting>>
      /\ UNCHANGED <<leaderVars, commitVars>> \/ Matched(n, r.peer, r.match)
      /\ UNCHANGED <<log, logBase, snapshot, lastApplied, kv, diskVars>>
      /\ UNCHANGED <<voteRpcs, clientVars, restarts, faults, historyVars>>
  BY Zenon DEF HandleInstallReply
<1> HIDE DEF n
<1>3. ElectionTypeOK'
  BY <1>1, <1>2, TypeStepDown, Zenon DEF ElectionTypeOK, electionVars
<1>4. /\ LeaderTypeOK'
      /\ commitIndex' \in [Server -> Nat] /\ woken' \in [Server -> BOOLEAN]
  <2>1. CASE UNCHANGED <<leaderVars, commitVars>>
    BY <2>1, Zenon DEF LeaderTypeOK, LogTypeOK, leaderVars, commitVars
  <2>2. CASE Matched(n, r.peer, r.match)
    BY <2>2, <1>1, TypeMatched, Zenon
  <2> QED
    BY <1>2, <2>1, <2>2, Zenon
<1>5. LogTypeOK'
  BY <1>2, <1>4, Zenon DEF LogTypeOK
<1> QED
  BY <1>2, <1>3, <1>4, <1>5, Zenon DEF NetworkTypeOK, DiskTypeOK, ClientTypeOK,
     HistoryTypeOK, diskVars, clientVars, historyVars

(* Every step keeps the types.                                             *)
LEMMA StateTypeStep ==
  ASSUME KeptInOrder, StateTypeOK, [Next]_vars
  PROVE  StateTypeOK'
<1>1. CASE UNCHANGED vars
  BY <1>1, Zenon
     DEF StateTypeOK, ElectionTypeOK, LogTypeOK, LeaderTypeOK, DiskTypeOK,
     NetworkTypeOK, ClientTypeOK, HistoryTypeOK, vars, electionVars, logVars,
     commitVars, leaderVars, diskVars, clientVars, historyVars
<1>2. CASE Next
  <2>1. \A n \in Server : \A i \in 1 .. lastApplied[n] : i \in Nat
    OBVIOUS
  <2> QED
    BY <1>2, <2>1, TypeBecomeLeader, TypeBecomeCandidate, TypeSendHeartbeats,
       TypeReplicateCommand, TypeApplyPendingEntries, TypeRestart, TypeSnapshot,
       TypeCrashInSnapshot, TypeSendRequestVote, TypeRequestVote,
       TypeHandleVoteReply, TypeSendAppendEntries, TypeAppendEntries,
       TypeHandleAppendReply, TypeSendInstallSnapshot, TypeInstallSnapshot,
       TypeCrashInInstall, TypeHandleInstallReply, TypeLoseRpc, Zenon DEF Next
<1> QED
  BY <1>1, <1>2, Zenon

(* The steps that are left when nothing is compacted: no snapshot is taken *)
(* and no call carries one.                                                *)
LEMMA UncompactedSteps ==
  ASSUME ~Compaction, Uncompacted, Next
  PROVE  PlainNext
<1>1. ASSUME NEW n \in Server, NEW i
      PROVE  ~Snapshot(n, i) /\ ~CrashInSnapshot(n, i)
  BY Zenon DEF Snapshot, CrashInSnapshot, CanSnapshot
<1>2. ASSUME NEW r \in leaderRpcs
      PROVE  ~SendInstallSnapshot(r) /\ ~InstallSnapshot(r)
             /\ ~CrashInInstall(r) /\ ~HandleInstallReply(r)
  <2>1. r.phase \in {"call", "req", "resp"}
    BY Zenon DEF Uncompacted
  <2>2. r.phase # "icall" /\ r.phase # "ireq" /\ r.phase # "iresp"
    BY <2>1, Zenon
  <2> QED
    BY <2>2, Zenon DEF SendInstallSnapshot, InstallSnapshot, CrashInInstall,
                       HandleInstallReply
<1> QED
  BY <1>1, <1>2, Zenon DEF Next, PlainNext

LEMMA UncompactedStep ==
  ASSUME ~Compaction, TypeInv, [Next]_vars
  PROVE  Uncompacted'
<1> DEFINE Bases   == UNCHANGED <<logBase, snapshot, diskSnap>>
           Appends == {"call", "req", "resp"}
           Calls   == \A r \in leaderRpcs' : r.phase \in Appends
<1> USE DEF TypeInv
<1>1. Bases /\ Calls => Uncompacted'
  BY Zenon DEF Uncompacted
<1>2. \A r \in leaderRpcs : r.phase \in Appends
  BY Zenon DEF Uncompacted
<1>3. leaderRpcs' \subseteq leaderRpcs => Calls
  BY <1>2, Zenon
<1>4. ASSUME NEW r, NEW q, Advance(r, q), q.phase \in Appends
      PROVE  Calls
  BY <1>2, <1>4, Zenon DEF Advance
<1>5. ASSUME NEW n \in Server,
             BecomeLeader(n) \/ ApplyPendingEntries(n)
      PROVE  Uncompacted'
  <2>1. Bases /\ leaderRpcs' = leaderRpcs
    BY <1>5, Zenon DEF BecomeLeader, ApplyPendingEntries, logVars, diskVars
  <2> QED
    BY <1>1, <1>3, <2>1, Zenon
<1>6. ASSUME NEW n \in Server, Restart(n)
      PROVE  Uncompacted'
  <2>1. diskSnap[n] = NoSnap /\ NoSnap.index = 0
    BY Zenon DEF Uncompacted, NoSnap
  <2>2. /\ logBase' = [logBase EXCEPT ![n] = 0]
        /\ snapshot' = [snapshot EXCEPT ![n] = NoSnap]
        /\ diskSnap' = [diskSnap EXCEPT ![n] = NoSnap]
    BY <1>6, <2>1, Zenon DEF Restart, Reboot
  <2>3. Bases
    BY <2>2, Zenon DEF Uncompacted
  <2>4. leaderRpcs' \subseteq leaderRpcs
    BY <1>6, Zenon DEF Restart, Reboot
  <2> QED
    BY <1>1, <1>3, <2>3, <2>4, Zenon
<1>7. ASSUME NEW n \in Server, NEW reached \in SUBSET Peers(n),
             BecomeCandidate(n, reached)
      PROVE  Uncompacted'
  <2>1. Bases /\ leaderRpcs' = leaderRpcs
    BY <1>7, Zenon DEF BecomeCandidate, logVars
  <2> QED
    BY <1>1, <1>3, <2>1, Zenon
<1>8. ASSUME NEW n \in Server, NEW reached \in SUBSET Peers(n),
             SendHeartbeats(n, reached) \/ ReplicateCommand(n, reached)
      PROVE  Uncompacted'
  <2>1. Bases
    BY <1>8, Zenon DEF SendHeartbeats, ReplicateCommand, logVars, diskVars
  <2>2. \/ leaderRpcs' = leaderRpcs
        \/ \E commit : Spawn(n, reached, commit)
    BY <1>8, Zenon DEF SendHeartbeats, ReplicateCommand
  <2>3. ASSUME NEW commit, Spawn(n, reached, commit) PROVE Calls
    <3> DEFINE Call(p) ==
               [leader |-> n, peer |-> p, term |-> currentTerm[n],
                commit |-> commit, phase |-> "call", prev |-> 0, prevTerm |-> 0,
                entries |-> << >>, snap |-> NoSnap, match |-> 0, rterm |-> 0,
                success |-> FALSE]
    <3>1. leaderRpcs' = leaderRpcs \cup {Call(p) : p \in reached}
      BY <2>3, Zenon DEF Spawn
    <3>2. \A p : Call(p).phase = "call"
      BY Zenon
    <3> HIDE DEF Call
    <3> QED
      BY <1>2, <3>1, <3>2, Zenon
  <2> QED
    BY <1>1, <1>3, <2>1, <2>2, <2>3, Zenon
<1>9. ASSUME NEW r \in voteRpcs,
             SendRequestVote(r) \/ RequestVote(r) \/ HandleVoteReply(r)
      PROVE  Uncompacted'
  <2>1. Bases /\ leaderRpcs' = leaderRpcs
    BY <1>9, Zenon DEF SendRequestVote, RequestVote, HandleVoteReply, logVars,
                       diskVars
  <2> QED
    BY <1>1, <1>3, <2>1, Zenon
<1>10. ASSUME NEW r \in leaderRpcs, SendAppendEntries(r)
       PROVE  Uncompacted'
  <2>1. Bases
    BY <1>10, Zenon DEF SendAppendEntries, logVars, diskVars
  <2>2. /\ r \in LeaderRpc /\ logBase[r.leader] = 0
        /\ nextIndex[r.leader][r.peer] \in Nat \ {0}
    <3>1. r \in LeaderRpc
      BY Zenon DEF StateTypeOK, NetworkTypeOK
    <3>2. r.leader \in Server /\ r.peer \in Server
      BY <3>1, Zenon DEF LeaderRpc
    <3>3. /\ logBase = [n \in Server |-> 0]
          /\ nextIndex \in [Server -> [Server -> Nat \ {0}]]
      BY Zenon DEF StateTypeOK, LeaderTypeOK, Uncompacted
    <3> QED
      BY ONLY <3>1, <3>2, <3>3, Zenon
  <2>3. ~(nextIndex[r.leader][r.peer] - 1 < logBase[r.leader])
    BY <2>2
  <2>4. \/ leaderRpcs' = leaderRpcs \ {r}
        \/ \E p, t, es : Advance(r, AppendRequest(r, p, t, es))
    BY <1>10, <2>3, Zenon DEF SendAppendEntries
  <2>5. \A p, t, es : AppendRequest(r, p, t, es).phase = "req"
    BY <2>2, Zenon DEF AppendRequest, LeaderRpc
  <2>6. Calls
    BY <1>3, <1>4, <2>4, <2>5, Zenon
  <2> QED
    BY <1>1, <2>1, <2>6, Zenon
<1>11. ASSUME NEW r \in leaderRpcs, AppendEntries(r)
       PROVE  Uncompacted'
  <2>1. r \in LeaderRpc /\ logBase[r.peer] = 0 /\ r.prev \in Nat
    BY Zenon DEF StateTypeOK, NetworkTypeOK, LeaderRpc, Uncompacted
  <2>2. ~(r.prev - logBase[r.peer] < 0)
    BY ONLY <2>1
  <2>3. Bases
    BY <1>11, <2>2, Zenon DEF AppendEntries, logVars, diskVars
  <2>4. \/ leaderRpcs' = leaderRpcs \ {r}
        \/ \E t, ok : Advance(r, AppendReply(r, t, ok))
    BY <1>11, <2>2, Zenon DEF AppendEntries
  <2>5. \A t, ok : AppendReply(r, t, ok).phase = "resp"
    BY <2>1, Zenon DEF AppendReply, LeaderRpc
  <2>6. Calls
    BY <1>3, <1>4, <2>4, <2>5, Zenon
  <2> QED
    BY <1>1, <2>3, <2>6, Zenon
<1>12. ASSUME NEW r \in leaderRpcs, HandleAppendReply(r)
       PROVE  Uncompacted'
  <2>1. r \in LeaderRpc
    BY Zenon DEF StateTypeOK, NetworkTypeOK
  <2>2. Bases
    BY <1>12, Zenon DEF HandleAppendReply, diskVars
  <2>3. leaderRpcs' = leaderRpcs \ {r} \/ Advance(r, Retry(r))
    BY <1>12, Zenon DEF HandleAppendReply
  <2>4. Retry(r).phase = "call"
    BY <2>1, RetryType, Zenon
  <2>5. Calls
    BY <1>3, <1>4, <2>3, <2>4, Zenon
  <2> QED
    BY <1>1, <2>2, <2>5, Zenon
<1>13. LoseRpc => Uncompacted'
  <2>1. LoseRpc => Bases /\ leaderRpcs' \subseteq leaderRpcs
    BY Zenon DEF LoseRpc, logVars, diskVars
  <2> QED
    BY <1>1, <1>3, <2>1, Zenon
<1>14. CASE UNCHANGED vars
  BY <1>14, Zenon DEF Uncompacted, vars, logVars, diskVars
<1>15. CASE Next
  <2>1. Uncompacted
    BY Zenon
  <2> QED
    BY <1>5, <1>6, <1>7, <1>8, <1>9, <1>10, <1>11, <1>12, <1>13, <1>15, <2>1,
       UncompactedSteps, Zenon DEF PlainNext
<1> QED
  BY <1>14, <1>15, Zenon

(* The log of a term's leader and the acknowledgements are recorded with   *)
(* their types: only becomeLeader, ReplicateCommand and AppendEntries add  *)
(* to them.                                                                *)
LEMMA LogHistoryStep ==
  ASSUME StateTypeOK, LogHistoryTypeOK, [Next]_vars
  PROVE  LogHistoryTypeOK'
<1>1. /\ currentTerm \in [Server -> Nat] /\ log \in [Server -> Seq(Entry)]
      /\ logBase \in [Server -> Nat] /\ submitted \in Nat
  <2>1. submitted \in 0 .. MaxCommands /\ MaxCommands \in Nat
    BY BoundsAssumption, Zenon DEF StateTypeOK, ClientTypeOK
  <2>2. submitted \in Nat
    BY ONLY <2>1
  <2> QED
    BY <2>2, Zenon DEF StateTypeOK, ElectionTypeOK, LogTypeOK
<1>2. CASE UNCHANGED logHistory
  BY <1>2, Zenon DEF LogHistoryTypeOK, logHistory
<1>3. ASSUME NEW n \in Server, BecomeLeader(n)
      PROVE  LogHistoryTypeOK'
  <2>1. /\ UNCHANGED acks
        /\ \/ UNCHANGED leaderLog
           \/ leaderLog' = [t \in DOMAIN leaderLog \cup {currentTerm[n]} |->
                              IF t = currentTerm[n] THEN log[n] ELSE leaderLog[t]]
    BY <1>3, Zenon DEF BecomeLeader
  <2>2. currentTerm[n] \in Nat /\ log[n] \in Seq(Entry)
    BY <1>1, Zenon
  <2> QED
    BY <2>1, <2>2, Zenon DEF LogHistoryTypeOK
<1>4. ASSUME NEW n \in Server, NEW reached \in SUBSET Peers(n),
             ReplicateCommand(n, reached)
      PROVE  LogHistoryTypeOK'
  <2> DEFINE e   == [index |-> LastIndex(n) + 1, term |-> currentTerm[n],
                     cmd |-> submitted + 1]
             new == Append(log[n], e)
  <2>1. \/ UNCHANGED logHistory
        \/ /\ leaderLog' = [leaderLog EXCEPT ![currentTerm[n]] = new]
           /\ acks' = acks \cup {<<n, currentTerm[n], LastIndex(n) + 1>>}
    BY <1>4, Zenon DEF ReplicateCommand
  <2>2. currentTerm[n] \in Nat /\ LastIndex(n) + 1 \in Nat
    BY <1>1 DEF LastIndex
  <2>3. new \in Seq(Entry)
    BY <1>1, <2>2 DEF Entry
  <2> HIDE DEF new
  <2> QED
    BY <1>2, <2>1, <2>2, <2>3, SMTT(30) DEF LogHistoryTypeOK
<1>5. ASSUME NEW r \in leaderRpcs, AppendEntries(r)
      PROVE  LogHistoryTypeOK'
  <2>1. r.peer \in Server /\ r.term \in Nat /\ r.prev + Len(r.entries) \in Nat
    BY DEF StateTypeOK, NetworkTypeOK, LeaderRpc
  <2>2. /\ UNCHANGED leaderLog
        /\ \/ UNCHANGED acks
           \/ acks' = acks \cup {<<r.peer, r.term, r.prev + Len(r.entries)>>}
    BY <1>5, Zenon DEF AppendEntries, Reboot, logHistory
  <2> QED
    BY <2>1, <2>2 DEF LogHistoryTypeOK
<1>6. CASE UNCHANGED vars
  BY <1>2, <1>6, Zenon DEF vars
<1>7. CASE Next
  <2>1. ASSUME NEW n \in Server, NEW i, Snapshot(n, i) \/ CrashInSnapshot(n, i)
        PROVE  UNCHANGED logHistory
    BY <2>1, Zenon DEF Snapshot, CrashInSnapshot, Reboot
  <2>2. ASSUME NEW n \in Server, NEW reached,
               \/ ApplyPendingEntries(n) \/ Restart(n)
               \/ BecomeCandidate(n, reached) \/ SendHeartbeats(n, reached)
        PROVE  UNCHANGED logHistory
    BY <2>2, Zenon DEF ApplyPendingEntries, Restart, Reboot, BecomeCandidate,
                       SendHeartbeats
  <2>3. ASSUME NEW r,
               \/ SendRequestVote(r) \/ RequestVote(r) \/ HandleVoteReply(r)
               \/ SendAppendEntries(r) \/ HandleAppendReply(r)
        PROVE  UNCHANGED logHistory
    BY <2>3, Zenon DEF SendRequestVote, RequestVote, HandleVoteReply,
                       SendAppendEntries, HandleAppendReply
  <2>4. ASSUME NEW r,
               \/ SendInstallSnapshot(r) \/ InstallSnapshot(r)
               \/ CrashInInstall(r) \/ HandleInstallReply(r)
        PROVE  UNCHANGED logHistory
    BY <2>4, Zenon DEF SendInstallSnapshot, InstallSnapshot, CrashInInstall,
                       HandleInstallReply, Reboot
  <2>5. LoseRpc => UNCHANGED logHistory
    BY Zenon DEF LoseRpc
  <2> QED
    BY <1>2, <1>3, <1>4, <1>5, <1>7, <2>1, <2>2, <2>3, <2>4, <2>5, Zenon DEF Next
<1> QED
  BY <1>6, <1>7, Zenon

-----------------------------------------------------------------------------
(* What is compacted has been applied, and what is applied is committed    *)

OrderAt(n) == logBase[n] <= lastApplied[n] /\ lastApplied[n] <= commitIndex[n]

LEMMA OrderReboot ==
  ASSUME StateTypeOK, IndexOrder, NEW n \in Server, NEW d \in File,
         NEW s \in Snap, NEW handling, Reboot(n, d, s, handling)
  PROVE  IndexOrder'
<1> DEFINE commit == RestoredCommit(d, s)
           applied == IF s.index > 0 THEN s.index ELSE commit
<1>1. /\ logBase' = [logBase EXCEPT ![n] = s.index]
      /\ commitIndex' = [commitIndex EXCEPT ![n] = commit]
      /\ lastApplied' = [lastApplied EXCEPT ![n] = applied]
  BY Zenon DEF Reboot
<1>2. s.index \in Nat /\ LastSaved(d) \in Nat
  <2>1. d.log \in Seq(Entry) /\ s.index \in Nat
    BY Zenon DEF File, Snap
  <2>2. CASE d.log = << >>
    BY <2>1, <2>2, Zenon DEF LastSaved
  <2>3. CASE d.log # << >>
    <3>1. d.log[Len(d.log)] \in Entry
      BY <2>1, <2>3, EmptySeq, ElementOfSeq
    <3> QED
      BY <2>1, <2>3, <3>1, Zenon DEF LastSaved, Entry
  <2> QED
    BY <2>2, <2>3, Zenon
<1>3. s.index <= applied /\ applied <= commit
  BY <1>2 DEF RestoredCommit
<1> HIDE DEF commit, applied
<1>4. \A m \in Server : OrderAt(m)'
  <2> TAKE m \in Server
  <2>1. /\ logBase \in [Server -> Nat] /\ lastApplied \in [Server -> Nat]
        /\ commitIndex \in [Server -> Nat] /\ OrderAt(m)
    BY Zenon DEF StateTypeOK, LogTypeOK, IndexOrder, OrderAt
  <2> QED
    BY <1>1, <1>3, <2>1, Zenon DEF OrderAt
<1> QED
  BY <1>4, Zenon DEF IndexOrder, OrderAt

(* The commit index of a node rises, and nothing else moves.               *)
LEMMA OrderCommit ==
  ASSUME StateTypeOK, IndexOrder, NEW n \in Server, NEW i \in Nat,
         i >= commitIndex[n], UNCHANGED <<logBase, lastApplied>>,
         Commit(n, i) \/ UNCHANGED commitVars
  PROVE  IndexOrder'
<1>1. commitIndex' = commitIndex \/ commitIndex' = [commitIndex EXCEPT ![n] = i]
  BY Zenon DEF Commit, commitVars
<1>2. \A m \in Server : OrderAt(m)'
  <2> TAKE m \in Server
  <2>1. /\ logBase \in [Server -> Nat] /\ lastApplied \in [Server -> Nat]
        /\ commitIndex \in [Server -> Nat] /\ OrderAt(m)
    BY Zenon DEF StateTypeOK, LogTypeOK, IndexOrder, OrderAt
  <2>2. commitIndex'[m] >= commitIndex[m]
    BY <1>1, <2>1
  <2>3. commitIndex'[m] \in Nat
    BY <1>1, <2>1, Zenon
  <2> QED
    BY <2>1, <2>2, <2>3 DEF OrderAt
<1> QED
  BY <1>2, Zenon DEF IndexOrder, OrderAt

LEMMA OrderAppendEntries ==
  ASSUME StateTypeOK, IndexOrder, NEW r \in leaderRpcs, AppendEntries(r)
  PROVE  IndexOrder'
<1> DEFINE n == r.peer
<1>1. n \in Server /\ r.commit \in Nat /\ r.entries \in Seq(Entry) /\ r.prev \in Nat
  BY Zenon DEF StateTypeOK, NetworkTypeOK, LeaderRpc
<1>2. commitIndex[n] \in Nat
  BY <1>1, Zenon DEF StateTypeOK, LogTypeOK
<1>3. LeaderCommit(n, r) \in Nat /\ LeaderCommit(n, r) >= commitIndex[n]
  BY <1>1, <1>2 DEF LeaderCommit
<1>4. \/ Reboot(n, disk[n], diskSnap[n], {r})
      \/ /\ UNCHANGED <<logBase, lastApplied>>
         /\ Commit(n, LeaderCommit(n, r)) \/ UNCHANGED commitVars
  BY Zenon DEF AppendEntries, logVars
<1>5. disk[n] \in File /\ diskSnap[n] \in Snap
  BY <1>1, Zenon DEF StateTypeOK, DiskTypeOK, File
<1> HIDE DEF n
<1> QED
  BY <1>1, <1>3, <1>4, <1>5, OrderReboot, OrderCommit, Zenon

LEMMA OrderReplies ==
  ASSUME StateTypeOK, IndexOrder, NEW r \in leaderRpcs,
         HandleAppendReply(r) \/ HandleInstallReply(r)
  PROVE  IndexOrder'
<1> DEFINE n == r.leader
           Raised(m) == UpdateCommitIndex(n, log[n], [matchIndex[n] EXCEPT ![r.peer] = m])
<1>1. n \in Server /\ log[n] \in Seq(Entry) /\ commitIndex[n] \in Nat
  BY Zenon DEF StateTypeOK, NetworkTypeOK, LogTypeOK, LeaderRpc
<1>2. \A m : Raised(m) \in Nat /\ Raised(m) >= commitIndex[n]
  BY <1>1, UpdateCommitType, Zenon
<1>3. UNCHANGED <<logBase, lastApplied>>
  BY Zenon DEF HandleAppendReply, HandleInstallReply
<1>4. UNCHANGED commitVars \/ Matched(n, r.peer, r.match)
  BY Zenon DEF HandleAppendReply, HandleInstallReply
<1>5. UNCHANGED commitVars \/ \E m : Commit(n, Raised(m))
  BY <1>4, Zenon DEF Matched
<1> HIDE DEF n, Raised
<1>6. CASE UNCHANGED commitVars
  BY <1>3, <1>6, Zenon DEF IndexOrder, commitVars
<1>7. CASE \E m : Commit(n, Raised(m))
  BY <1>1, <1>2, <1>3, <1>7, OrderCommit, Zenon
<1> QED
  BY <1>5, <1>6, <1>7, Zenon

LEMMA OrderReplicateCommand ==
  ASSUME StateTypeOK, IndexOrder, NEW n \in Server, NEW reached,
         ReplicateCommand(n, reached)
  PROVE  IndexOrder'
<1> DEFINE e   == [index |-> LastIndex(n) + 1, term |-> currentTerm[n],
                   cmd |-> submitted + 1]
           new == Append(log[n], e)
           i   == UpdateCommitIndex(n, new, matchIndex[n])
<1>1. /\ UNCHANGED <<logBase, lastApplied>>
      /\ Commit(n, i) \/ UNCHANGED commitVars
  BY Zenon DEF ReplicateCommand
<1>2. new \in Seq(Entry)
  <2>1. /\ currentTerm[n] \in Nat /\ log[n] \in Seq(Entry) /\ logBase[n] \in Nat
        /\ submitted \in Nat
    <3>1. submitted \in 0 .. MaxCommands /\ MaxCommands \in Nat
      BY BoundsAssumption, Zenon DEF StateTypeOK, ClientTypeOK
    <3>2. submitted \in Nat
      BY ONLY <3>1
    <3>3. /\ currentTerm \in [Server -> Nat] /\ log \in [Server -> Seq(Entry)]
          /\ logBase \in [Server -> Nat]
      BY Zenon DEF StateTypeOK, ElectionTypeOK, LogTypeOK
    <3> QED
      BY <3>2, <3>3, Zenon
  <2>2. e \in Entry
    BY <2>1 DEF Entry, LastIndex
  <2> HIDE DEF e
  <2> QED
    BY <2>1, <2>2, AppendProperties, Zenon
<1> HIDE DEF new
<1>3. i \in Nat /\ i >= commitIndex[n]
  BY <1>2, UpdateCommitType, Zenon
<1> HIDE DEF i
<1> QED
  BY <1>1, <1>3, OrderCommit, Zenon

(* The steps that move one index of one node.                              *)
LEMMA OrderMoves ==
  ASSUME StateTypeOK, IndexOrder, NEW n \in Server,
         \/ ApplyPendingEntries(n)
         \/ \E i \in 1 .. lastApplied[n] : Snapshot(n, i)
  PROVE  IndexOrder'
<1>1. /\ logBase \in [Server -> Nat] /\ lastApplied \in [Server -> Nat]
      /\ commitIndex \in [Server -> Nat] /\ \A m \in Server : OrderAt(m)
  BY Zenon DEF StateTypeOK, LogTypeOK, IndexOrder, OrderAt
<1>2. CASE ApplyPendingEntries(n)
  <2>1. /\ lastApplied[n] < commitIndex[n]
        /\ lastApplied' = [lastApplied EXCEPT ![n] = @ + 1]
        /\ UNCHANGED <<logBase, commitIndex>>
    BY <1>2, Zenon DEF ApplyPendingEntries, commitVars
  <2>2. \A m \in Server : OrderAt(m)'
    BY <1>1, <2>1 DEF OrderAt
  <2> QED
    BY <2>2, Zenon DEF IndexOrder, OrderAt
<1>3. ASSUME NEW i \in 1 .. lastApplied[n], Snapshot(n, i)
      PROVE  IndexOrder'
  <2>1. /\ logBase' = [logBase EXCEPT ![n] = SnapshotAt(n, i).index]
        /\ UNCHANGED <<lastApplied, commitIndex>>
    BY <1>3, Zenon DEF Snapshot, Compact, commitVars
  <2>2. SnapshotAt(n, i).index = i /\ i \in Nat /\ i <= lastApplied[n]
    <3>1. lastApplied[n] \in Nat
      BY <1>1, Zenon
    <3>2. i \in Nat /\ i <= lastApplied[n]
      BY ONLY <3>1, i \in 1 .. lastApplied[n]
    <3> QED
      BY <3>2, Zenon DEF SnapshotAt
  <2>3. logBase' = [logBase EXCEPT ![n] = i]
    BY <2>1, <2>2, Zenon
  <2>4. \A m \in Server : OrderAt(m)'
    BY <1>1, <2>1, <2>2, <2>3, Zenon DEF OrderAt
  <2> QED
    BY <2>4, Zenon DEF IndexOrder, OrderAt
<1> QED
  BY <1>2, <1>3, Zenon

LEMMA OrderInstallSnapshot ==
  ASSUME StateTypeOK, IndexOrder, NEW r \in leaderRpcs, InstallSnapshot(r)
  PROVE  IndexOrder'
<1> DEFINE n == r.peer
           i == r.snap.index
<1>1. n \in Server /\ r.snap \in Snap
  BY Zenon DEF StateTypeOK, NetworkTypeOK, LeaderRpc
<1>2. i \in Nat
  BY <1>1, Zenon DEF Snap
<1>3. \/ UNCHANGED <<logBase, lastApplied, commitIndex>>
      \/ /\ logBase' = [logBase EXCEPT ![n] = i]
         /\ lastApplied' = [lastApplied EXCEPT ![n] = i]
         /\ commitIndex' = [commitIndex EXCEPT ![n] = i]
  BY Zenon DEF InstallSnapshot, Compact, logVars, commitVars
<1> HIDE DEF n, i
<1>4. /\ logBase \in [Server -> Nat] /\ lastApplied \in [Server -> Nat]
      /\ commitIndex \in [Server -> Nat] /\ \A m \in Server : OrderAt(m)
  BY Zenon DEF StateTypeOK, LogTypeOK, IndexOrder, OrderAt
<1>5. \A m \in Server : OrderAt(m)'
  BY <1>2, <1>3, <1>4 DEF OrderAt
<1> QED
  BY <1>5, Zenon DEF IndexOrder, OrderAt

(* The steps that start a process from its files.                          *)
LEMMA OrderCrashes ==
  ASSUME KeptInOrder, StateTypeOK, IndexOrder,
         \/ \E n \in Server :
              Restart(n) \/ \E i \in 1 .. lastApplied[n] : CrashInSnapshot(n, i)
         \/ \E r \in leaderRpcs : CrashInInstall(r)
  PROVE  IndexOrder'
<1>1. \A n \in Server : disk[n] \in File /\ diskSnap[n] \in Snap
  BY Zenon DEF StateTypeOK, DiskTypeOK, File
<1>2. ASSUME NEW n \in Server, Restart(n) PROVE IndexOrder'
  <2>1. Reboot(n, disk[n], diskSnap[n], {})
    BY <1>2, Zenon DEF Restart
  <2> QED
    BY <1>1, <2>1, OrderReboot, Zenon
<1>3. ASSUME NEW n \in Server, NEW i \in 1 .. lastApplied[n],
             CrashInSnapshot(n, i)
      PROVE  IndexOrder'
  <2> DEFINE l == SubSeq(log[n], i - logBase[n] + 1, Len(log[n]))
             d == [term |-> currentTerm[n], vote |-> votedFor[n], log |-> l]
  <2>1. CanSnapshot(n, i) /\ Reboot(n, d, diskSnap[n], {})
    BY <1>3, Zenon DEF CrashInSnapshot
  <2>2. i \in Nat
    OBVIOUS
  <2>3. l \in Seq(Entry)
    BY <2>1, <2>2, SnapshotTypes, Zenon
  <2>4. currentTerm[n] \in Nat /\ votedFor[n] \in Server \cup {None}
    BY Zenon DEF StateTypeOK, ElectionTypeOK
  <2> HIDE DEF l
  <2>5. d \in File
    BY <2>3, <2>4, Zenon DEF File
  <2> HIDE DEF d
  <2> QED
    BY <1>1, <2>1, <2>5, OrderReboot, Zenon
<1>4. ASSUME NEW r \in leaderRpcs, CrashInInstall(r) PROVE IndexOrder'
  <2> DEFINE n == r.peer
             d == [term |-> r.term,
                   vote |-> IF r.term > currentTerm[n] THEN None
                                                       ELSE votedFor[n],
                   log  |-> TailAfter(log[n], r.snap.index)]
  <2>1. Reboot(n, d, diskSnap[n], {r})
    BY <1>4, Zenon DEF CrashInInstall
  <2>2. n \in Server /\ r.term \in Nat
    BY Zenon DEF StateTypeOK, NetworkTypeOK, LeaderRpc
  <2>3. votedFor[n] \in Server \cup {None} /\ log[n] \in Seq(Entry)
    BY <2>2, Zenon DEF StateTypeOK, ElectionTypeOK, LogTypeOK
  <2>4. TailAfter(log[n], r.snap.index) \in Seq(Entry)
    BY <2>3, TailAfterType, Zenon
  <2>5. d \in File
    BY <2>2, <2>3, <2>4, Zenon DEF File
  <2> HIDE DEF n, d
  <2> QED
    BY <1>1, <2>1, <2>2, <2>5, OrderReboot, Zenon
<1> QED
  BY <1>2, <1>3, <1>4, Zenon

LEMMA OrderStep ==
  ASSUME KeptInOrder, StateTypeOK, IndexOrder, [Next]_vars
  PROVE  IndexOrder'
<1> DEFINE Still == UNCHANGED <<logBase, lastApplied, commitIndex>>
<1>1. Still => IndexOrder'
  BY Zenon DEF IndexOrder
<1>2. UNCHANGED vars => Still
  BY Zenon DEF vars, logVars, commitVars
<1>3. ASSUME NEW n, NEW reached,
             \/ BecomeLeader(n) \/ BecomeCandidate(n, reached)
             \/ SendHeartbeats(n, reached)
      PROVE  Still
  BY <1>3, Zenon DEF BecomeLeader, BecomeCandidate, SendHeartbeats, logVars,
                     commitVars
<1>4. ASSUME NEW r,
             \/ SendRequestVote(r) \/ RequestVote(r) \/ HandleVoteReply(r)
             \/ SendAppendEntries(r) \/ SendInstallSnapshot(r)
      PROVE  Still
  BY <1>4, Zenon DEF SendRequestVote, RequestVote, HandleVoteReply,
                     SendAppendEntries, SendInstallSnapshot, logVars, commitVars
<1>5. LoseRpc => Still
  BY Zenon DEF LoseRpc, logVars, commitVars
<1> HIDE DEF Still
<1>6. CASE Next
  BY <1>1, <1>3, <1>4, <1>5, <1>6, OrderAppendEntries, OrderReplies,
     OrderReplicateCommand, OrderMoves, OrderInstallSnapshot, OrderCrashes,
     Zenon DEF Next
<1> QED
  BY <1>1, <1>2, <1>6, Zenon

-----------------------------------------------------------------------------
(* Where entries stand in a log, and their terms                           *)

(* No crash and no failing save can come between the two saves of a        *)
(* compaction.                                                             *)
WholeCompactions == ~Compaction \/ (MaxRestarts = 0 /\ MaxFaults = 0)

(* The entries of l are of terms up to t, and stand behind base.           *)
Shaped(l, base, t) ==
    \A k \in 1 .. Len(l) :
        l[k].term <= t /\ (WholeCompactions => l[k].index = base + k)

ShapeInv ==
    /\ \A n \in Server :
         /\ Shaped(log[n], logBase[n], currentTerm[n])
         /\ Shaped(disk[n].log, diskSnap[n].index, disk[n].term)
         /\ WholeCompactions => diskSnap[n].index = logBase[n]
    /\ \A r \in leaderRpcs : Shaped(r.entries, r.prev, r.term)

LEMMA ShapedEmpty ==
  ASSUME NEW base, NEW t
  PROVE  Shaped(<< >>, base, t)
  BY DEF Shaped

LEMMA ShapedLater ==
  ASSUME NEW l \in Seq(Entry), NEW base \in Nat, NEW t \in Nat, NEW u \in Nat,
         Shaped(l, base, t), t <= u
  PROVE  Shaped(l, base, u)
<1> SUFFICES ASSUME NEW k \in 1 .. Len(l)
             PROVE  l[k].term <= u /\ (WholeCompactions => l[k].index = base + k)
  BY Zenon DEF Shaped
<1>1. l[k].term <= t /\ (WholeCompactions => l[k].index = base + k)
  BY Zenon DEF Shaped
<1>2. l[k].term \in Nat
  <2>1. l[k] \in Entry
    BY ElementOfSeq, Zenon
  <2> QED
    BY <2>1, Zenon DEF Entry
<1>3. l[k].term <= u
  <2> HIDE DEF Shaped
  <2>1. l[k].term <= t
    BY <1>1, Zenon
  <2> QED
    BY <1>2, <2>1
<1> QED
  BY <1>1, <1>3, Zenon

LEMMA ShapedAppend ==
  ASSUME NEW l \in Seq(Entry), NEW base \in Nat, NEW t \in Nat, NEW e \in Entry,
         Shaped(l, base, t), e.term <= t, e.index = base + Len(l) + 1
  PROVE  Shaped(Append(l, e), base, t)
<1> DEFINE new == Append(l, e)
<1>1. /\ Len(new) = Len(l) + 1 /\ new[Len(l) + 1] = e /\ Len(l) \in Nat
      /\ \A k \in 1 .. Len(l) : new[k] = l[k]
  BY AppendProperties
<1> HIDE DEF new
<1> SUFFICES ASSUME NEW k \in 1 .. Len(l) + 1
             PROVE  /\ new[k].term <= t
                    /\ WholeCompactions => new[k].index = base + k
  BY <1>1, Zenon DEF Shaped, new
<1>2. CASE k \in 1 .. Len(l)
  BY <1>1, <1>2, Zenon DEF Shaped
<1>3. CASE k = Len(l) + 1
  <2>1. e.index = base + k
    BY <1>1, <1>3
  <2> QED
    BY <1>1, <1>3, <2>1, Zenon
<1> QED
  BY <1>1, <1>2, <1>3

LEMMA ShapedSub ==
  ASSUME NEW l \in Seq(Entry), NEW base \in Nat, NEW t \in Nat,
         Shaped(l, base, t), NEW a \in Int, NEW b \in Int, 1 <= a, b <= Len(l)
  PROVE  Shaped(SubSeq(l, a, b), base + a - 1, t)
<1> DEFINE sub == SubSeq(l, a, b)
<1>1. \A x \in a .. b : x \in 1 .. Len(l)
  OBVIOUS
<1>2. \A x \in a .. b : l[x] \in Entry
  BY <1>1, ElementOfSeq, Zenon
<1>3. /\ Len(sub) = (IF a <= b THEN b - a + 1 ELSE 0)
      /\ \A k \in 1 .. b - a + 1 : sub[k] = l[a + k - 1]
  BY <1>2, SubSeqProperties
<1> HIDE DEF sub
<1> SUFFICES ASSUME NEW k \in 1 .. Len(sub)
             PROVE  /\ sub[k].term <= t
                    /\ WholeCompactions => sub[k].index = base + a - 1 + k
  BY Zenon DEF Shaped, sub
<1>4. k \in 1 .. b - a + 1 /\ a + k - 1 \in 1 .. Len(l)
  BY <1>3
<1>5. sub[k] = l[a + k - 1]
  BY <1>3, <1>4, Zenon
<1>6. /\ l[a + k - 1].term <= t
      /\ WholeCompactions => l[a + k - 1].index = base + (a + k - 1)
  BY <1>4, Zenon DEF Shaped
<1>7. base + (a + k - 1) = base + a - 1 + k
  BY <1>4
<1> QED
  BY <1>5, <1>6, <1>7, Zenon

(* Rule 4 of AppendEntries keeps the places.                               *)
LEMMA ShapedMerge ==
  ASSUME NEW l \in Seq(Entry), NEW es \in Seq(Entry), NEW base \in Nat,
         NEW t \in Nat, NEW off \in Nat, off <= Len(l),
         Shaped(l, base, t), Shaped(es, base + off, t)
  PROVE  Shaped(MergeEntries(l, off, es), base, t)
<1>1. CASE MergeEntries(l, off, es) = l
  BY <1>1, Zenon
<1>2. ASSUME NEW i \in 1 .. Len(es), off + i - 1 <= Len(l),
             MergeEntries(l, off, es)
               = SubSeq(l, 1, off + i - 1) \o SubSeq(es, i, Len(es))
      PROVE  Shaped(MergeEntries(l, off, es), base, t)
  <2> DEFINE a == SubSeq(l, 1, off + i - 1)
             b == SubSeq(es, i, Len(es))
  <2>1. MergeEntries(l, off, es) = a \o b
    BY <1>2, Zenon
  <2>2. Len(l) \in Nat /\ Len(es) \in Nat
    OBVIOUS
  <2>3. off + i - 1 <= Len(l)
    BY <1>2, Zenon
  <2>4. i \in Nat /\ i >= 1 /\ i <= Len(es) /\ off + i - 1 \in Nat
    BY <2>2
  <2>5. /\ a \in Seq(Entry) /\ Len(a) = off + i - 1
        /\ \A k \in 1 .. Len(a) : a[k] = l[k]
    <3>1. \A x \in 1 .. off + i - 1 : l[x] \in Entry
      BY <2>2, <2>3, <2>4, ElementOfSeq, SMTT(30)
    <3>2. /\ a \in Seq(Entry)
          /\ Len(a) = (IF 1 <= off + i - 1 THEN off + i - 1 - 1 + 1 ELSE 0)
          /\ \A k \in 1 .. off + i - 1 - 1 + 1 : a[k] = l[1 + k - 1]
      BY <3>1, <2>4, SubSeqProperties
    <3> HIDE DEF a
    <3> QED
      BY <3>2, <2>4
  <2>6. /\ b \in Seq(Entry) /\ Len(b) = Len(es) - i + 1
        /\ \A k \in 1 .. Len(b) : b[k] = es[i + k - 1]
    <3>1. \A x \in i .. Len(es) : es[x] \in Entry
      BY <2>2, <2>4, ElementOfSeq
    <3>2. /\ b \in Seq(Entry)
          /\ Len(b) = (IF i <= Len(es) THEN Len(es) - i + 1 ELSE 0)
          /\ \A k \in 1 .. Len(es) - i + 1 : b[k] = es[i + k - 1]
      BY <3>1, <2>2, <2>4, SubSeqProperties, SMTT(30)
    <3> HIDE DEF b
    <3> QED
      BY <3>2, <2>4, Zenon
  <2> HIDE DEF a, b
  <2>7. /\ Len(a \o b) = Len(a) + Len(b)
        /\ \A k \in 1 .. Len(a) + Len(b) :
             (a \o b)[k] = IF k <= Len(a) THEN a[k] ELSE b[k - Len(a)]
    BY <2>5, <2>6, ConcatProperties, Zenon
  <2>8. ASSUME NEW k \in 1 .. Len(a \o b)
        PROVE  /\ (a \o b)[k].term <= t
               /\ WholeCompactions => (a \o b)[k].index = base + k
    <3>1. CASE k <= Len(a)
      <4>1. k \in 1 .. Len(a) /\ k \in 1 .. Len(l) /\ k \in 1 .. Len(a) + Len(b)
        BY <3>1, <2>2, <2>3, <2>4, <2>5, <2>6, <2>7
      <4>3. (a \o b)[k] = l[k]
        BY <3>1, <4>1, <2>5, <2>7, Zenon
      <4>2. l[k].term <= t /\ (WholeCompactions => l[k].index = base + k)
        BY <4>1, Zenon DEF Shaped
      <4> QED
        BY <4>2, <4>3, Zenon
    <3>2. CASE ~(k <= Len(a))
      <4> DEFINE j == i + (k - Len(a)) - 1
      <4>1. k - Len(a) \in 1 .. Len(b) /\ k \in 1 .. Len(a) + Len(b)
        BY <3>2, <2>2, <2>4, <2>5, <2>6, <2>7, SMTT(30)
      <4>5. (a \o b)[k] = b[k - Len(a)]
        BY <3>2, <4>1, <2>7, Zenon
      <4>2. (a \o b)[k] = es[j]
        BY <4>1, <4>5, <2>6, Zenon
      <4>3. j \in 1 .. Len(es) /\ base + off + j = base + k
        BY <4>1, <2>2, <2>4, <2>5, <2>6
      <4> HIDE DEF j
      <4>4. es[j].term <= t /\ (WholeCompactions => es[j].index = base + off + j)
        BY <4>3, Zenon DEF Shaped
      <4> QED
        BY <4>2, <4>3, <4>4, Zenon
    <3> QED
      BY <3>1, <3>2, Zenon
  <2> QED
    BY <2>1, <2>8, Zenon DEF Shaped
<1> QED
  BY <1>1, <1>2, MergeCases, Zenon

(* The loop of InstallSnapshot that keeps what is behind the snapshot.     *)
LEMMA ShapedTail ==
  ASSUME NEW l \in Seq(Entry), NEW base \in Nat, NEW t \in Nat, NEW i \in Nat,
         Shaped(l, base, t), base <= i, KeptInOrder, Intervals
  PROVE  Shaped(TailAfter(l, i), i, t)
<1> DEFINE K == {k \in 1 .. Len(l) : l[k].index > i}
           tail == TailAfter(l, i)
<1>1. Len(l) \in Nat /\ K \in SUBSET (1 .. Len(l)) /\ tail = Kept(l, K)
  BY DEF TailAfter
<1>2. /\ Len(tail) = Cardinality(K)
      /\ \A j \in 1 .. Cardinality(K) : \E k \in K :
           tail[j] = l[k] /\ Cardinality({x \in K : x <= k}) = j
  <2>1. l \in Seq(Entry) /\ K \in SUBSET (1 .. Len(l))
    BY <1>1, Zenon
  <2> HIDE DEF K
  <2>2. /\ Len(Kept(l, K)) = Cardinality(K)
        /\ \A j \in 1 .. Cardinality(K) : \E k \in K :
             Kept(l, K)[j] = l[k] /\ Cardinality({x \in K : x <= k}) = j
    BY <2>1, Zenon DEF KeptInOrder
  <2> QED
    BY <1>1, <2>2, Zenon
<1> SUFFICES ASSUME NEW j \in 1 .. Len(tail)
             PROVE  /\ tail[j].term <= t
                    /\ WholeCompactions => tail[j].index = i + j
  BY Zenon DEF Shaped
<1> HIDE DEF tail
<1>6. PICK k \in K : tail[j] = l[k] /\ Cardinality({x \in K : x <= k}) = j
  BY <1>2, Zenon
<1>7. k \in 1 .. Len(l)
  BY <1>6, Zenon
<1>8. l[k].term <= t /\ (WholeCompactions => l[k].index = base + k)
  BY <1>7, Zenon DEF Shaped
<1>9. ASSUME WholeCompactions PROVE l[k].index = i + j
  <2>1. \A x \in 1 .. Len(l) : l[x].index = base + x
    BY <1>9, Zenon DEF Shaped
  <2>2. \A x : (x \in K /\ x <= k) <=> x \in i - base + 1 .. k
    <3>1. ASSUME NEW x PROVE x \in K <=> x \in 1 .. Len(l) /\ base + x > i
      BY <2>1, Zenon
    <3>2. base + k > i
      BY <1>6, <3>1, Zenon
    <3> HIDE DEF K
    <3> QED
      BY <1>1, <1>7, <3>1, <3>2, SMTT(30)
  <2>3. {x \in K : x <= k} = i - base + 1 .. k
    <3> HIDE DEF K
    <3> QED
      BY <2>2, Zenon
  <2>4. base + k > i
    BY <1>6, <1>7, <2>1, Zenon
  <2>5. Cardinality(i - base + 1 .. k) = k - (i - base + 1) + 1
    <3>1. i - base + 1 \in Int /\ k \in Int /\ i - base + 1 <= k
      BY <1>7, <2>4
    <3> QED
      BY <3>1, Zenon DEF Intervals
  <2>6. j = k - (i - base)
    <3>1. j = k - (i - base + 1) + 1
      BY <1>6, <2>3, <2>5, Zenon
    <3> HIDE DEF K
    <3> QED
      BY <1>7, <3>1
  <2>7. base + k = i + j
    BY <1>7, <2>6
  <2> QED
    BY <1>7, <2>1, <2>7, Zenon
<1> QED
  BY <1>6, <1>8, <1>9, Zenon

-----------------------------------------------------------------------------
(* The shape of the logs under every step                                  *)

(* What a step that only concerns node n has to leave.                     *)
LEMMA ShapeLocal ==
  ASSUME ShapeInv, NEW n \in Server,
         \A m \in Server \ {n} :
           /\ log'[m] = log[m] /\ logBase'[m] = logBase[m]
           /\ currentTerm'[m] = currentTerm[m]
           /\ disk'[m] = disk[m] /\ diskSnap'[m] = diskSnap[m],
         Shaped(log'[n], logBase'[n], currentTerm'[n]),
         Shaped(disk'[n].log, diskSnap'[n].index, disk'[n].term),
         WholeCompactions => diskSnap'[n].index = logBase'[n],
         \A r \in leaderRpcs' : r \in leaderRpcs \/ Shaped(r.entries, r.prev, r.term)
  PROVE  ShapeInv'
<1>1. ASSUME NEW m \in Server
      PROVE  /\ Shaped(log'[m], logBase'[m], currentTerm'[m])
             /\ Shaped(disk'[m].log, diskSnap'[m].index, disk'[m].term)
             /\ WholeCompactions => diskSnap'[m].index = logBase'[m]
  BY Zenon DEF ShapeInv
<1>2. ASSUME NEW r \in leaderRpcs' PROVE Shaped(r.entries, r.prev, r.term)
  BY Zenon DEF ShapeInv
<1> QED
  BY <1>1, <1>2, Zenon DEF ShapeInv, Shaped

LEMMA ShapedBase ==
  ASSUME NEW l, NEW base, NEW c, NEW t, Shaped(l, base, t),
         WholeCompactions => base = c
  PROVE  Shaped(l, c, t)
  BY Zenon DEF Shaped

LEMMA ShapeTypes ==
  ASSUME StateTypeOK
  PROVE  /\ \A n \in Server :
              /\ log[n] \in Seq(Entry) /\ logBase[n] \in Nat
              /\ currentTerm[n] \in Nat /\ disk[n] \in File
              /\ disk[n].log \in Seq(Entry) /\ disk[n].term \in Nat
              /\ diskSnap[n] \in Snap /\ diskSnap[n].index \in Nat
         /\ \A r \in leaderRpcs :
              /\ r.leader \in Server /\ r.peer \in Server /\ r.term \in Nat
              /\ r.prev \in Nat /\ r.entries \in Seq(Entry) /\ r.rterm \in Nat
              /\ r.snap \in Snap /\ r.snap.index \in Nat
<1>1. \A n \in Server : log[n] \in Seq(Entry) /\ logBase[n] \in Nat
  BY Zenon DEF StateTypeOK, LogTypeOK
<1>2. \A n \in Server : currentTerm[n] \in Nat
  BY Zenon DEF StateTypeOK, ElectionTypeOK
<1>3. \A n \in Server : disk[n] \in File /\ diskSnap[n] \in Snap
  BY Zenon DEF StateTypeOK, DiskTypeOK, File
<1>4. \A d \in File : d.log \in Seq(Entry) /\ d.term \in Nat
  BY Zenon DEF File
<1>5. \A s \in Snap : s.index \in Nat
  BY Zenon DEF Snap
<1>6. \A r \in leaderRpcs :
        /\ r.leader \in Server /\ r.peer \in Server /\ r.term \in Nat
        /\ r.prev \in Nat /\ r.entries \in Seq(Entry) /\ r.rterm \in Nat
        /\ r.snap \in Snap
  BY Zenon DEF StateTypeOK, NetworkTypeOK, LeaderRpc
<1> QED
  BY <1>1, <1>2, <1>3, <1>4, <1>5, <1>6, Zenon

(* A step that leaves the logs alone: a node's term may rise, and its log  *)
(* may be saved with it.                                                   *)
LEMMA ShapeQuiet ==
  ASSUME StateTypeOK, StateTypeOK', ShapeInv, UNCHANGED <<log, logBase, diskSnap>>,
         \A m \in Server : currentTerm[m] <= currentTerm'[m],
         \A m \in Server :
           \/ disk'[m] = disk[m]
           \/ disk'[m].log = log[m] /\ disk'[m].term = currentTerm'[m],
         \A r \in leaderRpcs' : r \in leaderRpcs \/ Shaped(r.entries, r.prev, r.term)
  PROVE  ShapeInv'
<1>1. ASSUME NEW m \in Server
      PROVE  /\ Shaped(log[m], logBase[m], currentTerm'[m])
             /\ Shaped(disk'[m].log, diskSnap[m].index, disk'[m].term)
             /\ WholeCompactions => diskSnap[m].index = logBase[m]
  <2>1. /\ Shaped(log[m], logBase[m], currentTerm[m])
        /\ Shaped(disk[m].log, diskSnap[m].index, disk[m].term)
        /\ WholeCompactions => diskSnap[m].index = logBase[m]
    BY Zenon DEF ShapeInv
  <2>2. /\ log[m] \in Seq(Entry) /\ logBase[m] \in Nat /\ currentTerm[m] \in Nat
        /\ currentTerm'[m] \in Nat
    <3>1. log[m] \in Seq(Entry) /\ logBase[m] \in Nat /\ currentTerm[m] \in Nat
      BY ShapeTypes, Zenon
    <3>2. currentTerm'[m] \in Nat
      BY Zenon DEF StateTypeOK, ElectionTypeOK
    <3> QED
      BY <3>1, <3>2, Zenon
  <2>3. Shaped(log[m], logBase[m], currentTerm'[m])
    BY <2>1, <2>2, ShapedLater, Zenon
  <2>4. Shaped(log[m], diskSnap[m].index, currentTerm'[m])
    BY <2>1, <2>3, ShapedBase, Zenon
  <2> QED
    BY <2>1, <2>3, <2>4, Zenon
<1>2. ASSUME NEW r \in leaderRpcs' PROVE Shaped(r.entries, r.prev, r.term)
  BY Zenon DEF ShapeInv
<1> QED
  BY <1>1, <1>2, Zenon DEF ShapeInv, Shaped

(* A term that rises at one node.                                          *)
LEMMA OneTermRises ==
  ASSUME NEW f \in [Server -> Nat], NEW n \in Server, NEW t \in Nat, f[n] <= t
  PROVE  \A m \in Server : f[m] <= [f EXCEPT ![n] = t][m]
  OBVIOUS

(* The steps of an election.                                               *)
LEMMA ShapeElections ==
  ASSUME StateTypeOK, StateTypeOK', ShapeInv,
         \/ \E n \in Server :
              BecomeLeader(n) \/ \E reached : BecomeCandidate(n, reached)
         \/ \E r \in voteRpcs :
              SendRequestVote(r) \/ RequestVote(r) \/ HandleVoteReply(r)
  PROVE  ShapeInv'
<1>1. currentTerm \in [Server -> Nat] /\ disk \in [Server -> File]
  BY Zenon DEF StateTypeOK, ElectionTypeOK, DiskTypeOK, File
<1>2. \A r \in voteRpcs : /\ r.cand \in Server /\ r.peer \in Server
                          /\ r.term \in Nat /\ r.rterm \in Nat
  BY Zenon DEF StateTypeOK, NetworkTypeOK, VoteRpc
<1>3. UNCHANGED <<log, logBase, diskSnap, leaderRpcs>>
  BY ZenonT(30) DEF BecomeLeader, BecomeCandidate, SendRequestVote, RequestVote,
               HandleVoteReply, logVars, diskVars
<1> DEFINE Rises == \A m \in Server : currentTerm[m] <= currentTerm'[m]
           Files == \A m \in Server :
                      \/ disk'[m] = disk[m]
                      \/ disk'[m].log = log[m] /\ disk'[m].term = currentTerm'[m]
<1>a. ASSUME NEW n \in Server, NEW t \in Nat, currentTerm[n] <= t,
             currentTerm' = [currentTerm EXCEPT ![n] = t]
      PROVE  Rises
  BY <1>1, <1>a, OneTermRises, Zenon
<1>b. ASSUME UNCHANGED currentTerm PROVE Rises
  <2>1. \A k \in Nat : k <= k
    BY ONLY TRUE
  <2> QED
    BY <1>1, <1>b, <2>1, Zenon
<1>c. ASSUME UNCHANGED disk PROVE Files
  BY <1>c, Zenon
<1>d. ASSUME NEW n \in Server, NEW t, NEW v, currentTerm'[n] = t,
             disk' = [disk EXCEPT ![n] = [term |-> t, vote |-> v, log |-> log[n]]]
      PROVE  Files
  <2> DEFINE d == [term |-> t, vote |-> v, log |-> log[n]]
  <2>1. d.term = t /\ d.log = log[n]
    BY Zenon
  <2>2. \A m \in Server : disk'[m] = disk[m] \/ (disk'[m] = d /\ m = n)
    <3>1. disk' = [disk EXCEPT ![n] = d]
      BY <1>d, Zenon
    <3> HIDE DEF d
    <3> QED
      BY <1>1, <3>1, Zenon
  <2> HIDE DEF d
  <2> QED
    BY <1>d, <2>1, <2>2, Zenon
<1>4. ASSUME NEW n \in Server, BecomeLeader(n) PROVE Rises /\ Files
  <2>1. UNCHANGED <<currentTerm, disk>>
    BY <1>4, Zenon DEF BecomeLeader, diskVars
  <2> QED
    BY <1>b, <1>c, <2>1, Zenon
<1>5. ASSUME NEW n \in Server, NEW reached, BecomeCandidate(n, reached)
      PROVE  Rises /\ Files
  <2>1. /\ currentTerm' = [currentTerm EXCEPT ![n] = currentTerm[n] + 1]
        /\ \/ UNCHANGED disk
           \/ disk' = [disk EXCEPT ![n] = [term |-> currentTerm[n] + 1,
                                           vote |-> n, log |-> log[n]]]
    BY <1>5, Zenon DEF BecomeCandidate, Saved, SaveFails
  <2>2. currentTerm[n] + 1 \in Nat /\ currentTerm[n] <= currentTerm[n] + 1
    BY <1>1
  <2>3. currentTerm'[n] = currentTerm[n] + 1
    BY <1>1, <2>1, Zenon
  <2> QED
    BY <1>a, <1>c, <1>d, <2>1, <2>2, <2>3, Zenon
<1>6. ASSUME NEW r \in voteRpcs, SendRequestVote(r) PROVE Rises /\ Files
  <2>1. UNCHANGED <<currentTerm, disk>>
    BY <1>6, Zenon DEF SendRequestVote, electionVars, diskVars
  <2> QED
    BY <1>b, <1>c, <2>1, Zenon
<1>7. ASSUME NEW r \in voteRpcs, RequestVote(r) PROVE Rises /\ Files
  <2> DEFINE n == r.peer
             t == IF r.term > currentTerm[n] THEN r.term ELSE currentTerm[n]
             v == IF r.term > currentTerm[n] THEN None ELSE votedFor[n]
  <2>1. /\ currentTerm' = [currentTerm EXCEPT ![n] = t]
        /\ \/ UNCHANGED disk
           \/ disk' = [disk EXCEPT ![n] = [term |-> t, vote |-> v, log |-> log[n]]]
    BY <1>7, Zenon DEF RequestVote, Saved, SaveFails
  <2>2. n \in Server /\ r.term \in Nat /\ currentTerm[n] \in Nat
    BY <1>1, <1>2, Zenon
  <2>3. t \in Nat /\ currentTerm[n] <= t
    <3> HIDE DEF n
    <3> QED
      BY ONLY <2>2
  <2> HIDE DEF n, t, v
  <2>4. currentTerm'[n] = t
    BY <1>1, <2>1, <2>2, Zenon
  <2> QED
    BY <1>a, <1>c, <1>d, <2>1, <2>2, <2>3, <2>4, Zenon
<1>8. ASSUME NEW r \in voteRpcs, HandleVoteReply(r) PROVE Rises /\ Files
  <2> DEFINE n == r.cand
  <2>1. /\ UNCHANGED disk
        /\ \/ UNCHANGED currentTerm
           \/ /\ r.rterm > currentTerm[n]
              /\ currentTerm' = [currentTerm EXCEPT ![n] = r.rterm]
    BY <1>8, Zenon DEF HandleVoteReply, StepDown, electionVars, diskVars
  <2> HIDE DEF n
  <2>2. n \in Server /\ r.rterm \in Nat /\ currentTerm[n] \in Nat
    BY <1>1, <1>2, Zenon DEF n
  <2>3. r.rterm > currentTerm[n] => currentTerm[n] <= r.rterm
    BY ONLY <2>2
  <2> QED
    BY <1>a, <1>b, <1>c, <2>1, <2>2, <2>3, Zenon
<1>9. Rises /\ Files
  BY <1>4, <1>5, <1>6, <1>7, <1>8, Zenon
<1> QED
  BY <1>3, <1>9, ShapeQuiet, Zenon

(* The calls of a heartbeat, and a call that moves on.                     *)
LEMMA ShapeSpawn ==
  ASSUME NEW n, NEW reached, NEW commit, Spawn(n, reached, commit)
  PROVE  \A r \in leaderRpcs' : r \in leaderRpcs \/ Shaped(r.entries, r.prev, r.term)
<1> DEFINE call(p) ==
          [leader |-> n, peer |-> p, term |-> currentTerm[n], commit |-> commit,
           phase |-> "call", prev |-> 0, prevTerm |-> 0, entries |-> << >>,
           snap |-> NoSnap, match |-> 0, rterm |-> 0, success |-> FALSE]
<1>1. leaderRpcs' = leaderRpcs \cup {call(p) : p \in reached}
  BY Zenon DEF Spawn
<1>2. \A p : call(p).entries = << >>
  BY Zenon
<1> HIDE DEF call
<1> SUFFICES ASSUME NEW r \in leaderRpcs', r \notin leaderRpcs
             PROVE  Shaped(r.entries, r.prev, r.term)
  BY Zenon
<1>3. PICK p \in reached : r = call(p)
  BY <1>1, Zenon
<1>4. r.entries = << >>
  BY <1>2, <1>3, Zenon
<1> QED
  BY <1>4, ShapedEmpty, Zenon

LEMMA ShapeAdvance ==
  ASSUME NEW r, NEW s, Advance(r, s), Shaped(s.entries, s.prev, s.term)
  PROVE  \A x \in leaderRpcs' : x \in leaderRpcs \/ Shaped(x.entries, x.prev, x.term)
  BY Zenon DEF Advance

(* Only the phase, the snapshot or the answer of a call changes.           *)
LEMMA ShapeSameCall ==
  ASSUME StateTypeOK, ShapeInv, NEW r \in leaderRpcs, NEW s, Advance(r, s),
         \/ s = [r EXCEPT !.phase = "icall"]
         \/ s = [r EXCEPT !.phase = "ireq", !.snap = snapshot[r.leader]]
         \/ \E t : s = [r EXCEPT !.phase = "iresp", !.snap = NoSnap,
                                 !.match = r.snap.index, !.rterm = t]
         \/ s = Retry(r)
  PROVE  \A x \in leaderRpcs' : x \in leaderRpcs \/ Shaped(x.entries, x.prev, x.term)
<1>1. r \in LeaderRpc
  BY Zenon DEF StateTypeOK, NetworkTypeOK
<1>2. s.entries = r.entries /\ s.prev = r.prev /\ s.term = r.term
  BY <1>1, Zenon DEF LeaderRpc, Retry
<1>3. Shaped(r.entries, r.prev, r.term)
  BY Zenon DEF ShapeInv
<1> QED
  BY <1>2, <1>3, ShapeAdvance, Zenon

(* sendAppendEntries ships a part of the leader's log, in the term that    *)
(* the call was made for.                                                  *)
LEMMA ShapeRequest ==
  ASSUME StateTypeOK, ShapeInv, NEW r \in leaderRpcs, SendAppendEntries(r)
  PROVE  \A x \in leaderRpcs' : x \in leaderRpcs \/ Shaped(x.entries, x.prev, x.term)
<1> DEFINE n     == r.leader
           base  == logBase[n]
           wish  == nextIndex[n][r.peer] - 1
           prev  == IF wish - base \in 1 .. Len(log[n]) THEN wish ELSE 0
           first == prev + 1
           pterm == IF prev > 0 THEN log[n][prev - base].term ELSE 0
           es    == IF first <= base THEN << >>
                    ELSE SubSeq(log[n], first - base, Len(log[n]) - base)
           s     == AppendRequest(r, prev, pterm, es)
<1>1. \/ leaderRpcs' = leaderRpcs \ {r}
      \/ Advance(r, [r EXCEPT !.phase = "icall"])
      \/ Advance(r, s) /\ currentTerm[n] = r.term
  BY Zenon DEF SendAppendEntries
<1>2. /\ n \in Server /\ base \in Nat /\ log[n] \in Seq(Entry) /\ r.term \in Nat
      /\ nextIndex[n][r.peer] \in Nat
  <2>1. /\ n \in Server /\ r.peer \in Server /\ base \in Nat
        /\ log[n] \in Seq(Entry) /\ r.term \in Nat
    BY ShapeTypes, Zenon
  <2>2. nextIndex[n][r.peer] \in Nat
    BY <2>1, Zenon DEF StateTypeOK, LeaderTypeOK
  <2> QED
    BY <2>1, <2>2, Zenon
<1>3. ASSUME currentTerm[n] = r.term PROVE Shaped(es, prev, r.term)
  <2>1. Shaped(log[n], base, r.term)
    BY <1>2, <1>3, Zenon DEF ShapeInv
  <2>2. wish \in Int /\ prev \in Int /\ Len(log[n]) \in Nat
    BY <1>2, SMTT(30)
  <2>3. CASE first <= base
    BY <2>3, ShapedEmpty, Zenon
  <2>4. CASE ~(first <= base)
    <3> DEFINE a == first - base
               b == Len(log[n]) - base
    <3>1. es = SubSeq(log[n], a, b)
      BY <2>4, Zenon
    <3>2. a \in Int /\ b \in Int /\ 1 <= a /\ b <= Len(log[n]) /\ base + a - 1 = prev
      <4> HIDE DEF prev, base
      <4> QED
        BY <1>2, <2>2, <2>4
    <3> HIDE DEF a, b, es, prev, base, n
    <3>3. Shaped(SubSeq(log[n], a, b), base + a - 1, r.term)
      BY <1>2, <2>1, <3>2, ShapedSub, Zenon
    <3> QED
      BY <3>1, <3>2, <3>3, Zenon
  <2> QED
    BY <2>3, <2>4, Zenon
<1>4. s.entries = es /\ s.prev = prev /\ s.term = r.term
  <2>1. r \in LeaderRpc
    BY Zenon DEF StateTypeOK, NetworkTypeOK
  <2> HIDE DEF es, prev, pterm
  <2> QED
    BY <2>1, Zenon DEF AppendRequest, LeaderRpc
<1> HIDE DEF s, es, prev, n
<1>5. CASE leaderRpcs' = leaderRpcs \ {r}
  BY <1>5, Zenon
<1>6. CASE Advance(r, [r EXCEPT !.phase = "icall"])
  BY <1>6, ShapeSameCall, Zenon
<1>7. CASE Advance(r, s) /\ currentTerm[n] = r.term
  BY <1>3, <1>4, <1>7, ShapeAdvance, Zenon
<1> QED
  BY <1>1, <1>5, <1>6, <1>7, Zenon

(* The steps of a leader's goroutines, of the apply loop and of the        *)
(* network.                                                                *)
LEMMA ShapeCalls ==
  ASSUME StateTypeOK, StateTypeOK', ShapeInv,
         \/ \E n \in Server :
              ApplyPendingEntries(n) \/ \E reached : SendHeartbeats(n, reached)
         \/ \E r \in leaderRpcs :
              \/ SendAppendEntries(r) \/ HandleAppendReply(r)
              \/ SendInstallSnapshot(r) \/ HandleInstallReply(r)
         \/ LoseRpc
  PROVE  ShapeInv'
<1> DEFINE Rises == \A m \in Server : currentTerm[m] <= currentTerm'[m]
           Calls == \A r \in leaderRpcs' :
                      r \in leaderRpcs \/ Shaped(r.entries, r.prev, r.term)
           Raise(r) == /\ r.rterm > currentTerm[r.leader]
                       /\ currentTerm' = [currentTerm EXCEPT ![r.leader] = r.rterm]
<1>1. currentTerm \in [Server -> Nat]
  BY Zenon DEF StateTypeOK, ElectionTypeOK
<1>2. UNCHANGED <<log, logBase, diskSnap, disk>>
  BY Zenon DEF ApplyPendingEntries, SendHeartbeats, SendAppendEntries,
               HandleAppendReply, SendInstallSnapshot, HandleInstallReply,
               LoseRpc, logVars, diskVars
<1>3. UNCHANGED currentTerm => Rises
  BY <1>1
<1>4. ASSUME NEW r \in leaderRpcs, Raise(r) PROVE Rises
  <2>1. r.leader \in Server /\ r.rterm \in Nat
    BY ShapeTypes, Zenon
  <2> QED
    BY <1>1, <1>4, <2>1
<1>5. ASSUME NEW n \in Server, NEW reached,
             ApplyPendingEntries(n) \/ SendHeartbeats(n, reached)
      PROVE  Rises /\ Calls
  <2>1. /\ UNCHANGED currentTerm
        /\ UNCHANGED leaderRpcs \/ Spawn(n, reached, commitIndex[n])
    BY <1>5, Zenon DEF ApplyPendingEntries, SendHeartbeats, electionVars
  <2> QED
    BY <1>3, <2>1, ShapeSpawn, Zenon
<1>6. ASSUME NEW r \in leaderRpcs, SendAppendEntries(r) PROVE Rises /\ Calls
  <2>1. UNCHANGED currentTerm
    BY <1>6, Zenon DEF SendAppendEntries, electionVars
  <2> QED
    BY <1>3, <1>6, <2>1, ShapeRequest, Zenon
<1>7. ASSUME NEW r \in leaderRpcs, SendInstallSnapshot(r) PROVE Rises /\ Calls
  <2>1. /\ UNCHANGED currentTerm
        /\ Advance(r, [r EXCEPT !.phase = "ireq", !.snap = snapshot[r.leader]])
    BY <1>7, Zenon DEF SendInstallSnapshot, electionVars
  <2> QED
    BY <1>3, <2>1, ShapeSameCall, Zenon
<1>8. ASSUME NEW r \in leaderRpcs, HandleAppendReply(r) \/ HandleInstallReply(r)
      PROVE  Rises /\ Calls
  <2>1. UNCHANGED currentTerm \/ Raise(r)
    <3>1. /\ UNCHANGED currentTerm
          \/ /\ currentTerm[r.leader] = r.term /\ r.rterm > r.term
             /\ currentTerm' = [currentTerm EXCEPT ![r.leader] = r.rterm]
      BY <1>8, Zenon DEF HandleAppendReply, HandleInstallReply, StepDown,
                         electionVars
    <3> QED
      BY <3>1, Zenon
  <2>2. leaderRpcs' = leaderRpcs \ {r} \/ Advance(r, Retry(r))
    BY <1>8, Zenon DEF HandleAppendReply, HandleInstallReply
  <2>3. Calls
    BY <2>2, ShapeSameCall, Zenon
  <2> QED
    BY <1>3, <1>4, <2>1, <2>3, Zenon
<1>9. LoseRpc => Rises /\ Calls
  <2> SUFFICES ASSUME LoseRpc PROVE Rises /\ Calls
    BY Zenon
  <2>1. UNCHANGED currentTerm /\ leaderRpcs' \subseteq leaderRpcs
    BY Zenon DEF LoseRpc, electionVars
  <2> QED
    BY <1>3, <2>1, Zenon
<1>10. Rises /\ Calls
  BY <1>5, <1>6, <1>7, <1>8, <1>9, Zenon
<1> QED
  BY <1>2, <1>10, ShapeQuiet, Zenon

(* A process that starts from a file whose log stands behind the snapshot. *)
LEMMA ShapeReboot ==
  ASSUME StateTypeOK, ShapeInv, NEW n \in Server, NEW d, NEW s, NEW handling,
         Reboot(n, d, s, handling), Shaped(d.log, s.index, d.term)
  PROVE  ShapeInv'
<1>1. /\ currentTerm' = [currentTerm EXCEPT ![n] = d.term]
      /\ log' = [log EXCEPT ![n] = d.log]
      /\ logBase' = [logBase EXCEPT ![n] = s.index]
      /\ disk' = [disk EXCEPT ![n] = d]
      /\ diskSnap' = [diskSnap EXCEPT ![n] = s]
      /\ leaderRpcs' \subseteq leaderRpcs
  BY Zenon DEF Reboot
<1>2. /\ DOMAIN currentTerm = Server /\ DOMAIN log = Server /\ DOMAIN logBase = Server
      /\ DOMAIN disk = Server /\ DOMAIN diskSnap = Server
  BY Zenon DEF StateTypeOK, ElectionTypeOK, LogTypeOK, DiskTypeOK
<1>3. /\ currentTerm'[n] = d.term /\ log'[n] = d.log /\ logBase'[n] = s.index
      /\ disk'[n] = d /\ diskSnap'[n] = s
  BY <1>1, <1>2, Zenon
<1>4. \A m \in Server \ {n} :
        /\ log'[m] = log[m] /\ logBase'[m] = logBase[m]
        /\ currentTerm'[m] = currentTerm[m]
        /\ disk'[m] = disk[m] /\ diskSnap'[m] = diskSnap[m]
  BY <1>1, <1>2, Zenon
<1>5. /\ Shaped(log'[n], logBase'[n], currentTerm'[n])
      /\ Shaped(disk'[n].log, diskSnap'[n].index, disk'[n].term)
      /\ diskSnap'[n].index = logBase'[n]
  BY <1>3, Zenon
<1>6. \A r \in leaderRpcs' : r \in leaderRpcs
  BY <1>1, Zenon
<1> QED
  BY <1>4, <1>5, <1>6, ShapeLocal, Zenon

LEMMA ShapeRestart ==
  ASSUME StateTypeOK, ShapeInv, NEW n \in Server, NEW handling,
         Reboot(n, disk[n], diskSnap[n], handling)
  PROVE  ShapeInv'
<1>1. Shaped(disk[n].log, diskSnap[n].index, disk[n].term)
  BY Zenon DEF ShapeInv
<1> QED
  BY <1>1, ShapeReboot, Zenon

(* One node takes the log l in term t, behind base b.  The file follows,   *)
(* or is left behind together with the base.                               *)
LEMMA ShapeNode ==
  ASSUME ShapeInv, NEW n \in Server, NEW t, NEW l, NEW b,
         \A m \in Server \ {n} :
           /\ log'[m] = log[m] /\ logBase'[m] = logBase[m]
           /\ currentTerm'[m] = currentTerm[m]
           /\ disk'[m] = disk[m] /\ diskSnap'[m] = diskSnap[m],
         log'[n] = l, logBase'[n] = b, currentTerm'[n] = t, Shaped(l, b, t),
         \/ disk'[n] = disk[n] /\ (WholeCompactions => b = logBase[n])
         \/ disk'[n].log = l /\ disk'[n].term = t,
         WholeCompactions => diskSnap'[n].index = b,
         \A r \in leaderRpcs' : r \in leaderRpcs \/ Shaped(r.entries, r.prev, r.term)
  PROVE  ShapeInv'
<1>1. Shaped(disk'[n].log, diskSnap'[n].index, disk'[n].term)
  <2>1. CASE disk'[n] = disk[n] /\ (WholeCompactions => b = logBase[n])
    <3>1. /\ Shaped(disk[n].log, diskSnap[n].index, disk[n].term)
          /\ WholeCompactions => diskSnap[n].index = diskSnap'[n].index
      BY <2>1, Zenon DEF ShapeInv
    <3> QED
      BY <2>1, <3>1, ShapedBase, Zenon
  <2>2. CASE disk'[n].log = l /\ disk'[n].term = t
    BY <2>2, ShapedBase, Zenon
  <2> QED
    BY <2>1, <2>2, Zenon
<1>2. /\ Shaped(log'[n], logBase'[n], currentTerm'[n])
      /\ WholeCompactions => diskSnap'[n].index = logBase'[n]
  BY Zenon
<1> QED
  BY <1>1, <1>2, ShapeLocal, Zenon

(* A request that rules 3 and 4 of AppendEntries let through keeps the     *)
(* places and the terms of the follower's log.                             *)
LEMMA ShapeMerged ==
  ASSUME StateTypeOK, ShapeInv, NEW r \in leaderRpcs, NEW n \in Server,
         r.term >= currentTerm[n], PrevOk(n, r),
         r.prev - logBase[n] >= 0 \/ r.entries = << >>
  PROVE  Shaped(MergeEntries(log[n], r.prev - logBase[n], r.entries), logBase[n],
                r.term)
<1> DEFINE off == r.prev - logBase[n]
           l   == log[n]
           es  == r.entries
<1>1. /\ l \in Seq(Entry) /\ logBase[n] \in Nat /\ currentTerm[n] \in Nat
      /\ r.term \in Nat /\ r.prev \in Nat /\ es \in Seq(Entry)
  BY ShapeTypes, Zenon
<1>2. Shaped(l, logBase[n], currentTerm[n]) /\ Shaped(es, r.prev, r.term)
  BY Zenon DEF ShapeInv
<1>3. Shaped(l, logBase[n], r.term)
  <2>1. currentTerm[n] <= r.term
    BY ONLY <1>1, r.term >= currentTerm[n], Zenon
  <2> HIDE DEF l
  <2> QED
    BY <1>1, <1>2, <2>1, ShapedLater, Zenon
<1>4. CASE es = << >>
  <2>1. MergeEntries(l, off, es) = l
    BY <1>4, MergeNothing, Zenon
  <2> QED
    BY <1>3, <2>1, Zenon
<1>5. CASE off >= 0
  <2>1. Len(l) \in Nat
    BY <1>1
  <2>2. off \in 1 .. Len(l) \/ r.prev = 0
    BY Zenon DEF PrevOk
  <2>3. off \in Nat /\ off <= Len(l) /\ logBase[n] + off = r.prev
    BY ONLY <1>1, <1>5, <2>1, <2>2
  <2> HIDE DEF off, l, es
  <2>4. Shaped(es, logBase[n] + off, r.term)
    BY <1>2, <2>3, Zenon
  <2>5. Shaped(MergeEntries(l, off, es), logBase[n], r.term)
    BY <1>1, <1>3, <2>3, <2>4, ShapedMerge, Zenon
  <2> QED
    BY <2>5, Zenon DEF off, l, es
<1> QED
  BY <1>4, <1>5, Zenon

LEMMA ShapeAppendEntries ==
  ASSUME StateTypeOK, StateTypeOK', ShapeInv, NEW r \in leaderRpcs, AppendEntries(r)
  PROVE  ShapeInv'
<1> DEFINE n      == r.peer
           vote   == IF r.term > currentTerm[n] THEN None ELSE votedFor[n]
           off    == r.prev - logBase[n]
           merged == MergeEntries(log[n], off, r.entries)
           Calls  == \A x \in leaderRpcs' :
                       x \in leaderRpcs \/ Shaped(x.entries, x.prev, x.term)
           Quiet  == \/ /\ r.term >= currentTerm[n]
                        /\ currentTerm' = [currentTerm EXCEPT ![n] = r.term]
                     \/ UNCHANGED currentTerm
           Merges == /\ r.term >= currentTerm[n] /\ PrevOk(n, r)
                     /\ off >= 0 \/ r.entries = << >>
                     /\ currentTerm' = [currentTerm EXCEPT ![n] = r.term]
                     /\ log' = [log EXCEPT ![n] = merged]
                     /\ UNCHANGED <<logBase, diskSnap>>
                     /\ \/ UNCHANGED disk
                        \/ disk' = [disk EXCEPT ![n] =
                                      [term |-> r.term, vote |-> vote, log |-> merged]]
<1>1. /\ \/ leaderRpcs' = leaderRpcs \ {r}
         \/ \E t, ok : Advance(r, AppendReply(r, t, ok))
         \/ Reboot(n, disk[n], diskSnap[n], {r})
      /\ \/ Reboot(n, disk[n], diskSnap[n], {r})
         \/ Merges
         \/ Quiet /\ UNCHANGED <<log, logBase, disk, diskSnap>>
  BY Zenon DEF AppendEntries, Saved, SaveFails, logVars, diskVars, electionVars
<1>2. /\ n \in Server /\ r.term \in Nat /\ currentTerm \in [Server -> Nat]
      /\ log \in [Server -> Seq(Entry)] /\ disk \in [Server -> File]
  <2>1. n \in Server /\ r.term \in Nat
    BY ShapeTypes, Zenon
  <2> QED
    BY <2>1, Zenon DEF StateTypeOK, ElectionTypeOK, LogTypeOK, DiskTypeOK, File
<1>3. \A t, ok : AppendReply(r, t, ok).entries = << >>
  <2>1. r \in LeaderRpc
    BY Zenon DEF StateTypeOK, NetworkTypeOK
  <2> QED
    BY <2>1, Zenon DEF AppendReply, LeaderRpc
<1>4. CASE Reboot(n, disk[n], diskSnap[n], {r})
  BY <1>2, <1>4, ShapeRestart, Zenon
<1>5. ASSUME ~Reboot(n, disk[n], diskSnap[n], {r}) PROVE Calls
  <2>1. CASE leaderRpcs' = leaderRpcs \ {r}
    BY <2>1, Zenon
  <2>2. ASSUME NEW t, NEW ok, Advance(r, AppendReply(r, t, ok)) PROVE Calls
    <3>1. Shaped(AppendReply(r, t, ok).entries, AppendReply(r, t, ok).prev,
                 AppendReply(r, t, ok).term)
      BY <1>3, ShapedEmpty, Zenon
    <3> QED
      BY <2>2, <3>1, ShapeAdvance, Zenon
  <2> QED
    BY <1>1, <1>5, <2>1, <2>2, Zenon
<1>6. ASSUME Merges, Calls PROVE ShapeInv'
  <2>1. Shaped(merged, logBase[n], r.term)
    BY <1>2, <1>6, ShapeMerged, Zenon
  <2> DEFINE d == [term |-> r.term, vote |-> vote, log |-> merged]
  <2>2. d.term = r.term /\ d.log = merged
    BY Zenon
  <2>3. /\ r.term >= currentTerm[n]
        /\ currentTerm' = [currentTerm EXCEPT ![n] = r.term]
        /\ log' = [log EXCEPT ![n] = merged]
        /\ UNCHANGED <<logBase, diskSnap>>
        /\ UNCHANGED disk \/ disk' = [disk EXCEPT ![n] = d]
    BY <1>6, Zenon
  <2> HIDE DEF n, merged, d, Merges, Calls, off
  <2>4. \A m \in Server \ {n} :
           /\ log'[m] = log[m] /\ logBase'[m] = logBase[m]
           /\ currentTerm'[m] = currentTerm[m]
           /\ disk'[m] = disk[m] /\ diskSnap'[m] = diskSnap[m]
    BY <1>2, <2>3, Zenon
  <2>5. /\ log'[n] = merged /\ logBase'[n] = logBase[n] /\ currentTerm'[n] = r.term
        /\ disk'[n] = disk[n] \/ disk'[n] = d
    BY <1>2, <2>3, Zenon
  <2>6. WholeCompactions => diskSnap'[n].index = logBase[n]
    BY <1>2, <2>3, Zenon DEF ShapeInv
  <2> QED
    BY <1>2, <1>6, <2>1, <2>2, <2>4, <2>5, <2>6, ShapeNode, Zenon DEF Calls
<1>7. ASSUME Quiet, UNCHANGED <<log, logBase, disk, diskSnap>>, Calls
      PROVE  ShapeInv'
  <2>1. n \in Server /\ r.term \in Nat /\ currentTerm \in [Server -> Nat]
    BY <1>2, Zenon
  <2> HIDE DEF n
  <2>2. \A m \in Server : currentTerm[m] <= currentTerm'[m]
    <3>1. CASE UNCHANGED currentTerm
      BY ONLY <2>1, <3>1
    <3>2. CASE /\ r.term >= currentTerm[n]
               /\ currentTerm' = [currentTerm EXCEPT ![n] = r.term]
      <4>1. currentTerm[n] <= r.term
        BY ONLY <2>1, <3>2, Zenon
      <4> QED
        BY <2>1, <3>2, <4>1, OneTermRises, Zenon
    <3> QED
      BY <1>7, <3>1, <3>2, Zenon
  <2> QED
    BY <1>7, <2>2, ShapeQuiet, Zenon
<1> QED
  BY <1>1, <1>4, <1>5, <1>6, <1>7, Zenon

LEMMA ShapeReplicateCommand ==
  ASSUME StateTypeOK, ShapeInv, NEW n \in Server, NEW reached,
         ReplicateCommand(n, reached)
  PROVE  ShapeInv'
<1> DEFINE e   == [index |-> LastIndex(n) + 1, term |-> currentTerm[n],
                   cmd |-> submitted + 1]
           new == Append(log[n], e)
           d   == [term |-> currentTerm[n], vote |-> votedFor[n], log |-> new]
           i   == UpdateCommitIndex(n, new, matchIndex[n])
<1>1. /\ UNCHANGED <<logBase, diskSnap, currentTerm>>
      /\ \/ UNCHANGED <<log, disk, leaderRpcs>>
         \/ /\ disk' = [disk EXCEPT ![n] = d]
            /\ log' = [log EXCEPT ![n] = new]
            /\ Spawn(n, reached, i)
  BY Zenon DEF ReplicateCommand, Saved, SaveFails, electionVars
<1>2. CASE UNCHANGED <<log, disk, leaderRpcs>>
  BY <1>1, <1>2, Zenon DEF ShapeInv, Shaped
<1>3. CASE /\ disk' = [disk EXCEPT ![n] = d]
           /\ log' = [log EXCEPT ![n] = new]
           /\ Spawn(n, reached, i)
  <2>1. /\ log[n] \in Seq(Entry) /\ logBase[n] \in Nat /\ currentTerm[n] \in Nat
        /\ log \in [Server -> Seq(Entry)] /\ disk \in [Server -> File]
    BY ShapeTypes, Zenon DEF StateTypeOK, LogTypeOK, DiskTypeOK, File
  <2>2. e.index = logBase[n] + Len(log[n]) + 1 /\ e.term <= currentTerm[n]
    <3>1. e.index = logBase[n] + Len(log[n]) + 1 /\ e.term = currentTerm[n]
      BY Zenon DEF LastIndex
    <3> QED
      BY <2>1, <3>1, AtMostItself, Zenon
  <2>3. e \in Entry
    <3>1. submitted \in 0 .. MaxCommands /\ MaxCommands \in Nat
      BY BoundsAssumption, Zenon DEF StateTypeOK, ClientTypeOK
    <3>2. submitted + 1 \in Nat
      BY ONLY <3>1, SMTT(30)
    <3>3. LastIndex(n) + 1 \in Nat
      BY <2>1 DEF LastIndex
    <3> QED
      BY <2>1, <3>2, <3>3, Zenon DEF Entry
  <2>4. Shaped(new, logBase[n], currentTerm[n])
    <3>1. Shaped(log[n], logBase[n], currentTerm[n])
      BY Zenon DEF ShapeInv
    <3> HIDE DEF e
    <3> QED
      BY <2>1, <2>2, <2>3, <3>1, ShapedAppend, Zenon
  <2>5. d.log = new /\ d.term = currentTerm[n]
    BY Zenon
  <2> HIDE DEF e, new, d, i
  <2>6. \A m \in Server \ {n} :
           /\ log'[m] = log[m] /\ logBase'[m] = logBase[m]
           /\ currentTerm'[m] = currentTerm[m]
           /\ disk'[m] = disk[m] /\ diskSnap'[m] = diskSnap[m]
    BY <1>1, <1>3, <2>1, Zenon
  <2>7. /\ log'[n] = new /\ logBase'[n] = logBase[n]
        /\ currentTerm'[n] = currentTerm[n] /\ disk'[n] = d
    BY <1>1, <1>3, <2>1, Zenon
  <2>8. WholeCompactions => diskSnap'[n].index = logBase[n]
    BY <1>1, Zenon DEF ShapeInv
  <2>9. \A r \in leaderRpcs' : r \in leaderRpcs \/ Shaped(r.entries, r.prev, r.term)
    BY <1>3, ShapeSpawn, Zenon
  <2> QED
    BY <2>4, <2>5, <2>6, <2>7, <2>8, <2>9, ShapeNode, Zenon
<1> QED
  BY <1>1, <1>2, <1>3, Zenon

(* The two saves of a compaction: where they can fail or be cut short the  *)
(* places in the logs are not claimed.                                     *)
LEMMA ShapeCompacts ==
  ASSUME StateTypeOK, ShapeInv, NEW n \in Server, NEW t, NEW v, NEW l, NEW s,
         Compaction, Compact(n, s, l), Shaped(l, s.index, t), currentTerm'[n] = t,
         \A m \in Server \ {n} : currentTerm'[m] = currentTerm[m],
         \/ SavedBoth(n, t, v, l, s)
         \/ SaveFails /\ UNCHANGED diskSnap
         \/ SnapshotSaveFails(n, t, v, l),
         \A r \in leaderRpcs' : r \in leaderRpcs \/ Shaped(r.entries, r.prev, r.term)
  PROVE  ShapeInv'
<1> DEFINE d == [term |-> t, vote |-> v, log |-> l]
<1>1. /\ log' = [log EXCEPT ![n] = l] /\ logBase' = [logBase EXCEPT ![n] = s.index]
      /\ disk' = [disk EXCEPT ![n] = d] \/ UNCHANGED disk
      /\ diskSnap' = [diskSnap EXCEPT ![n] = s] \/ UNCHANGED diskSnap
      /\ \/ faults < MaxFaults
         \/ /\ disk' = [disk EXCEPT ![n] = d]
            /\ diskSnap' = [diskSnap EXCEPT ![n] = s]
  BY Zenon DEF Compact, SavedBoth, Saved, SaveFails, SnapshotSaveFails
<1>2. faults < MaxFaults => ~WholeCompactions
  <2>1. faults \in 0 .. MaxFaults
    BY Zenon DEF StateTypeOK, ClientTypeOK
  <2>2. faults < MaxFaults => MaxFaults # 0
    BY ONLY <2>1
  <2> QED
    BY <2>2, Zenon DEF WholeCompactions
<1>3. /\ DOMAIN log = Server /\ DOMAIN logBase = Server /\ DOMAIN disk = Server
      /\ DOMAIN diskSnap = Server
  BY Zenon DEF StateTypeOK, LogTypeOK, DiskTypeOK
<1>4. d.log = l /\ d.term = t
  BY Zenon
<1> HIDE DEF d
<1>5. \A m \in Server \ {n} :
         /\ log'[m] = log[m] /\ logBase'[m] = logBase[m]
         /\ disk'[m] = disk[m] /\ diskSnap'[m] = diskSnap[m]
  BY <1>1, <1>3, Zenon
<1>6. /\ log'[n] = l /\ logBase'[n] = s.index
      /\ disk'[n] = d \/ disk'[n] = disk[n]
      /\ WholeCompactions => disk'[n] = d /\ diskSnap'[n] = s
  BY <1>1, <1>2, <1>3, Zenon
<1>7. /\ \/ disk'[n] = disk[n] /\ (WholeCompactions => s.index = logBase[n])
         \/ disk'[n].log = l /\ disk'[n].term = t
      /\ WholeCompactions => diskSnap'[n].index = s.index
  BY <1>4, <1>6, Zenon
<1> QED
  BY <1>5, <1>6, <1>7, ShapeNode, Zenon

(* Where a snapshot cuts the log.                                          *)
LEMMA CutBounds ==
  ASSUME NEW base \in Nat, NEW last \in Nat, NEW i \in 1 .. last, i > base, NEW k \in Nat
  PROVE  /\ i \in Int /\ i - base + 1 \in Int /\ k \in Int
         /\ 1 <= i - base + 1 /\ k <= k /\ base + (i - base + 1) - 1 = i
  OBVIOUS

(* What Snapshot leaves of a log.                                          *)
LEMMA ShapeCut ==
  ASSUME StateTypeOK, ShapeInv, NEW n \in Server, NEW i \in 1 .. lastApplied[n],
         i > logBase[n]
  PROVE  Shaped(SubSeq(log[n], i - logBase[n] + 1, Len(log[n])), i, currentTerm[n])
<1> DEFINE a == i - logBase[n] + 1
           b == Len(log[n])
<1>1. /\ log[n] \in Seq(Entry) /\ logBase[n] \in Nat /\ currentTerm[n] \in Nat
      /\ Shaped(log[n], logBase[n], currentTerm[n])
  BY ShapeTypes, Zenon DEF ShapeInv
<1>2. /\ i \in Int /\ a \in Int /\ b \in Int /\ 1 <= a /\ b <= Len(log[n])
      /\ logBase[n] + a - 1 = i
  <2>1. lastApplied[n] \in Nat
    BY Zenon DEF StateTypeOK, LogTypeOK
  <2>2. Len(log[n]) \in Nat
    BY <1>1
  <2> QED
    BY <1>1, <2>1, <2>2, CutBounds, ZenonT(30)
<1> HIDE DEF a, b
<1>3. Shaped(SubSeq(log[n], a, b), logBase[n] + a - 1, currentTerm[n])
  BY <1>1, <1>2, ShapedSub, Zenon
<1> QED
  BY <1>2, <1>3, Zenon DEF a, b

LEMMA ShapeSnapshot ==
  ASSUME StateTypeOK, ShapeInv, NEW n \in Server, NEW i \in 1 .. lastApplied[n],
         Snapshot(n, i)
  PROVE  ShapeInv'
<1> DEFINE l == SubSeq(log[n], i - logBase[n] + 1, Len(log[n]))
           s == SnapshotAt(n, i)
<1>1. /\ CanSnapshot(n, i) /\ Compact(n, s, l)
      /\ \/ SavedBoth(n, currentTerm[n], votedFor[n], l, s)
         \/ SaveFails /\ UNCHANGED diskSnap
         \/ SnapshotSaveFails(n, currentTerm[n], votedFor[n], l)
      /\ UNCHANGED <<currentTerm, leaderRpcs>>
  BY Zenon DEF Snapshot, electionVars
<1>2. Compaction /\ i > logBase[n]
  BY <1>1, Zenon DEF CanSnapshot
<1>4. s.index = i
  BY Zenon DEF SnapshotAt
<1>5. Shaped(l, i, currentTerm[n])
  BY <1>2, ShapeCut, Zenon
<1> HIDE DEF l, s
<1> QED
  BY <1>1, <1>2, <1>4, <1>5, ShapeCompacts, Zenon

(* An installed snapshot lies ahead of everything the log had compacted.   *)
LEMMA ShapeInstalled ==
  ASSUME KeptInOrder, Intervals, StateTypeOK, IndexOrder, ShapeInv,
         NEW r \in leaderRpcs, r.term >= currentTerm[r.peer],
         ~Discards(r.peer, r.snap)
  PROVE  Shaped(TailAfter(log[r.peer], r.snap.index), r.snap.index, r.term)
<1> DEFINE n == r.peer
           i == r.snap.index
<1>1. /\ n \in Server /\ r.term \in Nat /\ i \in Nat /\ log[n] \in Seq(Entry)
      /\ logBase[n] \in Nat /\ currentTerm[n] \in Nat
  BY ShapeTypes, Zenon
<1>2. Shaped(log[n], logBase[n], r.term)
  <2>1. currentTerm[n] <= r.term
    BY ONLY <1>1, r.term >= currentTerm[n], Zenon
  <2>2. Shaped(log[n], logBase[n], currentTerm[n])
    BY <1>1, Zenon DEF ShapeInv
  <2> HIDE DEF n
  <2> QED
    BY <1>1, <2>1, <2>2, ShapedLater, Zenon
<1>3. logBase[n] <= i
  <2>1. lastApplied[n] \in Nat /\ commitIndex[n] \in Nat
    BY <1>1, Zenon DEF StateTypeOK, LogTypeOK
  <2>2. ~(i <= commitIndex[n])
    BY Zenon DEF Discards
  <2>3. logBase[n] <= lastApplied[n] /\ lastApplied[n] <= commitIndex[n]
    BY <1>1, Zenon DEF IndexOrder
  <2> QED
    BY ONLY <1>1, <2>1, <2>2, <2>3
<1> HIDE DEF n, i
<1>4. Shaped(TailAfter(log[n], i), i, r.term)
  BY <1>1, <1>2, <1>3, ShapedTail, Zenon
<1> QED
  BY <1>4, Zenon DEF n, i

LEMMA ShapeInstallSnapshot ==
  ASSUME KeptInOrder, Intervals, StateTypeOK, StateTypeOK', IndexOrder, ShapeInv,
         Compaction, NEW r \in leaderRpcs, InstallSnapshot(r)
  PROVE  ShapeInv'
<1> DEFINE n     == r.peer
           v     == IF r.term > currentTerm[n] THEN None ELSE votedFor[n]
           l     == TailAfter(log[n], r.snap.index)
           Calls == \A x \in leaderRpcs' :
                      x \in leaderRpcs \/ Shaped(x.entries, x.prev, x.term)
           Moves == /\ r.term >= currentTerm[n] /\ ~Discards(n, r.snap)
                    /\ currentTerm' = [currentTerm EXCEPT ![n] = r.term]
                    /\ Compact(n, r.snap, l)
                    /\ \/ SavedBoth(n, r.term, v, l, r.snap)
                       \/ SaveFails /\ UNCHANGED diskSnap
                       \/ SnapshotSaveFails(n, r.term, v, l)
           Quiet == /\ UNCHANGED <<log, logBase, disk, diskSnap>>
                    /\ \/ UNCHANGED currentTerm
                       \/ /\ r.term >= currentTerm[n]
                          /\ currentTerm' = [currentTerm EXCEPT ![n] = r.term]
<1>1. /\ leaderRpcs' = leaderRpcs \ {r} \/ \E t : InstallReply(r, t)
      /\ Moves \/ Quiet
  BY Zenon DEF InstallSnapshot, electionVars, logVars, diskVars
<1>2. n \in Server /\ r.term \in Nat /\ currentTerm \in [Server -> Nat]
  <2>1. n \in Server /\ r.term \in Nat
    BY ShapeTypes, Zenon
  <2> QED
    BY <2>1, Zenon DEF StateTypeOK, ElectionTypeOK
<1>3. Calls
  <2>1. CASE leaderRpcs' = leaderRpcs \ {r}
    BY <2>1, Zenon
  <2>2. ASSUME NEW t, InstallReply(r, t) PROVE Calls
    <3> DEFINE s == [r EXCEPT !.phase = "iresp", !.snap = NoSnap,
                              !.match = r.snap.index, !.rterm = t]
    <3>1. Advance(r, s)
      BY <2>2, Zenon DEF InstallReply
    <3>2. \E u : s = [r EXCEPT !.phase = "iresp", !.snap = NoSnap,
                               !.match = r.snap.index, !.rterm = u]
      BY Zenon
    <3> HIDE DEF s
    <3> QED
      BY <3>1, <3>2, ShapeSameCall, Zenon
  <2> QED
    BY <1>1, <2>1, <2>2, Zenon
<1>4. CASE Moves
  <2>1. Shaped(l, r.snap.index, r.term)
    BY <1>4, ShapeInstalled, Zenon
  <2>2. /\ currentTerm'[n] = r.term
        /\ \A m \in Server \ {n} : currentTerm'[m] = currentTerm[m]
    <3>1. currentTerm' = [currentTerm EXCEPT ![n] = r.term]
      BY <1>4, Zenon
    <3> HIDE DEF n
    <3> QED
      BY <1>2, <3>1, Zenon
  <2>3. /\ Compact(n, r.snap, l)
        /\ \/ SavedBoth(n, r.term, v, l, r.snap)
           \/ SaveFails /\ UNCHANGED diskSnap
           \/ SnapshotSaveFails(n, r.term, v, l)
    BY <1>4, Zenon
  <2> HIDE DEF n, v, l
  <2> QED
    BY <1>2, <1>3, <2>1, <2>2, <2>3, ShapeCompacts, Zenon
<1>5. CASE Quiet
  <2> HIDE DEF n
  <2>1. \A m \in Server : currentTerm[m] <= currentTerm'[m]
    <3>1. CASE UNCHANGED currentTerm
      BY ONLY <1>2, <3>1
    <3>2. CASE /\ r.term >= currentTerm[n]
               /\ currentTerm' = [currentTerm EXCEPT ![n] = r.term]
      <4>1. currentTerm[n] <= r.term
        BY ONLY <1>2, <3>2, Zenon
      <4> QED
        BY <1>2, <3>2, <4>1, OneTermRises, Zenon
    <3> QED
      BY <1>5, <3>1, <3>2, Zenon
  <2> QED
    BY <1>3, <1>5, <2>1, ShapeQuiet, Zenon
<1> QED
  BY <1>1, <1>4, <1>5, Zenon

(* A process that starts again after a crash inside a compaction: the      *)
(* places are not claimed, the terms are.                                  *)
LEMMA ShapeCrashes ==
  ASSUME KeptInOrder, Intervals, StateTypeOK, IndexOrder, ShapeInv,
         \/ \E n \in Server :
              Restart(n) \/ \E i \in 1 .. lastApplied[n] : CrashInSnapshot(n, i)
         \/ Compaction /\ \E r \in leaderRpcs : CrashInInstall(r)
  PROVE  ShapeInv'
<1>1. ASSUME NEW n \in Server, Restart(n) PROVE ShapeInv'
  <2>1. Reboot(n, disk[n], diskSnap[n], {})
    BY <1>1, Zenon DEF Restart
  <2> QED
    BY <2>1, ShapeRestart, Zenon
<1>2. restarts < MaxRestarts /\ Compaction => ~WholeCompactions
  <2>1. restarts \in 0 .. MaxRestarts
    BY Zenon DEF StateTypeOK, ClientTypeOK
  <2>2. restarts < MaxRestarts => MaxRestarts # 0
    BY ONLY <2>1
  <2> QED
    BY <2>2, Zenon DEF WholeCompactions
<1>3. ASSUME NEW n \in Server, NEW i \in 1 .. lastApplied[n], CrashInSnapshot(n, i)
      PROVE  ShapeInv'
  <2> DEFINE l == SubSeq(log[n], i - logBase[n] + 1, Len(log[n]))
             d == [term |-> currentTerm[n], vote |-> votedFor[n], log |-> l]
  <2>1. /\ restarts < MaxRestarts /\ CanSnapshot(n, i)
        /\ Reboot(n, d, diskSnap[n], {})
    BY <1>3, Zenon DEF CrashInSnapshot
  <2>2. d.log = l /\ d.term = currentTerm[n]
    BY Zenon
  <2>3. Compaction /\ i > logBase[n]
    BY <2>1, Zenon DEF CanSnapshot
  <2>4. Shaped(l, i, currentTerm[n])
    BY <2>3, ShapeCut, Zenon
  <2> HIDE DEF l, d
  <2>5. Shaped(d.log, diskSnap[n].index, d.term)
    BY <1>2, <2>1, <2>2, <2>3, <2>4, ShapedBase, Zenon
  <2> QED
    BY <2>1, <2>5, ShapeReboot, Zenon
<1>4. ASSUME Compaction, NEW r \in leaderRpcs, CrashInInstall(r)
      PROVE  ShapeInv'
  <2> DEFINE n == r.peer
             l == TailAfter(log[n], r.snap.index)
             d == [term |-> r.term,
                   vote |-> IF r.term > currentTerm[n] THEN None
                                                       ELSE votedFor[n],
                   log |-> l]
  <2>1. /\ restarts < MaxRestarts /\ r.term >= currentTerm[n]
        /\ ~Discards(n, r.snap) /\ Reboot(n, d, diskSnap[n], {r})
    BY <1>4, Zenon DEF CrashInInstall
  <2>2. d.log = l /\ d.term = r.term
    BY Zenon
  <2>3. n \in Server
    BY ShapeTypes, Zenon
  <2>4. Shaped(l, r.snap.index, r.term)
    BY <2>1, ShapeInstalled, Zenon
  <2> HIDE DEF n, l, d
  <2>5. Shaped(d.log, diskSnap[n].index, d.term)
    BY <1>2, <1>4, <2>1, <2>2, <2>4, ShapedBase, Zenon
  <2> QED
    BY <2>1, <2>3, <2>5, ShapeReboot, Zenon
<1> QED
  BY <1>1, <1>3, <1>4, Zenon

LEMMA ShapeStep ==
  ASSUME KeptInOrder, Intervals, StateTypeOK, StateTypeOK', IndexOrder,
         ~Compaction => Uncompacted, ShapeInv, [Next]_vars
  PROVE  ShapeInv'
<1>1. CASE UNCHANGED vars
  BY <1>1, Zenon DEF ShapeInv, Shaped, vars, electionVars, logVars, diskVars
<1>2. ASSUME NEW r \in leaderRpcs, InstallSnapshot(r) \/ CrashInInstall(r)
      PROVE  Compaction
  <2>1. r.phase = "ireq"
    BY <1>2, Zenon DEF InstallSnapshot, CrashInInstall
  <2> QED
    BY <2>1, Zenon DEF Uncompacted
<1>3. CASE Next
  BY <1>2, <1>3, ShapeElections, ShapeCalls, ShapeAppendEntries,
     ShapeReplicateCommand, ShapeSnapshot, ShapeInstallSnapshot, ShapeCrashes,
     Zenon DEF Next
<1> QED
  BY <1>1, <1>3, Zenon

LEMMA ShapeInit == Init => ShapeInv
<1> SUFFICES ASSUME Init PROVE ShapeInv
  BY Zenon
<1>1. \A n \in Server : log[n] = << >> /\ disk[n].log = << >>
  BY Zenon DEF Init
<1>2. \A n \in Server : diskSnap[n].index = logBase[n]
  BY Zenon DEF Init, NoSnap
<1>3. leaderRpcs = {}
  BY Zenon DEF Init
<1> QED
  BY <1>1, <1>2, <1>3, ShapedEmpty, Zenon DEF ShapeInv

(* What the two properties say.                                            *)
LEMMA ShapeImplies ==
  ASSUME ShapeInv
  PROVE  TermsBounded /\ (WholeCompactions => LogIndexed)
  BY Zenon DEF ShapeInv, Shaped, TermsBounded, LogIndexed
=============================================================================
