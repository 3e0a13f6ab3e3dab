------------------------- MODULE RaftElectionProofs -------------------------
(***************************************************************************)
(* Elections are safe in every cluster of odd size, for every number of    *)
(* terms, restarts and concurrent calls, while nothing is compacted, no    *)
(* crash loses a vote that was given (DurableRestarts) and no election     *)
(* timeout falls between winning and becomeLeader (PromptPromotion).       *)
(* And the cluster is never silent: until a save fails some node leads or  *)
(* has its election timer armed.                                           *)
(***************************************************************************)
EXTENDS RaftInvariants, TLAPS

-----------------------------------------------------------------------------
(* What a step that gives no vote, counts none and elects nobody preserves *)

(* A node that forgets its vote has moved to a later term.                 *)
VotesKept ==
    \A n \in Server : currentTerm'[n] = currentTerm[n] => votedFor'[n] = votedFor[n]

(* Whoever is a candidate now has been one before, in the same election.   *)
CampaignsKept ==
    \A n \in Server : state'[n] = Candidate =>
        /\ state[n] = Candidate /\ currentTerm'[n] = currentTerm[n]
        /\ votesReceived'[n] = votesReceived[n] /\ voters'[n] = voters[n]
        /\ promoting'[n] = promoting[n]

(* The calls of candidates end, or one of them moves on.                   *)
SameCall(r, s) == r.cand = s.cand /\ r.peer = s.peer /\ r.term = s.term

CallsKept ==
    \/ voteRpcs' \subseteq voteRpcs
    \/ \E r \in voteRpcs : \E s \in VoteRpc :
         /\ voteRpcs' = (voteRpcs \ {r}) \cup {s}
         /\ SameCall(r, s)
         /\ s.phase = "resp" /\ s.granted
              => <<s.peer, s.term, s.cand>> \in ballots'

LEMMA MajorityMonotonic ==
  ASSUME Counting, NEW S \in SUBSET Server, NEW T \in SUBSET Server,
         S \subseteq T, Majority(S)
  PROVE  Majority(T)
  BY Zenon DEF Counting

(* Votes are never taken back, so a majority stays one.                    *)
LEMMA MajoritiesKept ==
  ASSUME Counting, LeaderHasMajority, ballots \subseteq ballots', UNCHANGED elected
  PROVE  LeaderHasMajority'
<1> SUFFICES ASSUME NEW e \in elected PROVE Majority(Supporters(e)')
  BY Zenon DEF LeaderHasMajority, Majority
<1>1. Supporters(e) \subseteq Supporters(e)'
  BY Zenon DEF Supporters
<1>2. Supporters(e) \in SUBSET Server /\ Supporters(e)' \in SUBSET Server
  BY Zenon DEF Supporters
<1> QED
  BY <1>1, <1>2, MajorityMonotonic, Zenon DEF LeaderHasMajority

LEMMA BallotsKept ==
  ASSUME StateTypeOK, StateTypeOK', VoteOnce, BallotsCurrent, UNCHANGED ballots,
         TermsRise, VotesKept
  PROVE  VoteOnce' /\ BallotsCurrent'
<1>1. VoteOnce'
  BY Zenon DEF VoteOnce
<1>2. BallotsCurrent'
  <2> SUFFICES ASSUME NEW b \in ballots
               PROVE  /\ b[2] <= currentTerm'[b[1]]
                      /\ b[2] = currentTerm'[b[1]] => votedFor'[b[1]] = b[3]
    BY Zenon DEF BallotsCurrent
  <2>1. b[1] \in Server /\ b[2] \in Nat
    BY Zenon DEF StateTypeOK, HistoryTypeOK
  <2>2. currentTerm[b[1]] \in Nat /\ currentTerm'[b[1]] \in Nat
    BY <2>1, Zenon DEF StateTypeOK, ElectionTypeOK
  <2> QED
    BY <2>1, <2>2 DEF BallotsCurrent, TermsRise, VotesKept
<1> QED
  BY <1>1, <1>2, Zenon

LEMMA CallsKeptInv ==
  ASSUME StateTypeOK, StateTypeOK', CallInv, ballots \subseteq ballots', TermsRise, CallsKept
  PROVE  CallInv'
<1>1. \A r \in voteRpcs : r \in VoteRpc /\ r.cand \in Server /\ r.term \in Nat
  BY Zenon DEF StateTypeOK, NetworkTypeOK, VoteRpc
<1>2. \A n \in Server : currentTerm[n] \in Nat /\ currentTerm'[n] \in Nat
  BY Zenon DEF StateTypeOK, ElectionTypeOK
<1>3. \A r \in voteRpcs : r.term <= currentTerm'[r.cand]
  <2> TAKE r \in voteRpcs
  <2>1. r.term <= currentTerm[r.cand]
    BY Zenon DEF CallInv
  <2>2. currentTerm[r.cand] <= currentTerm'[r.cand]
    BY <1>1, Zenon DEF TermsRise
  <2> QED
    BY <1>1, <1>2, <2>1, <2>2
<1>4. CASE voteRpcs' \subseteq voteRpcs
  BY <1>3, <1>4, Zenon DEF CallInv
<1>5. ASSUME NEW r \in voteRpcs, NEW s \in VoteRpc,
             voteRpcs' = (voteRpcs \ {r}) \cup {s}, SameCall(r, s),
             s.phase = "resp" /\ s.granted
               => <<s.peer, s.term, s.cand>> \in ballots'
      PROVE  CallInv'
  <2>1. s.peer # s.cand /\ s.term <= currentTerm'[s.cand]
    BY <1>3, <1>5, Zenon DEF CallInv, SameCall
  <2>2. \A x \in voteRpcs' :
          /\ x.peer # x.cand /\ x.term <= currentTerm'[x.cand]
          /\ x.phase = "resp" /\ x.granted => <<x.peer, x.term, x.cand>> \in ballots'
    BY <1>3, <1>5, <2>1, Zenon DEF CallInv
  <2>3. \A x \in voteRpcs \ {r} : ~SameCall(x, s)
    BY <1>5, Zenon DEF CallInv, SameCall
  <2>4. \A x, y \in voteRpcs' : SameCall(x, y) => x = y
    BY <1>5, <2>3 DEF CallInv, SameCall
  <2> QED
    BY <2>2, <2>4, Zenon DEF CallInv, SameCall
<1> QED
  BY <1>4, <1>5, Zenon DEF CallsKept

LEMMA TallyKept ==
  ASSUME TallyInv, ballots \subseteq ballots', CampaignsKept, CallsKept
  PROVE  TallyInv'
<1> SUFFICES ASSUME NEW n \in Server, state'[n] = Candidate
             PROVE  /\ n \in voters'[n] /\ votesReceived'[n] = Cardinality(voters'[n])
                    /\ \A v \in voters'[n] : <<v, currentTerm'[n], n>> \in ballots'
                    /\ \A r \in voteRpcs' :
                         r.cand = n /\ r.term = currentTerm'[n] => r.peer \notin voters'[n]
                    /\ promoting'[n] > 0 => Majority(voters'[n])
  BY Zenon DEF TallyInv, Majority
<1>1. /\ state[n] = Candidate /\ currentTerm'[n] = currentTerm[n]
      /\ votesReceived'[n] = votesReceived[n] /\ voters'[n] = voters[n]
      /\ promoting'[n] = promoting[n]
  BY Zenon DEF CampaignsKept
<1>2. \A s \in voteRpcs' : \E r \in voteRpcs : SameCall(r, s)
  BY Zenon DEF CallsKept, SameCall
<1> QED
  BY <1>1, <1>2 DEF TallyInv, SameCall

(* A step of any of these kinds preserves the invariant.                   *)
LEMMA QuietStep ==
  ASSUME Counting, StateTypeOK, StateTypeOK', ElectionInv,
         UNCHANGED <<ballots, elected>>, TermsRise, VotesKept, CampaignsKept, CallsKept
  PROVE  ElectionInv'
  BY MajoritiesKept, BallotsKept, CallsKeptInv, TallyKept, Zenon DEF ElectionInv

-----------------------------------------------------------------------------
(* The steps of elections                                                  *)

LEMMA ElectionInit == Init => ElectionInv
  BY Zenon DEF Init, ElectionInv, VoteOnce, BallotsCurrent, CallInv, TallyInv,
         LeaderHasMajority, Follower, Candidate

LEMMA StepBecomeCandidate ==
  ASSUME Counting, PromptPromotion, StateTypeOK, StateTypeOK', ElectionInv,
         NEW n \in Server, NEW reached \in SUBSET Peers(n),
         BecomeCandidate(n, reached)
  PROVE  ElectionInv'
<1> DEFINE t == currentTerm[n] + 1
           Call(p) == [cand |-> n, peer |-> p, term |-> t, phase |-> "call",
                       lastIdx |-> 0, lastTerm |-> 0, rterm |-> 0,
                       granted |-> FALSE]
<1>1. /\ promoting[n] = 0
      /\ state' = [state EXCEPT ![n] = Candidate]
      /\ currentTerm' = [currentTerm EXCEPT ![n] = t]
      /\ votedFor' = [votedFor EXCEPT ![n] = n]
      /\ votesReceived' = [votesReceived EXCEPT ![n] = 1]
      /\ ballots' = ballots \cup {<<n, t, n>>}
      /\ voters' = [voters EXCEPT ![n] = {n}]
      /\ \/ voteRpcs' = voteRpcs \cup {Call(p) : p \in reached}
         \/ voteRpcs' = voteRpcs
      /\ \/ promoting' = [promoting EXCEPT ![n] = IF Peers(n) = {} THEN @ + 1 ELSE @]
         \/ promoting' = promoting
      /\ elected' = elected
  BY Zenon DEF BecomeCandidate
<1>2. \A m \in Server : currentTerm[m] \in Nat
  BY Zenon DEF StateTypeOK, ElectionTypeOK
<1>3. t \in Nat /\ t > currentTerm[n] /\ TermsRise
  BY <1>1, <1>2 DEF TermsRise, StateTypeOK, ElectionTypeOK
<1>4. \A b \in ballots : b \in Server \X Nat \X Server
  BY Zenon DEF StateTypeOK, HistoryTypeOK
<1>5. \A r \in voteRpcs : r \in VoteRpc /\ r.cand \in Server /\ r.term \in Nat
  BY Zenon DEF StateTypeOK, NetworkTypeOK, VoteRpc
<1>6. \A p \in reached : /\ Call(p).cand = n /\ Call(p).peer = p /\ Call(p).term = t
                         /\ Call(p).phase = "call" /\ p # n
  BY Zenon DEF Peers
<1> HIDE DEF t, Call
<1>7. \A b \in ballots : b[1] = n => b[2] < t
  BY <1>2, <1>3, <1>4 DEF ElectionInv, BallotsCurrent
<1>8. VoteOnce'
  BY <1>1, <1>3, <1>4, <1>7 DEF ElectionInv, VoteOnce
<1>9. BallotsCurrent'
  <2> SUFFICES ASSUME NEW b \in ballots'
               PROVE  /\ b[2] <= currentTerm'[b[1]]
                      /\ b[2] = currentTerm'[b[1]] => votedFor'[b[1]] = b[3]
    BY Zenon DEF BallotsCurrent
  <2>1. CASE b = <<n, t, n>>
    BY <2>1, <1>1, <1>3 DEF StateTypeOK, ElectionTypeOK
  <2>2. CASE b \in ballots /\ b[1] = n
    BY <2>2, <1>1, <1>3, <1>4, <1>7 DEF StateTypeOK, ElectionTypeOK
  <2>3. CASE b \in ballots /\ b[1] # n
    BY <2>3, <1>1, <1>4, Zenon
       DEF StateTypeOK, ElectionTypeOK, ElectionInv, BallotsCurrent
  <2> QED
    BY <1>1, <2>1, <2>2, <2>3, Zenon
<1>10. \A r \in voteRpcs : r.cand = n => r.term < t
  <2> SUFFICES ASSUME NEW r \in voteRpcs, r.cand = n PROVE r.term < t
    BY Zenon
  <2>1. r.term <= currentTerm[n]
    BY Zenon DEF ElectionInv, CallInv
  <2> QED
    BY <1>2, <1>3, <1>5, <2>1
<1>11. CallInv'
  <2>1. \A r \in voteRpcs :
          /\ r.peer # r.cand /\ r.term <= currentTerm'[r.cand]
          /\ r.phase = "resp" /\ r.granted => <<r.peer, r.term, r.cand>> \in ballots'
    <3> TAKE r \in voteRpcs
    <3>1. r.term <= currentTerm[r.cand] /\ currentTerm[r.cand] <= currentTerm'[r.cand]
      BY <1>3, <1>5, Zenon DEF ElectionInv, CallInv, TermsRise
    <3>2. currentTerm'[r.cand] \in Nat
      BY <1>5, Zenon DEF StateTypeOK, ElectionTypeOK
    <3> QED
      BY <1>1, <1>2, <1>5, <3>1, <3>2 DEF ElectionInv, CallInv
  <2>2. currentTerm'[n] = t
    BY <1>1, Zenon DEF StateTypeOK, ElectionTypeOK
  <2>3. \A p \in reached : /\ Call(p).peer # Call(p).cand
                           /\ Call(p).term <= currentTerm'[Call(p).cand]
                           /\ Call(p).phase # "resp"
    BY <1>3, <1>6, <2>2
  <2>4. \A p \in reached : \A r \in voteRpcs : ~SameCall(r, Call(p))
    BY <1>3, <1>5, <1>6, <1>10 DEF SameCall
  <2>5. \A p, q \in reached : SameCall(Call(p), Call(q)) => Call(p) = Call(q)
    BY <1>6 DEF SameCall
  <2>6. \A r, s \in voteRpcs : SameCall(r, s) => r = s
    BY Zenon DEF ElectionInv, CallInv, SameCall
  <2>7. \A r, s \in voteRpcs' : SameCall(r, s) => r = s
    BY <1>1, <2>4, <2>5, <2>6 DEF SameCall
  <2>8. \A r \in voteRpcs' :
          /\ r.peer # r.cand /\ r.term <= currentTerm'[r.cand]
          /\ r.phase = "resp" /\ r.granted => <<r.peer, r.term, r.cand>> \in ballots'
    BY <1>1, <2>1, <2>3, Zenon
  <2> QED
    BY <2>7, <2>8, Zenon DEF CallInv, SameCall
<1>12. TallyInv'
  <2> SUFFICES ASSUME NEW m \in Server, state'[m] = Candidate
               PROVE  /\ m \in voters'[m] /\ votesReceived'[m] = Cardinality(voters'[m])
                      /\ \A v \in voters'[m] : <<v, currentTerm'[m], m>> \in ballots'
                      /\ \A r \in voteRpcs' :
                           r.cand = m /\ r.term = currentTerm'[m] => r.peer \notin voters'[m]
                      /\ promoting'[m] > 0 => Majority(voters'[m])
    BY Zenon DEF TallyInv, Majority
  <2>1. CASE m = n
    <3>1. /\ voters'[n] = {n} /\ votesReceived'[n] = 1 /\ currentTerm'[n] = t
          /\ promoting'[n] > 0 => Peers(n) = {}
      BY <1>1 DEF StateTypeOK, ElectionTypeOK, HistoryTypeOK
    <3>2. Cardinality({n}) = 1
      <4>1. {} \in SUBSET Server /\ n \in Server \ {} /\ {} \cup {n} = {n}
        BY Zenon
      <4>2. Cardinality({n}) = 0 + 1
        BY <4>1, Zenon DEF Counting
      <4> QED
        BY ONLY <4>2
    <3>3. \A r \in voteRpcs' : r.cand = n /\ r.term = t => r.peer # n
      BY <1>11, Zenon DEF CallInv
    <3>4. Peers(n) = {} => Majority({n})
      <4>1. Peers(n) = {} => Server = {n}
        BY Zenon DEF Peers
      <4> QED
        BY <4>1, <3>2 DEF Majority
    <3>5. /\ n \in voters'[n] /\ votesReceived'[n] = Cardinality(voters'[n])
          /\ \A v \in voters'[n] : <<v, currentTerm'[n], n>> \in ballots'
      <4>1. <<n, t, n>> \in ballots'
        BY <1>1, Zenon
      <4> QED
        BY <3>1, <3>2, <4>1, Zenon
    <3>6. \A r \in voteRpcs' :
            r.cand = n /\ r.term = currentTerm'[n] => r.peer \notin voters'[n]
      BY <3>1, <3>3, Zenon
    <3>7. promoting'[n] > 0 => Majority(voters'[n])
      BY <3>1, <3>4, Zenon
    <3> QED
      BY <2>1, <3>5, <3>6, <3>7, Zenon
  <2>2. CASE m # n
    <3>1. /\ state[m] = Candidate /\ voters'[m] = voters[m]
          /\ votesReceived'[m] = votesReceived[m] /\ currentTerm'[m] = currentTerm[m]
          /\ promoting'[m] = promoting[m]
      BY <2>2, <1>1 DEF StateTypeOK, ElectionTypeOK, HistoryTypeOK
    <3>2. \A r \in voteRpcs' : r.cand = m => r \in voteRpcs
      BY <2>2, <1>1, <1>6
    <3> QED
      BY <1>1, <3>1, <3>2 DEF ElectionInv, TallyInv
  <2> QED
    BY <2>1, <2>2, Zenon
<1>13. LeaderHasMajority'
  BY <1>1, MajoritiesKept, Zenon DEF ElectionInv
<1> QED
  BY <1>8, <1>9, <1>11, <1>12, <1>13, Zenon DEF ElectionInv

LEMMA VoteRequestCall ==
  ASSUME NEW r \in VoteRpc, NEW last
  PROVE  SameCall(r, VoteRequest(r, last)) /\ VoteRequest(r, last).phase = "req"
  BY Zenon DEF VoteRequest, VoteRpc, SameCall

LEMMA VoteReplyCall ==
  ASSUME NEW r \in VoteRpc, NEW t, NEW g
  PROVE  SameCall(r, VoteReply(r, t, g)) /\ VoteReply(r, t, g).granted = g
  BY Zenon DEF VoteReply, VoteRpc, SameCall

LEMMA StepSendRequestVote ==
  ASSUME Counting, StateTypeOK, StateTypeOK', ElectionInv, NEW r \in voteRpcs, SendRequestVote(r)
  PROVE  ElectionInv'
<1> DEFINE s == VoteRequest(r, LastLogInfo(log[r.cand]))
<1>1. /\ voteRpcs' = (voteRpcs \ {r}) \cup {s}
      /\ UNCHANGED <<currentTerm, votedFor, state, votesReceived, promoting>>
      /\ UNCHANGED <<ballots, elected, voters>>
  BY Zenon DEF SendRequestVote, electionVars, historyVars
<1>2. r \in VoteRpc /\ s \in VoteRpc
  BY <1>1, Zenon DEF StateTypeOK, NetworkTypeOK
<1>3. SameCall(r, s) /\ s.phase = "req"
  BY <1>2, VoteRequestCall, Zenon
<1> HIDE DEF s
<1>4. CallsKept
  BY <1>1, <1>2, <1>3, Zenon DEF CallsKept
<1>5. TermsRise /\ VotesKept /\ CampaignsKept
  BY <1>1 DEF TermsRise, VotesKept, CampaignsKept, StateTypeOK, ElectionTypeOK
<1> QED
  BY <1>1, <1>4, <1>5, QuietStep, Zenon

LEMMA StepRequestVote ==
  ASSUME Counting, StateTypeOK, StateTypeOK', ElectionInv, NEW r \in voteRpcs, RequestVote(r)
  PROVE  ElectionInv'
<1> DEFINE n     == r.peer
           newer == r.term > currentTerm[n]
           term  == IF newer THEN r.term ELSE currentTerm[n]
           vote  == IF newer THEN None ELSE votedFor[n]
<1>1. /\ r \in VoteRpc /\ n \in Server /\ r.cand \in Server /\ r.term \in Nat
      /\ currentTerm[n] \in Nat
  BY Zenon DEF StateTypeOK, NetworkTypeOK, VoteRpc, ElectionTypeOK
<1>2. /\ currentTerm' = [currentTerm EXCEPT ![n] = term]
      /\ state' = [state EXCEPT ![n] = IF newer THEN Follower ELSE @]
      /\ UNCHANGED <<votesReceived, promoting, voters, elected>>
  BY Zenon DEF RequestVote
<1>3. \/ /\ voteRpcs' = (voteRpcs \ {r}) \cup {VoteReply(r, term, FALSE)}
         /\ votedFor' = [votedFor EXCEPT ![n] = vote]
         /\ ballots' = ballots
      \/ /\ voteRpcs' = voteRpcs \ {r}
         /\ votedFor' = [votedFor EXCEPT ![n] = vote]
         /\ ballots' = ballots
      \/ /\ voteRpcs' = (voteRpcs \ {r}) \cup {VoteReply(r, term, TRUE)}
         /\ votedFor' = [votedFor EXCEPT ![n] = r.cand]
         /\ ballots' = ballots \cup {<<n, term, r.cand>>}
         /\ r.term >= currentTerm[n] /\ MayVote(vote, r.cand)
  BY Zenon DEF RequestVote
<1>4. \A m \in Server : currentTerm[m] \in Nat /\ currentTerm'[m] \in Nat
  BY Zenon DEF StateTypeOK, ElectionTypeOK
<1>5. TermsRise
  BY <1>1, <1>2, <1>4 DEF TermsRise, StateTypeOK, ElectionTypeOK
<1>6. CampaignsKept
  <2> SUFFICES ASSUME NEW m \in Server, state'[m] = Candidate
               PROVE  state[m] = Candidate /\ currentTerm'[m] = currentTerm[m]
    BY <1>2, Zenon DEF CampaignsKept
  <2>1. CASE m = n
    BY <2>1, <1>1, <1>2, Zenon DEF StateTypeOK, ElectionTypeOK, Follower, Candidate
  <2>2. CASE m # n
    BY <2>2, <1>1, <1>2, Zenon DEF StateTypeOK, ElectionTypeOK
  <2> QED
    BY <2>1, <2>2, Zenon
<1>7. CASE /\ votedFor' = [votedFor EXCEPT ![n] = vote]
           /\ ballots' = ballots
           /\ \/ voteRpcs' = voteRpcs \ {r}
              \/ voteRpcs' = (voteRpcs \ {r}) \cup {VoteReply(r, term, FALSE)}
  <2>1. VotesKept
    BY <1>1, <1>2, <1>7 DEF VotesKept, StateTypeOK, ElectionTypeOK
  <2>2. CallsKept
    <3>1. CASE voteRpcs' = voteRpcs \ {r}
      BY <3>1, Zenon DEF CallsKept
    <3>2. CASE voteRpcs' = (voteRpcs \ {r}) \cup {VoteReply(r, term, FALSE)}
      <4>1. VoteReply(r, term, FALSE) \in VoteRpc
        BY <3>2, Zenon DEF StateTypeOK, NetworkTypeOK
      <4>2. /\ SameCall(r, VoteReply(r, term, FALSE))
            /\ VoteReply(r, term, FALSE).granted = FALSE
        BY <1>1, VoteReplyCall, Zenon
      <4> QED
        BY <3>2, <4>1, <4>2, Zenon DEF CallsKept
    <3> QED
      BY <1>7, <3>1, <3>2, Zenon
  <2> QED
    BY <1>2, <1>5, <1>6, <1>7, <2>1, <2>2, QuietStep, Zenon
<1>8. CASE /\ voteRpcs' = (voteRpcs \ {r}) \cup {VoteReply(r, term, TRUE)}
           /\ votedFor' = [votedFor EXCEPT ![n] = r.cand]
           /\ ballots' = ballots \cup {<<n, term, r.cand>>}
           /\ r.term >= currentTerm[n] /\ MayVote(vote, r.cand)
  <2>1. term = r.term
    BY <1>1, <1>8
  <2>2. CallsKept
    <3>1. VoteReply(r, term, TRUE) \in VoteRpc
      BY <1>8, Zenon DEF StateTypeOK, NetworkTypeOK
    <3>2. SameCall(r, VoteReply(r, term, TRUE))
      BY <1>1, VoteReplyCall, Zenon
    <3>3. LET s == VoteReply(r, term, TRUE)
          IN  <<s.peer, s.term, s.cand>> \in ballots'
      BY <1>8, <2>1, <3>2, Zenon DEF SameCall
    <3> QED
      BY <1>8, <3>1, <3>2, <3>3, Zenon DEF CallsKept
  <2>3. \A b \in ballots : /\ b[1] \in Server /\ b[2] \in Nat /\ b[3] \in Server
                           /\ b = <<b[1], b[2], b[3]>>
    BY DEF StateTypeOK, HistoryTypeOK
  <2>4. \A b \in ballots : b[1] = n => /\ b[2] <= term
                                       /\ b[2] = term => b[3] = r.cand
    <3> SUFFICES ASSUME NEW b \in ballots, b[1] = n
                 PROVE  b[2] <= term /\ (b[2] = term => b[3] = r.cand)
      BY Zenon
    <3>1. b[2] <= currentTerm[n] /\ (b[2] = currentTerm[n] => votedFor[n] = b[3])
      BY Zenon DEF ElectionInv, BallotsCurrent
    <3>2. CASE newer
      BY <3>1, <3>2, <2>3, <1>1
    <3>3. CASE ~newer
      BY <3>1, <3>3, <2>3, <1>1, <1>8, ServerAssumption, Zenon DEF MayVote
    <3> QED
      BY <3>2, <3>3, Zenon
  <2> HIDE DEF n, newer, term, vote
  <2>5. VoteOnce'
    BY <1>8, <2>3, <2>4 DEF ElectionInv, VoteOnce
  <2>6. BallotsCurrent'
    <3> SUFFICES ASSUME NEW b \in ballots'
                 PROVE  /\ b[2] <= currentTerm'[b[1]]
                        /\ b[2] = currentTerm'[b[1]] => votedFor'[b[1]] = b[3]
      BY Zenon DEF BallotsCurrent
    <3>1. currentTerm'[n] = term /\ votedFor'[n] = r.cand /\ term \in Nat
      BY <1>1, <1>2, <1>8, <2>1, Zenon DEF StateTypeOK, ElectionTypeOK
    <3>2. CASE b = <<n, term, r.cand>>
      BY <3>1, <3>2
    <3>3. CASE b \in ballots /\ b[1] = n
      BY <3>1, <3>3, <2>3, <2>4, Zenon
    <3>4. CASE b \in ballots /\ b[1] # n
      BY <3>4, <1>1, <1>2, <1>8, <2>3, Zenon
         DEF StateTypeOK, ElectionTypeOK, ElectionInv, BallotsCurrent
    <3> QED
      BY <1>8, <3>2, <3>3, <3>4, Zenon
  <2>7. ballots \subseteq ballots' /\ UNCHANGED elected
    BY <1>2, <1>8, Zenon
  <2> QED
    BY <1>5, <1>6, <2>2, <2>5, <2>6, <2>7, MajoritiesKept, CallsKeptInv,
       TallyKept, Zenon DEF ElectionInv
<1> QED
  BY <1>3, <1>7, <1>8, Zenon

(* The test votesReceived > len(peers)/2 finds a majority of an odd number *)
(* of nodes.                                                               *)
LEMMA EnoughVotes ==
  ASSUME Counting, OddCluster, NEW n \in Server, NEW S \in SUBSET Server,
         Cardinality(S) > Cardinality(Peers(n)) \div 2
  PROVE  Majority(S)
<1>1. PICK k \in Nat : Cardinality(Server) = 2 * k + 1
  BY Zenon DEF OddCluster
<1>2. Cardinality(Peers(n)) = 2 * k
  <2>1. /\ Peers(n) \in SUBSET Server /\ n \in Server \ Peers(n)
        /\ Peers(n) \cup {n} = Server
    BY Zenon DEF Peers
  <2>2. /\ Cardinality(Peers(n)) \in Nat
        /\ Cardinality(Peers(n) \cup {n}) = Cardinality(Peers(n)) + 1
    BY <2>1, Zenon DEF Counting
  <2>3. Cardinality(Server) = Cardinality(Peers(n)) + 1
    BY <2>1, <2>2, Zenon
  <2> QED
    BY ONLY <1>1, <2>2, <2>3
<1>3. Cardinality(S) \in Nat
  BY Zenon DEF Counting
<1> QED
  BY <1>1, <1>2, <1>3 DEF Majority

LEMMA StepHandleVoteReply ==
  ASSUME Counting, OddCluster, StateTypeOK, StateTypeOK', ElectionInv,
         NEW r \in voteRpcs, HandleVoteReply(r)
  PROVE  ElectionInv'
<1> DEFINE n == r.cand
<1>1. /\ r \in VoteRpc /\ n \in Server /\ r.peer \in Server /\ r.term \in Nat
      /\ r.rterm \in Nat /\ currentTerm[n] \in Nat /\ votesReceived[n] \in Nat
  BY Zenon DEF StateTypeOK, NetworkTypeOK, VoteRpc, ElectionTypeOK
<1>2. voteRpcs' = voteRpcs \ {r} /\ UNCHANGED <<ballots, elected>>
  BY Zenon DEF HandleVoteReply
<1>3. CallsKept
  BY <1>2, Zenon DEF CallsKept
<1>4. CASE UNCHANGED <<electionVars, voters>>
  <2>1. TermsRise /\ VotesKept /\ CampaignsKept
    BY <1>4 DEF TermsRise, VotesKept, CampaignsKept, electionVars, StateTypeOK,
       ElectionTypeOK
  <2> QED
    BY <1>2, <1>3, <2>1, QuietStep, Zenon
<1>5. CASE /\ r.rterm > currentTerm[n] /\ StepDown(n, r.rterm)
           /\ UNCHANGED <<promoting, voters>>
  <2>1. TermsRise /\ VotesKept /\ CampaignsKept
    BY <1>1, <1>5 DEF TermsRise, VotesKept, CampaignsKept, StepDown, StateTypeOK,
       ElectionTypeOK, Follower, Candidate
  <2> QED
    BY <1>2, <1>3, <2>1, QuietStep, Zenon
<1>6. CASE /\ VoteCounts(r) /\ r.phase = "resp" /\ r.granted
           /\ votesReceived' = [votesReceived EXCEPT ![n] = votesReceived[n] + 1]
           /\ voters' = [voters EXCEPT ![n] = @ \cup {r.peer}]
           /\ promoting' = [promoting EXCEPT ![n] =
                IF votesReceived[n] + 1 > Cardinality(Peers(n)) \div 2
                  THEN @ + 1 ELSE @]
           /\ UNCHANGED <<currentTerm, votedFor, state>>
  <2>1. currentTerm[n] = r.term /\ state[n] = Candidate
    BY <1>6, Zenon DEF VoteCounts
  <2>2. TermsRise /\ VotesKept
    BY <1>6 DEF TermsRise, VotesKept, StateTypeOK, ElectionTypeOK
  <2>3. VoteOnce' /\ BallotsCurrent' /\ CallInv' /\ LeaderHasMajority'
    BY <1>2, <1>3, <2>2, BallotsKept, CallsKeptInv, MajoritiesKept, Zenon
       DEF ElectionInv
  <2>4. r.peer \notin voters[n] /\ <<r.peer, currentTerm[n], n>> \in ballots
    <3>1. r.peer \notin voters[n]
      BY <1>1, <2>1, Zenon DEF ElectionInv, TallyInv
    <3>2. <<r.peer, r.term, r.cand>> \in ballots
      BY <1>6, Zenon DEF ElectionInv, CallInv
    <3> QED
      BY <2>1, <3>1, <3>2, Zenon
  <2>5. /\ n \in voters[n] /\ votesReceived[n] = Cardinality(voters[n])
        /\ \A v \in voters[n] : <<v, currentTerm[n], n>> \in ballots
        /\ \A q \in voteRpcs :
             q.cand = n /\ q.term = currentTerm[n] => q.peer \notin voters[n]
        /\ promoting[n] > 0 => Majority(voters[n])
    BY <1>1, <2>1, Zenon DEF ElectionInv, TallyInv
  <2>6. /\ voters[n] \in SUBSET Server /\ voters'[n] = voters[n] \cup {r.peer}
        /\ votesReceived'[n] = votesReceived[n] + 1
    BY <1>1, <1>6, Zenon DEF StateTypeOK, HistoryTypeOK, ElectionTypeOK
  <2>7. votesReceived'[n] = Cardinality(voters'[n])
    <3>1. r.peer \in Server \ voters[n]
      BY <1>1, <2>4, Zenon
    <3>2. Cardinality(voters[n] \cup {r.peer}) = Cardinality(voters[n]) + 1
      BY <2>6, <3>1, Zenon DEF Counting
    <3> QED
      BY <3>2, <2>5, <2>6, Zenon
  <2>8. \A q \in voteRpcs' :
          q.cand = n /\ q.term = currentTerm[n] => q.peer \notin voters'[n]
    <3> SUFFICES ASSUME NEW q \in voteRpcs', q.cand = n, q.term = currentTerm[n]
                 PROVE  q.peer \notin voters'[n]
      BY Zenon
    <3>1. q \in voteRpcs /\ q # r
      BY <1>2, Zenon
    <3>2. q.peer # r.peer
      BY <3>1, <2>1, Zenon DEF ElectionInv, CallInv
    <3> QED
      BY <3>1, <3>2, <2>5, <2>6, Zenon
  <2>9. promoting'[n] > 0 => Majority(voters'[n])
    <3>1. voters'[n] \in SUBSET Server
      BY <1>1, <2>6, Zenon
    <3>2. CASE votesReceived[n] + 1 > Cardinality(Peers(n)) \div 2
      BY <3>1, <3>2, <1>1, <2>6, <2>7, EnoughVotes, Zenon
    <3>3. CASE ~(votesReceived[n] + 1 > Cardinality(Peers(n)) \div 2)
      <4>1. promoting'[n] = promoting[n]
        BY <3>3, <1>1, <1>6, Zenon DEF StateTypeOK, ElectionTypeOK
      <4> QED
        BY <4>1, <3>1, <2>5, <2>6, MajorityMonotonic, Zenon
    <3> QED
      BY <3>2, <3>3, Zenon
  <2>10. TallyInv'
    <3> SUFFICES ASSUME NEW m \in Server, state'[m] = Candidate
                 PROVE  /\ m \in voters'[m]
                        /\ votesReceived'[m] = Cardinality(voters'[m])
                        /\ \A v \in voters'[m] : <<v, currentTerm'[m], m>> \in ballots'
                        /\ \A q \in voteRpcs' :
                             q.cand = m /\ q.term = currentTerm'[m]
                               => q.peer \notin voters'[m]
                        /\ promoting'[m] > 0 => Majority(voters'[m])
      BY Zenon DEF TallyInv, Majority
    <3>1. CASE m = n
      <4>1. \A v \in voters'[n] : <<v, currentTerm'[n], n>> \in ballots'
        BY <1>2, <1>6, <2>4, <2>5, <2>6, Zenon
      <4>2. n \in voters'[n] /\ currentTerm'[n] = currentTerm[n]
        BY <1>6, <2>5, <2>6, Zenon
      <4> HIDE DEF n
      <4> QED
        BY <3>1, <4>1, <4>2, <2>7, <2>8, <2>9, Zenon
    <3>2. CASE m # n
      <4>1. /\ voters'[m] = voters[m] /\ votesReceived'[m] = votesReceived[m]
            /\ promoting'[m] = promoting[m] /\ state[m] = Candidate
        BY <3>2, <1>1, <1>6 DEF StateTypeOK, HistoryTypeOK, ElectionTypeOK
      <4> QED
        BY <4>1, <1>2, <1>6, Zenon DEF ElectionInv, TallyInv
    <3> QED
      BY <3>1, <3>2, Zenon
  <2> QED
    BY <2>3, <2>10, Zenon DEF ElectionInv
<1> QED
  BY <1>4, <1>5, <1>6, Zenon DEF HandleVoteReply

LEMMA StepBecomeLeader ==
  ASSUME Counting, StateTypeOK, StateTypeOK', ElectionInv, NEW n \in Server,
         BecomeLeader(n)
  PROVE  ElectionInv'
<1>1. /\ promoting' = [promoting EXCEPT ![n] = @ - 1] /\ promoting[n] > 0
      /\ UNCHANGED <<currentTerm, votedFor, votesReceived, voteRpcs, ballots, voters>>
      /\ \/ /\ state[n] = Candidate
            /\ state' = [state EXCEPT ![n] = Leader]
            /\ elected' = elected \cup {<<n, currentTerm[n]>>}
         \/ /\ state[n] # Candidate
            /\ UNCHANGED <<state, elected>>
  BY Zenon DEF BecomeLeader
<1>2. TermsRise /\ VotesKept /\ CallsKept
  BY <1>1 DEF TermsRise, VotesKept, CallsKept, StateTypeOK, ElectionTypeOK
<1>3. CampaignsKept
  BY <1>1 DEF CampaignsKept, StateTypeOK, ElectionTypeOK, HistoryTypeOK, Leader, Candidate
<1>4. VoteOnce' /\ BallotsCurrent' /\ CallInv' /\ TallyInv'
  BY <1>1, <1>2, <1>3, BallotsKept, CallsKeptInv, TallyKept, Zenon DEF ElectionInv
<1>5. CASE state[n] # Candidate
  BY <1>1, <1>4, <1>5, MajoritiesKept, Zenon DEF ElectionInv
<1>6. CASE state[n] = Candidate
  <2> DEFINE e == <<n, currentTerm[n]>>
  <2>1. Majority(voters[n]) /\ \A v \in voters[n] : <<v, currentTerm[n], n>> \in ballots
    BY <1>1, <1>6, Zenon DEF ElectionInv, TallyInv
  <2>2. voters[n] \in SUBSET Server
    BY Zenon DEF StateTypeOK, HistoryTypeOK
  <2>3. voters[n] \subseteq Supporters(e) /\ Supporters(e) \in SUBSET Server
    BY <2>1, <2>2, Zenon DEF Supporters
  <2>4. Majority(Supporters(e))
    BY <2>1, <2>2, <2>3, MajorityMonotonic, Zenon
  <2>5. \A d \in elected' : d = e \/ d \in elected
    BY <1>1, <1>6, Zenon
  <2>6. \A d : Supporters(d)' = Supporters(d)
    BY <1>1, Zenon DEF Supporters
  <2>7. LeaderHasMajority'
    BY <2>4, <2>5, <2>6, Zenon DEF ElectionInv, LeaderHasMajority, Majority
  <2> QED
    BY <1>4, <2>7, Zenon DEF ElectionInv
<1> QED
  BY <1>5, <1>6, Zenon

-----------------------------------------------------------------------------
(* The steps of the rest of the node                                       *)

LEMMA ElectionsUntouched ==
  ASSUME Counting, StateTypeOK, StateTypeOK', ElectionInv, voteRpcs' \subseteq voteRpcs,
         UNCHANGED <<electionVars, historyVars>>
  PROVE  ElectionInv'
<1>1. UNCHANGED <<ballots, elected>> /\ CallsKept
  BY Zenon DEF historyVars, CallsKept
<1>2. TermsRise
  BY DEF TermsRise, electionVars, StateTypeOK, ElectionTypeOK
<1>3. VotesKept /\ CampaignsKept
  BY Zenon DEF VotesKept, CampaignsKept, electionVars, historyVars
<1> QED
  BY <1>1, <1>2, <1>3, QuietStep, Zenon

LEMMA StepAppendEntries ==
  ASSUME Counting, Uncompacted, StateTypeOK, StateTypeOK', ElectionInv,
         NEW r \in leaderRpcs, AppendEntries(r)
  PROVE  ElectionInv'
<1> DEFINE n == r.peer
           newer == r.term > currentTerm[n]
<1>1. /\ n \in Server /\ r.term \in Nat /\ r.prev \in Nat
      /\ currentTerm[n] \in Nat /\ logBase[n] = 0
  BY Zenon DEF StateTypeOK, NetworkTypeOK, LeaderRpc, ElectionTypeOK, Uncompacted
<1>2. ~(r.prev - logBase[n] < 0)
  BY <1>1
<1>3. \/ UNCHANGED <<electionVars, historyVars, voteRpcs>>
      \/ /\ r.term >= currentTerm[n]
         /\ currentTerm' = [currentTerm EXCEPT ![n] = r.term]
         /\ votedFor' = [votedFor EXCEPT ![n] = IF newer THEN None ELSE votedFor[n]]
         /\ state' = [state EXCEPT ![n] = IF newer THEN Follower ELSE state[n]]
         /\ UNCHANGED <<votesReceived, promoting, voteRpcs, historyVars>>
  BY <1>2, Zenon DEF AppendEntries
<1>4. CASE UNCHANGED <<electionVars, historyVars, voteRpcs>>
  BY <1>4, ElectionsUntouched, Zenon
<1>5. CASE /\ r.term >= currentTerm[n]
           /\ currentTerm' = [currentTerm EXCEPT ![n] = r.term]
           /\ votedFor' = [votedFor EXCEPT ![n] = IF newer THEN None ELSE votedFor[n]]
           /\ state' = [state EXCEPT ![n] = IF newer THEN Follower ELSE state[n]]
           /\ UNCHANGED <<votesReceived, promoting, voteRpcs, historyVars>>
  <2>1. UNCHANGED <<ballots, elected, voters>> /\ CallsKept
    BY <1>5, Zenon DEF historyVars, CallsKept
  <2>2. TermsRise /\ VotesKept
    BY <1>1, <1>5 DEF TermsRise, VotesKept, StateTypeOK, ElectionTypeOK
  <2>3. ASSUME NEW m \in Server, state'[m] = Candidate
        PROVE  state[m] = Candidate /\ currentTerm'[m] = currentTerm[m]
    <3>1. CASE m # n
      BY <1>5, <2>3, <3>1, Zenon DEF StateTypeOK, ElectionTypeOK
    <3>2. CASE m = n
      <4>1. state'[n] = (IF newer THEN Follower ELSE state[n]) /\ currentTerm'[n] = r.term
        BY <1>1, <1>5, Zenon DEF StateTypeOK, ElectionTypeOK
      <4>2. ~newer
        BY <2>3, <3>2, <4>1, Zenon DEF Follower, Candidate
      <4>3. r.term >= currentTerm[n]
        BY <1>5, Zenon
      <4>4. r.term = currentTerm[n]
        BY <1>1, <4>2, <4>3
      <4>5. state'[n] = state[n]
        BY <4>1, <4>2, Zenon
      <4> QED
        BY <2>3, <3>2, <4>1, <4>4, <4>5, Zenon
    <3> QED
      BY <3>1, <3>2, Zenon
  <2>4. CampaignsKept
    BY <1>5, <2>1, <2>3, Zenon DEF CampaignsKept
  <2> QED
    BY <2>1, <2>2, <2>4, QuietStep, Zenon
<1> QED
  BY <1>3, <1>4, <1>5, Zenon

LEMMA StepHandleAppendReply ==
  ASSUME Counting, StateTypeOK, StateTypeOK', ElectionInv,
         NEW r \in leaderRpcs, HandleAppendReply(r)
  PROVE  ElectionInv'
<1> DEFINE n == r.leader
<1>1. /\ n \in Server /\ r.term \in Nat /\ r.rterm \in Nat /\ currentTerm[n] \in Nat
  BY Zenon DEF StateTypeOK, NetworkTypeOK, LeaderRpc, ElectionTypeOK
<1>2. /\ UNCHANGED <<voteRpcs, historyVars>>
      /\ \/ UNCHANGED electionVars
         \/ /\ currentTerm[n] = r.term /\ r.rterm > r.term
            /\ StepDown(n, r.rterm) /\ UNCHANGED promoting
  BY Zenon DEF HandleAppendReply
<1>3. CASE UNCHANGED electionVars
  BY <1>2, <1>3, ElectionsUntouched, Zenon
<1>4. CASE /\ currentTerm[n] = r.term /\ r.rterm > r.term
           /\ StepDown(n, r.rterm) /\ UNCHANGED promoting
  <2>1. UNCHANGED <<ballots, elected, voters>> /\ CallsKept
    BY <1>2, Zenon DEF historyVars, CallsKept
  <2>2. /\ currentTerm'[n] = r.rterm /\ state'[n] = Follower
        /\ \A m \in Server \ {n} : /\ currentTerm'[m] = currentTerm[m]
                                   /\ votedFor'[m] = votedFor[m]
                                   /\ state'[m] = state[m]
                                   /\ votesReceived'[m] = votesReceived[m]
        /\ \A m \in Server : currentTerm[m] \in Nat
    BY <1>1, <1>4 DEF StepDown, StateTypeOK, ElectionTypeOK
  <2>3. r.rterm > currentTerm[n]
    BY <1>4, Zenon
  <2>4. TermsRise /\ VotesKept
    BY <1>1, <2>2, <2>3 DEF TermsRise, VotesKept
  <2>5. CampaignsKept
    BY <1>4, <2>1, <2>2, Zenon DEF CampaignsKept, Follower, Candidate
  <2> QED
    BY <2>1, <2>4, <2>5, QuietStep, Zenon
<1> QED
  BY <1>2, <1>3, <1>4, Zenon

(* A restart loads the term and the vote it had: the guard of Restart when *)
(* DurableRestarts holds.                                                  *)
LEMMA StepRestart ==
  ASSUME Counting, DurableRestarts, StateTypeOK, StateTypeOK', ElectionInv,
         NEW n \in Server, Restart(n)
  PROVE  ElectionInv'
<1>1. /\ currentTerm' = [currentTerm EXCEPT ![n] = disk[n].term]
      /\ votedFor' = [votedFor EXCEPT ![n] = disk[n].vote]
      /\ disk[n].term = currentTerm[n] /\ disk[n].vote = votedFor[n]
      /\ state' = [state EXCEPT ![n] = Follower]
      /\ votesReceived' = [votesReceived EXCEPT ![n] = 0]
      /\ promoting' = [promoting EXCEPT ![n] = 0]
      /\ voters' = [voters EXCEPT ![n] = {}]
      /\ voteRpcs' = {r \in voteRpcs : r.cand = n => r.phase = "req"}
      /\ UNCHANGED <<ballots, elected>>
  BY Zenon DEF Restart, Reboot
<1>2. UNCHANGED <<currentTerm, votedFor>>
  BY <1>1, Zenon DEF StateTypeOK, ElectionTypeOK
<1>3. TermsRise /\ VotesKept
  BY <1>2 DEF TermsRise, VotesKept, StateTypeOK, ElectionTypeOK
<1>4. CampaignsKept
  BY <1>1 DEF CampaignsKept, StateTypeOK, ElectionTypeOK, HistoryTypeOK, Follower, Candidate
<1>5. CallsKept
  BY <1>1, Zenon DEF CallsKept
<1> QED
  BY <1>1, <1>3, <1>4, <1>5, QuietStep, Zenon

LEMMA StepElsewhere ==
  ASSUME Counting, StateTypeOK, StateTypeOK', ElectionInv,
         \/ LoseRpc
         \/ \E n \in Server :
              \/ ApplyPendingEntries(n)
              \/ \E reached \in SUBSET Peers(n) :
                   SendHeartbeats(n, reached) \/ ReplicateCommand(n, reached)
         \/ \E r \in leaderRpcs : SendAppendEntries(r)
  PROVE  ElectionInv'
<1>1. UNCHANGED <<electionVars, historyVars>>
  BY Zenon DEF LoseRpc, ApplyPendingEntries, SendHeartbeats, ReplicateCommand,
               SendAppendEntries
<1>2. UNCHANGED voteRpcs \/ \E r \in voteRpcs : voteRpcs' = voteRpcs \ {r}
  BY Zenon DEF LoseRpc, ApplyPendingEntries, SendHeartbeats, ReplicateCommand,
               SendAppendEntries
<1>3. voteRpcs' \subseteq voteRpcs
  BY <1>2, Zenon
<1> QED
  BY <1>1, <1>3, ElectionsUntouched, Zenon

-----------------------------------------------------------------------------
(* Together                                                                *)

LEMMA ElectionStep ==
  ASSUME Counting, DurableRestarts, PromptPromotion, OddCluster,
         StateTypeOK, StateTypeOK', Uncompacted, ElectionInv,
         PlainNext \/ UNCHANGED vars
  PROVE  ElectionInv'
<1>1. CASE UNCHANGED vars
  <2>1. UNCHANGED <<electionVars, historyVars>> /\ voteRpcs' \subseteq voteRpcs
    BY <1>1, Zenon DEF vars
  <2> QED
    BY <2>1, ElectionsUntouched, Zenon
<1>2. CASE PlainNext
  BY <1>2, StepBecomeLeader, StepRestart, StepBecomeCandidate,
     StepSendRequestVote, StepRequestVote, StepHandleVoteReply,
     StepAppendEntries, StepHandleAppendReply, StepElsewhere, Zenon DEF PlainNext
<1> QED
  BY <1>1, <1>2, Zenon

(* Two majorities share a node, and that node voted once.                  *)
LEMMA OneLeaderPerTerm ==
  ASSUME Counting, VoteOnce, LeaderHasMajority
  PROVE  ElectionSafety
<1> SUFFICES ASSUME NEW d \in elected, NEW e \in elected, d[2] = e[2]
             PROVE  d[1] = e[1]
  BY Zenon DEF ElectionSafety
<1>1. Majority(Supporters(d)) /\ Majority(Supporters(e))
  BY Zenon DEF LeaderHasMajority
<1>2. Supporters(d) \in SUBSET Server /\ Supporters(e) \in SUBSET Server
  BY Zenon DEF Supporters
<1>3. PICK v \in Server : v \in Supporters(d) /\ v \in Supporters(e)
  BY <1>1, <1>2, Zenon DEF Counting
<1> QED
  BY <1>3, Zenon DEF Supporters, VoteOnce

-----------------------------------------------------------------------------
(* The election timers: no node steps down for a term that nobody watches. *)
(* stepDown leaves a former leader without a timer, so the fact is not     *)
(* local to a node: the node stepped down for a term it has seen, and      *)
(* whoever that term came from, or has passed it since, is on watch.       *)

OnWatch(n) == state[n] = Leader \/ timer[n]

Watched(t) == \E o \in Server : currentTerm[o] >= t /\ OnWatch(o)

(* Every term a node can still learn: the nodes' own and those in calls.   *)
Seen == {currentTerm[n] : n \in Server}
          \cup {r.term : r \in voteRpcs \cup leaderRpcs}
          \cup {r.rterm : r \in voteRpcs \cup leaderRpcs}

TimerInv == faults = 0 => \A t \in Seen : Watched(t)

(* What a step of node n may do: stay on watch, or leave for a newer term  *)
(* it has been told of; whatever terms it makes known are its own, or 0.   *)
Leaves(n) == /\ currentTerm'[n] > currentTerm[n]
             /\ currentTerm'[n] \in Seen

Stays(n) == /\ currentTerm'[n] >= currentTerm[n]
            /\ OnWatch(n) => OnWatch(n)'
            /\ currentTerm'[n] \in Seen \/ OnWatch(n)'

OnlyActs(n) == \A m \in Server \ {n} :
                 /\ currentTerm'[m] = currentTerm[m]
                 /\ state'[m] = state[m] /\ timer'[m] = timer[m]

Tells(n) == Seen' \subseteq Seen \cup {currentTerm'[n], 0}

(* The two sets of calls hold no term beyond the old ones and t.           *)
Carries(t) ==
    /\ \A r \in voteRpcs' : r.term \in Seen \cup {t, 0} /\ r.rterm \in Seen \cup {t, 0}
    /\ \A r \in leaderRpcs' : r.term \in Seen \cup {t, 0} /\ r.rterm \in Seen \cup {t, 0}

(* Terms are numbers.                                                      *)
LEMMA TermOrder ==
  ASSUME NEW a \in Nat, NEW b \in Nat, NEW c \in Nat
  PROVE  /\ a >= a /\ a + 1 \in Nat /\ a + 1 >= a
         /\ a >= b /\ b >= c => a >= c
         /\ a > b => a >= b /\ ~(b >= a)
  OBVIOUS

LEMMA SeenFacts ==
  ASSUME StateTypeOK
  PROVE  /\ Seen \subseteq Nat
         /\ \A n \in Server : currentTerm[n] \in Seen
         /\ \A r \in voteRpcs : r.term \in Seen /\ r.rterm \in Seen
         /\ \A r \in leaderRpcs : r.term \in Seen /\ r.rterm \in Seen
<1>1. \A n \in Server : currentTerm[n] \in Nat
  BY Zenon DEF StateTypeOK, ElectionTypeOK
<1>2. \A r \in voteRpcs : r.term \in Nat /\ r.rterm \in Nat
  BY Zenon DEF StateTypeOK, NetworkTypeOK, VoteRpc
<1>3. \A r \in leaderRpcs : r.term \in Nat /\ r.rterm \in Nat
  BY Zenon DEF StateTypeOK, NetworkTypeOK, LeaderRpc
<1> QED
  BY <1>1, <1>2, <1>3, Zenon DEF Seen

LEMMA ToldTerms ==
  ASSUME StateTypeOK, NEW n \in Server, OnlyActs(n), Carries(currentTerm'[n])
  PROVE  Tells(n)
<1> SUFFICES ASSUME NEW t \in Seen' PROVE t \in Seen \cup {currentTerm'[n], 0}
  BY Zenon DEF Tells
<1>1. CASE \E m \in Server : t = currentTerm'[m]
  BY <1>1, SeenFacts, Zenon DEF OnlyActs
<1>2. CASE \E r \in (voteRpcs \cup leaderRpcs)' : t = r.term \/ t = r.rterm
  BY <1>2, Zenon DEF Carries
<1> QED
  BY <1>1, <1>2, Zenon DEF Seen

LEMMA WatchKept ==
  ASSUME StateTypeOK, StateTypeOK', NEW n \in Server, OnlyActs(n),
         faults' = 0 => faults = 0,
         Carries(currentTerm'[n]), Leaves(n) \/ Stays(n), TimerInv
  PROVE  TimerInv'
<1> SUFFICES ASSUME faults' = 0, NEW t \in Seen' PROVE Watched(t)'
  BY Zenon DEF TimerInv
<1>1. /\ \A s \in Seen : Watched(s)
      /\ t \in Nat
      /\ \A m \in Server : currentTerm[m] \in Nat /\ currentTerm'[m] \in Nat
  <2>1. \A s \in Seen : Watched(s)
    BY Zenon DEF TimerInv
  <2>2. \A m \in Server : currentTerm[m] \in Nat /\ currentTerm'[m] \in Nat
    BY Zenon DEF StateTypeOK, ElectionTypeOK
  <2>3. t \in Seen \cup {currentTerm'[n], 0} /\ Seen \subseteq Nat
    BY ToldTerms, SeenFacts, Zenon DEF Tells
  <2>4. 0 \in Nat
    OBVIOUS
  <2> QED
    BY <2>1, <2>2, <2>3, <2>4, Zenon
<1>2. ASSUME NEW s \in Nat, Watched(s)
      PROVE  \E o \in Server : currentTerm'[o] >= s /\ OnWatch(o)'
  <2>1. PICK o \in Server : currentTerm[o] >= s /\ OnWatch(o)
    BY <1>2, Zenon DEF Watched
  <2>2. CASE o # n
    BY <2>1, <2>2, Zenon DEF OnlyActs, OnWatch
  <2>3. CASE o = n /\ Stays(n)
    BY <1>1, <2>1, <2>3, TermOrder, Zenon DEF Stays
  <2>4. CASE o = n /\ Leaves(n)
    <3>1. PICK q \in Server : currentTerm[q] >= currentTerm'[n] /\ OnWatch(q)
      BY <1>1, <2>4, Zenon DEF Leaves, Watched
    <3>2. q # n
      BY <1>1, <2>4, <3>1, TermOrder, Zenon DEF Leaves
    <3>3. currentTerm'[q] = currentTerm[q] /\ OnWatch(q)'
      BY <3>1, <3>2, Zenon DEF OnlyActs, OnWatch
    <3>4. currentTerm'[q] >= s
      <4>1. /\ currentTerm'[n] >= currentTerm[n] /\ currentTerm[n] >= s
            /\ currentTerm'[q] >= currentTerm'[n]
        BY <1>1, <2>1, <2>4, <3>1, <3>3, TermOrder, Zenon DEF Leaves
      <4> QED
        BY <1>1, <4>1, TermOrder, Zenon
    <3> QED
      BY <3>3, <3>4, Zenon
  <2> QED
    BY <2>2, <2>3, <2>4, Zenon
<1>3. t \in Seen \cup {currentTerm'[n], 0}
  BY ToldTerms, Zenon DEF Tells
<1>4. ASSUME NEW s \in Seen
      PROVE  \E o \in Server : currentTerm'[o] >= s /\ OnWatch(o)'
  BY <1>1, <1>2, SeenFacts, Zenon
<1>5. CASE t \in Seen
  BY <1>4, <1>5, Zenon DEF Watched
<1>6. CASE t = 0
  <2>1. currentTerm[n] \in Seen
    BY SeenFacts, Zenon
  <2>2. PICK o \in Server : currentTerm'[o] >= currentTerm[n] /\ OnWatch(o)'
    BY <1>4, <2>1, Zenon
  <2> QED
    BY <1>1, <1>6, <2>2 DEF Watched
<1>7. CASE t = currentTerm'[n] /\ t \notin Seen
  BY <1>1, <1>7 DEF Stays, Leaves, Watched
<1> QED
  BY <1>3, <1>5, <1>6, <1>7, Zenon

(* A step that touches no role, term or timer and makes known no new term. *)
LEMMA WatchUntouched ==
  ASSUME StateTypeOK, StateTypeOK', TimerInv, faults' = 0 => faults = 0,
         UNCHANGED <<currentTerm, state, timer>>,
         NEW n \in Server, Carries(currentTerm[n])
  PROVE  TimerInv'
<1>1. OnlyActs(n) /\ Stays(n)
  BY SeenFacts DEF OnlyActs, Stays, OnWatch, StateTypeOK, ElectionTypeOK
<1>2. Carries(currentTerm'[n])
  BY Zenon DEF Carries
<1> QED
  BY <1>1, <1>2, WatchKept, Zenon

-----------------------------------------------------------------------------
(* The steps                                                               *)

LEMMA TimerBecomeCandidate ==
  ASSUME StateTypeOK, StateTypeOK', TimerInv, NEW n \in Server,
         NEW reached \in SUBSET Peers(n), BecomeCandidate(n, reached)
  PROVE  TimerInv'
<1>1. CASE SaveFails
  BY <1>1 DEF SaveFails, TimerInv, StateTypeOK, ClientTypeOK
<1>2. CASE ~SaveFails
  <2>1. /\ currentTerm' = [currentTerm EXCEPT ![n] = currentTerm[n] + 1]
        /\ state' = [state EXCEPT ![n] = Candidate]
        /\ timer' = [timer EXCEPT ![n] = TRUE]
        /\ voteRpcs' = voteRpcs \cup
             {[cand |-> n, peer |-> p, term |-> currentTerm[n] + 1,
               phase |-> "call", lastIdx |-> 0, lastTerm |-> 0, rterm |-> 0,
               granted |-> FALSE] : p \in reached}
        /\ UNCHANGED <<leaderRpcs, faults>>
    BY <1>2, Zenon DEF BecomeCandidate, Saved, ResetElectionTimer
  <2>2. currentTerm'[n] = currentTerm[n] + 1 /\ currentTerm[n] \in Nat
    BY <2>1, Zenon DEF StateTypeOK, ElectionTypeOK
  <2>3. OnlyActs(n) /\ Stays(n)
    <3>1. OnlyActs(n) /\ timer'[n]
      BY <2>1, Zenon DEF OnlyActs, StateTypeOK, ElectionTypeOK
    <3>2. currentTerm'[n] >= currentTerm[n]
      BY <2>2, TermOrder, Zenon
    <3> QED
      BY <3>1, <3>2, Zenon DEF Stays, OnWatch
  <2>4. Carries(currentTerm'[n])
    <3>1. \A r \in voteRpcs' :
            r \in voteRpcs \/ (r.term = currentTerm[n] + 1 /\ r.rterm = 0)
      <4> DEFINE Call(p) == [cand |-> n, peer |-> p, term |-> currentTerm[n] + 1,
                             phase |-> "call", lastIdx |-> 0, lastTerm |-> 0,
                             rterm |-> 0, granted |-> FALSE]
      <4>1. voteRpcs' = voteRpcs \cup {Call(p) : p \in reached}
        BY <2>1, Zenon
      <4>2. \A p \in reached : Call(p).term = currentTerm[n] + 1 /\ Call(p).rterm = 0
        BY Zenon
      <4> HIDE DEF Call
      <4> QED
        BY <4>1, <4>2, Zenon
    <3> QED
      BY <2>1, <2>2, <3>1, SeenFacts, Zenon DEF Carries
  <2> QED
    BY <2>1, <2>3, <2>4, WatchKept, Zenon
<1> QED
  BY <1>1, <1>2, Zenon

LEMMA TimerSendRequestVote ==
  ASSUME StateTypeOK, StateTypeOK', TimerInv, NEW r \in voteRpcs, SendRequestVote(r)
  PROVE  TimerInv'
<1> DEFINE s == VoteRequest(r, LastLogInfo(log[r.cand]))
<1>1. /\ voteRpcs' = (voteRpcs \ {r}) \cup {s}
      /\ UNCHANGED <<currentTerm, state, timer, leaderRpcs, faults>>
  BY Zenon DEF SendRequestVote, electionVars
<1>2. r.cand \in Server /\ s.term = r.term /\ s.rterm = r.rterm
  BY Zenon DEF StateTypeOK, NetworkTypeOK, VoteRpc, VoteRequest
<1>3. Carries(currentTerm[r.cand])
  <2> HIDE DEF s
  <2> QED
    BY <1>1, <1>2, SeenFacts, Zenon DEF Carries
<1> QED
  BY <1>1, <1>2, <1>3, WatchUntouched, Zenon

LEMMA TimerRequestVote ==
  ASSUME StateTypeOK, StateTypeOK', TimerInv, NEW r \in voteRpcs, RequestVote(r)
  PROVE  TimerInv'
<1> DEFINE n == r.peer
           newer == r.term > currentTerm[n]
           term == IF newer THEN r.term ELSE currentTerm[n]
<1>1. n \in Server /\ r.term \in Nat /\ currentTerm[n] \in Nat
  BY Zenon DEF StateTypeOK, NetworkTypeOK, VoteRpc, ElectionTypeOK
<1>2. /\ currentTerm' = [currentTerm EXCEPT ![n] = term]
      /\ state' = [state EXCEPT ![n] = IF newer THEN Follower ELSE state[n]]
      /\ UNCHANGED timer \/ timer' = [timer EXCEPT ![n] = TRUE]
      /\ \/ voteRpcs' = voteRpcs \ {r}
         \/ \E g \in BOOLEAN :
              voteRpcs' = (voteRpcs \ {r}) \cup {VoteReply(r, term, g)}
      /\ UNCHANGED leaderRpcs
  BY Zenon DEF RequestVote, ResetElectionTimer
<1>3. UNCHANGED faults \/ SaveFails
  BY Zenon DEF RequestVote, Saved
<1>4. faults' = 0 => faults = 0
  BY <1>3 DEF SaveFails, StateTypeOK, ClientTypeOK
<1>5. currentTerm'[n] = term
  BY <1>1, <1>2, ZenonT(30) DEF StateTypeOK, ElectionTypeOK
<1>6. OnlyActs(n)
  BY <1>1, <1>2, Zenon DEF OnlyActs, StateTypeOK, ElectionTypeOK
<1>7. Leaves(n) \/ Stays(n)
  <2>1. CASE newer
    BY <1>1, <1>5, <2>1, SeenFacts, Zenon DEF Leaves
  <2>2. CASE ~newer
    <3>1. /\ currentTerm'[n] = currentTerm[n] /\ state'[n] = state[n]
          /\ timer'[n] = timer[n] \/ timer'[n] = TRUE
      BY <1>1, <1>2, <1>5, <2>2, Zenon DEF StateTypeOK, ElectionTypeOK
    <3>2. currentTerm[n] \in Seen /\ currentTerm[n] >= currentTerm[n]
      BY <1>1, SeenFacts, TermOrder, Zenon
    <3> HIDE DEF n
    <3> QED
      BY <3>1, <3>2, ZenonT(30) DEF Stays, OnWatch
  <2> QED
    BY <2>1, <2>2, Zenon
<1>8. Carries(currentTerm'[n])
  <2>1. ASSUME NEW g PROVE VoteReply(r, term, g).term = r.term
                           /\ VoteReply(r, term, g).rterm = term
    BY Zenon DEF VoteReply, StateTypeOK, NetworkTypeOK, VoteRpc
  <2>2. term = currentTerm'[n]
    BY <1>5, Zenon
  <2> HIDE DEF term
  <2> QED
    BY <1>2, <2>1, <2>2, SeenFacts, Zenon DEF Carries
<1> QED
  BY <1>1, <1>4, <1>6, <1>7, <1>8, WatchKept, Zenon

(* A candidate or a leader that is told of a newer term steps down.        *)
LEMMA TimerStepDown ==
  ASSUME StateTypeOK, StateTypeOK', TimerInv, NEW n \in Server, NEW t \in Seen,
         t > currentTerm[n], StepDown(n, t), UNCHANGED <<timer, faults>>,
         voteRpcs' \subseteq voteRpcs, leaderRpcs' \subseteq leaderRpcs
  PROVE  TimerInv'
<1>1. currentTerm'[n] = t /\ OnlyActs(n)
  BY DEF StepDown, OnlyActs, StateTypeOK, ElectionTypeOK
<1>2. Leaves(n)
  BY <1>1, Zenon DEF Leaves
<1>3. Carries(currentTerm'[n])
  BY SeenFacts, Zenon DEF Carries
<1> QED
  BY <1>1, <1>2, <1>3, WatchKept, Zenon

LEMMA TimerHandleVoteReply ==
  ASSUME StateTypeOK, StateTypeOK', TimerInv, NEW r \in voteRpcs, HandleVoteReply(r)
  PROVE  TimerInv'
<1> DEFINE n == r.cand
<1>1. n \in Server /\ r.rterm \in Seen
  BY SeenFacts, Zenon DEF StateTypeOK, NetworkTypeOK, VoteRpc
<1>2. /\ voteRpcs' = voteRpcs \ {r} /\ UNCHANGED <<leaderRpcs, faults>>
      /\ \/ UNCHANGED <<currentTerm, state, timer>>
         \/ r.rterm > currentTerm[n] /\ StepDown(n, r.rterm) /\ UNCHANGED timer
  BY Zenon DEF HandleVoteReply, electionVars
<1>3. CASE UNCHANGED <<currentTerm, state, timer>>
  <2>1. Carries(currentTerm[n])
    BY <1>2, SeenFacts, Zenon DEF Carries
  <2> QED
    BY <1>1, <1>2, <1>3, <2>1, WatchUntouched, Zenon
<1>4. CASE r.rterm > currentTerm[n] /\ StepDown(n, r.rterm) /\ UNCHANGED timer
  BY <1>1, <1>2, <1>4, TimerStepDown, Zenon
<1> QED
  BY <1>2, <1>3, <1>4, Zenon

LEMMA TimerBecomeLeader ==
  ASSUME StateTypeOK, StateTypeOK', TimerInv, NEW n \in Server, BecomeLeader(n)
  PROVE  TimerInv'
<1>1. /\ UNCHANGED <<currentTerm, voteRpcs, leaderRpcs, faults>>
      /\ \/ UNCHANGED <<state, timer>>
         \/ /\ state' = [state EXCEPT ![n] = Leader]
            /\ timer' = [timer EXCEPT ![n] = FALSE]
  BY Zenon DEF BecomeLeader, StopElectionTimer
<1>2. OnlyActs(n) /\ Stays(n)
  <2>1. currentTerm[n] \in Seen /\ currentTerm[n] >= currentTerm[n]
    BY SeenFacts, TermOrder, Zenon DEF StateTypeOK, ElectionTypeOK
  <2>2. /\ currentTerm'[n] = currentTerm[n]
        /\ OnWatch(n) => OnWatch(n)'
    BY <1>1, Zenon DEF OnWatch, StateTypeOK, ElectionTypeOK
  <2>3. OnlyActs(n)
    BY <1>1, Zenon DEF OnlyActs, StateTypeOK, ElectionTypeOK
  <2> QED
    BY <2>1, <2>2, <2>3, Zenon DEF Stays
<1>3. Carries(currentTerm'[n])
  BY <1>1, SeenFacts, Zenon DEF Carries
<1> QED
  BY <1>1, <1>2, <1>3, WatchKept, Zenon

LEMMA TimerRestart ==
  ASSUME DurableRestarts, StateTypeOK, StateTypeOK', TimerInv, NEW n \in Server, Restart(n)
  PROVE  TimerInv'
<1>1. /\ currentTerm' = [currentTerm EXCEPT ![n] = disk[n].term]
      /\ disk[n].term = currentTerm[n]
      /\ state' = [state EXCEPT ![n] = Follower]
      /\ timer' = [timer EXCEPT ![n] = TRUE]
      /\ voteRpcs' = {r \in voteRpcs : r.cand = n => r.phase = "req"}
      /\ leaderRpcs' = {r \in leaderRpcs \ {} :
                          r.leader = n => r.phase \in {"req", "ireq"}}
      /\ UNCHANGED faults
  BY Zenon DEF Restart, Reboot
<1>2. OnlyActs(n) /\ Stays(n)
  <2>1. currentTerm[n] >= currentTerm[n]
    BY TermOrder, Zenon DEF StateTypeOK, ElectionTypeOK
  <2>2. currentTerm'[n] = currentTerm[n] /\ timer'[n] /\ OnlyActs(n)
    BY <1>1, Zenon DEF OnlyActs, StateTypeOK, ElectionTypeOK
  <2> QED
    BY <2>1, <2>2, Zenon DEF Stays, OnWatch
<1>3. Carries(currentTerm'[n])
  BY <1>1, SeenFacts, Zenon DEF Carries
<1> QED
  BY <1>1, <1>2, <1>3, WatchKept, Zenon

(* A call moves on to a record that carries no term but its own, t and 0.  *)
LEMMA CarriedOn ==
  ASSUME StateTypeOK, NEW r \in leaderRpcs, NEW s, NEW t,
         Advance(r, s) \/ leaderRpcs' = leaderRpcs \ {r},
         s.term = r.term, s.rterm \in Seen \cup {t, 0}, UNCHANGED voteRpcs
  PROVE  Carries(t)
  BY SeenFacts, Zenon DEF Carries, Advance

LEMMA TimerSpawn ==
  ASSUME StateTypeOK, StateTypeOK', TimerInv, NEW n \in Server,
         NEW reached \in SUBSET Peers(n), NEW commit, Spawn(n, reached, commit),
         UNCHANGED <<currentTerm, state, timer, voteRpcs, faults>>
  PROVE  TimerInv'
<1>1. Carries(currentTerm[n])
  <2>1. \A r \in leaderRpcs' :
          r \in leaderRpcs \/ (r.term = currentTerm[n] /\ r.rterm = 0)
    <3> DEFINE Call(p) ==
                 [leader |-> n, peer |-> p, term |-> currentTerm[n], commit |-> commit,
                  phase |-> "call", prev |-> 0, prevTerm |-> 0, entries |-> << >>,
                  snap |-> NoSnap, match |-> 0, rterm |-> 0, success |-> FALSE]
    <3>1. leaderRpcs' = leaderRpcs \cup {Call(p) : p \in reached}
      BY Zenon DEF Spawn
    <3>2. \A p \in reached : Call(p).term = currentTerm[n] /\ Call(p).rterm = 0
      BY Zenon
    <3> HIDE DEF Call
    <3> QED
      BY <3>1, <3>2, Zenon
  <2> QED
    BY <2>1, SeenFacts, Zenon DEF Carries
<1> QED
  BY <1>1, WatchUntouched, Zenon

LEMMA TimerSendHeartbeats ==
  ASSUME StateTypeOK, StateTypeOK', TimerInv, NEW n \in Server,
         NEW reached \in SUBSET Peers(n), SendHeartbeats(n, reached)
  PROVE  TimerInv'
<1>1. /\ Spawn(n, reached, commitIndex[n])
      /\ UNCHANGED <<currentTerm, state, timer, voteRpcs, faults>>
  BY Zenon DEF SendHeartbeats, electionVars
<1> QED
  BY <1>1, TimerSpawn, Zenon

LEMMA TimerReplicateCommand ==
  ASSUME StateTypeOK, StateTypeOK', TimerInv, NEW n \in Server,
         NEW reached \in SUBSET Peers(n), ReplicateCommand(n, reached)
  PROVE  TimerInv'
<1>1. /\ UNCHANGED <<electionVars, voteRpcs>>
      /\ \/ UNCHANGED faults /\ \E commit : Spawn(n, reached, commit)
         \/ SaveFails
  BY Zenon DEF ReplicateCommand, Saved
<1>2. CASE SaveFails
  BY <1>2 DEF SaveFails, TimerInv, StateTypeOK, ClientTypeOK
<1>3. CASE UNCHANGED faults /\ \E commit : Spawn(n, reached, commit)
  BY <1>1, <1>3, TimerSpawn, Zenon DEF electionVars
<1> QED
  BY <1>1, <1>2, <1>3, Zenon

LEMMA TimerSendAppendEntries ==
  ASSUME StateTypeOK, StateTypeOK', TimerInv, NEW r \in leaderRpcs, SendAppendEntries(r)
  PROVE  TimerInv'
<1>1. /\ UNCHANGED <<electionVars, voteRpcs, faults>>
      /\ \/ leaderRpcs' = leaderRpcs \ {r}
         \/ Advance(r, [r EXCEPT !.phase = "icall"])
         \/ \E prev, pterm, es : Advance(r, AppendRequest(r, prev, pterm, es))
  BY Zenon DEF SendAppendEntries
<1>2. PICK s : /\ Advance(r, s) \/ leaderRpcs' = leaderRpcs \ {r}
               /\ s.term = r.term /\ s.rterm = r.rterm
  <2>1. CASE leaderRpcs' = leaderRpcs \ {r}
    BY <2>1, Zenon
  <2>2. CASE Advance(r, [r EXCEPT !.phase = "icall"])
    BY <2>2 DEF StateTypeOK, NetworkTypeOK, LeaderRpc
  <2>3. CASE \E prev, pterm, es : Advance(r, AppendRequest(r, prev, pterm, es))
    <3>1. PICK prev, pterm, es : Advance(r, AppendRequest(r, prev, pterm, es))
      BY <2>3, Zenon
    <3>2. /\ AppendRequest(r, prev, pterm, es).term = r.term
          /\ AppendRequest(r, prev, pterm, es).rterm = r.rterm
      BY Zenon DEF AppendRequest, StateTypeOK, NetworkTypeOK, LeaderRpc
    <3> QED
      BY <3>1, <3>2, Zenon
  <2> QED
    BY <1>1, <2>1, <2>2, <2>3, Zenon
<1>3. r.leader \in Server
  BY Zenon DEF StateTypeOK, NetworkTypeOK, LeaderRpc
<1>4. Carries(currentTerm[r.leader])
  BY <1>1, <1>2, CarriedOn, SeenFacts, Zenon
<1> QED
  BY <1>1, <1>3, <1>4, WatchUntouched, Zenon DEF electionVars

LEMMA TimerAppendEntries ==
  ASSUME Uncompacted, StateTypeOK, StateTypeOK', TimerInv,
         NEW r \in leaderRpcs, AppendEntries(r)
  PROVE  TimerInv'
<1> DEFINE n == r.peer
<1>1. /\ n \in Server /\ r.term \in Nat /\ r.prev \in Nat
      /\ currentTerm[n] \in Nat /\ logBase[n] = 0
  BY Zenon DEF StateTypeOK, NetworkTypeOK, LeaderRpc, ElectionTypeOK, Uncompacted
<1>2. ~(r.prev - logBase[n] < 0)
  BY <1>1
<1>3. /\ UNCHANGED voteRpcs /\ (UNCHANGED faults \/ SaveFails)
      /\ \/ /\ UNCHANGED electionVars
            /\ Advance(r, AppendReply(r, currentTerm[n], FALSE))
         \/ /\ r.term >= currentTerm[n]
            /\ currentTerm' = [currentTerm EXCEPT ![n] = r.term]
            /\ \E role : state' = [state EXCEPT ![n] = role]
            /\ timer' = [timer EXCEPT ![n] = TRUE]
            /\ \/ leaderRpcs' = leaderRpcs \ {r}
               \/ \E ok \in BOOLEAN : Advance(r, AppendReply(r, r.term, ok))
  BY <1>2, Zenon DEF AppendEntries, ResetElectionTimer, Saved
<1>4. faults' = 0 => faults = 0
  BY <1>3 DEF SaveFails, StateTypeOK, ClientTypeOK
<1>5. ASSUME NEW t, NEW ok
      PROVE  AppendReply(r, t, ok).term = r.term /\ AppendReply(r, t, ok).rterm = t
  BY Zenon DEF AppendReply, StateTypeOK, NetworkTypeOK, LeaderRpc
<1>6. CASE /\ UNCHANGED electionVars
           /\ Advance(r, AppendReply(r, currentTerm[n], FALSE))
  <2>1. PICK s : Advance(r, s) /\ s.term = r.term /\ s.rterm = currentTerm[n]
    BY <1>5, <1>6, Zenon
  <2>2. Carries(currentTerm[n])
    BY <1>3, <2>1, CarriedOn, Zenon
  <2> QED
    BY <1>1, <1>4, <1>6, <2>2, WatchUntouched, Zenon DEF electionVars
<1>7. CASE /\ r.term >= currentTerm[n]
           /\ currentTerm' = [currentTerm EXCEPT ![n] = r.term]
           /\ \E role : state' = [state EXCEPT ![n] = role]
           /\ timer' = [timer EXCEPT ![n] = TRUE]
           /\ \/ leaderRpcs' = leaderRpcs \ {r}
              \/ \E ok \in BOOLEAN : Advance(r, AppendReply(r, r.term, ok))
  <2>1. currentTerm'[n] = r.term /\ OnlyActs(n) /\ Stays(n)
    <3>1. currentTerm'[n] = r.term /\ timer'[n] /\ r.term \in Seen
      BY <1>1, <1>7, SeenFacts DEF StateTypeOK, ElectionTypeOK
    <3>2. OnlyActs(n)
      BY <1>1, <1>7, Zenon DEF OnlyActs, StateTypeOK, ElectionTypeOK
    <3>3. Stays(n)
      BY <1>7, <3>1, Zenon DEF Stays, OnWatch
    <3> QED
      BY <3>1, <3>2, <3>3, Zenon
  <2>2. PICK s : /\ Advance(r, s) \/ leaderRpcs' = leaderRpcs \ {r}
                 /\ s.term = r.term /\ s.rterm = r.term
    BY <1>5, <1>7, Zenon
  <2>3. Carries(currentTerm'[n])
    BY <1>3, <2>1, <2>2, CarriedOn, Zenon
  <2> QED
    BY <1>1, <1>4, <2>1, <2>3, WatchKept, Zenon
<1> QED
  BY <1>3, <1>6, <1>7, Zenon

LEMMA TimerHandleAppendReply ==
  ASSUME StateTypeOK, StateTypeOK', TimerInv, NEW r \in leaderRpcs, HandleAppendReply(r)
  PROVE  TimerInv'
<1> DEFINE n == r.leader
<1>1. n \in Server /\ r.rterm \in Seen
  BY SeenFacts, Zenon DEF StateTypeOK, NetworkTypeOK, LeaderRpc
<1>2. /\ UNCHANGED <<voteRpcs, faults>>
      /\ \/ /\ UNCHANGED electionVars
            /\ leaderRpcs' = leaderRpcs \ {r} \/ Advance(r, Retry(r))
         \/ /\ currentTerm[n] = r.term /\ r.rterm > r.term
            /\ StepDown(n, r.rterm) /\ leaderRpcs' = leaderRpcs \ {r}
            /\ UNCHANGED timer
  BY Zenon DEF HandleAppendReply
<1>3. CASE /\ UNCHANGED electionVars
           /\ leaderRpcs' = leaderRpcs \ {r} \/ Advance(r, Retry(r))
  <2>1. Retry(r).term = r.term /\ Retry(r).rterm = 0
    BY Zenon DEF Retry, StateTypeOK, NetworkTypeOK, LeaderRpc
  <2>2. Carries(currentTerm[n])
    BY <1>2, <1>3, <2>1, CarriedOn, Zenon
  <2> QED
    BY <1>1, <1>2, <1>3, <2>2, WatchUntouched, Zenon DEF electionVars
<1>4. CASE /\ currentTerm[n] = r.term /\ r.rterm > r.term
           /\ StepDown(n, r.rterm) /\ leaderRpcs' = leaderRpcs \ {r}
           /\ UNCHANGED timer
  BY <1>1, <1>2, <1>4, TimerStepDown, Zenon
<1> QED
  BY <1>2, <1>3, <1>4, Zenon

LEMMA TimerElsewhere ==
  ASSUME StateTypeOK, StateTypeOK', TimerInv,
         LoseRpc \/ (\E n \in Server : ApplyPendingEntries(n)) \/ UNCHANGED vars
  PROVE  TimerInv'
<1>1. /\ UNCHANGED <<electionVars, faults>>
      /\ UNCHANGED voteRpcs \/ \E r \in voteRpcs : voteRpcs' = voteRpcs \ {r}
      /\ UNCHANGED leaderRpcs \/ \E r \in leaderRpcs : leaderRpcs' = leaderRpcs \ {r}
  BY Zenon DEF LoseRpc, ApplyPendingEntries, vars
<1>2. CASE Server = {}
  <2>1. /\ voteRpcs = {} /\ leaderRpcs = {}
        /\ voteRpcs' = {} /\ leaderRpcs' = {}
    BY <1>2, Zenon DEF StateTypeOK, NetworkTypeOK, VoteRpc, LeaderRpc
  <2> QED
    BY <1>2, <2>1, Zenon DEF TimerInv, Seen
<1>3. CASE Server # {}
  <2>1. PICK n \in Server : TRUE
    BY <1>3, Zenon
  <2>2. Carries(currentTerm[n])
    BY <1>1, SeenFacts, Zenon DEF Carries
  <2> QED
    BY <1>1, <2>2, WatchUntouched, Zenon DEF electionVars
<1> QED
  BY <1>2, <1>3, Zenon

LEMMA TimerStep ==
  ASSUME DurableRestarts, StateTypeOK, StateTypeOK', Uncompacted, TimerInv,
         PlainNext \/ UNCHANGED vars
  PROVE  TimerInv'
<1>1. CASE UNCHANGED vars
  BY <1>1, TimerElsewhere, Zenon
<1>2. CASE PlainNext
  BY <1>2, TimerBecomeLeader, TimerRestart, TimerBecomeCandidate,
     TimerSendRequestVote, TimerRequestVote, TimerHandleVoteReply,
     TimerSendHeartbeats, TimerReplicateCommand, TimerSendAppendEntries,
     TimerAppendEntries, TimerHandleAppendReply, TimerElsewhere,
     Zenon DEF PlainNext
<1> QED
  BY <1>1, <1>2, Zenon

LEMMA TimerInit ==
  ASSUME Init PROVE TimerInv
<1>1. \A n \in Server : currentTerm[n] = 0 /\ timer[n]
  BY Zenon DEF Init
<1>2. Seen \subseteq {0}
  BY <1>1, Zenon DEF Init, Seen
<1>3. ASSUME NEW t \in Seen PROVE Watched(t)
  <2>1. PICK n \in Server : TRUE
    BY <1>3, Zenon DEF Seen, Init
  <2> QED
    BY <1>1, <1>2, <2>1 DEF Watched, OnWatch
<1> QED
  BY <1>3, Zenon DEF TimerInv

LEMMA TimerImplies ==
  ASSUME StateTypeOK, TimerInv, Server # {}
  PROVE  SomeoneCampaigns
<1> SUFFICES ASSUME faults = 0 PROVE \E n \in Server : state[n] = Leader \/ timer[n]
  BY Zenon DEF SomeoneCampaigns
<1>1. PICK n \in Server : TRUE
  BY Zenon
<1>2. Watched(currentTerm[n])
  BY <1>1, SeenFacts, Zenon DEF TimerInv
<1> QED
  BY <1>2, Zenon DEF Watched, OnWatch
=============================================================================
