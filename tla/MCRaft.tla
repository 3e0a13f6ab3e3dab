------------------------------- MODULE MCRaft -------------------------------
(***************************************************************************)
(* Instances of Raft for TLC.                                              *)
(***************************************************************************)
EXTENDS Raft, TLC

CONSTANTS n1, n2, n3

(* The elections of a run: who may start one, and for which terms.         *)
OnlyFirst     == {<<n1, 1>>}
FirstOrSecond == {<<n1, 1>>, <<n2, 1>>}
Succession    == {<<n1, 1>>, <<n2, 2>>}
ThereAndBack  == {<<n1, 1>>, <<n2, 2>>, <<n1, 3>>}
AnyoneTwice   == {n1, n2, n3} \X {1, 2}

(* Three commands in logs of two: a later leader's replace an earlier's.   *)
ShortLogs == \A n \in Server : Len(log[n]) <= 2

(* Nodes that may start the same elections are interchangeable.            *)
Symmetry ==
    {p \in Permutations(Server) :
       {<<p[e[1]], e[2]>> : e \in Campaigns} = Campaigns}

(* Calls without effect are the same as calls that have ended.             *)
View ==
    <<electionVars, logVars, leaderVars, diskVars, clientVars, restarts, faults,
      historyVars, LiveVoteRpcs, LiveLeaderRpcs>>

(* No step reads the log histories: what can happen does not depend on     *)
(* them, and no fairness condition or property of progress mentions them.  *)
ProgressView ==
    <<electionVars, logVars, leaderVars, diskVars, voteRpcs, leaderRpcs,
      clientVars, restarts, faults, historyVars>>

(* Without restarts and compaction no step reads the files, the state      *)
(* machines, the histories, what a node has left from an earlier role or   *)
(* the timer of a node that will not campaign.                             *)
LogView ==
    <<currentTerm, votedFor, state, promoting, log, commitIndex,
      {n \in Server : timer[n] /\ \E e \in Campaigns : e[1] = n /\ e[2] > currentTerm[n]},
      [n \in Server |-> IF state[n] = Candidate THEN votesReceived[n] ELSE 0],
      [n \in Server |-> IF state[n] = Leader THEN <<nextIndex[n], matchIndex[n]>>
                        ELSE << >>],
      submitted, faults, LiveVoteRpcs, LiveLeaderRpcs>>
=============================================================================
