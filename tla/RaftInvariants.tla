--------------------------- MODULE RaftInvariants ---------------------------
(***************************************************************************)
(* The vocabulary that the proofs about Raft share: the inductive          *)
(* invariants that more than one of them uses, and the facts about finite  *)
(* sets that they take as hypotheses.  RaftTheorems proves those facts and *)
(* puts the proofs together.                                               *)
(***************************************************************************)
EXTENDS Raft

(* With snapshot_threshold = 0 no log has been cut and no call has turned  *)
(* into the transfer of a snapshot.                                        *)
Uncompacted ==
    /\ logBase = [n \in Server |-> 0]
    /\ snapshot = [n \in Server |-> NoSnap]
    /\ diskSnap = [n \in Server |-> NoSnap]
    /\ \A r \in leaderRpcs : r.phase \in {"call", "req", "resp"}

TypeInv == StateTypeOK /\ Uncompacted

(* The steps that are left then: no snapshot is taken and no call carries  *)
(* one.                                                                    *)
PlainNext ==
    \/ \E n \in Server :
         \/ BecomeLeader(n) \/ ApplyPendingEntries(n) \/ Restart(n)
         \/ \E reached \in SUBSET Peers(n) :
              \/ BecomeCandidate(n, reached) \/ SendHeartbeats(n, reached)
              \/ ReplicateCommand(n, reached)
    \/ \E r \in voteRpcs :
         SendRequestVote(r) \/ RequestVote(r) \/ HandleVoteReply(r)
    \/ \E r \in leaderRpcs :
         SendAppendEntries(r) \/ AppendEntries(r) \/ HandleAppendReply(r)
    \/ LoseRpc

TermsRise == \A n \in Server : currentTerm[n] <= currentTerm'[n]

-----------------------------------------------------------------------------
(* Elections                                                               *)

OddCluster == \E k \in Nat : Cardinality(Server) = 2 * k + 1

(* The conditions under which an election gives a term one leader.         *)
SafeElections == ~Compaction /\ DurableRestarts /\ PromptPromotion /\ OddCluster

(* A node has not voted in a later term than its own, and its vote of that *)
(* term, if it has given one, is the one it remembers.                     *)
BallotsCurrent ==
    \A b \in ballots : /\ b[2] <= currentTerm[b[1]]
                       /\ b[2] = currentTerm[b[1]] => votedFor[b[1]] = b[3]

(* A candidate makes one call per peer and term, and a granted reply comes *)
(* from a vote that was given.                                             *)
CallInv ==
    /\ \A r \in voteRpcs :
         /\ r.peer # r.cand /\ r.term <= currentTerm[r.cand]
         /\ r.phase = "resp" /\ r.granted => <<r.peer, r.term, r.cand>> \in ballots
    /\ \A r, s \in voteRpcs :
         r.cand = s.cand /\ r.peer = s.peer /\ r.term = s.term => r = s

(* votesReceived counts the distinct nodes that voted for the candidate in *)
(* its present term, none of them has a call left, and a call to           *)
(* becomeLeader is on its way only if they are a majority.                 *)
TallyInv ==
    \A n \in Server : state[n] = Candidate =>
        /\ n \in voters[n] /\ votesReceived[n] = Cardinality(voters[n])
        /\ \A v \in voters[n] : <<v, currentTerm[n], n>> \in ballots
        /\ \A r \in voteRpcs :
             r.cand = n /\ r.term = currentTerm[n] => r.peer \notin voters[n]
        /\ promoting[n] > 0 => Majority(voters[n])

(* The inductive invariant of elections.                                   *)
ElectionInv ==
    VoteOnce /\ BallotsCurrent /\ CallInv /\ TallyInv /\ LeaderHasMajority

-----------------------------------------------------------------------------
(* Finite sets                                                             *)

(* Counting nodes: what a majority is worth.                               *)
Counting ==
    /\ \A S \in SUBSET Server : Cardinality(S) \in Nat
    /\ \A S \in SUBSET Server : \A v \in Server \ S :
         Cardinality(S \cup {v}) = Cardinality(S) + 1
    /\ Cardinality({}) = 0
    /\ \A S, T \in SUBSET Server : S \subseteq T /\ Majority(S) => Majority(T)
    /\ \A S, T \in SUBSET Server :
         Majority(S) /\ Majority(T) => \E v \in Server : v \in S /\ v \in T

(* A set of numbers has a smallest one.                                    *)
LeastNumbers ==
    \A T \in SUBSET Nat : T # {} => \E m \in T : \A x \in T : m <= x

(* The entries that a loop over a log keeps are a log again, each at the   *)
(* place that its rank among them gives it.                                *)
KeptInOrder ==
    \A l \in Seq(Entry) : \A K \in SUBSET (1 .. Len(l)) :
        /\ Kept(l, K) \in Seq(Entry) /\ Len(Kept(l, K)) = Cardinality(K)
        /\ \A j \in 1 .. Cardinality(K) : \E k \in K :
             Kept(l, K)[j] = l[k] /\ Cardinality({x \in K : x <= k}) = j

Intervals == \A a, b \in Int : a <= b => Cardinality(a .. b) = b - a + 1
=============================================================================
