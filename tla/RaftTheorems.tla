---------------------------- MODULE RaftTheorems ----------------------------
(***************************************************************************)
(* What is proved of Raft, for every cluster, every number of terms,       *)
(* commands, faults and concurrent calls: the facts about finite sets that *)
(* the step proofs assume, then the theorems, each from an inductive       *)
(* invariant of RaftProofs (types, the order of indexes, the shape of      *)
(* logs), RaftElectionProofs (votes, leaders, timers), RaftLogProofs and   *)
(* RaftCommitProofs (what is chosen stays chosen).                         *)
(***************************************************************************)
EXTENDS RaftProofs, RaftElectionProofs, RaftCommitProofs, FiniteSetTheorems

-----------------------------------------------------------------------------
(* Counting                                                                *)

LEMMA NodesAreCounted == Counting
<1>1. \A S \in SUBSET Server : IsFiniteSet(S) /\ Cardinality(S) \in Nat
  BY ServerAssumption, FS_Subset, FS_CardinalityType, ZenonT(60)
<1>2. ASSUME NEW S \in SUBSET Server, NEW v \in Server \ S
      PROVE  Cardinality(S \cup {v}) = Cardinality(S) + 1
  BY <1>1, FS_AddElement, ZenonT(60)
<1>3. ASSUME NEW S \in SUBSET Server, NEW T \in SUBSET Server, S \subseteq T, Majority(S)
      PROVE  Majority(T)
  <2>1. Cardinality(S) <= Cardinality(T)
    BY <1>1, <1>3, FS_Subset, ZenonT(60)
  <2>2. Cardinality(S) \in Nat /\ Cardinality(T) \in Nat /\ Cardinality(Server) \in Nat
    BY <1>1, ZenonT(60)
  <2>3. 2 * Cardinality(S) > Cardinality(Server)
    BY <1>3, ZenonT(60) DEF Majority
  <2>4. 2 * Cardinality(T) > Cardinality(Server)
    BY ONLY <2>1, <2>2, <2>3, SMTT(60)
  <2> QED
    BY <2>4, ZenonT(60) DEF Majority
<1>4. ASSUME NEW S \in SUBSET Server, NEW T \in SUBSET Server, Majority(S), Majority(T)
      PROVE  \E v \in Server : v \in S /\ v \in T
  <2>1. Cardinality(S) \in Nat /\ Cardinality(T) \in Nat /\ Cardinality(Server) \in Nat
    BY <1>1, ZenonT(60)
  <2>2. 2 * Cardinality(S) > Cardinality(Server) /\ 2 * Cardinality(T) > Cardinality(Server)
    BY <1>4, ZenonT(60) DEF Majority
  <2>3. Cardinality(S) + Cardinality(T) > Cardinality(Server)
    BY ONLY <2>1, <2>2, SMTT(60)
  <2>4. S \cap T # {}
    BY <1>1, <2>3, FS_MajoritiesIntersect, ZenonT(60)
  <2> QED
    BY <2>4, ZenonT(60)
<1>5. Cardinality({}) = 0
  BY FS_EmptySet, ZenonT(60)
<1> QED
  BY <1>1, <1>2, <1>3, <1>4, <1>5, ZenonT(60) DEF Counting

LEMMA SmallestNumber ==
  ASSUME NEW T \in SUBSET Nat, T # {}
  PROVE  \E x \in T : \A y \in T : x <= y
<1>1. PICK x \in T : \A y \in T : <<y, x>> \notin OpToRel(<, Nat)
  BY NatLessThanWellFounded, WFMin, ZenonT(60)
<1>2. \A y \in T : ~(y < x)
  BY <1>1, ZenonT(60) DEF OpToRel
<1> QED
  BY <1>2, SMTT(60)

(* The positions up to k, and up to the one before it.                     *)
LEMMA UptoEnds ==
  ASSUME NEW m \in Nat, NEW K \in SUBSET (1 .. m)
  PROVE  {x \in K : x <= m} = K /\ {x \in K : x <= 0} = {}
<1>1. \A x \in K : x <= m /\ ~(x <= 0)
  BY SMTT(60)
<1> QED
  BY <1>1, ZenonT(60)

LEMMA UptoMissing ==
  ASSUME NEW m \in Nat, NEW K \in SUBSET (1 .. m), NEW k \in Nat, k \notin K
  PROVE  {x \in K : x <= k} = {x \in K : x <= k - 1}
<1>1. \A x \in K : (x <= k) <=> (x <= k - 1)
  BY SMTT(60)
<1> QED
  BY <1>1, ZenonT(60)

LEMMA UptoMember ==
  ASSUME NEW m \in Nat, NEW K \in SUBSET (1 .. m), NEW k \in K
  PROVE  /\ {x \in K : x <= k} = {x \in K : x <= k - 1} \cup {k}
         /\ k \notin {x \in K : x <= k - 1}
<1>1. \A x \in K : (x <= k) <=> (x <= k - 1 \/ x = k)
  BY SMTT(60)
<1>2. ~(k <= k - 1)
  BY SMTT(60)
<1> QED
  BY <1>1, <1>2, ZenonT(60)

(* A finite set of positions has one of every rank.                        *)
LEMMA Ranked ==
  ASSUME NEW m \in Nat, NEW K \in SUBSET (1 .. m), NEW j \in 1 .. Cardinality(K)
  PROVE  \E k \in K : Cardinality({x \in K : x <= k}) = j
<1> DEFINE Upto(k) == {x \in K : x <= k}
           Rank(k) == Cardinality(Upto(k))
           T == {k \in Nat : Rank(k) >= j}
<1>1. \A k : IsFiniteSet(Upto(k)) /\ Rank(k) \in Nat
  <2>1. IsFiniteSet(1 .. m)
    BY FS_Interval, SMTT(60)
  <2>2. \A k : Upto(k) \in SUBSET (1 .. m)
    BY ZenonT(60)
  <2> QED
    BY <2>1, <2>2, FS_Subset, FS_CardinalityType, ZenonT(60)
<1>2. /\ Rank(m) = Cardinality(K) /\ Rank(0) = 0
      /\ \A k \in Nat : k \notin K => Rank(k) = Rank(k - 1)
      /\ \A k \in Nat : k \in K => Rank(k) = Rank(k - 1) + 1
  <2>1. Rank(m) = Cardinality(K) /\ Rank(0) = 0
    <3>1. Upto(m) = K /\ Upto(0) = {}
      BY UptoEnds, ZenonT(60)
    <3> QED
      BY <3>1, FS_EmptySet, ZenonT(60)
  <2>2. ASSUME NEW k \in Nat, k \notin K PROVE Rank(k) = Rank(k - 1)
    <3>1. {x \in K : x <= k} = {x \in K : x <= k - 1}
      BY <2>2, UptoMissing, ZenonT(60)
    <3>2. Upto(k) = Upto(k - 1)
      BY <3>1, ZenonT(60)
    <3> QED
      BY <3>2, ZenonT(60)
  <2>3. ASSUME NEW k \in Nat, k \in K PROVE Rank(k) = Rank(k - 1) + 1
    <3>1. Upto(k) = Upto(k - 1) \cup {k} /\ k \notin Upto(k - 1)
      BY <2>3, UptoMember, ZenonT(60)
    <3>2. IsFiniteSet(Upto(k - 1))
      BY <1>1, ZenonT(60)
    <3> HIDE DEF Upto
    <3> QED
      BY <3>1, <3>2, FS_AddElement, ZenonT(60)
  <2> QED
    BY <2>1, <2>2, <2>3, ZenonT(60)
<1>3. Cardinality(K) \in Nat /\ j \in Nat /\ 1 <= j /\ j <= Cardinality(K)
  <2>1. Cardinality(K) \in Nat
    BY <1>1, <1>2, ZenonT(60)
  <2> HIDE DEF T
  <2> QED
    BY <2>1, SMTT(60)
<1>10. \A k : Rank(k) \in Nat
  BY <1>1, ZenonT(60)
<1> HIDE DEF Rank
<1>4. m \in T
  BY <1>2, <1>3, ZenonT(60)
<1>5. PICK k \in T : \A y \in T : k <= y
  BY <1>4, SmallestNumber, ZenonT(60)
<1>6. k \in Nat /\ Rank(k) >= j /\ k # 0
  <2>1. k \in Nat /\ Rank(k) >= j
    BY <1>5, ZenonT(60)
  <2>2. Rank(0) = 0
    BY <1>2, ZenonT(60)
  <2> HIDE DEF T
  <2> QED
    BY <1>3, <2>1, <2>2, SMTT(60)
<1>7. k - 1 \in Nat /\ Rank(k - 1) \in Nat /\ Rank(k) \in Nat
  BY <1>10, <1>6, SMTT(60)
<1>8. ~(Rank(k - 1) >= j)
  BY <1>5, <1>6, <1>7, SMTT(60)
<1>9. k \in K /\ Rank(k) = j
  BY <1>2, <1>3, <1>6, <1>7, <1>8, SMTT(60)
<1> QED
  BY <1>9, ZenonT(60) DEF Rank

(* The loops of InstallSnapshot and Snapshot that keep some entries of a   *)
(* log return them in order.                                               *)
LEMMA KeptPlaces ==
  ASSUME NEW l \in Seq(Entry), NEW K \in SUBSET (1 .. Len(l))
  PROVE  /\ Kept(l, K) \in Seq(Entry) /\ Len(Kept(l, K)) = Cardinality(K)
         /\ \A j \in 1 .. Cardinality(K) : \E k \in K :
              Kept(l, K)[j] = l[k] /\ Cardinality({x \in K : x <= k}) = j
<1> DEFINE Place(j) == CHOOSE k \in K : Cardinality({x \in K : x <= k}) = j
<1>1. Cardinality(K) \in Nat
  <2>1. IsFiniteSet(1 .. Len(l))
    BY FS_Interval, SMTT(60)
  <2>2. IsFiniteSet(K)
    BY <2>1, FS_Subset, ZenonT(60)
  <2> QED
    BY <2>2, FS_CardinalityType, ZenonT(60)
<1>2. ASSUME NEW j \in 1 .. Cardinality(K)
      PROVE  Place(j) \in K /\ Cardinality({x \in K : x <= Place(j)}) = j
  <2>1. Len(l) \in Nat
    BY SMTT(60)
  <2>2. \E k \in K : Cardinality({x \in K : x <= k}) = j
    BY <2>1, Ranked, ZenonT(60)
  <2> QED
    BY <2>2, ZenonT(60)
<1>3. Kept(l, K) = [j \in 1 .. Cardinality(K) |-> l[Place(j)]]
  BY ZenonT(60) DEF Kept
<1> HIDE DEF Place
<1>4. \A j \in 1 .. Cardinality(K) : l[Place(j)] \in Entry
  <2>1. \A k \in 1 .. Len(l) : l[k] \in Entry
    BY ElementOfSeq, ZenonT(60)
  <2> QED
    BY <1>2, <2>1, ZenonT(60)
<1>5. Kept(l, K) \in Seq(Entry) /\ Len(Kept(l, K)) = Cardinality(K)
  BY <1>1, <1>3, <1>4, SMTT(60)
<1> QED
  BY <1>2, <1>3, <1>5, ZenonT(60)


LEMMA NumbersHaveLeast == LeastNumbers
  BY SmallestNumber, ZenonT(60) DEF LeastNumbers

LEMMA LogsAreKeptInOrder == KeptInOrder
  BY KeptPlaces, ZenonT(60) DEF KeptInOrder

LEMMA IntervalsAreCounted == Intervals
  BY FS_Interval, SMTT(60) DEF Intervals

-----------------------------------------------------------------------------
(* Types, indexes and the shape of logs: with and without compaction       *)

LEMMA StateTypeInvariant == Spec => []StateTypeOK
<1>1. StateTypeOK /\ [Next]_vars => StateTypeOK'
  BY StateTypeStep, LogsAreKeptInOrder, ZenonT(60)
<1> QED
  BY <1>1, TypeInit, PTL DEF Spec

LEMMA LogHistoryInvariant == Spec => []LogHistoryTypeOK
<1>1. Init => LogHistoryTypeOK
  BY SMTT(60) DEF Init, LogHistoryTypeOK
<1>2. StateTypeOK /\ LogHistoryTypeOK /\ [Next]_vars => LogHistoryTypeOK'
  BY LogHistoryStep, ZenonT(60)
<1> QED
  BY <1>1, <1>2, StateTypeInvariant, PTL DEF Spec

(* Every handler and goroutine of the raft package keeps the state         *)
(* well-typed, through compaction, failing saves, crashes and lost calls:  *)
(* indexes never fall below zero, and logs, snapshots and messages hold    *)
(* whole entries, wherever a slice is cut relative to logBase.             *)
THEOREM TypeCorrect == Spec => []TypeOK
<1>1. StateTypeOK /\ LogHistoryTypeOK => TypeOK
  BY ZenonT(60) DEF TypeOK
<1> QED
  BY <1>1, StateTypeInvariant, LogHistoryInvariant, PTL

(* Snapshot only compacts what has been applied, applyPendingEntries stops *)
(* at the commit index, the commit index never falls behind lastApplied    *)
(* and loadPersistedState restores the three in order: through compaction, *)
(* installed snapshots, failing saves and crashes between two saves.       *)
THEOREM IndexesAreOrdered == Spec => []IndexOrder
<1>1. Init => IndexOrder
  BY SMTT(60) DEF Init, IndexOrder
<1>2. StateTypeOK /\ IndexOrder /\ [Next]_vars => IndexOrder'
  BY OrderStep, LogsAreKeptInOrder, ZenonT(60)
<1> QED
  BY <1>1, <1>2, StateTypeInvariant, PTL DEF Spec

LEMMA TypeInvariant ==
  ASSUME ~Compaction
  PROVE  Spec => []TypeInv
<1>1. Init => Uncompacted
  BY ZenonT(60) DEF Init, Uncompacted
<1>2. TypeInv /\ [Next]_vars => Uncompacted'
  BY UncompactedStep, ZenonT(60)
<1>3. StateTypeOK /\ Uncompacted <=> TypeInv
  BY ZenonT(60) DEF TypeInv
<1> QED
  BY <1>1, <1>2, <1>3, StateTypeInvariant, PTL DEF Spec

LEMMA CompactionInvariant == Spec => [](~Compaction => Uncompacted)
<1>1. CASE ~Compaction
  <2>1. TypeInv => (~Compaction => Uncompacted)
    BY ZenonT(60) DEF TypeInv
  <2> QED
    BY <1>1, <2>1, TypeInvariant, PTL
<1>2. CASE Compaction
  <2>1. ~Compaction => Uncompacted
    BY <1>2, ZenonT(60)
  <2> QED
    BY <2>1, PTL
<1> QED
  BY <1>1, <1>2, ZenonT(60)

LEMMA ShapeInvariant == Spec => []ShapeInv
<1>1. /\ StateTypeOK /\ StateTypeOK' /\ IndexOrder /\ (~Compaction => Uncompacted)
      /\ ShapeInv /\ [Next]_vars
      => ShapeInv'
  BY ShapeStep, LogsAreKeptInOrder, IntervalsAreCounted, ZenonT(60)
<1> QED
  BY <1>1, ShapeInit, StateTypeInvariant, IndexesAreOrdered, CompactionInvariant, PTL
     DEF Spec

(* No log holds an entry of a later term than its node's: AppendEntries    *)
(* adopts the leader's term before it appends, saveToDisk writes the two   *)
(* together, and Snapshot and InstallSnapshot only cut - through           *)
(* compaction, failing saves, crashes between two saves and lost calls.    *)
THEOREM TermsAreBounded == Spec => []TermsBounded
<1>1. ShapeInv => TermsBounded
  BY ShapeImplies, ZenonT(60)
<1> QED
  BY <1>1, ShapeInvariant, PTL

(* Wherever a log is cut by Snapshot and InstallSnapshot, spliced by       *)
(* AppendEntries or reloaded, the entry at position i has index            *)
(* logBase + i, provided no crash falls between the two saves of a         *)
(* compaction.                                                             *)
THEOREM EntriesInPlace ==
  ASSUME WholeCompactions
  PROVE  Spec => []LogIndexed
<1>1. ShapeInv => LogIndexed
  BY ShapeImplies, ZenonT(60)
<1> QED
  BY <1>1, ShapeInvariant, PTL

-----------------------------------------------------------------------------
(* Elections: without compaction, where no node forgets a vote             *)

LEMMA PlainSteps ==
  ASSUME ~Compaction
  PROVE  TypeInv /\ [Next]_vars => PlainNext \/ UNCHANGED vars
  BY UncompactedSteps, ZenonT(60) DEF TypeInv

LEMMA ElectionInvariant ==
  ASSUME SafeElections
  PROVE  Spec => []ElectionInv
<1>1. ~Compaction /\ DurableRestarts /\ PromptPromotion /\ OddCluster
  BY ZenonT(60) DEF SafeElections
<1>2. TypeInv /\ TypeInv' /\ ElectionInv /\ (PlainNext \/ UNCHANGED vars) => ElectionInv'
  BY <1>1, NodesAreCounted, ElectionStep, ZenonT(60) DEF TypeInv
<1>3. TypeInv /\ [Next]_vars => PlainNext \/ UNCHANGED vars
  BY <1>1, PlainSteps, ZenonT(60)
<1>4. Spec => []TypeInv
  BY <1>1, TypeInvariant, ZenonT(60)
<1> QED
  BY <1>2, <1>3, <1>4, ElectionInit, PTL DEF Spec

(* A node that never forgets a vote in a crash gives at most one vote per  *)
(* term, whatever RequestVote calls arrive and in whatever order.          *)
THEOREM VotesAreUnique ==
  ASSUME SafeElections
  PROVE  Spec => []VoteOnce
<1>1. ElectionInv => VoteOnce
  BY ZenonT(60) DEF ElectionInv
<1> QED
  BY <1>1, ElectionInvariant, PTL

(* Every node that becomeLeader promotes has the votes of a majority of    *)
(* the cluster in the term it then leads.                                  *)
THEOREM LeadersHaveMajorities ==
  ASSUME SafeElections
  PROVE  Spec => []LeaderHasMajority
<1>1. ElectionInv => LeaderHasMajority
  BY ZenonT(60) DEF ElectionInv
<1> QED
  BY <1>1, ElectionInvariant, PTL

(* Two majorities share a node, and that node voted once: becomeLeader     *)
(* never makes two leaders of one term.                                    *)
THEOREM ElectionsAreSafe ==
  ASSUME SafeElections
  PROVE  Spec => []ElectionSafety
<1>1. VoteOnce /\ LeaderHasMajority => ElectionSafety
  BY NodesAreCounted, OneLeaderPerTerm, ZenonT(60)
<1> QED
  BY <1>1, VotesAreUnique, LeadersHaveMajorities, PTL

(* As long as every save succeeds, and a restart loads the term it had,    *)
(* the cluster always has a leader or a node whose election timer is       *)
(* armed, although stepDown stops a leader without arming its timer.       *)
THEOREM NeverSilent ==
  ASSUME ~Compaction, DurableRestarts, Server # {}
  PROVE  Spec => []SomeoneCampaigns
<1>1. TypeInv /\ TypeInv' /\ TimerInv /\ (PlainNext \/ UNCHANGED vars) => TimerInv'
  BY TimerStep, ZenonT(60) DEF TypeInv
<1>2. TypeInv /\ TimerInv => SomeoneCampaigns
  BY TimerImplies, ZenonT(60) DEF TypeInv
<1>3. Init => TimerInv
  BY TimerInit, ZenonT(60)
<1> QED
  BY <1>1, <1>2, <1>3, PlainSteps, TypeInvariant, PTL DEF Spec

-----------------------------------------------------------------------------
(* Logs                                                                    *)

LEMMA LogInvariant ==
  ASSUME SafeElections
  PROVE  Spec => [](TypeInv /\ LogTypes /\ LogInv)
<1>1. ~Compaction /\ DurableRestarts
  BY ZenonT(60) DEF SafeElections
<1>2. TypeInv /\ LogHistoryTypeOK => LogTypes
  BY TypesOfLogs, ZenonT(60) DEF TypeInv
<1>3. /\ TypeInv /\ LogTypes /\ LogTypes' /\ ElectionSafety /\ ElectionSafety'
      /\ LogInv /\ (PlainNext \/ UNCHANGED vars)
      => LogInv'
  BY <1>1, NumbersHaveLeast, LogStep, ZenonT(60) DEF TypeInv
<1>4. TypeInv /\ [Next]_vars => PlainNext \/ UNCHANGED vars
  BY <1>1, PlainSteps, ZenonT(60)
<1>5. Spec => []TypeInv
  BY <1>1, TypeInvariant, ZenonT(60)
<1> QED
  BY <1>2, <1>3, <1>4, <1>5, LogInit, LogHistoryInvariant, ElectionsAreSafe, PTL DEF Spec

(* Two logs that have an entry of the same term at an index are equal up   *)
(* to it: the consistency check of AppendEntries, a refused append that is *)
(* retried further back, and entries that a new leader overwrites never    *)
(* leave two logs that differ and then meet again.                         *)
THEOREM LogsMatch ==
  ASSUME SafeElections
  PROVE  Spec => []LogMatching
<1>1. LogTypes /\ LogInv => LogMatching
  BY LogsMeet, ZenonT(60)
<1> QED
  BY <1>1, LogInvariant, PTL

-----------------------------------------------------------------------------
(* Acknowledgements and commitments                                        *)

LEMMA SoundInvariant ==
  ASSUME SafeElections
  PROVE  Spec => []Sound
<1>1. /\ TypeInv /\ LogTypes /\ LogInv /\ LogHistoryTypeOK /\ ElectionInv /\ ElectionSafety
      => Sound
  BY NodesAreCounted, NumbersHaveLeast, ZenonT(60) DEF Sound, TypeInv
<1> QED
  BY <1>1, LogInvariant, LogHistoryInvariant, ElectionInvariant, ElectionsAreSafe, PTL

LEMMA SoundSteps ==
  ASSUME SafeElections
  PROVE  Sound /\ [Next]_vars => PlainNext \/ UNCHANGED vars
  BY PlainSteps, ZenonT(60) DEF SafeElections, Sound, TypeInv

LEMMA ChoiceInvariant ==
  ASSUME SafeElections, LogsSurvive
  PROVE  Spec => []ChoiceInv
<1>1. Sound /\ Sound' /\ ChoiceInv /\ (PlainNext \/ UNCHANGED vars) => ChoiceInv'
  BY ChoiceStep, ZenonT(60) DEF SafeElections
<1> QED
  BY <1>1, SoundSteps, SoundInvariant, ChoiceInit, PTL DEF Spec

(* What sendAppendEntries counts as replicated on a peer that has not      *)
(* moved to a later term is in that peer's log, whatever the order in      *)
(* which the replies of concurrent calls were handled, and through         *)
(* restarts as long as no save fails.                                      *)
THEOREM MatchIndexesAreSound ==
  ASSUME SafeElections, LogsSurvive
  PROVE  Spec => []MatchIndexSound
<1>1. Sound /\ ChoiceInv => MatchIndexSound
  BY CountsAreSound, ZenonT(60)
<1> QED
  BY <1>1, SoundInvariant, ChoiceInvariant, PTL

LEMMA CommitInvariant ==
  ASSUME SafeElections, NoRestarts
  PROVE  Spec => []CommitSound /\ [][CommitsStay]_vars
<1>1. /\ Sound /\ Sound' /\ ChoiceInv /\ ChoiceInv' /\ CommitInv
      /\ (PlainNext \/ UNCHANGED vars)
      => CommitInv' /\ CommitsStay
  BY CommitStep, ZenonT(60) DEF SafeElections
<1>2. Spec => []ChoiceInv
  BY ChoiceInvariant, ZenonT(60) DEF LogsSurvive, NoRestarts
<1>3. Sound /\ ChoiceInv /\ CommitInv => CommitSound
  BY ZenonT(60) DEF CommitSound
<1> QED
  BY <1>1, <1>2, <1>3, SoundSteps, SoundInvariant, CommitInit, PTL DEF Spec

(* Two entries that nodes hold as committed at an index are equal, however *)
(* many leaders came and went in between.                                  *)
THEOREM StateMachinesAreSafe ==
  ASSUME SafeElections, NoRestarts
  PROVE  Spec => []StateMachineSafety
<1>1. CommitSound => StateMachineSafety
  BY CommittedAgree, ZenonT(60)
<1> QED
  BY <1>1, CommitInvariant, PTL

(* A leader has every entry that a node of its own or an older term holds  *)
(* as committed: the vote rule of RequestVote and the commit rule of       *)
(* updateCommitIndex together let no committed entry go missing.           *)
THEOREM LeadersAreComplete ==
  ASSUME SafeElections, NoRestarts
  PROVE  Spec => []LeaderCompleteness
<1>1. CommitSound => LeaderCompleteness
  BY LeadersHaveCommitted, ZenonT(60)
<1> QED
  BY <1>1, CommitInvariant, PTL

(* A node that lacks a committed entry, and the nodes whose logs would let *)
(* them vote for it, are never a majority.                                 *)
THEOREM CommittedEntriesOutvote ==
  ASSUME SafeElections, NoRestarts
  PROVE  Spec => []CommittedOutvotes
<1>1. CommitSound => CommittedOutvotes
  BY LackingIsOutvoted, ZenonT(60)
<1> QED
  BY <1>1, CommitInvariant, PTL

(* While no save fails, an entry that a node holds as committed is in the  *)
(* files of a majority: ReplicateCommand and AppendEntries save before     *)
(* they count or acknowledge.                                              *)
THEOREM CommittedEntriesAreDurable ==
  ASSUME SafeElections, NoRestarts, MaxFaults = 0
  PROVE  Spec => []CommittedDurable
<1>1. CommitSound => CommittedDurable
  BY CommittedSaved, ZenonT(60)
<1> QED
  BY <1>1, CommitInvariant, PTL

(* No step of any goroutine takes back a commitment: commitIndex does not  *)
(* fall, and AppendEntries never overwrites an entry below it.             *)
THEOREM CommitmentsAreStable ==
  ASSUME SafeElections, NoRestarts
  PROVE  Spec => CommittedStable
<1>1. CommitSound /\ CommitSound' /\ [CommitsStay]_vars
      => [\/ UNCHANGED <<log, logBase, commitIndex>>
          \/ \A n \in Server : \A i \in Committed(n) :
               /\ i <= commitIndex'[n]
               /\ Covers(n, i)' /\ At(n, i)' = At(n, i)]_vars
  BY CommittedNotTakenBack, ZenonT(60)
<1> QED
  BY <1>1, CommitInvariant, PTL DEF CommittedStable

(* The state machine of every node has been handed the entries up to       *)
(* lastApplied, each once and in order, and the log still has them.        *)
THEOREM AppliedEntriesAreThePrefix ==
  ASSUME SafeElections, NoRestarts
  PROVE  Spec => []AppliedPrefix
<1>1. CommitSound => AppliedPrefix
  BY AppliedIsPrefix, ZenonT(60)
<1> QED
  BY <1>1, CommitInvariant, PTL
=============================================================================
