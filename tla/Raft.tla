-------------------------------- MODULE Raft --------------------------------
(***************************************************************************)
(* The consensus layer (package raft): election, replication, commitment,  *)
(* persistence, compaction and restart of a cluster of nodes that talk     *)
(* over RPCs.                                                              *)
(*                                                                         *)
(* Every action is one critical section of Raft.mu: an RPC handler, or the *)
(* part of a goroutine between two releases of the mutex.  A goroutine     *)
(* that unlocks, calls a peer and locks again is three actions, so another *)
(* goroutine of the same node can run in between.                          *)
(*                                                                         *)
(* The network may delay, reorder and lose messages.  The record of a call *)
(* follows its goroutine: "call" before the request is built, "req" while  *)
(* the request travels, "resp" while the reply does ("icall", "ireq" and   *)
(* "iresp" once an append has turned into the transfer of a snapshot).  A  *)
(* call to a peer that cannot be dialled ends before it does anything and  *)
(* has no record.                                                          *)
(***************************************************************************)
EXTENDS Integers, Sequences, FiniteSets

CONSTANTS
    Server,           \* the nodes of cluster.yaml
    None,             \* -1: no vote, no known leader
    Campaigns,        \* bound: <<node, term>> of the elections that may start
    MaxCommands,      \* bound: client commands, numbered as they come
    MaxRestarts,      \* bound: process crashes, cluster-wide
    MaxFaults,        \* bound: failing Persister saves, cluster-wide
    MaxVoteCalls,     \* bound: live calls of sendRequestVote at any time
    MaxCalls,         \* bound: live calls of leaders' goroutines at any time
    Compaction,       \* snapshot_threshold > 0
    DurableRestarts,  \* crashes spare a term or vote that is not on disk
    PromptPromotion   \* no election timeout between winning and becomeLeader

ASSUME ServerAssumption == IsFiniteSet(Server) /\ None \notin Server
ASSUME CampaignsAssumption == Campaigns \subseteq Server \X (Nat \ {0})
ASSUME BoundsAssumption ==
    /\ {MaxCommands, MaxRestarts, MaxFaults, MaxVoteCalls, MaxCalls} \subseteq Nat
    /\ {Compaction, DurableRestarts, PromptPromotion} \subseteq BOOLEAN

VARIABLES
    currentTerm, votedFor, state, leaderId, votesReceived,
    timer,            \* timer[n]: the election timer is armed
    promoting,        \* promoting[n]: calls of becomeLeader that wait for mu
    log, logBase, snapshot, commitIndex, lastApplied,
    woken,            \* woken[n]: commitCh was signalled since the start
    kv,               \* kv[n]: the entries the state machine of n reflects
    nextIndex, matchIndex,
    disk,             \* disk[n]: raft-state.json
    diskSnap,         \* diskSnap[n]: snapshot.bin
    voteRpcs,         \* calls of sendRequestVote
    leaderRpcs,       \* calls of sendAppendEntries and sendInstallSnapshot
    pending,          \* calls of ReplicateCommand that poll commitIndex
    submitted,        \* how many commands have been submitted
    restarts, faults,
    ballots,          \* history: every vote given, <<voter, term, candidate>>
    voters,           \* history: whose votes votesReceived counts
    elected,          \* history: <<node, term>> of every becomeLeader
    leaderLog,        \* history: leaderLog[t]: the log of the leader of term t
    acks              \* history: <<node, term, index>>: node has answered that
                      \* it holds the log of the leader of term up to index

electionVars == <<currentTerm, votedFor, state, leaderId, votesReceived,
                  timer, promoting>>
commitVars   == <<commitIndex, woken>>
logVars      == <<log, logBase, snapshot, commitVars, lastApplied, kv>>
leaderVars   == <<nextIndex, matchIndex>>
diskVars     == <<disk, diskSnap>>
clientVars   == <<pending, submitted>>
historyVars  == <<ballots, voters, elected>>
logHistory   == <<leaderLog, acks>>
vars == <<electionVars, logVars, leaderVars, diskVars, voteRpcs, leaderRpcs,
          clientVars, restarts, faults, historyVars, logHistory>>

Follower  == "Follower"
Candidate == "Candidate"
Leader    == "Leader"

Entry    == [index : Nat, term : Nat, cmd : Nat]
Snap     == [index : Nat, term : Nat, data : Seq(Entry)]
NoSnap   == [index |-> 0, term |-> 0, data |-> << >>]
VoteRpc  == [cand : Server, peer : Server, term : Nat,
             phase : {"call", "req", "resp"}, lastIdx : Nat, lastTerm : Nat,
             rterm : Nat, granted : BOOLEAN]
LeaderRpc == [leader : Server, peer : Server, term : Nat, commit : Nat,
              phase : {"call", "req", "resp", "icall", "ireq", "iresp"},
              prev : Nat, prevTerm : Nat, entries : Seq(Entry), snap : Snap,
              match : Nat, rterm : Nat, success : BOOLEAN]

Peers(n) == Server \ {n}

LastIndex(n) == logBase[n] + Len(log[n])

(* The calls that can still change something: a goroutine that finds the   *)
(* election over, or the leadership gone, returns without effect.          *)
LiveVoteRpcs ==
    {r \in voteRpcs : r.phase = "resp" =>
       /\ state[r.cand] = Candidate /\ currentTerm[r.cand] = r.term
       /\ r.granted \/ r.rterm > r.term}

LiveLeaderRpcs ==
    {r \in leaderRpcs : r.phase \in {"call", "resp", "iresp"} =>
       state[r.leader] = Leader /\ currentTerm[r.leader] = r.term}

-----------------------------------------------------------------------------
(* Construction, persistence, restart: raft.go, persister.go               *)

Init ==
    /\ currentTerm   = [n \in Server |-> 0]
    /\ votedFor      = [n \in Server |-> None]
    /\ state         = [n \in Server |-> Follower]
    /\ leaderId      = [n \in Server |-> None]
    /\ votesReceived = [n \in Server |-> 0]
    /\ timer         = [n \in Server |-> TRUE]
    /\ promoting     = [n \in Server |-> 0]
    /\ log           = [n \in Server |-> << >>]
    /\ logBase       = [n \in Server |-> 0]
    /\ snapshot      = [n \in Server |-> NoSnap]
    /\ commitIndex   = [n \in Server |-> 0]
    /\ lastApplied   = [n \in Server |-> 0]
    /\ woken         = [n \in Server |-> FALSE]
    /\ kv            = [n \in Server |-> << >>]
    /\ nextIndex     = [n \in Server |-> [p \in Server |-> 1]]
    /\ matchIndex    = [n \in Server |-> [p \in Server |-> 0]]
    /\ disk          = [n \in Server |-> [term |-> 0, vote |-> None, log |-> << >>]]
    /\ diskSnap      = [n \in Server |-> NoSnap]
    /\ voteRpcs = {} /\ leaderRpcs = {}
    /\ pending = {} /\ submitted = 0 /\ restarts = 0 /\ faults = 0
    /\ ballots = {} /\ elected = {}
    /\ voters = [n \in Server |-> {}]
    /\ leaderLog = << >> /\ acks = {}

SavedStaleTerm(n, t, v, l) ==
    /\ disk' = [disk EXCEPT ![n] = [term |-> @.term, vote |-> v, log |-> l]]
    /\ UNCHANGED faults

(* Persister.Save replaces the whole file or, on an error, leaves it.      *)
Saved(n, t, v, l) ==
    /\ disk' = [disk EXCEPT ![n] = [term |-> t, vote |-> v, log |-> l]]
    /\ UNCHANGED faults

SaveFails ==
    /\ faults < MaxFaults
    /\ faults' = faults + 1
    /\ UNCHANGED disk

LastSaved(d) == IF d.log = << >> THEN 0 ELSE d.log[Len(d.log)].index

RestoredCommitNoFloor(d, s) == LastSaved(d)

(* loadPersistedState takes all that was saved for committed.              *)
RestoredCommit(d, s) == IF LastSaved(d) > s.index THEN LastSaved(d) ELSE s.index

(* The process of n dies and a new one loads raft-state d and snapshot s.  *)
(* The goroutines of n, the replies they wait for and the requests n was   *)
(* handling are gone; requests already sent are still in the network.      *)
Reboot(n, d, s, handling) ==
    LET commit == RestoredCommit(d, s)
    IN  /\ currentTerm' = [currentTerm EXCEPT ![n] = d.term]
        /\ votedFor' = [votedFor EXCEPT ![n] = d.vote]
        /\ state' = [state EXCEPT ![n] = Follower]
        /\ leaderId' = [leaderId EXCEPT ![n] = None]
        /\ votesReceived' = [votesReceived EXCEPT ![n] = 0]
        /\ timer' = [timer EXCEPT ![n] = TRUE]
        /\ promoting' = [promoting EXCEPT ![n] = 0]
        /\ log' = [log EXCEPT ![n] = d.log]
        /\ logBase' = [logBase EXCEPT ![n] = s.index]
        /\ snapshot' = [snapshot EXCEPT ![n] = s]
        /\ commitIndex' = [commitIndex EXCEPT ![n] = commit]
        /\ lastApplied' = [lastApplied EXCEPT ![n] =
                             IF s.index > 0 THEN s.index ELSE commit]
        /\ woken' = [woken EXCEPT ![n] = FALSE]
        /\ kv' = [kv EXCEPT ![n] = s.data]
        /\ nextIndex' = [nextIndex EXCEPT ![n] = [p \in Server |-> 1]]
        /\ matchIndex' = [matchIndex EXCEPT ![n] = [p \in Server |-> 0]]
        /\ disk' = [disk EXCEPT ![n] = d]
        /\ diskSnap' = [diskSnap EXCEPT ![n] = s]
        /\ voteRpcs' = {r \in voteRpcs : r.cand = n => r.phase = "req"}
        /\ leaderRpcs' = {r \in leaderRpcs \ handling :
                            r.leader = n => r.phase \in {"req", "ireq"}}
        /\ pending' = {c \in pending : c.node # n}
        /\ voters' = [voters EXCEPT ![n] = {}]
        /\ UNCHANGED <<submitted, faults, ballots, elected, logHistory>>

Restart(n) ==
    /\ restarts < MaxRestarts
    /\ DurableRestarts => /\ disk[n].term = currentTerm[n]
                          /\ disk[n].vote = votedFor[n]
    /\ Reboot(n, disk[n], diskSnap[n], {})
    /\ restarts' = restarts + 1

-----------------------------------------------------------------------------
(* Elections: election.go                                                  *)

(* getLastLogInfoLocked: the last entry of the slice, whatever logBase is. *)
LastLogInfo(l) ==
    IF l = << >> THEN [index |-> 0, term |-> 0]
    ELSE [index |-> l[Len(l)].index, term |-> l[Len(l)].term]

StopElectionTimer(n) == timer' = [timer EXCEPT ![n] = FALSE]

ResetElectionTimer(n) == timer' = [timer EXCEPT ![n] = TRUE]

(* The timer is re-armed, and the vote calls are spawned, only after the   *)
(* candidacy has been saved.  reached: the peers that can be dialled.      *)
BecomeCandidate(n, reached) ==
    LET t == currentTerm[n] + 1
        calls == {[cand |-> n, peer |-> p, term |-> t, phase |-> "call",
                   lastIdx |-> 0, lastTerm |-> 0, rterm |-> 0,
                   granted |-> FALSE] : p \in reached}
    IN  /\ timer[n] /\ <<n, t>> \in Campaigns
        /\ state[n] # Leader
        /\ PromptPromotion => promoting[n] = 0
        /\ state' = [state EXCEPT ![n] = Candidate]
        /\ currentTerm' = [currentTerm EXCEPT ![n] = t]
        /\ votedFor' = [votedFor EXCEPT ![n] = n]
        /\ leaderId' = [leaderId EXCEPT ![n] = None]
        /\ votesReceived' = [votesReceived EXCEPT ![n] = 1]
        /\ ballots' = ballots \cup {<<n, t, n>>}
        /\ voters' = [voters EXCEPT ![n] = {n}]
        /\ \/ /\ Saved(n, t, n, log[n])
              /\ Cardinality(LiveVoteRpcs \cup calls) <= MaxVoteCalls
              /\ voteRpcs' = voteRpcs \cup calls
              /\ promoting' = [promoting EXCEPT ![n] =
                                 IF Peers(n) = {} THEN @ + 1 ELSE @]
              /\ ResetElectionTimer(n)
           \/ /\ SaveFails /\ reached = {}
              /\ StopElectionTimer(n)
              /\ UNCHANGED <<voteRpcs, promoting>>
        /\ UNCHANGED <<logVars, leaderVars, diskSnap, leaderRpcs,
                       clientVars, restarts, elected, logHistory>>

VoteRequest(r, last) ==
    [r EXCEPT !.phase = "req", !.lastIdx = last.index, !.lastTerm = last.term]

(* The goroutine reads the log when it sends, not when it is spawned.      *)
SendRequestVote(r) ==
    /\ r.phase = "call"
    /\ voteRpcs' = (voteRpcs \ {r}) \cup
                     {VoteRequest(r, LastLogInfo(log[r.cand]))}
    /\ UNCHANGED <<electionVars, logVars, leaderVars, diskVars,
                   leaderRpcs, clientVars, restarts, faults, historyVars,
                   logHistory>>

LogOkAlways(r, l) == TRUE

LogOkByLength(r, l) == r.lastIdx >= LastLogInfo(l).index

(* The candidate's log is at least as up to date as l.                     *)
LogOk(r, l) ==
    LET last == LastLogInfo(l)
    IN  \/ r.lastTerm > last.term
        \/ r.lastTerm = last.term /\ r.lastIdx >= last.index

MayVoteAgain(vote, cand) == TRUE

MayVote(vote, cand) == vote \in {None, cand}

VoteReplyGrants(r, t, g) ==
    [r EXCEPT !.phase = "resp", !.lastIdx = 0, !.lastTerm = 0,
              !.rterm = t, !.granted = TRUE]

VoteReply(r, t, g) ==
    [r EXCEPT !.phase = "resp", !.lastIdx = 0, !.lastTerm = 0,
              !.rterm = t, !.granted = g]

(* The handler.  Adopting a newer term is not saved by itself; granting    *)
(* saves the state as it is before votedFor is assigned.                   *)
RequestVote(r) ==
    LET n     == r.peer
        newer == r.term > currentTerm[n]
        term  == IF newer THEN r.term ELSE currentTerm[n]
        vote  == IF newer THEN None ELSE votedFor[n]
        grant == /\ r.term >= currentTerm[n]
                 /\ MayVote(vote, r.cand)
                 /\ LogOk(r, log[n])
    IN  /\ r.phase = "req"
        /\ currentTerm' = [currentTerm EXCEPT ![n] = term]
        /\ state' = [state EXCEPT ![n] = IF newer THEN Follower ELSE @]
        /\ \/ /\ ~grant
              /\ votedFor' = [votedFor EXCEPT ![n] = vote]
              /\ voteRpcs' = (voteRpcs \ {r}) \cup {VoteReply(r, term, FALSE)}
              /\ UNCHANGED <<timer, disk, faults, ballots>>
           \/ /\ grant
              /\ Saved(n, term, vote, log[n])
              /\ votedFor' = [votedFor EXCEPT ![n] = r.cand]
              /\ ResetElectionTimer(n)
              /\ ballots' = ballots \cup {<<n, term, r.cand>>}
              /\ voteRpcs' = (voteRpcs \ {r}) \cup {VoteReply(r, term, TRUE)}
           \/ /\ grant
              /\ SaveFails
              /\ votedFor' = [votedFor EXCEPT ![n] = vote]
              /\ voteRpcs' = voteRpcs \ {r}
              /\ UNCHANGED <<timer, ballots>>
        /\ UNCHANGED <<leaderId, votesReceived, promoting, logVars, leaderVars,
                       diskSnap, leaderRpcs, clientVars, restarts,
                       voters, elected, logHistory>>

(* stepDown: neither saved nor followed by a reset of the election timer.  *)
StepDown(n, t) ==
    /\ currentTerm' = [currentTerm EXCEPT ![n] = t]
    /\ votedFor' = [votedFor EXCEPT ![n] = None]
    /\ state' = [state EXCEPT ![n] = Follower]
    /\ leaderId' = [leaderId EXCEPT ![n] = None]
    /\ votesReceived' = [votesReceived EXCEPT ![n] = 0]

VoteCountsLate(r) == state[r.cand] = Candidate

(* The election the vote was asked for is still on.                        *)
VoteCounts(r) == currentTerm[r.cand] = r.term /\ state[r.cand] = Candidate

(* The end of sendRequestVote.  A majority is len(peers)/2 votes exceeded; *)
(* the mutex is then released before becomeLeader takes it again.          *)
HandleVoteReply(r) ==
    LET n       == r.cand
        current == VoteCounts(r)
        votes   == votesReceived[n] + 1
    IN  /\ r.phase = "resp"
        /\ voteRpcs' = voteRpcs \ {r}
        /\ \/ /\ ~current \/ (r.rterm <= currentTerm[n] /\ ~r.granted)
              /\ UNCHANGED <<electionVars, voters>>
           \/ /\ current /\ r.rterm > currentTerm[n]
              /\ StepDown(n, r.rterm)
              /\ UNCHANGED <<timer, promoting, voters>>
           \/ /\ current /\ r.rterm <= currentTerm[n] /\ r.granted
              /\ votesReceived' = [votesReceived EXCEPT ![n] = votes]
              /\ voters' = [voters EXCEPT ![n] = @ \cup {r.peer}]
              /\ promoting' = [promoting EXCEPT ![n] =
                     IF votes > Cardinality(Peers(n)) \div 2 THEN @ + 1 ELSE @]
              /\ UNCHANGED <<currentTerm, votedFor, state, leaderId, timer>>
        /\ UNCHANGED <<logVars, leaderVars, diskVars, leaderRpcs,
                       clientVars, restarts, faults, ballots, elected,
                       logHistory>>

(* becomeLeader, entered without the mutex and without the term that won.  *)
BecomeLeader(n) ==
    LET last == LastLogInfo(log[n]).index
    IN  /\ promoting[n] > 0
        /\ promoting' = [promoting EXCEPT ![n] = @ - 1]
        /\ \/ /\ state[n] = Candidate
              /\ state' = [state EXCEPT ![n] = Leader]
              /\ leaderId' = [leaderId EXCEPT ![n] = n]
              /\ nextIndex' = [nextIndex EXCEPT ![n] = [p \in Server |-> last + 1]]
              /\ matchIndex' = [matchIndex EXCEPT ![n] = [p \in Server |-> 0]]
              /\ StopElectionTimer(n)
              /\ elected' = elected \cup {<<n, currentTerm[n]>>}
              /\ leaderLog' = [t \in DOMAIN leaderLog \cup {currentTerm[n]} |->
                                 IF t = currentTerm[n] THEN log[n]
                                                       ELSE leaderLog[t]]
           \/ /\ state[n] # Candidate
              /\ UNCHANGED <<state, leaderId, leaderVars, timer, elected,
                             leaderLog>>
        /\ UNCHANGED <<currentTerm, votedFor, votesReceived, logVars, diskVars,
                       voteRpcs, leaderRpcs, clientVars, restarts,
                       faults, ballots, voters, acks>>

-----------------------------------------------------------------------------
(* Replication: replication.go                                             *)

(* The calls of sendAppendEntries to the peers that can be dialled.        *)
Spawn(n, reached, commit) ==
    LET calls ==
          {[leader |-> n, peer |-> p, term |-> currentTerm[n], commit |-> commit,
            phase |-> "call", prev |-> 0, prevTerm |-> 0, entries |-> << >>,
            snap |-> NoSnap, match |-> 0, rterm |-> 0, success |-> FALSE] :
              p \in reached}
    IN  /\ Cardinality(LiveLeaderRpcs \cup calls) <= MaxCalls
        /\ leaderRpcs' = leaderRpcs \cup calls

(* The call r moves on to the record s.                                    *)
Advance(r, s) == leaderRpcs' = (leaderRpcs \ {r}) \cup {s}

(* One tick of the heartbeat goroutine: the commit index is read here and  *)
(* travels with the calls, whenever they are made.                         *)
SendHeartbeats(n, reached) ==
    /\ state[n] = Leader
    /\ Spawn(n, reached, commitIndex[n])
    /\ UNCHANGED <<electionVars, logVars, leaderVars, diskVars, voteRpcs,
                   clientVars, restarts, faults, historyVars, logHistory>>

AppendRequest(r, prev, pterm, es) ==
    [r EXCEPT !.phase = "req", !.prev = prev, !.prevTerm = pterm,
              !.entries = es]

(* sendAppendEntries up to the call.  A peer behind logBase is sent the    *)
(* snapshot; a prev outside the slice falls back to 0; the entries stop at *)
(* absolute index len(log).                                                *)
SendAppendEntries(r) ==
    LET n     == r.leader
        base  == logBase[n]
        wish  == nextIndex[n][r.peer] - 1
        prev  == IF wish - base \in 1 .. Len(log[n]) THEN wish ELSE 0
        first == prev + 1
        pterm == IF prev > 0 THEN log[n][prev - base].term ELSE 0
        es    == IF first <= base THEN << >>
                 ELSE SubSeq(log[n], first - base, Len(log[n]) - base)
    IN  /\ r.phase = "call"
        /\ \/ /\ state[n] # Leader \/ currentTerm[n] # r.term
              /\ leaderRpcs' = leaderRpcs \ {r}
           \/ /\ state[n] = Leader /\ currentTerm[n] = r.term /\ wish < base
              /\ Advance(r, [r EXCEPT !.phase = "icall"])
           \/ /\ state[n] = Leader /\ currentTerm[n] = r.term /\ wish >= base
              /\ Advance(r, AppendRequest(r, prev, pterm, es))
        /\ UNCHANGED <<electionVars, logVars, leaderVars, diskVars, voteRpcs,
                       clientVars, restarts, faults, historyVars, logHistory>>

CommitSilently(n, i) ==
    commitIndex' = [commitIndex EXCEPT ![n] = i] /\ UNCHANGED woken

(* The commit index moves to i; signalCommit if that is forward.           *)
Commit(n, i) ==
    /\ commitIndex' = [commitIndex EXCEPT ![n] = i]
    /\ woken' = [woken EXCEPT ![n] = @ \/ i > commitIndex[n]]

PrevOkAnyTerm(n, r) == r.prev = 0 \/ r.prev - logBase[n] \in 1 .. Len(log[n])

(* Rule 3 of AppendEntries: the slice has the entry before the new ones.   *)
PrevOk(n, r) ==
    \/ r.prev = 0
    \/ /\ r.prev - logBase[n] \in 1 .. Len(log[n])
       /\ log[n][r.prev - logBase[n]].term = r.prevTerm

MergeTruncates(l, off, es) == SubSeq(l, 1, off) \o es

(* Rule 4 of AppendEntries: es continues l after its first off entries; l  *)
(* is cut at the first entry that is missing or has another term.          *)
MergeEntries(l, off, es) ==
    LET Differs(i) == off + i > Len(l) \/ l[off + i].term # es[i].term
        cut == {i \in 1 .. Len(es) :
                  Differs(i) /\ \A j \in 1 .. i - 1 : ~Differs(j)}
    IN  IF cut = {} THEN l
        ELSE LET i == CHOOSE i \in cut : TRUE
             IN  SubSeq(l, 1, off + i - 1) \o SubSeq(es, i, Len(es))

(* Rule 6 of AppendEntries: the leader's commit index, capped at the last  *)
(* entry of the request; it never falls.                                   *)
LeaderCommit(n, r) ==
    LET lastNew == r.prev + Len(r.entries)
        new     == IF r.commit > lastNew THEN lastNew ELSE r.commit
    IN  IF new > commitIndex[n] THEN new ELSE commitIndex[n]

AppendReplyShort(r, t, ok) ==
    [r EXCEPT !.phase = "resp", !.prev = 0, !.prevTerm = 0, !.entries = << >>,
              !.match = r.prev + Len(r.entries) - 1, !.rterm = t, !.success = ok]

(* The reply, with the index up to which a success says the logs match.    *)
AppendReply(r, t, ok) ==
    [r EXCEPT !.phase = "resp", !.prev = 0, !.prevTerm = 0, !.entries = << >>,
              !.match = r.prev + Len(r.entries), !.rterm = t, !.success = ok]

(* The handler.  A follower that has compacted its log is indexed below    *)
(* its first entry by a request that starts at index 1: the process dies.  *)
AppendEntries(r) ==
    LET n       == r.peer
        newer   == r.term > currentTerm[n]
        vote    == IF newer THEN None ELSE votedFor[n]
        role    == IF newer THEN Follower ELSE state[n]
        off     == r.prev - logBase[n]
        prevOk  == PrevOk(n, r)
        merged  == MergeEntries(log[n], off, r.entries)
        Succeed == /\ Advance(r, AppendReply(r, r.term, TRUE))
                   /\ Commit(n, LeaderCommit(n, r))
                   /\ acks' = acks \cup {<<n, r.term, r.prev + Len(r.entries)>>}
        FromLeader ==
            /\ r.term >= currentTerm[n]
            /\ currentTerm' = [currentTerm EXCEPT ![n] = r.term]
            /\ votedFor' = [votedFor EXCEPT ![n] = vote]
            /\ state' = [state EXCEPT ![n] = role]
            /\ leaderId' = [leaderId EXCEPT ![n] =
                              IF role # Leader THEN r.leader ELSE @]
            /\ ResetElectionTimer(n)
            /\ \/ /\ ~prevOk
                  /\ Advance(r, AppendReply(r, r.term, FALSE))
                  /\ UNCHANGED <<log, commitVars, disk, faults, acks>>
               \/ /\ prevOk /\ (off >= 0 \/ r.entries = << >>)
                  /\ log' = [log EXCEPT ![n] = merged]
                  /\ \/ /\ merged = log[n]
                        /\ Succeed
                        /\ UNCHANGED <<disk, faults>>
                     \/ /\ merged # log[n]
                        /\ Saved(n, r.term, vote, merged)
                        /\ Succeed
                     \/ /\ merged # log[n]
                        /\ SaveFails
                        /\ leaderRpcs' = leaderRpcs \ {r}
                        /\ UNCHANGED <<commitVars, acks>>
            /\ UNCHANGED <<votesReceived, promoting, logBase, snapshot,
                           lastApplied, kv, leaderVars, diskSnap, voteRpcs,
                           clientVars, restarts, historyVars, leaderLog>>
    IN  /\ r.phase = "req"
        /\ \/ FromLeader
           \/ /\ r.term >= currentTerm[n] /\ prevOk
              /\ off < 0 /\ r.entries # << >>
              /\ Reboot(n, disk[n], diskSnap[n], {r})
              /\ UNCHANGED restarts
           \/ /\ r.term < currentTerm[n]
              /\ Advance(r, AppendReply(r, currentTerm[n], FALSE))
              /\ UNCHANGED <<electionVars, logVars, leaderVars, diskVars,
                             voteRpcs, clientVars, restarts, faults,
                             historyVars, logHistory>>

OnHalf(n, match, i) ==
    1 + Cardinality({p \in Peers(n) : match[p] >= i}) >= Cardinality(Server) \div 2

OnMajority(n, match, i) ==
    1 + Cardinality({p \in Peers(n) : match[p] >= i}) > Cardinality(Server) \div 2

CommitsAnyTerm(n, e) == TRUE

(* The rule of Figure 8: only entries of the current term are counted.     *)
CommitsDirectly(n, e) == e.term = currentTerm[n]

(* updateCommitIndex scans down to the highest index on a majority, and    *)
(* commits it if its entry is of the current term.                         *)
UpdateCommitIndex(n, l, match) ==
    LET range == {i \in commitIndex[n] + 1 .. logBase[n] + Len(l) : i > logBase[n]}
        new == {i \in range :
                  /\ OnMajority(n, match, i)
                  /\ \A j \in range : j > i => ~OnMajority(n, match, j)
                  /\ CommitsDirectly(n, l[i - logBase[n]])}
    IN  IF new = {} THEN commitIndex[n] ELSE CHOOSE i \in new : TRUE

MatchedToEnd(n, p, match) ==
    /\ matchIndex' = [matchIndex EXCEPT ![n][p] = LastIndex(n)]
    /\ nextIndex' = [nextIndex EXCEPT ![n][p] = LastIndex(n) + 1]
    /\ Commit(n, UpdateCommitIndex(n, log[n],
                                   [matchIndex[n] EXCEPT ![p] = LastIndex(n)]))

(* What a leader learns when peer p holds its log up to match.             *)
Matched(n, p, match) ==
    LET m == IF match > matchIndex[n][p] THEN match ELSE matchIndex[n][p]
    IN  /\ matchIndex' = [matchIndex EXCEPT ![n][p] = m]
        /\ nextIndex' = [nextIndex EXCEPT ![n][p] = m + 1]
        /\ Commit(n, UpdateCommitIndex(n, log[n], [matchIndex[n] EXCEPT ![p] = m]))

Retry(r) == [r EXCEPT !.phase = "call", !.match = 0, !.rterm = 0]

(* The end of sendAppendEntries.  A refused call is made again at once,    *)
(* with the commit index it had.                                           *)
HandleAppendReply(r) ==
    LET n       == r.leader
        current == state[n] = Leader /\ currentTerm[n] = r.term
    IN  /\ r.phase = "resp"
        /\ \/ /\ ~current
              /\ leaderRpcs' = leaderRpcs \ {r}
              /\ UNCHANGED <<electionVars, leaderVars, commitVars>>
           \/ /\ current /\ r.rterm > r.term
              /\ StepDown(n, r.rterm)
              /\ leaderRpcs' = leaderRpcs \ {r}
              /\ UNCHANGED <<timer, promoting, leaderVars, commitVars>>
           \/ /\ current /\ r.rterm <= r.term /\ r.success
              /\ Matched(n, r.peer, r.match)
              /\ leaderRpcs' = leaderRpcs \ {r}
              /\ UNCHANGED electionVars
           \/ /\ current /\ r.rterm <= r.term /\ ~r.success
              /\ nextIndex' = [nextIndex EXCEPT ![n][r.peer] =
                                 IF @ > 1 THEN @ - 1 ELSE @]
              /\ Advance(r, Retry(r))
              /\ UNCHANGED <<electionVars, matchIndex, commitVars>>
        /\ UNCHANGED <<log, logBase, snapshot, lastApplied, kv, diskVars,
                       voteRpcs, clientVars, restarts, faults, historyVars,
                       logHistory>>

(* ReplicateCommand up to its polling loop, which only reads commitIndex:  *)
(* the call returns success once commitIndex >= index (see Acknowledged).  *)
ReplicateCommand(n, reached) ==
    LET c      == submitted + 1
        index  == LastIndex(n) + 1
        new    == Append(log[n], [index |-> index, term |-> currentTerm[n],
                                  cmd |-> c])
        commit == UpdateCommitIndex(n, new, matchIndex[n])
    IN  /\ state[n] = Leader /\ submitted < MaxCommands
        /\ submitted' = c
        /\ \/ /\ Saved(n, currentTerm[n], votedFor[n], new)
              /\ log' = [log EXCEPT ![n] = new]
              /\ Commit(n, commit)
              /\ Spawn(n, reached, commit)
              /\ pending' = pending \cup
                              {[node |-> n, index |-> index, cmd |-> c]}
              /\ leaderLog' = [leaderLog EXCEPT ![currentTerm[n]] = new]
              /\ acks' = acks \cup {<<n, currentTerm[n], index>>}
           \/ /\ SaveFails /\ reached = {}
              /\ UNCHANGED <<log, commitVars, leaderRpcs, pending, logHistory>>
        /\ UNCHANGED <<electionVars, logBase, snapshot, lastApplied, kv,
                       leaderVars, diskSnap, voteRpcs, restarts, historyVars>>

Acknowledged(c) == commitIndex[c.node] >= c.index

(* One turn of applyPendingEntries: the entry is copied out and counted    *)
(* under the mutex.  The apply loop sleeps until the first commit of this  *)
(* process is signalled; from then on every commit it has to apply is.     *)
ApplyPendingEntries(n) ==
    LET a == lastApplied[n] + 1 - logBase[n]
    IN  /\ woken[n] /\ lastApplied[n] < commitIndex[n]
        /\ a \in 1 .. Len(log[n])
        /\ lastApplied' = [lastApplied EXCEPT ![n] = @ + 1]
        /\ kv' = [kv EXCEPT ![n] = Append(@, log[n][a])]
        /\ UNCHANGED <<electionVars, log, logBase, snapshot, commitVars,
                       leaderVars, diskVars, voteRpcs, leaderRpcs, clientVars,
                       restarts, faults, historyVars, logHistory>>

-----------------------------------------------------------------------------
(* Compaction: snapshot.go and InstallSnapshot in replication.go           *)

(* The entries of l at the positions K, in order: what a loop over l that  *)
(* appends the entries it wants collects.                                  *)
Kept(l, K) ==
    [j \in 1 .. Cardinality(K) |->
       l[CHOOSE k \in K : Cardinality({x \in K : x <= k}) = j]]

TailFrom(l, i) == Kept(l, {k \in 1 .. Len(l) : l[k].index >= i})

TailAfter(l, i) == Kept(l, {k \in 1 .. Len(l) : l[k].index > i})

(* The entry at i is in the slice where logBase says it is.                *)
HasEntry(n, i) ==
    i - logBase[n] \in 1 .. Len(log[n]) /\ log[n][i - logBase[n]].index = i

SnapshotBefore(n, i) ==
    [index |-> i, term |-> log[n][i - logBase[n]].term,
     data |-> Kept(kv[n], {k \in 1 .. Len(kv[n]) : kv[n][k].index < i})]

SnapshotAt(n, i) ==
    [index |-> i, term |-> log[n][i - logBase[n]].term,
     data |-> Kept(kv[n], {k \in 1 .. Len(kv[n]) : kv[n][k].index <= i})]

(* Snapshot, called by the state machine of n when it has applied i.       *)
CanSnapshot(n, i) ==
    Compaction /\ i <= commitIndex[n] /\ i > logBase[n] /\ HasEntry(n, i)

Compact(n, s, l) ==
    /\ log' = [log EXCEPT ![n] = l]
    /\ logBase' = [logBase EXCEPT ![n] = s.index]
    /\ snapshot' = [snapshot EXCEPT ![n] = s]

(* The two saves, raft-state first: both succeed, or one fails.            *)
SavedBoth(n, t, v, l, s) ==
    /\ Saved(n, t, v, l)
    /\ diskSnap' = [diskSnap EXCEPT ![n] = s]

SnapshotSaveFails(n, t, v, l) ==
    /\ faults < MaxFaults
    /\ faults' = faults + 1
    /\ disk' = [disk EXCEPT ![n] = [term |-> t, vote |-> v, log |-> l]]
    /\ UNCHANGED diskSnap

Snapshot(n, i) ==
    LET s == SnapshotAt(n, i)
        l == SubSeq(log[n], i - logBase[n] + 1, Len(log[n]))
    IN  /\ CanSnapshot(n, i)
        /\ Compact(n, s, l)
        /\ \/ SavedBoth(n, currentTerm[n], votedFor[n], l, s)
           \/ SaveFails /\ UNCHANGED diskSnap
           \/ SnapshotSaveFails(n, currentTerm[n], votedFor[n], l)
        /\ UNCHANGED <<electionVars, commitVars, lastApplied, kv, leaderVars,
                       voteRpcs, leaderRpcs, clientVars, restarts,
                       historyVars, logHistory>>

(* The process dies between the two saves of Snapshot.                     *)
CrashInSnapshot(n, i) ==
    /\ restarts < MaxRestarts
    /\ CanSnapshot(n, i)
    /\ Reboot(n, [term |-> currentTerm[n], vote |-> votedFor[n],
                  log |-> SubSeq(log[n], i - logBase[n] + 1, Len(log[n]))],
              diskSnap[n], {})
    /\ restarts' = restarts + 1

(* sendInstallSnapshot up to the call: the snapshot is read without asking *)
(* whether the node still leads the term of the call.                      *)
SendInstallSnapshot(r) ==
    /\ r.phase = "icall"
    /\ snapshot[r.leader].index > 0
    /\ Advance(r, [r EXCEPT !.phase = "ireq", !.snap = snapshot[r.leader]])
    /\ UNCHANGED <<electionVars, logVars, leaderVars, diskVars, voteRpcs,
                   clientVars, restarts, faults, historyVars, logHistory>>

(* The snapshot is behind the commit index, or the slice has an entry of   *)
(* another term at its index: the handler answers and changes nothing.     *)
Discards(n, s) ==
    \/ s.index <= commitIndex[n]
    \/ HasEntry(n, s.index) /\ log[n][s.index - logBase[n]].term # s.term

InstallReply(r, t) ==
    Advance(r, [r EXCEPT !.phase = "iresp", !.snap = NoSnap,
                         !.match = r.snap.index, !.rterm = t])

(* The handler.  The state machine is handed the snapshot only after both  *)
(* saves; lastApplied is moved before them.                                *)
InstallSnapshot(r) ==
    LET n     == r.peer
        newer == r.term > currentTerm[n]
        vote  == IF newer THEN None ELSE votedFor[n]
        l     == TailAfter(log[n], r.snap.index)
        FromLeader ==
            /\ r.term >= currentTerm[n]
            /\ currentTerm' = [currentTerm EXCEPT ![n] = r.term]
            /\ votedFor' = [votedFor EXCEPT ![n] = vote]
            /\ state' = [state EXCEPT ![n] = IF newer THEN Follower ELSE @]
            /\ votesReceived' = [votesReceived EXCEPT ![n] =
                                   IF newer THEN 0 ELSE @]
            /\ leaderId' = [leaderId EXCEPT ![n] = r.leader]
            /\ ResetElectionTimer(n)
            /\ \/ /\ Discards(n, r.snap)
                  /\ InstallReply(r, r.term)
                  /\ UNCHANGED <<log, logBase, snapshot, commitIndex,
                                 lastApplied, kv, diskVars, faults>>
               \/ /\ ~Discards(n, r.snap)
                  /\ Compact(n, r.snap, l)
                  /\ commitIndex' = [commitIndex EXCEPT ![n] = r.snap.index]
                  /\ lastApplied' = [lastApplied EXCEPT ![n] = r.snap.index]
                  /\ \/ /\ SavedBoth(n, r.term, vote, l, r.snap)
                        /\ kv' = [kv EXCEPT ![n] = r.snap.data]
                        /\ InstallReply(r, r.term)
                     \/ /\ \/ SaveFails /\ UNCHANGED diskSnap
                           \/ SnapshotSaveFails(n, r.term, vote, l)
                        /\ leaderRpcs' = leaderRpcs \ {r}
                        /\ UNCHANGED kv
            /\ UNCHANGED <<promoting, woken>>
    IN  /\ r.phase = "ireq"
        /\ \/ FromLeader
           \/ /\ r.term < currentTerm[n]
              /\ InstallReply(r, currentTerm[n])
              /\ UNCHANGED <<electionVars, logVars, diskVars, faults>>
        /\ UNCHANGED <<leaderVars, voteRpcs, clientVars, restarts, historyVars,
                       logHistory>>

(* The process dies between the two saves of InstallSnapshot.              *)
CrashInInstall(r) ==
    LET n == r.peer
    IN  /\ r.phase = "ireq" /\ restarts < MaxRestarts
        /\ r.term >= currentTerm[n] /\ ~Discards(n, r.snap)
        /\ Reboot(n, [term |-> r.term,
                      vote |-> IF r.term > currentTerm[n] THEN None
                                                          ELSE votedFor[n],
                      log |-> TailAfter(log[n], r.snap.index)],
                  diskSnap[n], {r})
        /\ restarts' = restarts + 1

(* The end of sendInstallSnapshot: every answer in the term is a success.  *)
HandleInstallReply(r) ==
    LET n       == r.leader
        current == state[n] = Leader /\ currentTerm[n] = r.term
    IN  /\ r.phase = "iresp"
        /\ leaderRpcs' = leaderRpcs \ {r}
        /\ \/ /\ ~current
              /\ UNCHANGED <<electionVars, leaderVars, commitVars>>
           \/ /\ current /\ r.rterm > r.term
              /\ StepDown(n, r.rterm)
              /\ UNCHANGED <<timer, promoting, leaderVars, commitVars>>
           \/ /\ current /\ r.rterm <= r.term
              /\ Matched(n, r.peer, r.match)
              /\ UNCHANGED electionVars
        /\ UNCHANGED <<log, logBase, snapshot, lastApplied, kv, diskVars,
                       voteRpcs, clientVars, restarts, faults, historyVars,
                       logHistory>>

-----------------------------------------------------------------------------
(* A call that fails: a lost message, or the call's timeout.               *)
LoseRpc ==
    /\ \/ \E r \in voteRpcs : voteRpcs' = voteRpcs \ {r} /\ UNCHANGED leaderRpcs
       \/ \E r \in leaderRpcs : leaderRpcs' = leaderRpcs \ {r} /\ UNCHANGED voteRpcs
    /\ UNCHANGED <<electionVars, logVars, leaderVars, diskVars, clientVars,
                   restarts, faults, historyVars, logHistory>>

Next ==
    \/ \E n \in Server :
         \/ BecomeLeader(n)
         \/ \E reached \in SUBSET Peers(n) :
              \/ BecomeCandidate(n, reached)
              \/ SendHeartbeats(n, reached)
              \/ ReplicateCommand(n, reached)
         \/ ApplyPendingEntries(n)
         \/ Restart(n)
         \/ \E i \in 1 .. lastApplied[n] : Snapshot(n, i) \/ CrashInSnapshot(n, i)
    \/ \E r \in voteRpcs :
         SendRequestVote(r) \/ RequestVote(r) \/ HandleVoteReply(r)
    \/ \E r \in leaderRpcs :
         \/ SendAppendEntries(r) \/ AppendEntries(r) \/ HandleAppendReply(r)
         \/ SendInstallSnapshot(r) \/ InstallSnapshot(r) \/ CrashInInstall(r)
         \/ HandleInstallReply(r)
    \/ LoseRpc

Spec == Init /\ [][Next]_vars

-----------------------------------------------------------------------------
(* Properties                                                              *)

ElectionTypeOK ==
    /\ currentTerm \in [Server -> Nat]
    /\ votedFor \in [Server -> Server \cup {None}]
    /\ state \in [Server -> {Follower, Candidate, Leader}]
    /\ leaderId \in [Server -> Server \cup {None}]
    /\ votesReceived \in [Server -> Nat]
    /\ timer \in [Server -> BOOLEAN]
    /\ promoting \in [Server -> Nat]

LogTypeOK ==
    /\ log \in [Server -> Seq(Entry)]
    /\ logBase \in [Server -> Nat]
    /\ snapshot \in [Server -> Snap]
    /\ commitIndex \in [Server -> Nat]
    /\ lastApplied \in [Server -> Nat]
    /\ woken \in [Server -> BOOLEAN]
    /\ kv \in [Server -> Seq(Entry)]

LeaderTypeOK ==
    /\ nextIndex \in [Server -> [Server -> Nat \ {0}]]
    /\ matchIndex \in [Server -> [Server -> Nat]]

DiskTypeOK ==
    /\ disk \in [Server -> [term : Nat, vote : Server \cup {None},
                            log : Seq(Entry)]]
    /\ diskSnap \in [Server -> Snap]

NetworkTypeOK == voteRpcs \subseteq VoteRpc /\ leaderRpcs \subseteq LeaderRpc

ClientTypeOK ==
    /\ pending \subseteq [node : Server, index : Nat, cmd : Nat]
    /\ submitted \in 0 .. MaxCommands
    /\ restarts \in 0 .. MaxRestarts
    /\ faults \in 0 .. MaxFaults

HistoryTypeOK ==
    /\ ballots \subseteq Server \X Nat \X Server
    /\ voters \in [Server -> SUBSET Server]
    /\ elected \subseteq Server \X Nat

LogHistoryTypeOK ==
    /\ DOMAIN leaderLog \subseteq Nat
    /\ leaderLog \in [DOMAIN leaderLog -> Seq(Entry)]
    /\ acks \subseteq Server \X Nat \X Nat

StateTypeOK ==
    /\ ElectionTypeOK /\ LogTypeOK /\ LeaderTypeOK /\ DiskTypeOK
    /\ NetworkTypeOK /\ ClientTypeOK /\ HistoryTypeOK

(* Every variable of the nodes, their disks and the network has its type.  *)
TypeOK == StateTypeOK /\ LogHistoryTypeOK

Majority(S) == 2 * Cardinality(S) > Cardinality(Server)

(* becomeLeader makes at most one node leader of a term, over the whole    *)
(* history of the cluster: elections of different candidates, late vote    *)
(* replies and restarts never give a term a second leader.                 *)
ElectionSafety ==
    \A e1, e2 \in elected : e1[2] = e2[2] => e1[1] = e2[1]

(* RequestVote and becomeCandidate give a node's vote of a term to at most *)
(* one candidate, over the whole history of the cluster.                   *)
VoteOnce ==
    \A b1, b2 \in ballots : b1[1] = b2[1] /\ b1[2] = b2[2] => b1[3] = b2[3]

Supporters(e) == {v \in Server : <<v, e[2], e[1]>> \in ballots}

(* A node that becomeLeader promotes in a term was given the votes of more *)
(* than half of the cluster in that term: the count in votesReceived, made *)
(* under the mutex, still speaks of the term in which it is acted upon.    *)
LeaderHasMajority == \A e \in elected : Majority(Supporters(e))

(* Until a save fails, some node leads or has its election timer armed: a  *)
(* leader that a newer term deposes does not re-arm its own, but whoever   *)
(* brought about that term does, in becomeCandidate or on restarting.      *)
SomeoneCampaigns ==
    faults = 0 => \E n \in Server : state[n] = Leader \/ timer[n]

Covers(n, i) == i - logBase[n] \in 1 .. Len(log[n])
At(n, i)     == log[n][i - logBase[n]]
Committed(n) == {i \in 1 .. commitIndex[n] : Covers(n, i)}

(* AppendEntries keeps two logs equal up to any index where they have an   *)
(* entry of the same term: once they differ, they share no later entry.    *)
LogMatching ==
    \A n, m \in Server : \A i \in 1 .. LastIndex(n) :
        Covers(n, i) /\ Covers(m, i) /\ At(n, i) # At(m, i)
          => \A j \in i .. LastIndex(n) :
               Covers(m, j) => At(n, j).term # At(m, j).term

(* A leader's log has every entry that a node of its own or an older term  *)
(* holds as committed: neither the vote rule of RequestVote nor the commit *)
(* rule of updateCommitIndex lets a committed entry go missing.            *)
LeaderCompleteness ==
    \A l, n \in Server : \A i \in Committed(n) :
        (state[l] = Leader /\ currentTerm[n] <= currentTerm[l] /\ i > logBase[l])
          => Covers(l, i) /\ At(l, i) = At(n, i)

(* The vote rule of RequestVote denies a majority to any node that lacks a *)
(* committed entry: such a node and the nodes whose logs would let them    *)
(* vote for it are never more than half of the cluster.                    *)
CommittedOutvotes ==
    \A n, c \in Server : \A i \in Committed(n) :
        LET last   == LastLogInfo(log[c])
            ballot == [lastIdx |-> last.index, lastTerm |-> last.term]
        IN  \/ i <= logBase[c]
            \/ Covers(c, i) /\ At(c, i) = At(n, i)
            \/ ~Majority({c} \cup {v \in Server : LogOk(ballot, log[v])})

(* Two nodes never hold different entries as committed at an index: their  *)
(* apply loops hand the same commands, in the same order, to both state    *)
(* machines, whoever led when the entries were committed.                  *)
StateMachineSafety ==
    \A n, m \in Server : \A i \in Committed(n) \cap Committed(m) :
        At(n, i) = At(m, i)

OnDisk(m, e) ==
    \/ \E k \in 1 .. Len(disk[m].log) : disk[m].log[k] = e
    \/ \E k \in 1 .. Len(diskSnap[m].data) : diskSnap[m].data[k] = e

(* An entry that updateCommitIndex or AppendEntries counts as committed is *)
(* in the files of a majority of the nodes.                                *)
CommittedDurable ==
    \A n \in Server : \A i \in Committed(n) :
        Majority({m \in Server : OnDisk(m, At(n, i))})

(* What a leader counts as replicated on a peer that has not moved to a    *)
(* newer term is in that peer's log, whatever the order in which the       *)
(* replies of concurrent calls to it were handled.                         *)
MatchIndexSound ==
    \A l \in Server : \A p \in Peers(l) :
        (state[l] = Leader /\ currentTerm[p] <= currentTerm[l])
          => \A i \in 1 .. matchIndex[l][p] :
               Covers(l, i) /\ i > logBase[p]
                 => Covers(p, i) /\ At(p, i) = At(l, i)

(* A call of ReplicateCommand that finds the commit index at its target    *)
(* reports success for the command it appended, not for another one that   *)
(* has taken its place in the log.                                         *)
AckSound ==
    \A c \in pending :
        Acknowledged(c) /\ Covers(c.node, c.index)
          => At(c.node, c.index).cmd = c.cmd

(* The position of every entry in the slice is the one that logBase and    *)
(* the entry's index say, at every read site.                              *)
LogIndexed ==
    \A n \in Server : \A i \in 1 .. Len(log[n]) : log[n][i].index = logBase[n] + i

(* The state machine has been handed every entry up to lastApplied, once   *)
(* and in order, through snapshots and single entries alike, and each one  *)
(* as the log still has it.                                                *)
AppliedPrefix ==
    \A n \in Server :
        /\ Len(kv[n]) = lastApplied[n]
        /\ \A i \in 1 .. Len(kv[n]) : /\ kv[n][i].index = i
                                      /\ Covers(n, i) => kv[n][i] = At(n, i)

(* What is compacted has been applied, and what is applied is committed,   *)
(* through compaction, installed snapshots, failed saves and restarts.     *)
IndexOrder ==
    \A n \in Server :
        logBase[n] <= lastApplied[n] /\ lastApplied[n] <= commitIndex[n]

(* No node holds, in memory or on disk, an entry of a term above the one   *)
(* it is in: it would lose to nobody in an election, and after a restart   *)
(* nothing would bring its term up to the entry's.                         *)
TermsBounded ==
    \A n \in Server :
        /\ \A i \in 1 .. Len(log[n]) : log[n][i].term <= currentTerm[n]
        /\ \A i \in 1 .. Len(disk[n].log) : disk[n].log[i].term <= disk[n].term

(* AppendEntries never takes back a commitment: the commit index of a      *)
(* running node does not fall, and the entries below it never change.      *)
CommittedStable ==
    [][\/ UNCHANGED <<log, logBase, commitIndex>>
       \/ \A n \in Server : \A i \in Committed(n) :
            /\ i <= commitIndex'[n]
            /\ Covers(n, i)' /\ At(n, i)' = At(n, i)]_vars

-----------------------------------------------------------------------------
(* Fairness: the goroutines of a node are scheduled, the heartbeat ticker  *)
(* keeps firing, and the network does not lose every message to a peer.    *)

ToPeer(A(_), p) == \E r \in leaderRpcs : r.peer = p /\ A(r)

FairSpec ==
    /\ Spec
    /\ \A n \in Server :
         /\ WF_vars(ApplyPendingEntries(n))
         /\ \A p \in Peers(n) : SF_vars(SendHeartbeats(n, {p}))
    /\ \A p \in Server :
         /\ SF_vars(ToPeer(SendAppendEntries, p))
         /\ SF_vars(ToPeer(AppendEntries, p))
         /\ SF_vars(ToPeer(HandleAppendReply, p))
         /\ SF_vars(ToPeer(SendInstallSnapshot, p))
         /\ SF_vars(ToPeer(InstallSnapshot, p))
         /\ SF_vars(ToPeer(HandleInstallReply, p))

(* A command that a leader accepts, and goes on leading, is handed to the  *)
(* state machine of every node in the end: heartbeats retry what is lost,  *)
(* and the apply loop is woken for what is committed.                      *)
ReplicationCompletes ==
    \A c \in 1 .. MaxCommands :
        (\E p \in pending : p.cmd = c)
          ~> \A n \in Server : \E k \in 1 .. Len(kv[n]) : kv[n][k].cmd = c
=============================================================================
