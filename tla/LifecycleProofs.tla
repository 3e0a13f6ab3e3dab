--------------------------- MODULE LifecycleProofs ---------------------------
(***************************************************************************)
(* The safety properties of Lifecycle for every capacity of applyCh, every *)
(* set of configurations and files, and any number of callbacks and        *)
(* handlers.                                                               *)
(***************************************************************************)
EXTENDS Lifecycle, TLAPS

-----------------------------------------------------------------------------
(* Frames: who changes what                                                *)

applyState == <<applyVars, kvApplied, lost, signalled>>

(* Only the apply pipeline, NewRaft, Start and the drain touch it.         *)
LEMMA ApplyFrame ==
  ASSUME Next
  PROVE  \/ NewRaft \/ StartRaft \/ ApplyNext \/ Drain
         \/ UNCHANGED applyState
<1> USE DEF applyState, applyVars, kvVars, history, Restless, NotTimers
<1>1. CASE LoadConfig \/ Listen \/ NewServer \/ Serve
  BY <1>1, Zenon DEF LoadConfig, Listen, NewServer, Serve
<1>2. CASE TimerNext
  BY <1>2 DEF TimerNext, HearPeer, HeartbeatExits, TimerFires, BecomeCandidate,
              Rearm, BecomeLeader, StartHeartbeat
<1>3. CASE RpcNext
  BY <1>3, Zenon DEF RpcNext, Arrive, Polled, Waited
<1>4. CASE Signal \/ ServeFails \/ Cancel \/ Wait \/ Kill \/ GracefulStop \/ Stopped
  BY <1>4, Zenon DEF Signal, ServeFails, Cancel, Wait, Kill, GracefulStop, Stopped
<1> QED
  BY <1>1, <1>2, <1>3, <1>4, Zenon DEF Next, BootNext, StopNext

(* Only start-up and shutdown move main, bind the port, cancel the context *)
(* or kill the KV server.                                                  *)
LEMMA MainFrame ==
  ASSUME Next
  PROVE  \/ BootNext \/ StopNext
         \/ UNCHANGED <<bootVars, stopVars, dead>>
<1> USE DEF bootVars, stopVars, kvVars, NotTimers, Others
<1>1. CASE ApplyNext
  BY <1>1, Zenon
     DEF ApplyNext, AdvanceCommit, Wake, NextEntry, Send, Undo, LoopExits,
              Consume, InstallSnapshot
<1>2. CASE TimerNext
  BY <1>2, Zenon
     DEF TimerNext, HearPeer, HeartbeatExits, TimerFires, BecomeCandidate,
              Rearm, BecomeLeader, StartHeartbeat
<1>3. CASE RpcNext
  BY <1>3, Zenon DEF RpcNext, Arrive, Polled, Waited
<1> QED
  BY <1>1, <1>2, <1>3, Zenon DEF Next

-----------------------------------------------------------------------------
(* Configurations                                                          *)

(* The two validations agree: what config.Load accepts, NewRaft accepts.   *)
LEMMA ValidIsRaftValid ==
  ASSUME NEW c, NEW id, Valid(c), WithId(c, id) # {}
  PROVE  RaftValid(RaftConfig(c, id))
<1>1. PICK i \in 1 .. Len(c.nodes) : c.nodes[i].id = id
  BY Zenon DEF WithId
<1>2. id >= 0
  BY <1>1, Zenon DEF Valid, ValidNode
<1>3. id \notin PeersOf(c, id)
  BY Zenon DEF PeersOf, WithId
<1> QED
  BY <1>2, <1>3, Zenon DEF Valid, TimeoutsOk, RaftValid, RaftConfig

BootInv ==
    /\ main \in {"listen", "raft"} =>
         Valid(input.config) /\ WithId(input.config, input.id) # {}
    /\ main \in {"start", "listen"} => ~listener
    /\ LoadedIsAccepted

LEMMA BootStep == BootInv /\ [Next]_vars => BootInv'
<1> SUFFICES ASSUME BootInv, [Next]_vars PROVE BootInv'
  BY Zenon
<1> USE DEF BootInv, LoadedIsAccepted, Step
<1>1. CASE LoadConfig  BY <1>1, Zenon DEF LoadConfig
<1>2. CASE Listen  BY <1>2 DEF Listen
<1>3. CASE NewRaft  BY <1>3, ValidIsRaftValid, Zenon DEF NewRaft
<1>4. CASE NewServer \/ Serve \/ StartRaft
  BY <1>4, Zenon DEF NewServer, Serve, StartRaft
<1>5. CASE StopNext
  BY <1>5, Zenon DEF StopNext, Signal, ServeFails, Cancel, Wait, Kill, Drain,
              GracefulStop, Stopped, bootVars
<1>6. CASE UNCHANGED <<bootVars, stopVars, dead>>
  BY <1>6, Zenon DEF bootVars
<1>7. CASE UNCHANGED vars
  BY <1>7, Zenon DEF vars, bootVars
<1> QED
  BY <1>1, <1>2, <1>3, <1>4, <1>5, <1>6, <1>7, MainFrame, Zenon DEF BootNext

(* Whatever the configuration file and the flags say, a node that has got  *)
(* past config.Load and NodeByID is never turned down by NewRaft, and a    *)
(* start-up that fails does not keep the port.                             *)
THEOREM LoadedAccepted == Spec => []LoadedIsAccepted
<1>1. Init => BootInv
  BY Zenon DEF Init, BootInv, LoadedIsAccepted
<1>2. BootInv => LoadedIsAccepted
  BY Zenon DEF BootInv
<1> QED
  BY <1>1, <1>2, BootStep, PTL DEF Spec

-----------------------------------------------------------------------------
(* Shutdown                                                                *)

Returned == {"kill", "drain", "graceful", "stopped"}

StopInv ==
    /\ beats \in Nat
    /\ ctx = "done" => shutdown
    /\ main \in {"start", "listen", "raft", "kv", "serve", "launch", "refused"}
         => loop.pc = "off" /\ ctx = "none"
    /\ main = "cancel" => shutdown
    /\ main \in {"up", "cancel", "wait"} => loop.pc # "off"
    /\ main \in Returned => loop.pc = "exited"
    /\ main = "drain" => dead

LEMMA BeatsNat == beats \in Nat /\ [Next]_vars => beats' \in Nat
<1> SUFFICES ASSUME beats \in Nat, [Next]_vars PROVE beats' \in Nat
  BY Zenon
<1> USE DEF timerVars, Others, Restless
<1>1. CASE BootNext
  BY <1>1, Zenon
     DEF BootNext, LoadConfig, Listen, NewRaft, NewServer, Serve, StartRaft
<1>2. CASE ApplyNext
  BY <1>2, Zenon
     DEF ApplyNext, AdvanceCommit, Wake, NextEntry, Send, Undo, LoopExits,
              Consume, InstallSnapshot
<1>3. CASE TimerNext
  BY <1>3 DEF TimerNext, HearPeer, HeartbeatExits, TimerFires, BecomeCandidate,
              Rearm, BecomeLeader, StartHeartbeat
<1>4. CASE RpcNext
  BY <1>4, Zenon DEF RpcNext, Arrive, Polled, Waited
<1>5. CASE StopNext
  BY <1>5, Zenon DEF StopNext, Signal, ServeFails, Cancel, Wait, Kill, Drain,
              GracefulStop, Stopped
<1>6. CASE UNCHANGED vars
  BY <1>6, Zenon DEF vars
<1> QED
  BY <1>1, <1>2, <1>3, <1>4, <1>5, <1>6, Zenon DEF Next

LEMMA StopStep == StopInv /\ [Next]_vars => StopInv'
<1> SUFFICES ASSUME StopInv, [Next]_vars PROVE StopInv'
  BY Zenon
<1>0. beats' \in Nat
  BY BeatsNat, Zenon DEF StopInv
<1> USE DEF StopInv, Step, Returned, At
<1>1. CASE LoadConfig \/ Listen \/ NewServer \/ Serve
  BY <1>0, <1>1, Zenon
     DEF LoadConfig, Listen, NewServer, Serve, Restless, applyVars, stopVars
<1>2. CASE NewRaft  BY <1>0, <1>2, Zenon DEF NewRaft, stopVars
<1>3. CASE StartRaft  BY <1>0, <1>3, Zenon DEF StartRaft
<1>4. CASE Signal \/ ServeFails \/ Cancel \/ Kill \/ GracefulStop \/ Stopped
  BY <1>0, <1>4, Zenon
     DEF Signal, ServeFails, Cancel, Kill, GracefulStop, Stopped, Restless,
              applyVars, stopVars, kvVars
<1>5. CASE Wait
  BY <1>0, <1>5 DEF Wait, Goroutines, Restless, applyVars, stopVars, kvVars
<1>6. CASE Drain  BY <1>0, <1>6, Zenon DEF Drain, bootVars, stopVars, kvVars
<1>7. CASE ApplyNext
  <2>1. UNCHANGED <<main, ctx, shutdown, dead>>
    BY <1>7, Zenon
       DEF ApplyNext, AdvanceCommit, Wake, NextEntry, Send, Undo, LoopExits,
                Consume, InstallSnapshot, Others, bootVars, stopVars, kvVars
  <2>2. (loop.pc = "off" \/ loop.pc = "exited") => loop' = loop
    BY <1>7, Zenon
       DEF ApplyNext, AdvanceCommit, Wake, NextEntry, Send, Undo, LoopExits,
                Consume, InstallSnapshot
  <2>3. loop'.pc # "off" \/ loop' = loop
    BY <1>7 DEF ApplyNext, AdvanceCommit, Wake, NextEntry, Send, Undo, LoopExits,
                Consume, InstallSnapshot
  <2> QED
    BY <1>0, <2>1, <2>2, <2>3, Zenon
<1>8. CASE UNCHANGED applyState /\ UNCHANGED <<bootVars, stopVars, dead>>
  BY <1>0, <1>8, Zenon DEF applyState, applyVars, bootVars, stopVars
<1>9. CASE UNCHANGED vars
  BY <1>0, <1>9, Zenon DEF vars, bootVars, stopVars, applyVars, kvVars
<1> QED
  BY <1>1, <1>2, <1>3, <1>4, <1>5, <1>6, <1>7, <1>8, <1>9, ApplyFrame, MainFrame,
     Zenon
     DEF BootNext, StopNext

LEMMA StopInvariant == Spec => []StopInv
<1>1. Init => StopInv
  BY DEF Init, StopInv, Returned, At
<1> QED
  BY <1>1, StopStep, PTL DEF Spec

(* After Shutdown has taken the mutex, no callback of the election timer   *)
(* starts an election, in any interleaving with any number of them.        *)
THEOREM NoLateCampaign == Spec => NoCampaignAfterShutdown
<1>1. StopInv /\ [Next]_vars => [ctx = "done" => campaigns' = campaigns]_vars
  <2> SUFFICES ASSUME StopInv, Next, ctx = "done" PROVE campaigns' = campaigns
    BY Zenon
  <2>0. shutdown
    BY Zenon DEF StopInv
  <2> USE DEF timerVars, Others, Restless
  <2>1. CASE BootNext
    BY <2>1, Zenon
       DEF BootNext, LoadConfig, Listen, NewRaft, NewServer, Serve, StartRaft
  <2>2. CASE ApplyNext
    BY <2>2, Zenon
       DEF ApplyNext, AdvanceCommit, Wake, NextEntry, Send, Undo, LoopExits,
                Consume, InstallSnapshot
  <2>3. CASE TimerNext
    BY <2>0, <2>3, Zenon DEF TimerNext, HearPeer, HeartbeatExits, TimerFires,
                      BecomeCandidate, Rearm, BecomeLeader, StartHeartbeat
  <2>4. CASE RpcNext
    BY <2>4, Zenon DEF RpcNext, Arrive, Polled, Waited
  <2>5. CASE StopNext
    BY <2>5, Zenon DEF StopNext, Signal, ServeFails, Cancel, Wait, Kill, Drain,
                GracefulStop, Stopped
  <2> QED
    BY <2>1, <2>2, <2>3, <2>4, <2>5, Zenon DEF Next
<1> QED
  BY <1>1, StopInvariant, PTL DEF Spec, NoCampaignAfterShutdown

-----------------------------------------------------------------------------
(* The apply pipeline                                                      *)

Msg == [snapshot : BOOLEAN, index : Int]

PipeType ==
    /\ {commitIndex, lastApplied, logBase, kvApplied} \subseteq Int
    /\ applyCh \in Seq(Msg)
    /\ loop \in [pc : {"off", "idle", "scan", "send", "exited"}, index : Int]
    /\ lastApplied <= commitIndex
    /\ main \in {"start", "listen", "raft", "kv"} => ~consumer
    /\ main \in {"start", "listen", "raft"} =>
         /\ kvApplied = 0 /\ applyCh = << >> /\ loop = At("off")
         /\ ~commitCh /\ ~signalled

LEMMA ConsumerFrame ==
  ASSUME Next
  PROVE  (consumer' = consumer \/ NewServer) /\ (dead => dead')
<1> USE DEF kvVars, Others, Restless
<1>1. CASE BootNext
  BY <1>1 DEF BootNext, LoadConfig, Listen, NewRaft, NewServer, Serve, StartRaft
<1>2. CASE ApplyNext
  BY <1>2 DEF ApplyNext, AdvanceCommit, Wake, NextEntry, Send, Undo, LoopExits,
              Consume, InstallSnapshot
<1>3. CASE TimerNext
  BY <1>3 DEF TimerNext, HearPeer, HeartbeatExits, TimerFires, BecomeCandidate,
              Rearm, BecomeLeader, StartHeartbeat, NotTimers
<1>4. CASE RpcNext
  BY <1>4 DEF RpcNext, Arrive, Polled, Waited
<1>5. CASE StopNext
  BY <1>5 DEF StopNext, Signal, ServeFails, Cancel, Wait, Kill, Drain,
              GracefulStop, Stopped
<1> QED
  BY <1>1, <1>2, <1>3, <1>4, <1>5, Zenon DEF Next

(* While nothing has been built, nothing moves: main leaves these states   *)
(* by NewRaft only.                                                        *)
LEMMA EarlyFrame ==
  ASSUME Next
  PROVE  /\ main' \in {"start", "listen", "raft"} => main \in {"start", "listen", "raft"}
         /\ main' = "kv" => main \in {"raft", "kv"}
<1> USE DEF Step
<1>1. CASE BootNext
  BY <1>1, Zenon
     DEF BootNext, LoadConfig, Listen, NewRaft, NewServer, Serve, StartRaft
<1>2. CASE StopNext
  BY <1>2, Zenon DEF StopNext, Signal, ServeFails, Cancel, Wait, Kill, Drain,
              GracefulStop, Stopped, bootVars
<1>3. CASE UNCHANGED <<bootVars, stopVars, dead>>
  BY <1>3, Zenon DEF bootVars
<1> QED
  BY <1>1, <1>2, <1>3, MainFrame, Zenon

LEMMA MsgTypes ==
  ASSUME NEW i \in Int
  PROVE  Command(i) \in Msg /\ Snapshot(i) \in Msg
         /\ Command(i).index = i /\ Snapshot(i).index = i
         /\ ~Command(i).snapshot /\ Snapshot(i).snapshot
  BY Zenon DEF Command, Snapshot, Msg

LEMMA TailOf ==
  ASSUME NEW s \in Seq(Msg), s # << >>
  PROVE  /\ Head(s) = s[1] /\ Head(s).index \in Int
         /\ Tail(s) \in Seq(Msg) /\ Len(Tail(s)) = Len(s) - 1 /\ Len(s) > 0
         /\ \A j \in 1 .. Len(Tail(s)) : Tail(s)[j] = s[j + 1]
<1>1. Head(s) = s[1] /\ Head(s) \in Msg
  OBVIOUS
<1>2. \A m \in Msg : m.index \in Int
  BY Zenon DEF Msg
<1> QED
  BY <1>1, <1>2

LEMMA PipeTypeStep == PipeType /\ [Next]_vars => PipeType'
<1> SUFFICES ASSUME PipeType, [Next]_vars PROVE PipeType'
  BY Zenon
<1> DEFINE Early == {"start", "listen", "raft"}
<1>1. CASE NewRaft
  <2>1. main = "raft" /\ main' \in {"kv", "refused"} /\ consumer' = consumer
        /\ kvApplied' = kvApplied /\ loop' = loop
    BY <1>1, Zenon DEF NewRaft, Step, kvVars
  <2>2. CASE main' = "kv"
    <3>1. PICK i \in Images :
            /\ commitIndex' = i.last
            /\ lastApplied' = IF i.snap > 0 THEN i.snap ELSE i.last
            /\ logBase' = i.snap
            /\ applyCh' = IF i.snap > 0 THEN <<Snapshot(i.snap)>> ELSE << >>
      BY <1>1, <2>2, Zenon DEF NewRaft, Step
    <3>2. i.snap \in Int /\ i.last \in Int /\ i.snap <= i.last
      BY BoundsAssumption
    <3>3. applyCh' \in Seq(Msg)
      BY <3>1, <3>2, MsgTypes
    <3> QED
      BY <2>1, <2>2, <3>1, <3>2, <3>3 DEF PipeType
  <2>3. CASE main' = "refused"
    BY <1>1, <2>1, <2>3, Zenon DEF NewRaft, Step, PipeType
  <2> QED
    BY <2>1, <2>2, <2>3, Zenon
<1>2. CASE StartRaft
  BY <1>2 DEF StartRaft, Step, PipeType, kvVars, At
<1>3. ASSUME ApplyNext \/ Drain, Next PROVE PipeType'
  <2> HIDE <1>3
  <2>0. main' = main /\ consumer' = consumer
    BY <1>3, Zenon
       DEF ApplyNext, AdvanceCommit, Wake, NextEntry, Send, Undo, LoopExits,
                Consume, InstallSnapshot, Drain, bootVars, kvVars, Others
  <2>1. main \in Early => ~Active /\ loop.pc = "off" /\ applyCh = << >>
    BY DEF PipeType, Active, Serving, At
  <2> USE <2>0, <2>1 DEF PipeType, kvVars, Others, At, history
  <2>2. CASE AdvanceCommit  BY <2>2 DEF AdvanceCommit
  <2>3. CASE Wake  BY <2>3 DEF Wake
  <2>4. CASE NextEntry  BY <2>4 DEF NextEntry
  <2>5. CASE Send
    <3>1. Command(loop.index) \in Msg
      BY MsgTypes, Zenon
    <3> QED
      BY <2>5, <3>1 DEF Send
  <2>6. CASE Undo  BY <2>6 DEF Undo
  <2>7. CASE LoopExits  BY <2>7 DEF LoopExits
  <2>8. CASE Consume
    <3>1. Head(applyCh).index \in Int /\ Tail(applyCh) \in Seq(Msg)
      BY <2>8, TailOf, Zenon DEF Consume
    <3> QED
      BY <2>8, <3>1, Zenon DEF Consume
  <2>9. ASSUME NEW i \in 1 .. MaxIndex, InstallSnapshot(i) PROVE PipeType'
    <3>1. i \in Int /\ Snapshot(i) \in Msg
      BY MsgTypes, BoundsAssumption
    <3> QED
      BY <2>9, <3>1, SMTT(30) DEF InstallSnapshot, Queue
  <2>10. CASE Drain  BY <2>10 DEF Drain
  <2> QED
    BY <1>3, <2>2, <2>3, <2>4, <2>5, <2>6, <2>7, <2>8, <2>9, <2>10, Zenon
       DEF ApplyNext
<1>4. ASSUME UNCHANGED applyState, Next PROVE PipeType'
  <2>1. main' \in {"start", "listen", "raft", "kv"} => ~consumer'
    BY <1>4, ConsumerFrame, EarlyFrame, Zenon DEF PipeType, NewServer, Step
  <2>2. main' \in Early => main \in Early
    BY <1>4, EarlyFrame, Zenon
  <2> QED
    BY <1>4, <2>1, <2>2, Zenon DEF applyState, applyVars, PipeType
<1>5. CASE UNCHANGED vars
  BY <1>5, Zenon DEF vars, bootVars, applyVars, kvVars, history, PipeType
<1> QED
  BY <1>1, <1>2, <1>3, <1>4, <1>5, ApplyFrame, Zenon

(* InOrder, for any channel and any position of the KV server.             *)
ReachedIn(ch, kv, j) == IF j = 0 THEN kv ELSE ch[j].index

Follows(m, at) == IF m.snapshot THEN m.index >= at ELSE m.index = at + 1

Chained(ch, kv) ==
    \A j \in 1 .. Len(ch) : Follows(ch[j], ReachedIn(ch, kv, j - 1))

Pending(l, la, at) ==
    /\ l.pc = "send" => l.index = la
    /\ la = at + (IF l.pc = "send" THEN 1 ELSE 0)

LEMMA InOrderIs ==
  InOrder <=> (~dead /\ ~lost =>
                 /\ Chained(applyCh, kvApplied)
                 /\ Pending(loop, lastApplied,
                            ReachedIn(applyCh, kvApplied, Len(applyCh))))
  BY Zenon DEF InOrder, Reached, ReachedIn, Follows, Chained, Pending

(* A message that follows the last one extends the chain.                  *)
LEMMA ChainAppend ==
  ASSUME NEW ch \in Seq(Msg), NEW kv \in Int, NEW m \in Msg, Chained(ch, kv),
         Follows(m, ReachedIn(ch, kv, Len(ch)))
  PROVE  /\ Chained(Append(ch, m), kv)
         /\ ReachedIn(Append(ch, m), kv, Len(Append(ch, m))) = m.index
<1> DEFINE c == Append(ch, m)
<1>1. Len(c) = Len(ch) + 1 /\ c[Len(ch) + 1] = m /\ Len(ch) \in Nat
      /\ \A j \in 1 .. Len(ch) : c[j] = ch[j]
  OBVIOUS
<1> HIDE DEF c
<1>2. \A j \in 0 .. Len(ch) : ReachedIn(c, kv, j) = ReachedIn(ch, kv, j)
  BY <1>1 DEF ReachedIn
<1>3. ASSUME NEW j \in 1 .. Len(c)
      PROVE  Follows(c[j], ReachedIn(c, kv, j - 1))
  <2>1. CASE j \in 1 .. Len(ch)
    BY <1>1, <1>2, <2>1 DEF Chained
  <2>2. CASE j = Len(ch) + 1
    BY <1>1, <1>2, <2>2
  <2> QED
    BY <1>1, <2>1, <2>2
<1>4. Chained(c, kv)
  BY <1>3, Zenon DEF Chained
<1>5. ReachedIn(c, kv, Len(c)) = m.index
  BY <1>1 DEF ReachedIn
<1> QED
  BY <1>4, <1>5, Zenon DEF c

(* Applying the first message moves the KV server along the chain.         *)
LEMMA ChainTail ==
  ASSUME NEW ch \in Seq(Msg), NEW kv \in Int, Chained(ch, kv), ch # << >>
  PROVE  /\ Chained(Tail(ch), Head(ch).index)
         /\ ReachedIn(Tail(ch), Head(ch).index, Len(Tail(ch)))
              = ReachedIn(ch, kv, Len(ch))
<1> DEFINE c == Tail(ch)
           k == Head(ch).index
<1>1. Len(c) = Len(ch) - 1 /\ Len(c) \in Nat /\ k = ch[1].index
      /\ \A j \in 1 .. Len(c) : c[j] = ch[j + 1]
  BY TailOf
<1> HIDE DEF c, k
<1>2. \A j \in 0 .. Len(c) : ReachedIn(c, k, j) = ReachedIn(ch, kv, j + 1)
  BY <1>1 DEF ReachedIn
<1>3. ASSUME NEW j \in 1 .. Len(c)
      PROVE  Follows(c[j], ReachedIn(c, k, j - 1))
  <2>1. j + 1 \in 1 .. Len(ch) /\ j - 1 \in 0 .. Len(c) /\ (j - 1) + 1 = (j + 1) - 1
    BY <1>1
  <2>2. Follows(ch[j + 1], ReachedIn(ch, kv, (j + 1) - 1))
    BY <2>1, Zenon DEF Chained
  <2> QED
    BY <1>1, <1>2, <2>1, <2>2, Zenon
<1>4. Chained(c, k)
  BY <1>3, Zenon DEF Chained
<1>5. ReachedIn(c, k, Len(c)) = ReachedIn(ch, kv, Len(ch))
  BY <1>1, <1>2
<1> QED
  BY <1>4, <1>5, Zenon DEF c, k

LEMMA InOrderStep ==
  ASSUME ~Overtaking
  PROVE  StopInv /\ PipeType /\ PipeType' /\ InOrder /\ [Next]_vars => InOrder'
<1> SUFFICES ASSUME StopInv, PipeType, PipeType', InOrder, [Next]_vars,
                    ~dead', ~lost'
             PROVE  /\ Chained(applyCh', kvApplied')
                    /\ Pending(loop', lastApplied',
                               ReachedIn(applyCh', kvApplied', Len(applyCh')))
  BY Zenon DEF InOrder, Reached, ReachedIn, Follows, Chained, Pending
<1> DEFINE at == ReachedIn(applyCh, kvApplied, Len(applyCh))
           Goal == /\ Chained(applyCh', kvApplied')
                   /\ Pending(loop', lastApplied',
                              ReachedIn(applyCh', kvApplied', Len(applyCh')))
<1>0. ~dead /\ (~lost => Chained(applyCh, kvApplied) /\ Pending(loop, lastApplied, at))
  BY ConsumerFrame, InOrderIs DEF vars, kvVars
<1>t. /\ applyCh \in Seq(Msg) /\ kvApplied \in Int /\ at \in Int
      /\ lastApplied \in Int /\ commitIndex \in Int /\ loop.index \in Int
      /\ lastApplied <= commitIndex
  <2>1. \A m \in Msg : m.index \in Int
    BY Zenon DEF Msg
  <2>2. Len(applyCh) # 0 => applyCh[Len(applyCh)] \in Msg
    BY DEF PipeType
  <2> QED
    BY <2>1, <2>2, Zenon DEF PipeType, ReachedIn
<1>1. CASE NewRaft
  <2>1. main = "raft" /\ kvApplied' = kvApplied /\ loop' = loop
    BY <1>1, Zenon DEF NewRaft, Step, kvVars
  <2>2. kvApplied = 0 /\ applyCh = << >> /\ loop.pc = "off"
    BY <2>1 DEF PipeType, At
  <2>3. CASE main' = "kv"
    <3>1. PICK i \in Images :
            /\ lastApplied' = IF i.snap > 0 THEN i.snap ELSE i.last
            /\ applyCh' = IF i.snap > 0 THEN <<Snapshot(i.snap)>> ELSE << >>
            /\ lost' = (i.snap = 0 /\ i.last > 0)
      BY <1>1, <2>3, Zenon DEF NewRaft, Step
    <3>2. i.snap \in Int /\ i.last \in Int /\ 0 <= i.snap /\ i.snap <= i.last
      BY BoundsAssumption
    <3>3. CASE i.snap > 0
      <4>1. Snapshot(i.snap).index = i.snap /\ Snapshot(i.snap).snapshot
        BY <3>2, MsgTypes, Zenon
      <4>2. Len(applyCh') = 1 /\ applyCh'[1] = Snapshot(i.snap)
        BY <3>1, <3>3, Zenon
      <4> QED
        BY <2>1, <2>2, <3>1, <3>2, <3>3, <4>1, <4>2
           DEF Chained, Follows, ReachedIn, Pending
    <3>4. CASE i.snap = 0
      <4>0. ~(i.snap = 0 /\ i.last > 0)
        BY <3>1, Zenon
      <4>1. applyCh' = << >> /\ lastApplied' = 0
        BY <3>1, <3>2, <3>4, <4>0
      <4> QED
        BY <2>1, <2>2, <4>1 DEF Chained, ReachedIn, Pending
    <3> QED
      BY <3>2, <3>3, <3>4
  <2>4. CASE main' = "refused"
    BY <1>0, <1>1, <2>1, <2>4, Zenon DEF NewRaft, Step
  <2> QED
    BY <1>1, <2>3, <2>4, Zenon DEF NewRaft, Step
<1>2. CASE StartRaft
  <2>1. loop.pc # "send" /\ loop'.pc # "send"
    BY <1>2, Zenon DEF StartRaft, Step, StopInv, At
  <2> QED
    BY <1>0, <1>2, <2>1, Zenon DEF StartRaft, kvVars, history, Pending
<1>3. CASE AdvanceCommit
  BY <1>0, <1>3, Zenon DEF AdvanceCommit, Others, kvVars
<1>4. CASE Wake
  BY <1>0, <1>4, Zenon DEF Wake, Others, kvVars, history, Pending, At
<1>5. CASE NextEntry
  <2>1. UNCHANGED <<applyCh, kvApplied, lost>> /\ loop.pc = "scan"
    BY <1>5, Zenon DEF NextEntry, Others, kvVars, history
  <2>2. CASE lastApplied' = lastApplied /\ loop'.pc = "idle"
    BY <1>0, <2>1, <2>2, Zenon DEF Pending
  <2>3. CASE lastApplied' = lastApplied + 1 /\ loop'.pc = "send"
             /\ loop'.index = lastApplied + 1
    BY <1>0, <1>t, <2>1, <2>3 DEF Pending
  <2> QED
    BY <1>5, <2>2, <2>3 DEF NextEntry, At
<1>6. CASE Send
  <2>1. /\ applyCh' = Append(applyCh, Command(loop.index)) /\ loop'.pc = "scan"
        /\ UNCHANGED <<kvApplied, lost, lastApplied>> /\ loop.pc = "send"
    BY <1>6, Zenon DEF Send, Others, kvVars, history, At
  <2>2. Chained(applyCh, kvApplied) /\ loop.index = lastApplied /\ lastApplied = at + 1
    BY <1>0, <1>t, <2>1, Zenon DEF Pending
  <2>3. Command(loop.index) \in Msg /\ Follows(Command(loop.index), at)
        /\ Command(loop.index).index = lastApplied
    BY <1>t, <2>2, MsgTypes, Zenon DEF Follows
  <2>4. Chained(applyCh', kvApplied)
        /\ ReachedIn(applyCh', kvApplied, Len(applyCh')) = lastApplied
    BY <1>t, <2>1, <2>2, <2>3, ChainAppend, Zenon
  <2> QED
    BY <1>t, <2>1, <2>4 DEF Pending
<1>7. CASE Undo
  BY <1>0, <1>t, <1>7 DEF Undo, Others, kvVars, history, Pending, At
<1>8. CASE LoopExits
  BY <1>0, <1>8, Zenon DEF LoopExits, Others, kvVars, history, Pending, At
<1>9. CASE Consume
  <2>1. /\ applyCh # << >> /\ applyCh' = Tail(applyCh) /\ kvApplied' = Head(applyCh).index
        /\ UNCHANGED <<loop, lastApplied, lost>>
    BY <1>9, Zenon DEF Consume, history
  <2>2. Chained(applyCh', kvApplied')
        /\ ReachedIn(applyCh', kvApplied', Len(applyCh')) = at
    BY <1>0, <1>t, <2>1, ChainTail, Zenon
  <2> QED
    BY <1>0, <2>1, <2>2, Zenon
<1>10. ASSUME NEW i \in 1 .. MaxIndex, InstallSnapshot(i) PROVE Goal
  <2>1. /\ applyCh' = Append(applyCh, Snapshot(i)) /\ lastApplied' = i
        /\ UNCHANGED <<kvApplied, lost, loop>> /\ loop.pc # "send" /\ i > commitIndex
    BY <1>10, Zenon DEF InstallSnapshot, Queue, Others, kvVars
  <2>2. Chained(applyCh, kvApplied) /\ lastApplied = at /\ i \in Int
    BY <1>0, <1>t, <2>1, BoundsAssumption DEF Pending
  <2>3. Snapshot(i) \in Msg /\ Follows(Snapshot(i), at) /\ Snapshot(i).index = i
    BY <1>t, <2>1, <2>2, MsgTypes DEF Follows
  <2>4. Chained(applyCh', kvApplied)
        /\ ReachedIn(applyCh', kvApplied, Len(applyCh')) = i
    BY <1>t, <2>1, <2>2, <2>3, ChainAppend, Zenon
  <2> QED
    BY <2>1, <2>2, <2>4 DEF Pending
<1>11. CASE Drain
  BY <1>0, <1>11, Zenon DEF Drain, StopInv
<1>12. CASE UNCHANGED applyState
  BY <1>0, <1>12, Zenon DEF applyState, applyVars
<1>13. CASE UNCHANGED vars
  BY <1>0, <1>13, Zenon DEF vars, applyVars, kvVars, history
<1> QED
  BY <1>1, <1>2, <1>3, <1>4, <1>5, <1>6, <1>7, <1>8, <1>9, <1>10, <1>11, <1>12,
     <1>13, ApplyFrame, Zenon DEF ApplyNext

LEMMA PipeInvariant == Spec => []PipeType
<1>1. Init => PipeType
  BY DEF Init, PipeType, At
<1> QED
  BY <1>1, PipeTypeStep, PTL DEF Spec

(* For every capacity of the channel and every length of the log: unless a *)
(* snapshot is installed while the apply loop holds an entry, the KV       *)
(* server is handed the log in order and without gaps.                     *)
THEOREM DeliveredInOrder == ASSUME ~Overtaking PROVE Spec => []InOrder
<1>1. Init => InOrder
  BY DEF Init, InOrder, Reached, At
<1>2. StopInv /\ PipeType /\ PipeType' /\ InOrder /\ [Next]_vars => InOrder'
  BY InOrderStep, Zenon
<1> QED
  BY <1>1, <1>2, StopInvariant, PipeInvariant, PTL DEF Spec

-----------------------------------------------------------------------------
(* Dropped signals                                                         *)

(* Until the context is done, entries up to lastApplied have left the      *)
(* loop, so that nothing below logBase is waited for.                      *)
WakeInv ==
    ctx # "done" =>
      /\ logBase <= lastApplied
      /\ \A j \in 1 .. Len(applyCh) : applyCh[j].index <= lastApplied
      /\ loop.pc = "send" => loop.index <= lastApplied
      /\ signalled /\ loop.pc \in {"off", "idle"} /\ ~commitCh
           => lastApplied >= commitIndex

LEMMA WakeStep ==
  StopInv /\ PipeType /\ PipeType' /\ WakeInv /\ [Next]_vars => WakeInv'
<1> SUFFICES ASSUME StopInv, PipeType, PipeType', WakeInv, [Next]_vars,
                    ctx' # "done"
             PROVE  WakeInv'
  BY Zenon DEF WakeInv
<1>0. ctx # "done"
  <2>1. CASE BootNext
    BY <2>1, Zenon
       DEF BootNext, LoadConfig, Listen, NewRaft, NewServer, Serve, StartRaft,
                Restless, stopVars, StopInv, Step
  <2>2. CASE StopNext
    BY <2>2, Zenon DEF StopNext, Signal, ServeFails, Cancel, Wait, Kill, Drain,
                GracefulStop, Stopped, Restless, stopVars
  <2>3. CASE UNCHANGED <<bootVars, stopVars, dead>>
    BY <2>3, Zenon DEF stopVars
  <2>4. CASE UNCHANGED vars
    BY <2>4, Zenon DEF vars, stopVars
  <2> QED
    BY <2>1, <2>2, <2>3, <2>4, MainFrame, Zenon
<1>t. /\ {commitIndex, lastApplied, logBase} \subseteq Int /\ loop.index \in Int
      /\ applyCh \in Seq(Msg) /\ \A m \in Msg : m.index \in Int
      /\ {commitIndex, lastApplied, logBase}' \subseteq Int
  BY Zenon DEF PipeType, Msg
<1>1. CASE NewRaft
  <2>1. main = "raft" /\ UNCHANGED <<loop, commitCh, signalled>>
    BY <1>1, Zenon DEF NewRaft, Step
  <2>2. ~signalled /\ loop.pc = "off"
    BY <2>1 DEF PipeType, At
  <2>3. CASE main' = "kv"
    <3>1. PICK i \in Images :
            /\ lastApplied' = IF i.snap > 0 THEN i.snap ELSE i.last
            /\ logBase' = i.snap
            /\ applyCh' = IF i.snap > 0 THEN <<Snapshot(i.snap)>> ELSE << >>
      BY <1>1, <2>3, Zenon DEF NewRaft, Step
    <3>2. i.snap \in Int /\ i.last \in Int /\ 0 <= i.snap /\ i.snap <= i.last
      BY BoundsAssumption
    <3>3. \A j \in 1 .. Len(applyCh') : applyCh'[j].index <= lastApplied'
      BY <3>1, <3>2, MsgTypes
    <3> QED
      BY <2>1, <2>2, <3>1, <3>2, <3>3 DEF WakeInv
  <2>4. CASE main' = "refused"
    BY <1>0, <1>1, <2>1, <2>2, <2>4 DEF NewRaft, Step, WakeInv
  <2> QED
    BY <1>1, <2>3, <2>4, Zenon DEF NewRaft, Step
<1>2. CASE StartRaft
  <2>1. loop.pc = "off"
    BY <1>2, Zenon DEF StartRaft, Step, StopInv
  <2> QED
    BY <1>0, <1>2, <2>1, Zenon DEF StartRaft, history, WakeInv, At
<1>3. CASE AdvanceCommit
  BY <1>0, <1>3, Zenon DEF AdvanceCommit, WakeInv
<1>4. CASE Wake
  BY <1>0, <1>4, Zenon DEF Wake, history, WakeInv, At
<1>5. CASE NextEntry
  <2>1. UNCHANGED <<applyCh, logBase, commitIndex, commitCh, signalled>>
    BY <1>5, Zenon DEF NextEntry, history
  <2>2. CASE /\ lastApplied' = lastApplied /\ loop'.pc = "idle"
             /\ lastApplied >= commitIndex \/ lastApplied + 1 <= logBase
    <3>1. lastApplied >= commitIndex
      BY <1>0, <1>t, <2>2 DEF WakeInv
    <3> QED
      BY <1>0, <2>1, <2>2, <3>1, Zenon DEF WakeInv
  <2>3. CASE lastApplied' = lastApplied + 1 /\ loop'.pc = "send"
             /\ loop'.index = lastApplied + 1
    <3>1. \A j \in 1 .. Len(applyCh) : applyCh[j].index \in Int
      BY <1>t
    <3> QED
      BY <1>0, <1>t, <2>1, <2>3, <3>1 DEF WakeInv
  <2> QED
    BY <1>5, <2>2, <2>3 DEF NextEntry, At
<1>6. CASE Send
  <2>1. /\ applyCh' = Append(applyCh, Command(loop.index)) /\ loop'.pc = "scan"
        /\ UNCHANGED <<lastApplied, logBase>> /\ loop.pc = "send"
    BY <1>6, Zenon DEF Send, At
  <2>2. \A j \in 1 .. Len(applyCh') : applyCh'[j].index <= lastApplied
    BY <1>0, <1>t, <2>1, MsgTypes DEF WakeInv
  <2> QED
    BY <1>0, <2>1, <2>2, Zenon DEF WakeInv
<1>7. CASE Undo \/ LoopExits
  BY <1>0, <1>7, Zenon DEF Undo, LoopExits
<1>8. CASE Consume
  <2>1. /\ applyCh # << >> /\ applyCh' = Tail(applyCh)
        /\ UNCHANGED <<loop, lastApplied, commitIndex, commitCh, signalled>>
        /\ logBase' = logBase \/ logBase' = Head(applyCh).index
    BY <1>8, Zenon DEF Consume, history
  <2>2. \A j \in 1 .. Len(applyCh') : applyCh'[j].index <= lastApplied
    BY <1>0, <1>t, <2>1, TailOf DEF WakeInv
  <2>3. Head(applyCh).index <= lastApplied
    BY <1>0, <1>t, <2>1, TailOf DEF WakeInv
  <2> QED
    BY <1>0, <2>1, <2>2, <2>3, Zenon DEF WakeInv
<1>9. ASSUME NEW i \in 1 .. MaxIndex, InstallSnapshot(i) PROVE WakeInv'
  <2>1. /\ lastApplied' = i /\ logBase' = i /\ commitIndex' = i /\ i > commitIndex
        /\ loop' = loop /\ i \in Int
        /\ applyCh' = applyCh \/ applyCh' = Append(applyCh, Snapshot(i))
    BY <1>9, BoundsAssumption DEF InstallSnapshot, Queue
  <2>2. lastApplied <= i
    BY <1>t, <2>1 DEF PipeType
  <2>3. \A j \in 1 .. Len(applyCh) : applyCh[j].index <= i
    <3>1. \A j \in 1 .. Len(applyCh) : applyCh[j].index \in Int
      BY <1>t
    <3> QED
      BY <1>0, <1>t, <2>1, <2>2, <3>1 DEF WakeInv
  <2>4. \A j \in 1 .. Len(applyCh') : applyCh'[j].index <= i
    <3>1. CASE applyCh' = applyCh
      BY <2>3, <3>1, Zenon
    <3>2. CASE applyCh' = Append(applyCh, Snapshot(i))
      <4>1. Snapshot(i) \in Msg /\ Snapshot(i).index = i /\ applyCh \in Seq(Msg)
        BY <1>t, <2>1, MsgTypes, Zenon
      <4>2. /\ Len(applyCh') = Len(applyCh) + 1 /\ Len(applyCh) \in Nat
            /\ applyCh'[Len(applyCh) + 1] = Snapshot(i)
            /\ \A k \in 1 .. Len(applyCh) : applyCh'[k] = applyCh[k]
        BY ONLY <3>2, <4>1
      <4> QED
        BY ONLY <2>1, <2>3, <4>1, <4>2
    <3> QED
      BY <2>1, <3>1, <3>2, Zenon
  <2> QED
    BY <1>0, <1>t, <2>1, <2>2, <2>4 DEF WakeInv
<1>10. CASE Drain
  <2>1. /\ applyCh # << >> /\ applyCh' = Tail(applyCh)
        /\ UNCHANGED <<loop, lastApplied, logBase, commitIndex, commitCh, signalled>>
    BY <1>10, Zenon DEF Drain, history
  <2>2. \A j \in 1 .. Len(applyCh') : applyCh'[j].index <= lastApplied
    BY <1>0, <1>t, <2>1, TailOf DEF WakeInv
  <2> QED
    BY <1>0, <2>1, <2>2, Zenon DEF WakeInv
<1>11. CASE UNCHANGED applyState
  BY <1>0, <1>11, Zenon DEF applyState, applyVars, WakeInv
<1>12. CASE UNCHANGED vars
  BY <1>0, <1>12, Zenon DEF vars, applyVars, kvVars, history, WakeInv
<1> QED
  BY <1>1, <1>2, <1>3, <1>4, <1>5, <1>6, <1>7, <1>8, <1>9, <1>10, <1>11, <1>12,
     ApplyFrame, Zenon DEF ApplyNext

(* A signal on commitCh that is dropped, because one is waiting, is never  *)
(* missed: the apply loop does not sleep on a committed entry.             *)
THEOREM SignalsSuffice == Spec => []NoMissedCommit
<1>1. Init => WakeInv
  BY DEF Init, WakeInv, At
<1>2. WakeInv => NoMissedCommit
  BY Zenon DEF WakeInv, NoMissedCommit
<1> QED
  BY <1>1, <1>2, WakeStep, StopInvariant, PipeInvariant, PTL DEF Spec

-----------------------------------------------------------------------------
(* Nothing is sent behind the back of Kill: only Send adds a command, and  *)
(* when Shutdown has returned the loop that sends is gone.                 *)
THEOREM QuietAfterShutdown == Spec => NothingSentAfterShutdown
<1>1. StopInv /\ PipeType /\ [Next]_vars
        => [SendsCommand => main \notin {"kill", "drain", "graceful"}]_vars
  <2> SUFFICES ASSUME StopInv, PipeType, Next, main \in {"kill", "drain", "graceful"}
               PROVE  ~SendsCommand
    BY Zenon
  <2>0. loop.pc = "exited" /\ applyCh \in Seq(Msg)
    BY Zenon DEF StopInv, Returned, PipeType
  <2>1. CASE UNCHANGED applyCh
    BY <2>0, <2>1 DEF SendsCommand
  <2>2. CASE applyCh # << >> /\ applyCh' = Tail(applyCh)
    BY <2>0, <2>2, TailOf DEF SendsCommand
  <2>3. CASE \E i \in 1 .. MaxIndex : applyCh' = Append(applyCh, Snapshot(i))
    <3>1. PICK i \in 1 .. MaxIndex : applyCh' = Append(applyCh, Snapshot(i))
      BY <2>3, Zenon
    <3>2. Snapshot(i).snapshot
      BY Zenon DEF Snapshot
    <3>3. Len(applyCh') = Len(applyCh) + 1 /\ applyCh'[Len(applyCh) + 1] = Snapshot(i)
      BY <2>0, <3>1
    <3> QED
      BY <2>0, <3>2, <3>3 DEF SendsCommand
  <2>4. ~NewRaft /\ ~StartRaft
    BY Zenon DEF NewRaft, StartRaft, Step
  <2>5. CASE ApplyNext
    BY <2>0, <2>1, <2>2, <2>3, <2>5, Zenon
       DEF ApplyNext, AdvanceCommit, Wake, NextEntry, Send, Undo, LoopExits,
           Consume, InstallSnapshot, Queue
  <2>6. CASE Drain
    BY <2>2, <2>6, Zenon DEF Drain
  <2>7. CASE UNCHANGED applyState
    BY <2>1, <2>7, Zenon DEF applyState, applyVars
  <2> QED
    BY <2>4, <2>5, <2>6, <2>7, ApplyFrame, Zenon
<1> QED
  BY <1>1, StopInvariant, PipeInvariant, PTL DEF Spec, NothingSentAfterShutdown
=============================================================================
