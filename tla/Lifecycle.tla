------------------------------ MODULE Lifecycle ------------------------------
(***************************************************************************)
(* One node from its flags to its end: the start-up sequence of package    *)
(* server, the goroutines of Raft and of the KV server with the channels   *)
(* between them, and the shutdown.                                         *)
(*                                                                         *)
(* An action is a critical section of Raft.mu, a channel operation, or a   *)
(* step of main.  The log is the indexes it covers: commitIndex advances   *)
(* by Raft's protocol, which Raft.tla models.                              *)
(***************************************************************************)
EXTENDS ClusterConfig, FiniteSets

CONSTANTS
    Configs,        \* configurations and node ids that are tried: [config, id]
    Images,         \* what the files may hold: [snap, last], indexes
    MaxIndex,       \* bound: indexes
    ChanCap,        \* capacity of applyCh
    Callback,       \* bound: election callbacks that run at a time
    MaxCampaigns,   \* bound: elections that are started
    Rpc,            \* bound: KV handlers that run at a time
    Overtaking      \* may a snapshot be installed while an entry is in flight

ASSUME BoundsAssumption ==
    /\ {MaxIndex, ChanCap, MaxCampaigns} \subseteq Nat /\ ChanCap > 0
    /\ Overtaking \in BOOLEAN
    /\ \A i \in Images : i.snap \in 0 .. MaxIndex /\ i.last \in i.snap .. MaxIndex

VARIABLES
    input,          \* the configuration and id, until Raft is built
    main,           \* where main is, start-up and shutdown
    listener,       \* is the port bound
    commitIndex, lastApplied, logBase,
    commitCh,       \* is there a signal in the channel
    applyCh,        \* messages, [snapshot, index]
    loop,           \* the apply loop of Raft: [pc, index]
    consumer,       \* does the apply loop of the KV server run
    kvApplied,      \* lastApplied of the KV server
    dead,           \* has Kill been called
    lost,           \* history: entries count as applied and were not sent
    signalled,      \* history: has there been a commit since the start
    role, timer, ctx, shutdown,
    callback,       \* callback[c]: where a call of becomeCandidate is
    beats,          \* heartbeat goroutines
    campaigns,
    rpc             \* rpc[r]: where a KV handler is

applyVars  == <<commitIndex, lastApplied, logBase, commitCh, applyCh, loop>>
kvVars     == <<consumer, kvApplied, dead>>
timerVars  == <<role, timer, callback, beats, campaigns>>
stopVars   == <<ctx, shutdown>>
bootVars   == <<input, main, listener>>
history    == <<lost, signalled>>
vars == <<bootVars, applyVars, kvVars, history, timerVars, stopVars, rpc>>

Command(i)  == [snapshot |-> FALSE, index |-> i]
Snapshot(i) == [snapshot |-> TRUE, index |-> i]
At(pc)      == [pc |-> pc, index |-> 0]
NoInput     == [config |-> "none", id |-> 0]

Init ==
    /\ input \in Configs
    /\ main = "start" /\ listener = FALSE
    /\ commitIndex = 0 /\ lastApplied = 0 /\ logBase = 0
    /\ commitCh = FALSE /\ applyCh = << >>
    /\ loop = At("off")
    /\ consumer = FALSE /\ kvApplied = 0 /\ dead = FALSE
    /\ lost = FALSE /\ signalled = FALSE
    /\ role = "follower" /\ timer = FALSE /\ ctx = "none" /\ shutdown = FALSE
    /\ callback = [c \in Callback |-> "none"]
    /\ beats = 0 /\ campaigns = 0
    /\ rpc = [r \in Rpc |-> "none"]

-----------------------------------------------------------------------------
(* Start-up: runServer, server.Start and StartFromConfig                   *)

Step(from, to) == main = from /\ main' = to

Restless == <<applyVars, kvVars, history, timerVars, stopVars, rpc>>

(* The flags and the configuration: -id 0 is refused; the file may not be  *)
(* readable, and the logger's flags may be wrong.                          *)
LoadConfig ==
    /\ \/ /\ Step("start", "listen")
          /\ input.id # 0 /\ Valid(input.config)
          /\ WithId(input.config, input.id) # {}
       \/ Step("start", "failed")
    /\ UNCHANGED <<input, listener, Restless>>

Listen ==
    /\ \/ Step("listen", "raft") /\ listener' = TRUE
       \/ Step("listen", "failed") /\ UNCHANGED listener
    /\ UNCHANGED <<input, Restless>>

(* NewRaft: the checks, then the files.  The snapshot is the first message *)
(* of applyCh; without one the whole log counts as applied.                *)
NewRaft ==
    /\ \/ /\ Step("raft", "kv")
          /\ RaftValid(RaftConfig(input.config, input.id))
          /\ UNCHANGED listener
          /\ \E i \in Images :
               /\ commitIndex' = i.last
               /\ lastApplied' = IF i.snap > 0 THEN i.snap ELSE i.last
               /\ logBase' = i.snap
               /\ lost' = (i.snap = 0 /\ i.last > 0)
               /\ applyCh' = IF i.snap > 0 THEN <<Snapshot(i.snap)>> ELSE << >>
       \/ /\ Step("raft", "refused")
          /\ ~RaftValid(RaftConfig(input.config, input.id))
          /\ listener' = FALSE
          /\ UNCHANGED <<commitIndex, lastApplied, logBase, applyCh, lost>>
    /\ input' = NoInput
    /\ UNCHANGED <<commitCh, loop, kvVars, signalled, timerVars, stopVars, rpc>>

NewServer ==
    /\ Step("kv", "serve")
    /\ consumer' = TRUE
    /\ UNCHANGED <<input, listener, applyVars, kvApplied, dead, history,
                   timerVars, stopVars, rpc>>

Serve ==
    /\ Step("serve", "launch")
    /\ UNCHANGED <<input, listener, Restless>>

StartRaft ==
    /\ Step("launch", "up")
    /\ ctx' = "live" /\ timer' = TRUE
    /\ loop' = At("idle")
    /\ UNCHANGED <<input, listener, commitIndex, lastApplied, logBase,
                   commitCh, applyCh, kvVars, history, role, callback, beats,
                   campaigns, shutdown, rpc>>

(* Calls are handled from Serve to GracefulStop; those under way, and the  *)
(* replies of peers, after it too.                                         *)
Serving == main \in {"launch", "up", "cancel", "wait", "kill", "drain"}
Active  == Serving \/ main = "graceful"

-----------------------------------------------------------------------------
(* The apply loop of Raft: applyLoop, applyPendingEntries, signalCommit    *)

Others == <<bootVars, kvVars, timerVars, stopVars, rpc>>

(* The commit index advances; a signal that finds one waiting is dropped.  *)
AdvanceCommit ==
    /\ Active /\ commitIndex < MaxIndex
    /\ commitIndex' = commitIndex + 1
    /\ commitCh' = TRUE /\ signalled' = TRUE
    /\ UNCHANGED <<Others, lastApplied, logBase, applyCh, loop, lost>>

Wake ==
    /\ loop.pc = "idle" /\ commitCh
    /\ commitCh' = FALSE
    /\ loop' = At("scan")
    /\ UNCHANGED <<Others, commitIndex, lastApplied, logBase, applyCh, history>>

(* The next entry is counted as applied and copied out under the mutex; it *)
(* may have been compacted away.                                           *)
NextEntry ==
    LET i == lastApplied + 1
    IN  /\ loop.pc = "scan"
        /\ \/ /\ lastApplied < commitIndex /\ i > logBase
              /\ lastApplied' = i
              /\ loop' = [pc |-> "send", index |-> i]
           \/ /\ lastApplied >= commitIndex \/ i <= logBase
              /\ loop' = At("idle")
              /\ UNCHANGED lastApplied
        /\ UNCHANGED <<Others, commitIndex, logBase, commitCh, applyCh, history>>

SendOne ==
    /\ loop.pc = "send" /\ Len(applyCh) < ChanCap
    /\ applyCh' = Append(applyCh, Command(loop.index))
    /\ loop' = At("idle")
    /\ UNCHANGED <<Others, commitIndex, lastApplied, logBase, commitCh, history>>

(* The send blocks while the channel is full.                              *)
Send ==
    /\ loop.pc = "send" /\ Len(applyCh) < ChanCap
    /\ applyCh' = Append(applyCh, Command(loop.index))
    /\ loop' = At("scan")
    /\ UNCHANGED <<Others, commitIndex, lastApplied, logBase, commitCh, history>>

KeepCount ==
    /\ loop.pc = "send" /\ ctx = "done"
    /\ loop' = At("idle")
    /\ UNCHANGED <<Others, commitIndex, lastApplied, logBase, commitCh, applyCh,
                   history>>

(* ... or until the context is done: the count is taken back.              *)
Undo ==
    /\ loop.pc = "send" /\ ctx = "done"
    /\ lastApplied' = lastApplied - 1
    /\ loop' = At("idle")
    /\ UNCHANGED <<Others, commitIndex, logBase, commitCh, applyCh, history>>

LoopExits ==
    /\ loop.pc = "idle" /\ ctx = "done"
    /\ loop' = At("exited")
    /\ UNCHANGED <<Others, commitIndex, lastApplied, logBase, commitCh, applyCh,
                   history>>

(* The snapshot is not waited for: with a full channel, or when a save     *)
(* fails, the handler ends with an error after everything else it does.    *)
Queue(i) ==
    \/ /\ Len(applyCh) < ChanCap
       /\ applyCh' = Append(applyCh, Snapshot(i)) /\ UNCHANGED lost
    \/ lost' = TRUE /\ UNCHANGED applyCh

(* InstallSnapshot, past its guards.                                       *)
InstallSnapshot(i) ==
    /\ Active /\ i > commitIndex
    /\ loop.pc = "send" => Overtaking
    /\ commitIndex' = i /\ lastApplied' = i /\ logBase' = i
    /\ Queue(i)
    /\ UNCHANGED <<Others, commitCh, loop, signalled>>

-----------------------------------------------------------------------------
(* The KV server's end of applyCh                                          *)

(* A message is applied; after a command the log may be compacted up to    *)
(* it, which Raft refuses beyond its commit index.                         *)
Consume ==
    LET m == Head(applyCh)
    IN  /\ consumer /\ applyCh # << >>
        /\ applyCh' = Tail(applyCh)
        /\ kvApplied' = m.index
        /\ \/ UNCHANGED logBase
           \/ /\ ~m.snapshot /\ m.index \in (logBase + 1) .. commitIndex
              /\ logBase' = m.index
        /\ UNCHANGED <<bootVars, commitIndex, lastApplied, commitCh, loop,
                       consumer, dead, history, timerVars, stopVars, rpc>>

(* A handler is in ReplicateCommand, then waits for its result.            *)
Arrive(r) ==
    /\ Serving /\ rpc[r] = "none"
    /\ rpc' = [rpc EXCEPT ![r] = "polling"]
    /\ UNCHANGED <<bootVars, applyVars, kvVars, history, timerVars, stopVars>>

Polled(r) ==
    /\ rpc[r] = "polling"
    /\ \/ ~dead /\ rpc' = [rpc EXCEPT ![r] = "waiting"]
       \/ rpc' = [rpc EXCEPT ![r] = "none"]
    /\ UNCHANGED <<bootVars, applyVars, kvVars, history, timerVars, stopVars>>

Waited(r) ==
    /\ rpc[r] = "waiting"
    /\ rpc' = [rpc EXCEPT ![r] = "none"]
    /\ UNCHANGED <<bootVars, applyVars, kvVars, history, timerVars, stopVars>>

-----------------------------------------------------------------------------
(* The election timer and the heartbeat goroutines                         *)

NotTimers == <<bootVars, applyVars, kvVars, history, stopVars, rpc>>

Goto(c, pc) == callback' = [callback EXCEPT ![c] = pc]

(* The runtime calls becomeCandidate in a goroutine that nobody waits for. *)
TimerFires(c) ==
    /\ timer /\ callback[c] = "none"
    /\ timer' = FALSE
    /\ Goto(c, "fired")
    /\ UNCHANGED <<NotTimers, role, beats, campaigns>>

(* A save that fails ends it without a new timer.                          *)
Campaign(c) ==
    /\ role # "leader" /\ campaigns < MaxCampaigns
    /\ role' = "candidate" /\ campaigns' = campaigns + 1
    /\ \E pc \in {"rearm", "none"} : Goto(c, pc)

CampaignEvenDown(c) ==
    /\ callback[c] = "fired"
    /\ \/ Campaign(c)
       \/ role = "leader" /\ Goto(c, "none") /\ UNCHANGED <<role, campaigns>>
    /\ UNCHANGED <<NotTimers, timer, beats>>

(* becomeCandidate: nothing on a leader, or when the node shuts down.      *)
BecomeCandidate(c) ==
    /\ callback[c] = "fired"
    /\ \/ ~shutdown /\ Campaign(c)
       \/ /\ shutdown \/ role = "leader"
          /\ Goto(c, "none")
          /\ UNCHANGED <<role, campaigns>>
    /\ UNCHANGED <<NotTimers, timer, beats>>

(* It arms the timer again in a second critical section.                   *)
Rearm(c) ==
    /\ callback[c] = "rearm"
    /\ timer' = TRUE
    /\ Goto(c, "election")
    /\ UNCHANGED <<NotTimers, role, beats, campaigns>>

(* becomeLeader, or an election that is not won.                           *)
BecomeLeader(c) ==
    /\ callback[c] = "election"
    /\ \/ /\ role = "candidate" /\ ~shutdown
          /\ role' = "leader" /\ timer' = FALSE
          /\ Goto(c, "heartbeat")
       \/ Goto(c, "none") /\ UNCHANGED <<role, timer>>
    /\ UNCHANGED <<NotTimers, beats, campaigns>>

(* startHeartbeatLocked: the goroutine is counted after the mutex was      *)
(* released.                                                               *)
StartHeartbeat(c) ==
    /\ callback[c] = "heartbeat"
    /\ beats' = beats + 1
    /\ Goto(c, "none")
    /\ UNCHANGED <<NotTimers, role, timer, campaigns>>

HeartbeatExitsWithRole ==
    /\ beats > 0 /\ role # "leader"
    /\ beats' = beats - 1
    /\ UNCHANGED <<NotTimers, role, timer, callback, campaigns>>

(* runHeartbeat ends with the context only, whatever the role.             *)
HeartbeatExits ==
    /\ beats > 0 /\ ctx = "done"
    /\ beats' = beats - 1
    /\ UNCHANGED <<NotTimers, role, timer, callback, campaigns>>

(* A call or a reply of another node: the term is newer, or the leader is  *)
(* alive.  No handler asks whether the node shuts down.                    *)
HearPeer ==
    /\ Active
    /\ role' = "follower"
    /\ timer' \in {timer, ctx # "none"}
    /\ UNCHANGED <<NotTimers, callback, beats, campaigns>>

-----------------------------------------------------------------------------
(* Shutdown: Raft.Shutdown, Server.Kill, GracefulStop                      *)

Goroutines == (IF loop.pc \in {"off", "exited"} THEN 0 ELSE 1) + beats

Signal ==
    /\ Step("up", "cancel")
    /\ shutdown' = TRUE        \* by compare-and-swap, without the mutex
    /\ UNCHANGED <<input, listener, applyVars, kvVars, history, timerVars, ctx, rpc>>

(* The gRPC server fails: main returns at once.                            *)
ServeFails ==
    /\ Step("up", "failed")
    /\ listener' = FALSE
    /\ UNCHANGED <<input, Restless>>

Cancel ==
    /\ Step("cancel", "wait")
    /\ ctx' = "done" /\ timer' = FALSE
    /\ UNCHANGED <<input, listener, applyVars, kvVars, history, role, callback,
                   beats, campaigns, shutdown, rpc>>

WaitForHeartbeats ==
    /\ Step("wait", "kill") /\ beats = 0
    /\ UNCHANGED <<input, listener, Restless>>

Wait ==
    /\ Step("wait", "kill") /\ Goroutines = 0
    /\ UNCHANGED <<input, listener, Restless>>

(* Every waiter is told; handlers see it when they look next.              *)
Kill ==
    /\ Step("kill", "drain")
    /\ dead' = TRUE
    /\ UNCHANGED <<input, listener, applyVars, consumer, kvApplied, history,
                   timerVars, stopVars, rpc>>

Drain ==
    /\ main = "drain" /\ applyCh # << >>
    /\ applyCh' = Tail(applyCh)
    /\ UNCHANGED <<bootVars, commitIndex, lastApplied, logBase, commitCh, loop,
                   kvVars, history, timerVars, stopVars, rpc>>

(* The two seconds of the drain are over; no new calls from here.          *)
GracefulStop ==
    /\ Step("drain", "graceful")
    /\ listener' = FALSE
    /\ UNCHANGED <<input, Restless>>

Stopped ==
    /\ Step("graceful", "stopped")
    /\ \A r \in Rpc : rpc[r] = "none"
    /\ UNCHANGED <<input, listener, Restless>>

-----------------------------------------------------------------------------
Running == main \notin {"failed", "refused", "stopped"}

BootNext  == LoadConfig \/ Listen \/ NewRaft \/ NewServer \/ Serve \/ StartRaft
ApplyNext == \/ AdvanceCommit \/ Wake \/ NextEntry \/ Send \/ Undo \/ LoopExits
             \/ Consume \/ \E i \in 1 .. MaxIndex : InstallSnapshot(i)
TimerNext == \/ HearPeer \/ HeartbeatExits
             \/ \E c \in Callback :
                  \/ TimerFires(c) \/ BecomeCandidate(c) \/ Rearm(c)
                  \/ BecomeLeader(c) \/ StartHeartbeat(c)
RpcNext   == \E r \in Rpc : Arrive(r) \/ Polled(r) \/ Waited(r)
StopNext  == \/ Signal \/ ServeFails \/ Cancel \/ Wait \/ Kill \/ Drain
             \/ GracefulStop \/ Stopped

Next == Running /\ (BootNext \/ ApplyNext \/ TimerNext \/ RpcNext \/ StopNext)

(* Goroutines that can run do; time-outs end.  Nothing makes commits,      *)
(* calls, signals or elections happen.                                     *)
Fairness ==
    /\ WF_vars(Running /\ (Cancel \/ Wait \/ Kill \/ GracefulStop \/ Stopped))
    /\ WF_vars(Running /\ (Wake \/ NextEntry \/ Send \/ Undo))
    /\ WF_vars(Running /\ LoopExits)
    /\ WF_vars(Running /\ HeartbeatExits)
    /\ \A r \in Rpc : WF_vars(Running /\ (Polled(r) \/ Waited(r)))

Spec == Init /\ [][Next]_vars /\ Fairness

-----------------------------------------------------------------------------
(* Properties                                                              *)

(* What the KV server stands at after the first j messages of applyCh.     *)
Reached(j) == IF j = 0 THEN kvApplied ELSE applyCh[j].index

(* Until Kill drains it, and unless entries count as applied that were not *)
(* sent, applyCh carries the log in order: every command is the one after  *)
(* what the KV server stands at when it gets there, none is missing        *)
(* between the last message and lastApplied, and the entry that the apply  *)
(* loop holds is the next one.  The undo on shutdown keeps it so.          *)
InOrder ==
    ~dead /\ ~lost =>
      /\ \A j \in 1 .. Len(applyCh) :
           IF applyCh[j].snapshot THEN applyCh[j].index >= Reached(j - 1)
           ELSE applyCh[j].index = Reached(j - 1) + 1
      /\ loop.pc = "send" => loop.index = lastApplied
      /\ lastApplied = Reached(Len(applyCh)) + (IF loop.pc = "send" THEN 1 ELSE 0)

(* A dropped signal is harmless: since the first commit of this process,   *)
(* the apply loop never sleeps on an entry it has to apply.                *)
NoMissedCommit ==
    signalled /\ loop.pc = "idle" /\ ~commitCh /\ ctx = "live"
      => lastApplied >= commitIndex

(* A configuration that is loaded, and has the node, is never refused by   *)
(* Raft; and when start-up fails the port is free again.                   *)
LoadedIsAccepted ==
    /\ main # "refused"
    /\ main = "failed" => ~listener

(* Once Shutdown holds the mutex no election is started, whatever timers   *)
(* and callbacks are still under way.                                      *)
NoCampaignAfterShutdown == [][ctx = "done" => campaigns' = campaigns]_vars

SendsCommand ==
    \E j \in 1 .. Len(applyCh') : j > Len(applyCh) /\ ~applyCh'[j].snapshot

(* When Shutdown has returned, no command is sent any more: what Kill then *)
(* takes out of applyCh stays out, but for a snapshot that is installed.   *)
NothingSentAfterShutdown ==
    [][SendsCommand => main \notin {"kill", "drain", "graceful"}]_vars

(* A node that is told to stop stops: a full applyCh, callbacks of the     *)
(* timer, heartbeats and handlers never hold it up for good.               *)
ShutdownCompletes == main = "cancel" ~> main = "stopped"
=============================================================================
