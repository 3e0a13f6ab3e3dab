------------------------------ MODULE KVServer ------------------------------
(***************************************************************************)
(* The state machine layer (package kv): the RPC handlers of every node,   *)
(* the apply loop, the duplicate cache and the snapshots.                  *)
(*                                                                         *)
(* An action is one critical section of Server.mu, or one call into the    *)
(* Raft node below.  Raft is what its callers see of it: one log of        *)
(* committed entries, a leader flag, commands that are committed later or  *)
(* never, and for every node a channel that carries the log in order.  An  *)
(* index that ReplicateCommand returns is the index of the command.        *)
(***************************************************************************)
EXTENDS Integers, Sequences, FiniteSets

CONSTANTS
    Node,
    None,               \* no leader known; no value under a key
    Key,
    Call,               \* bound: the calls of submitOperation, each made once
    Requests,           \* bound: the <<call, node, operation>> that may be made
    ChanCap,            \* capacity of applyCh
    MaxPending,         \* maxPending
    CacheCap,           \* maxDuplicateEntriesPerClient
    SnapshotThreshold,  \* snapshot_threshold
    MaxChanges,         \* bound: changes of leaderId, cluster-wide
    MaxRestarts,        \* bound: process crashes, cluster-wide
    MaxKills,           \* bound: nodes that are shut down
    MaxExpiries         \* bound: lookups that find an entry past its TTL

ASSUME BoundsAssumption ==
    {ChanCap, MaxPending, CacheCap, SnapshotThreshold, MaxChanges, MaxRestarts,
     MaxKills, MaxExpiries} \subseteq Nat

ASSUME RequestsAssumption ==
    /\ None \notin Node
    /\ \A r \in Requests : r[1] \in Call /\ r[2] \in Node

VARIABLES
    log,          \* Raft: the committed entries, [call, op]
    proposed,     \* Raft: calls whose command is in a leader's log
    leaderId,     \* Raft: leaderId[n] is n on a leader, None if not known
    fed,          \* Raft: index of the last message put into applyCh[n]
    applyCh,
    snap,         \* Raft: snap[n], the snapshot in the files of n
    state, duplicates, pendingOps, recent, lastApplied, lastSnapshotIndex,
    dead,
    loop,         \* loop[n]: where the apply loop of n is
    calls,        \* calls[c]: where a call of submitOperation is
    changes, restarts, kills, expiries

raftVars   == <<log, proposed, leaderId, fed, applyCh, snap>>
serverVars == <<state, duplicates, pendingOps, recent, lastApplied,
                lastSnapshotIndex, dead, loop>>
boundVars  == <<changes, restarts, kills, expiries>>
vars == <<raftVars, serverVars, calls, boundVars>>

(* (0, 0): an operation without client and sequence number.                *)
NoId == [client |-> 0, seq |-> 0]

NoSnap == [index |-> 0, state |-> [k \in Key |-> None], duplicates |-> << >>]

Result(err, val) == [err |-> err, val |-> val]
Empty            == Result("empty", << >>)

At(pc, i, r, executed) ==
    [pc |-> pc, index |-> i, result |-> r, executed |-> executed]
Recv == At("recv", 0, Empty, FALSE)

(* The locals of a call; ch is resultCh, with room for one result.         *)
Locals(pc, n, op, i, ch) ==
    [pc |-> pc, node |-> n, op |-> op, index |-> i, ch |-> ch,
     reply |-> "none", val |-> << >>]
CallOf(pc, n, op)   == Locals(pc, n, op, 0, << >>)
NoCall              == CallOf("idle", None, None)
Answered(l, r, val) == [pc |-> "done", node |-> l.node, op |-> l.op, index |-> 0,
                        ch |-> << >>, reply |-> r, val |-> val]
Told(l, r)          == IF l.ch = << >> THEN Locals(l.pc, l.node, l.op, l.index, <<r>>)
                       ELSE l

With(f, x, y)  == [z \in DOMAIN f \cup {x} |-> IF z = x THEN y ELSE f[z]]
Without(f, x)  == [z \in DOMAIN f \ {x} |-> f[z]]
EmptyMap       == [z \in {} |-> None]

Init ==
    /\ log = << >> /\ proposed = {}
    /\ leaderId          = [n \in Node |-> None]
    /\ fed               = [n \in Node |-> 0]
    /\ applyCh           = [n \in Node |-> << >>]
    /\ snap              = [n \in Node |-> NoSnap]
    /\ state             = [n \in Node |-> NoSnap.state]
    /\ duplicates        = [n \in Node |-> << >>]
    /\ pendingOps        = [n \in Node |-> EmptyMap]
    /\ recent            = [n \in Node |-> EmptyMap]
    /\ lastApplied       = [n \in Node |-> 0]
    /\ lastSnapshotIndex = [n \in Node |-> 0]
    /\ dead              = [n \in Node |-> FALSE]
    /\ loop              = [n \in Node |-> Recv]
    /\ calls             = [c \in Call |-> NoCall]
    /\ changes = 0 /\ restarts = 0 /\ kills = 0 /\ expiries = 0

-----------------------------------------------------------------------------
(* The Raft node, as package kv uses it                                    *)

(* A node is elected, hears of a leader, or no longer knows of one.        *)
ChangeLeader(n, l) ==
    /\ changes < MaxChanges /\ l # leaderId[n]
    /\ l \in {n, None} \cup {m \in Node : leaderId[m] = m}
    /\ changes' = changes + 1
    /\ leaderId' = [leaderId EXCEPT ![n] = l]
    /\ UNCHANGED <<log, proposed, fed, applyCh, snap, serverVars, calls,
                   restarts, kills, expiries>>

(* A command that a leader has accepted is committed, waited for or not.   *)
Commit(c) ==
    /\ c \in proposed
    /\ proposed' = proposed \ {c}
    /\ log' = Append(log, [call |-> c, op |-> calls[c].op])
    /\ UNCHANGED <<leaderId, fed, applyCh, snap, serverVars, calls, boundVars>>

CommandMsg(i)  == [snapshot |-> FALSE, index |-> i, data |-> NoSnap]
SnapshotMsg(s) == [snapshot |-> TRUE, index |-> s.index, data |-> s]

(* The apply loop of Raft ends before Kill is called.                      *)
Deliver(n) ==
    /\ ~dead[n]
    /\ fed[n] < Len(log) /\ Len(applyCh[n]) < ChanCap
    /\ fed' = [fed EXCEPT ![n] = @ + 1]
    /\ applyCh' = [applyCh EXCEPT ![n] =
                     Append(@, CommandMsg(fed[n] + 1))]
    /\ UNCHANGED <<log, proposed, leaderId, snap, serverVars, calls, boundVars>>

(* A snapshot of m reaches n, which is behind it.                          *)
InstallSnapshot(n, m) ==
    /\ snap[m].index > fed[n] /\ Len(applyCh[n]) < ChanCap
    /\ fed' = [fed EXCEPT ![n] = snap[m].index]
    /\ snap' = [snap EXCEPT ![n] = snap[m]]
    /\ applyCh' = [applyCh EXCEPT ![n] =
                     Append(@, SnapshotMsg(snap[m]))]
    /\ UNCHANGED <<log, proposed, leaderId, serverVars, calls, boundVars>>

-----------------------------------------------------------------------------
(* RPC handlers and submitOperation: server.go                             *)

Goto(c, pc) ==
    calls' = [calls EXCEPT ![c] = Locals(pc, @.node, @.op, @.index, @.ch)]
Reply(c, kind, val) == calls' = [calls EXCEPT ![c] = Answered(@, kind, val)]

(* A wrong-leader response carries the leader this node knows of when it   *)
(* is built; that may be the node itself, if it has been elected meanwhile *)
(* or has taken over a newer term in RequestVote, which leaves leaderId.   *)
WrongLeader(c) ==
    \E l \in {leaderId[calls[c].node], calls[c].node} : Reply(c, "wrong", l)

(* The end of the handlers: only Get looks at Result.Err.                  *)
Respond(c, r) ==
    IF calls[c].op.type = "Get" /\ r.err # "none"
    THEN Reply(c, "error", << >>)
    ELSE Reply(c, "ok", r.val)

Start(c, n, op, pc) ==
    /\ calls[c] = NoCall
    /\ calls' = [calls EXCEPT ![c] = CallOf(pc, n, op)]
    /\ UNCHANGED <<raftVars, serverVars, boundVars>>

(* A request of the KV service; the handlers leave ClientId and SequenceId *)
(* of the operation at zero.                                               *)
Request(c, n, op) == op.id = NoId /\ Start(c, n, op, "handler")

(* A caller inside the package, with an operation that has an id.          *)
SubmitOperation(c, n, op) == op.id # NoId /\ Start(c, n, op, "dedup")

(* Get, Put and Append ask first whether this node leads.                  *)
CheckLeader(c) ==
    /\ calls[c].pc = "handler"
    /\ \/ leaderId[calls[c].node] = calls[c].node /\ Goto(c, "submit")
       \/ leaderId[calls[c].node] # calls[c].node /\ WrongLeader(c)
    /\ UNCHANGED <<raftVars, serverVars, boundVars>>

CachedOfClient(ds, id) ==
    {i \in 1 .. Len(ds) : ds[i].id.client = id.client /\ id # NoId}

Cached(ds, id) == {i \in 1 .. Len(ds) : ds[i].id = id /\ id # NoId}

(* getDuplicateLocked finds no entry, or one that is too old and goes.     *)
Miss(n, id) ==
    \/ /\ Cached(duplicates[n], id) = {}
       /\ UNCHANGED expiries
    \/ /\ Cached(duplicates[n], id) # {} /\ expiries < MaxExpiries
       /\ expiries' = expiries + 1

Forget(ds, id) == SelectSeq(ds, LAMBDA d : d.id # id)

CheckDuplicate(c) ==
    LET n  == calls[c].node
        id == calls[c].op.id
    IN  /\ calls[c].pc = "dedup"
        /\ \/ /\ Miss(n, id)
              /\ duplicates' = [duplicates EXCEPT ![n] = Forget(@, id)]
              /\ Goto(c, "submit")
           \/ /\ \E i \in Cached(duplicates[n], id) :
                   Respond(c, duplicates[n][i].result)
              /\ UNCHANGED <<duplicates, expiries>>
        /\ UNCHANGED <<raftVars, state, pendingOps, recent, lastApplied,
                       lastSnapshotIndex, dead, loop, changes, restarts, kills>>

(* ReplicateCommand: refused, failed to save, or in the leader's log.      *)
ReplicateCommand(c) ==
    /\ calls[c].pc = "submit"
    /\ \/ /\ leaderId[calls[c].node] # calls[c].node
          /\ WrongLeader(c)
          /\ UNCHANGED proposed
       \/ /\ leaderId[calls[c].node] = calls[c].node
          /\ Goto(c, "polling")
          /\ proposed' = proposed \cup {c}
       \/ /\ leaderId[calls[c].node] = calls[c].node
          /\ Reply(c, "error", << >>)
          /\ UNCHANGED proposed
    /\ UNCHANGED <<log, leaderId, fed, applyCh, snap, serverVars, boundVars>>

IndexOf(c) == CHOOSE i \in 1 .. Len(log) : log[i].call = c

(* ReplicateCommand returns: committed, or 5s without a majority.          *)
CommandReplicated(c) ==
    /\ calls[c].pc = "polling"
    /\ \/ /\ \E i \in 1 .. Len(log) : log[i].call = c
          /\ calls' = [calls EXCEPT ![c] = Locals("register", @.node, @.op,
                                                  IndexOf(c), @.ch)]
       \/ Reply(c, "error", << >>)
    /\ UNCHANGED <<raftVars, serverVars, boundVars>>

RegisterOnly(c) ==
    LET n == calls[c].node
        i == calls[c].index
    IN  /\ calls[c].pc = "register" /\ ~dead[n]
        /\ pendingOps' = [pendingOps EXCEPT ![n] = With(@, i, c)]
        /\ Goto(c, "waiting")
        /\ UNCHANGED <<raftVars, state, duplicates, recent, lastApplied,
                       lastSnapshotIndex, dead, loop, boundVars>>

(* The waiter is registered; a result that came first is in recent, and    *)
(* the waiter of such a call is left in pendingOps.                        *)
Register(c) ==
    LET n == calls[c].node
        i == calls[c].index
    IN  /\ calls[c].pc = "register"
        /\ \/ /\ dead[n] \/ Cardinality(DOMAIN pendingOps[n]) >= MaxPending
              /\ Reply(c, "error", << >>)
              /\ UNCHANGED <<pendingOps, recent>>
           \/ /\ ~dead[n] /\ Cardinality(DOMAIN pendingOps[n]) < MaxPending
              /\ pendingOps' = [pendingOps EXCEPT ![n] = With(@, i, c)]
              /\ \/ /\ i \in DOMAIN recent[n]
                    /\ recent' = [recent EXCEPT ![n] = Without(@, i)]
                    /\ Respond(c, recent[n][i])
                 \/ /\ i \notin DOMAIN recent[n]
                    /\ Goto(c, "waiting")
                    /\ UNCHANGED recent
        /\ UNCHANGED <<raftVars, state, duplicates, lastApplied,
                       lastSnapshotIndex, dead, loop, boundVars>>

(* The select at the end of submitOperation: any case that is ready.       *)
Receive(c) ==
    /\ calls[c].pc = "waiting" /\ calls[c].ch # << >>
    /\ Respond(c, Head(calls[c].ch))
    /\ UNCHANGED <<raftVars, serverVars, boundVars>>

TimeOut(c) ==
    LET n == calls[c].node
    IN  /\ calls[c].pc = "waiting"
        /\ pendingOps' = [pendingOps EXCEPT ![n] = Without(@, calls[c].index)]
        /\ Reply(c, "error", << >>)
        /\ UNCHANGED <<raftVars, state, duplicates, recent, lastApplied,
                       lastSnapshotIndex, dead, loop, boundVars>>

SeeShutdown(c) ==
    /\ calls[c].pc = "waiting" /\ dead[calls[c].node]
    /\ Reply(c, "error", << >>)
    /\ UNCHANGED <<raftVars, serverVars, boundVars>>

-----------------------------------------------------------------------------
(* The apply loop: apply.go                                                *)

(* applyCommandLocked                                                      *)
Execute(s, op) ==
    CASE op.type = "Put"    -> [s EXCEPT ![op.key] = <<op.val>>]
      [] op.type = "Append" -> [s EXCEPT ![op.key] =
                                  (IF @ = None THEN << >> ELSE @) \o <<op.val>>]
      [] op.type = "Get"    -> s

ResultOf(s, op) ==
    IF op.type # "Get" THEN Result("none", << >>)
    ELSE IF s[op.key] = None THEN Result("notfound", << >>)
    ELSE Result("none", s[op.key])

(* saveDuplicateLocked and cleanupDuplicateCacheLocked: the cache is kept  *)
(* in the order of its timestamps; the client's oldest entry goes when the *)
(* client has more than the cap.                                           *)
SaveDuplicate(ds, id, r) ==
    LET all  == Append(ds, [id |-> id, result |-> r])
        mine == {i \in 1 .. Len(all) : all[i].id.client = id.client}
        old  == CHOOSE i \in mine : \A j \in mine : i <= j
    IN  IF id = NoId THEN ds
        ELSE IF Cardinality(mine) <= CacheCap THEN all
        ELSE SubSeq(all, 1, old - 1) \o SubSeq(all, old + 1, Len(all))

(* processApplyMsg with a command, up to notifyWaiter.                     *)
ApplyCommand(n) ==
    LET i  == Head(applyCh[n]).index
        op == log[i].op
        r  == ResultOf(state[n], op)
    IN  /\ loop[n].pc = "recv" /\ applyCh[n] # << >> /\ ~Head(applyCh[n]).snapshot
        /\ applyCh' = [applyCh EXCEPT ![n] = Tail(@)]
        /\ \/ /\ Miss(n, op.id)
              /\ state' = [state EXCEPT ![n] = Execute(@, op)]
              /\ lastApplied' = [lastApplied EXCEPT ![n] = i]
              /\ duplicates' = [duplicates EXCEPT ![n] =
                                  SaveDuplicate(Forget(@, op.id), op.id, r)]
              /\ loop' = [loop EXCEPT ![n] = At("notify", i, r, TRUE)]
           \/ /\ \E d \in Cached(duplicates[n], op.id) :
                   loop' = [loop EXCEPT ![n] =
                              At("notify", i, duplicates[n][d].result, FALSE)]
              /\ UNCHANGED <<state, lastApplied, duplicates, expiries>>
        /\ UNCHANGED <<log, proposed, leaderId, fed, snap, pendingOps, recent,
                       lastSnapshotIndex, dead, calls, changes, restarts, kills>>

StashedLate(f, i, r) ==
    IF Cardinality(DOMAIN f) <= MaxPending THEN {With(f, i, r)}
    ELSE {Without(With(f, i, r), x) : x \in DOMAIN f}

(* The stash with a result more: any of them goes when there are too many. *)
Stashed(f, i, r) ==
    LET g == With(f, i, r)
    IN  IF Cardinality(DOMAIN g) <= MaxPending THEN {g}
        ELSE {Without(g, x) : x \in DOMAIN g}

(* takeSnapshot follows an executed command, and returns at once until     *)
(* enough of them have been applied.                                       *)
AfterNotify(n) ==
    IF /\ loop[n].executed /\ SnapshotThreshold > 0
       /\ lastApplied[n] - lastSnapshotIndex[n] >= SnapshotThreshold
    THEN At("snapshot", 0, Empty, FALSE)
    ELSE Recv

(* notifyWaiter: the channel of the waiter holds one result; the waiter    *)
(* may have left.                                                          *)
NotifyWaiter(n) ==
    LET i == loop[n].index
        r == loop[n].result
        c == pendingOps[n][i]
    IN  /\ loop[n].pc = "notify"
        /\ loop' = [loop EXCEPT ![n] = AfterNotify(n)]
        /\ \/ /\ i \in DOMAIN pendingOps[n]
              /\ pendingOps' = [pendingOps EXCEPT ![n] = Without(@, i)]
              /\ calls' = [calls EXCEPT ![c] = Told(@, r)]
              /\ UNCHANGED recent
           \/ /\ i \notin DOMAIN pendingOps[n]
              /\ \E g \in Stashed(recent[n], i, r) :
                   recent' = [recent EXCEPT ![n] = g]
              /\ UNCHANGED <<pendingOps, calls>>
        /\ UNCHANGED <<raftVars, state, duplicates, lastApplied,
                       lastSnapshotIndex, dead, boundVars>>

-----------------------------------------------------------------------------
(* Snapshots: snapshot.go                                                  *)

SnapshotAhead(n) ==
    [index |-> fed[n], state |-> state[n], duplicates |-> duplicates[n]]

Snapshot(n) ==
    [index |-> lastApplied[n], state |-> state[n], duplicates |-> duplicates[n]]

(* takeSnapshot; Raft refuses nothing but a failing save, and ignores an   *)
(* index that its snapshot covers.                                         *)
TakeSnapshot(n) ==
    /\ loop[n].pc = "snapshot"
    /\ loop' = [loop EXCEPT ![n] = Recv]
    /\ \/ /\ snap' = [snap EXCEPT ![n] = IF lastApplied[n] > @.index
                                         THEN Snapshot(n) ELSE @]
          /\ lastSnapshotIndex' = [lastSnapshotIndex EXCEPT ![n] = lastApplied[n]]
       \/ UNCHANGED <<snap, lastSnapshotIndex>>
    /\ UNCHANGED <<log, proposed, leaderId, fed, applyCh, state, duplicates,
                   pendingOps, recent, lastApplied, dead, calls, boundVars>>

RestoreStateOnly(n) ==
    LET s == Head(applyCh[n]).data
    IN  /\ loop[n].pc = "recv" /\ applyCh[n] # << >> /\ Head(applyCh[n]).snapshot
        /\ applyCh' = [applyCh EXCEPT ![n] = Tail(@)]
        /\ state' = [state EXCEPT ![n] = s.state]
        /\ lastApplied' = [lastApplied EXCEPT ![n] = s.index]
        /\ UNCHANGED <<log, proposed, leaderId, fed, snap, duplicates, pendingOps,
                       recent, lastSnapshotIndex, dead, loop, calls, boundVars>>

(* handleSnapshotMsg: pendingOps stays, and no waiter is told.             *)
HandleSnapshotMsg(n) ==
    LET s == Head(applyCh[n]).data
    IN  /\ loop[n].pc = "recv" /\ applyCh[n] # << >> /\ Head(applyCh[n]).snapshot
        /\ applyCh' = [applyCh EXCEPT ![n] = Tail(@)]
        /\ state' = [state EXCEPT ![n] = s.state]
        /\ duplicates' = [duplicates EXCEPT ![n] = s.duplicates]
        /\ lastApplied' = [lastApplied EXCEPT ![n] = s.index]
        /\ lastSnapshotIndex' = [lastSnapshotIndex EXCEPT ![n] = s.index]
        /\ recent' = [recent EXCEPT ![n] = EmptyMap]
        /\ UNCHANGED <<log, proposed, leaderId, fed, snap, pendingOps, dead, loop,
                       calls, boundVars>>

-----------------------------------------------------------------------------
(* Kill, crash and restart                                                 *)

(* Kill tells every waiter whose channel has room, and forgets them all.   *)
Kill(n) ==
    LET told == {pendingOps[n][i] : i \in DOMAIN pendingOps[n]}
    IN  /\ kills < MaxKills /\ ~dead[n]
        /\ kills' = kills + 1
        /\ dead' = [dead EXCEPT ![n] = TRUE]
        /\ pendingOps' = [pendingOps EXCEPT ![n] = EmptyMap]
        /\ calls' = [c \in Call |->
             IF c \in told THEN Told(calls[c], Result("shutdown", << >>))
             ELSE calls[c]]
        /\ UNCHANGED <<raftVars, state, duplicates, recent, lastApplied,
                       lastSnapshotIndex, loop, changes, restarts, expiries>>

(* Kill takes messages off the channel while the apply loop still runs.    *)
Drain(n) ==
    /\ dead[n] /\ applyCh[n] # << >>
    /\ applyCh' = [applyCh EXCEPT ![n] = Tail(@)]
    /\ UNCHANGED <<log, proposed, leaderId, fed, snap, serverVars, calls,
                   boundVars>>

(* The process of n ends and a new one starts: NewServer, on a Raft node   *)
(* that has loaded its snapshot and queued it.  A node without a snapshot  *)
(* would count its log as applied; such restarts are left out.             *)
Restart(n) ==
    /\ restarts < MaxRestarts /\ snap[n].index > 0
    /\ restarts' = restarts + 1
    /\ leaderId' = [leaderId EXCEPT ![n] = None]
    /\ fed' = [fed EXCEPT ![n] = snap[n].index]
    /\ applyCh' = [applyCh EXCEPT ![n] = <<SnapshotMsg(snap[n])>>]
    /\ state' = [state EXCEPT ![n] = NoSnap.state]
    /\ duplicates' = [duplicates EXCEPT ![n] = << >>]
    /\ pendingOps' = [pendingOps EXCEPT ![n] = EmptyMap]
    /\ recent' = [recent EXCEPT ![n] = EmptyMap]
    /\ lastApplied' = [lastApplied EXCEPT ![n] = 0]
    /\ lastSnapshotIndex' = [lastSnapshotIndex EXCEPT ![n] = 0]
    /\ dead' = [dead EXCEPT ![n] = FALSE]
    /\ loop' = [loop EXCEPT ![n] = Recv]
    /\ calls' = [c \in Call |->
         IF calls[c].node = n /\ calls[c].pc # "done"
         THEN Answered(calls[c], "lost", << >>)
         ELSE calls[c]]
    /\ UNCHANGED <<log, proposed, snap, changes, kills, expiries>>

RaftNext ==
    \/ \E n \in Node :
         \/ Deliver(n)
         \/ \E l \in Node \cup {None} : ChangeLeader(n, l)
         \/ \E m \in Node : InstallSnapshot(n, m)
    \/ \E c \in Call : Commit(c)

HandlerStep(c) ==
    \/ CheckLeader(c) \/ CheckDuplicate(c) \/ ReplicateCommand(c)
    \/ CommandReplicated(c) \/ Register(c) \/ Receive(c) \/ TimeOut(c)
    \/ SeeShutdown(c)

HandlerNext == \E c \in Call : HandlerStep(c)

ServerNext ==
    \E n \in Node :
      \/ ApplyCommand(n) \/ NotifyWaiter(n) \/ TakeSnapshot(n)
      \/ HandleSnapshotMsg(n) \/ Kill(n) \/ Drain(n) \/ Restart(n)

Next ==
    \/ RaftNext \/ HandlerNext \/ ServerNext
    \/ \E r \in Requests :
         Request(r[1], r[2], r[3]) \/ SubmitOperation(r[1], r[2], r[3])

Spec == Init /\ [][Next]_vars

-----------------------------------------------------------------------------
(* Properties                                                              *)

(* Reference: an operation is executed unless it is one of the operations  *)
(* that its client has executed last, as many as the cache holds.          *)
Executed[i \in 1 .. Len(log)] ==
    LET id == log[i].op.id
    IN  \/ id = NoId
        \/ ~\E j \in 1 .. i - 1 :
              /\ log[j].op.id = id /\ Executed[j]
              /\ CacheCap > Cardinality({k \in j + 1 .. i - 1 :
                    log[k].op.id.client = id.client /\ Executed[k]})

(* Reference: the map after the first i entries of the log.                *)
Replayed[i \in 0 .. Len(log)] ==
    IF i = 0 THEN NoSnap.state
    ELSE IF Executed[i] THEN Execute(Replayed[i - 1], log[i].op)
    ELSE Replayed[i - 1]

(* Until an entry of a cache expires, the map of every node that has not   *)
(* been killed is the log up to lastApplied with retries left out: apply   *)
(* loops, snapshots taken, installed and reloaded, and restarts in between *)
(* neither lose a command nor execute one twice, and all nodes agree.      *)
StateReflectsLog ==
    expiries = 0 =>
      \A n \in Node : ~dead[n] => state[n] = Replayed[lastApplied[n]]

Own(c) ==
    {i \in 1 .. Len(log) : \/ log[i].call = c
                           \/ /\ log[i].op.id = calls[c].op.id
                              /\ calls[c].op.id # NoId}

(* A call that submitOperation answers without an error has its command,   *)
(* or an earlier one with its id, in the log; a Get is told what the key   *)
(* held there.  The answer came through the waiter, the stash or the cache.*)
AnswersRight ==
    \A c \in Call : calls[c].reply = "ok" =>
        \E i \in Own(c) :
          calls[c].op.type = "Get" /\ expiries = 0
            => calls[c].val = Replayed[i - 1][calls[c].op.key]

(* Until the stash overflows, and on a node that installs no snapshot and  *)
(* is not killed, a call that waits has its result still to come: the      *)
(* apply loop either finds the waiter or leaves the result in recent.      *)
NoLostResult ==
    Len(log) <= MaxPending =>
      \A c \in Call : LET n == calls[c].node
                          i == calls[c].index
                      IN  calls[c].pc = "waiting" /\ calls[c].ch = << >> /\ ~dead[n]
                            => \/ i > fed[n]
                               \/ loop[n].pc = "notify" /\ loop[n].index = i
                               \/ \E m \in 1 .. Len(applyCh[n]) :
                                    applyCh[n][m].index = i

(* The waiters and the stash of a node never outgrow maxPending.           *)
PendingBounded ==
    \A n \in Node : /\ Cardinality(DOMAIN pendingOps[n]) <= MaxPending
                    /\ Cardinality(DOMAIN recent[n]) <= MaxPending

(* Raft trusts the server that a snapshot has every entry up to its index. *)
SnapshotComplete ==
    expiries = 0 => \A n \in Node : snap[n].state = Replayed[snap[n].index]
=============================================================================
