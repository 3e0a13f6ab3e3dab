------------------------------- MODULE KVProofs -------------------------------
(***************************************************************************)
(* Two properties of KVServer for any number of nodes and calls: the       *)
(* bound on pendingOps and recent, and that no result is lost.             *)
(***************************************************************************)
EXTENDS KVServer, FiniteSetTheorems, TLAPS

-----------------------------------------------------------------------------
(* Maps                                                                    *)

LEMMA WithFacts ==
  ASSUME NEW f, NEW x, NEW y
  PROVE  /\ DOMAIN With(f, x, y) = DOMAIN f \cup {x}
         /\ With(f, x, y)[x] = y
         /\ \A z \in DOMAIN f : z # x => With(f, x, y)[z] = f[z]
  BY Zenon DEF With

LEMMA WithoutFacts ==
  ASSUME NEW f, NEW x
  PROVE  /\ DOMAIN Without(f, x) = DOMAIN f \ {x}
         /\ \A z \in DOMAIN f \ {x} : Without(f, x)[z] = f[z]
  BY Zenon DEF Without

LEMMA EmptyMapFacts == DOMAIN EmptyMap = {}
  BY Zenon DEF EmptyMap

-----------------------------------------------------------------------------
(* The bound on pendingOps and recent                                      *)

Small(S) == IsFiniteSet(S) /\ Cardinality(S) <= MaxPending

BoundInv ==
    /\ pendingOps = [n \in Node |-> pendingOps[n]]
    /\ recent = [n \in Node |-> recent[n]]
    /\ \A n \in Node : Small(DOMAIN pendingOps[n]) /\ Small(DOMAIN recent[n])

LEMMA SmallEmpty == Small({})
  BY FS_EmptySet, BoundsAssumption DEF Small

LEMMA SmallWithout ==
  ASSUME NEW f, NEW x, Small(DOMAIN f)
  PROVE  Small(DOMAIN Without(f, x))
<1>1. DOMAIN Without(f, x) \subseteq DOMAIN f
  <2>1. DOMAIN Without(f, x) = DOMAIN f \ {x}
    BY WithoutFacts, Zenon
  <2> QED
    BY <2>1, Zenon
<1>2. Cardinality(DOMAIN f) \in Nat
  BY FS_CardinalityType, Zenon DEF Small
<1> QED
  BY <1>1, <1>2, FS_Subset, FS_CardinalityType, BoundsAssumption DEF Small

LEMMA SmallWith ==
  ASSUME NEW f, NEW x, NEW y, Small(DOMAIN f),
         Cardinality(DOMAIN f) < MaxPending
  PROVE  Small(DOMAIN With(f, x, y))
<1>1. DOMAIN With(f, x, y) = DOMAIN f \cup {x}
  BY WithFacts, Zenon
<1>2. IsFiniteSet(DOMAIN f \cup {x})
      /\ Cardinality(DOMAIN f \cup {x}) \in {Cardinality(DOMAIN f), Cardinality(DOMAIN f) + 1}
  BY FS_AddElement, Zenon DEF Small
<1>3. Cardinality(DOMAIN f) \in Nat
  BY FS_CardinalityType, Zenon DEF Small
<1> QED
  BY <1>1, <1>2, <1>3, BoundsAssumption DEF Small

(* The stash is cut down to the bound, whichever entry goes.               *)
LEMMA SmallStashed ==
  ASSUME NEW f, NEW i, NEW r, Small(DOMAIN f), NEW g \in Stashed(f, i, r)
  PROVE  Small(DOMAIN g)
<1> DEFINE h == With(f, i, r)
<1>1. DOMAIN h = DOMAIN f \cup {i}
  BY WithFacts, Zenon
<1>2. IsFiniteSet(DOMAIN h)
      /\ Cardinality(DOMAIN h) \in {Cardinality(DOMAIN f), Cardinality(DOMAIN f) + 1}
  BY <1>1, FS_AddElement, Zenon DEF Small
<1>3. Cardinality(DOMAIN f) \in Nat /\ Cardinality(DOMAIN f) <= MaxPending
      /\ MaxPending \in Nat
  BY FS_CardinalityType, BoundsAssumption, Zenon DEF Small
<1>4. CASE Cardinality(DOMAIN h) <= MaxPending
  BY <1>2, <1>4, Zenon DEF Stashed, Small
<1>5. CASE ~(Cardinality(DOMAIN h) <= MaxPending)
  <2>1. PICK x \in DOMAIN h : g = Without(h, x)
    BY <1>5, Zenon DEF Stashed
  <2>2. DOMAIN g = DOMAIN h \ {x}
    BY <2>1, WithoutFacts, Zenon
  <2>3. IsFiniteSet(DOMAIN g) /\ Cardinality(DOMAIN g) = Cardinality(DOMAIN h) - 1
    BY <1>2, <2>1, <2>2, FS_RemoveElement, Zenon
  <2> QED
    BY <1>2, <1>3, <2>3 DEF Small
<1> QED
  BY <1>4, <1>5, Zenon

LEMMA StashedDomain ==
  ASSUME NEW f, NEW i, NEW r, NEW g \in Stashed(f, i, r)
  PROVE  DOMAIN g \subseteq DOMAIN f \cup {i}
<1> DEFINE h == With(f, i, r)
<1>1. DOMAIN h = DOMAIN f \cup {i}
  BY WithFacts, Zenon
<1>2. g = h \/ \E x \in DOMAIN h : g = Without(h, x)
  BY Zenon DEF Stashed
<1> HIDE DEF h
<1>3. \A x : DOMAIN Without(h, x) \subseteq DOMAIN h
  BY Zenon DEF Without
<1> QED
  BY <1>1, <1>2, <1>3, Zenon

LEMMA BoundInit == Init => BoundInv
  BY SmallEmpty, EmptyMapFacts, Zenon DEF Init, BoundInv

LEMMA BoundStep == BoundInv /\ [Next]_vars => BoundInv'
<1> SUFFICES ASSUME BoundInv, [Next]_vars PROVE BoundInv'
  BY Zenon
<1>1. CASE UNCHANGED <<pendingOps, recent>>
  BY <1>1, Zenon DEF BoundInv
<1>2. ASSUME NEW n, NEW f, NEW g, n \in Node => Small(DOMAIN f) /\ Small(DOMAIN g),
             pendingOps' \in {pendingOps, [pendingOps EXCEPT ![n] = f]},
             recent' \in {recent, [recent EXCEPT ![n] = g]}
      PROVE  BoundInv'
  <2>1. CASE n \in Node
    BY <1>2, <2>1, Zenon DEF BoundInv
  <2>2. CASE n \notin Node
    <3>1. [pendingOps EXCEPT ![n] = f] = pendingOps /\ [recent EXCEPT ![n] = g] = recent
      BY <2>2, Zenon DEF BoundInv
    <3> QED
      BY <1>1, <1>2, <3>1, Zenon
  <2> QED
    BY <2>1, <2>2, Zenon
<1>3. ASSUME NEW c \in Call, Register(c) PROVE BoundInv'
  <2> DEFINE n == calls[c].node
             i == calls[c].index
             f == With(pendingOps[n], i, c)
             g == Without(recent[n], i)
  <2>1. CASE UNCHANGED <<pendingOps, recent>>
    BY <1>1, <2>1, Zenon
  <2>2. CASE ~UNCHANGED <<pendingOps, recent>>
    <3>1. /\ Cardinality(DOMAIN pendingOps[n]) < MaxPending
          /\ pendingOps' = [pendingOps EXCEPT ![n] = f]
          /\ recent' \in {recent, [recent EXCEPT ![n] = g]}
      BY <1>3, <2>2, Zenon DEF Register
    <3>2. n \in Node => Small(DOMAIN f) /\ Small(DOMAIN g)
      BY <3>1, SmallWith, SmallWithout, Zenon DEF BoundInv
    <3> HIDE DEF n, f, g
    <3> QED
      BY <3>1, <3>2, <1>2, Zenon
  <2> QED
    BY <2>1, <2>2, Zenon
<1>4. ASSUME NEW c \in Call, TimeOut(c) PROVE BoundInv'
  <2> DEFINE n == calls[c].node
             f == Without(pendingOps[n], calls[c].index)
  <2>1. pendingOps' = [pendingOps EXCEPT ![n] = f] /\ UNCHANGED recent
    BY <1>4, Zenon DEF TimeOut
  <2>2. n \in Node => Small(DOMAIN f)
    BY SmallWithout, Zenon DEF BoundInv
  <2> HIDE DEF n, f
  <2> QED
    BY <2>1, <2>2, <1>2, Zenon
<1>5. ASSUME NEW n \in Node, NotifyWaiter(n) PROVE BoundInv'
  <2> DEFINE i == loop[n].index
             f == Without(pendingOps[n], i)
  <2>1. CASE pendingOps' = [pendingOps EXCEPT ![n] = f] /\ UNCHANGED recent
    <3>1. Small(DOMAIN f)
      BY SmallWithout, Zenon DEF BoundInv
    <3> HIDE DEF f
    <3> QED
      BY <2>1, <3>1, <1>2, Zenon
  <2>2. ASSUME NEW g \in Stashed(recent[n], i, loop[n].result),
               recent' = [recent EXCEPT ![n] = g], UNCHANGED pendingOps
        PROVE  BoundInv'
    <3>1. Small(DOMAIN g)
      BY SmallStashed, Zenon DEF BoundInv
    <3> QED
      BY <2>2, <3>1, <1>2, Zenon
  <2> QED
    BY <1>5, <2>1, <2>2, Zenon DEF NotifyWaiter
<1>6. ASSUME NEW n \in Node, HandleSnapshotMsg(n) \/ Kill(n) \/ Restart(n)
      PROVE  BoundInv'
  <2>1. /\ pendingOps' \in {pendingOps, [pendingOps EXCEPT ![n] = EmptyMap]}
        /\ recent' \in {recent, [recent EXCEPT ![n] = EmptyMap]}
    BY <1>6, Zenon DEF HandleSnapshotMsg, Kill, Restart
  <2>2. Small(DOMAIN EmptyMap)
    BY SmallEmpty, EmptyMapFacts, Zenon
  <2> QED
    BY <1>2, <2>1, <2>2, Zenon
<1>7. CASE RaftNext
  BY <1>1, <1>7, Zenon
     DEF RaftNext, Deliver, ChangeLeader, InstallSnapshot, Commit, serverVars
<1>8. CASE HandlerNext
  BY <1>1, <1>3, <1>4, <1>8, Zenon
     DEF HandlerNext, HandlerStep, CheckLeader, CheckDuplicate,
     ReplicateCommand, CommandReplicated, Receive, SeeShutdown, serverVars
<1>9. CASE ServerNext
  BY <1>1, <1>5, <1>6, <1>9, Zenon
     DEF ServerNext, ApplyCommand, TakeSnapshot, Drain, serverVars
<1>10. CASE \E r \in Requests : Request(r[1], r[2], r[3])
                                  \/ SubmitOperation(r[1], r[2], r[3])
  BY <1>1, <1>10, Zenon DEF Request, SubmitOperation, Start, serverVars
<1> QED
  BY <1>1, <1>7, <1>8, <1>9, <1>10, Zenon DEF Next, vars, serverVars

(* The waiters and the stash of a node never outgrow maxPending: a waiter  *)
(* is refused at the bound, and a stash that has passed it loses an entry  *)
(* in the same critical section of submitOperation and notifyWaiter.       *)
THEOREM Bounded == Spec => []PendingBounded
<1>1. BoundInv => PendingBounded
  BY Zenon DEF BoundInv, PendingBounded, Small
<1> QED
  BY BoundInit, BoundStep, <1>1, PTL DEF Spec

-----------------------------------------------------------------------------
(* No lost result.  SnapshotThreshold = 0 turns snapshots off.             *)

Ops == {r[3] : r \in Requests} \cup {None}
Msg == [snapshot : {FALSE}, index : Nat \ {0}, data : {NoSnap}]

(* What an index stands for: the call whose command the entry is.          *)
Owns(c, i) == i \in 1 .. Len(log) /\ log[i].call = c

(* The result of index i is still on its way to notifyWaiter on node n.    *)
Coming(n, i) ==
    \/ i > fed[n]
    \/ loop[n].pc = "notify" /\ loop[n].index = i
    \/ \E m \in 1 .. Len(applyCh[n]) : applyCh[n][m].index = i

Fresh == {"idle", "handler", "dedup", "submit"}

CallInv ==
    /\ log \in Seq([call : Call, op : Ops])
    /\ proposed \subseteq Call
    /\ calls = [c \in Call |-> calls[c]]
    /\ \A c \in Call :
         /\ calls[c].op \in Ops
         /\ calls[c].pc # "idle" => calls[c].node \in Node
         /\ calls[c].pc \in {"register", "waiting"} => Owns(c, calls[c].index)
         /\ calls[c].pc \in Fresh
              => c \notin proposed /\ \A i \in 1 .. Len(log) : log[i].call # c

FeedInv ==
    /\ fed \in [Node -> Nat]
    /\ applyCh \in [Node -> Seq(Msg)]
    /\ loop = [n \in Node |-> loop[n]]
    /\ dead = [n \in Node |-> dead[n]]
    /\ snap = [n \in Node |-> NoSnap]
    /\ \A n \in Node :
         /\ fed[n] <= Len(log)
         /\ \A m \in 1 .. Len(applyCh[n]) : applyCh[n][m].index <= Len(log)
         /\ loop[n].pc \in {"recv", "notify"}
         /\ loop[n].pc = "notify" => loop[n].index \in 1 .. Len(log)

MapInv ==
    /\ pendingOps = [n \in Node |-> pendingOps[n]]
    /\ recent = [n \in Node |-> recent[n]]
    /\ \A n \in Node :
         /\ DOMAIN recent[n] \subseteq 1 .. Len(log)
         /\ \A i \in DOMAIN pendingOps[n] :
              /\ pendingOps[n][i] \in Call
              /\ Owns(pendingOps[n][i], i)
              /\ calls[pendingOps[n][i]].pc \in {"waiting", "done"}

Found(c) ==
    LET n == calls[c].node
    IN  /\ calls[c].pc \in {"polling", "register"} /\ ~dead[n] =>
             \A i \in 1 .. Len(log) :
               log[i].call = c => i \in DOMAIN recent[n] \/ Coming(n, i)
        /\ calls[c].pc = "waiting" /\ calls[c].ch = << >> /\ ~dead[n] =>
             /\ calls[c].index \in DOMAIN pendingOps[n]
             /\ Coming(n, calls[c].index)

WaitInv == Len(log) <= MaxPending => \A c \in Call : Found(c)

KInv == CallInv /\ FeedInv /\ MapInv /\ WaitInv

LEMMA InitKInv == Init => KInv
<1> SUFFICES ASSUME Init PROVE KInv
  BY Zenon
<1>1. CallInv
  BY DEF Init, CallInv, NoCall, CallOf, Locals, Ops, Fresh
<1>2. FeedInv
  BY DEF Init, FeedInv, Recv, At
<1>3. MapInv
  BY EmptyMapFacts, Zenon DEF Init, MapInv
<1>4. WaitInv
  BY Zenon DEF Init, WaitInv, Found, NoCall, CallOf, Locals
<1> QED
  BY <1>1, <1>2, <1>3, <1>4, Zenon DEF KInv

(* Call c goes to pc, and no other call moves.                             *)
Moved(c, pc) ==
    /\ calls' = [calls EXCEPT ![c] = calls'[c]]
    /\ calls'[c].pc = pc
    /\ calls'[c].node = calls[c].node
    /\ calls'[c].op = calls[c].op

Still == UNCHANGED <<log, fed, applyCh, snap, dead, loop>>

LEMMA Answering ==
  ASSUME CallInv, NEW c \in Call, NEW r, NEW kind, NEW val,
         Respond(c, r) \/ Reply(c, kind, val) \/ WrongLeader(c)
  PROVE  Moved(c, "done")
  BY DEF CallInv, Respond, Reply, WrongLeader, Answered, Moved

LEMMA Going ==
  ASSUME CallInv, NEW c \in Call, NEW pc, Goto(c, pc)
  PROVE  /\ Moved(c, pc)
         /\ calls'[c].index = calls[c].index
         /\ calls'[c].ch = calls[c].ch
  BY Zenon DEF CallInv, Goto, Locals, Moved

-----------------------------------------------------------------------------
(* What the steps of a call do to the state of KInv                        *)

Kept == Still /\ UNCHANGED <<proposed, pendingOps, recent>>

Ends(c)     == Kept /\ calls[c].pc # "idle" /\ Moved(c, "done")
Submits(c)  == Kept /\ calls[c].pc \in {"handler", "dedup"} /\ Moved(c, "submit")
Proposes(c) == /\ Still /\ UNCHANGED <<pendingOps, recent>>
               /\ calls[c].pc = "submit" /\ Moved(c, "polling")
               /\ proposed' = proposed \cup {c}
Learns(c)   == /\ Kept
               /\ calls[c].pc = "polling" /\ Moved(c, "register")
               /\ Owns(c, calls'[c].index)
Registers(c) ==
    LET n == calls[c].node
        i == calls[c].index
    IN  /\ Still /\ UNCHANGED proposed
        /\ calls[c].pc = "register"
        /\ pendingOps' = [pendingOps EXCEPT ![n] = With(pendingOps[n], i, c)]
        /\ \/ /\ recent' = [recent EXCEPT ![n] = Without(recent[n], i)]
              /\ Moved(c, "done")
           \/ /\ i \notin DOMAIN recent[n] /\ UNCHANGED recent
              /\ Moved(c, "waiting") /\ calls'[c].index = i
Leaves(c) ==
    LET n == calls[c].node
    IN  /\ Still /\ UNCHANGED <<proposed, recent>>
        /\ calls[c].pc = "waiting" /\ Moved(c, "done")
        /\ pendingOps' = [pendingOps EXCEPT ![n] = Without(pendingOps[n], calls[c].index)]

LEMMA HandlerCases ==
  ASSUME CallInv, NEW c \in Call, HandlerStep(c)
  PROVE  \/ Ends(c) \/ Submits(c) \/ Proposes(c) \/ Learns(c)
         \/ Registers(c) \/ Leaves(c)
<1>1. CASE CheckLeader(c)
  <2>1. Kept
    BY <1>1, Zenon DEF CheckLeader, Kept, Still, raftVars, serverVars
  <2>2. /\ calls[c].pc \in {"handler", "dedup"}
        /\ Moved(c, "submit") \/ Moved(c, "done")
    BY <1>1, Going, Answering, Zenon DEF CheckLeader
  <2> QED
    BY <2>1, <2>2, Zenon DEF Ends, Submits
<1>2. CASE CheckDuplicate(c)
  <2>1. Kept
    BY <1>2, Zenon DEF CheckDuplicate, Kept, Still, raftVars
  <2>2. /\ calls[c].pc \in {"handler", "dedup"}
        /\ Moved(c, "submit") \/ Moved(c, "done")
    BY <1>2, Going, Answering, Zenon DEF CheckDuplicate
  <2> QED
    BY <2>1, <2>2, Zenon DEF Ends, Submits
<1>3. CASE ReplicateCommand(c)
  <2>1. Still /\ UNCHANGED <<pendingOps, recent>> /\ calls[c].pc = "submit"
    BY <1>3, Zenon DEF ReplicateCommand, Still, serverVars
  <2>2. \/ Moved(c, "done") /\ UNCHANGED proposed
        \/ Moved(c, "polling") /\ proposed' = proposed \cup {c}
    BY <1>3, Going, Answering, Zenon DEF ReplicateCommand
  <2> QED
    BY <2>1, <2>2, Zenon DEF Ends, Proposes, Kept
<1>4. CASE CommandReplicated(c)
  <2>1. Kept /\ calls[c].pc = "polling"
    BY <1>4, Zenon DEF CommandReplicated, Kept, Still, raftVars, serverVars
  <2>2. CASE Reply(c, "error", << >>)
    BY <2>1, <2>2, Answering, Zenon DEF Ends
  <2>3. CASE /\ \E i \in 1 .. Len(log) : log[i].call = c
             /\ calls' = [calls EXCEPT ![c] = Locals("register", @.node, @.op,
                                                     IndexOf(c), @.ch)]
    <3>1. Owns(c, IndexOf(c))
      BY <2>3, Zenon DEF IndexOf, Owns
    <3>2. Moved(c, "register") /\ calls'[c].index = IndexOf(c)
      BY <2>3, Zenon DEF CallInv, Locals, Moved
    <3> QED
      BY <2>1, <3>1, <3>2, Zenon DEF Learns
  <2> QED
    BY <1>4, <2>2, <2>3, Zenon DEF CommandReplicated
<1>5. CASE Register(c)
  <2> DEFINE n == calls[c].node
             i == calls[c].index
  <2>1. Still /\ UNCHANGED proposed /\ calls[c].pc = "register"
    BY <1>5, Zenon DEF Register, Still, raftVars
  <2>2. CASE Reply(c, "error", << >>) /\ UNCHANGED <<pendingOps, recent>>
    BY <2>1, <2>2, Answering, Zenon DEF Ends, Kept
  <2>3. CASE /\ pendingOps' = [pendingOps EXCEPT ![n] = With(@, i, c)]
             /\ recent' = [recent EXCEPT ![n] = Without(@, i)]
             /\ Respond(c, recent[n][i])
    BY <2>1, <2>3, Answering, Zenon DEF Registers
  <2>4. CASE /\ pendingOps' = [pendingOps EXCEPT ![n] = With(@, i, c)]
             /\ i \notin DOMAIN recent[n] /\ UNCHANGED recent
             /\ Goto(c, "waiting")
    BY <2>1, <2>4, Going, Zenon DEF Registers
  <2> QED
    BY <1>5, <2>2, <2>3, <2>4, Zenon DEF Register
<1>6. CASE Receive(c) \/ SeeShutdown(c)
  BY <1>6, Answering, Zenon
     DEF Receive, SeeShutdown, Ends, Kept, Still, raftVars, serverVars
<1>7. CASE TimeOut(c)
  BY <1>7, Answering, Zenon DEF TimeOut, Leaves, Still, raftVars
<1> QED
  BY <1>1, <1>2, <1>3, <1>4, <1>5, <1>6, <1>7, Zenon DEF HandlerStep

Starts(c) ==
    /\ Kept /\ calls[c].pc = "idle"
    /\ calls' = [calls EXCEPT ![c] = calls'[c]]
    /\ calls'[c].pc \in {"handler", "dedup"}
    /\ calls'[c].node \in Node /\ calls'[c].op \in Ops

HandlerCase(c) ==
    \/ Ends(c) \/ Submits(c) \/ Proposes(c) \/ Learns(c) \/ Registers(c)
    \/ Leaves(c) \/ Starts(c)

Idles == Kept /\ UNCHANGED calls

(* With snapshots off, the steps that need one are never taken.            *)
LEMMA NextCases ==
  ASSUME SnapshotThreshold = 0, KInv, [Next]_vars
  PROVE  \/ Idles
         \/ \E c \in Call : HandlerCase(c) \/ Commit(c)
         \/ \E n \in Node : \/ Deliver(n) \/ ApplyCommand(n) \/ NotifyWaiter(n)
                            \/ Kill(n) \/ Drain(n)
<1> USE DEF KInv
<1>1. ASSUME NEW n \in Node, NEW m \in Node, InstallSnapshot(n, m) PROVE FALSE
  BY <1>1 DEF InstallSnapshot, FeedInv, NoSnap
<1>2. ASSUME NEW n \in Node, TakeSnapshot(n) PROVE FALSE
  BY <1>2, SMTT(30) DEF TakeSnapshot, FeedInv
<1>3. ASSUME NEW n \in Node, HandleSnapshotMsg(n) PROVE FALSE
  <2>1. applyCh[n] \in Seq(Msg) /\ applyCh[n] # << >> /\ Head(applyCh[n]).snapshot
    BY <1>3, Zenon DEF HandleSnapshotMsg, FeedInv
  <2>2. Head(applyCh[n]) \in Msg
    BY <2>1
  <2> QED
    BY <2>1, <2>2, Zenon DEF Msg
<1>4. ASSUME NEW n \in Node, Restart(n) PROVE FALSE
  BY <1>4 DEF Restart, FeedInv, NoSnap
<1>5. ASSUME NEW r \in Requests, NEW pc \in {"handler", "dedup"},
             Start(r[1], r[2], r[3], pc)
      PROVE  Starts(r[1])
  <2>1. r[1] \in Call /\ r[2] \in Node /\ r[3] \in Ops
    BY RequestsAssumption, Zenon DEF Ops
  <2>2. Kept
    BY <1>5, Zenon DEF Start, Kept, Still, raftVars, serverVars
  <2>3. calls[r[1]].pc = "idle"
    BY <1>5 DEF Start, NoCall, CallOf, Locals
  <2>4. calls' = [calls EXCEPT ![r[1]] = calls'[r[1]]] /\ calls'[r[1]] = CallOf(pc, r[2], r[3])
    BY <1>5, <2>1, Zenon DEF Start, CallInv
  <2>5. calls'[r[1]].pc = pc /\ calls'[r[1]].node = r[2] /\ calls'[r[1]].op = r[3]
    BY <2>4 DEF CallOf, Locals
  <2> QED
    BY <2>1, <2>2, <2>3, <2>4, <2>5, Zenon DEF Starts
<1>6. CASE UNCHANGED vars
  BY <1>6, Zenon DEF vars, raftVars, serverVars, Idles, Kept, Still
<1>7. ASSUME NEW n \in Node, NEW l, ChangeLeader(n, l) PROVE Idles
  BY <1>7, Zenon DEF ChangeLeader, serverVars, Idles, Kept, Still
<1>8. CASE \E r \in Requests : Request(r[1], r[2], r[3])
                                 \/ SubmitOperation(r[1], r[2], r[3])
  BY <1>5, <1>8, RequestsAssumption, Zenon DEF Request, SubmitOperation, HandlerCase
<1>9. CASE HandlerNext
  BY <1>9, HandlerCases, Zenon DEF HandlerNext, HandlerCase
<1> QED
  BY <1>1, <1>2, <1>3, <1>4, <1>6, <1>7, <1>8, <1>9, Zenon
     DEF Next, RaftNext, ServerNext

(* A call that is told a result, or not, stays where it is.                *)
Same(c) ==
    /\ calls'[c].pc = calls[c].pc /\ calls'[c].node = calls[c].node
    /\ calls'[c].op = calls[c].op /\ calls'[c].index = calls[c].index

LEMMA KillFacts ==
  ASSUME CallInv, NEW n \in Node, Kill(n)
  PROVE  /\ UNCHANGED <<log, proposed, fed, applyCh, snap, loop, recent>>
         /\ dead' = [dead EXCEPT ![n] = TRUE]
         /\ pendingOps' = [pendingOps EXCEPT ![n] = EmptyMap]
         /\ calls' = [c \in Call |-> calls'[c]]
         /\ \A c \in Call : Same(c) /\ (calls[c].ch # << >> => calls'[c].ch # << >>)
<1>1. /\ UNCHANGED <<log, proposed, fed, applyCh, snap, loop, recent>>
      /\ dead' = [dead EXCEPT ![n] = TRUE]
      /\ pendingOps' = [pendingOps EXCEPT ![n] = EmptyMap]
  BY Zenon DEF Kill, raftVars
<1> DEFINE told == {pendingOps[n][i] : i \in DOMAIN pendingOps[n]}
           r    == Result("shutdown", << >>)
<1>2. calls' = [c \in Call |-> IF c \in told THEN Told(calls[c], r) ELSE calls[c]]
  BY Zenon DEF Kill
<1> HIDE DEF told, r
<1>3. \A c \in Call : Same(c) /\ (calls[c].ch # << >> => calls'[c].ch # << >>)
  BY <1>2, Zenon DEF Told, Locals, Same
<1> QED
  BY <1>1, <1>2, <1>3, Zenon

LEMMA NotifyFacts ==
  ASSUME SnapshotThreshold = 0, CallInv, MapInv, NEW n \in Node, NotifyWaiter(n)
  PROVE  LET i == loop[n].index
             c == pendingOps[n][i]
         IN  /\ UNCHANGED <<log, proposed, fed, applyCh, snap, dead>>
             /\ loop[n].pc = "notify"
             /\ loop' = [loop EXCEPT ![n] = Recv]
             /\ \/ /\ i \in DOMAIN pendingOps[n] /\ c \in Call /\ UNCHANGED recent
                   /\ pendingOps' = [pendingOps EXCEPT ![n] = Without(pendingOps[n], i)]
                   /\ calls' = [calls EXCEPT ![c] = calls'[c]]
                   /\ Same(c) /\ calls'[c].ch # << >>
                \/ /\ i \notin DOMAIN pendingOps[n] /\ UNCHANGED <<pendingOps, calls>>
                   /\ \E g \in Stashed(recent[n], i, loop[n].result) :
                        recent' = [recent EXCEPT ![n] = g]
<1> DEFINE i == loop[n].index
           r == loop[n].result
           c == pendingOps[n][i]
<1>1. /\ UNCHANGED <<log, proposed, fed, applyCh, snap, dead>>
      /\ loop[n].pc = "notify" /\ loop' = [loop EXCEPT ![n] = Recv]
  BY SMTT(30) DEF NotifyWaiter, raftVars, AfterNotify
<1>2. CASE /\ i \in DOMAIN pendingOps[n] /\ UNCHANGED recent
           /\ pendingOps' = [pendingOps EXCEPT ![n] = Without(@, i)]
           /\ calls' = [calls EXCEPT ![c] = Told(@, r)]
  <2>1. c \in Call
    BY <1>2, Zenon DEF MapInv
  <2> HIDE DEF c, r
  <2>2. calls' = [calls EXCEPT ![c] = calls'[c]] /\ calls'[c] = Told(calls[c], r)
    BY <1>2, <2>1, Zenon DEF CallInv
  <2>3. Same(c) /\ calls'[c].ch # << >>
    BY <2>2 DEF Told, Locals, Same
  <2> QED
    BY <1>1, <1>2, <2>1, <2>2, <2>3, Zenon DEF c
<1>3. CASE /\ i \notin DOMAIN pendingOps[n] /\ UNCHANGED <<pendingOps, calls>>
           /\ \E g \in Stashed(recent[n], i, r) : recent' = [recent EXCEPT ![n] = g]
  BY <1>1, <1>3, Zenon
<1> QED
  BY <1>2, <1>3, Zenon DEF NotifyWaiter

-----------------------------------------------------------------------------
(* The four parts of the invariant, step by step                           *)

LEMMA CallStep ==
  ASSUME SnapshotThreshold = 0, KInv, [Next]_vars
  PROVE  CallInv'
<1> USE DEF KInv
<1>1. CASE Idles
  BY <1>1, Zenon DEF Idles, Kept, Still, CallInv, Owns
<1>2. ASSUME NEW c \in Call, HandlerCase(c) PROVE CallInv'
  <2>1. UNCHANGED log
    BY <1>2, Zenon
       DEF HandlerCase, Ends, Submits, Proposes, Learns, Registers, Leaves, Starts,
       Kept, Still
  <2>2. /\ calls' = [calls EXCEPT ![c] = calls'[c]]
        /\ calls'[c].op \in Ops /\ calls'[c].node \in Node
    BY <1>2, Zenon
       DEF HandlerCase, Ends, Submits, Proposes, Learns, Registers, Leaves, Starts,
       Moved, CallInv, Fresh
  <2>3. /\ proposed' \subseteq proposed \cup {c}
        /\ calls'[c].pc \in Fresh
             => c \notin proposed' /\ \A i \in 1 .. Len(log) : log[i].call # c
    BY <1>2, Zenon
       DEF HandlerCase, Ends, Submits, Proposes, Learns, Registers, Leaves, Starts,
       Kept, Moved, CallInv, Fresh
  <2>4. calls'[c].pc \in {"register", "waiting"} => Owns(c, calls'[c].index)
    BY <1>2, Zenon
       DEF HandlerCase, Ends, Submits, Proposes, Learns, Registers, Leaves, Starts,
       Moved, CallInv
  <2> QED
    BY <2>1, <2>2, <2>3, <2>4 DEF CallInv, Owns
<1>3. ASSUME NEW c \in Call, Commit(c) PROVE CallInv'
  <2> DEFINE e == [call |-> c, op |-> calls[c].op]
  <2>1. log' = Append(log, e) /\ UNCHANGED calls /\ proposed' = proposed \ {c}
        /\ c \in proposed
    BY <1>3, Zenon DEF Commit
  <2>2. e \in [call : Call, op : Ops] /\ e.call = c
    BY Zenon DEF CallInv
  <2> HIDE DEF e
  <2>3. /\ log' \in Seq([call : Call, op : Ops])
        /\ Len(log') = Len(log) + 1 /\ Len(log) \in Nat
        /\ \A i \in 1 .. Len(log) : log'[i] = log[i]
        /\ log'[Len(log) + 1] = e
    BY <2>1, <2>2 DEF CallInv
  <2>4. \A d \in Call : \A i : Owns(d, i) => Owns(d, i)'
    BY <2>3 DEF Owns
  <2>5. calls[c].pc \notin Fresh
    BY <2>1, Zenon DEF CallInv
  <2>6. ASSUME NEW d \in Call, calls[d].pc \in Fresh
        PROVE  d \notin proposed' /\ \A i \in 1 .. Len(log') : log'[i].call # d
    BY <2>1, <2>2, <2>3, <2>5, <2>6 DEF CallInv
  <2> QED
    BY <2>1, <2>3, <2>4, <2>6, Zenon DEF CallInv
<1>4. ASSUME UNCHANGED <<log, proposed>>, calls' = [c \in Call |-> calls'[c]],
             \A c \in Call : Same(c)
      PROVE  CallInv'
  BY <1>4, ZenonT(30) DEF CallInv, Same, Owns
<1>5. ASSUME NEW n \in Node, NotifyWaiter(n) PROVE CallInv'
  <2>1. UNCHANGED <<log, proposed>>
    BY <1>5, NotifyFacts, Zenon
  <2>2. CASE UNCHANGED calls
    BY <1>4, <2>1, <2>2, Zenon DEF CallInv, Same
  <2>3. CASE ~UNCHANGED calls
    <3>1. PICK c \in Call : calls' = [calls EXCEPT ![c] = calls'[c]] /\ Same(c)
      BY <1>5, <2>3, NotifyFacts, Zenon
    <3> QED
      BY <1>4, <2>1, <3>1, Zenon DEF CallInv, Same
  <2> QED
    BY <2>2, <2>3, Zenon
<1>6. ASSUME NEW n \in Node, Deliver(n) \/ ApplyCommand(n) \/ Drain(n) PROVE CallInv'
  <2>1. UNCHANGED <<log, proposed, calls>>
    BY <1>6, Zenon DEF Deliver, ApplyCommand, Drain, raftVars
  <2> QED
    BY <2>1, Zenon DEF CallInv, Owns
<1>7. ASSUME NEW n \in Node, Kill(n) PROVE CallInv'
  BY <1>4, <1>7, KillFacts, Zenon
<1> QED
  BY <1>1, <1>2, <1>3, <1>5, <1>6, <1>7, NextCases, Zenon

(* The log only grows, and an index keeps its owner.                       *)
LEMMA LogGrows ==
  ASSUME SnapshotThreshold = 0, KInv, [Next]_vars
  PROVE  /\ Len(log) \in Nat /\ Len(log') \in Nat /\ Len(log) <= Len(log')
         /\ \A i \in 1 .. Len(log) : log'[i] = log[i]
         /\ \A c, i : Owns(c, i) => Owns(c, i)'
         /\ UNCHANGED log \/ \E c \in Call : Commit(c)
<1> SUFFICES /\ Len(log) \in Nat /\ Len(log') \in Nat /\ Len(log) <= Len(log')
             /\ \A i \in 1 .. Len(log) : log'[i] = log[i]
             /\ UNCHANGED log \/ \E c \in Call : Commit(c)
  BY DEF Owns
<1>1. log \in Seq([call : Call, op : Ops])
  BY Zenon DEF KInv, CallInv
<1>2. CASE UNCHANGED log
  BY <1>1, <1>2
<1>3. ASSUME NEW c \in Call, Commit(c)
      PROVE  /\ Len(log') = Len(log) + 1
             /\ \A i \in 1 .. Len(log) : log'[i] = log[i]
  <2>1. [call |-> c, op |-> calls[c].op] \in [call : Call, op : Ops]
    BY Zenon DEF KInv, CallInv
  <2>2. log' = Append(log, [call |-> c, op |-> calls[c].op])
    BY <1>3, Zenon DEF Commit
  <2> QED
    BY <1>1, <2>1, <2>2
<1>4. UNCHANGED log \/ \E c \in Call : Commit(c)
  BY NextCases, Zenon
     DEF Idles, HandlerCase, Ends, Submits, Proposes, Learns, Registers, Leaves,
     Starts, Kept, Still, Deliver, ApplyCommand, NotifyWaiter, Kill, Drain, raftVars
<1> QED
  BY <1>1, <1>2, <1>3, <1>4

LEMMA MsgFacts ==
  ASSUME NEW x \in Msg
  PROVE  x.index \in Nat /\ x.index > 0
  BY DEF Msg

LEMMA TailFacts ==
  ASSUME NEW q \in Seq(Msg), q # << >>
  PROVE  /\ Head(q) \in Msg /\ Head(q) = q[1] /\ Len(q) \in Nat \ {0}
         /\ Tail(q) \in Seq(Msg) /\ Len(Tail(q)) = Len(q) - 1
         /\ \A m \in 1 .. Len(q) - 1 : Tail(q)[m] = q[m + 1]
  OBVIOUS

LEMMA AppendFacts ==
  ASSUME NEW q \in Seq(Msg), NEW x \in Msg
  PROVE  /\ Append(q, x) \in Seq(Msg) /\ Len(Append(q, x)) = Len(q) + 1 /\ Len(q) \in Nat
         /\ \A m \in 1 .. Len(q) : Append(q, x)[m] = q[m]
         /\ Append(q, x)[Len(q) + 1] = x
  OBVIOUS

LEMMA CommandIsMsg ==
  ASSUME NEW i \in Nat \ {0}
  PROVE  CommandMsg(i) \in Msg /\ CommandMsg(i).index = i
  BY Zenon DEF CommandMsg, Msg

LEMMA ApplyFacts ==
  ASSUME FeedInv, NEW n \in Node, ApplyCommand(n)
  PROVE  /\ UNCHANGED <<log, fed, dead, pendingOps, recent, calls>>
         /\ loop[n].pc = "recv" /\ applyCh[n] # << >>
         /\ applyCh' = [applyCh EXCEPT ![n] = Tail(applyCh[n])]
         /\ loop' = [loop EXCEPT ![n] = loop'[n]]
         /\ loop'[n].pc = "notify" /\ loop'[n].index = Head(applyCh[n]).index
<1> DEFINE i  == Head(applyCh[n]).index
           ds == duplicates[n]
           op == log[i].op
<1>1. PICK r, e : loop' = [loop EXCEPT ![n] = At("notify", i, r, e)]
  <2>1. CASE \E d \in Cached(ds, op.id) :
               loop' = [loop EXCEPT ![n] = At("notify", i, ds[d].result, FALSE)]
    BY <2>1, Zenon
  <2>2. CASE loop' = [loop EXCEPT ![n] = At("notify", i, ResultOf(state[n], op), TRUE)]
    BY <2>2, Zenon
  <2> QED
    BY <2>1, <2>2, Zenon DEF ApplyCommand
<1>2. /\ loop' = [loop EXCEPT ![n] = loop'[n]]
      /\ loop'[n].pc = "notify" /\ loop'[n].index = Head(applyCh[n]).index
  BY <1>1, Zenon DEF At, FeedInv
<1> QED
  BY <1>2, Zenon DEF ApplyCommand

LEMMA FeedStep ==
  ASSUME SnapshotThreshold = 0, KInv, [Next]_vars
  PROVE  FeedInv'
<1>1. Len(log) \in Nat /\ Len(log') \in Nat /\ Len(log) <= Len(log')
  BY LogGrows, Zenon
<1>2. ASSUME UNCHANGED <<fed, applyCh, loop, dead, snap>> PROVE FeedInv'
  <2>1. \A n \in Node : \A m \in 1 .. Len(applyCh[n]) : applyCh[n][m].index \in Nat
    <3> SUFFICES ASSUME NEW n \in Node, NEW m \in 1 .. Len(applyCh[n])
                 PROVE  applyCh[n][m].index \in Nat
      BY Zenon
    <3>1. applyCh[n] \in Seq(Msg)
      BY Zenon DEF KInv, FeedInv
    <3> QED
      BY <3>1, MsgFacts
  <2> QED
    BY <1>1, <1>2, <2>1 DEF KInv, FeedInv
<1>3. ASSUME NEW c \in Call, HandlerCase(c) \/ Commit(c) PROVE FeedInv'
  BY <1>2, <1>3, Zenon
     DEF HandlerCase, Ends, Submits, Proposes, Learns, Registers, Leaves, Starts,
     Kept, Still, Commit, serverVars
<1>4. CASE Idles
  BY <1>2, <1>4, Zenon DEF Idles, Kept, Still
<1>5. ASSUME NEW n \in Node, Deliver(n) PROVE FeedInv'
  <2>1. /\ fed[n] < Len(log) /\ fed' = [fed EXCEPT ![n] = fed[n] + 1]
        /\ applyCh' = [applyCh EXCEPT ![n] = Append(applyCh[n], CommandMsg(fed[n] + 1))]
        /\ UNCHANGED <<log, loop, dead, snap>>
    BY <1>5, Zenon DEF Deliver, serverVars
  <2>2. fed[n] \in Nat /\ applyCh[n] \in Seq(Msg)
    BY Zenon DEF KInv, FeedInv
  <2>3. CommandMsg(fed[n] + 1) \in Msg /\ CommandMsg(fed[n] + 1).index = fed[n] + 1
    BY <2>2, CommandIsMsg
  <2>4. /\ applyCh'[n] \in Seq(Msg)
        /\ \A m \in 1 .. Len(applyCh'[n]) : applyCh'[n][m].index <= Len(log)
    <3>1. applyCh'[n] = Append(applyCh[n], CommandMsg(fed[n] + 1))
      BY <2>1, Zenon DEF KInv, FeedInv
    <3>2. \A m \in 1 .. Len(applyCh[n]) : applyCh[n][m].index <= Len(log)
      BY Zenon DEF KInv, FeedInv
    <3> QED
      BY <1>1, <2>1, <2>2, <2>3, <3>1, <3>2, AppendFacts, SMTT(30)
  <2> QED
    BY <1>1, <2>1, <2>2, <2>4, SMTT(30) DEF KInv, FeedInv
<1>6. ASSUME NEW n \in Node, applyCh[n] # << >>,
             applyCh' = [applyCh EXCEPT ![n] = Tail(applyCh[n])]
      PROVE  /\ applyCh' \in [Node -> Seq(Msg)]
             /\ \A k \in Node : \A m \in 1 .. Len(applyCh'[k]) :
                  applyCh'[k][m].index <= Len(log)
  <2>1. applyCh[n] \in Seq(Msg)
        /\ \A m \in 1 .. Len(applyCh[n]) : applyCh[n][m].index <= Len(log)
    BY Zenon DEF KInv, FeedInv
  <2>2. applyCh'[n] = Tail(applyCh[n])
    BY <1>6, Zenon DEF KInv, FeedInv
  <2>3. applyCh'[n] \in Seq(Msg)
        /\ \A m \in 1 .. Len(applyCh'[n]) : applyCh'[n][m].index <= Len(log)
    BY <1>6, <2>1, <2>2, TailFacts
  <2> QED
    BY <1>6, <2>3, Zenon DEF KInv, FeedInv
<1>7. ASSUME NEW n \in Node, Drain(n) PROVE FeedInv'
  <2>1. applyCh[n] # << >> /\ applyCh' = [applyCh EXCEPT ![n] = Tail(applyCh[n])]
        /\ UNCHANGED <<log, fed, loop, dead, snap>>
    BY <1>7, Zenon DEF Drain, serverVars
  <2> QED
    BY <1>6, <2>1, Zenon DEF KInv, FeedInv
<1>8. ASSUME NEW n \in Node, ApplyCommand(n) PROVE FeedInv'
  <2>1. applyCh[n] # << >> /\ applyCh' = [applyCh EXCEPT ![n] = Tail(applyCh[n])]
        /\ UNCHANGED <<log, fed, dead, snap>>
    BY <1>8, Zenon DEF ApplyCommand
  <2>2. Head(applyCh[n]).index \in 1 .. Len(log)
    <3>1. applyCh[n] \in Seq(Msg)
          /\ \A m \in 1 .. Len(applyCh[n]) : applyCh[n][m].index <= Len(log)
      BY Zenon DEF KInv, FeedInv
    <3>2. Head(applyCh[n]) \in Msg /\ Head(applyCh[n]).index <= Len(log)
      BY <2>1, <3>1, TailFacts
    <3> QED
      BY <1>1, <3>2, MsgFacts, SMTT(30)
  <2>3. /\ loop' = [loop EXCEPT ![n] = loop'[n]]
        /\ loop'[n].pc = "notify" /\ loop'[n].index = Head(applyCh[n]).index
    BY <1>8, ApplyFacts, Zenon DEF KInv
  <2> QED
    BY <1>6, <2>1, <2>2, <2>3, Zenon DEF KInv, FeedInv
<1>9. ASSUME NEW n \in Node, NotifyWaiter(n) PROVE FeedInv'
  <2>1. loop' = [loop EXCEPT ![n] = Recv] /\ UNCHANGED <<log, fed, applyCh, snap, dead>>
    BY <1>9, NotifyFacts, Zenon DEF KInv
  <2> QED
    BY <2>1, Zenon DEF KInv, FeedInv, Recv, At
<1>10. ASSUME NEW n \in Node, Kill(n) PROVE FeedInv'
  BY <1>10, KillFacts, Zenon DEF KInv, FeedInv
<1> QED
  BY <1>3, <1>4, <1>5, <1>7, <1>8, <1>9, <1>10, NextCases, Zenon

(* A call that waits or is done goes nowhere but to its end.               *)
LEMMA LateCallsStay ==
  ASSUME SnapshotThreshold = 0, KInv, [Next]_vars,
         NEW c \in Call, calls[c].pc \in {"waiting", "done"}
  PROVE  calls'[c].pc \in {"waiting", "done"}
<1>1. ASSUME NEW d \in Call, HandlerCase(d) PROVE calls'[c].pc \in {"waiting", "done"}
  <2>1. calls' = [calls EXCEPT ![d] = calls'[d]]
    BY <1>1, Zenon
       DEF HandlerCase, Ends, Submits, Proposes, Learns, Registers, Leaves, Starts, Moved
  <2>2. calls[d].pc \in {"waiting", "done"} => calls'[d].pc = "done"
    BY <1>1, Zenon
       DEF HandlerCase, Ends, Submits, Proposes, Learns, Registers, Leaves, Starts, Moved
  <2> QED
    BY <2>1, <2>2, Zenon DEF KInv, CallInv
<1>2. ASSUME NEW n \in Node, NotifyWaiter(n) PROVE calls'[c].pc = calls[c].pc
  BY <1>2, NotifyFacts, Zenon DEF KInv, CallInv, Same
<1>3. ASSUME NEW n \in Node, Kill(n) PROVE calls'[c].pc = calls[c].pc
  BY <1>3, KillFacts, Zenon DEF KInv, Same
<1> QED
  BY <1>1, <1>2, <1>3, NextCases, Zenon
     DEF Idles, Commit, Deliver, ApplyCommand, Drain

LEMMA MapStep ==
  ASSUME SnapshotThreshold = 0, KInv, [Next]_vars
  PROVE  MapInv'
<1> DEFINE PendingOk(f) ==
             \A i \in DOMAIN f : /\ f[i] \in Call /\ Owns(f[i], i)
                                 /\ calls'[f[i]].pc \in {"waiting", "done"}
           RecentOk(g) == DOMAIN g \subseteq 1 .. Len(log)
<1>1. \A n \in Node : PendingOk(pendingOps[n]) /\ RecentOk(recent[n])
  BY LateCallsStay, Zenon DEF KInv, MapInv
<1>2. ASSUME NEW n \in Node, NEW f, NEW g, PendingOk(f), RecentOk(g),
             pendingOps' \in {pendingOps, [pendingOps EXCEPT ![n] = f]},
             recent' \in {recent, [recent EXCEPT ![n] = g]}
      PROVE  MapInv'
  <2>1. /\ pendingOps' = [k \in Node |-> pendingOps'[k]]
        /\ recent' = [k \in Node |-> recent'[k]]
    BY <1>2, Zenon DEF KInv, MapInv
  <2>2. \A k \in Node : PendingOk(pendingOps'[k]) /\ RecentOk(recent'[k])
    <3> SUFFICES ASSUME NEW k \in Node PROVE PendingOk(pendingOps'[k]) /\ RecentOk(recent'[k])
      BY Zenon
    <3>1. pendingOps'[k] \in {pendingOps[k], f} /\ recent'[k] \in {recent[k], g}
      BY <1>2, Zenon DEF KInv, MapInv
    <3> HIDE DEF PendingOk, RecentOk
    <3> QED
      BY <1>1, <1>2, <3>1, Zenon
  <2> QED
    BY <2>1, <2>2, LogGrows DEF MapInv
<1>3. CASE UNCHANGED <<pendingOps, recent>>
  BY <1>1, <1>3, LogGrows DEF KInv, MapInv
<1>4. ASSUME NEW c \in Call, Registers(c) PROVE MapInv'
  <2> DEFINE n == calls[c].node
             i == calls[c].index
             f == With(pendingOps[n], i, c)
             g == Without(recent[n], i)
  <2>1. n \in Node /\ Owns(c, i)
    BY <1>4, Zenon DEF Registers, KInv, CallInv
  <2>2. calls'[c].pc \in {"waiting", "done"}
    BY <1>4, Zenon DEF Registers, Moved
  <2>3. PendingOk(f)
    <3>1. /\ DOMAIN f = DOMAIN pendingOps[n] \cup {i} /\ f[i] = c
          /\ \A z \in DOMAIN pendingOps[n] : z # i => f[z] = pendingOps[n][z]
      BY Zenon DEF With
    <3> HIDE DEF f
    <3> QED
      BY <1>1, <2>1, <2>2, <3>1, Zenon
  <2>4. RecentOk(g)
    <3>1. DOMAIN g = DOMAIN recent[n] \ {i}
      BY WithoutFacts, Zenon
    <3> HIDE DEF g
    <3> QED
      BY <1>1, <2>1, <3>1, Zenon
  <2>5. /\ pendingOps' = [pendingOps EXCEPT ![n] = f]
        /\ recent' \in {recent, [recent EXCEPT ![n] = g]}
    BY <1>4, Zenon DEF Registers
  <2> HIDE DEF n, f, g, PendingOk, RecentOk
  <2> QED
    BY <1>2, <2>1, <2>3, <2>4, <2>5, Zenon
<1>5. ASSUME NEW n \in Node, NEW i PROVE PendingOk(Without(pendingOps[n], i))
  <2> DEFINE f == Without(pendingOps[n], i)
  <2>1. /\ DOMAIN f = DOMAIN pendingOps[n] \ {i}
        /\ \A z \in DOMAIN f : f[z] = pendingOps[n][z]
    BY Zenon DEF Without
  <2> HIDE DEF f
  <2>2. PendingOk(f)
    BY <1>1, <2>1, Zenon
  <2> QED
    BY <2>2, Zenon DEF f
<1>6. ASSUME NEW c \in Call, Leaves(c) PROVE MapInv'
  <2> DEFINE n == calls[c].node
             f == Without(pendingOps[n], calls[c].index)
  <2>1. n \in Node
    BY <1>6, Zenon DEF Leaves, KInv, CallInv
  <2>2. pendingOps' = [pendingOps EXCEPT ![n] = f] /\ UNCHANGED recent
    BY <1>6, Zenon DEF Leaves
  <2>3. PendingOk(f) /\ RecentOk(recent[n])
    BY <1>1, <1>5, <2>1, Zenon
  <2> HIDE DEF n, f, PendingOk, RecentOk
  <2> QED
    BY <1>2, <2>1, <2>2, <2>3, Zenon
<1>7. ASSUME NEW n \in Node, NotifyWaiter(n) PROVE MapInv'
  <2> DEFINE i == loop[n].index
             f == Without(pendingOps[n], i)
  <2>1. i \in 1 .. Len(log)
    BY <1>7, NotifyFacts, Zenon DEF KInv, FeedInv
  <2>2. CASE pendingOps' = [pendingOps EXCEPT ![n] = f] /\ UNCHANGED recent
    <3>1. PendingOk(f) /\ RecentOk(recent[n])
      BY <1>1, <1>5, Zenon
    <3> HIDE DEF f, PendingOk, RecentOk
    <3> QED
      BY <1>2, <2>2, <3>1, Zenon
  <2>3. ASSUME NEW g \in Stashed(recent[n], i, loop[n].result),
               recent' = [recent EXCEPT ![n] = g], UNCHANGED pendingOps
        PROVE  MapInv'
    <3>1. DOMAIN g \subseteq DOMAIN recent[n] \cup {i}
      BY StashedDomain
    <3>2. RecentOk(g) /\ PendingOk(pendingOps[n])
      BY <1>1, <2>1, <3>1, Zenon
    <3> HIDE DEF PendingOk, RecentOk
    <3> QED
      BY <1>2, <2>3, <3>2, Zenon
  <2> QED
    BY <1>7, <2>2, <2>3, NotifyFacts, Zenon DEF KInv
<1>8. ASSUME NEW n \in Node, Kill(n) PROVE MapInv'
  <2>1. PendingOk(EmptyMap) /\ RecentOk(recent[n])
    BY <1>1, EmptyMapFacts, Zenon
  <2>2. pendingOps' = [pendingOps EXCEPT ![n] = EmptyMap] /\ UNCHANGED recent
    BY <1>8, Zenon DEF Kill
  <2> HIDE DEF PendingOk, RecentOk
  <2> QED
    BY <1>2, <2>1, <2>2, Zenon
<1> QED
  BY <1>3, <1>4, <1>6, <1>7, <1>8, NextCases, Zenon
     DEF HandlerCase, Ends, Submits, Proposes, Learns,
     Starts, Idles, Kept, Commit, Deliver, ApplyCommand, Drain, serverVars

(* With no more entries than maxPending, the stash keeps all it is given.  *)
LEMMA StashKeeps ==
  ASSUME NEW k \in Nat, k <= MaxPending, NEW f, DOMAIN f \subseteq 1 .. k,
         NEW i \in 1 .. k, NEW r, NEW g \in Stashed(f, i, r)
  PROVE  DOMAIN g = DOMAIN f \cup {i}
<1> DEFINE h == With(f, i, r)
<1>1. DOMAIN h = DOMAIN f \cup {i}
  BY WithFacts, Zenon
<1>2. IsFiniteSet(1 .. k) /\ Cardinality(1 .. k) = k
  BY FS_Interval
<1>3. DOMAIN h \subseteq 1 .. k
  BY <1>1, Zenon
<1>4. Cardinality(DOMAIN h) <= k /\ Cardinality(DOMAIN h) \in Nat
  BY <1>2, <1>3, FS_Subset, FS_CardinalityType, Zenon
<1>5. Cardinality(DOMAIN h) <= MaxPending
  BY <1>4, BoundsAssumption
<1>6. g = h
  BY <1>5, Zenon DEF Stashed
<1> QED
  BY <1>1, <1>6, Zenon

(* A result on its way stays so until notifyWaiter has it.                 *)
LEMMA ComingStays ==
  ASSUME SnapshotThreshold = 0, KInv, [Next]_vars,
         NEW n \in Node, NEW i \in Nat, Coming(n, i), ~dead'[n]
  PROVE  \/ Coming(n, i)'
         \/ NotifyWaiter(n) /\ loop[n].index = i
<1>1. ASSUME UNCHANGED <<fed, loop, applyCh>> PROVE Coming(n, i)'
  BY <1>1, Zenon DEF Coming
<1>2. ASSUME NEW k \in Node, k # n,
             fed'[n] = fed[n], loop'[n] = loop[n], applyCh'[n] = applyCh[n]
      PROVE  Coming(n, i)'
  BY <1>2, Zenon DEF Coming
<1>3. ASSUME NEW k \in Node, Deliver(k) PROVE Coming(n, i)'
  <2>1. /\ fed' = [fed EXCEPT ![k] = fed[k] + 1] /\ UNCHANGED loop
        /\ applyCh' = [applyCh EXCEPT ![k] = Append(applyCh[k], CommandMsg(fed[k] + 1))]
    BY <1>3, Zenon DEF Deliver, serverVars
  <2>2. CASE k # n
    BY <1>2, <2>1, <2>2, Zenon DEF KInv, FeedInv
  <2>3. CASE k = n
    <3>1. fed[n] \in Nat /\ applyCh[n] \in Seq(Msg)
      BY Zenon DEF KInv, FeedInv
    <3>2. CommandMsg(fed[n] + 1) \in Msg /\ CommandMsg(fed[n] + 1).index = fed[n] + 1
      BY <3>1, CommandIsMsg
    <3>3. /\ fed'[n] = fed[n] + 1
          /\ applyCh'[n] = Append(applyCh[n], CommandMsg(fed[n] + 1))
      BY <2>1, <2>3, Zenon DEF KInv, FeedInv
    <3>4. /\ Len(applyCh'[n]) = Len(applyCh[n]) + 1 /\ Len(applyCh[n]) \in Nat
          /\ \A m \in 1 .. Len(applyCh[n]) : applyCh'[n][m] = applyCh[n][m]
          /\ applyCh'[n][Len(applyCh[n]) + 1].index = fed[n] + 1
      BY <3>1, <3>2, <3>3, AppendFacts, SMTT(30)
    <3>5. CASE i = fed[n] + 1
      BY <3>4, <3>5, SMTT(30) DEF Coming
    <3>6. CASE i > fed[n] /\ i # fed[n] + 1
      BY <3>1, <3>3, <3>6, SMTT(30) DEF Coming
    <3>7. CASE ~(i > fed[n])
      BY <2>1, <3>4, <3>7 DEF Coming
    <3> QED
      BY <3>5, <3>6, <3>7, Zenon
  <2> QED
    BY <2>2, <2>3, Zenon
<1>4. ASSUME NEW k \in Node, ApplyCommand(k) PROVE Coming(n, i)'
  <2>1. /\ UNCHANGED fed /\ loop[k].pc = "recv" /\ applyCh[k] # << >>
        /\ applyCh' = [applyCh EXCEPT ![k] = Tail(applyCh[k])]
        /\ loop' = [loop EXCEPT ![k] = loop'[k]]
        /\ loop'[k].pc = "notify" /\ loop'[k].index = Head(applyCh[k]).index
    BY <1>4, ApplyFacts, Zenon DEF KInv
  <2>2. CASE k # n
    BY <1>2, <2>1, <2>2, Zenon DEF KInv, FeedInv
  <2>3. CASE k = n
    <3>1. applyCh[n] \in Seq(Msg) /\ applyCh'[n] = Tail(applyCh[n])
      BY <2>1, <2>3, Zenon DEF KInv, FeedInv
    <3>2. CASE i > fed[n]
      BY <2>1, <3>2, Zenon DEF Coming
    <3>3. ASSUME NEW m \in 1 .. Len(applyCh[n]), applyCh[n][m].index = i PROVE Coming(n, i)'
      <4>1. CASE m = 1
        BY <2>1, <2>3, <3>1, <3>3, <4>1, TailFacts, Zenon DEF Coming
      <4>2. CASE m # 1
        <5>1. m - 1 \in 1 .. Len(applyCh'[n]) /\ applyCh'[n][m - 1] = applyCh[n][m]
          <6>1. applyCh[n] # << >> /\ m - 1 \in 1 .. Len(applyCh[n]) - 1
            BY <2>1, <2>3, <3>1, <4>2
          <6>2. Len(applyCh'[n]) = Len(applyCh[n]) - 1 /\ (m - 1) + 1 = m
            BY <3>1, <6>1, TailFacts
          <6> QED
            BY <3>1, <6>1, <6>2, TailFacts, Zenon
        <5> QED
          BY <3>3, <5>1, Zenon DEF Coming
      <4> QED
        BY <4>1, <4>2, Zenon
    <3> QED
      BY <2>1, <2>3, <3>2, <3>3, Zenon DEF Coming
  <2> QED
    BY <2>2, <2>3, Zenon
<1>5. ASSUME NEW k \in Node, NotifyWaiter(k)
      PROVE  Coming(n, i)' \/ (NotifyWaiter(n) /\ loop[n].index = i)
  <2>1. UNCHANGED <<fed, applyCh>> /\ loop' = [loop EXCEPT ![k] = Recv]
    BY <1>5, NotifyFacts, Zenon DEF KInv
  <2>2. CASE k # n
    <3>1. fed'[n] = fed[n] /\ loop'[n] = loop[n] /\ applyCh'[n] = applyCh[n]
      BY <2>1, <2>2, Zenon DEF KInv, FeedInv
    <3>2. Coming(n, i)'
      BY <1>2, <2>2, <3>1, Zenon
    <3> QED
      BY <3>2, Zenon
  <2>3. CASE k = n
    <3>1. CASE loop[n].pc = "notify" /\ loop[n].index = i
      BY <1>5, <2>3, <3>1, Zenon
    <3>2. CASE i > fed[n] \/ \E m \in 1 .. Len(applyCh[n]) : applyCh[n][m].index = i
      <4>1. Coming(n, i)'
        BY <2>1, <3>2, Zenon DEF Coming
      <4> QED
        BY <4>1, Zenon
    <3> QED
      BY <3>1, <3>2, Zenon DEF Coming
  <2> QED
    BY <2>2, <2>3, Zenon
<1>6. ASSUME NEW k \in Node, Drain(k) PROVE Coming(n, i)'
  <2>1. /\ dead[k] /\ UNCHANGED <<fed, loop, dead>>
        /\ applyCh' = [applyCh EXCEPT ![k] = Tail(applyCh[k])]
    BY <1>6, Zenon DEF Drain, serverVars
  <2>2. k # n
    BY <2>1, Zenon
  <2> QED
    BY <1>2, <2>1, <2>2, Zenon DEF KInv, FeedInv
<1>7. ASSUME NEW k \in Node, Kill(k) PROVE Coming(n, i)'
  BY <1>1, <1>7, KillFacts, Zenon DEF KInv
<1> QED
  BY <1>1, <1>3, <1>4, <1>5, <1>6, <1>7, NextCases, Zenon
     DEF HandlerCase, Ends, Submits, Proposes,
     Learns, Registers, Leaves, Starts, Idles, Kept, Still, Commit, serverVars

LEMMA DeadStays ==
  ASSUME SnapshotThreshold = 0, KInv, [Next]_vars, NEW n \in Node, ~dead'[n]
  PROVE  ~dead[n]
<1>1. ASSUME NEW k \in Node, Kill(k) PROVE ~dead[n]
  BY <1>1, KillFacts, Zenon DEF KInv, FeedInv
<1>2. CASE UNCHANGED dead
  BY <1>2, Zenon
<1> QED
  BY <1>1, <1>2, NextCases, Zenon
     DEF HandlerCase, Ends, Submits, Proposes, Learns, Registers,
     Leaves, Starts, Idles, Kept, Still, Commit, Deliver, ApplyCommand, NotifyWaiter, Drain,
     serverVars

(* A result in the stash stays until the call that owns it takes it.       *)
LEMMA StashStays ==
  ASSUME SnapshotThreshold = 0, KInv, [Next]_vars, Len(log) <= MaxPending,
         NEW n \in Node, NEW i, i \in DOMAIN recent[n]
  PROVE  \/ i \in DOMAIN recent'[n]
         \/ \E c \in Call : Registers(c) /\ Owns(c, i)
<1>1. CASE UNCHANGED recent
  BY <1>1, Zenon
<1>2. ASSUME NEW c \in Call, Registers(c), ~Owns(c, i) PROVE i \in DOMAIN recent'[n]
  <2> DEFINE k == calls[c].node
             j == calls[c].index
  <2>1. k \in Node /\ Owns(c, j)
    BY <1>2, Zenon DEF Registers, KInv, CallInv
  <2>2. CASE UNCHANGED recent
    BY <2>2, Zenon
  <2>3. CASE recent' = [recent EXCEPT ![k] = Without(recent[k], j)]
    <3>1. DOMAIN Without(recent[k], j) = DOMAIN recent[k] \ {j}
      BY WithoutFacts, Zenon
    <3>2. i # j
      BY <1>2, <2>1, Zenon
    <3> HIDE DEF k, j
    <3>3. recent'[n] = IF n = k THEN Without(recent[k], j) ELSE recent[n]
      BY <2>3, Zenon DEF KInv, MapInv
    <3> QED
      BY <3>1, <3>2, <3>3, Zenon
  <2> QED
    BY <1>2, <2>2, <2>3, Zenon DEF Registers
<1>3. ASSUME NEW k \in Node, NotifyWaiter(k) PROVE i \in DOMAIN recent'[n]
  <2>1. CASE UNCHANGED recent
    BY <2>1, Zenon
  <2>2. ASSUME NEW g \in Stashed(recent[k], loop[k].index, loop[k].result),
               recent' = [recent EXCEPT ![k] = g]
        PROVE  i \in DOMAIN recent'[n]
    <3>1. Len(log) \in Nat /\ DOMAIN recent[k] \subseteq 1 .. Len(log)
          /\ loop[k].index \in 1 .. Len(log)
      BY <1>3, LogGrows, NotifyFacts, Zenon DEF KInv, MapInv, FeedInv
    <3>2. DOMAIN g = DOMAIN recent[k] \cup {loop[k].index}
      BY <3>1, StashKeeps, ZenonT(30)
    <3> QED
      BY <2>2, <3>2, Zenon DEF KInv, MapInv
  <2> QED
    BY <1>3, <2>1, <2>2, NotifyFacts, Zenon DEF KInv
<1> QED
  BY <1>1, <1>2, <1>3, NextCases, Zenon
     DEF HandlerCase, Ends, Submits, Proposes, Learns,
     Leaves, Starts, Idles, Kept, Commit, Deliver, ApplyCommand, Kill, Drain, serverVars

(* A waiter stays in pendingOps until it is told or gives up.              *)
LEMMA WaiterStays ==
  ASSUME SnapshotThreshold = 0, KInv, [Next]_vars,
         NEW n \in Node, ~dead'[n], NEW i, i \in DOMAIN pendingOps[n]
  PROVE  \/ i \in DOMAIN pendingOps'[n]
         \/ \E c \in Call : Leaves(c) /\ Owns(c, i)
         \/ NotifyWaiter(n) /\ loop[n].index = i
<1>1. CASE UNCHANGED pendingOps
  BY <1>1, Zenon
<1>2. ASSUME NEW c \in Call, Registers(c) PROVE i \in DOMAIN pendingOps'[n]
  <2> DEFINE k == calls[c].node
             f == With(pendingOps[k], calls[c].index, c)
  <2>1. DOMAIN pendingOps[k] \subseteq DOMAIN f
    BY Zenon DEF With
  <2>2. pendingOps' = [pendingOps EXCEPT ![k] = f]
    BY <1>2, Zenon DEF Registers
  <2> HIDE DEF k, f
  <2> QED
    BY <2>1, <2>2, Zenon DEF KInv, MapInv
<1>3. ASSUME NEW k, NEW j, pendingOps' = [pendingOps EXCEPT ![k] = Without(pendingOps[k], j)],
             k # n \/ i # j
      PROVE  i \in DOMAIN pendingOps'[n]
  <2>1. DOMAIN Without(pendingOps[k], j) = DOMAIN pendingOps[k] \ {j}
    BY WithoutFacts, Zenon
  <2> QED
    BY <1>3, <2>1, Zenon DEF KInv, MapInv
<1>4. ASSUME NEW c \in Call, Leaves(c), ~Owns(c, i) PROVE i \in DOMAIN pendingOps'[n]
  <2> DEFINE k == calls[c].node
             j == calls[c].index
  <2>1. i # j
    BY <1>4, Zenon DEF Leaves, KInv, CallInv
  <2>2. pendingOps' = [pendingOps EXCEPT ![k] = Without(pendingOps[k], j)]
    BY <1>4, Zenon DEF Leaves
  <2> HIDE DEF k, j
  <2> QED
    BY <1>3, <2>1, <2>2, Zenon
<1>5. ASSUME NEW k \in Node, NotifyWaiter(k), k # n \/ loop[n].index # i
      PROVE  i \in DOMAIN pendingOps'[n]
  <2>1. \/ UNCHANGED pendingOps
        \/ pendingOps' = [pendingOps EXCEPT ![k] = Without(pendingOps[k], loop[k].index)]
    BY <1>5, NotifyFacts, Zenon DEF KInv
  <2> QED
    BY <1>3, <1>5, <2>1, Zenon
<1>6. ASSUME NEW k \in Node, Kill(k) PROVE i \in DOMAIN pendingOps'[n]
  <2>1. /\ dead' = [dead EXCEPT ![k] = TRUE]
        /\ pendingOps' = [pendingOps EXCEPT ![k] = EmptyMap]
    BY <1>6, KillFacts, Zenon DEF KInv
  <2>2. k # n
    BY <2>1, Zenon DEF KInv, FeedInv
  <2> QED
    BY <2>1, <2>2, Zenon DEF KInv, MapInv
<1> QED
  BY <1>1, <1>2, <1>4, <1>5, <1>6, NextCases, Zenon
     DEF HandlerCase, Ends, Submits, Proposes, Learns,
     Starts, Idles, Kept, Commit, Deliver, ApplyCommand, Drain, serverVars

(* A call takes a step of its own, or stays where it is and keeps what its *)
(* channel holds.                                                          *)
LEMMA CallMoves ==
  ASSUME SnapshotThreshold = 0, KInv, [Next]_vars, NEW c \in Call
  PROVE  \/ HandlerCase(c)
         \/ Same(c) /\ (calls[c].ch # << >> => calls'[c].ch # << >>)
<1> SUFFICES ASSUME ~HandlerCase(c)
             PROVE  Same(c) /\ (calls[c].ch # << >> => calls'[c].ch # << >>)
  BY Zenon
<1>1. CASE UNCHANGED calls
  BY <1>1, Zenon DEF Same
<1>2. ASSUME NEW d \in Call, HandlerCase(d) PROVE calls'[c] = calls[c]
  <2>1. calls' = [calls EXCEPT ![d] = calls'[d]]
    BY <1>2, Zenon
       DEF HandlerCase, Ends, Submits, Proposes, Learns, Registers, Leaves, Starts, Moved
  <2> QED
    BY <1>2, <2>1, Zenon DEF KInv, CallInv
<1>3. ASSUME NEW n \in Node, NotifyWaiter(n)
      PROVE  Same(c) /\ (calls[c].ch # << >> => calls'[c].ch # << >>)
  <2> DEFINE d == pendingOps[n][loop[n].index]
  <2>1. CASE UNCHANGED calls
    BY <2>1, Zenon DEF Same
  <2>2. CASE /\ calls' = [calls EXCEPT ![d] = calls'[d]]
             /\ Same(d) /\ calls'[d].ch # << >>
    <3> HIDE DEF d
    <3>1. CASE c = d
      BY <2>2, <3>1, Zenon
    <3>2. CASE c # d
      BY <2>2, <3>2, Zenon DEF KInv, CallInv, Same
    <3> QED
      BY <3>1, <3>2, Zenon
  <2> QED
    BY <1>3, <2>1, <2>2, NotifyFacts, Zenon DEF KInv
<1>4. ASSUME NEW n \in Node, Kill(n)
      PROVE  Same(c) /\ (calls[c].ch # << >> => calls'[c].ch # << >>)
  BY <1>4, KillFacts, Zenon DEF KInv
<1>5. ASSUME NEW d \in Call, HandlerCase(d)
      PROVE  Same(c) /\ (calls[c].ch # << >> => calls'[c].ch # << >>)
  BY <1>2, <1>5, Zenon DEF Same
<1> QED
  BY <1>1, <1>3, <1>4, <1>5, NextCases, Zenon
     DEF Idles, Commit, Deliver, ApplyCommand, Drain

(* notifyWaiter at an index that the call still polls for or is about to   *)
(* register leaves the result in the stash.                                *)
LEMMA EarlyResult ==
  ASSUME SnapshotThreshold = 0, KInv, [Next]_vars, Len(log) <= MaxPending,
         NEW n \in Node, NEW c \in Call, calls[c].pc \notin {"waiting", "done"},
         NotifyWaiter(n), Owns(c, loop[n].index)
  PROVE  loop[n].index \in DOMAIN recent'[n]
<1> DEFINE i == loop[n].index
<1>1. i \notin DOMAIN pendingOps[n]
  BY Zenon DEF KInv, MapInv, Owns
<1>2. PICK g \in Stashed(recent[n], i, loop[n].result) : recent' = [recent EXCEPT ![n] = g]
  BY <1>1, NotifyFacts, Zenon DEF KInv
<1>3. Len(log) \in Nat /\ DOMAIN recent[n] \subseteq 1 .. Len(log) /\ i \in 1 .. Len(log)
  BY LogGrows, Zenon DEF KInv, MapInv, Owns
<1>4. DOMAIN g = DOMAIN recent[n] \cup {i}
  <2> HIDE DEF i
  <2> QED
    BY <1>3, StashKeeps, ZenonT(40)
<1> QED
  BY <1>2, <1>4, Zenon DEF KInv, MapInv

(* notifyWaiter at the index of a call that waits fills its channel.       *)
LEMMA LateResult ==
  ASSUME SnapshotThreshold = 0, KInv, NEW n \in Node, NEW c \in Call,
         NotifyWaiter(n), Owns(c, loop[n].index), loop[n].index \in DOMAIN pendingOps[n]
  PROVE  calls'[c].ch # << >>
<1>1. pendingOps[n][loop[n].index] = c
  BY Zenon DEF KInv, MapInv, Owns
<1> QED
  BY <1>1, NotifyFacts, Zenon DEF KInv

LEMMA WaitStep ==
  ASSUME SnapshotThreshold = 0, KInv, [Next]_vars
  PROVE  WaitInv'
<1> SUFFICES ASSUME Len(log') <= MaxPending, NEW c \in Call PROVE Found(c)'
  BY Zenon DEF WaitInv
<1>1. Len(log) \in Nat /\ Len(log') \in Nat /\ Len(log) <= MaxPending /\ Found(c)
  BY LogGrows, BoundsAssumption DEF KInv, WaitInv
<1>2. ASSUME NEW n \in Node, n = calls[c].node, ~dead'[n],
             NEW i \in 1 .. Len(log'), log'[i].call = c,
             calls[c].pc \in {"polling", "register"}, calls'[c].pc \in {"polling", "register"}
      PROVE  i \in DOMAIN recent'[n] \/ Coming(n, i)'
  <2>1. CASE i > Len(log)
    <3>1. PICK d \in Call : Commit(d)
      BY <1>1, <1>2, <2>1, LogGrows
    <3>2. fed' = fed /\ fed[n] \in Nat /\ fed[n] <= Len(log)
      BY <1>2, <3>1, Zenon DEF Commit, KInv, FeedInv
    <3> QED
      BY <1>1, <2>1, <3>2, SMTT(30) DEF Coming
  <2>2. CASE i <= Len(log)
    <3>1. Owns(c, i) /\ ~dead[n]
      BY <1>1, <1>2, <2>2, LogGrows, DeadStays, SMTT(30) DEF Owns
    <3>2. i \in DOMAIN recent[n] \/ Coming(n, i)
      BY <1>1, <1>2, <3>1, Zenon DEF Found, Owns
    <3>3. CASE Coming(n, i)
      <4>1. CASE NotifyWaiter(n) /\ loop[n].index = i
        BY <1>1, <1>2, <3>1, <4>1, EarlyResult, Zenon
      <4>2. i \in Nat /\ ~dead'[n]
        BY <1>1, <1>2
      <4>3. Coming(n, i)' \/ (NotifyWaiter(n) /\ loop[n].index = i)
        BY <3>3, <4>2, ComingStays, Zenon
      <4> QED
        BY <4>1, <4>3, Zenon
    <3>4. CASE i \in DOMAIN recent[n]
      <4>1. ASSUME NEW d \in Call, Registers(d), Owns(d, i) PROVE FALSE
        <5>1. d = c
          BY <3>1, <4>1, Zenon DEF Owns
        <5> QED
          BY <1>2, <4>1, <5>1, Zenon DEF Registers, Moved
      <4> QED
        BY <1>1, <1>2, <3>4, <4>1, StashStays, Zenon
    <3> QED
      BY <3>2, <3>3, <3>4, Zenon
  <2> QED
    BY <1>1, <2>1, <2>2
<1>3. ASSUME NEW n, n = calls[c].node, ~dead'[n], NEW i, i = calls[c].index,
             calls[c].pc = "waiting", calls'[c].pc = "waiting",
             calls[c].ch = << >>, calls'[c].ch = << >>
      PROVE  i \in DOMAIN pendingOps'[n] /\ Coming(n, i)'
  <2>1. n \in Node /\ Owns(c, i) /\ i \in Nat
    BY <1>1, <1>3 DEF KInv, CallInv, Owns
  <2>2. i \in DOMAIN pendingOps[n] /\ Coming(n, i)
    BY <1>1, <1>3, <2>1, DeadStays, Zenon DEF Found
  <2>3. ~(NotifyWaiter(n) /\ loop[n].index = i)
    BY <1>3, <2>1, <2>2, LateResult, Zenon
  <2>4. ASSUME NEW d \in Call, Leaves(d), Owns(d, i) PROVE FALSE
    <3>1. d = c
      BY <2>1, <2>4, Zenon DEF Owns
    <3> QED
      BY <1>3, <2>4, <3>1, Zenon DEF Leaves, Moved
  <2>5. i \in DOMAIN pendingOps'[n]
    BY <1>3, <2>1, <2>2, <2>3, <2>4, WaiterStays, Zenon
  <2>6. Coming(n, i)'
    BY <1>3, <2>1, <2>2, <2>3, ComingStays, Zenon
  <2> QED
    BY <2>5, <2>6, Zenon
<1>4. CASE Same(c) /\ (calls[c].ch # << >> => calls'[c].ch # << >>)
  <2>1. calls[c].pc \in {"polling", "register"} => calls[c].node \in Node
    BY Zenon DEF KInv, CallInv
  <2> QED
    BY <1>2, <1>3, <1>4, <2>1, Zenon DEF Found, Same
<1>5. CASE Ends(c) \/ Submits(c) \/ Leaves(c) \/ Starts(c)
  BY <1>5, Zenon DEF Ends, Submits, Leaves, Starts, Moved, Found
<1>6. CASE Learns(c)
  <2>1. /\ calls[c].node \in Node /\ calls'[c].node = calls[c].node
        /\ calls[c].pc = "polling" /\ calls'[c].pc = "register"
    BY <1>6, Zenon DEF Learns, Moved, KInv, CallInv
  <2> QED
    BY <1>2, <2>1, Zenon DEF Found
<1>7. CASE Proposes(c)
  <2>1. UNCHANGED log /\ calls[c].pc = "submit" /\ calls'[c].pc = "polling"
    BY <1>7, Zenon DEF Proposes, Still, Moved
  <2>2. \A i \in 1 .. Len(log) : log[i].call # c
    BY <2>1, Zenon DEF KInv, CallInv, Fresh
  <2> QED
    BY <2>1, <2>2, Zenon DEF Found
<1>8. CASE Registers(c)
  <2>0. PICK n, i : n = calls[c].node /\ i = calls[c].index
    BY Zenon
  <2>1. CASE calls'[c].pc = "done"
    BY <2>1, Zenon DEF Found
  <2>2. CASE calls'[c].pc # "done"
    <3>1. /\ i \notin DOMAIN recent[n] /\ calls[c].pc = "register" /\ Still
          /\ calls'[c].pc = "waiting" /\ calls'[c].index = i /\ calls'[c].node = n
          /\ pendingOps' = [pendingOps EXCEPT ![n] = With(pendingOps[n], i, c)]
      BY <1>8, <2>0, <2>2, Zenon DEF Registers, Moved
    <3>2. n \in Node /\ Owns(c, i)
      BY <2>0, <3>1, Zenon DEF KInv, CallInv
    <3>3. i \in DOMAIN pendingOps'[n]
      <4>1. i \in DOMAIN With(pendingOps[n], i, c)
        BY Zenon DEF With
      <4>2. pendingOps'[n] = With(pendingOps[n], i, c)
        BY <3>1, <3>2, Zenon DEF KInv, MapInv
      <4> QED
        BY <4>1, <4>2, Zenon
    <3>4. ~dead[n] => Coming(n, i)
      BY <1>1, <2>0, <3>1, <3>2, Zenon DEF Found, Owns
    <3>5. ~dead'[n] => Coming(n, i)'
      BY <3>1, <3>4, Zenon DEF Still, Coming
    <3> QED
      BY <3>1, <3>3, <3>5, Zenon DEF Found
  <2> QED
    BY <2>1, <2>2, Zenon
<1> QED
  BY <1>4, <1>5, <1>6, <1>7, <1>8, CallMoves, Zenon DEF HandlerCase

(* Without snapshots, as long as the stash cannot overflow, no result is   *)
(* lost between ReplicateCommand, the registration of the waiter in        *)
(* submitOperation and notifyWaiter, in whatever order the three run: a    *)
(* call that waits on a node that lives has its result still to come.      *)
THEOREM ResultsKept ==
  ASSUME SnapshotThreshold = 0
  PROVE  Spec => []NoLostResult
<1>1. KInv /\ [Next]_vars => KInv'
  BY CallStep, FeedStep, MapStep, WaitStep, Zenon DEF KInv
<1>2. KInv => NoLostResult
  BY Zenon DEF KInv, WaitInv, Found, Coming, NoLostResult
<1> QED
  BY InitKInv, <1>1, <1>2, PTL DEF Spec
=============================================================================
