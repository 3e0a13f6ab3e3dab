------------------------------ MODULE KVService ------------------------------
(***************************************************************************)
(* Clerks (kv/clerk.go) on top of the servers of KVServer.  A clerk runs   *)
(* its operations one after the other; an attempt is one RPC, and the      *)
(* handler it starts goes on when the clerk no longer waits for it.        *)
(***************************************************************************)
EXTENDS KVServer

CONSTANTS
    Clerk,
    Servers,       \* servers and serverIds: the nodes in the clerk's order
    Program,       \* Program[k]: the operations that clerk k asks for
    MaxAttempts,   \* MaxClerkAttempts
    MaxFailures    \* bound: RPCs that time out or lose their connection

ASSUME ClerkAssumption == MaxAttempts \in Nat /\ MaxFailures \in Nat

VARIABLES
    clerk,         \* clerk[k]: its current operation, and what it remembers
    owner,         \* owner[c]: the clerk and operation number of an attempt
    failures,
    ideal,         \* history: the map that the log stands for
    seen           \* history: seen[c], what the key held when c was committed

clerkVars   == <<clerk, owner, failures>>
historyVars == <<ideal, seen>>
allVars     == <<vars, clerkVars, historyVars>>

MakeClerk == [pc |-> "idle", number |-> 0, attempt |-> 0, call |-> None,
              leaderId |-> None, seqNum |-> 0, answer |-> << >>]

ServiceInit ==
    /\ Init
    /\ clerk = [k \in Clerk |-> MakeClerk]
    /\ owner = [c \in Call |-> [clerk |-> None, number |-> 0]]
    /\ failures = 0
    /\ ideal = NoSnap.state
    /\ seen = [c \in Call |-> {}]

OpOf(k) == Program[k][clerk[k].number]

Invoke(k) ==
    /\ clerk[k].pc = "idle" /\ clerk[k].number < Len(Program[k])
    /\ clerk' = [clerk EXCEPT ![k] = [@ EXCEPT !.pc = "try", !.attempt = 0,
                                               !.number = @ + 1, !.answer = << >>]]
    /\ UNCHANGED <<vars, owner, failures>>

(* The cached leader, or a server by the number of writes tried so far.    *)
PickServer(k) ==
    IF clerk[k].leaderId # None THEN clerk[k].leaderId
    ELSE Servers[(clerk[k].seqNum % Len(Servers)) + 1]

(* The RPC reaches a handler; writes take a sequence number, which the     *)
(* request does not carry.                                                 *)
Attempt(k) ==
    LET c   == CHOOSE d \in Call : calls[d] = NoCall
        op  == OpOf(k)
        seq == clerk[k].seqNum + (IF op.type = "Get" THEN 0 ELSE 1)
    IN  /\ clerk[k].pc = "try" /\ clerk[k].attempt < MaxAttempts
        /\ \E d \in Call : calls[d] = NoCall
        /\ owner' = [owner EXCEPT ![c] = [clerk |-> k, number |-> clerk[k].number]]
        /\ Request(c, PickServer(k), op)
        /\ clerk' = [clerk EXCEPT ![k] = [@ EXCEPT !.pc = "rpc", !.call = c,
                                                   !.seqNum = seq]]
        /\ UNCHANGED failures

Panic(k) ==
    /\ clerk[k].pc = "try" /\ clerk[k].attempt = MaxAttempts
    /\ clerk' = [clerk EXCEPT ![k] = [@ EXCEPT !.pc = "panic"]]
    /\ UNCHANGED <<vars, owner, failures>>

Retry(k, leader) ==
    clerk' = [clerk EXCEPT ![k] = [@ EXCEPT !.pc = "try", !.attempt = @ + 1,
                                            !.call = None, !.leaderId = leader]]

Return(k, n, answer) ==
    clerk' = [clerk EXCEPT ![k] = [@ EXCEPT !.pc = "idle", !.call = None,
                                            !.leaderId = n, !.answer = answer]]

ResponseTrusted(k) ==
    LET c == calls[clerk[k].call]
    IN  /\ clerk[k].pc = "rpc" /\ c.pc = "done"
        /\ \/ c.reply \in {"wrong", "lost"} /\ Retry(k, clerk[k].leaderId)
           \/ c.reply \in {"error", "ok"} /\ Return(k, c.node, c.val)
        /\ UNCHANGED <<vars, owner, failures>>

(* The response.  updateLeader takes over the hint of a wrong leader; Get  *)
(* returns the value field of any other response.                          *)
Response(k) ==
    LET c == calls[clerk[k].call]
    IN  /\ clerk[k].pc = "rpc" /\ c.pc = "done"
        /\ \/ c.reply = "wrong" /\ Retry(k, c.val)
           \/ c.reply = "lost"  /\ Retry(k, clerk[k].leaderId)
           \/ /\ c.reply = "error" /\ c.op.type # "Get"
              /\ Retry(k, clerk[k].leaderId)
           \/ /\ c.reply = "error" /\ c.op.type = "Get"
              /\ Return(k, c.node, << >>)
           \/ c.reply = "ok" /\ Return(k, c.node, c.val)
        /\ UNCHANGED <<vars, owner, failures>>

(* The 5s of the RPC are over, or its connection breaks; the handler does  *)
(* not learn of it.                                                        *)
RpcFails(k) ==
    /\ clerk[k].pc = "rpc" /\ failures < MaxFailures
    /\ failures' = failures + 1
    /\ Retry(k, clerk[k].leaderId)
    /\ UNCHANGED <<vars, owner>>

ClerkNext ==
    \E k \in Clerk :
      Invoke(k) \/ Attempt(k) \/ Panic(k) \/ Response(k) \/ RpcFails(k)

Record ==
    LET e == log'[Len(log')]
    IN  IF log' = log THEN UNCHANGED historyVars
        ELSE /\ ideal' = Execute(ideal, e.op)
             /\ seen' = [seen EXCEPT ![e.call] = {ideal[e.op.key]}]

ServiceNext ==
    \/ ClerkNext /\ UNCHANGED historyVars
    \/ (RaftNext \/ HandlerNext \/ ServerNext) /\ UNCHANGED clerkVars /\ Record

ServiceSpec == ServiceInit /\ [][ServiceNext]_allVars

-----------------------------------------------------------------------------
(* The mapping to Store: a try takes effect when its entry is committed.   *)

Plain(v) == IF v = None THEN << >> ELSE v

Tries(k) ==
    {c \in Call : owner[c] = [clerk |-> k, number |-> clerk[k].number]}

ClientOf(k) ==
    LET open == clerk[k].pc # "idle"
    IN  [number |-> clerk[k].number,
         op     |-> IF open THEN OpOf(k) ELSE None,
         read   |-> IF open THEN {Plain(v) : v \in UNION {seen[c] : c \in Tries(k)}}
                    ELSE {},
         answer |-> clerk[k].answer]

TryOf(c) == [name |-> c, clerk |-> owner[c].clerk, number |-> owner[c].number,
             op |-> calls[c].op]

Asked == UNION {{Program[k][i] : i \in 1 .. Len(Program[k])} : k \in Clerk}

Promise == INSTANCE Store WITH
    Try        <- Call,
    Operations <- Asked,
    map        <- [x \in Key |-> Plain(ideal[x])],
    tries      <- {TryOf(c) : c \in {d \in Call : \/ d \in proposed
                                             \/ calls[d].pc \in {"handler", "submit"}}},
    client     <- [k \in Clerk |-> ClientOf(k)]

(* Clerks and servers keep the promise of Store: whatever the leader       *)
(* changes, crashes, shutdowns, snapshots and failed RPCs, an operation    *)
(* returns only after an attempt of its own was committed since it was     *)
(* called, and a Get returns what its key held at such a moment; only a    *)
(* Get that meets an error may return the empty value instead.             *)
ActsAsStore == Promise!Spec
=============================================================================
