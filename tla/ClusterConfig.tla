---------------------------- MODULE ClusterConfig ----------------------------
(***************************************************************************)
(* The checks that a cluster definition goes through: config.go and the    *)
(* validation in raft.NewRaft.  A configuration is a record of the fields  *)
(* that are checked, durations are integers, and "" is an absent string.   *)
(***************************************************************************)
EXTENDS Integers, Sequences

ValidNode(n) == n.id >= 0 /\ n.listenAddr # ""

UniqueIds(nodes) ==
    \A i, j \in 1 .. Len(nodes) : nodes[i].id = nodes[j].id => i = j

TimeoutsUnordered(c) == c.timeoutMin > 0 /\ c.timeoutMax > 0

TimeoutsOk(c) ==
    /\ c.timeoutMin > 0 /\ c.timeoutMax > 0
    /\ c.timeoutMin < c.timeoutMax

(* config.validate                                                         *)
Valid(c) ==
    /\ c.nodes # << >>
    /\ c.heartbeat > 0
    /\ TimeoutsOk(c)
    /\ c.dataDir # ""
    /\ \A i \in 1 .. Len(c.nodes) : ValidNode(c.nodes[i])
    /\ UniqueIds(c.nodes)

(* NodeByID and PeersOf, as sets of positions.                             *)
WithId(c, id) == {i \in 1 .. Len(c.nodes) : c.nodes[i].id = id}
PeersOf(c, id) == {c.nodes[i].id : i \in (1 .. Len(c.nodes)) \ WithId(c, id)}

(* The Config that StartFromConfig hands to raft.NewRaft.                  *)
RaftConfig(c, id) ==
    [serverId |-> id, peers |-> PeersOf(c, id), heartbeat |-> c.heartbeat,
     timeoutMin |-> c.timeoutMin, timeoutMax |-> c.timeoutMax]

(* Config.validate in raft.go                                              *)
RaftValid(r) ==
    /\ r.serverId >= 0
    /\ r.serverId \notin r.peers
    /\ r.timeoutMin > 0 /\ r.timeoutMax > 0
    /\ r.timeoutMin < r.timeoutMax
    /\ r.heartbeat > 0
=============================================================================
