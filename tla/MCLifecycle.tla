----------------------------- MODULE MCLifecycle -----------------------------
(***************************************************************************)
(* Instances of Lifecycle: configurations on both sides of every check,    *)
(* and files with and without a snapshot.                                  *)
(***************************************************************************)
EXTENDS Lifecycle

CONSTANTS t1, t2, r1

Member(id, addr) == [id |-> id, listenAddr |-> addr]

Sample ==
    [nodes      : {<< >>, <<Member(1, "a")>>, <<Member(1, "a"), Member(2, "b")>>,
                   <<Member(1, "a"), Member(1, "b")>>, <<Member(0, "a")>>,
                   <<Member(1, "")>>, <<Member(-1, "a"), Member(1, "b")>>},
     heartbeat  : {0, 1}, timeoutMin : {0, 1, 2}, timeoutMax : {0, 1, 2},
     dataDir    : {"", "d"}]

Started == [config : Sample, id : {-1, 0, 1}]

Files == {[snap |-> s, last |-> l] : s \in 0 .. 1, l \in 0 .. 2}
           \ {[snap |-> 1, last |-> 0]}
=============================================================================
