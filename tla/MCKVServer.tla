----------------------------- MODULE MCKVServer -----------------------------
(***************************************************************************)
(* Instances of KVServer for TLC.                                          *)
(***************************************************************************)
EXTENDS KVServer, TLC

CONSTANTS n1, n2, c1, c2, c3, k, a, b

Op(t, v, client, seq) ==
    [type |-> t, key |-> k, val |-> v, id |-> [client |-> client, seq |-> seq]]

(* An operation with an id, its retry, and another write of the client or  *)
(* a Get through the RPC handler.                                          *)
Mixed ==
    {<<c1, n1, Op("Append", a, 1, 1)>>, <<c2, n1, Op("Append", a, 1, 1)>>,
     <<c3, n1, Op("Put", b, 1, 2)>>, <<c3, n1, Op("Get", None, 0, 0)>>}

(* One restart, shutdown or expiry per behaviour; a shutdown meets at most *)
(* two calls, and an expiry an operation and its retry.                    *)
OneEvent ==
    /\ restarts + kills + expiries <= 1
    /\ kills = 0 \/ calls[c1] = NoCall \/ calls[c2] = NoCall
    /\ expiries = 0 \/ calls[c3] = NoCall

Symmetry == Permutations({c1, c2})
=============================================================================
