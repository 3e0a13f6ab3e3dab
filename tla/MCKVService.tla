----------------------------- MODULE MCKVService -----------------------------
(***************************************************************************)
(* An instance of KVService for TLC: a clerk appends and reads back.  With *)
(* the program Two, a second clerk reads what the first one writes.        *)
(***************************************************************************)
EXTENDS KVService, TLC

CONSTANTS n1, n2, p, q, k, a

Op(t, v) == [type |-> t, key |-> k, val |-> v, id |-> NoId]

Order == <<n1, n2>>
Alone == p :> <<Op("Append", a), Op("Get", None)>>
Two   == p :> <<Op("Append", a)>> @@ q :> <<Op("Get", None)>>
=============================================================================
