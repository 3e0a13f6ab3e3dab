------------------------------- MODULE Storage -------------------------------
(***************************************************************************)
(* What the Persister interface promises, in the way MemoryPersister keeps *)
(* it: a save takes effect as a whole or fails and changes nothing, and a  *)
(* node that starts gets what the files hold.                              *)
(*                                                                         *)
(* A power loss is added.  Until the system has settled, it may bring back *)
(* an earlier value of a file, and never anything else.                    *)
(***************************************************************************)
CONSTANTS
    State, Snap,    \* the two files
    Value,          \* what is saved
    Absent          \* no file

VARIABLES
    stored,         \* stored[f]: what a file holds
    past,           \* past[f]: what else a power loss may leave in it
    reply,          \* outcome of the last save since the start
    phase,          \* "down", "loading" or "up"
    got             \* got[f]: what the node has loaded

vars == <<stored, past, reply, phase, got>>

File == {State, Snap}
Nothing == [f \in File |-> Absent]

Init ==
    /\ stored = Nothing
    /\ past = [f \in File |-> {}]
    /\ reply = "none"
    /\ phase = "down"
    /\ got = Nothing

(* Save and SaveSnapshot: the value is copied, the call cannot stop half   *)
(* way.                                                                    *)
Save(f, v) ==
    /\ phase = "up"
    /\ stored' = [stored EXCEPT ![f] = v]
    /\ past' = [past EXCEPT ![f] = @ \cup {stored[f]}]
    /\ reply' = "ok"
    /\ UNCHANGED <<phase, got>>

SaveFails ==
    /\ phase = "up"
    /\ reply' = "failed"
    /\ UNCHANGED <<stored, past, phase, got>>

(* Load; with nothing to load, or an error, the node starts fresh and the  *)
(* snapshot is not looked at.                                              *)
Load ==
    /\ phase = "down" /\ stored[State] # Absent
    /\ got' = [Nothing EXCEPT ![State] = stored[State]]
    /\ phase' = "loading"
    /\ UNCHANGED <<stored, past, reply>>

LoadNothing ==
    /\ phase = "down"
    /\ got' = Nothing
    /\ phase' = "up"
    /\ UNCHANGED <<stored, past, reply>>

(* LoadSnapshot; an error leaves the node without a snapshot.              *)
LoadSnapshot ==
    /\ phase = "loading"
    /\ got' \in {got, [got EXCEPT ![Snap] = stored[Snap]]}
    /\ phase' = "up"
    /\ UNCHANGED <<stored, past, reply>>

Crash ==
    /\ phase' = "down" /\ got' = Nothing /\ reply' = "none"
    /\ UNCHANGED <<stored, past>>

PowerLoss ==
    /\ \E s \in [File -> UNION {past[f] \cup {stored[f]} : f \in File}] :
         /\ \A f \in File : s[f] \in past[f] \cup {stored[f]}
         /\ stored' = s
    /\ past' = [f \in File |-> {}]
    /\ phase' = "down" /\ got' = Nothing /\ reply' = "none"

Settle ==
    /\ past' = [f \in File |-> {}]
    /\ UNCHANGED <<stored, reply, phase, got>>

Next ==
    \/ SaveFails \/ \E f \in File, v \in Value : Save(f, v)
    \/ Load \/ LoadNothing \/ LoadSnapshot
    \/ Crash \/ PowerLoss \/ Settle

Spec == Init /\ [][Next]_vars
=============================================================================
