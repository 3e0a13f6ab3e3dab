------------------------------ MODULE Persister ------------------------------
(***************************************************************************)
(* FilePersister: the two files of a node, written through a temporary     *)
(* file that is synced and renamed, and read when the node starts.         *)
(*                                                                         *)
(* A content is a value that was saved, or Torn: any part of one.  A step  *)
(* is a system call, after which the process may crash or the power fail.  *)
(* The file system (external) keeps a name or a content for sure only once *)
(* it was synced; the directory never is, so that a power loss may undo    *)
(* renames.  The mutex lets one call run at a time.                        *)
(***************************************************************************)
EXTENDS FiniteSets

CONSTANTS State, Snap, Value, Absent, Torn

ASSUME ContentsAssumption ==
    State # Snap /\ Absent # Torn /\ Absent \notin Value /\ Torn \notin Value

VARIABLES
    pc,             \* the system call that comes next
    target, value,  \* the call of atomicWrite that is under way
    tmp,            \* tmp[f]: content of <f>.tmp
    synced,         \* is the content that this call wrote on disk
    file,           \* file[f]: content of the file
    past,           \* past[f]: what else the name may lead to after a power loss
    reply, got

vars == <<pc, target, value, tmp, synced, file, past, reply, got>>

File == {State, Snap}
Contents == Value \cup {Absent, Torn}
Nothing == [f \in File |-> Absent]

Init ==
    /\ pc = "down" /\ target = State /\ value = Absent
    /\ tmp = Nothing /\ synced = FALSE
    /\ file = Nothing /\ past = [f \in File |-> {}]
    /\ reply = "none" /\ got = Nothing

Goto(from, to) == pc = from /\ pc' = to

NoCall == target' = State /\ value' = Absent /\ synced' = FALSE

Answer(from, outcome) ==
    /\ Goto(from, "up")
    /\ reply' = outcome
    /\ NoCall

(* Save and SaveSnapshot encode the value, then atomicWrite starts.        *)
Save(f, v) ==
    /\ Goto("up", "mkdir")
    /\ target' = f /\ value' = v
    /\ UNCHANGED <<tmp, synced, file, past, reply, got>>

(* The directory is there; WriteFile truncates what an earlier call left.  *)
MkdirAll ==
    /\ Goto("mkdir", "write")
    /\ tmp' = [tmp EXCEPT ![target] = Torn]
    /\ UNCHANGED <<target, value, synced, file, past, reply, got>>

MkdirFails ==
    /\ Answer("mkdir", "failed")
    /\ UNCHANGED <<tmp, file, past, got>>

WriteFile ==
    /\ Goto("write", "sync")
    /\ tmp' = [tmp EXCEPT ![target] = value]
    /\ UNCHANGED <<target, value, synced, file, past, reply, got>>

(* A failing write leaves the temporary file as it is.                     *)
WriteFails ==
    /\ Answer("write", "failed")
    /\ UNCHANGED <<tmp, file, past, got>>

SkipSync ==
    /\ Goto("sync", "rename")
    /\ UNCHANGED <<target, value, tmp, synced, file, past, reply, got>>

Sync ==
    /\ Goto("sync", "rename")
    /\ synced' = TRUE
    /\ UNCHANGED <<target, value, tmp, file, past, reply, got>>

(* Open, Sync, Close or Rename fails: the temporary file is removed, or    *)
(* that fails too.                                                         *)
Removed == tmp' \in {tmp, [tmp EXCEPT ![target] = Absent]}

SyncFails ==
    /\ Answer("sync", "failed") /\ Removed
    /\ UNCHANGED <<file, past, got>>

Rename ==
    /\ Answer("rename", "ok")
    /\ file' = [file EXCEPT ![target] = tmp[target]]
    /\ past' = [past EXCEPT ![target] =
                  @ \cup {file[target]} \cup IF synced THEN {} ELSE {Torn}]
    /\ tmp' = [tmp EXCEPT ![target] = Absent]
    /\ UNCHANGED got

RenameUnchecked ==
    /\ Answer("rename", "ok") /\ Removed
    /\ UNCHANGED <<file, past, got>>

RenameFails ==
    /\ Answer("rename", "failed") /\ Removed
    /\ UNCHANGED <<file, past, got>>

-----------------------------------------------------------------------------
(* Start of the node: loadPersistedState, and NewRaft's reaction           *)

Unwritten == <<target, value, tmp, synced, file, past, reply>>

Load ==
    /\ Goto("down", "loading")
    /\ file[State] \in Value
    /\ got' = [Nothing EXCEPT ![State] = file[State]]
    /\ UNCHANGED Unwritten

(* The file is missing, cannot be read or decoded: the node starts fresh.  *)
StartFresh ==
    /\ Goto("down", "up")
    /\ got' = Nothing
    /\ UNCHANGED Unwritten

(* Of a snapshot file only the header is checked.                          *)
LoadSnapshot ==
    /\ Goto("loading", "up")
    /\ got' = [got EXCEPT ![Snap] = file[Snap]]
    /\ UNCHANGED Unwritten

LoadSnapshotFails ==
    /\ Goto("loading", "up")
    /\ UNCHANGED <<got, Unwritten>>

-----------------------------------------------------------------------------
(* The process and the machine fail                                        *)

Crash ==
    /\ pc # "down" /\ pc' = "down"
    /\ got' = Nothing /\ reply' = "none" /\ NoCall
    /\ UNCHANGED <<tmp, file, past>>

(* Every file is left as one of the contents its name may lead to.         *)
PowerLoss ==
    /\ pc' = "down" /\ got' = Nothing /\ reply' = "none" /\ NoCall
    /\ file' \in [File -> Contents]
    /\ \A f \in File : file'[f] \in past[f] \cup {file[f]}
    /\ tmp' \in [File -> Contents]
    /\ \A f \in File : tmp'[f] \in {tmp[f], Absent, Torn}
    /\ past' = [f \in File |-> {}]

(* The system writes everything back.                                      *)
Settle ==
    /\ \E f \in File : past[f] # {}
    /\ past' = [f \in File |-> {}]
    /\ UNCHANGED <<pc, target, value, tmp, synced, file, reply, got>>

Next ==
    \/ \E f \in File, v \in Value : Save(f, v)
    \/ MkdirAll \/ MkdirFails \/ WriteFile \/ WriteFails
    \/ Sync \/ SyncFails \/ Rename \/ RenameFails
    \/ Load \/ StartFresh \/ LoadSnapshot \/ LoadSnapshotFails
    \/ Crash \/ PowerLoss \/ Settle

Spec == Init /\ [][Next]_vars

-----------------------------------------------------------------------------
(* Properties                                                              *)

(* Neither a crash nor a power loss at any point, nor any sequence of      *)
(* failing calls, leaves a part of a value in a file that the node reads:  *)
(* the temporary file is synced before it takes the name.                  *)
Untorn ==
    \A f \in File : Torn \notin past[f] \cup {file[f], got[f]}

(* FilePersister keeps the promise that MemoryPersister makes to the tests *)
(* of Raft: a save that returns nil has replaced the file, one that        *)
(* returns an error or is cut off by a crash has replaced it or left it,   *)
(* and a node loads what was saved last.                                   *)
Promise == INSTANCE Storage WITH
    stored <- file,
    phase  <- IF pc \in {"down", "loading"} THEN pc ELSE "up"

ActsAsStorage == Promise!Spec
=============================================================================
