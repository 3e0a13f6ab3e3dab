--------------------------- MODULE PersisterProofs ---------------------------
(***************************************************************************)
(* FilePersister never exposes a torn file and implements Storage, for     *)
(* every set of values.                                                    *)
(***************************************************************************)
EXTENDS Persister, TLAPS

(* The types of the variables of FilePersister.                            *)
TypeOK ==
    /\ pc \in {"down", "loading", "up", "mkdir", "write", "sync", "rename"}
    /\ target \in File /\ value \in Value \cup {Absent}
    /\ tmp \in [File -> Contents] /\ synced \in BOOLEAN
    /\ file \in [File -> Contents] /\ past \in [File -> SUBSET Contents]
    /\ got \in [File -> Contents]

(* What atomicWrite knows between its system calls: a value is being       *)
(* written, the temporary file holds it once it is written, and it is on   *)
(* disk once it is synced.                                                 *)
InCall ==
    /\ pc \in {"mkdir", "write", "sync", "rename"} => value \in Value
    /\ pc \in {"sync", "rename"} => tmp[target] = value
    /\ pc = "rename" => synced

(* The inductive invariant.                                                *)
IInv == TypeOK /\ InCall /\ Untorn

LEMMA InitIInv == Init => IInv
<1> SUFFICES ASSUME Init PROVE IInv
  OBVIOUS
<1> USE DEF Init, File, Contents, Nothing
<1>1. TypeOK  BY DEF TypeOK
<1>2. InCall  BY DEF InCall
<1>3. Untorn  BY ContentsAssumption DEF Untorn
<1> QED  BY <1>1, <1>2, <1>3 DEF IInv

LEMMA StepTypeOK == IInv /\ [Next]_vars => TypeOK'
<1> SUFFICES ASSUME IInv, [Next]_vars PROVE TypeOK'
  OBVIOUS
<1> USE DEF IInv, TypeOK, File, Contents, Nothing, Goto, Answer, NoCall, Removed,
            Unwritten
<1>1. ASSUME NEW f \in File, NEW v \in Value, Save(f, v) PROVE TypeOK'
  BY <1>1 DEF Save
<1>2. CASE MkdirAll  BY <1>2 DEF MkdirAll
<1>3. CASE MkdirFails  BY <1>3 DEF MkdirFails
<1>4. CASE WriteFile  BY <1>4 DEF WriteFile
<1>5. CASE WriteFails  BY <1>5 DEF WriteFails
<1>6. CASE Sync  BY <1>6 DEF Sync
<1>7. CASE SyncFails  BY <1>7 DEF SyncFails
<1>8. CASE Rename
  <2>1. past[target] \cup {file[target]} \cup (IF synced THEN {} ELSE {Torn})
          \in SUBSET Contents
    OBVIOUS
  <2>2. past' \in [File -> SUBSET Contents]
    BY <1>8, <2>1 DEF Rename
  <2> QED
    BY <1>8, <2>2 DEF Rename
<1>9. CASE RenameFails  BY <1>9 DEF RenameFails
<1>10. CASE Load  BY <1>10 DEF Load
<1>11. CASE StartFresh  BY <1>11 DEF StartFresh
<1>12. CASE LoadSnapshot  BY <1>12 DEF LoadSnapshot
<1>13. CASE LoadSnapshotFails  BY <1>13 DEF LoadSnapshotFails
<1>14. CASE Crash  BY <1>14 DEF Crash
<1>15. CASE PowerLoss  BY <1>15 DEF PowerLoss
<1>16. CASE Settle  BY <1>16 DEF Settle
<1>17. CASE UNCHANGED vars  BY <1>17 DEF vars
<1> QED
  BY <1>1, <1>2, <1>3, <1>4, <1>5, <1>6, <1>7, <1>8, <1>9, <1>10, <1>11, <1>12,
     <1>13, <1>14, <1>15, <1>16, <1>17 DEF Next

LEMMA StepInCall == IInv /\ [Next]_vars => InCall'
<1> SUFFICES ASSUME IInv, [Next]_vars PROVE InCall'
  OBVIOUS
<1> USE DEF IInv, TypeOK, InCall, File, Contents, Goto, Answer, NoCall, Unwritten
<1>1. ASSUME NEW f \in File, NEW v \in Value, Save(f, v) PROVE InCall'
  BY <1>1 DEF Save
<1>2. CASE MkdirAll  BY <1>2 DEF MkdirAll
<1>3. CASE MkdirFails  BY <1>3 DEF MkdirFails
<1>4. CASE WriteFile  BY <1>4 DEF WriteFile
<1>5. CASE WriteFails  BY <1>5 DEF WriteFails
<1>6. CASE Sync  BY <1>6 DEF Sync
<1>7. CASE SyncFails  BY <1>7 DEF SyncFails
<1>8. CASE Rename  BY <1>8 DEF Rename
<1>9. CASE RenameFails  BY <1>9 DEF RenameFails
<1>10. CASE Load  BY <1>10 DEF Load
<1>11. CASE StartFresh  BY <1>11 DEF StartFresh
<1>12. CASE LoadSnapshot  BY <1>12 DEF LoadSnapshot
<1>13. CASE LoadSnapshotFails  BY <1>13 DEF LoadSnapshotFails
<1>14. CASE Crash  BY <1>14 DEF Crash
<1>15. CASE PowerLoss  BY <1>15 DEF PowerLoss
<1>16. CASE Settle  BY <1>16 DEF Settle
<1>17. CASE UNCHANGED vars  BY <1>17 DEF vars
<1> QED
  BY <1>1, <1>2, <1>3, <1>4, <1>5, <1>6, <1>7, <1>8, <1>9, <1>10, <1>11, <1>12,
     <1>13, <1>14, <1>15, <1>16, <1>17 DEF Next
LEMMA StepUntorn == IInv /\ [Next]_vars => Untorn'
<1> SUFFICES ASSUME IInv, [Next]_vars, NEW g \in File
             PROVE  (Torn \notin past[g] \cup {file[g], got[g]})'
  BY DEF Untorn, File
<1> USE ContentsAssumption
        DEF IInv, TypeOK, Untorn, Nothing, File, Goto, Answer, NoCall, Unwritten
<1>1. ASSUME NEW f \in File, NEW v \in Value, Save(f, v)
      PROVE  (Torn \notin past[g] \cup {file[g], got[g]})'
  BY <1>1 DEF Save
<1>2. CASE MkdirAll  BY <1>2 DEF MkdirAll
<1>3. CASE MkdirFails  BY <1>3 DEF MkdirFails
<1>4. CASE WriteFile  BY <1>4 DEF WriteFile
<1>5. CASE WriteFails  BY <1>5 DEF WriteFails
<1>6. CASE Sync  BY <1>6 DEF Sync
<1>7. CASE SyncFails  BY <1>7 DEF SyncFails
<1>8. CASE Rename  BY <1>8 DEF Rename, InCall
<1>9. CASE RenameFails  BY <1>9 DEF RenameFails
<1>10. CASE Load  BY <1>10 DEF Load
<1>11. CASE StartFresh  BY <1>11 DEF StartFresh
<1>12. CASE LoadSnapshot  BY <1>12 DEF LoadSnapshot
<1>13. CASE LoadSnapshotFails  BY <1>13 DEF LoadSnapshotFails
<1>14. CASE Crash  BY <1>14 DEF Crash
<1>15. CASE PowerLoss  BY <1>15 DEF PowerLoss
<1>16. CASE Settle  BY <1>16 DEF Settle
<1>17. CASE UNCHANGED vars  BY <1>17 DEF vars
<1> QED
  BY <1>1, <1>2, <1>3, <1>4, <1>5, <1>6, <1>7, <1>8, <1>9, <1>10, <1>11, <1>12,
     <1>13, <1>14, <1>15, <1>16, <1>17 DEF Next

LEMMA Invariance == Spec => []IInv
<1>1. IInv /\ [Next]_vars => IInv'
  BY StepTypeOK, StepInCall, StepUntorn DEF IInv
<1> QED
  BY <1>1, InitIInv, PTL DEF Spec

(* Whatever is saved, and whatever fails, no file that a node reads is     *)
(* torn: the sync in atomicWrite comes before the rename.                  *)
THEOREM NeverTorn == Spec => []Untorn
<1>1. IInv => Untorn
  BY DEF IInv
<1> QED
  BY <1>1, Invariance, PTL

-----------------------------------------------------------------------------
(* The refinement: only Rename changes a file, and it answers at once.     *)

LEMMA InitMaps == Init => Promise!Init
  BY DEF Init, Promise!Init, File, Nothing, Promise!File, Promise!Nothing

LEMMA StepMaps == IInv /\ [Next]_vars => [Promise!Next]_(Promise!vars)
<1> SUFFICES ASSUME IInv, [Next]_vars
             PROVE  [Promise!Next]_(Promise!vars)
  OBVIOUS
<1>0. Promise!File = File /\ Promise!Nothing = Nothing
  BY DEF File, Nothing, Promise!File, Promise!Nothing
<1> USE DEF Goto, Answer, NoCall, Unwritten
<1>1. ASSUME NEW f \in File, NEW v \in Value, Save(f, v)
      PROVE  UNCHANGED Promise!vars
  BY <1>1 DEF Save, Promise!vars
<1>2. CASE MkdirAll  BY <1>2 DEF MkdirAll, Promise!vars
<1>3. CASE MkdirFails
  BY <1>3 DEF MkdirFails, Promise!Next, Promise!SaveFails
<1>4. CASE WriteFile  BY <1>4 DEF WriteFile, Promise!vars
<1>5. CASE WriteFails
  BY <1>5 DEF WriteFails, Promise!Next, Promise!SaveFails
<1>6. CASE Sync  BY <1>6 DEF Sync, Promise!vars
<1>7. CASE SyncFails
  BY <1>7 DEF SyncFails, Promise!Next, Promise!SaveFails
<1>8. CASE Rename
  <2>1. tmp[target] = value /\ value \in Value /\ synced /\ target \in File
    BY <1>8 DEF Rename, IInv, InCall, TypeOK
  <2>2. Promise!Save(target, value)
    BY <1>8, <2>1 DEF Rename, Promise!Save
  <2> QED
    BY <1>0, <2>1, <2>2 DEF Promise!Next
<1>9. CASE RenameFails
  BY <1>9 DEF RenameFails, Promise!Next, Promise!SaveFails
<1>10. CASE Load
  BY <1>0, <1>10, ContentsAssumption DEF Load, Promise!Next, Promise!Load
<1>11. CASE StartFresh
  BY <1>0, <1>11 DEF StartFresh, Promise!Next, Promise!LoadNothing
<1>12. CASE LoadSnapshot
  BY <1>12 DEF LoadSnapshot, Promise!Next, Promise!LoadSnapshot
<1>13. CASE LoadSnapshotFails
  BY <1>13 DEF LoadSnapshotFails, Promise!Next, Promise!LoadSnapshot
<1>14. CASE Crash
  BY <1>0, <1>14 DEF Crash, Promise!Next, Promise!Crash
<1>15. CASE PowerLoss
  <2>1. file' \in [File -> UNION {past[f] \cup {file[f]} : f \in File}]
    BY <1>15 DEF PowerLoss
  <2>2. Promise!PowerLoss
    BY <1>0, <1>15, <2>1 DEF PowerLoss, Promise!PowerLoss
  <2> QED
    BY <2>2 DEF Promise!Next
<1>16. CASE Settle
  BY <1>0, <1>16 DEF Settle, Promise!Next, Promise!Settle
<1>17. CASE UNCHANGED vars  BY <1>17 DEF vars, Promise!vars
<1> QED
  BY <1>1, <1>2, <1>3, <1>4, <1>5, <1>6, <1>7, <1>8, <1>9, <1>10, <1>11, <1>12,
     <1>13, <1>14, <1>15, <1>16, <1>17 DEF Next

(* FilePersister implements Storage for every set of values: no sequence   *)
(* of calls, failures, crashes and power losses lets it be told from a     *)
(* persister whose saves are atomic.                                       *)
THEOREM Implementation == Spec => ActsAsStorage
  BY InitMaps, StepMaps, Invariance, PTL DEF Spec, ActsAsStorage, Promise!Spec
=============================================================================
