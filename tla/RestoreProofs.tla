---------------------------- MODULE RestoreProofs ----------------------------
(***************************************************************************)
(* Proofs about Restore, for every instance, every number of requests,     *)
(* restores and crashes and every choice of the steps that may fail.       *)
(***************************************************************************)
EXTENDS Restore, WellFoundedInduction, TLAPS

-----------------------------------------------------------------------------
(* Facts about directories and runs.                                       *)

\* A directory record is what TypeOK says a directory is.
LEMMA DirType ==
  ASSUME NEW S \in SUBSET Row
  PROVE  Dir(S) \in Dirs /\ Dir(S).blobs = S /\ Dir(S).exists = TRUE
BY DEF Dirs, Dir

LEMMA NoDirType == NoDir \in Dirs /\ NoDir.blobs = {} /\ NoDir.exists = FALSE
BY DEF Dirs, NoDir

LEMMA DirParts ==
  ASSUME NEW d \in Dirs
  PROVE  d.blobs \in SUBSET Row /\ d.exists \in BOOLEAN
BY DEF Dirs

\* Taking a blob out of a directory leaves a directory.
LEMMA DirMinus ==
  ASSUME NEW d \in Dirs, NEW b
  PROVE  [d EXCEPT !.blobs = @ \ {b}] \in Dirs
BY DEF Dirs

\* A run is a row, and 0 is the run that does not exist.
LEMMA RunRows == ASSUME NEW r \in Runs PROVE {r} \in SUBSET Row
BY DEF Row

LEMMA RunZero == 0 \in 0 .. MaxRestores /\ Runs \subseteq 0 .. MaxRestores /\ 0 \notin Runs
BY RestoreAssumption DEF RestoreAssumption, Runs


\* A non-empty set of naturals with a bound has a greatest element: its
\* distance from the bound is least.
LEMMA GreatestExists ==
  ASSUME NEW n \in Nat, NEW S \in SUBSET (1 .. n), S # {}
  PROVE  \E r \in S : \A q \in S : q <= r
<1> DEFINE Below == {ss \in Nat \X Nat : ss[1] < ss[2]}
           Distances == {n - r : r \in S}
<1>1. IsWellFoundedOn(Below, Nat)
  BY NatLessThanWellFounded DEF OpToRel
<1>2. Distances \subseteq Nat /\ Distances # {}
  <2>1. ASSUME NEW r \in S PROVE n - r \in Nat
    <3>1. r \in 1 .. n OBVIOUS
    <3> QED BY <3>1
  <2>2. Distances \subseteq Nat
    BY <2>1
  <2>3. PICK r \in S : TRUE
    OBVIOUS
  <2>4. n - r \in Distances
    BY <2>3
  <2> QED BY <2>2, <2>4
<1> HIDE DEF Below, Distances
<1>3. PICK d \in Distances : \A e \in Distances : <<e, d>> \notin Below
  BY <1>1, <1>2, WFMin
<1>4. \A e \in Distances : d <= e
  <2> TAKE e \in Distances
  <2>1. d \in Nat /\ e \in Nat BY <1>2
  <2>2. ~(e < d) BY <1>3, <2>1 DEF Below
  <2> QED BY <2>1, <2>2
<1>5. PICK r \in S : d = n - r
  BY DEF Distances
<1>6. ASSUME NEW q \in S PROVE q <= r
  <2>1. n - q \in Distances BY DEF Distances
  <2>2. n - r <= n - q BY <1>4, <1>5, <2>1
  <2> QED BY <2>2
<1> QED BY <1>6

\* A non-empty set of runs has a newest one.
LEMMA NewestType ==
  ASSUME NEW S \in SUBSET Runs, S # {}
  PROVE  Newest(S) \in S /\ \A q \in S : q <= Newest(S)
<1>1. PICK r \in S : \A q \in S : q <= r
  BY GreatestExists, RestoreAssumption DEF Runs, RestoreAssumption
<1>2. QED
  BY <1>1 DEF Newest

-----------------------------------------------------------------------------
(* Type correctness: one lemma for each part of TypeOK.                    *)

\* From the second half of the boot-time rollback on, the flag names a run.
LEMMA FlagNamesRun ==
  ASSUME TypeOK, FlagInv, rpc \in {"rbInsertParents", "rbInsertChildren", "rbDropSnapshot"}
  PROVE  flagSnap \in Runs
BY DEF TypeOK, EnvelopeOK, FlagInv, BootStates, Recorded

\* The tables and the directories keep to rows and runs.
LEMMA StoresType == ASSUME TypeOK, FlagInv, Next PROVE StoresOK'
<1> USE DEF TypeOK, StoresOK, EnvelopeOK, ControlOK
<1>1. ASSUME StartRestore PROVE StoresOK'
  BY <1>1 DEF StartRestore, db, blobs
<1>2. ASSUME ReadManifest PROVE StoresOK'
  BY <1>2 DEF ReadManifest, db, blobs
<1>3. ASSUME StageBundle PROVE StoresOK'
  BY <1>3 DEF StageBundle, db, blobs
<1>4. ASSUME EnterMaintenance PROVE StoresOK'
  BY <1>4 DEF EnterMaintenance, db, blobs
<1>5. ASSUME SnapshotParents PROVE StoresOK'
  BY <1>5 DEF SnapshotParents, db, blobs
<1>6. ASSUME SnapshotChildren PROVE StoresOK'
  BY <1>6 DEF SnapshotChildren, db, blobs
<1>7. ASSUME RecordSnapshot PROVE StoresOK'
  BY <1>7 DEF RecordSnapshot, db, blobs
<1>8. ASSUME BeginBlobSwap PROVE StoresOK'
  <2>1. run \in Runs
    BY <1>8 DEF BeginBlobSwap, RestoreStates
  <2>2. QED
    BY <1>8, <2>1, NoDirType DEF BeginBlobSwap, db, blobs
<1>9. ASSUME PromoteTransaction PROVE StoresOK'
  <2>1. run \in Runs
    BY <1>9 DEF PromoteTransaction, RestoreStates
  <2>2. QED
    BY <1>9, <2>1, RunRows DEF PromoteTransaction, db, blobs
<1>10. ASSUME FinishBlobSwap PROVE StoresOK'
  <2>1. run \in Runs
    BY <1>10 DEF FinishBlobSwap, RestoreStates
  <2>2. Dir({run}) \in Dirs
    BY <2>1, RunRows, DirType
  <2>3. upload' \in Dirs
    BY <1>10, <2>2 DEF FinishBlobSwap
  <2>4. QED
    BY <1>10, <2>3 DEF FinishBlobSwap, db
<1>11. ASSUME RollbackTransaction PROVE StoresOK'
  <2>1. run \in Runs
    BY <1>11 DEF RollbackTransaction, RestoreStates
  <2>2. QED
    BY <1>11, <2>1 DEF RollbackTransaction, db, blobs
<1>12. ASSUME UndoRemoveUpload PROVE StoresOK'
  BY <1>12, NoDirType DEF UndoRemoveUpload, db
<1>13. ASSUME UndoRenameAside PROVE StoresOK'
  <2>1. run \in Runs
    BY <1>13 DEF UndoRenameAside, RestoreStates
  <2>2. Dir(upload.blobs) \in Dirs
    BY DirParts, DirType
  <2>3. QED
    BY <1>13, <2>1, <2>2, NoDirType DEF UndoRenameAside, blobs, db
<1>14. ASSUME DropSnapshotRolledBack PROVE StoresOK'
  BY <1>14 DEF DropSnapshotRolledBack, db, blobs
<1>15. ASSUME DropSnapshot PROVE StoresOK'
  BY <1>15 DEF DropSnapshot, db, blobs
<1>16. ASSUME CommitBlobSwap PROVE StoresOK'
  BY <1>16, NoDirType DEF CommitBlobSwap, db
<1>17. ASSUME ExitMaintenance PROVE StoresOK'
  BY <1>17 DEF ExitMaintenance, db, blobs
<1>18. ASSUME CleanupStaging PROVE StoresOK'
  BY <1>18 DEF CleanupStaging, db, blobs
<1>19. ASSUME Crash PROVE StoresOK'
  BY <1>19 DEF Crash, db, blobs
<1>20. ASSUME Boot PROVE StoresOK'
  BY <1>20 DEF Boot, db, blobs
<1>21. ASSUME ReadFlag PROVE StoresOK'
  BY <1>21 DEF ReadFlag, db, blobs, BootKeeps
<1>22. ASSUME RollbackDeleteChildren PROVE StoresOK'
  BY <1>22 DEF RollbackDeleteChildren, blobs
<1>23. ASSUME RollbackDeleteParents PROVE StoresOK'
  BY <1>23 DEF RollbackDeleteParents, blobs
<1>24. ASSUME RollbackInsertParents PROVE StoresOK'
  <2>1. flagSnap \in Runs
    BY <1>24, FlagNamesRun DEF RollbackInsertParents
  <2>2. QED
    BY <1>24, <2>1 DEF RollbackInsertParents, blobs
<1>25. ASSUME RollbackInsertChildren PROVE StoresOK'
  <2>1. flagSnap \in Runs
    BY <1>25, FlagNamesRun DEF RollbackInsertChildren
  <2>2. QED
    BY <1>25, <2>1 DEF RollbackInsertChildren, blobs
<1>26. ASSUME RestoreBlobsRemoveUpload PROVE StoresOK'
  BY <1>26, NoDirType DEF RestoreBlobsRemoveUpload, db
<1>27. ASSUME RestoreBlobsRename PROVE StoresOK'
  <2>1. CASE UNCHANGED blobs
    BY <1>27, <2>1 DEF RestoreBlobsRename, db, blobs
  <2>2. CASE ~UNCHANGED blobs
    <3>1. Newest(AsideRuns) \in Runs
      BY <1>27, NewestType DEF RestoreBlobsRename, AsideRuns, FlagInv
    <3>2. /\ upload' = asides[Newest(AsideRuns)]
          /\ \E kept \in SUBSET Runs :
               asides' = [r \in Runs |-> IF r \in kept THEN asides[r] ELSE NoDir]
      BY <1>27, <2>2 DEF RestoreBlobsRename, blobs, AsideRuns
    <3>3. upload' \in Dirs /\ asides' \in [Runs -> Dirs]
      BY <3>1, <3>2, NoDirType
    <3>4. QED
      BY <1>27, <3>3 DEF RestoreBlobsRename, db
  <2>3. QED
    BY <2>1, <2>2
<1>28. ASSUME DropRecoveredSnapshot PROVE StoresOK'
  BY <1>28 DEF DropRecoveredSnapshot, db, blobs, BootKeeps
<1>29. ASSUME BootExitMaintenance PROVE StoresOK'
  BY <1>29 DEF BootExitMaintenance, db, blobs, BootKeeps
<1>30. ASSUME Sweep PROVE StoresOK'
  BY <1>30 DEF Sweep, db, blobs
<1>31. ASSUME NEW w \in Uploaders, AllowUpload(w) PROVE StoresOK'
  BY <1>31 DEF AllowUpload, db, blobs, StoreKeeps
<1>32. ASSUME NEW w \in Uploaders, SaveBlob(w) PROVE StoresOK'
  <2>1. upload.blobs \union {w} \in SUBSET Row
    BY DirParts DEF Row, Requests
  <2>2. QED
    BY <1>32, <2>1, DirType DEF SaveBlob, db
<1>33. ASSUME NEW w \in Uploaders, RecheckUpload(w) PROVE StoresOK'
  BY <1>33, DirMinus DEF RecheckUpload, DeleteBlob, db
<1>34. ASSUME NEW w \in Uploaders, CommitUpload(w) PROVE StoresOK'
  <2>1. w \in Row
    BY DEF Row, Requests
  <2>2. QED
    BY <1>34, <2>1, DirMinus DEF CommitUpload, DeleteBlob
<1>35. ASSUME NEW w \in Creators, CheckCreate(w) PROVE StoresOK'
  BY <1>35 DEF CheckCreate, db, blobs, StoreKeeps
<1>36. ASSUME NEW w \in Creators, CommitCreate(w) PROVE StoresOK'
  <2>1. w \in Row
    BY DEF Row, Requests
  <2>2. QED
    BY <1>36, <2>1 DEF CommitCreate, blobs
<1>37. QED
  BY <1>1, <1>2, <1>3, <1>4, <1>5, <1>6, <1>7, <1>8, <1>9, <1>10, <1>11,
     <1>12, <1>13, <1>14, <1>15, <1>16, <1>17, <1>18, <1>19, <1>20, <1>21,
     <1>22, <1>23, <1>24, <1>25, <1>26, <1>27, <1>28, <1>29, <1>30, <1>31,
     <1>32, <1>33, <1>34, <1>35, <1>36 DEF Next, Restoring, Recovering,
     Upload, Create

\* The flag, the schemas and the staging area keep to runs.
LEMMA EnvelopeType == ASSUME TypeOK, Next PROVE EnvelopeOK'
<1> USE DEF TypeOK, StoresOK, EnvelopeOK, ControlOK
<1>1. ASSUME StartRestore PROVE EnvelopeOK'
  <2>1. run' \in Runs
    BY <1>1, RestoreAssumption DEF StartRestore, RestoreAssumption, Runs
  <2>2. QED
    BY <1>1, <2>1 DEF StartRestore, flag, schemas
<1>2. ASSUME ReadManifest PROVE EnvelopeOK'
  BY <1>2 DEF ReadManifest, flag, schemas
<1>3. ASSUME StageBundle PROVE EnvelopeOK'
  BY <1>3 DEF StageBundle, flag, schemas
<1>4. ASSUME EnterMaintenance PROVE EnvelopeOK'
  <2>1. CASE flagActive' = TRUE /\ flagSnap' = 0
    BY <1>4, <2>1, RunZero DEF EnterMaintenance, schemas
  <2>2. CASE UNCHANGED flag
    BY <1>4, <2>2 DEF EnterMaintenance, schemas, flag
  <2>3. QED
    BY <1>4, <2>1, <2>2 DEF EnterMaintenance
<1>5. ASSUME SnapshotParents PROVE EnvelopeOK'
  <2>1. run \in Runs
    BY <1>5 DEF SnapshotParents, RestoreStates
  <2>2. QED
    BY <1>5, <2>1 DEF SnapshotParents, flag
<1>6. ASSUME SnapshotChildren PROVE EnvelopeOK'
  <2>1. run \in Runs
    BY <1>6 DEF SnapshotChildren, RestoreStates
  <2>2. QED
    BY <1>6, <2>1 DEF SnapshotChildren, flag
<1>7. ASSUME RecordSnapshot PROVE EnvelopeOK'
  <2>1. run \in Runs
    BY <1>7 DEF RecordSnapshot, RestoreStates
  <2>2. QED
    BY <1>7, <2>1, RunZero DEF RecordSnapshot, schemas
<1>8. ASSUME BeginBlobSwap PROVE EnvelopeOK'
  BY <1>8 DEF BeginBlobSwap, flag, schemas
<1>9. ASSUME PromoteTransaction PROVE EnvelopeOK'
  BY <1>9 DEF PromoteTransaction, flag, schemas
<1>10. ASSUME FinishBlobSwap PROVE EnvelopeOK'
  BY <1>10 DEF FinishBlobSwap, flag, schemas
<1>11. ASSUME RollbackTransaction PROVE EnvelopeOK'
  BY <1>11 DEF RollbackTransaction, flag, schemas
<1>12. ASSUME UndoRemoveUpload PROVE EnvelopeOK'
  BY <1>12 DEF UndoRemoveUpload, flag, schemas
<1>13. ASSUME UndoRenameAside PROVE EnvelopeOK'
  BY <1>13 DEF UndoRenameAside, flag, schemas
<1>14. ASSUME DropSnapshotRolledBack PROVE EnvelopeOK'
  <2>1. run \in Runs
    BY <1>14 DEF DropSnapshotRolledBack, RestoreStates
  <2>2. QED
    BY <1>14, <2>1 DEF DropSnapshotRolledBack, DropSchema, flag, schemas
<1>15. ASSUME DropSnapshot PROVE EnvelopeOK'
  <2>1. run \in Runs
    BY <1>15 DEF DropSnapshot, RestoreStates
  <2>2. QED
    BY <1>15, <2>1 DEF DropSnapshot, DropSchema, flag, schemas
<1>16. ASSUME CommitBlobSwap PROVE EnvelopeOK'
  BY <1>16 DEF CommitBlobSwap, flag, schemas
<1>17. ASSUME ExitMaintenance PROVE EnvelopeOK'
  BY <1>17, RunZero DEF ExitMaintenance, ClearFlag, flag, schemas
<1>18. ASSUME CleanupStaging PROVE EnvelopeOK'
  BY <1>18 DEF CleanupStaging, flag, schemas
<1>19. ASSUME Crash PROVE EnvelopeOK'
  BY <1>19 DEF Crash, flag, schemas
<1>20. ASSUME Boot PROVE EnvelopeOK'
  BY <1>20 DEF Boot, flag, schemas
<1>21. ASSUME ReadFlag PROVE EnvelopeOK'
  BY <1>21 DEF ReadFlag, flag, schemas, BootKeeps
<1>22. ASSUME RollbackDeleteChildren PROVE EnvelopeOK'
  BY <1>22 DEF RollbackDeleteChildren, flag, schemas, BootKeeps
<1>23. ASSUME RollbackDeleteParents PROVE EnvelopeOK'
  BY <1>23 DEF RollbackDeleteParents, flag, schemas, BootKeeps
<1>24. ASSUME RollbackInsertParents PROVE EnvelopeOK'
  BY <1>24 DEF RollbackInsertParents, flag, schemas, BootKeeps
<1>25. ASSUME RollbackInsertChildren PROVE EnvelopeOK'
  BY <1>25 DEF RollbackInsertChildren, flag, schemas, BootKeeps
<1>26. ASSUME RestoreBlobsRemoveUpload PROVE EnvelopeOK'
  BY <1>26 DEF RestoreBlobsRemoveUpload, flag, schemas, BootKeeps
<1>27. ASSUME RestoreBlobsRename PROVE EnvelopeOK'
  BY <1>27 DEF RestoreBlobsRename, flag, schemas, BootKeeps
<1>28. ASSUME DropRecoveredSnapshot PROVE EnvelopeOK'
  BY <1>28 DEF DropRecoveredSnapshot, DropSchema, flag, schemas, BootKeeps
<1>29. ASSUME BootExitMaintenance PROVE EnvelopeOK'
  BY <1>29, RunZero DEF BootExitMaintenance, ClearFlag, flag, schemas, BootKeeps
<1>30. ASSUME Sweep PROVE EnvelopeOK'
  <2>1. PICK kept \in SUBSET snaps :
          /\ snaps' = kept
          /\ snapParent' = [r \in Runs |-> IF r \in kept THEN snapParent[r] ELSE {}]
          /\ snapChild' = [r \in Runs |-> IF r \in kept THEN snapChild[r] ELSE {}]
    BY <1>30 DEF Sweep
  <2>2. QED
    BY <1>30, <2>1 DEF Sweep, flag
<1>31. ASSUME NEW w \in Uploaders, AllowUpload(w) PROVE EnvelopeOK'
  BY <1>31 DEF AllowUpload, flag, schemas, StoreKeeps
<1>32. ASSUME NEW w \in Uploaders, SaveBlob(w) PROVE EnvelopeOK'
  BY <1>32 DEF SaveBlob, flag, schemas, StoreKeeps
<1>33. ASSUME NEW w \in Uploaders, RecheckUpload(w) PROVE EnvelopeOK'
  BY <1>33 DEF RecheckUpload, flag, schemas, StoreKeeps
<1>34. ASSUME NEW w \in Uploaders, CommitUpload(w) PROVE EnvelopeOK'
  BY <1>34 DEF CommitUpload, flag, schemas, StoreKeeps
<1>35. ASSUME NEW w \in Creators, CheckCreate(w) PROVE EnvelopeOK'
  BY <1>35 DEF CheckCreate, flag, schemas, StoreKeeps
<1>36. ASSUME NEW w \in Creators, CommitCreate(w) PROVE EnvelopeOK'
  BY <1>36 DEF CommitCreate, flag, schemas, StoreKeeps
<1>37. QED
  BY <1>1, <1>2, <1>3, <1>4, <1>5, <1>6, <1>7, <1>8, <1>9, <1>10, <1>11,
     <1>12, <1>13, <1>14, <1>15, <1>16, <1>17, <1>18, <1>19, <1>20, <1>21,
     <1>22, <1>23, <1>24, <1>25, <1>26, <1>27, <1>28, <1>29, <1>30, <1>31,
     <1>32, <1>33, <1>34, <1>35, <1>36 DEF Next, Restoring, Recovering,
     Upload, Create

\* Where the restore and the requests are.
LEMMA ControlType == ASSUME TypeOK, Next PROVE ControlOK'
<1> USE DEF TypeOK, ControlOK, RestoreStates, BootStates, Outcomes
<1>1. ASSUME StartRestore PROVE ControlOK'
  <2>1. run' \in Runs
    BY <1>1, RestoreAssumption DEF StartRestore, RestoreAssumption, Runs
  <2>2. QED
    BY <1>1, <2>1, RunZero DEF StartRestore, Goto
<1>2. ASSUME ReadManifest PROVE ControlOK'
  BY <1>2 DEF ReadManifest, Goto, locals, blobs
<1>3. ASSUME StageBundle PROVE ControlOK'
  BY <1>3 DEF StageBundle, Goto, locals, blobs
<1>4. ASSUME EnterMaintenance PROVE ControlOK'
  BY <1>4 DEF EnterMaintenance, Goto, locals, blobs
<1>5. ASSUME SnapshotParents PROVE ControlOK'
  BY <1>5 DEF SnapshotParents, Goto, locals, blobs, Abandon
<1>6. ASSUME SnapshotChildren PROVE ControlOK'
  BY <1>6 DEF SnapshotChildren, Goto, locals, blobs, Abandon
<1>7. ASSUME RecordSnapshot PROVE ControlOK'
  BY <1>7 DEF RecordSnapshot, Goto, locals, blobs, Abandon
<1>8. ASSUME BeginBlobSwap PROVE ControlOK'
  <2>1. upload.exists \in BOOLEAN
    BY DirParts DEF StoresOK
  <2>2. QED
    BY <1>8, <2>1 DEF BeginBlobSwap, Goto, Abandon
<1>9. ASSUME PromoteTransaction PROVE ControlOK'
  BY <1>9 DEF PromoteTransaction, Goto, locals, blobs
<1>10. ASSUME FinishBlobSwap PROVE ControlOK'
  BY <1>10 DEF FinishBlobSwap, Goto, locals, blobs
<1>11. ASSUME RollbackTransaction PROVE ControlOK'
  BY <1>11 DEF RollbackTransaction, Goto, locals, blobs, GiveUp
<1>12. ASSUME UndoRemoveUpload PROVE ControlOK'
  BY <1>12 DEF UndoRemoveUpload, Goto, locals, GiveUp
<1>13. ASSUME UndoRenameAside PROVE ControlOK'
  BY <1>13 DEF UndoRenameAside, Goto, locals, blobs, GiveUp
<1>14. ASSUME DropSnapshotRolledBack PROVE ControlOK'
  BY <1>14 DEF DropSnapshotRolledBack, Goto, locals, blobs
<1>15. ASSUME DropSnapshot PROVE ControlOK'
  BY <1>15 DEF DropSnapshot, Goto, locals, blobs, Abandon
<1>16. ASSUME CommitBlobSwap PROVE ControlOK'
  BY <1>16 DEF CommitBlobSwap, Goto, locals
<1>17. ASSUME ExitMaintenance PROVE ControlOK'
  BY <1>17 DEF ExitMaintenance, Goto, locals, blobs
<1>18. ASSUME CleanupStaging PROVE ControlOK'
  BY <1>18 DEF CleanupStaging, Goto, blobs
<1>19. ASSUME Crash PROVE ControlOK'
  <2>1. crashes' \in 0 .. MaxCrashes
    BY <1>19, RestoreAssumption DEF Crash, RestoreAssumption
  <2>2. wpc' \in [Requests -> {"idle", "allowed", "saved", "checked", "done", "refused", "lost"}]
    BY <1>19 DEF Crash
  <2>3. QED
    BY <1>19, <2>1, <2>2 DEF Crash, Goto
<1>20. ASSUME Boot PROVE ControlOK'
  BY <1>20 DEF Boot, Goto, locals, blobs
<1>21. ASSUME ReadFlag PROVE ControlOK'
  BY <1>21 DEF ReadFlag, Goto, locals, blobs, BootKeeps, RecoveryFails
<1>22. ASSUME RollbackDeleteChildren PROVE ControlOK'
  BY <1>22 DEF RollbackDeleteChildren, Goto, locals, blobs, BootKeeps, RecoveryFails
<1>23. ASSUME RollbackDeleteParents PROVE ControlOK'
  BY <1>23 DEF RollbackDeleteParents, Goto, locals, blobs, BootKeeps, RecoveryFails
<1>24. ASSUME RollbackInsertParents PROVE ControlOK'
  BY <1>24 DEF RollbackInsertParents, Goto, locals, blobs, BootKeeps, RecoveryFails
<1>25. ASSUME RollbackInsertChildren PROVE ControlOK'
  BY <1>25 DEF RollbackInsertChildren, Goto, locals, blobs, BootKeeps, RecoveryFails
<1>26. ASSUME RestoreBlobsRemoveUpload PROVE ControlOK'
  BY <1>26 DEF RestoreBlobsRemoveUpload, Goto, locals, BootKeeps, RecoveryFails
<1>27. ASSUME RestoreBlobsRename PROVE ControlOK'
  BY <1>27 DEF RestoreBlobsRename, Goto, locals, blobs, BootKeeps, RecoveryFails
<1>28. ASSUME DropRecoveredSnapshot PROVE ControlOK'
  BY <1>28 DEF DropRecoveredSnapshot, Goto, locals, blobs, BootKeeps, RecoveryFails
<1>29. ASSUME BootExitMaintenance PROVE ControlOK'
  BY <1>29 DEF BootExitMaintenance, Goto, locals, blobs, BootKeeps
<1>30. ASSUME Sweep PROVE ControlOK'
  BY <1>30 DEF Sweep, Goto, locals, blobs
<1>31. ASSUME NEW w \in Uploaders, AllowUpload(w) PROVE ControlOK'
  BY <1>31 DEF AllowUpload, locals, blobs, StoreKeeps, Step, Requests
<1>32. ASSUME NEW w \in Uploaders, SaveBlob(w) PROVE ControlOK'
  BY <1>32 DEF SaveBlob, locals, blobs, StoreKeeps, Step, Requests
<1>33. ASSUME NEW w \in Uploaders, RecheckUpload(w) PROVE ControlOK'
  BY <1>33 DEF RecheckUpload, locals, StoreKeeps, Step, Requests
<1>34. ASSUME NEW w \in Uploaders, CommitUpload(w) PROVE ControlOK'
  BY <1>34 DEF CommitUpload, locals, StoreKeeps, Step, Requests
<1>35. ASSUME NEW w \in Creators, CheckCreate(w) PROVE ControlOK'
  BY <1>35 DEF CheckCreate, locals, blobs, StoreKeeps, Step, Requests
<1>36. ASSUME NEW w \in Creators, CommitCreate(w) PROVE ControlOK'
  BY <1>36 DEF CommitCreate, locals, blobs, StoreKeeps, Step, Requests
<1>37. QED
  BY <1>1, <1>2, <1>3, <1>4, <1>5, <1>6, <1>7, <1>8, <1>9, <1>10, <1>11,
     <1>12, <1>13, <1>14, <1>15, <1>16, <1>17, <1>18, <1>19, <1>20, <1>21,
     <1>22, <1>23, <1>24, <1>25, <1>26, <1>27, <1>28, <1>29, <1>30, <1>31,
     <1>32, <1>33, <1>34, <1>35, <1>36 DEF Next, Restoring, Recovering,
     Upload, Create

\* The history variables.
LEMMA HistoryType == ASSUME TypeOK, Next PROVE HistoryOK'
<1> USE DEF TypeOK, HistoryOK
<1>1. ASSUME StartRestore PROVE HistoryOK'
  BY <1>1 DEF StartRestore
<1>2. ASSUME ReadManifest PROVE HistoryOK'
  BY <1>2 DEF ReadManifest, history
<1>3. ASSUME StageBundle PROVE HistoryOK'
  BY <1>3 DEF StageBundle, history
<1>4. ASSUME EnterMaintenance PROVE HistoryOK'
  BY <1>4 DEF EnterMaintenance, InFlight, StoresOK
<1>5. ASSUME SnapshotParents PROVE HistoryOK'
  BY <1>5 DEF SnapshotParents, history
<1>6. ASSUME SnapshotChildren PROVE HistoryOK'
  BY <1>6 DEF SnapshotChildren, history
<1>7. ASSUME RecordSnapshot PROVE HistoryOK'
  BY <1>7 DEF RecordSnapshot, history
<1>8. ASSUME BeginBlobSwap PROVE HistoryOK'
  BY <1>8 DEF BeginBlobSwap, history
<1>9. ASSUME PromoteTransaction PROVE HistoryOK'
  BY <1>9 DEF PromoteTransaction, history
<1>10. ASSUME FinishBlobSwap PROVE HistoryOK'
  BY <1>10 DEF FinishBlobSwap, history
<1>11. ASSUME RollbackTransaction PROVE HistoryOK'
  BY <1>11 DEF RollbackTransaction, history
<1>12. ASSUME UndoRemoveUpload PROVE HistoryOK'
  BY <1>12 DEF UndoRemoveUpload, history
<1>13. ASSUME UndoRenameAside PROVE HistoryOK'
  BY <1>13 DEF UndoRenameAside, history
<1>14. ASSUME DropSnapshotRolledBack PROVE HistoryOK'
  BY <1>14 DEF DropSnapshotRolledBack, history
<1>15. ASSUME DropSnapshot PROVE HistoryOK'
  BY <1>15 DEF DropSnapshot, history
<1>16. ASSUME CommitBlobSwap PROVE HistoryOK'
  BY <1>16 DEF CommitBlobSwap, history
<1>17. ASSUME ExitMaintenance PROVE HistoryOK'
  BY <1>17 DEF ExitMaintenance, history
<1>18. ASSUME CleanupStaging PROVE HistoryOK'
  BY <1>18 DEF CleanupStaging, history
<1>19. ASSUME Crash PROVE HistoryOK'
  BY <1>19 DEF Crash, history
<1>20. ASSUME Boot PROVE HistoryOK'
  BY <1>20 DEF Boot, history
<1>21. ASSUME ReadFlag PROVE HistoryOK'
  BY <1>21 DEF ReadFlag, history, BootKeeps
<1>22. ASSUME RollbackDeleteChildren PROVE HistoryOK'
  BY <1>22 DEF RollbackDeleteChildren, history, BootKeeps
<1>23. ASSUME RollbackDeleteParents PROVE HistoryOK'
  BY <1>23 DEF RollbackDeleteParents, history, BootKeeps
<1>24. ASSUME RollbackInsertParents PROVE HistoryOK'
  BY <1>24 DEF RollbackInsertParents, history, BootKeeps
<1>25. ASSUME RollbackInsertChildren PROVE HistoryOK'
  BY <1>25 DEF RollbackInsertChildren, history, BootKeeps
<1>26. ASSUME RestoreBlobsRemoveUpload PROVE HistoryOK'
  BY <1>26 DEF RestoreBlobsRemoveUpload, history, BootKeeps
<1>27. ASSUME RestoreBlobsRename PROVE HistoryOK'
  BY <1>27 DEF RestoreBlobsRename, history, BootKeeps
<1>28. ASSUME DropRecoveredSnapshot PROVE HistoryOK'
  BY <1>28 DEF DropRecoveredSnapshot, history, BootKeeps
<1>29. ASSUME BootExitMaintenance PROVE HistoryOK'
  BY <1>29 DEF BootExitMaintenance, history, BootKeeps
<1>30. ASSUME Sweep PROVE HistoryOK'
  BY <1>30 DEF Sweep, history
<1>31. ASSUME NEW w \in Uploaders, AllowUpload(w) PROVE HistoryOK'
  BY <1>31 DEF AllowUpload, history, StoreKeeps
<1>32. ASSUME NEW w \in Uploaders, SaveBlob(w) PROVE HistoryOK'
  BY <1>32 DEF SaveBlob, history, StoreKeeps
<1>33. ASSUME NEW w \in Uploaders, RecheckUpload(w) PROVE HistoryOK'
  BY <1>33 DEF RecheckUpload, history, StoreKeeps
<1>34. ASSUME NEW w \in Uploaders, CommitUpload(w) PROVE HistoryOK'
  BY <1>34 DEF CommitUpload, history, StoreKeeps
<1>35. ASSUME NEW w \in Creators, CheckCreate(w) PROVE HistoryOK'
  BY <1>35 DEF CheckCreate, history, StoreKeeps
<1>36. ASSUME NEW w \in Creators, CommitCreate(w) PROVE HistoryOK'
  BY <1>36 DEF CommitCreate, history, StoreKeeps
<1>37. QED
  BY <1>1, <1>2, <1>3, <1>4, <1>5, <1>6, <1>7, <1>8, <1>9, <1>10, <1>11,
     <1>12, <1>13, <1>14, <1>15, <1>16, <1>17, <1>18, <1>19, <1>20, <1>21,
     <1>22, <1>23, <1>24, <1>25, <1>26, <1>27, <1>28, <1>29, <1>30, <1>31,
     <1>32, <1>33, <1>34, <1>35, <1>36 DEF Next, Restoring, Recovering,
     Upload, Create

LEMMA TypeInit == Init => TypeOK
<1> SUFFICES ASSUME Init PROVE TypeOK
  OBVIOUS
<1>1. StoresOK
  <2>1. Dir(Base) \in Dirs
    BY DirType DEF Row
  <2>2. QED
    BY <2>1, NoDirType DEF Init, StoresOK, Row
<1>2. EnvelopeOK
  BY RunZero DEF Init, EnvelopeOK
<1>3. ControlOK
  <2>1. 0 \in 0 .. MaxCrashes
    BY RestoreAssumption DEF RestoreAssumption
  <2>2. QED
    BY <2>1, RunZero DEF Init, ControlOK, RestoreStates, Outcomes
<1>4. HistoryOK
  BY DEF Init, HistoryOK, Row
<1>5. QED
  BY <1>1, <1>2, <1>3, <1>4 DEF TypeOK

LEMMA TypeStep == TypeOK /\ FlagInv /\ [Next]_vars => TypeOK'
<1> SUFFICES ASSUME TypeOK, FlagInv, [Next]_vars PROVE TypeOK'
  OBVIOUS
<1>1. CASE Next
  BY <1>1, StoresType, EnvelopeType, ControlType, HistoryType DEF TypeOK
<1>2. CASE UNCHANGED vars
  BY <1>2 DEF vars, db, blobs, flag, schemas, locals, history, TypeOK, StoresOK,
     EnvelopeOK, ControlOK, HistoryOK
<1>3. QED
  BY <1>1, <1>2


-----------------------------------------------------------------------------
(* The flag, the recorded snapshot and the result.                         *)

LEMMA FlagInit == Init => FlagInv
BY DEF Init, FlagInv, StuckKeepsSnapshot, Window, Swapped, BootStates, RestoreStates

\* Each action keeps the flag and the recorded snapshot what the place of the
\* restore, or of the boot, says they are.
LEMMA FlagStep == ASSUME TypeOK, FlagInv, Next PROVE FlagInv'
<1> USE DEF FlagInv, StuckKeepsSnapshot, Recorded, Window, Swapped, BootStates,
        RestoreStates, AsideRuns
<1>1. ASSUME StartRestore PROVE FlagInv'
  BY <1>1 DEF StartRestore, Goto, locals, flag, schemas, blobs
<1>2. ASSUME ReadManifest PROVE FlagInv'
  BY <1>2 DEF ReadManifest, Goto, locals, flag, schemas, blobs
<1>3. ASSUME StageBundle PROVE FlagInv'
  BY <1>3 DEF StageBundle, Goto, locals, flag, schemas, blobs
<1>4. ASSUME EnterMaintenance PROVE FlagInv'
  BY <1>4 DEF EnterMaintenance, Goto, locals, flag, schemas, blobs
<1>5. ASSUME SnapshotParents PROVE FlagInv'
  BY <1>5 DEF SnapshotParents, Goto, locals, flag, blobs, Abandon
<1>6. ASSUME SnapshotChildren PROVE FlagInv'
  BY <1>6 DEF SnapshotChildren, Goto, locals, flag, blobs, Abandon
<1>7. ASSUME RecordSnapshot PROVE FlagInv'
  BY <1>7 DEF RecordSnapshot, Goto, locals, schemas, blobs, Abandon
<1>8. ASSUME BeginBlobSwap PROVE FlagInv'
  BY <1>8 DEF BeginBlobSwap, Goto, locals, flag, schemas, blobs, Abandon
<1>9. ASSUME PromoteTransaction PROVE FlagInv'
  BY <1>9 DEF PromoteTransaction, Goto, locals, flag, schemas, blobs
<1>10. ASSUME FinishBlobSwap PROVE FlagInv'
  BY <1>10 DEF FinishBlobSwap, Goto, locals, flag, schemas, blobs
<1>11. ASSUME RollbackTransaction PROVE FlagInv'
  BY <1>11 DEF RollbackTransaction, Goto, locals, flag, schemas, blobs, GiveUp
<1>12. ASSUME UndoRemoveUpload PROVE FlagInv'
  BY <1>12 DEF UndoRemoveUpload, Goto, locals, flag, schemas, GiveUp
<1>13. ASSUME UndoRenameAside PROVE FlagInv'
  BY <1>13 DEF UndoRenameAside, Goto, locals, flag, schemas, blobs, GiveUp
<1>14. ASSUME DropSnapshotRolledBack PROVE FlagInv'
  BY <1>14 DEF DropSnapshotRolledBack, Goto, locals, flag, schemas, blobs, DropSchema
<1>15. ASSUME DropSnapshot PROVE FlagInv'
  BY <1>15 DEF DropSnapshot, Goto, locals, flag, schemas, blobs, Abandon, DropSchema
<1>16. ASSUME CommitBlobSwap PROVE FlagInv'
  BY <1>16 DEF CommitBlobSwap, Goto, locals, flag, schemas
<1>17. ASSUME ExitMaintenance PROVE FlagInv'
  BY <1>17 DEF ExitMaintenance, Goto, locals, flag, schemas, blobs, ClearFlag
<1>18. ASSUME CleanupStaging PROVE FlagInv'
  BY <1>18 DEF CleanupStaging, Goto, locals, flag, schemas, blobs
<1>19. ASSUME Crash PROVE FlagInv'
  BY <1>19 DEF Crash, Goto, locals, flag, schemas, blobs
<1>20. ASSUME Boot PROVE FlagInv'
  BY <1>20 DEF Boot, Goto, locals, flag, schemas, blobs
<1>21. ASSUME ReadFlag PROVE FlagInv'
  BY <1>21 DEF ReadFlag, Goto, locals, flag, schemas, blobs, BootKeeps, RecoveryFails
<1>22. ASSUME RollbackDeleteChildren PROVE FlagInv'
  BY <1>22 DEF RollbackDeleteChildren, Goto, locals, flag, schemas, blobs, BootKeeps,
     RecoveryFails
<1>23. ASSUME RollbackDeleteParents PROVE FlagInv'
  BY <1>23 DEF RollbackDeleteParents, Goto, locals, flag, schemas, blobs, BootKeeps,
     RecoveryFails
<1>24. ASSUME RollbackInsertParents PROVE FlagInv'
  BY <1>24 DEF RollbackInsertParents, Goto, locals, flag, schemas, blobs, BootKeeps,
     RecoveryFails
<1>25. ASSUME RollbackInsertChildren PROVE FlagInv'
  BY <1>25 DEF RollbackInsertChildren, Goto, locals, flag, schemas, blobs, BootKeeps,
     RecoveryFails
<1>26. ASSUME RestoreBlobsRemoveUpload PROVE FlagInv'
  BY <1>26 DEF RestoreBlobsRemoveUpload, Goto, locals, flag, schemas, BootKeeps,
     RecoveryFails
<1>27. ASSUME RestoreBlobsRename PROVE FlagInv'
  BY <1>27 DEF RestoreBlobsRename, Goto, locals, flag, schemas, blobs, BootKeeps,
     RecoveryFails
<1>28. ASSUME DropRecoveredSnapshot PROVE FlagInv'
  BY <1>28 DEF DropRecoveredSnapshot, Goto, locals, flag, schemas, blobs, DropSchema,
     BootKeeps, RecoveryFails
<1>29. ASSUME BootExitMaintenance PROVE FlagInv'
  BY <1>29 DEF BootExitMaintenance, Goto, locals, flag, schemas, blobs, ClearFlag,
     BootKeeps
<1>30. ASSUME Sweep PROVE FlagInv'
  BY <1>30 DEF Sweep, Goto, locals, flag, blobs
<1>31. ASSUME NEW w \in Uploaders, AllowUpload(w) PROVE FlagInv'
  BY <1>31 DEF AllowUpload, locals, flag, schemas, blobs, StoreKeeps
<1>32. ASSUME NEW w \in Uploaders, SaveBlob(w) PROVE FlagInv'
  BY <1>32 DEF SaveBlob, locals, flag, schemas, blobs, StoreKeeps
<1>33. ASSUME NEW w \in Uploaders, RecheckUpload(w) PROVE FlagInv'
  BY <1>33 DEF RecheckUpload, locals, flag, schemas, StoreKeeps
<1>34. ASSUME NEW w \in Uploaders, CommitUpload(w) PROVE FlagInv'
  BY <1>34 DEF CommitUpload, locals, flag, schemas, StoreKeeps
<1>35. ASSUME NEW w \in Creators, CheckCreate(w) PROVE FlagInv'
  BY <1>35 DEF CheckCreate, locals, flag, schemas, blobs, StoreKeeps
<1>36. ASSUME NEW w \in Creators, CommitCreate(w) PROVE FlagInv'
  BY <1>36 DEF CommitCreate, locals, flag, schemas, blobs, StoreKeeps
<1>37. QED
  BY <1>1, <1>2, <1>3, <1>4, <1>5, <1>6, <1>7, <1>8, <1>9, <1>10, <1>11,
     <1>12, <1>13, <1>14, <1>15, <1>16, <1>17, <1>18, <1>19, <1>20, <1>21,
     <1>22, <1>23, <1>24, <1>25, <1>26, <1>27, <1>28, <1>29, <1>30, <1>31,
     <1>32, <1>33, <1>34, <1>35, <1>36 DEF Next, Restoring, Recovering,
     Upload, Create

LEMMA TypeFlagStep == TypeOK /\ FlagInv /\ [Next]_vars => (TypeOK /\ FlagInv)'
<1> SUFFICES ASSUME TypeOK, FlagInv, [Next]_vars PROVE (TypeOK /\ FlagInv)'
  OBVIOUS
<1>1. CASE Next
  BY <1>1, TypeStep, FlagStep
<1>2. CASE UNCHANGED vars
  BY <1>2, TypeStep DEF vars, blobs, flag, schemas, locals, FlagInv, StuckKeepsSnapshot,
     Recorded, AsideRuns
<1>3. QED
  BY <1>1, <1>2

\* Every variable keeps to its values, in every run of the whole system.
THEOREM TypeCorrect == Spec => []TypeOK
<1>1. TypeOK /\ FlagInv /\ [Next]_vars => (TypeOK /\ FlagInv)'
  BY TypeFlagStep
<1>2. QED
  BY <1>1, TypeInit, FlagInit, PTL DEF Spec

\* A restore whose undoing failed leaves the flag up over the snapshot the next
\* boot goes back to.
THEOREM StuckRestoreKeepsSnapshot == Spec => []StuckKeepsSnapshot
<1>1. FlagInv => StuckKeepsSnapshot
  BY DEF FlagInv
<1>2. TypeOK /\ FlagInv /\ [Next]_vars => (TypeOK /\ FlagInv)'
  BY TypeFlagStep
<1>3. QED
  BY <1>1, <1>2, TypeInit, FlagInit, PTL DEF Spec

-----------------------------------------------------------------------------
(* The requests.                                                           *)

\* A request is no run, so what a restore brings is never taken for its row.
LEMMA RequestIsNoRun == \A w \in Requests : \A r \in Runs : w # r
BY RestoreAssumption DEF RestoreAssumption

LEMMA RequestInit == Init => RequestInv
<1> SUFFICES ASSUME Init, NEW q \in Requests PROVE RequestOK(q)
  BY DEF RequestInv
<1>1. q \notin Base
  BY RestoreAssumption DEF RestoreAssumption
<1>2. QED
  BY <1>1 DEF Init, RequestOK, InFlight, Serving, BootStates

\* What a request has done, whatever the others and the restore do meanwhile.
LEMMA RequestStep ==
  ASSUME TypeOK, FlagInv, RequestInv, Next
  PROVE  RequestInv'
<1> SUFFICES ASSUME NEW q \in Requests PROVE RequestOK(q)'
  BY DEF RequestInv
<1> USE DEF TypeOK, StoresOK, EnvelopeOK, ControlOK, RequestOK, InFlight, Serving, BootStates,
        RestoreStates
<1>a. RequestOK(q)
  BY DEF RequestInv
<1>1. ASSUME StartRestore PROVE RequestOK(q)'
  BY <1>a, <1>1 DEF StartRestore, flag, schemas, blobs, db, Goto
<1>2. ASSUME ReadManifest PROVE RequestOK(q)'
  BY <1>a, <1>2 DEF ReadManifest, flag, schemas, blobs, db, history, Goto
<1>3. ASSUME StageBundle PROVE RequestOK(q)'
  BY <1>a, <1>3 DEF StageBundle, flag, schemas, blobs, db, history, Goto
<1>4. ASSUME EnterMaintenance PROVE RequestOK(q)'
  BY <1>a, <1>4 DEF EnterMaintenance, flag, schemas, blobs, db, Goto
<1>5. ASSUME SnapshotParents PROVE RequestOK(q)'
  BY <1>a, <1>5 DEF SnapshotParents, flag, blobs, db, history, Abandon, Goto
<1>6. ASSUME SnapshotChildren PROVE RequestOK(q)'
  BY <1>a, <1>6 DEF SnapshotChildren, flag, blobs, db, history, Abandon, Goto
<1>7. ASSUME RecordSnapshot PROVE RequestOK(q)'
  BY <1>a, <1>7 DEF RecordSnapshot, schemas, blobs, db, history, Abandon, Goto
<1>8. ASSUME BeginBlobSwap PROVE RequestOK(q)'
  <2>1. flagActive
    BY <1>8 DEF BeginBlobSwap, FlagInv, Window
  <2>2. QED
    BY <1>a, <1>8, <2>1 DEF BeginBlobSwap, flag, schemas, blobs, db, history, Goto,
       Abandon
<1>9. ASSUME PromoteTransaction PROVE RequestOK(q)'
  BY <1>a, <1>9, RequestIsNoRun DEF PromoteTransaction, flag, schemas, blobs, db, history,
     Goto
<1>10. ASSUME FinishBlobSwap PROVE RequestOK(q)'
  BY <1>a, <1>10 DEF FinishBlobSwap, flag, schemas, blobs, db, history, Goto
<1>11. ASSUME RollbackTransaction PROVE RequestOK(q)'
  BY <1>a, <1>11 DEF RollbackTransaction, flag, schemas, blobs, db, history, GiveUp, Goto
<1>12. ASSUME UndoRemoveUpload PROVE RequestOK(q)'
  <2>1. flagActive
    BY <1>12 DEF UndoRemoveUpload, FlagInv, Window
  <2>2. QED
    BY <1>a, <1>12, <2>1 DEF UndoRemoveUpload, flag, schemas, db, history, Goto, GiveUp
<1>13. ASSUME UndoRenameAside PROVE RequestOK(q)'
  <2>1. flagActive
    BY <1>13 DEF UndoRenameAside, FlagInv, Window
  <2>2. QED
    BY <1>a, <1>13, <2>1 DEF UndoRenameAside, flag, schemas, blobs, db, history, Goto,
       GiveUp
<1>14. ASSUME DropSnapshotRolledBack PROVE RequestOK(q)'
  BY <1>a, <1>14 DEF DropSnapshotRolledBack, flag, schemas, blobs, db, history, Goto,
     DropSchema
<1>15. ASSUME DropSnapshot PROVE RequestOK(q)'
  BY <1>a, <1>15 DEF DropSnapshot, flag, schemas, blobs, db, history, Abandon, Goto,
     DropSchema
<1>16. ASSUME CommitBlobSwap PROVE RequestOK(q)'
  BY <1>a, <1>16 DEF CommitBlobSwap, flag, schemas, db, history, Goto
<1>17. ASSUME ExitMaintenance PROVE RequestOK(q)'
  BY <1>a, <1>17 DEF ExitMaintenance, flag, schemas, blobs, db, history, Goto, ClearFlag
<1>18. ASSUME CleanupStaging PROVE RequestOK(q)'
  BY <1>a, <1>18 DEF CleanupStaging, flag, schemas, blobs, db, history, Goto
<1>19. ASSUME Crash PROVE RequestOK(q)'
  BY <1>a, <1>19 DEF Crash, flag, schemas, blobs, db, history, Goto
<1>20. ASSUME Boot PROVE RequestOK(q)'
  BY <1>a, <1>20 DEF Boot, flag, schemas, blobs, db, history, Goto
<1>21. ASSUME ReadFlag PROVE RequestOK(q)'
  BY <1>a, <1>21 DEF ReadFlag, flag, schemas, blobs, db, history, BootKeeps,
     RecoveryFails, Goto
<1>22. ASSUME RollbackDeleteChildren PROVE RequestOK(q)'
  BY <1>a, <1>22 DEF RollbackDeleteChildren, flag, schemas, blobs, history, BootKeeps,
     RecoveryFails, Goto
<1>23. ASSUME RollbackDeleteParents PROVE RequestOK(q)'
  BY <1>a, <1>23 DEF RollbackDeleteParents, flag, schemas, blobs, history, BootKeeps,
     RecoveryFails, Goto
<1>24. ASSUME RollbackInsertParents PROVE RequestOK(q)'
  BY <1>a, <1>24 DEF RollbackInsertParents, flag, schemas, blobs, history, BootKeeps,
     RecoveryFails, Goto
<1>25. ASSUME RollbackInsertChildren PROVE RequestOK(q)'
  <2>1. flagSnap \in Runs
    BY <1>25, FlagNamesRun DEF RollbackInsertChildren
  <2>2. QED
    BY <1>a, <1>25, <2>1 DEF RollbackInsertChildren, flag, schemas, blobs, history,
       BootKeeps, RecoveryFails, Goto
<1>26. ASSUME RestoreBlobsRemoveUpload PROVE RequestOK(q)'
  BY <1>a, <1>26 DEF RestoreBlobsRemoveUpload, flag, schemas, db, history, BootKeeps,
     RecoveryFails, Goto
<1>27. ASSUME RestoreBlobsRename PROVE RequestOK(q)'
  BY <1>a, <1>27 DEF RestoreBlobsRename, flag, schemas, blobs, db, history, BootKeeps,
     RecoveryFails, Goto
<1>28. ASSUME DropRecoveredSnapshot PROVE RequestOK(q)'
  BY <1>a, <1>28 DEF DropRecoveredSnapshot, flag, schemas, blobs, db, history, BootKeeps,
     RecoveryFails, Goto, DropSchema
<1>29. ASSUME BootExitMaintenance PROVE RequestOK(q)'
  BY <1>a, <1>29 DEF BootExitMaintenance, flag, schemas, blobs, db, history, BootKeeps,
     Goto, ClearFlag
<1>30. ASSUME Sweep PROVE RequestOK(q)'
  BY <1>a, <1>30 DEF Sweep, flag, blobs, db, history, Goto
<1>31. ASSUME NEW w \in Uploaders, AllowUpload(w) PROVE RequestOK(q)'
  BY <1>a, <1>31 DEF AllowUpload, flag, schemas, blobs, db, history, StoreKeeps, Step
<1>32. ASSUME NEW w \in Uploaders, SaveBlob(w) PROVE RequestOK(q)'
  BY <1>a, <1>32 DEF SaveBlob, flag, schemas, blobs, db, history, StoreKeeps, Step, Dir
<1>33. ASSUME NEW w \in Uploaders, RecheckUpload(w) PROVE RequestOK(q)'
  BY <1>a, <1>33 DEF RecheckUpload, flag, schemas, blobs, db, history, StoreKeeps, Step,
     DeleteBlob
<1>34. ASSUME NEW w \in Uploaders, CommitUpload(w) PROVE RequestOK(q)'
  <2>1. w # q => /\ wpc'[q] = wpc[q]
                 /\ q \in dbChild' => q \in dbChild
                 /\ q \in upload.blobs => q \in upload'.blobs
    BY <1>34 DEF CommitUpload, Step, DeleteBlob, Dirs
  <2>2. UNCHANGED <<flagActive, snapChild, raced, rpc>>
    BY <1>34 DEF CommitUpload, StoreKeeps, flag, schemas, history
  <2>3. CASE w # q
    BY <1>a, <2>1, <2>2, <2>3
  <2>4. CASE w = q
    <3>1. wpc[q] = "checked" /\ wpc'[q] \in {"done", "refused"}
      BY <1>34, <2>4 DEF CommitUpload, Step
    <3>2. wpc'[q] # "done" => dbChild' = dbChild
      BY <1>34, <2>4 DEF CommitUpload, Step
    <3>3. QED
      BY <1>a, <2>2, <3>1, <3>2
  <2>5. QED
    BY <2>3, <2>4
<1>35. ASSUME NEW w \in Creators, CheckCreate(w) PROVE RequestOK(q)'
  <2>1. w \notin Uploaders
    BY RestoreAssumption DEF RestoreAssumption
  <2>2. QED
    BY <1>a, <1>35, <2>1 DEF CheckCreate, flag, schemas, blobs, db, history, StoreKeeps,
       Step
<1>36. ASSUME NEW w \in Creators, CommitCreate(w) PROVE RequestOK(q)'
  BY <1>a, <1>36 DEF CommitCreate, flag, schemas, blobs, history, StoreKeeps, Step
<1>37. QED
  BY <1>1, <1>2, <1>3, <1>4, <1>5, <1>6, <1>7, <1>8, <1>9, <1>10, <1>11,
     <1>12, <1>13, <1>14, <1>15, <1>16, <1>17, <1>18, <1>19, <1>20, <1>21,
     <1>22, <1>23, <1>24, <1>25, <1>26, <1>27, <1>28, <1>29, <1>30, <1>31,
     <1>32, <1>33, <1>34, <1>35, <1>36 DEF Next, Restoring, Recovering,
     Upload, Create

-----------------------------------------------------------------------------
(* The stores, while no restore began over what an earlier one left.       *)

\* AlwaysRecoverable, with the newest directory moved aside named.
Recoverable ==
  /\ ~Recorded => Needs(dbChild) \subseteq upload.blobs
  /\ Recorded /\ AsideRuns = {} => Needs(snapChild[flagSnap]) \subseteq upload.blobs
  /\ Recorded /\ AsideRuns # {} => Needs(snapChild[flagSnap]) \subseteq asides[flagSnap].blobs

\* The directory moved aside is the one of the recorded run.
LEMMA OnlyAside ==
  ASSUME TypeOK, AsidesInv, Recorded, AsideRuns # {}
  PROVE  /\ AsideRuns = {flagSnap}
         /\ Newest(AsideRuns) = flagSnap
         /\ flagSnap \in Runs
<1>1. AsideRuns = {flagSnap}
  BY DEF AsidesInv
<1>2. Newest(AsideRuns) \in AsideRuns /\ AsideRuns \subseteq Runs
  BY NewestType DEF AsideRuns
<1>3. QED
  BY <1>1, <1>2

LEMMA RecoverableMeaning ==
  ASSUME TypeOK, AsidesInv
  PROVE  Recoverable <=> Backed(RecoverableChildren, RecoverableBlobs)
BY OnlyAside DEF Recoverable, Backed, Needs, RecoverableChildren, RecoverableBlobs

\* The same, one step later.
LEMMA RecoverableMeaningNext ==
  ASSUME TypeOK', AsidesInv'
  PROVE  Recoverable' <=> Backed(RecoverableChildren, RecoverableBlobs)'
<1>1. AsideRuns' # {} /\ Recorded' => Newest(AsideRuns)' = flagSnap'
  <2>1. SUFFICES ASSUME AsideRuns' # {}, Recorded' PROVE Newest(AsideRuns') = flagSnap'
    BY DEF Newest
  <2>2. AsideRuns' = {flagSnap'}
    BY <2>1 DEF AsidesInv
  <2>3. Newest(AsideRuns') \in AsideRuns' /\ AsideRuns' \subseteq Runs
    BY <2>1, NewestType DEF AsideRuns
  <2>4. QED
    BY <2>2, <2>3
<1>2. QED
  BY <1>1 DEF Recoverable, Backed, Needs, RecoverableChildren, RecoverableBlobs

LEMMA AsidesStep ==
  ASSUME TypeOK, FlagInv, RequestInv, AsidesInv, NeedsInv, Recoverable, Next, ~tainted',
         "flagRead" \notin Faults
  PROVE  AsidesInv'
<1> USE DEF TypeOK, StoresOK, EnvelopeOK, ControlOK, FlagInv, AsidesInv, Recorded, AsideRuns,
        Window, Swapped, BootStates, RestoreStates, Dirs, NoDir
<1>1. ASSUME StartRestore PROVE AsidesInv'
  BY <1>1 DEF StartRestore, flag, schemas, blobs, db, locals, Goto
<1>2. ASSUME ReadManifest PROVE AsidesInv'
  BY <1>2 DEF ReadManifest, flag, schemas, blobs, db, locals, history, Goto
<1>3. ASSUME StageBundle PROVE AsidesInv'
  BY <1>3 DEF StageBundle, flag, schemas, blobs, db, locals, history, Goto
<1>4. ASSUME EnterMaintenance PROVE AsidesInv'
  BY <1>4 DEF EnterMaintenance, flag, schemas, blobs, db, locals, Goto
<1>5. ASSUME SnapshotParents PROVE AsidesInv'
  BY <1>5 DEF SnapshotParents, flag, blobs, db, locals, history, Goto, Abandon
<1>6. ASSUME SnapshotChildren PROVE AsidesInv'
  BY <1>6 DEF SnapshotChildren, flag, blobs, db, locals, history, Goto, Abandon
<1>7. ASSUME RecordSnapshot PROVE AsidesInv'
  BY <1>7 DEF RecordSnapshot, schemas, blobs, db, locals, history, Goto, Abandon
<1>8. ASSUME BeginBlobSwap PROVE AsidesInv'
  BY <1>8 DEF BeginBlobSwap, flag, schemas, blobs, db, locals, history, Goto, Abandon
<1>9. ASSUME PromoteTransaction PROVE AsidesInv'
  BY <1>9 DEF PromoteTransaction, flag, schemas, blobs, db, locals, history, Goto
<1>10. ASSUME FinishBlobSwap PROVE AsidesInv'
  BY <1>10 DEF FinishBlobSwap, flag, schemas, blobs, db, locals, history, Goto
<1>11. ASSUME RollbackTransaction PROVE AsidesInv'
  BY <1>11 DEF RollbackTransaction, flag, schemas, blobs, db, locals, history, Goto,
     GiveUp
<1>12. ASSUME UndoRemoveUpload PROVE AsidesInv'
  BY <1>12 DEF UndoRemoveUpload, flag, schemas, db, locals, history, Goto, GiveUp
<1>13. ASSUME UndoRenameAside PROVE AsidesInv'
  BY <1>13 DEF UndoRenameAside, flag, schemas, blobs, db, locals, history, Goto, GiveUp
<1>14. ASSUME DropSnapshotRolledBack PROVE AsidesInv'
  BY <1>14 DEF DropSnapshotRolledBack, flag, schemas, blobs, db, locals, history, Goto,
     DropSchema
<1>15. ASSUME DropSnapshot PROVE AsidesInv'
  BY <1>15 DEF DropSnapshot, flag, schemas, blobs, db, locals, history, Goto, Abandon,
     DropSchema
<1>16. ASSUME CommitBlobSwap PROVE AsidesInv'
  BY <1>16 DEF CommitBlobSwap, flag, schemas, db, locals, history, Goto
<1>17. ASSUME ExitMaintenance PROVE AsidesInv'
  BY <1>17 DEF ExitMaintenance, flag, schemas, blobs, db, locals, history, Goto, ClearFlag
<1>18. ASSUME CleanupStaging PROVE AsidesInv'
  BY <1>18 DEF CleanupStaging, flag, schemas, blobs, db, locals, history, Goto
<1>19. ASSUME Crash PROVE AsidesInv'
  BY <1>19 DEF Crash, flag, schemas, blobs, db, locals, history, Goto
<1>20. ASSUME Boot PROVE AsidesInv'
  BY <1>20 DEF Boot, flag, schemas, blobs, db, locals, history, Goto
<1>21. ASSUME ReadFlag PROVE AsidesInv'
  BY <1>21 DEF ReadFlag, Fails, flag, schemas, blobs, Goto, BootKeeps, RecoveryFails
<1>22. ASSUME RollbackDeleteChildren PROVE AsidesInv'
  BY <1>22 DEF RollbackDeleteChildren, flag, schemas, blobs, locals, history, Goto,
     BootKeeps, RecoveryFails
<1>23. ASSUME RollbackDeleteParents PROVE AsidesInv'
  BY <1>23 DEF RollbackDeleteParents, flag, schemas, blobs, locals, history, Goto,
     BootKeeps, RecoveryFails
<1>24. ASSUME RollbackInsertParents PROVE AsidesInv'
  BY <1>24 DEF RollbackInsertParents, flag, schemas, blobs, locals, history, Goto,
     BootKeeps, RecoveryFails
<1>25. ASSUME RollbackInsertChildren PROVE AsidesInv'
  BY <1>25 DEF RollbackInsertChildren, flag, schemas, blobs, locals, history, Goto,
     BootKeeps, RecoveryFails
<1>26. ASSUME RestoreBlobsRemoveUpload PROVE AsidesInv'
  BY <1>26 DEF RestoreBlobsRemoveUpload, flag, schemas, db, locals, history, Goto,
     BootKeeps, RecoveryFails
<1>27. ASSUME RestoreBlobsRename PROVE AsidesInv'
  <2>1. CASE rpc' = "sweep"
    BY <1>27, <2>1 DEF RestoreBlobsRename, flag, schemas, blobs, locals, Goto, BootKeeps,
       RecoveryFails
  <2>2. CASE rpc' = "rbDropSnapshot"
    <3>1. AsideRuns' = {}
      BY <1>27, <2>2, OnlyAside DEF RestoreBlobsRename, RecoveryFails, Goto
    <3>2. QED
      BY <1>27, <2>2, <3>1 DEF RestoreBlobsRename, flag, schemas, BootKeeps
  <2>3. QED
    BY <1>27, <2>1, <2>2 DEF RestoreBlobsRename, Goto, RecoveryFails
<1>28. ASSUME DropRecoveredSnapshot PROVE AsidesInv'
  BY <1>28 DEF DropRecoveredSnapshot, flag, schemas, blobs, db, locals, history, Goto,
     BootKeeps, RecoveryFails, DropSchema
<1>29. ASSUME BootExitMaintenance PROVE AsidesInv'
  BY <1>29 DEF BootExitMaintenance, flag, schemas, blobs, db, locals, history, Goto,
     BootKeeps, ClearFlag
<1>30. ASSUME Sweep PROVE AsidesInv'
  BY <1>30 DEF Sweep, flag, blobs, db, locals, history, Goto
<1>31. ASSUME NEW w \in Uploaders, AllowUpload(w) PROVE AsidesInv'
  BY <1>31 DEF AllowUpload, flag, schemas, blobs, db, locals, history, StoreKeeps
<1>32. ASSUME NEW w \in Uploaders, SaveBlob(w) PROVE AsidesInv'
  BY <1>32 DEF SaveBlob, flag, schemas, blobs, db, locals, history, StoreKeeps
<1>33. ASSUME NEW w \in Uploaders, RecheckUpload(w) PROVE AsidesInv'
  BY <1>33 DEF RecheckUpload, flag, schemas, db, locals, history, StoreKeeps
<1>34. ASSUME NEW w \in Uploaders, CommitUpload(w) PROVE AsidesInv'
  BY <1>34 DEF CommitUpload, flag, schemas, locals, history, StoreKeeps
<1>35. ASSUME NEW w \in Creators, CheckCreate(w) PROVE AsidesInv'
  BY <1>35 DEF CheckCreate, flag, schemas, blobs, db, locals, history, StoreKeeps
<1>36. ASSUME NEW w \in Creators, CommitCreate(w) PROVE AsidesInv'
  BY <1>36 DEF CommitCreate, flag, schemas, blobs, locals, history, StoreKeeps
<1>37. QED
  BY <1>1, <1>2, <1>3, <1>4, <1>5, <1>6, <1>7, <1>8, <1>9, <1>10, <1>11,
     <1>12, <1>13, <1>14, <1>15, <1>16, <1>17, <1>18, <1>19, <1>20, <1>21,
     <1>22, <1>23, <1>24, <1>25, <1>26, <1>27, <1>28, <1>29, <1>30, <1>31,
     <1>32, <1>33, <1>34, <1>35, <1>36 DEF Next, Restoring, Recovering,
     Upload, Create

LEMMA NeedsStep ==
  ASSUME TypeOK, FlagInv, RequestInv, AsidesInv, NeedsInv, Recoverable, Next, ~tainted',
         "flagRead" \notin Faults
  PROVE  NeedsInv'
<1> USE DEF TypeOK, StoresOK, EnvelopeOK, ControlOK, FlagInv, AsidesInv, NeedsInv, Recoverable,
        Recorded, AsideRuns, Window, Swapped, BootStates, RestoreStates, Needs
<1>1. ASSUME StartRestore PROVE NeedsInv'
  BY <1>1 DEF StartRestore, flag, schemas, blobs, db, locals, Goto
<1>2. ASSUME ReadManifest PROVE NeedsInv'
  BY <1>2 DEF ReadManifest, flag, schemas, blobs, db, locals, history, Goto
<1>3. ASSUME StageBundle PROVE NeedsInv'
  BY <1>3 DEF StageBundle, flag, schemas, blobs, db, locals, history, Goto
<1>4. ASSUME EnterMaintenance PROVE NeedsInv'
  BY <1>4, RunZero DEF EnterMaintenance, flag, schemas, blobs, db, locals, Goto
<1>5. ASSUME SnapshotParents PROVE NeedsInv'
  BY <1>5, RunZero DEF SnapshotParents, flag, blobs, db, locals, history, Goto, Abandon
<1>6. ASSUME SnapshotChildren PROVE NeedsInv'
  BY <1>6, RunZero DEF SnapshotChildren, flag, blobs, db, locals, history, Goto, Abandon
<1>7. ASSUME RecordSnapshot PROVE NeedsInv'
  BY <1>7 DEF RecordSnapshot, schemas, blobs, db, locals, history, Goto, Abandon
<1>8. ASSUME BeginBlobSwap PROVE NeedsInv'
  <2>1. ~upload.exists => upload.blobs = {}
    BY DEF Dirs
  <2>2. /\ flagActive /\ flagSnap = run /\ run \in snaps /\ run \in Runs /\ AsideRuns = {}
        /\ Needs(snapChild[run]) \subseteq upload.blobs
    BY <1>8 DEF BeginBlobSwap
  <2>3. CASE rpc' = "exit"
    BY <1>8, <2>2, <2>3 DEF BeginBlobSwap, Abandon, Goto, flag, schemas, blobs, db,
       history
  <2>4. CASE rpc' = "promoteTx"
    <3>1. /\ UNCHANGED <<db, flag, schemas, run, history>>
          /\ hadExisting' = upload.exists /\ upload' = NoDir
          /\ asides' = IF upload.exists THEN [asides EXCEPT ![run] = upload] ELSE asides
      BY <1>8, <2>4 DEF BeginBlobSwap, Abandon, Goto
    <3>2. ~hadExisting' => Needs(snapChild[run]) = {}
      BY <2>1, <2>2, <3>1
    <3>3. QED
      BY <1>8, <2>4, <3>1, <3>2 DEF BeginBlobSwap, db, flag, schemas, history
  <2>5. QED
    BY <1>8, <2>3, <2>4 DEF BeginBlobSwap, Abandon, Goto
<1>9. ASSUME PromoteTransaction PROVE NeedsInv'
  BY <1>9 DEF PromoteTransaction, flag, schemas, blobs, db, locals, history, Goto
<1>10. ASSUME FinishBlobSwap PROVE NeedsInv'
  BY <1>10 DEF Dir, FinishBlobSwap, flag, schemas, blobs, db, locals, history, Goto
<1>11. ASSUME RollbackTransaction PROVE NeedsInv'
  BY <1>11 DEF RollbackTransaction, flag, schemas, blobs, db, locals, history, Goto,
     GiveUp
<1>12. ASSUME UndoRemoveUpload PROVE NeedsInv'
  BY <1>12 DEF UndoRemoveUpload, flag, schemas, db, locals, history, Goto, GiveUp
<1>13. ASSUME UndoRenameAside PROVE NeedsInv'
  BY <1>13 DEF UndoRenameAside, flag, schemas, blobs, db, locals, history, Goto, GiveUp
<1>14. ASSUME DropSnapshotRolledBack PROVE NeedsInv'
  BY <1>14 DEF DropSnapshotRolledBack, flag, schemas, blobs, db, locals, history, Goto,
     DropSchema
<1>15. ASSUME DropSnapshot PROVE NeedsInv'
  BY <1>15 DEF DropSnapshot, flag, schemas, blobs, db, locals, history, Goto, Abandon,
     DropSchema
<1>16. ASSUME CommitBlobSwap PROVE NeedsInv'
  BY <1>16 DEF CommitBlobSwap, flag, schemas, db, locals, history, Goto
<1>17. ASSUME ExitMaintenance PROVE NeedsInv'
  BY <1>17 DEF ExitMaintenance, flag, schemas, blobs, db, locals, history, Goto, ClearFlag
<1>18. ASSUME CleanupStaging PROVE NeedsInv'
  BY <1>18 DEF CleanupStaging, flag, schemas, blobs, db, locals, history, Goto
<1>19. ASSUME Crash PROVE NeedsInv'
  BY <1>19 DEF Crash, flag, schemas, blobs, db, locals, history, Goto
<1>20. ASSUME Boot PROVE NeedsInv'
  BY <1>20 DEF Boot, flag, schemas, blobs, db, locals, history, Goto
<1>21. ASSUME ReadFlag PROVE NeedsInv'
  BY <1>21 DEF ReadFlag, flag, schemas, blobs, db, locals, history, Goto, BootKeeps,
     RecoveryFails
<1>22. ASSUME RollbackDeleteChildren PROVE NeedsInv'
  BY <1>22 DEF RollbackDeleteChildren, flag, schemas, blobs, locals, history, Goto,
     BootKeeps, RecoveryFails
<1>23. ASSUME RollbackDeleteParents PROVE NeedsInv'
  BY <1>23 DEF RollbackDeleteParents, flag, schemas, blobs, locals, history, Goto,
     BootKeeps, RecoveryFails
<1>24. ASSUME RollbackInsertParents PROVE NeedsInv'
  BY <1>24 DEF RollbackInsertParents, flag, schemas, blobs, locals, history, Goto,
     BootKeeps, RecoveryFails
<1>25. ASSUME RollbackInsertChildren PROVE NeedsInv'
  BY <1>25 DEF RollbackInsertChildren, flag, schemas, blobs, locals, history, Goto,
     BootKeeps, RecoveryFails
<1>26. ASSUME RestoreBlobsRemoveUpload PROVE NeedsInv'
  BY <1>26 DEF RestoreBlobsRemoveUpload, flag, schemas, db, locals, history, Goto,
     BootKeeps, RecoveryFails
<1>27. ASSUME RestoreBlobsRename PROVE NeedsInv'
  BY <1>27 DEF RestoreBlobsRename, flag, schemas, blobs, db, locals, history, Goto,
     BootKeeps, RecoveryFails
<1>28. ASSUME DropRecoveredSnapshot PROVE NeedsInv'
  BY <1>28 DEF DropRecoveredSnapshot, flag, schemas, blobs, db, locals, history, Goto,
     BootKeeps, RecoveryFails, DropSchema
<1>29. ASSUME BootExitMaintenance PROVE NeedsInv'
  BY <1>29 DEF BootExitMaintenance, flag, schemas, blobs, db, locals, history, Goto,
     BootKeeps, ClearFlag
<1>30. ASSUME Sweep PROVE NeedsInv'
  BY <1>30 DEF Sweep, flag, blobs, db, locals, history, Goto
<1>31. ASSUME NEW w \in Uploaders, AllowUpload(w) PROVE NeedsInv'
  <2>1. RequestOK(w)
    BY DEF RequestInv, Requests
  <2>2. \A r \in Runs : w # r
    BY RequestIsNoRun DEF Requests
  <2>3. QED
    BY <1>31, <2>1, <2>2 DEF AllowUpload, flag, schemas, blobs, db, locals, history,
       StoreKeeps, RequestOK, Step, InFlight, Dirs, Dir
<1>32. ASSUME NEW w \in Uploaders, SaveBlob(w) PROVE NeedsInv'
  <2>1. RequestOK(w)
    BY DEF RequestInv, Requests
  <2>2. \A r \in Runs : w # r
    BY RequestIsNoRun DEF Requests
  <2>3. QED
    BY <1>32, <2>1, <2>2 DEF Dir, SaveBlob, flag, schemas, blobs, db, locals, history,
       StoreKeeps, RequestOK, Step, InFlight, Dirs, Dir
<1>33. ASSUME NEW w \in Uploaders, RecheckUpload(w) PROVE NeedsInv'
  <2>1. RequestOK(w)
    BY DEF RequestInv, Requests
  <2>2. \A r \in Runs : w # r
    BY RequestIsNoRun DEF Requests
  <2>3. QED
    BY <1>33, <2>1, <2>2 DEF RecheckUpload, flag, schemas, blobs, db, locals, history,
       StoreKeeps, RequestOK, Step, InFlight, DeleteBlob, Dirs, Dir
<1>34. ASSUME NEW w \in Uploaders, CommitUpload(w) PROVE NeedsInv'
  <2>1. RequestOK(w) /\ wpc[w] = "checked" /\ Serving
    BY <1>34 DEF RequestInv, Requests, CommitUpload, Step
  <2>2. \A r \in Runs : w # r
    BY RequestIsNoRun DEF Requests
  <2>3. UNCHANGED <<rpc, flagActive, flagSnap, snaps, snapChild, run, hadExisting, raced, asides>>
    BY <1>34 DEF CommitUpload, StoreKeeps, flag, schemas, locals, history
  <2>4. w \notin raced => ~flagActive
    BY <2>1 DEF RequestOK, InFlight, Requests
  <2>5. CASE w \in raced
    <3>1. Needs(dbChild') = Needs(dbChild) /\ upload'.blobs \subseteq upload.blobs
      BY <1>34, <2>5 DEF CommitUpload, DeleteBlob, Dirs
    <3>2. upload.blobs \ {w} \subseteq upload'.blobs
      BY <1>34 DEF CommitUpload, DeleteBlob, Dirs
    <3>3. rpc = "dropSnapshot" => run # w
      BY <2>2
    <3>4. QED
      BY <2>3, <2>5, <3>1, <3>2, <3>3
  <2>6. CASE w \notin raced
    BY <2>1, <2>3, <2>4, <2>6 DEF Serving
  <2>7. QED
    BY <2>5, <2>6
<1>35. ASSUME NEW w \in Creators, CheckCreate(w) PROVE NeedsInv'
  BY <1>35 DEF CheckCreate, flag, schemas, blobs, db, locals, history, StoreKeeps
<1>36. ASSUME NEW w \in Creators, CommitCreate(w) PROVE NeedsInv'
  BY <1>36 DEF CommitCreate, flag, schemas, blobs, locals, history, StoreKeeps
<1>37. QED
  BY <1>1, <1>2, <1>3, <1>4, <1>5, <1>6, <1>7, <1>8, <1>9, <1>10, <1>11,
     <1>12, <1>13, <1>14, <1>15, <1>16, <1>17, <1>18, <1>19, <1>20, <1>21,
     <1>22, <1>23, <1>24, <1>25, <1>26, <1>27, <1>28, <1>29, <1>30, <1>31,
     <1>32, <1>33, <1>34, <1>35, <1>36 DEF Next, Restoring, Recovering,
     Upload, Create

LEMMA RecoverableStep ==
  ASSUME TypeOK, FlagInv, RequestInv, AsidesInv, NeedsInv, Recoverable, Next, ~tainted',
         "flagRead" \notin Faults
  PROVE  Recoverable'
<1> USE DEF TypeOK, StoresOK, EnvelopeOK, ControlOK, FlagInv, AsidesInv, NeedsInv, Recoverable,
        Recorded, AsideRuns, Window, Swapped, BootStates, RestoreStates, Needs
<1>1. ASSUME StartRestore PROVE Recoverable'
  BY <1>1 DEF StartRestore, flag, schemas, blobs, db, locals, Goto
<1>2. ASSUME ReadManifest PROVE Recoverable'
  BY <1>2 DEF ReadManifest, flag, schemas, blobs, db, locals, history, Goto
<1>3. ASSUME StageBundle PROVE Recoverable'
  BY <1>3 DEF StageBundle, flag, schemas, blobs, db, locals, history, Goto
<1>4. ASSUME EnterMaintenance PROVE Recoverable'
  BY <1>4, RunZero DEF EnterMaintenance, flag, schemas, blobs, db, locals, Goto
<1>5. ASSUME SnapshotParents PROVE Recoverable'
  BY <1>5, RunZero DEF SnapshotParents, flag, blobs, db, locals, history, Goto, Abandon
<1>6. ASSUME SnapshotChildren PROVE Recoverable'
  BY <1>6, RunZero DEF SnapshotChildren, flag, blobs, db, locals, history, Goto, Abandon
<1>7. ASSUME RecordSnapshot PROVE Recoverable'
  BY <1>7 DEF RecordSnapshot, schemas, blobs, db, locals, history, Goto, Abandon
<1>8. ASSUME BeginBlobSwap PROVE Recoverable'
  <2>1. ~upload.exists => upload.blobs = {}
    BY DEF Dirs
  <2>2. /\ flagActive /\ flagSnap = run /\ run \in snaps /\ run \in Runs /\ AsideRuns = {}
        /\ Needs(snapChild[run]) \subseteq upload.blobs
    BY <1>8 DEF BeginBlobSwap
  <2>3. CASE rpc' = "exit"
    BY <1>8, <2>2, <2>3 DEF BeginBlobSwap, Abandon, Goto, flag, schemas, blobs, db,
       history
  <2>4. CASE rpc' = "promoteTx"
    <3>1. /\ UNCHANGED <<db, flag, schemas, run, history>>
          /\ hadExisting' = upload.exists /\ upload' = NoDir
          /\ asides' = IF upload.exists THEN [asides EXCEPT ![run] = upload] ELSE asides
      BY <1>8, <2>4 DEF BeginBlobSwap, Abandon, Goto
    <3>2. /\ upload.exists => AsideRuns' = {run} /\ asides'[run] = upload
          /\ ~upload.exists => AsideRuns' = {}
      BY <2>2, <3>1
    <3>3. QED
      BY <2>1, <2>2, <3>1, <3>2 DEF db, flag, schemas, history
  <2>5. QED
    BY <1>8, <2>3, <2>4 DEF BeginBlobSwap, Abandon, Goto
<1>9. ASSUME PromoteTransaction PROVE Recoverable'
  BY <1>9 DEF PromoteTransaction, flag, schemas, blobs, db, locals, history, Goto
<1>10. ASSUME FinishBlobSwap PROVE Recoverable'
  BY <1>10 DEF Dir, FinishBlobSwap, flag, schemas, blobs, db, locals, history, Goto
<1>11. ASSUME RollbackTransaction PROVE Recoverable'
  BY <1>11 DEF RollbackTransaction, flag, schemas, blobs, db, locals, history, Goto,
     GiveUp
<1>12. ASSUME UndoRemoveUpload PROVE Recoverable'
  BY <1>12 DEF UndoRemoveUpload, flag, schemas, db, locals, history, Goto, GiveUp
<1>13. ASSUME UndoRenameAside PROVE Recoverable'
  <2>1. Recorded /\ Recorded' /\ flagSnap = run /\ flagSnap' = run /\ run \in Runs
    BY <1>13 DEF UndoRenameAside, flag, schemas
  <2>2. UNCHANGED <<snapChild, raced>>
    BY <1>13 DEF UndoRenameAside, schemas, history
  <2>3. CASE upload' = asides[run] /\ asides' = [asides EXCEPT ![run] = NoDir] /\ hadExisting
    <3>1. Needs(snapChild[run]) \subseteq upload'.blobs
      BY <1>13, <2>1, <2>3 DEF UndoRenameAside
    <3>2. AsideRuns' = {}
      BY <2>1, <2>3 DEF NoDir
    <3>3. QED
      BY <2>1, <2>2, <3>1, <3>2
  <2>4. CASE upload' = Dir(upload.blobs) /\ UNCHANGED asides
    BY <2>1, <2>2, <2>4 DEF Dir
  <2>5. CASE UNCHANGED blobs
    BY <2>1, <2>2, <2>5 DEF blobs
  <2>6. QED
    BY <1>13, <2>3, <2>4, <2>5 DEF UndoRenameAside
<1>14. ASSUME DropSnapshotRolledBack PROVE Recoverable'
  BY <1>14 DEF DropSnapshotRolledBack, flag, schemas, blobs, db, locals, history, Goto,
     DropSchema
<1>15. ASSUME DropSnapshot PROVE Recoverable'
  BY <1>15 DEF DropSnapshot, flag, schemas, blobs, db, locals, history, Goto, Abandon,
     DropSchema
<1>16. ASSUME CommitBlobSwap PROVE Recoverable'
  BY <1>16 DEF CommitBlobSwap, flag, schemas, db, locals, history, Goto
<1>17. ASSUME ExitMaintenance PROVE Recoverable'
  BY <1>17 DEF ExitMaintenance, flag, schemas, blobs, db, locals, history, Goto, ClearFlag
<1>18. ASSUME CleanupStaging PROVE Recoverable'
  BY <1>18 DEF CleanupStaging, flag, schemas, blobs, db, locals, history, Goto
<1>19. ASSUME Crash PROVE Recoverable'
  BY <1>19 DEF Crash, flag, schemas, blobs, db, locals, history, Goto
<1>20. ASSUME Boot PROVE Recoverable'
  BY <1>20 DEF Boot, flag, schemas, blobs, db, locals, history, Goto
<1>21. ASSUME ReadFlag PROVE Recoverable'
  BY <1>21 DEF ReadFlag, flag, schemas, blobs, db, locals, history, Goto, BootKeeps,
     RecoveryFails
<1>22. ASSUME RollbackDeleteChildren PROVE Recoverable'
  BY <1>22 DEF RollbackDeleteChildren, flag, schemas, blobs, locals, history, Goto,
     BootKeeps, RecoveryFails
<1>23. ASSUME RollbackDeleteParents PROVE Recoverable'
  BY <1>23 DEF RollbackDeleteParents, flag, schemas, blobs, locals, history, Goto,
     BootKeeps, RecoveryFails
<1>24. ASSUME RollbackInsertParents PROVE Recoverable'
  BY <1>24 DEF RollbackInsertParents, flag, schemas, blobs, locals, history, Goto,
     BootKeeps, RecoveryFails
<1>25. ASSUME RollbackInsertChildren PROVE Recoverable'
  BY <1>25 DEF RollbackInsertChildren, flag, schemas, blobs, locals, history, Goto,
     BootKeeps, RecoveryFails
<1>26. ASSUME RestoreBlobsRemoveUpload PROVE Recoverable'
  BY <1>26 DEF RestoreBlobsRemoveUpload, flag, schemas, db, locals, history, Goto,
     BootKeeps, RecoveryFails
<1>27. ASSUME RestoreBlobsRename PROVE Recoverable'
  <2>1. Recorded /\ AsideRuns # {} /\ UNCHANGED <<db, flag, schemas, raced>>
    BY <1>27 DEF RestoreBlobsRename, BootKeeps, history
  <2>2. CASE UNCHANGED blobs
    BY <2>1, <2>2 DEF blobs, db, flag, schemas
  <2>3. CASE ~UNCHANGED blobs
    <3>1. AsideRuns = {flagSnap} /\ Newest(AsideRuns) = flagSnap
      BY <2>1, OnlyAside
    <3>2. upload' = asides[flagSnap] /\ asides' = [r \in Runs |-> NoDir]
      BY <1>27, <2>3, <3>1 DEF RestoreBlobsRename, blobs
    <3>3. AsideRuns' = {}
      BY <3>2 DEF NoDir
    <3>4. QED
      BY <2>1, <3>2, <3>3 DEF db, flag, schemas
  <2>4. QED
    BY <2>2, <2>3
<1>28. ASSUME DropRecoveredSnapshot PROVE Recoverable'
  BY <1>28 DEF DropRecoveredSnapshot, flag, schemas, blobs, db, locals, history, Goto,
     BootKeeps, RecoveryFails, DropSchema
<1>29. ASSUME BootExitMaintenance PROVE Recoverable'
  BY <1>29 DEF BootExitMaintenance, flag, schemas, blobs, db, locals, history, Goto,
     BootKeeps, ClearFlag
<1>30. ASSUME Sweep PROVE Recoverable'
  BY <1>30 DEF Sweep, flag, blobs, db, locals, history, Goto
<1>31. ASSUME NEW w \in Uploaders, AllowUpload(w) PROVE Recoverable'
  <2>1. RequestOK(w)
    BY DEF RequestInv, Requests
  <2>2. \A r \in Runs : w # r
    BY RequestIsNoRun DEF Requests
  <2>3. QED
    BY <1>31, <2>1, <2>2 DEF AllowUpload, flag, schemas, blobs, db, locals, history,
       StoreKeeps, RequestOK, Step, InFlight, Dirs, Dir
<1>32. ASSUME NEW w \in Uploaders, SaveBlob(w) PROVE Recoverable'
  <2>1. RequestOK(w)
    BY DEF RequestInv, Requests
  <2>2. \A r \in Runs : w # r
    BY RequestIsNoRun DEF Requests
  <2>3. QED
    BY <1>32, <2>1, <2>2 DEF Dir, SaveBlob, flag, schemas, blobs, db, locals, history,
       StoreKeeps, RequestOK, Step, InFlight, Dirs, Dir
<1>33. ASSUME NEW w \in Uploaders, RecheckUpload(w) PROVE Recoverable'
  <2>1. RequestOK(w)
    BY DEF RequestInv, Requests
  <2>2. \A r \in Runs : w # r
    BY RequestIsNoRun DEF Requests
  <2>3. QED
    BY <1>33, <2>1, <2>2 DEF RecheckUpload, flag, schemas, blobs, db, locals, history,
       StoreKeeps, RequestOK, Step, InFlight, DeleteBlob, Dirs, Dir
<1>34. ASSUME NEW w \in Uploaders, CommitUpload(w) PROVE Recoverable'
  <2>1. RequestOK(w)
    BY DEF RequestInv, Requests
  <2>2. \A r \in Runs : w # r
    BY RequestIsNoRun DEF Requests
  <2>3. QED
    BY <1>34, <2>1, <2>2 DEF CommitUpload, flag, schemas, blobs, locals, history,
       StoreKeeps, RequestOK, Step, InFlight, DeleteBlob, Dirs, Dir
<1>35. ASSUME NEW w \in Creators, CheckCreate(w) PROVE Recoverable'
  BY <1>35 DEF CheckCreate, flag, schemas, blobs, db, locals, history, StoreKeeps
<1>36. ASSUME NEW w \in Creators, CommitCreate(w) PROVE Recoverable'
  BY <1>36 DEF CommitCreate, flag, schemas, blobs, locals, history, StoreKeeps
<1>37. QED
  BY <1>1, <1>2, <1>3, <1>4, <1>5, <1>6, <1>7, <1>8, <1>9, <1>10, <1>11,
     <1>12, <1>13, <1>14, <1>15, <1>16, <1>17, <1>18, <1>19, <1>20, <1>21,
     <1>22, <1>23, <1>24, <1>25, <1>26, <1>27, <1>28, <1>29, <1>30, <1>31,
     <1>32, <1>33, <1>34, <1>35, <1>36 DEF Next, Restoring, Recovering,
     Upload, Create

-----------------------------------------------------------------------------
(* The inductive invariant, and what follows from it.                      *)

\* Trust once lost does not come back.
LEMMA TaintStays == ASSUME TypeOK, Next, ~tainted' PROVE ~tainted
<1> USE DEF TypeOK, HistoryOK, history, BootKeeps, StoreKeeps
<1>1. ASSUME StartRestore PROVE ~tainted
  BY <1>1 DEF StartRestore
<1>2. ASSUME ReadManifest PROVE ~tainted
  BY <1>2 DEF ReadManifest
<1>3. ASSUME StageBundle PROVE ~tainted
  BY <1>3 DEF StageBundle
<1>4. ASSUME EnterMaintenance PROVE ~tainted
  BY <1>4 DEF EnterMaintenance
<1>5. ASSUME SnapshotParents PROVE ~tainted
  BY <1>5 DEF SnapshotParents
<1>6. ASSUME SnapshotChildren PROVE ~tainted
  BY <1>6 DEF SnapshotChildren
<1>7. ASSUME RecordSnapshot PROVE ~tainted
  BY <1>7 DEF RecordSnapshot
<1>8. ASSUME BeginBlobSwap PROVE ~tainted
  BY <1>8 DEF BeginBlobSwap
<1>9. ASSUME PromoteTransaction PROVE ~tainted
  BY <1>9 DEF PromoteTransaction
<1>10. ASSUME FinishBlobSwap PROVE ~tainted
  BY <1>10 DEF FinishBlobSwap
<1>11. ASSUME RollbackTransaction PROVE ~tainted
  BY <1>11 DEF RollbackTransaction
<1>12. ASSUME UndoRemoveUpload PROVE ~tainted
  BY <1>12 DEF UndoRemoveUpload
<1>13. ASSUME UndoRenameAside PROVE ~tainted
  BY <1>13 DEF UndoRenameAside
<1>14. ASSUME DropSnapshotRolledBack PROVE ~tainted
  BY <1>14 DEF DropSnapshotRolledBack
<1>15. ASSUME DropSnapshot PROVE ~tainted
  BY <1>15 DEF DropSnapshot
<1>16. ASSUME CommitBlobSwap PROVE ~tainted
  BY <1>16 DEF CommitBlobSwap
<1>17. ASSUME ExitMaintenance PROVE ~tainted
  BY <1>17 DEF ExitMaintenance
<1>18. ASSUME CleanupStaging PROVE ~tainted
  BY <1>18 DEF CleanupStaging
<1>19. ASSUME Crash PROVE ~tainted
  BY <1>19 DEF Crash
<1>20. ASSUME Boot PROVE ~tainted
  BY <1>20 DEF Boot
<1>21. ASSUME ReadFlag PROVE ~tainted
  BY <1>21 DEF ReadFlag
<1>22. ASSUME RollbackDeleteChildren PROVE ~tainted
  BY <1>22 DEF RollbackDeleteChildren
<1>23. ASSUME RollbackDeleteParents PROVE ~tainted
  BY <1>23 DEF RollbackDeleteParents
<1>24. ASSUME RollbackInsertParents PROVE ~tainted
  BY <1>24 DEF RollbackInsertParents
<1>25. ASSUME RollbackInsertChildren PROVE ~tainted
  BY <1>25 DEF RollbackInsertChildren
<1>26. ASSUME RestoreBlobsRemoveUpload PROVE ~tainted
  BY <1>26 DEF RestoreBlobsRemoveUpload
<1>27. ASSUME RestoreBlobsRename PROVE ~tainted
  BY <1>27 DEF RestoreBlobsRename
<1>28. ASSUME DropRecoveredSnapshot PROVE ~tainted
  BY <1>28 DEF DropRecoveredSnapshot
<1>29. ASSUME BootExitMaintenance PROVE ~tainted
  BY <1>29 DEF BootExitMaintenance
<1>30. ASSUME Sweep PROVE ~tainted
  BY <1>30 DEF Sweep
<1>31. ASSUME NEW w \in Uploaders, AllowUpload(w) PROVE ~tainted
  BY <1>31 DEF AllowUpload
<1>32. ASSUME NEW w \in Uploaders, SaveBlob(w) PROVE ~tainted
  BY <1>32 DEF SaveBlob
<1>33. ASSUME NEW w \in Uploaders, RecheckUpload(w) PROVE ~tainted
  BY <1>33 DEF RecheckUpload
<1>34. ASSUME NEW w \in Uploaders, CommitUpload(w) PROVE ~tainted
  BY <1>34 DEF CommitUpload
<1>35. ASSUME NEW w \in Creators, CheckCreate(w) PROVE ~tainted
  BY <1>35 DEF CheckCreate
<1>36. ASSUME NEW w \in Creators, CommitCreate(w) PROVE ~tainted
  BY <1>36 DEF CommitCreate
<1>37. QED
  BY <1>1, <1>2, <1>3, <1>4, <1>5, <1>6, <1>7, <1>8, <1>9, <1>10, <1>11,
     <1>12, <1>13, <1>14, <1>15, <1>16, <1>17, <1>18, <1>19, <1>20, <1>21,
     <1>22, <1>23, <1>24, <1>25, <1>26, <1>27, <1>28, <1>29, <1>30, <1>31,
     <1>32, <1>33, <1>34, <1>35, <1>36 DEF Next, Restoring, Recovering,
     Upload, Create

LEMMA InvInit == Init => IInv
<1> SUFFICES ASSUME Init PROVE IInv
  OBVIOUS
<1>1. TypeOK /\ RequestInv /\ FlagInv
  BY TypeInit, RequestInit, FlagInit
<1>2. AsideRuns = {} /\ ~Recorded
  BY DEF Init, AsideRuns, NoDir, Recorded
<1>3. AsidesInv
  BY <1>2 DEF Init, AsidesInv, Swapped
<1>4. NeedsInv
  BY DEF Init, NeedsInv, Swapped
<1>5. Needs(dbChild) \subseteq upload.blobs
  BY DEF Init, Needs, Dir, NoDir
<1>6. AlwaysRecoverable
  BY <1>1, <1>2, <1>3, <1>5, RecoverableMeaning DEF AlwaysRecoverable, Recoverable
<1>7. QED
  BY <1>1, <1>3, <1>4, <1>6 DEF IInv

LEMMA InvStep ==
  ASSUME IInv, [Next]_vars, "flagRead" \notin Faults
  PROVE  IInv'
<1>1. CASE Next
  <2>1. TypeOK' /\ FlagInv'
    BY TypeFlagStep DEF IInv
  <2>2. RequestInv'
    BY <1>1, RequestStep DEF IInv
  <2>3. CASE ~tainted'
    <3>1. ~tainted
      BY <1>1, <2>3, TaintStays DEF IInv
    <3>2. AsidesInv /\ NeedsInv /\ Recoverable
      BY <3>1, RecoverableMeaning DEF IInv, AlwaysRecoverable
    <3>3. AsidesInv' /\ NeedsInv' /\ Recoverable'
      BY <1>1, <2>3, <3>2, AsidesStep, NeedsStep, RecoverableStep DEF IInv
    <3>4. AlwaysRecoverable'
      BY <2>1, <3>3, RecoverableMeaningNext DEF AlwaysRecoverable
    <3>5. QED
      BY <2>1, <2>2, <3>3, <3>4 DEF IInv
  <2>4. CASE tainted'
    BY <2>1, <2>2, <2>4 DEF IInv, AlwaysRecoverable
  <2>5. QED
    BY <2>3, <2>4
<1>2. CASE UNCHANGED vars
  <2>1. TypeOK' /\ FlagInv'
    BY TypeFlagStep DEF IInv
  <2>2. QED
    BY <1>2, <2>1 DEF IInv, vars, db, blobs, flag, schemas, locals, history, RequestInv,
       RequestOK, InFlight, Serving, AsidesInv, NeedsInv, Needs, AlwaysRecoverable, Backed,
       Recorded, RecoverableChildren, RecoverableBlobs, AsideRuns, Newest
<1>3. QED
  BY <1>1, <1>2

THEOREM Invariant ==
  ASSUME "flagRead" \notin Faults
  PROVE  Spec => []IInv
<1>1. IInv /\ [Next]_vars => IInv'
  BY InvStep
<1>2. QED
  BY <1>1, InvInit, PTL DEF Spec

\* Wherever the server stops, between any two statements of a restore, of its
\* undoing or of the recovery, the next boot has rows and blobs that fit: as
\* long as reading the flag at boot does not itself fail.
THEOREM RestoreIsRecoverable ==
  ASSUME "flagRead" \notin Faults
  PROVE  Spec => []AlwaysRecoverable
<1>1. IInv => AlwaysRecoverable
  BY DEF IInv
<1>2. QED
  BY <1>1, Invariant, PTL

\* Whenever ordinary writes are admitted no row points at a blob that is gone.
THEOREM OpenIsBacked ==
  ASSUME "flagRead" \notin Faults
  PROVE  Spec => []OpenMeansBacked
<1>1. IInv => OpenMeansBacked
  BY DEF IInv, AlwaysRecoverable, OpenMeansBacked, Recorded, RecoverableChildren,
     RecoverableBlobs
<1>2. QED
  BY <1>1, Invariant, PTL
-----------------------------------------------------------------------------
(* What a restore reports, and the replacement as a whole.                 *)

\* A row appears when it is written: a request's at its commit, a run's when it
\* promotes.
LEMMA FreshStep ==
  ASSUME IInv, FreshInv, Next
  PROVE  FreshInv'
<1> USE RunZero, RequestIsNoRun, RestoreAssumption DEF IInv, TypeOK, StoresOK, EnvelopeOK,
        ControlOK, HistoryOK, RestoreAssumption, FlagInv, FreshInv, Unpromoted, Window,
        BootStates, RestoreStates, Recorded
<1>1. ASSUME StartRestore PROVE FreshInv'
  <2>1. run' = run + 1 /\ run < run' /\ run' \in Runs
    BY <1>1 DEF StartRestore, Runs
  <2>2. UNCHANGED <<dbParent, dbChild, snapParent, snapChild, wpc, preRows>> /\ rpc' \notin Window
    BY <1>1 DEF StartRestore, db, schemas, Goto
  <2>3. \A r \in Runs : run' < r => run < r
    BY <2>1 DEF Runs
  <2>4. QED
    BY <2>1, <2>2, <2>3
<1>2. ASSUME ReadManifest PROVE FreshInv'
  BY <1>2 DEF ReadManifest, db, blobs, flag, schemas, locals, history, Goto
<1>3. ASSUME StageBundle PROVE FreshInv'
  BY <1>3 DEF StageBundle, db, blobs, flag, schemas, locals, history, Goto
<1>4. ASSUME EnterMaintenance PROVE FreshInv'
  <2>1. /\ UNCHANGED <<dbParent, dbChild, snapParent, snapChild, wpc, run>>
        /\ \/ rpc' = "snapParents" /\ preRows' = dbChild
           \/ rpc' = "cleanup" /\ preRows' = preRows
    BY <1>4 DEF EnterMaintenance, db, schemas, locals, flag, Goto
  <2>2. \A w \in Requests : wpc[w] # "done" => w \notin dbChild
    BY DEF RequestInv, RequestOK
  <2>3. rpc \in Unpromoted /\ rpc \notin Window
    BY <1>4 DEF EnterMaintenance
  <2>4. QED
    BY <2>1, <2>2, <2>3
<1>5. ASSUME SnapshotParents PROVE FreshInv'
  BY <1>5 DEF SnapshotParents, db, blobs, flag, locals, history, Goto, Abandon
<1>6. ASSUME SnapshotChildren PROVE FreshInv'
  BY <1>6 DEF SnapshotChildren, db, blobs, flag, locals, history, Goto, Abandon
<1>7. ASSUME RecordSnapshot PROVE FreshInv'
  BY <1>7 DEF RecordSnapshot, db, blobs, schemas, locals, history, Goto, Abandon
<1>8. ASSUME BeginBlobSwap PROVE FreshInv'
  BY <1>8 DEF BeginBlobSwap, db, blobs, flag, schemas, history, Goto, Abandon
<1>9. ASSUME PromoteTransaction PROVE FreshInv'
  BY <1>9 DEF PromoteTransaction, db, blobs, flag, schemas, locals, history, Goto
<1>10. ASSUME FinishBlobSwap PROVE FreshInv'
  BY <1>10 DEF FinishBlobSwap, db, blobs, flag, schemas, locals, history, Goto, Dir
<1>11. ASSUME RollbackTransaction PROVE FreshInv'
  BY <1>11 DEF RollbackTransaction, db, blobs, flag, schemas, locals, history, Goto,
     GiveUp
<1>12. ASSUME UndoRemoveUpload PROVE FreshInv'
  BY <1>12 DEF UndoRemoveUpload, db, flag, schemas, locals, history, Goto, GiveUp
<1>13. ASSUME UndoRenameAside PROVE FreshInv'
  BY <1>13 DEF UndoRenameAside, db, blobs, flag, schemas, locals, history, Goto, GiveUp,
     Dir
<1>14. ASSUME DropSnapshotRolledBack PROVE FreshInv'
  BY <1>14 DEF DropSnapshotRolledBack, db, blobs, flag, schemas, locals, history, Goto,
     DropSchema
<1>15. ASSUME DropSnapshot PROVE FreshInv'
  BY <1>15 DEF DropSnapshot, db, blobs, flag, schemas, locals, history, Goto, Abandon,
     DropSchema
<1>16. ASSUME CommitBlobSwap PROVE FreshInv'
  BY <1>16 DEF CommitBlobSwap, db, flag, schemas, locals, history, Goto
<1>17. ASSUME ExitMaintenance PROVE FreshInv'
  BY <1>17 DEF ExitMaintenance, db, blobs, flag, schemas, locals, history, Goto, ClearFlag
<1>18. ASSUME CleanupStaging PROVE FreshInv'
  BY <1>18 DEF CleanupStaging, db, blobs, flag, schemas, history, Goto
<1>19. ASSUME Crash PROVE FreshInv'
  BY <1>19 DEF Crash, db, blobs, flag, schemas, history, Goto, InFlight
<1>20. ASSUME Boot PROVE FreshInv'
  BY <1>20 DEF Boot, db, blobs, flag, schemas, locals, history, Goto
<1>21. ASSUME ReadFlag PROVE FreshInv'
  BY <1>21 DEF ReadFlag, db, blobs, flag, schemas, locals, history, Goto, BootKeeps,
     RecoveryFails
<1>22. ASSUME RollbackDeleteChildren PROVE FreshInv'
  BY <1>22 DEF RollbackDeleteChildren, blobs, flag, schemas, locals, history, Goto,
     BootKeeps, RecoveryFails
<1>23. ASSUME RollbackDeleteParents PROVE FreshInv'
  BY <1>23 DEF RollbackDeleteParents, blobs, flag, schemas, locals, history, Goto,
     BootKeeps, RecoveryFails
<1>24. ASSUME RollbackInsertParents PROVE FreshInv'
  BY <1>24 DEF RollbackInsertParents, blobs, flag, schemas, locals, history, Goto,
     BootKeeps, RecoveryFails
<1>25. ASSUME RollbackInsertChildren PROVE FreshInv'
  BY <1>25 DEF RollbackInsertChildren, blobs, flag, schemas, locals, history, Goto,
     BootKeeps, RecoveryFails
<1>26. ASSUME RestoreBlobsRemoveUpload PROVE FreshInv'
  BY <1>26 DEF RestoreBlobsRemoveUpload, db, flag, schemas, locals, history, Goto,
     BootKeeps, RecoveryFails
<1>27. ASSUME RestoreBlobsRename PROVE FreshInv'
  BY <1>27 DEF RestoreBlobsRename, db, blobs, flag, schemas, locals, history, Goto,
     BootKeeps, RecoveryFails
<1>28. ASSUME DropRecoveredSnapshot PROVE FreshInv'
  BY <1>28 DEF DropRecoveredSnapshot, db, blobs, flag, schemas, locals, history, Goto,
     BootKeeps, RecoveryFails, DropSchema
<1>29. ASSUME BootExitMaintenance PROVE FreshInv'
  BY <1>29 DEF BootExitMaintenance, db, blobs, flag, schemas, locals, history, Goto,
     BootKeeps, ClearFlag
<1>30. ASSUME Sweep PROVE FreshInv'
  BY <1>30 DEF Sweep, db, blobs, flag, locals, history, Goto
<1>31. ASSUME NEW w \in Uploaders, AllowUpload(w) PROVE FreshInv'
  <2>1. RequestOK(w)
    BY DEF RequestInv, Requests
  <2>2. \A r \in Runs : w # r
    BY RequestIsNoRun DEF Requests
  <2>3. QED
    BY <1>31, <2>1, <2>2 DEF AllowUpload, db, blobs, flag, schemas, locals, history,
       StoreKeeps, RequestOK, Step, InFlight
<1>32. ASSUME NEW w \in Uploaders, SaveBlob(w) PROVE FreshInv'
  <2>1. RequestOK(w)
    BY DEF RequestInv, Requests
  <2>2. \A r \in Runs : w # r
    BY RequestIsNoRun DEF Requests
  <2>3. QED
    BY <1>32, <2>1, <2>2 DEF SaveBlob, db, blobs, flag, schemas, locals, history, Dir,
       StoreKeeps, RequestOK, Step, InFlight
<1>33. ASSUME NEW w \in Uploaders, RecheckUpload(w) PROVE FreshInv'
  <2>1. RequestOK(w)
    BY DEF RequestInv, Requests
  <2>2. \A r \in Runs : w # r
    BY RequestIsNoRun DEF Requests
  <2>3. QED
    BY <1>33, <2>1, <2>2 DEF RecheckUpload, db, flag, schemas, locals, history,
       DeleteBlob, StoreKeeps, RequestOK, Step, InFlight
<1>34. ASSUME NEW w \in Uploaders, CommitUpload(w) PROVE FreshInv'
  <2>1. RequestOK(w)
    BY DEF RequestInv, Requests
  <2>2. \A r \in Runs : w # r
    BY RequestIsNoRun DEF Requests
  <2>3. QED
    BY <1>34, <2>1, <2>2 DEF CommitUpload, flag, schemas, locals, history, DeleteBlob,
       StoreKeeps, RequestOK, Step, InFlight
<1>35. ASSUME NEW w \in Creators, CheckCreate(w) PROVE FreshInv'
  <2>1. RequestOK(w)
    BY DEF RequestInv, Requests
  <2>2. \A r \in Runs : w # r
    BY RequestIsNoRun DEF Requests
  <2>3. QED
    BY <1>35, <2>1, <2>2 DEF CheckCreate, db, blobs, flag, schemas, locals, history,
       StoreKeeps, RequestOK, Step, InFlight
<1>36. ASSUME NEW w \in Creators, CommitCreate(w) PROVE FreshInv'
  <2>1. RequestOK(w)
    BY DEF RequestInv, Requests
  <2>2. \A r \in Runs : w # r
    BY RequestIsNoRun DEF Requests
  <2>3. QED
    BY <1>36, <2>1, <2>2 DEF CommitCreate, blobs, flag, schemas, locals, history,
       StoreKeeps, RequestOK, Step, InFlight
<1>37. QED
  BY <1>1, <1>2, <1>3, <1>4, <1>5, <1>6, <1>7, <1>8, <1>9, <1>10, <1>11, <1>12, <1>13, <1>14,
     <1>15, <1>16, <1>17, <1>18, <1>19, <1>20, <1>21, <1>22, <1>23, <1>24, <1>25, <1>26, <1>27,
     <1>28, <1>29, <1>30, <1>31, <1>32, <1>33, <1>34, <1>35, <1>36 DEF Next, Restoring, Recovering,
     Upload, Create

\* The snapshot stays what the tables were, but for the rows of overtaken
\* requests, until one of them is put in the place of the other.
LEMMA SameStep ==
  ASSUME IInv, FreshInv, SameInv, Next
  PROVE  SameInv'
<1> USE RunZero, RequestIsNoRun DEF IInv, TypeOK, StoresOK, EnvelopeOK, ControlOK,
        HistoryOK, FlagInv, SameInv, SnapshotMatches, Replaced, Window, Swapped, BootStates,
        RestoreStates, Recorded, Serving
<1>1. ASSUME StartRestore PROVE SameInv'
  BY <1>1 DEF StartRestore, db, blobs, flag, schemas, Goto
<1>2. ASSUME ReadManifest PROVE SameInv'
  BY <1>2 DEF ReadManifest, db, blobs, flag, schemas, locals, history, Goto
<1>3. ASSUME StageBundle PROVE SameInv'
  BY <1>3 DEF StageBundle, db, blobs, flag, schemas, locals, history, Goto
<1>4. ASSUME EnterMaintenance PROVE SameInv'
  BY <1>4 DEF EnterMaintenance, db, blobs, flag, schemas, locals, Goto, InFlight
<1>5. ASSUME SnapshotParents PROVE SameInv'
  BY <1>5 DEF SnapshotParents, db, blobs, flag, locals, history, Goto, Abandon
<1>6. ASSUME SnapshotChildren PROVE SameInv'
  BY <1>6 DEF SnapshotChildren, db, blobs, flag, locals, history, Goto, Abandon
<1>7. ASSUME RecordSnapshot PROVE SameInv'
  BY <1>7 DEF RecordSnapshot, db, blobs, schemas, locals, history, Goto, Abandon
<1>8. ASSUME BeginBlobSwap PROVE SameInv'
  BY <1>8 DEF BeginBlobSwap, db, blobs, flag, schemas, history, Goto, Abandon
<1>9. ASSUME PromoteTransaction PROVE SameInv'
  BY <1>9 DEF PromoteTransaction, db, blobs, flag, schemas, locals, history, Goto
<1>10. ASSUME FinishBlobSwap PROVE SameInv'
  BY <1>10 DEF FinishBlobSwap, db, blobs, flag, schemas, locals, history, Goto, Dir
<1>11. ASSUME RollbackTransaction PROVE SameInv'
  BY <1>11 DEF RollbackTransaction, db, blobs, flag, schemas, locals, history, Goto,
     GiveUp
<1>12. ASSUME UndoRemoveUpload PROVE SameInv'
  BY <1>12 DEF UndoRemoveUpload, db, flag, schemas, locals, history, Goto, GiveUp
<1>13. ASSUME UndoRenameAside PROVE SameInv'
  BY <1>13 DEF UndoRenameAside, db, blobs, flag, schemas, locals, history, Goto, GiveUp,
     Dir
<1>14. ASSUME DropSnapshotRolledBack PROVE SameInv'
  BY <1>14 DEF DropSnapshotRolledBack, db, blobs, flag, schemas, locals, history, Goto,
     DropSchema
<1>15. ASSUME DropSnapshot PROVE SameInv'
  BY <1>15 DEF DropSnapshot, db, blobs, flag, schemas, locals, history, Goto, Abandon,
     DropSchema
<1>16. ASSUME CommitBlobSwap PROVE SameInv'
  BY <1>16 DEF CommitBlobSwap, db, flag, schemas, locals, history, Goto
<1>17. ASSUME ExitMaintenance PROVE SameInv'
  BY <1>17 DEF ExitMaintenance, db, blobs, flag, schemas, locals, history, Goto, ClearFlag
<1>18. ASSUME CleanupStaging PROVE SameInv'
  BY <1>18 DEF CleanupStaging, db, blobs, flag, schemas, history, Goto
<1>19. ASSUME Crash PROVE SameInv'
  BY <1>19 DEF Crash, db, blobs, flag, schemas, history, Goto, InFlight
<1>20. ASSUME Boot PROVE SameInv'
  BY <1>20 DEF Boot, db, blobs, flag, schemas, locals, history, Goto
<1>21. ASSUME ReadFlag PROVE SameInv'
  BY <1>21 DEF ReadFlag, db, blobs, flag, schemas, locals, history, Goto, BootKeeps,
     RecoveryFails
<1>22. ASSUME RollbackDeleteChildren PROVE SameInv'
  BY <1>22 DEF RollbackDeleteChildren, blobs, flag, schemas, locals, history, Goto,
     BootKeeps, RecoveryFails
<1>23. ASSUME RollbackDeleteParents PROVE SameInv'
  BY <1>23 DEF RollbackDeleteParents, blobs, flag, schemas, locals, history, Goto,
     BootKeeps, RecoveryFails
<1>24. ASSUME RollbackInsertParents PROVE SameInv'
  BY <1>24 DEF RollbackInsertParents, blobs, flag, schemas, locals, history, Goto,
     BootKeeps, RecoveryFails
<1>25. ASSUME RollbackInsertChildren PROVE SameInv'
  BY <1>25 DEF RollbackInsertChildren, blobs, flag, schemas, locals, history, Goto,
     BootKeeps, RecoveryFails
<1>26. ASSUME RestoreBlobsRemoveUpload PROVE SameInv'
  BY <1>26 DEF RestoreBlobsRemoveUpload, db, flag, schemas, locals, history, Goto,
     BootKeeps, RecoveryFails
<1>27. ASSUME RestoreBlobsRename PROVE SameInv'
  BY <1>27 DEF RestoreBlobsRename, db, blobs, flag, schemas, locals, history, Goto,
     BootKeeps, RecoveryFails
<1>28. ASSUME DropRecoveredSnapshot PROVE SameInv'
  BY <1>28 DEF DropRecoveredSnapshot, db, blobs, flag, schemas, locals, history, Goto,
     BootKeeps, RecoveryFails, DropSchema
<1>29. ASSUME BootExitMaintenance PROVE SameInv'
  BY <1>29 DEF BootExitMaintenance, db, blobs, flag, schemas, locals, history, Goto,
     BootKeeps, ClearFlag
<1>30. ASSUME Sweep PROVE SameInv'
  BY <1>30 DEF Sweep, db, blobs, flag, locals, history, Goto
<1>31. ASSUME NEW w \in Uploaders, AllowUpload(w) PROVE SameInv'
  <2>1. RequestOK(w)
    BY DEF RequestInv, Requests
  <2>2. \A r \in Runs : w # r
    BY RequestIsNoRun DEF Requests
  <2>3. QED
    BY <1>31, <2>1, <2>2 DEF AllowUpload, db, blobs, flag, schemas, locals, history,
       StoreKeeps, RequestOK, Step, InFlight
<1>32. ASSUME NEW w \in Uploaders, SaveBlob(w) PROVE SameInv'
  <2>1. RequestOK(w)
    BY DEF RequestInv, Requests
  <2>2. \A r \in Runs : w # r
    BY RequestIsNoRun DEF Requests
  <2>3. QED
    BY <1>32, <2>1, <2>2 DEF SaveBlob, db, blobs, flag, schemas, locals, history, Dir,
       StoreKeeps, RequestOK, Step, InFlight
<1>33. ASSUME NEW w \in Uploaders, RecheckUpload(w) PROVE SameInv'
  <2>1. RequestOK(w)
    BY DEF RequestInv, Requests
  <2>2. \A r \in Runs : w # r
    BY RequestIsNoRun DEF Requests
  <2>3. QED
    BY <1>33, <2>1, <2>2 DEF RecheckUpload, db, flag, schemas, locals, history,
       DeleteBlob, StoreKeeps, RequestOK, Step, InFlight
<1>34. ASSUME NEW w \in Uploaders, CommitUpload(w) PROVE SameInv'
  <2>1. RequestOK(w) /\ w \in InFlight /\ Serving
    BY <1>34 DEF RequestInv, Requests, InFlight, Step, CommitUpload, DeleteBlob
  <2>2. /\ UNCHANGED <<flag, schemas, rpc, run, raced>>
        /\ dbParent' \in {dbParent, dbParent \union {w}}
        /\ dbChild' \in {dbChild, dbChild \union {w}}
    BY <1>34 DEF CommitUpload, DeleteBlob, StoreKeeps, locals, history
  <2>3. CASE w \in raced
    <3>1. dbParent' \ raced = dbParent \ raced /\ dbChild' \ raced = dbChild \ raced
      BY <2>2, <2>3
    <3>2. QED
      BY <2>1, <2>2, <3>1 DEF flag, schemas
  <2>4. CASE w \notin raced
    <3>1. ~flagActive
      BY <2>1, <2>4 DEF RequestOK
    <3>2. QED
      BY <2>1, <2>2, <3>1 DEF flag, schemas
  <2>5. QED
    BY <2>3, <2>4
<1>35. ASSUME NEW w \in Creators, CheckCreate(w) PROVE SameInv'
  <2>1. RequestOK(w)
    BY DEF RequestInv, Requests
  <2>2. \A r \in Runs : w # r
    BY RequestIsNoRun DEF Requests
  <2>3. QED
    BY <1>35, <2>1, <2>2 DEF CheckCreate, db, blobs, flag, schemas, locals, history,
       StoreKeeps, RequestOK, Step, InFlight
<1>36. ASSUME NEW w \in Creators, CommitCreate(w) PROVE SameInv'
  <2>1. RequestOK(w) /\ w \in InFlight /\ Serving
    BY <1>36 DEF RequestInv, Requests, InFlight, Step, CommitCreate
  <2>2. /\ UNCHANGED <<flag, schemas, rpc, run, raced>>
        /\ dbParent' \in {dbParent, dbParent \union {w}}
        /\ dbChild' \in {dbChild, dbChild \union {w}}
    BY <1>36 DEF CommitCreate, StoreKeeps, locals, history
  <2>3. CASE w \in raced
    <3>1. dbParent' \ raced = dbParent \ raced /\ dbChild' \ raced = dbChild \ raced
      BY <2>2, <2>3
    <3>2. QED
      BY <2>1, <2>2, <3>1 DEF flag, schemas
  <2>4. CASE w \notin raced
    <3>1. ~flagActive
      BY <2>1, <2>4 DEF RequestOK
    <3>2. QED
      BY <2>1, <2>2, <3>1 DEF flag, schemas
  <2>5. QED
    BY <2>3, <2>4
<1>37. QED
  BY <1>1, <1>2, <1>3, <1>4, <1>5, <1>6, <1>7, <1>8, <1>9, <1>10, <1>11, <1>12, <1>13, <1>14,
     <1>15, <1>16, <1>17, <1>18, <1>19, <1>20, <1>21, <1>22, <1>23, <1>24, <1>25, <1>26, <1>27,
     <1>28, <1>29, <1>30, <1>31, <1>32, <1>33, <1>34, <1>35, <1>36 DEF Next, Restoring, Recovering,
     Upload, Create

\* What the restore found stays where its answer will say it is.
LEMMA TruthStep ==
  ASSUME IInv, IInv', FreshInv, SameInv, TruthInv, Next
  PROVE  TruthInv'
<1> USE RunZero, RequestIsNoRun DEF IInv, TypeOK, StoresOK, EnvelopeOK, ControlOK,
        HistoryOK, FlagInv, FreshInv, TruthInv, OutcomeIsTrue, NeedsInv, Needs, Backed,
        Unpromoted, Window, Swapped, BootStates, RestoreStates, Recorded, Serving
<1>1. ASSUME StartRestore PROVE TruthInv'
  BY <1>1 DEF StartRestore, db, blobs, flag, schemas, Goto
<1>2. ASSUME ReadManifest PROVE TruthInv'
  BY <1>2 DEF ReadManifest, db, blobs, flag, schemas, locals, history, Goto
<1>3. ASSUME StageBundle PROVE TruthInv'
  BY <1>3 DEF StageBundle, db, blobs, flag, schemas, locals, history, Goto
<1>4. ASSUME EnterMaintenance PROVE TruthInv'
  BY <1>4 DEF EnterMaintenance, db, blobs, flag, schemas, locals, Goto, InFlight
<1>5. ASSUME SnapshotParents PROVE TruthInv'
  BY <1>5 DEF SnapshotParents, db, blobs, flag, locals, history, Goto, Abandon
<1>6. ASSUME SnapshotChildren PROVE TruthInv'
  BY <1>6 DEF SnapshotChildren, db, blobs, flag, locals, history, Goto, Abandon
<1>7. ASSUME RecordSnapshot PROVE TruthInv'
  BY <1>7 DEF RecordSnapshot, db, blobs, schemas, locals, history, Goto, Abandon
<1>8. ASSUME BeginBlobSwap PROVE TruthInv'
  BY <1>8 DEF BeginBlobSwap, db, blobs, flag, schemas, history, Goto, Abandon
<1>9. ASSUME PromoteTransaction PROVE TruthInv'
  BY <1>9 DEF PromoteTransaction, db, blobs, flag, schemas, locals, history, Goto
<1>10. ASSUME FinishBlobSwap PROVE TruthInv'
  BY <1>10 DEF FinishBlobSwap, db, blobs, flag, schemas, locals, history, Goto, Dir
<1>11. ASSUME RollbackTransaction PROVE TruthInv'
  BY <1>11 DEF RollbackTransaction, db, blobs, flag, schemas, locals, history, Goto,
     GiveUp
<1>12. ASSUME UndoRemoveUpload PROVE TruthInv'
  BY <1>12 DEF UndoRemoveUpload, db, flag, schemas, locals, history, Goto, GiveUp
<1>13. ASSUME UndoRenameAside PROVE TruthInv'
  BY <1>13 DEF UndoRenameAside, db, blobs, flag, schemas, locals, history, Goto, GiveUp,
     Dir
<1>14. ASSUME DropSnapshotRolledBack PROVE TruthInv'
  BY <1>14 DEF DropSnapshotRolledBack, db, blobs, flag, schemas, locals, history, Goto,
     DropSchema
<1>15. ASSUME DropSnapshot PROVE TruthInv'
  BY <1>15 DEF DropSnapshot, db, blobs, flag, schemas, locals, history, Goto, Abandon,
     DropSchema
<1>16. ASSUME CommitBlobSwap PROVE TruthInv'
  BY <1>16 DEF CommitBlobSwap, db, flag, schemas, locals, history, Goto
<1>17. ASSUME ExitMaintenance PROVE TruthInv'
  BY <1>17 DEF ExitMaintenance, db, blobs, flag, schemas, locals, history, Goto, ClearFlag
<1>18. ASSUME CleanupStaging PROVE TruthInv'
  BY <1>18 DEF CleanupStaging, db, blobs, flag, schemas, history, Goto
<1>19. ASSUME Crash PROVE TruthInv'
  BY <1>19 DEF Crash, db, blobs, flag, schemas, history, Goto, InFlight
<1>20. ASSUME Boot PROVE TruthInv'
  BY <1>20 DEF Boot, db, blobs, flag, schemas, locals, history, Goto
<1>21. ASSUME ReadFlag PROVE TruthInv'
  BY <1>21 DEF ReadFlag, db, blobs, flag, schemas, locals, history, Goto, BootKeeps,
     RecoveryFails
<1>22. ASSUME RollbackDeleteChildren PROVE TruthInv'
  BY <1>22 DEF RollbackDeleteChildren, blobs, flag, schemas, locals, history, Goto,
     BootKeeps, RecoveryFails
<1>23. ASSUME RollbackDeleteParents PROVE TruthInv'
  BY <1>23 DEF RollbackDeleteParents, blobs, flag, schemas, locals, history, Goto,
     BootKeeps, RecoveryFails
<1>24. ASSUME RollbackInsertParents PROVE TruthInv'
  BY <1>24 DEF RollbackInsertParents, blobs, flag, schemas, locals, history, Goto,
     BootKeeps, RecoveryFails
<1>25. ASSUME RollbackInsertChildren PROVE TruthInv'
  BY <1>25 DEF RollbackInsertChildren, blobs, flag, schemas, locals, history, Goto,
     BootKeeps, RecoveryFails
<1>26. ASSUME RestoreBlobsRemoveUpload PROVE TruthInv'
  BY <1>26 DEF RestoreBlobsRemoveUpload, db, flag, schemas, locals, history, Goto,
     BootKeeps, RecoveryFails
<1>27. ASSUME RestoreBlobsRename PROVE TruthInv'
  BY <1>27 DEF RestoreBlobsRename, db, blobs, flag, schemas, locals, history, Goto,
     BootKeeps, RecoveryFails
<1>28. ASSUME DropRecoveredSnapshot PROVE TruthInv'
  BY <1>28 DEF DropRecoveredSnapshot, db, blobs, flag, schemas, locals, history, Goto,
     BootKeeps, RecoveryFails, DropSchema
<1>29. ASSUME BootExitMaintenance PROVE TruthInv'
  BY <1>29 DEF BootExitMaintenance, db, blobs, flag, schemas, locals, history, Goto,
     BootKeeps, ClearFlag
<1>30. ASSUME Sweep PROVE TruthInv'
  BY <1>30 DEF Sweep, db, blobs, flag, locals, history, Goto
<1>31. ASSUME NEW w \in Uploaders, AllowUpload(w) PROVE TruthInv'
  <2>1. RequestOK(w)
    BY DEF RequestInv, Requests
  <2>2. \A r \in Runs : w # r
    BY RequestIsNoRun DEF Requests
  <2>3. QED
    BY <1>31, <2>1, <2>2 DEF AllowUpload, db, blobs, flag, schemas, locals, history,
       StoreKeeps, RequestOK, Step, InFlight
<1>32. ASSUME NEW w \in Uploaders, SaveBlob(w) PROVE TruthInv'
  <2>1. RequestOK(w)
    BY DEF RequestInv, Requests
  <2>2. \A r \in Runs : w # r
    BY RequestIsNoRun DEF Requests
  <2>3. QED
    BY <1>32, <2>1, <2>2 DEF SaveBlob, db, blobs, flag, schemas, locals, history, Dir,
       StoreKeeps, RequestOK, Step, InFlight
<1>33. ASSUME NEW w \in Uploaders, RecheckUpload(w) PROVE TruthInv'
  <2>1. w \in InFlight /\ wpc[w] # "done" /\ w \notin preRows
    BY <1>33 DEF RequestInv, Requests, InFlight, Step, RecheckUpload
  <2>2. /\ UNCHANGED <<rpc, run, dbParent, snapParent, snapChild, preRows, tainted, outcome>>
        /\ dbChild' \in {dbChild, dbChild \union {w}}
    BY <1>33 DEF RecheckUpload, StoreKeeps, locals, history, schemas, db
  <2>3. rpc # "idle" => run \in Runs /\ run # w
    BY <1>33, RequestIsNoRun DEF RecheckUpload, Step, Serving, Requests
  <2>4. rpc # "idle" /\ run \in upload.blobs => run \in upload'.blobs
    BY <1>33, <2>3 DEF RecheckUpload, DeleteBlob, Dirs
  <2>5. QED
    BY <2>1, <2>2, <2>3, <2>4
<1>34. ASSUME NEW w \in Uploaders, CommitUpload(w) PROVE TruthInv'
  <2>1. w \in InFlight /\ wpc[w] # "done" /\ w \notin preRows
    BY <1>34 DEF RequestInv, Requests, InFlight, Step, CommitUpload
  <2>2. /\ UNCHANGED <<rpc, run, dbParent, snapParent, snapChild, preRows, tainted, outcome>>
        /\ dbChild' \in {dbChild, dbChild \union {w}}
    BY <1>34 DEF CommitUpload, StoreKeeps, locals, history, schemas, db
  <2>3. rpc # "idle" => run \in Runs /\ run # w
    BY <1>34, RequestIsNoRun DEF CommitUpload, Step, Serving, Requests
  <2>4. rpc # "idle" /\ run \in upload.blobs => run \in upload'.blobs
    BY <1>34, <2>3 DEF CommitUpload, DeleteBlob, Dirs
  <2>5. QED
    BY <2>1, <2>2, <2>3, <2>4
<1>35. ASSUME NEW w \in Creators, CheckCreate(w) PROVE TruthInv'
  <2>1. RequestOK(w)
    BY DEF RequestInv, Requests
  <2>2. \A r \in Runs : w # r
    BY RequestIsNoRun DEF Requests
  <2>3. QED
    BY <1>35, <2>1, <2>2 DEF CheckCreate, db, blobs, flag, schemas, locals, history,
       StoreKeeps, RequestOK, Step, InFlight
<1>36. ASSUME NEW w \in Creators, CommitCreate(w) PROVE TruthInv'
  <2>1. RequestOK(w)
    BY DEF RequestInv, Requests
  <2>2. \A r \in Runs : w # r
    BY RequestIsNoRun DEF Requests
  <2>3. QED
    BY <1>36, <2>1, <2>2 DEF CommitCreate, blobs, flag, schemas, locals, history,
       StoreKeeps, RequestOK, Step, InFlight
<1>37. QED
  BY <1>1, <1>2, <1>3, <1>4, <1>5, <1>6, <1>7, <1>8, <1>9, <1>10, <1>11, <1>12, <1>13, <1>14,
     <1>15, <1>16, <1>17, <1>18, <1>19, <1>20, <1>21, <1>22, <1>23, <1>24, <1>25, <1>26, <1>27,
     <1>28, <1>29, <1>30, <1>31, <1>32, <1>33, <1>34, <1>35, <1>36 DEF Next, Restoring, Recovering,
     Upload, Create

\* The inventory that Promise sees while the restores are trusted: a step keeps
\* it, or replaces it by what run brought.
LiveParents == RecoverableParents \ raced
LiveChildren == RecoverableChildren \ raced
Steady == LiveParents' = LiveParents /\ LiveChildren' = LiveChildren
Taken == run \in Runs /\ LiveParents' = {run} /\ LiveChildren' = {run}

\* The instance changes hands at one step: when the snapshot of a promoted
\* restore goes, or the flag that names it.
LEMMA TurnStep ==
  ASSUME IInv, PromiseInv, ~tainted, ~tainted',
         StartRestore \/ Restoring \/ Crash \/ Recovering
  PROVE  Steady \/ Taken
<1> USE RunZero DEF IInv, PromiseInv, TypeOK, StoresOK, EnvelopeOK, ControlOK, HistoryOK,
        FlagInv, AsidesInv, SameInv, SnapshotMatches, Replaced, Window, Swapped, BootStates,
        RestoreStates, Recorded, Steady, Taken, LiveParents, LiveChildren,
        RecoverableParents, RecoverableChildren
<1>1. ASSUME StartRestore PROVE Steady \/ Taken
  BY <1>1 DEF StartRestore, db, blobs, flag, schemas, Goto
<1>2. ASSUME ReadManifest PROVE Steady \/ Taken
  BY <1>2 DEF ReadManifest, db, blobs, flag, schemas, locals, history, Goto
<1>3. ASSUME StageBundle PROVE Steady \/ Taken
  BY <1>3 DEF StageBundle, db, blobs, flag, schemas, locals, history, Goto
<1>4. ASSUME EnterMaintenance PROVE Steady \/ Taken
  <2>1. ~Recorded /\ ~Recorded'
    BY <1>4, RunZero DEF EnterMaintenance, schemas, flag
  <2>2. UNCHANGED <<dbParent, dbChild>> /\ raced' \in {raced, raced \union InFlight}
    BY <1>4 DEF EnterMaintenance, db
  <2>3. \A w \in InFlight : w \notin dbParent \union dbChild
    BY DEF InFlight, FreshInv, RequestInv, RequestOK
  <2>4. QED
    BY <2>1, <2>2, <2>3
<1>5. ASSUME SnapshotParents PROVE Steady \/ Taken
  BY <1>5 DEF SnapshotParents, db, blobs, flag, locals, history, Goto, Abandon
<1>6. ASSUME SnapshotChildren PROVE Steady \/ Taken
  BY <1>6 DEF SnapshotChildren, db, blobs, flag, locals, history, Goto, Abandon
<1>7. ASSUME RecordSnapshot PROVE Steady \/ Taken
  BY <1>7 DEF RecordSnapshot, db, blobs, schemas, locals, history, Goto, Abandon
<1>8. ASSUME BeginBlobSwap PROVE Steady \/ Taken
  BY <1>8 DEF BeginBlobSwap, db, blobs, flag, schemas, history, Goto, Abandon
<1>9. ASSUME PromoteTransaction PROVE Steady \/ Taken
  BY <1>9 DEF PromoteTransaction, db, blobs, flag, schemas, locals, history, Goto
<1>10. ASSUME FinishBlobSwap PROVE Steady \/ Taken
  BY <1>10 DEF FinishBlobSwap, db, blobs, flag, schemas, locals, history, Goto, Dir
<1>11. ASSUME RollbackTransaction PROVE Steady \/ Taken
  BY <1>11 DEF RollbackTransaction, db, blobs, flag, schemas, locals, history, Goto,
     GiveUp
<1>12. ASSUME UndoRemoveUpload PROVE Steady \/ Taken
  BY <1>12 DEF UndoRemoveUpload, db, flag, schemas, locals, history, Goto, GiveUp
<1>13. ASSUME UndoRenameAside PROVE Steady \/ Taken
  BY <1>13 DEF UndoRenameAside, db, blobs, flag, schemas, locals, history, Goto, GiveUp,
     Dir
<1>14. ASSUME DropSnapshotRolledBack PROVE Steady \/ Taken
  BY <1>14 DEF DropSnapshotRolledBack, db, blobs, flag, schemas, locals, history, Goto,
     DropSchema
<1>15. ASSUME DropSnapshot PROVE Steady \/ Taken
  BY <1>15 DEF DropSnapshot, db, blobs, flag, schemas, locals, history, Goto, Abandon,
     DropSchema
<1>16. ASSUME CommitBlobSwap PROVE Steady \/ Taken
  BY <1>16 DEF CommitBlobSwap, db, flag, schemas, locals, history, Goto
<1>17. ASSUME ExitMaintenance PROVE Steady \/ Taken
  BY <1>17 DEF ExitMaintenance, db, blobs, flag, schemas, locals, history, Goto, ClearFlag
<1>18. ASSUME CleanupStaging PROVE Steady \/ Taken
  BY <1>18 DEF CleanupStaging, db, blobs, flag, schemas, history, Goto
<1>19. ASSUME Crash PROVE Steady \/ Taken
  BY <1>19 DEF Crash, db, blobs, flag, schemas, history, Goto, InFlight
<1>20. ASSUME Boot PROVE Steady \/ Taken
  BY <1>20 DEF Boot, db, blobs, flag, schemas, locals, history, Goto
<1>21. ASSUME ReadFlag PROVE Steady \/ Taken
  BY <1>21 DEF ReadFlag, db, blobs, flag, schemas, locals, history, Goto, BootKeeps,
     RecoveryFails
<1>22. ASSUME RollbackDeleteChildren PROVE Steady \/ Taken
  BY <1>22 DEF RollbackDeleteChildren, blobs, flag, schemas, locals, history, Goto,
     BootKeeps, RecoveryFails
<1>23. ASSUME RollbackDeleteParents PROVE Steady \/ Taken
  BY <1>23 DEF RollbackDeleteParents, blobs, flag, schemas, locals, history, Goto,
     BootKeeps, RecoveryFails
<1>24. ASSUME RollbackInsertParents PROVE Steady \/ Taken
  BY <1>24 DEF RollbackInsertParents, blobs, flag, schemas, locals, history, Goto,
     BootKeeps, RecoveryFails
<1>25. ASSUME RollbackInsertChildren PROVE Steady \/ Taken
  BY <1>25 DEF RollbackInsertChildren, blobs, flag, schemas, locals, history, Goto,
     BootKeeps, RecoveryFails
<1>26. ASSUME RestoreBlobsRemoveUpload PROVE Steady \/ Taken
  BY <1>26 DEF RestoreBlobsRemoveUpload, db, flag, schemas, locals, history, Goto,
     BootKeeps, RecoveryFails
<1>27. ASSUME RestoreBlobsRename PROVE Steady \/ Taken
  BY <1>27 DEF RestoreBlobsRename, db, blobs, flag, schemas, locals, history, Goto,
     BootKeeps, RecoveryFails
<1>28. ASSUME DropRecoveredSnapshot PROVE Steady \/ Taken
  BY <1>28 DEF DropRecoveredSnapshot, db, blobs, flag, schemas, locals, history, Goto,
     BootKeeps, RecoveryFails, DropSchema
<1>29. ASSUME BootExitMaintenance PROVE Steady \/ Taken
  BY <1>29 DEF BootExitMaintenance, db, blobs, flag, schemas, locals, history, Goto,
     BootKeeps, ClearFlag
<1>30. ASSUME Sweep PROVE Steady \/ Taken
  BY <1>30 DEF Sweep, db, blobs, flag, locals, history, Goto
<1>31. QED
  BY <1>1, <1>2, <1>3, <1>4, <1>5, <1>6, <1>7, <1>8, <1>9, <1>10, <1>11, <1>12, <1>13, <1>14,
     <1>15, <1>16, <1>17, <1>18, <1>19, <1>20, <1>21, <1>22, <1>23, <1>24, <1>25, <1>26, <1>27,
     <1>28, <1>29, <1>30 DEF Restoring, Recovering

\* A request that commits adds its rows, unless a restore overtook it.
LEMMA RequestTurn ==
  ASSUME IInv, PromiseInv, ~tainted, NEW w \in Requests,
         \/ w \in Uploaders /\ Upload(w)
         \/ w \in Creators /\ Create(w)
  PROVE  \/ Steady
         \/ w \in Uploaders /\ LiveParents' = LiveParents /\ LiveChildren' = LiveChildren \union {w}
         \/ w \in Creators /\ LiveParents' = LiveParents \union {w}
                           /\ LiveChildren' = LiveChildren \union {w}
<1> USE DEF Steady, LiveParents, LiveChildren, RecoverableParents, RecoverableChildren
<1>1. UNCHANGED <<flagActive, flagSnap, snaps, snapParent, snapChild, raced>>
  BY DEF Upload, Create, AllowUpload, SaveBlob, RecheckUpload, CommitUpload, CheckCreate,
     CommitCreate, StoreKeeps, flag, schemas, history
<1>2. CASE UNCHANGED <<dbParent, dbChild>>
  BY <1>1, <1>2 DEF Recorded
<1>3. CASE ~UNCHANGED <<dbParent, dbChild>>
  <2>1. /\ w \in InFlight /\ dbChild' = dbChild \union {w}
        /\ \/ w \in Uploaders /\ dbParent' = dbParent
           \/ w \in Creators /\ dbParent' = dbParent \union {w}
    BY <1>3 DEF Upload, Create, AllowUpload, SaveBlob, RecheckUpload, CommitUpload,
       CheckCreate, CommitCreate, StoreKeeps, Step, InFlight, db
  <2>2. CASE w \in raced
    BY <1>1, <2>1, <2>2 DEF Recorded
  <2>3. CASE w \notin raced
    <3>1. ~Recorded
      BY <2>1, <2>3 DEF IInv, RequestInv, RequestOK, Recorded
    <3>2. QED
      BY <1>1, <2>1, <2>3, <3>1 DEF Recorded
  <2>4. QED
    BY <2>2, <2>3
<1>4. QED
  BY <1>2, <1>3

-----------------------------------------------------------------------------
(* The results, in every state.                                            *)

LEMMA PromiseInit == Init => PromiseInv
<1> SUFFICES ASSUME Init PROVE PromiseInv
  OBVIOUS
<1>1. FreshInv
  BY RestoreAssumption DEF Init, FreshInv, RestoreAssumption, Window, Unpromoted
<1>2. SameInv /\ TruthInv
  BY DEF Init, SameInv, TruthInv, OutcomeIsTrue
<1>3. QED
  BY <1>1, <1>2 DEF PromiseInv

LEMMA PromiseStep ==
  ASSUME IInv, IInv', PromiseInv, [Next]_vars
  PROVE  PromiseInv'
<1>1. CASE Next
  BY <1>1, FreshStep, SameStep, TruthStep DEF PromiseInv
<1>2. CASE UNCHANGED vars
  BY <1>2 DEF vars, db, blobs, flag, schemas, locals, history, PromiseInv, FreshInv, SameInv,
     TruthInv, OutcomeIsTrue, SnapshotMatches, Replaced, Recorded, Backed
<1>3. QED
  BY <1>1, <1>2

THEOREM PromiseInvariant ==
  ASSUME "flagRead" \notin Faults
  PROVE  Spec => []PromiseInv
<1>1. IInv /\ IInv' /\ PromiseInv /\ [Next]_vars => PromiseInv'
  BY PromiseStep
<1>2. QED
  BY <1>1, PromiseInit, Invariant, PTL DEF Spec

\* A restore that reports rolled_back has put back every row it found, with its
\* blobs, and left none of its own; one that reports ok has replaced them all.
THEOREM OutcomeIsAlwaysTrue ==
  ASSUME "flagRead" \notin Faults
  PROVE  Spec => []OutcomeIsTrue
<1>1. PromiseInv => OutcomeIsTrue
  BY DEF PromiseInv, TruthInv
<1>2. QED
  BY <1>1, PromiseInvariant, PTL

\* Every step of the server, of a restore or of a boot is a step of the promise
\* or leaves it alone.
LEMMA PromisedStep ==
  ASSUME IInv, PromiseInv, [Next]_vars
  PROVE  [Promise!Next]_<<Inventory, ~tainted>>
<1> DEFINE Steps == [Promise!Next]_<<Inventory, ~tainted>>
<1>1. tainted \in BOOLEAN /\ tainted' \in BOOLEAN
  BY TypeFlagStep DEF IInv, TypeOK, HistoryOK
<1>2. CASE UNCHANGED vars
  BY <1>2 DEF vars, db, flag, schemas, history, Inventory, RecoverableParents,
     RecoverableChildren, Recorded
<1>3. CASE Next /\ tainted
  <2>1. tainted'
    BY <1>1, <1>3, TaintStays DEF IInv
  <2>2. QED
    BY <1>1, <1>3, <2>1 DEF Inventory
<1>4. CASE Next /\ ~tainted /\ tainted'
  BY <1>1, <1>4 DEF Inventory, Promise!Next, Promise!LoseTrust, Promise!Unknown
<1>5. ASSUME Next, ~tainted, ~tainted'
      PROVE  Steps
  <2>1. Inventory = <<LiveParents, LiveChildren>> /\ Inventory' = <<LiveParents', LiveChildren'>>
    BY <1>1, <1>5 DEF Inventory, LiveParents, LiveChildren
  <2>2. CASE Steady
    BY <1>1, <1>5, <2>1, <2>2 DEF Steady
  <2>3. CASE Taken
    BY <1>1, <1>5, <2>1, <2>3 DEF Taken, Promise!Next, Promise!Replace
  <2>4. ASSUME NEW w \in Uploaders, LiveParents' = LiveParents,
               LiveChildren' = LiveChildren \union {w}
        PROVE Steps
    BY <1>1, <1>5, <2>1, <2>4 DEF Promise!Next, Promise!AddChild
  <2>5. ASSUME NEW w \in Creators, LiveParents' = LiveParents \union {w},
               LiveChildren' = LiveChildren \union {w}
        PROVE Steps
    BY <1>1, <1>5, <2>1, <2>5 DEF Promise!Next, Promise!AddBoth
  <2> HIDE DEF Steps
  <2>6. ASSUME StartRestore \/ Restoring \/ Crash \/ Recovering
        PROVE  Steps
    BY <1>5, <2>2, <2>3, <2>6, TurnStep
  <2>7. ASSUME NEW w \in Uploaders, Upload(w)
        PROVE  Steps
    <3>1. w \in Requests
      BY DEF Requests
    <3>2. \/ Steady
          \/ w \in Uploaders /\ LiveParents' = LiveParents
                              /\ LiveChildren' = LiveChildren \union {w}
          \/ w \in Creators /\ LiveParents' = LiveParents \union {w}
                             /\ LiveChildren' = LiveChildren \union {w}
      BY <1>5, <2>7, <3>1, RequestTurn
    <3>3. QED
      BY <2>2, <2>4, <2>5, <3>2
  <2>8. ASSUME NEW w \in Creators, Create(w)
        PROVE  Steps
    <3>1. w \in Requests
      BY DEF Requests
    <3>2. \/ Steady
          \/ w \in Uploaders /\ LiveParents' = LiveParents
                              /\ LiveChildren' = LiveChildren \union {w}
          \/ w \in Creators /\ LiveParents' = LiveParents \union {w}
                             /\ LiveChildren' = LiveChildren \union {w}
      BY <1>5, <2>8, <3>1, RequestTurn
    <3>3. QED
      BY <2>2, <2>4, <2>5, <3>2
  <2>9. QED
    BY <1>5, <2>6, <2>7, <2>8 DEF Next
<1>6. QED
  BY <1>1, <1>2, <1>3, <1>4, <1>5

\* Whatever stops or fails, a restore replaces the whole inventory or nothing:
\* the restore, its undoing and the recovery at the next boot implement
\* InventoryReplacement.
THEOREM AlwaysAllOrNothing ==
  ASSUME "flagRead" \notin Faults
  PROVE  Spec => AllOrNothing
<1>1. Init => Promise!Init
  BY DEF Init, Promise!Init, Inventory, RecoverableParents, RecoverableChildren, Recorded
<1>2. IInv /\ PromiseInv /\ [Next]_vars => [Promise!Next]_Promise!vars
  BY PromisedStep DEF Promise!vars
<1>3. QED
  BY <1>1, <1>2, Invariant, PromiseInvariant, PTL DEF Spec, AllOrNothing, Promise!Spec
=============================================================================
