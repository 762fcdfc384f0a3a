------------------------------ MODULE Restore ------------------------------
(***************************************************************************)
(* The restore of a backup bundle over a running instance                  *)
(* (src/backup/restore-service.ts), the maintenance envelope it runs in    *)
(* and the recovery of an interrupted restore at the next boot             *)
(* (src/backup/maintenance.ts), together with the ordinary requests that   *)
(* keep writing to the same database and upload directory meanwhile.       *)
(*                                                                         *)
(* A restore changes two stores that share no transaction: the tables of   *)
(* schema public, and the directory of blobs those rows point at.  The     *)
(* durable pieces that make the pair recoverable are the maintenance flag, *)
(* the snapshot schema the flag records, and the directory the old blobs   *)
(* are moved aside to.  One action is one SQL statement, one transaction   *)
(* or one file-system call; the server can stop between any two of them.   *)
(*                                                                         *)
(* A row is a member of Row: what the instance held at first (Base), what  *)
(* run r of restore brings (the row r), what a request adds.  The 21       *)
(* tables are the parents (user, firearm, magazine, ammo, accessory) and   *)
(* the children (everything with a foreign key to them); a blob is named   *)
(* after the child row that points at it.                                  *)
(***************************************************************************)
EXTENDS Naturals, FiniteSets

CONSTANTS
  Base,        \* rows of the instance before any restore
  Uploaders,   \* requests that add one child row and save its blob
  Creators,    \* requests that add a parent and a child row in one transaction
  MaxRestores, \* bound on the number of restore attempts
  MaxCrashes,  \* bound on the number of times the server stops
  Faults       \* which kinds of step may fail, a subset of FaultKinds

FaultKinds == {"infra",     \* a step of the envelope before anything live changes
               "promote",   \* the wipe+copy transaction or the swap-in rename
               "rollback",  \* a step that undoes a failed promote
               "cleanup",   \* dropping a schema or removing a directory left over
               "exit",      \* clearing the flag
               "flagRead",  \* reading the flag at boot
               "recovery"}  \* a step of the boot-time rollback

Runs == 1 .. MaxRestores
Requests == Uploaders \union Creators
Row == Base \union Requests \union Runs

ASSUME RestoreAssumption ==
  /\ MaxRestores \in Nat
  /\ MaxCrashes \in Nat
  /\ Faults \subseteq FaultKinds
  /\ Uploaders \intersect Creators = {}
  /\ Requests \intersect Base = {}
  /\ Runs \intersect (Base \union Requests) = {}

VARIABLES
  dbParent, dbChild,   \* the rows of schema public
  upload,              \* the blobs in the upload directory, or NoDir
  asides,              \* asides[r]: the pre-restore directory of run r, or NoDir
  flagActive,          \* restore_ops.maintenance_flag.active
  flagSnap,            \* its snapshot_schema: a run, or 0 for NULL
  snaps,               \* runs whose restore_snapshot_* schema exists
  snapParent, snapChild, \* the rows of those schemas
  staging,             \* runs whose staging schema and directory exist
  rpc,                 \* where the restore, or the boot, is
  run, force,          \* the restore's run id and option
  hadExisting,         \* BlobSwapHandle.hadExistingDir
  outcome,             \* what the last restore returned or threw
  wpc,                 \* where each request is
  crashes,
  raced,    \* history: requests in flight when a restore raised the flag
  tainted,  \* history: a restore began over what an earlier one left behind
  preRows   \* history: child rows when the flag was raised

db      == <<dbParent, dbChild>>
blobs   == <<upload, asides>>
flag    == <<flagActive, flagSnap>>
schemas == <<snaps, snapParent, snapChild>>
locals  == <<run, force, hadExisting>>
history == <<raced, tainted, preRows>>
vars == <<db, blobs, flag, schemas, staging, rpc, locals, outcome, wpc,
          crashes, history>>

-----------------------------------------------------------------------------
(* Helpers.                                                                *)

\* A directory of blobs, which may be absent.
Dir(S) == [exists |-> TRUE, blobs |-> S]
NoDir == [exists |-> FALSE, blobs |-> {}]

\* The names of the leftover pre-restore directories.
AsideRuns == {r \in Runs : asides[r].exists}

\* restoreBlobsFromNewestPreRestoreDir ranks the directories by the creation
\* stamp in their names, which grows with the run.
Newest(S) == CHOOSE r \in S : \A q \in S : q <= r

\* The foreign key from a child row to the parent row inserted with it.
ForeignKeysHold(parents, children) == (children \ Uploaders) \subseteq parents

Fails(kind) == kind \in Faults

InFlight == {w \in Requests : wpc[w] \in {"allowed", "saved", "checked"}}

Goto(l) == rpc' = l

-----------------------------------------------------------------------------
(* restore(): staging.  The advisory lock is held from StartRestore until  *)
(* rpc is "idle" again, so a second restore waits.                         *)

StartRestore ==
  /\ rpc = "idle"
  /\ run < MaxRestores
  /\ run' = run + 1
  /\ force' \in BOOLEAN
  /\ staging' = staging \union {run + 1}
  /\ tainted' = (tainted \/ flagActive \/ AsideRuns # {})
  /\ \/ Goto("manifest") /\ outcome' = "none"
     \/ Fails("infra") /\ Goto("idle") /\ outcome' = "error"
  /\ UNCHANGED <<db, blobs, flag, schemas, hadExisting, wpc, crashes,
                 raced, preRows>>

\* The version and the emptiness of the instance are both decided here, on
\* the bundle's first entry, before a row or a blob is staged.
ReadManifest ==
  /\ rpc = "manifest"
  /\ \/ Goto("cleanup") /\ outcome' = "version_mismatch"
     \/ ~force /\ dbParent # {} /\ Goto("cleanup") /\ outcome' = "refused_not_empty"
     \/ (force \/ dbParent = {}) /\ Goto("staging") /\ UNCHANGED outcome
  /\ UNCHANGED <<db, blobs, flag, schemas, staging, locals, wpc, crashes, history>>

\* Rows and blobs go to the staging area until the last chunk of the stream
\* has authenticated.
StageBundle ==
  /\ rpc = "staging"
  /\ \/ Goto("enter") /\ UNCHANGED outcome
     \/ Goto("cleanup") /\ outcome' \in {"wrong_password_or_tampered", "error"}
  /\ UNCHANGED <<db, blobs, flag, schemas, staging, locals, wpc, crashes, history>>

-----------------------------------------------------------------------------
(* promote().                                                              *)

\* An error before the swap leaves through the finally block, flag cleared.
Abandon == Goto("exit") /\ outcome' = "error"

EnterMaintenance ==
  /\ rpc = "enter"
  /\ \/ /\ flagActive' = TRUE
        /\ flagSnap' = 0
        /\ raced' = raced \union InFlight
        /\ preRows' = dbChild
        /\ Goto("snapParents")
        /\ UNCHANGED outcome
     \/ /\ Fails("infra")
        /\ Goto("cleanup")
        /\ outcome' = "error"
        /\ UNCHANGED <<flag, raced, preRows>>
  /\ UNCHANGED <<db, blobs, schemas, staging, locals, wpc, crashes, tainted>>

\* The snapshot is built table by table, each statement committed at once.
SnapshotParents ==
  /\ rpc = "snapParents"
  /\ snaps' = snaps \union {run}
  /\ \/ snapParent' = [snapParent EXCEPT ![run] = dbParent] /\ Goto("snapChildren")
        /\ UNCHANGED outcome
     \/ Fails("infra") /\ Abandon /\ UNCHANGED snapParent
  /\ UNCHANGED <<db, blobs, flag, snapChild, staging, locals, wpc, crashes, history>>

SnapshotChildren ==
  /\ rpc = "snapChildren"
  /\ \/ snapChild' = [snapChild EXCEPT ![run] = dbChild] /\ Goto("record")
        /\ UNCHANGED outcome
     \/ Fails("infra") /\ Abandon /\ UNCHANGED snapChild
  /\ UNCHANGED <<db, blobs, flag, snaps, snapParent, staging, locals, wpc, crashes,
                 history>>

\* Mutant: the snapshot is never recorded.
RecordSnapshotSkipped ==
  /\ rpc = "record"
  /\ Goto("beginSwap")
  /\ UNCHANGED <<db, blobs, flag, schemas, staging, locals, outcome, wpc, crashes, history>>

RecordSnapshot ==
  /\ rpc = "record"
  /\ \/ flagSnap' = run /\ Goto("beginSwap") /\ UNCHANGED outcome
     \/ Fails("infra") /\ Abandon /\ UNCHANGED flagSnap
  /\ UNCHANGED <<db, blobs, flagActive, schemas, staging, locals, wpc, crashes, history>>

BeginBlobSwap ==
  /\ rpc = "beginSwap"
  /\ \/ /\ hadExisting' = upload.exists
        /\ upload' = NoDir
        /\ asides' = IF upload.exists THEN [asides EXCEPT ![run] = upload] ELSE asides
        /\ Goto("promoteTx")
        /\ UNCHANGED outcome
     \/ Fails("infra") /\ Abandon /\ UNCHANGED <<blobs, hadExisting>>
  /\ UNCHANGED <<db, flag, schemas, staging, run, force, wpc, crashes, history>>

\* wipeLive and copySchemaToLive in one transaction.  The wipe ends with
\* DELETE FROM user, which waits for every open transaction that references
\* one, so no request commits between the wipe and the copy.
PromoteTransaction ==
  /\ rpc = "promoteTx"
  /\ \/ /\ dbParent' = {run}
        /\ dbChild' = {run}
        /\ Goto("finishSwap")
     \/ /\ Fails("promote")
        /\ Goto("undoRm")
        /\ UNCHANGED db
  /\ UNCHANGED <<blobs, flag, schemas, staging, locals, outcome, wpc, crashes, history>>

\* rename() onto the vacated path; it fails when a request has put a blob
\* there since (storage.save creates the directory it needs).
FinishBlobSwap ==
  /\ rpc = "finishSwap"
  /\ \/ /\ upload.blobs = {}
        /\ upload' = Dir({run})
        /\ Goto("dropSnapshot")
     \/ /\ upload.blobs # {} \/ Fails("promote")
        /\ Goto("rollbackDb")
        /\ UNCHANGED upload
  /\ UNCHANGED <<db, asides, flag, schemas, staging, locals, outcome, wpc, crashes, history>>

\* Mutant: the finally block runs whether or not the undoing failed.
GiveUpThroughExit == Goto("exit") /\ outcome' = "rollback_failed"

\* rollbackFailed: the flag and the snapshot stay, restore() throws.
GiveUp == Goto("cleanup") /\ outcome' = "rollback_failed"

\* Mutant: only the blobs are undone.
RollbackTransactionSkipped ==
  /\ rpc = "rollbackDb"
  /\ Goto("undoRm")
  /\ UNCHANGED <<db, blobs, flag, schemas, staging, locals, outcome, wpc, crashes, history>>

RollbackTransaction ==
  /\ rpc = "rollbackDb"
  /\ \/ /\ ForeignKeysHold(snapParent[run], snapChild[run])
        /\ dbParent' = snapParent[run]
        /\ dbChild' = snapChild[run]
        /\ Goto("undoRm")
        /\ UNCHANGED outcome
     \/ /\ ~ForeignKeysHold(snapParent[run], snapChild[run]) \/ Fails("rollback")
        /\ GiveUp
        /\ UNCHANGED db
  /\ UNCHANGED <<blobs, flag, schemas, staging, locals, wpc, crashes, history>>

\* undoBlobSwap: remove what is at the upload path ...
UndoRemoveUpload ==
  /\ rpc = "undoRm"
  /\ \/ upload' = NoDir /\ Goto("undoRename") /\ UNCHANGED outcome
     \/ Fails("rollback") /\ GiveUp /\ UNCHANGED upload
  /\ UNCHANGED <<db, asides, flag, schemas, staging, locals, wpc, crashes, history>>

\* ... and bring the directory moved aside back, or make an empty one.
UndoRenameAside ==
  /\ rpc = "undoRename"
  /\ \/ /\ hadExisting
        /\ upload.blobs = {}
        /\ upload' = asides[run]
        /\ asides' = [asides EXCEPT ![run] = NoDir]
        /\ Goto("dropRolledBack")
        /\ UNCHANGED outcome
     \/ /\ ~hadExisting
        /\ upload' = Dir(upload.blobs)
        /\ Goto("dropRolledBack")
        /\ UNCHANGED <<asides, outcome>>
     \/ /\ (hadExisting /\ upload.blobs # {}) \/ Fails("rollback")
        /\ GiveUp
        /\ UNCHANGED blobs
  /\ UNCHANGED <<db, flag, schemas, staging, locals, wpc, crashes, history>>

DropSchema(r) ==
  /\ snaps' = snaps \ {r}
  /\ snapParent' = [snapParent EXCEPT ![r] = {}]
  /\ snapChild' = [snapChild EXCEPT ![r] = {}]

\* After a clean rollback a failed DROP is only logged ...
DropSnapshotRolledBack ==
  /\ rpc = "dropRolledBack"
  /\ DropSchema(run) \/ (Fails("cleanup") /\ UNCHANGED schemas)
  /\ outcome' = "rolled_back"
  /\ Goto("exit")
  /\ UNCHANGED <<db, blobs, flag, staging, locals, wpc, crashes, history>>

\* ... after a success it is thrown, and the moved-aside directory stays.
DropSnapshot ==
  /\ rpc = "dropSnapshot"
  /\ \/ DropSchema(run) /\ Goto("commitSwap") /\ UNCHANGED outcome
     \/ Fails("cleanup") /\ Abandon /\ UNCHANGED schemas
  /\ UNCHANGED <<db, blobs, flag, staging, locals, wpc, crashes, history>>

CommitBlobSwap ==
  /\ rpc = "commitSwap"
  /\ \/ asides' = [asides EXCEPT ![run] = NoDir]
     \/ Fails("cleanup") /\ UNCHANGED asides
  /\ outcome' = "ok"
  /\ Goto("exit")
  /\ UNCHANGED <<db, upload, flag, schemas, staging, locals, wpc, crashes, history>>

ClearFlag == flagActive' = FALSE /\ flagSnap' = 0
\* Mutant: the flag is only cleared after a success.
ExitMaintenanceOnSuccess ==
  /\ rpc = "exit"
  /\ IF outcome = "ok" THEN ClearFlag ELSE UNCHANGED flag
  /\ Goto("cleanup")
  /\ UNCHANGED <<db, blobs, schemas, staging, locals, outcome, wpc, crashes, history>>

ExitMaintenance ==
  /\ rpc = "exit"
  /\ \/ ClearFlag /\ UNCHANGED outcome
     \/ Fails("exit") /\ outcome' = "error" /\ UNCHANGED flag
  /\ Goto("cleanup")
  /\ UNCHANGED <<db, blobs, schemas, staging, locals, wpc, crashes, history>>

\* restore()'s finally: both removals are caught and logged; the lock is freed.
CleanupStaging ==
  /\ rpc = "cleanup"
  /\ staging' = staging \ {run} \/ (Fails("cleanup") /\ UNCHANGED staging)
  /\ Goto("idle")
  /\ hadExisting' = FALSE
  /\ UNCHANGED <<db, blobs, flag, schemas, run, force, outcome, wpc, crashes, history>>

-----------------------------------------------------------------------------
(* recoverInterruptedRestore(): runs once at boot, before any request, and *)
(* does not take the advisory lock.                                        *)

BootStates == {"down", "readFlag", "rbDeleteChildren", "rbDeleteParents",
               "rbInsertParents", "rbInsertChildren", "rbRemoveUpload",
               "rbRenameAside", "rbDropSnapshot", "rbExit", "sweep"}

Serving == rpc \notin BootStates

\* The flag names a snapshot that exists.
Recorded == flagActive /\ flagSnap \in snaps

Crash ==
  /\ rpc # "down"
  /\ crashes < MaxCrashes
  /\ crashes' = crashes + 1
  /\ Goto("down")
  /\ wpc' = [w \in Requests |-> IF w \in InFlight THEN "lost" ELSE wpc[w]]
  /\ hadExisting' = FALSE
  /\ outcome' = "none"
  /\ UNCHANGED <<db, blobs, flag, schemas, staging, run, force, history>>

Boot ==
  /\ rpc = "down"
  /\ Goto("readFlag")
  /\ UNCHANGED <<db, blobs, flag, schemas, staging, locals, outcome, wpc, crashes, history>>

\* What a boot step leaves alone.
BootKeeps == UNCHANGED <<staging, locals, outcome, wpc, crashes, history>>

\* A failed step of the rollback leaves the flag and the snapshot in place.
RecoveryFails == Fails("recovery") /\ Goto("sweep")

\* Mutant: a flag without a snapshot is left up.
ReadFlagKeepsStale ==
  /\ rpc = "readFlag"
  /\ Goto(IF Recorded THEN "rbDeleteChildren" ELSE "sweep")
  /\ UNCHANGED <<db, blobs, flag, schemas>>
  /\ BootKeeps

ReadFlag ==
  /\ rpc = "readFlag"
  /\ \/ Goto(IF Recorded THEN "rbDeleteChildren" ELSE "rbExit")
     \/ Fails("flagRead") /\ Goto("rbExit")
     \/ flagActive /\ flagSnap # 0 /\ RecoveryFails
  /\ UNCHANGED <<db, blobs, flag, schemas>>
  /\ BootKeeps

\* rollbackLiveFromSnapshot: no transaction, one statement per table.
RollbackDeleteChildren ==
  /\ rpc = "rbDeleteChildren"
  /\ \/ dbChild' = {} /\ Goto("rbDeleteParents")
     \/ RecoveryFails /\ UNCHANGED dbChild
  /\ UNCHANGED <<dbParent, blobs, flag, schemas>>
  /\ BootKeeps

RollbackDeleteParents ==
  /\ rpc = "rbDeleteParents"
  /\ \/ dbParent' = {} /\ Goto("rbInsertParents")
     \/ RecoveryFails /\ UNCHANGED dbParent
  /\ UNCHANGED <<dbChild, blobs, flag, schemas>>
  /\ BootKeeps

RollbackInsertParents ==
  /\ rpc = "rbInsertParents"
  /\ \/ dbParent' = snapParent[flagSnap] /\ Goto("rbInsertChildren")
     \/ RecoveryFails /\ UNCHANGED dbParent
  /\ UNCHANGED <<dbChild, blobs, flag, schemas>>
  /\ BootKeeps

RollbackInsertChildren ==
  /\ rpc = "rbInsertChildren"
  /\ \/ /\ ForeignKeysHold(dbParent, snapChild[flagSnap])
        /\ dbChild' = snapChild[flagSnap]
        /\ Goto("rbRemoveUpload")
     \/ /\ ~ForeignKeysHold(dbParent, snapChild[flagSnap])
        /\ Goto("sweep")
        /\ UNCHANGED dbChild
     \/ RecoveryFails /\ UNCHANGED dbChild
  /\ UNCHANGED <<dbParent, blobs, flag, schemas>>
  /\ BootKeeps

\* Mutant: a failure to restore the blobs is swallowed.
RestoreBlobsSwallowed ==
  /\ rpc = "rbRemoveUpload"
  /\ \/ AsideRuns = {} /\ Goto("rbDropSnapshot") /\ UNCHANGED upload
     \/ AsideRuns # {} /\ upload' = NoDir /\ Goto("rbRenameAside")
     \/ Fails("recovery") /\ Goto("rbDropSnapshot") /\ UNCHANGED upload
  /\ UNCHANGED <<db, asides, flag, schemas>>
  /\ BootKeeps

\* restoreBlobsFromNewestPreRestoreDir: nothing to do without a directory
\* moved aside; otherwise the upload directory makes way for the newest one.
RestoreBlobsRemoveUpload ==
  /\ rpc = "rbRemoveUpload"
  /\ \/ AsideRuns = {} /\ Goto("rbDropSnapshot") /\ UNCHANGED upload
     \/ AsideRuns # {} /\ upload' = NoDir /\ Goto("rbRenameAside")
     \/ RecoveryFails /\ UNCHANGED upload
  /\ UNCHANGED <<db, asides, flag, schemas>>
  /\ BootKeeps

\* The stale directories are removed last, and failures to do so swallowed.
RestoreBlobsRename ==
  /\ rpc = "rbRenameAside"
  /\ \/ LET newest == Newest(AsideRuns)
        IN /\ upload' = asides[newest]
           /\ \E kept \in SUBSET (AsideRuns \ {newest}) :
                /\ kept = {} \/ Fails("cleanup")
                /\ asides' = [r \in Runs |-> IF r \in kept THEN asides[r] ELSE NoDir]
           /\ Goto("rbDropSnapshot")
     \/ RecoveryFails /\ UNCHANGED blobs
  /\ UNCHANGED <<db, flag, schemas>>
  /\ BootKeeps

DropRecoveredSnapshot ==
  /\ rpc = "rbDropSnapshot"
  /\ \/ DropSchema(flagSnap) /\ Goto("rbExit")
     \/ RecoveryFails /\ UNCHANGED schemas
  /\ UNCHANGED <<db, blobs, flag>>
  /\ BootKeeps

BootExitMaintenance ==
  /\ rpc = "rbExit"
  /\ ClearFlag \/ (Fails("exit") /\ UNCHANGED flag)
  /\ Goto("sweep")
  /\ UNCHANGED <<db, blobs, schemas>>
  /\ BootKeeps

\* Mutant: the sweep does not spare the recorded snapshot.
SweepEverySnapshot ==
  /\ rpc = "sweep"
  /\ snaps' = {}
  /\ snapParent' = [r \in Runs |-> {}] /\ snapChild' = [r \in Runs |-> {}]
  /\ staging' = {}
  /\ Goto("idle")
  /\ UNCHANGED <<db, blobs, flag, locals, outcome, wpc, crashes, history>>

\* sweepLeftoverSchemas and sweepLeftoverStagingDirs.  The snapshot an active
\* flag records is kept; a DROP or a removal that fails is logged.
Sweep ==
  /\ rpc = "sweep"
  /\ \E kept \in SUBSET snaps :
       /\ IF flagActive THEN snaps \intersect {flagSnap} \subseteq kept ELSE TRUE
       /\ \/ kept = IF flagActive THEN snaps \intersect {flagSnap} ELSE {}
          \/ Fails("cleanup")
          \/ Fails("flagRead") /\ kept = snaps
       /\ snaps' = kept
       /\ snapParent' = [r \in Runs |-> IF r \in kept THEN snapParent[r] ELSE {}]
       /\ snapChild' = [r \in Runs |-> IF r \in kept THEN snapChild[r] ELSE {}]
  /\ staging' = {} \/ (Fails("cleanup") /\ UNCHANGED staging)
  /\ Goto("idle")
  /\ UNCHANGED <<db, blobs, flag, locals, outcome, wpc, crashes, history>>

-----------------------------------------------------------------------------
(* Ordinary requests.  assertWritesAllowed reads the flag with a plain     *)
(* SELECT; the request's transaction commits some time later.              *)

StoreKeeps == UNCHANGED <<flag, schemas, staging, rpc, locals, outcome, crashes, history>>

Step(w, from, to) == Serving /\ wpc[w] = from /\ wpc' = [wpc EXCEPT ![w] = to]

\* createPhotos and createDocument authorise first, outside a transaction ...
AllowUpload(w) ==
  /\ Step(w, "idle", IF flagActive THEN "refused" ELSE "allowed")
  /\ UNCHANGED <<db, blobs>>
  /\ StoreKeeps

\* ... save the blob, creating the directory when it is not there ...
SaveBlob(w) ==
  /\ Step(w, "allowed", "saved")
  /\ upload' = Dir(upload.blobs \union {w})
  /\ UNCHANGED <<db, asides>>
  /\ StoreKeeps

DeleteBlob(w) == upload' = [upload EXCEPT !.blobs = @ \ {w}]

\* ... authorise again in the transaction that inserts the row ...
RecheckUpload(w) ==
  /\ \/ ~flagActive /\ Step(w, "saved", "checked") /\ UNCHANGED upload
     \/ flagActive /\ Step(w, "saved", "refused") /\ DeleteBlob(w)
  /\ UNCHANGED <<db, asides>>
  /\ StoreKeeps

\* ... and reclaim the blob when that transaction fails: the firearm may be
\* gone, or may be one the bundle brought back under the same id.
CommitUpload(w) ==
  /\ \/ /\ Step(w, "checked", "done")
        /\ dbParent # {}
        /\ dbChild' = dbChild \union {w}
        /\ UNCHANGED upload
     \/ Step(w, "checked", "refused") /\ DeleteBlob(w) /\ UNCHANGED dbChild
  /\ UNCHANGED <<dbParent, asides>>
  /\ StoreKeeps

\* bulkAddMagazines, createRangeSession: a parent row and its children in one
\* transaction that checks the flag first.
CheckCreate(w) ==
  /\ Step(w, "idle", IF flagActive THEN "refused" ELSE "checked")
  /\ UNCHANGED <<db, blobs>>
  /\ StoreKeeps

CommitCreate(w) ==
  /\ Step(w, "checked", "done")
  /\ dbParent' = dbParent \union {w}
  /\ dbChild' = dbChild \union {w}
  /\ UNCHANGED blobs
  /\ StoreKeeps

-----------------------------------------------------------------------------
Init ==
  /\ dbParent = Base /\ dbChild = Base
  /\ upload \in {Dir(Base)} \union (IF Base = {} THEN {NoDir} ELSE {})
  /\ asides = [r \in Runs |-> NoDir]
  /\ flagActive = FALSE /\ flagSnap = 0
  /\ snaps = {}
  /\ snapParent = [r \in Runs |-> {}] /\ snapChild = [r \in Runs |-> {}]
  /\ staging = {}
  /\ rpc = "idle"
  /\ run = 0 /\ force = FALSE /\ hadExisting = FALSE
  /\ outcome = "none"
  /\ wpc = [w \in Requests |-> "idle"]
  /\ crashes = 0
  /\ raced = {} /\ tainted = FALSE /\ preRows = Base

Restoring ==
  \/ ReadManifest \/ StageBundle \/ EnterMaintenance \/ SnapshotParents
  \/ SnapshotChildren \/ RecordSnapshot \/ BeginBlobSwap \/ PromoteTransaction
  \/ FinishBlobSwap \/ RollbackTransaction \/ UndoRemoveUpload \/ UndoRenameAside
  \/ DropSnapshotRolledBack \/ DropSnapshot \/ CommitBlobSwap \/ ExitMaintenance
  \/ CleanupStaging

Recovering ==
  \/ Boot \/ ReadFlag \/ RollbackDeleteChildren \/ RollbackDeleteParents
  \/ RollbackInsertParents \/ RollbackInsertChildren \/ RestoreBlobsRemoveUpload
  \/ RestoreBlobsRename \/ DropRecoveredSnapshot \/ BootExitMaintenance \/ Sweep

Upload(w) == AllowUpload(w) \/ SaveBlob(w) \/ RecheckUpload(w) \/ CommitUpload(w)
Create(w) == CheckCreate(w) \/ CommitCreate(w)

Next ==
  \/ StartRestore \/ Restoring \/ Crash \/ Recovering
  \/ \E w \in Uploaders : Upload(w)
  \/ \E w \in Creators : Create(w)

Spec == Init /\ [][Next]_vars

\* Once begun, a restore is driven to its end by the server, and a server that
\* stopped is started again (docker-compose.yml: restart: unless-stopped).
FairSpec == Spec /\ WF_vars(Restoring) /\ WF_vars(Recovering)
-----------------------------------------------------------------------------
(* Properties.                                                             *)

\* A directory that is absent holds nothing.
Dirs == {d \in [exists : BOOLEAN, blobs : SUBSET Row] : d.exists \/ d.blobs = {}}

RestoreStates == {"idle", "manifest", "staging", "enter", "snapParents", "snapChildren",
                  "record", "beginSwap", "promoteTx", "finishSwap", "rollbackDb", "undoRm",
                  "undoRename", "dropRolledBack", "dropSnapshot", "commitSwap", "exit",
                  "cleanup"}

Outcomes == {"none", "ok", "refused_not_empty", "wrong_password_or_tampered",
             "version_mismatch", "rolled_back", "error", "rollback_failed"}

\* The values each variable ranges over.
StoresOK ==
  /\ dbParent \in SUBSET Row /\ dbChild \in SUBSET Row
  /\ upload \in Dirs /\ asides \in [Runs -> Dirs]
EnvelopeOK ==
  /\ flagActive \in BOOLEAN /\ flagSnap \in 0 .. MaxRestores
  /\ snaps \in SUBSET Runs /\ staging \in SUBSET Runs
  /\ snapParent \in [Runs -> SUBSET Row] /\ snapChild \in [Runs -> SUBSET Row]
ControlOK ==
  /\ rpc \in RestoreStates \union BootStates
  /\ run \in 0 .. MaxRestores /\ force \in BOOLEAN /\ hadExisting \in BOOLEAN
  /\ rpc \in RestoreStates \ {"idle"} => run \in Runs
  /\ outcome \in Outcomes
  /\ wpc \in [Requests -> {"idle", "allowed", "saved", "checked", "done", "refused", "lost"}]
  /\ crashes \in 0 .. MaxCrashes
HistoryOK ==
  raced \in SUBSET Requests /\ tainted \in BOOLEAN /\ preRows \in SUBSET Row

TypeOK == StoresOK /\ EnvelopeOK /\ ControlOK /\ HistoryOK

\* What the next boot would bring back: the recorded snapshot while there is
\* one, else the live rows; the directory moved aside while there is a
\* snapshot and a directory, else the upload directory.
RecoverableParents == IF Recorded THEN snapParent[flagSnap] ELSE dbParent
RecoverableChildren == IF Recorded THEN snapChild[flagSnap] ELSE dbChild
RecoverableBlobs ==
  (IF Recorded /\ AsideRuns # {} THEN asides[Newest(AsideRuns)] ELSE upload).blobs

\* Every row that has a blob finds it.  A bulk-created row has none.
Backed(children, files) == children \ (raced \union Creators) \subseteq files

\* At every instant, also between two statements of a restore, of its undoing
\* and of the recovery itself, a server that stops here can be brought back to
\* rows whose blobs are there.  Left out: the rows of requests that were under
\* way when the flag was raised, and restores begun over leftovers.
AlwaysRecoverable == ~tainted => Backed(RecoverableChildren, RecoverableBlobs)

\* When ordinary writes are readmitted no row points at a blob that is gone.
OpenMeansBacked ==
  (rpc = "idle" /\ ~flagActive /\ ~tainted) => Backed(dbChild, upload.blobs)

\* A restore that reports rolled_back or ok tells the truth about both stores
\* (restore-service.ts: "rolls both stores back together").
OutcomeIsTrue ==
  (rpc = "exit" /\ ~tainted) =>
    /\ outcome = "rolled_back" => /\ preRows \subseteq dbChild
                                  /\ run \notin dbParent \union dbChild
                                  /\ Backed(dbChild, upload.blobs)
    /\ outcome = "ok" => /\ run \in dbParent /\ run \in dbChild
                         /\ dbChild \intersect preRows = {}
                         /\ run \in upload.blobs

\* A flag that stays up after a failed undo still names the snapshot to go
\* back to, so a later boot can.
StuckKeepsSnapshot ==
  (rpc = "cleanup" /\ outcome = "rollback_failed") => (Recorded /\ flagSnap = run)

\* The inventory of InventoryReplacement, less the rows of racing requests.
Inventory ==
  IF tainted THEN <<{}, {}>>
  ELSE <<RecoverableParents \ raced, RecoverableChildren \ raced>>

Promise == INSTANCE InventoryReplacement WITH inventory <- Inventory, trusted <- ~tainted

\* Whatever stops or fails, a restore replaces the whole inventory or nothing.
AllOrNothing == Promise!Spec

\* Writes are not refused for ever: a flag that is up comes down again, by the
\* end of the restore or by the next boot, or it waits for a boot with the
\* snapshot to go back to, because undoing a failed promote failed too.
WritesResume == flagActive ~> (~flagActive \/ (rpc = "idle" /\ Recorded))

\* A boot ends with the instance open for writes, however often the recovery
\* itself is interrupted and started over.
BootReopens == (rpc = "down") ~> (rpc = "idle" /\ ~flagActive)

\* Every flag that goes up comes down, by whoever is there to take it down.
FlagComesDown == WritesResume /\ BootReopens
-----------------------------------------------------------------------------
(* The inductive invariant behind AlwaysRecoverable, proved in             *)
(* RestoreProofs.                                                          *)

\* The child rows that must find their blob.
Needs(children) == children \ (raced \union Creators)

\* The part of promote() in which the flag is up.
Window == {"snapParents", "snapChildren", "record", "beginSwap", "promoteTx",
           "finishSwap", "rollbackDb", "undoRm", "undoRename", "dropRolledBack",
           "dropSnapshot", "commitSwap", "exit"}

\* From the swap to its end or its undoing.
Swapped == {"promoteTx", "finishSwap", "rollbackDb", "undoRm", "undoRename",
            "dropSnapshot"}

\* A request not yet done has no row anywhere; one that no restore overtook
\* still has its blob and sees the flag down; none survives a crash.
RequestOK(w) ==
  /\ wpc[w] # "done" => /\ w \notin dbChild
                        /\ \A r \in Runs : w \notin snapChild[r]
  /\ w \in InFlight \ raced => ~flagActive
  /\ (w \in Uploaders \ raced /\ wpc[w] \in {"saved", "checked"}) => w \in upload.blobs
  /\ w \in InFlight => Serving

RequestInv == \A w \in Requests : RequestOK(w)

\* The flag, the recorded snapshot and the result at each place of the restore
\* and of the boot.
FlagInv ==
  /\ rpc \in Window => flagActive
  /\ rpc \in Swapped \union {"beginSwap", "dropRolledBack"} => run \in snaps /\ flagSnap = run
  /\ rpc \in {"snapChildren", "record"} => run \in snaps /\ flagSnap = 0
  /\ rpc = "snapParents" => flagSnap = 0
  /\ rpc \in BootStates \ {"down", "readFlag", "rbExit", "sweep"} => Recorded
  /\ rpc = "rbRenameAside" => AsideRuns # {}
  /\ rpc \in RestoreStates \ {"idle", "exit", "cleanup"} => outcome = "none"
  /\ rpc = "exit" => outcome # "rollback_failed"
  /\ StuckKeepsSnapshot

\* Which directories are moved aside at each place, while no restore began
\* over leftovers.
AsidesInv ==
  /\ rpc \in {"manifest", "staging", "enter"} => ~flagActive
  /\ rpc \in {"commitSwap", "rbExit"} => ~Recorded
  /\ rpc \in {"manifest", "staging", "enter", "snapParents", "snapChildren", "record",
              "beginSwap", "dropRolledBack", "rbDropSnapshot"} => AsideRuns = {}
  /\ Recorded => AsideRuns \subseteq {flagSnap}
  /\ rpc \in Swapped => hadExisting = (AsideRuns # {})

\* Which rows the live tables still need, against what is there to back them.
NeedsInv ==
  /\ rpc = "record" => Needs(snapChild[run]) \subseteq upload.blobs
  /\ rpc \in {"record", "beginSwap", "promoteTx", "undoRm", "undoRename",
              "dropRolledBack"} => Needs(dbChild) \subseteq Needs(snapChild[run])
  /\ rpc \in {"rbRemoveUpload", "rbRenameAside", "rbDropSnapshot"} =>
       Needs(dbChild) \subseteq Needs(snapChild[flagSnap])
  /\ rpc \in Swapped /\ ~hadExisting => Needs(snapChild[run]) = {}
  /\ rpc \in {"finishSwap", "rollbackDb", "dropSnapshot"} => Needs(dbChild) \subseteq {run}
  /\ rpc = "dropSnapshot" => run \in upload.blobs
  /\ rpc = "exit" => Needs(dbChild) \subseteq upload.blobs

IInv == /\ TypeOK
        /\ RequestInv
        /\ FlagInv
        /\ ~tainted => AsidesInv /\ NeedsInv
        /\ AlwaysRecoverable
-----------------------------------------------------------------------------
(* What the inductive invariant needs besides for OutcomeIsTrue and for    *)
(* AllOrNothing, proved in RestoreProofs as well.                          *)

\* Where run has brought nothing into the tables yet, or has taken it out.
Unpromoted == {"manifest", "staging", "enter", "snapParents", "snapChildren", "record",
               "beginSwap", "promoteTx", "undoRm", "undoRename", "dropRolledBack"}

\* Rows appear when they are written and not before: a request's when it is
\* done, a run's once it has promoted; a run's snapshot never holds its own.
FreshInv ==
  /\ \A w \in Requests :
       wpc[w] # "done" => w \notin dbParent \union preRows /\ \A r \in Runs : w \notin snapParent[r]
  /\ \A r \in Runs : /\ run < r => r \notin dbParent \union dbChild
                     /\ \A q \in Runs : run < r \/ r = q => r \notin snapParent[q] \union snapChild[q]
  /\ rpc \in Unpromoted => run \notin dbParent \union dbChild
  /\ rpc \in Window => run \notin preRows

\* The tables hold what the snapshot of r does, or what run brought, but for
\* the rows of requests a restore overtook.
SnapshotMatches(r) ==
  snapParent[r] \ raced = dbParent \ raced /\ snapChild[r] \ raced = dbChild \ raced
Replaced == dbParent \ raced = {run} /\ dbChild \ raced = {run}

\* The tables against the snapshot at each place.
SameInv ==
  /\ rpc = "snapChildren" => snapParent[run] \ raced = dbParent \ raced
  /\ rpc \in {"record", "beginSwap", "promoteTx", "undoRm", "undoRename",
              "dropRolledBack"} => SnapshotMatches(run)
  /\ rpc \in {"finishSwap", "rollbackDb", "dropSnapshot", "commitSwap"} => Replaced
  /\ rpc = "exit" /\ Recorded => SnapshotMatches(flagSnap) \/ Replaced
  /\ rpc = "rbInsertChildren" => dbParent = snapParent[flagSnap]
  /\ rpc \in {"rbRemoveUpload", "rbRenameAside", "rbDropSnapshot"} =>
       dbParent = snapParent[flagSnap] /\ dbChild = snapChild[flagSnap]

\* What the restore found is in the tables, or in the snapshot, or gone for
\* what it brought.
TruthInv ==
  /\ rpc \in {"snapParents", "snapChildren", "record", "beginSwap", "promoteTx", "undoRm",
              "undoRename", "dropRolledBack"} => preRows \subseteq dbChild
  /\ rpc \in {"record", "beginSwap", "promoteTx", "finishSwap", "rollbackDb"} =>
       preRows \subseteq snapChild[run]
  /\ rpc \in {"finishSwap", "rollbackDb", "dropSnapshot", "commitSwap"} =>
       run \in dbParent /\ run \in dbChild /\ dbChild \intersect preRows = {}
  /\ rpc \in {"dropSnapshot", "commitSwap"} => run \in upload.blobs
  /\ OutcomeIsTrue

PromiseInv == FreshInv /\ SameInv /\ TruthInv
=============================================================================
