------------------------------ MODULE Gallery ------------------------------
(***************************************************************************)
(* The photos and documents of one firearm, their blobs, and the sweep     *)
(* that reclaims blobs nothing refers to (src/domain/firearm-photos,       *)
(* src/domain/firearm-documents, deleteFirearm of src/domain/firearms,     *)
(* src/storage/orphan-sweep.ts).                                           *)
(*                                                                         *)
(* A session is one call of the service.  Its transaction runs under READ  *)
(* COMMITTED: a statement reads the committed rows and the session's own   *)
(* writes (tx[s]), waits for a row another open transaction has written,   *)
(* and looks at that row again when the wait is over.  One action is one   *)
(* statement, one blob being saved, or a COMMIT.                           *)
(*                                                                         *)
(* An item is a photo or a document.  Its blobs (an original and two       *)
(* derivatives for a photo, one file for a document) are all there, some   *)
(* of them, or none; what a failed deletion leaves counts as some.  The    *)
(* gallery order and the captions are left out:                            *)
(* which photo comes next is open, and a reorder only locks rows.          *)
(***************************************************************************)
EXTENDS Naturals, FiniteSets

CONSTANTS
  Photos, Documents, \* the items there can be
  Stored,            \* the items the firearm has at first
  Session,           \* calls of the service
  Owners,            \* the calls made by the owner; the others hold an edit grant
  Files,             \* Files[s]: the new items the call s brings when it uploads
  Role,              \* Role[s]: the operations call s may be
  MaxPhotos, MaxDocuments, \* MAX_PHOTOS_PER_FIREARM, MAX_DOCUMENTS_PER_FIREARM
  MaxStops,          \* bound on the number of times the server stops
  MaxSweeps,         \* bound on the number of sweeps
  Faults             \* what may fail, a subset of FaultKinds

Item == Photos \union Documents
Uploads == {"createPhotos", "createDocuments"}
Removals == {"deletePhoto", "deleteDocument", "deleteFirearm"}
Operations == Uploads \union Removals \union {"setPrimary", "reorderPhotos"}
FaultKinds == {"process",  \* a file is invalid or cannot be processed
               "save",     \* storage.save
               "delete",   \* storage.delete
               "tx",       \* a statement or the COMMIT of a transaction
               "ackLost"}  \* the answer to a COMMIT that went through

ASSUME GalleryAssumption ==
  /\ Photos \intersect Documents = {}
  /\ IsFiniteSet(Item)
  /\ Stored \subseteq Item
  /\ Owners \subseteq Session
  /\ Files \in [Session -> SUBSET (Item \ Stored)]
  /\ \A r, s \in Session : r # s => Files[r] \intersect Files[s] = {}
  /\ Role \in [Session -> SUBSET Operations]
  /\ MaxPhotos \in Nat /\ MaxDocuments \in Nat
  /\ MaxStops \in Nat /\ MaxSweeps \in Nat
  /\ Cardinality(Stored \intersect Photos) <= MaxPhotos
  /\ Cardinality(Stored \intersect Documents) <= MaxDocuments
  /\ Faults \subseteq FaultKinds

VARIABLES
  firearmLive,  \* the firearm row is there
  rows,         \* committed firearm_photo and firearm_document rows
  primary,      \* the committed photo rows with is_primary
  blobs,        \* blobs[i]: "none", "some" or "all" files of the item
  old,          \* items whose files have reached ORPHAN_MIN_AGE_MS
  editors,      \* calls whose actor may edit the firearm now
  pc, op,       \* where each call is, and what it does
  todo,         \* files an upload, or rows a reorder, has not come to yet
  keys,         \* items whose blobs the call must reclaim, at once or if it fails
  arg,          \* the item of the call's next statement
  seen,         \* primary rows an earlier statement of the call found
  tx,           \* the uncommitted writes of the call
  sweep,        \* the orphan sweep: [pc, listed, owned]
  sweeps, stops,
  cut,      \* history: uploads whose grant was revoked before their transaction
  unsure,   \* history: items of uploads whose COMMIT went unanswered
  failed,   \* history: a blob could not be deleted, or a call was cut short
  overlap   \* history: two transactions of which one moves the primary overlapped

tables  == <<firearmLive, rows, primary>>
locals  == <<op, todo, keys, arg, seen>>
history == <<cut, unsure, failed, overlap>>
vars == <<tables, blobs, old, editors, pc, locals, tx, sweep, sweeps,
          stops, history>>

None == "none"
NoTx == [ins |-> {}, del |-> {}, set |-> {}, clear |-> {}, moved |-> {}]
IdleSweep == [pc |-> "idle", listed |-> {}, owned |-> {}]

-----------------------------------------------------------------------------
(* Rows, locks and the index.                                              *)

Fails(kind) == kind \in Faults

Kind(o) == IF o = "createPhotos" THEN Photos ELSE Documents
Quota(o) == IF o = "createPhotos" THEN MaxPhotos ELSE MaxDocuments
OverQuota(o, new) == Cardinality(rows \intersect Kind(o)) + Cardinality(new) > Quota(o)

\* authorizeUpdate, or the owner-only gate of documents and deletions.
MayEdit(s) == firearmLive /\ s \in editors
MayOwn(s) == firearmLive /\ s \in Owners
Authorized(s, o) ==
  IF o \in {"createPhotos", "deletePhoto", "setPrimary", "reorderPhotos"}
  THEN MayEdit(s) ELSE MayOwn(s)

\* Calls inside a transaction, and those that hold the row of the firearm.
TxStates == {"lock", "existing", "insert", "delete", "next", "promote", "scan", "clear",
             "set", "reorder", "collectPhotos", "collectDocs", "cascade", "commit"}
HoldsFirearm(s) ==
  \/ pc[s] \in {"existing", "insert"}
  \/ pc[s] = "commit" /\ op[s] \in Uploads \union {"deleteFirearm"}

\* The committed rows an open transaction has written, and so locks.
Written(s) == tx[s].del \union tx[s].set \union tx[s].clear \union tx[s].moved

\* The rows the next statement of a call writes.
Touches(s) ==
  CASE pc[s] \in {"delete", "promote", "set", "reorder"} -> {arg[s]}
    [] pc[s] = "clear" -> seen[s]
    [] pc[s] = "cascade" -> rows
    [] OTHER -> {}

\* The next statement makes a photo primary.
Promotes(s) ==
  \/ pc[s] \in {"promote", "set"} /\ arg[s] \in rows
  \/ pc[s] = "insert" /\ op[s] = "createPhotos" /\ seen[s] = {}

\* The partial unique index firearm_photo_one_primary_per_firearm: making p
\* primary fails on a committed primary that is going to stay ...
IndexRefuses(s, p) ==
  \E q \in primary \ {p} : q \notin tx[s].clear \union tx[s].del

\* ... and waits for an open transaction that could still decide.
IndexWaits(s, r) ==
  Promotes(s) /\ (tx[r].set \union (primary \intersect Written(r))) \ Touches(s) # {}

\* Mutant: SELECT ... FOR UPDATE without its FOR UPDATE.
WaitsForRowsOnly(s, r) ==
  r # s /\ (Touches(s) \intersect Written(r) # {} \/ IndexWaits(s, r))

\* The next statement of call s waits for the transaction of call r.
WaitsFor(s, r) ==
  /\ r # s
  /\ \/ Touches(s) \intersect Written(r) # {}
     \/ pc[s] \in {"lock", "cascade"} /\ HoldsFirearm(r)
     \/ IndexWaits(s, r)

Free(s) == \A r \in Session : ~WaitsFor(s, r)

-----------------------------------------------------------------------------
(* Shapes of a step of a call.                                             *)

Goto(s, l) == pc' = [pc EXCEPT ![s] = l]
StaticKeeps == UNCHANGED <<old, editors, sweep, sweeps, stops, cut, unsure>>

\* Moving the primary, or deciding that there is none to move, next to another
\* open transaction of the gallery.
MovesPrimary(o) == o \in {"deletePhoto", "setPrimary"}
InTx(s) == pc[s] \in TxStates
Overlaps(s, o) ==
  \E r \in Session \ {s} : InTx(r) /\ (MovesPrimary(op[r]) \/ MovesPrimary(o))

\* A statement that only reads, or fails before it writes.
Reads == UNCHANGED <<tables, blobs, tx, failed, overlap>> /\ StaticKeeps

\* A statement that locks or writes within the transaction.
OnlyTx == UNCHANGED <<locals, tables, blobs, failed, overlap>> /\ StaticKeeps

\* A transaction that begins.
Begins(s, o) ==
  /\ overlap' = (overlap \/ Overlaps(s, o))
  /\ UNCHANGED <<tables, blobs, failed>>
  /\ StaticKeeps

\* Mutant: the transaction of an upload is outside the try block.
GiveUpWithoutReclaim(s) ==
  /\ tx' = [tx EXCEPT ![s] = NoTx]
  /\ Goto(s, "done")

\* Mutant: a transaction that throws is left open.
GiveUpWithoutRollback(s) ==
  /\ Goto(s, IF op[s] \in Uploads THEN "reclaim" ELSE "done")
  /\ UNCHANGED tx

\* Leaving the call: an upload that failed deletes the blobs it saved, and a
\* removal deletes its blobs only once its rows are gone.
GiveUp(s) ==
  /\ tx' = [tx EXCEPT ![s] = NoTx]
  /\ Goto(s, IF op[s] \in Uploads THEN "reclaim" ELSE "done")

-----------------------------------------------------------------------------
(* createPhotos and createDocuments.                                       *)

\* Authorised first, outside any transaction.
StartUpload(s) ==
  /\ pc[s] = "idle"
  /\ \E o \in Role[s] \intersect Uploads :
       /\ Files[s] \intersect Kind(o) # {}
       /\ op' = [op EXCEPT ![s] = o]
       /\ todo' = [todo EXCEPT ![s] = Files[s] \intersect Kind(o)]
       /\ Goto(s, IF ~Authorized(s, o) THEN "done"
                  ELSE IF o = "createPhotos" THEN "quota" ELSE "validate")
  /\ UNCHANGED <<keys, arg, seen>>
  /\ Reads

\* Documents are validated and sniffed before the quota is looked at.
ValidateDocuments(s) ==
  /\ pc[s] = "validate"
  /\ \E bad \in SUBSET todo[s] :
       /\ bad = {} \/ Fails("process")
       /\ todo' = [todo EXCEPT ![s] = @ \ bad]
       /\ Goto(s, IF bad = todo[s] THEN "done" ELSE "quota")
  /\ UNCHANGED <<op, keys, arg, seen>>
  /\ Reads

\* The optimistic, unlocked quota check.
CheckQuota(s) ==
  /\ pc[s] = "quota"
  /\ Goto(s, IF OverQuota(op[s], todo[s]) THEN "done" ELSE "saving")
  /\ UNCHANGED locals
  /\ Reads

\* Where an upload is once its next file is dealt with.
AfterFile(s, left, saved) ==
  Goto(s, IF left # {} THEN "saving" ELSE IF saved # {} THEN "begin" ELSE "done")

\* One file: rejected, or its first blob is written ...
BeginSave(s) ==
  /\ pc[s] = "saving"
  /\ \E i \in todo[s] :
       /\ todo' = [todo EXCEPT ![s] = @ \ {i}]
       /\ \/ /\ op[s] = "createPhotos" /\ Fails("process")
             /\ AfterFile(s, todo[s] \ {i}, keys[s])
             /\ UNCHANGED <<blobs, arg>>
          \/ /\ blobs' = [blobs EXCEPT ![i] = "some"]
             /\ arg' = [arg EXCEPT ![s] = i]
             /\ Goto(s, "writing")
  /\ UNCHANGED <<tables, op, keys, seen, tx, failed, overlap>>
  /\ StaticKeeps

\* ... and then the others; when one fails those written are deleted again.
EndSave(s) ==
  /\ pc[s] = "writing"
  /\ \/ /\ blobs' = [blobs EXCEPT ![arg[s]] = "all"]
        /\ keys' = [keys EXCEPT ![s] = @ \union {arg[s]}]
        /\ AfterFile(s, todo[s], keys[s] \union {arg[s]})
        /\ UNCHANGED failed
     \/ /\ Fails("save")
        /\ \E left \in {"none", "some"} :
             /\ left = "some" => Fails("delete")
             /\ blobs' = [blobs EXCEPT ![arg[s]] = left]
             /\ failed' = (failed \/ left = "some")
        /\ AfterFile(s, todo[s], keys[s])
        /\ UNCHANGED keys
  /\ arg' = [arg EXCEPT ![s] = None]
  /\ UNCHANGED <<tables, op, todo, seen, tx, overlap>>
  /\ StaticKeeps

\* Mutant: the upload is not authorised again.
BeginUploadTrusting(s) ==
  /\ pc[s] = "begin"
  /\ Goto(s, "lock")
  /\ UNCHANGED <<locals, tx>>
  /\ Begins(s, op[s])

\* The transaction authorises again, and a refusal throws out of it ...
BeginUpload(s) ==
  /\ pc[s] = "begin"
  /\ IF Authorized(s, op[s]) THEN Goto(s, "lock") /\ UNCHANGED tx ELSE GiveUp(s)
  /\ UNCHANGED locals
  /\ Begins(s, op[s])

\* ... then SELECT ... FOR UPDATE of the firearm ...
LockFirearm(s) ==
  /\ pc[s] = "lock"
  /\ Free(s)
  /\ IF firearmLive THEN Goto(s, "existing") /\ UNCHANGED tx ELSE GiveUp(s)
  /\ OnlyTx

\* ... the quota that counts, and whether the gallery has a primary ...
ReadExisting(s) ==
  /\ pc[s] = "existing"
  /\ seen' = [seen EXCEPT ![s] = primary]
  /\ IF OverQuota(op[s], keys[s]) THEN GiveUp(s) ELSE Goto(s, "insert") /\ UNCHANGED tx
  /\ UNCHANGED <<op, todo, keys, arg, tables, blobs, failed, overlap>>
  /\ StaticKeeps

\* ... and the rows, the first photo primary when there was none.
InsertRows(s) ==
  /\ pc[s] = "insert"
  /\ Free(s)
  /\ IF Promotes(s)
     THEN \E p \in keys[s] :
            IF IndexRefuses(s, p) THEN GiveUp(s)
            ELSE /\ tx' = [tx EXCEPT ![s].ins = keys[s], ![s].set = {p}]
                 /\ Goto(s, "commit")
     ELSE tx' = [tx EXCEPT ![s].ins = keys[s]] /\ Goto(s, "commit")
  /\ OnlyTx

-----------------------------------------------------------------------------
(* deletePhoto, deleteDocument and setPrimary.                             *)

\* The row is looked up and its firearm authorised, in the transaction.
StartOnItem(s) ==
  /\ pc[s] = "idle"
  /\ \E o \in Role[s] \intersect {"deletePhoto", "deleteDocument", "setPrimary"} :
       /\ \E i \in rows \intersect (IF o = "deleteDocument" THEN Documents ELSE Photos) :
            arg' = [arg EXCEPT ![s] = i]
       /\ op' = [op EXCEPT ![s] = o]
       /\ Goto(s, IF ~Authorized(s, o) THEN "done"
                  ELSE IF o = "setPrimary" THEN "scan" ELSE "delete")
       /\ Begins(s, o)
  /\ UNCHANGED <<todo, keys, seen, tx>>

\* DELETE ... RETURNING: no row, not found.
DeleteRow(s) ==
  /\ pc[s] = "delete"
  /\ Free(s)
  /\ IF arg[s] \in rows
     THEN /\ tx' = [tx EXCEPT ![s].del = {arg[s]}]
          /\ keys' = [keys EXCEPT ![s] = {arg[s]}]
          /\ Goto(s, IF arg[s] \in primary THEN "next" ELSE "commit")
     ELSE GiveUp(s) /\ UNCHANGED keys
  /\ UNCHANGED <<op, todo, arg, seen, tables, blobs, failed, overlap>>
  /\ StaticKeeps

\* Mutant: a deleted primary has no successor.
SelectNextNone(s) ==
  /\ pc[s] = "next"
  /\ Goto(s, "commit")
  /\ UNCHANGED locals
  /\ Reads

\* The next photo in gallery order, read without a lock ...
SelectNext(s) ==
  /\ pc[s] = "next"
  /\ LET others == (rows \intersect Photos) \ {arg[s]}
     IN IF others = {} THEN Goto(s, "commit") /\ UNCHANGED arg
        ELSE /\ \E q \in others : arg' = [arg EXCEPT ![s] = q]
             /\ Goto(s, "promote")
  /\ UNCHANGED <<op, todo, keys, seen>>
  /\ Reads

\* UPDATE ... SET is_primary = true WHERE id = arg: a row gone by now is no
\* error.  The last statement of deletePhoto and of setPrimary.
MakePrimary(s) ==
  /\ pc[s] \in {"promote", "set"}
  /\ Free(s)
  /\ IF arg[s] \notin rows THEN Goto(s, "commit") /\ UNCHANGED tx
     ELSE IF IndexRefuses(s, arg[s]) THEN GiveUp(s)
     ELSE tx' = [tx EXCEPT ![s].set = {arg[s]}] /\ Goto(s, "commit")
  /\ OnlyTx

\* setPrimary clears the rows its UPDATE found primary, those that still are
\* when their locks are free.
ScanPrimary(s) ==
  /\ pc[s] = "scan"
  /\ seen' = [seen EXCEPT ![s] = primary]
  /\ Goto(s, "clear")
  /\ UNCHANGED <<op, todo, keys, arg>>
  /\ Reads

ClearPrimary(s) ==
  /\ pc[s] = "clear"
  /\ Free(s)
  /\ tx' = [tx EXCEPT ![s].clear = seen[s] \intersect primary]
  /\ Goto(s, "set")
  /\ OnlyTx

-----------------------------------------------------------------------------
(* reorderPhotos, and setCaption as a list of one.                         *)

StartReorder(s) ==
  /\ pc[s] = "idle"
  /\ "reorderPhotos" \in Role[s]
  /\ \E list \in SUBSET (rows \intersect Photos) \ {{}} : todo' = [todo EXCEPT ![s] = list]
  /\ op' = [op EXCEPT ![s] = "reorderPhotos"]
  /\ Goto(s, IF Authorized(s, "reorderPhotos") THEN "reorder" ELSE "done")
  /\ UNCHANGED <<keys, arg, seen, tx>>
  /\ Begins(s, "reorderPhotos")

\* One UPDATE per photo, in the order of the client's list.
MovePhoto(s) ==
  /\ pc[s] = "reorder"
  /\ IF arg[s] = None
     THEN /\ \E i \in todo[s] : arg' = [arg EXCEPT ![s] = i]
          /\ UNCHANGED <<todo, tx, pc>>
     ELSE /\ Free(s)
          /\ todo' = [todo EXCEPT ![s] = @ \ {arg[s]}]
          /\ tx' = [tx EXCEPT ![s].moved = @ \union ({arg[s]} \intersect rows)]
          /\ arg' = [arg EXCEPT ![s] = None]
          /\ Goto(s, IF todo'[s] = {} THEN "commit" ELSE "reorder")
  /\ UNCHANGED <<op, keys, seen, tables, blobs, failed, overlap>>
  /\ StaticKeeps

-----------------------------------------------------------------------------
(* deleteFirearm: the keys are collected before the row is deleted.        *)

StartDeleteFirearm(s) ==
  /\ pc[s] = "idle"
  /\ "deleteFirearm" \in Role[s]
  /\ op' = [op EXCEPT ![s] = "deleteFirearm"]
  /\ Goto(s, IF Authorized(s, "deleteFirearm") THEN "collectPhotos" ELSE "done")
  /\ UNCHANGED <<todo, keys, arg, seen, tx>>
  /\ Begins(s, "deleteFirearm")

CollectPhotos(s) ==
  /\ pc[s] = "collectPhotos"
  /\ keys' = [keys EXCEPT ![s] = rows \intersect Photos]
  /\ Goto(s, "collectDocs")
  /\ UNCHANGED <<op, todo, arg, seen>>
  /\ Reads

CollectDocuments(s) ==
  /\ pc[s] = "collectDocs"
  /\ keys' = [keys EXCEPT ![s] = @ \union (rows \intersect Documents)]
  /\ Goto(s, "cascade")
  /\ UNCHANGED <<op, todo, arg, seen>>
  /\ Reads

\* DELETE of the firearm, which cascades to the rows there are by then.
Cascade(s) ==
  /\ pc[s] = "cascade"
  /\ Free(s)
  /\ IF firearmLive
     THEN tx' = [tx EXCEPT ![s].del = rows] /\ Goto(s, "commit")
     ELSE GiveUp(s)
  /\ OnlyTx

-----------------------------------------------------------------------------
(* The end of a call.                                                      *)

TxFails(s) ==
  /\ InTx(s)
  /\ Fails("tx")
  /\ GiveUp(s)
  /\ OnlyTx

\* Calls that wait for each other; the database aborts one of them.
Circle(W) == W # {} /\ \A s \in W : \E r \in W : WaitsFor(s, r)

Deadlock(s) ==
  /\ \E W \in SUBSET Session : s \in W /\ Circle(W)
  /\ GiveUp(s)
  /\ OnlyTx

\* The writes of a transaction become the committed state.
Apply(s) ==
  /\ firearmLive' = (firearmLive /\ op[s] # "deleteFirearm")
  /\ rows' = (rows \ tx[s].del) \union tx[s].ins
  /\ primary' = ((primary \ tx[s].clear) \ tx[s].del) \union tx[s].set

Commit(s) ==
  /\ pc[s] = "commit"
  /\ Apply(s)
  /\ tx' = [tx EXCEPT ![s] = NoTx]
  /\ Goto(s, IF op[s] \in Removals THEN "reclaim" ELSE "done")
  /\ UNCHANGED <<locals, blobs, failed, overlap>>
  /\ StaticKeeps

\* The COMMIT went through and the connection broke: the caller gets an error.
CommitUnanswered(s) ==
  /\ pc[s] = "commit"
  /\ Fails("ackLost")
  /\ Apply(s)
  /\ GiveUp(s)
  /\ unsure' = unsure \union tx[s].ins
  /\ failed' = (failed \/ op[s] \in Removals)
  /\ UNCHANGED <<locals, blobs, overlap, old, editors, sweep, sweeps, stops, cut>>

\* deletePhotoBlobs and deleteDocumentBlob: a blob that cannot be deleted is
\* logged and left to the sweep.
Reclaim(s) ==
  /\ pc[s] = "reclaim"
  /\ \E left \in SUBSET keys[s] :
       /\ left = {} \/ Fails("delete")
       /\ blobs' = [i \in Item |-> IF i \in left THEN "some"
                                  ELSE IF i \in keys[s] THEN "none" ELSE blobs[i]]
       /\ failed' = (failed \/ left # {})
  /\ Goto(s, "done")
  /\ UNCHANGED <<locals, tables, tx, overlap>>
  /\ StaticKeeps

-----------------------------------------------------------------------------
(* orphanSweep(), and the world around the calls.                          *)

CallsKeep == UNCHANGED <<tables, pc, locals, tx, editors, stops, cut, unsure, overlap>>

\* The upload directory is listed first ...
SweepList ==
  /\ sweep.pc = "idle"
  /\ sweeps < MaxSweeps
  /\ sweeps' = sweeps + 1
  /\ sweep' = [pc |-> "photos", listed |-> {i \in Item : blobs[i] # "none"}, owned |-> {}]
  /\ UNCHANGED <<blobs, old, failed>>
  /\ CallsKeep

\* ... then the photo rows, then the document rows.
SweepReadPhotos ==
  /\ sweep.pc = "photos"
  /\ sweep' = [sweep EXCEPT !.pc = "documents", !.owned = rows \intersect Photos]
  /\ UNCHANGED <<blobs, old, sweeps, failed>>
  /\ CallsKeep

SweepReadDocuments ==
  /\ sweep.pc = "documents"
  /\ sweep' = [sweep EXCEPT !.pc = "delete", !.owned = @ \union (rows \intersect Documents)]
  /\ UNCHANGED <<blobs, old, sweeps, failed>>
  /\ CallsKeep

\* Mutant: no minimum age.
OrphansOfAnyAge == sweep.listed \ sweep.owned
\* What the sweep takes for orphans old enough.
Orphans == (sweep.listed \ sweep.owned) \intersect old

SweepDelete ==
  /\ sweep.pc = "delete"
  /\ \E left \in SUBSET Orphans :
       /\ left = {} \/ Fails("delete")
       /\ blobs' = [i \in Item |-> IF i \in left THEN "some"
                                  ELSE IF i \in Orphans THEN "none" ELSE blobs[i]]
       /\ failed' = (failed \/ left # {})
  /\ sweep' = IdleSweep
  /\ UNCHANGED <<old, sweeps>>
  /\ CallsKeep

\* Files that a running upload may still give a row.
Uploading(i) ==
  \E s \in Session : /\ op[s] \in Uploads /\ pc[s] # "done"
                      /\ i \in keys[s] \union {arg[s]}

\* An hour goes by: longer than any upload and any sweep takes
\* (orphan-sweep.ts: "far longer than any upload's blob-write-to-commit window").
Age ==
  /\ sweep.pc = "idle"
  /\ \E i \in Item \ old :
       /\ blobs[i] # "none" /\ ~Uploading(i)
       /\ old' = old \union {i}
  /\ UNCHANGED <<blobs, sweep, sweeps, failed>>
  /\ CallsKeep

\* Where a revocation still comes before the transaction of an upload.
BeforeTx == {"quota", "saving", "writing", "begin"}

\* The owner revokes a grant.
Revoke(s) ==
  /\ s \in editors \ Owners
  /\ editors' = editors \ {s}
  /\ cut' = IF pc[s] \in BeforeTx THEN cut \union {s} ELSE cut
  /\ UNCHANGED <<tables, blobs, old, pc, locals, tx, sweep, sweeps, stops, unsure,
                 failed, overlap>>

\* The server stops; open transactions are rolled back.
Stop ==
  /\ stops < MaxStops
  /\ stops' = stops + 1
  /\ pc' = [s \in Session |-> IF pc[s] = "idle" THEN "idle" ELSE "done"]
  /\ tx' = [s \in Session |-> NoTx]
  /\ sweep' = IdleSweep
  /\ failed' = TRUE
  /\ UNCHANGED <<tables, blobs, old, editors, locals, sweeps, cut, unsure, overlap>>

-----------------------------------------------------------------------------
Init ==
  /\ firearmLive = TRUE
  /\ rows = Stored
  /\ primary \in IF Stored \intersect Photos = {} THEN {{}}
                  ELSE {{p} : p \in Stored \intersect Photos}
  /\ blobs = [i \in Item |-> IF i \in Stored THEN "all" ELSE "none"]
  /\ old = Stored
  /\ editors = Session
  /\ pc = [s \in Session |-> "idle"] /\ op = [s \in Session |-> None]
  /\ todo = [s \in Session |-> {}] /\ keys = [s \in Session |-> {}]
  /\ arg = [s \in Session |-> None] /\ seen = [s \in Session |-> {}]
  /\ tx = [s \in Session |-> NoTx]
  /\ sweep = IdleSweep
  /\ sweeps = 0 /\ stops = 0
  /\ cut = {} /\ unsure = {} /\ failed = FALSE /\ overlap = FALSE

Starts(s) ==
  StartUpload(s) \/ StartOnItem(s) \/ StartReorder(s) \/ StartDeleteFirearm(s)

Proceeds(s) ==
  \/ ValidateDocuments(s) \/ CheckQuota(s) \/ BeginSave(s) \/ EndSave(s)
  \/ BeginUpload(s) \/ LockFirearm(s) \/ ReadExisting(s) \/ InsertRows(s)
  \/ DeleteRow(s) \/ SelectNext(s) \/ MakePrimary(s) \/ ScanPrimary(s) \/ ClearPrimary(s)
  \/ MovePhoto(s) \/ CollectPhotos(s) \/ CollectDocuments(s) \/ Cascade(s)
  \/ Deadlock(s) \/ Commit(s) \/ CommitUnanswered(s) \/ Reclaim(s)

Sweeps == SweepList \/ SweepReadPhotos \/ SweepReadDocuments \/ SweepDelete

Next ==
  \/ \E s \in Session : Starts(s) \/ Proceeds(s) \/ TxFails(s) \/ Revoke(s)
  \/ Sweeps \/ Age \/ Stop

Spec == Init /\ [][Next]_vars
-----------------------------------------------------------------------------
(* Properties.                                                             *)

TxType == [ins : SUBSET Item, del : SUBSET Item, set : SUBSET Photos,
           clear : SUBSET Photos, moved : SUBSET Photos]

States == TxStates \union BeforeTx \union {"idle", "validate", "reclaim", "done"}

\* The values each variable ranges over.
TypeOK ==
  /\ firearmLive \in BOOLEAN
  /\ rows \in SUBSET Item /\ primary \in SUBSET Photos /\ old \in SUBSET Item
  /\ blobs \in [Item -> {"none", "some", "all"}]
  /\ editors \in SUBSET Session
  /\ pc \in [Session -> States] /\ op \in [Session -> Operations \union {None}]
  /\ todo \in [Session -> SUBSET Item] /\ keys \in [Session -> SUBSET Item]
  /\ arg \in [Session -> Item \union {None}] /\ seen \in [Session -> SUBSET Photos]
  /\ tx \in [Session -> TxType]
  /\ sweep \in [pc : {"idle", "photos", "documents", "delete"},
                listed : SUBSET Item, owned : SUBSET Item]
  /\ sweeps \in 0 .. MaxSweeps /\ stops \in 0 .. MaxStops
  /\ cut \in SUBSET Session /\ unsure \in SUBSET Item
  /\ failed \in BOOLEAN /\ overlap \in BOOLEAN

\* A committed row finds all its blobs, whatever uploads, deletions, failures,
\* stops and sweeps do: blobs are saved before the row and deleted after it.
\* Left out: rows of an upload whose COMMIT went unanswered.
RowsHaveBlobs == \A i \in rows \ unsure : blobs[i] = "all"

\* The quota is never exceeded, also by uploads that passed the unlocked check
\* together.
QuotaHolds ==
  /\ Cardinality(rows \intersect Photos) <= MaxPhotos
  /\ Cardinality(rows \intersect Documents) <= MaxDocuments

\* Two calls that move the primary at once leave at most one.
AtMostOnePrimary == \A p, q \in primary : p = q

\* A gallery with photos has a primary, unless two transactions overlapped of
\* which one moves it.
PrimaryKept == ~overlap => (rows \intersect Photos # {} => primary # {})

\* What the list of firearms and the gallery take for granted of the photos: as many
\* as allowed, and one of them the cover.
GalleryIsSound == QuotaHolds /\ AtMostOnePrimary /\ PrimaryKept

\* An upload whose grant is revoked while its images are processed leaves no row.
RevokedUploadLeavesNothing ==
  \A s \in cut : op[s] = "createPhotos" => rows \intersect Files[s] = {}

Quiet == \A s \in Session : pc[s] \in {"idle", "done"}

\* Every call that gives up after saving blobs deletes them: without a failed
\* deletion or a stop, a blob without a row only comes from the deletion of the
\* firearm.
OrphansAreExplained ==
  (Quiet /\ ~failed /\ firearmLive) => \A i \in Item : blobs[i] # "none" => i \in rows

\* What calls, sweeps, failures and stops leave in the table and in the upload
\* directory, together.
RowsAreSound ==
  TypeOK /\ RowsHaveBlobs /\ RevokedUploadLeavesNothing /\ OrphansAreExplained

\* No call is stuck: whatever a transaction locks it gives up, also when it is
\* aborted, and the only circles of waits are those the database breaks.
CallsNeverStick ==
  ~Quiet => \E s \in Session : ENABLED Proceeds(s)
-----------------------------------------------------------------------------
(* The inductive invariant behind GalleryIsSound and RowsAreSound, proved  *)
(* in GalleryProofs.                                                       *)

\* Where a call of each operation can be.
PlaceInv(s) ==
  /\ pc[s] \in BeforeTx \union {"validate", "lock", "existing", "insert"} => op[s] \in Uploads
  /\ pc[s] = "delete" => op[s] \in {"deletePhoto", "deleteDocument"}
  /\ pc[s] \in {"next", "promote"} => op[s] = "deletePhoto"
  /\ pc[s] \in {"scan", "clear", "set"} => op[s] = "setPrimary"
  /\ pc[s] = "reorder" => op[s] = "reorderPhotos"
  /\ pc[s] \in {"collectPhotos", "collectDocs", "cascade"} => op[s] = "deleteFirearm"
  /\ pc[s] = "commit" => op[s] \in Operations
  /\ pc[s] = "reclaim" => op[s] \in Uploads \union Removals

\* What each operation has written before its COMMIT, and at its COMMIT.
WriteInv(s) ==
  /\ pc[s] \notin {"next", "promote", "set", "reorder", "commit"} => tx[s] = NoTx
  /\ op[s] \notin Uploads => tx[s].ins = {}
  /\ op[s] \in Uploads => tx[s].del = {} /\ tx[s].clear = {}
  /\ op[s] \in Uploads /\ pc[s] = "commit" => tx[s].ins = keys[s]
  /\ op[s] \in {"createDocuments", "deleteDocument", "deleteFirearm", "reorderPhotos"} =>
       tx[s].set = {} /\ tx[s].clear = {}
  /\ op[s] \in {"setPrimary", "reorderPhotos"} => tx[s].del = {}
  /\ op[s] = "deletePhoto" => tx[s].clear = {}
  /\ op[s] = "deletePhoto" /\ pc[s] \in {"next", "promote", "commit"} => tx[s].del = keys[s]
  /\ pc[s] \in {"promote", "scan", "clear", "set"} => arg[s] \in Photos
  /\ pc[s] = "reorder" => todo[s] \subseteq Photos /\ arg[s] \in Photos \union {None}
  /\ op[s] = "deleteDocument" /\ pc[s] = "delete" => arg[s] \in Documents
  /\ op[s] = "deleteDocument" /\ pc[s] = "commit" =>
       tx[s].del = keys[s] /\ keys[s] \subseteq Documents
  /\ pc[s] = "next" => keys[s] = {arg[s]}
  /\ tx[s].set # {} => pc[s] = "commit"

\* The files of an upload, those it has saved and those it is left with.
FilesInv(s) ==
  /\ pc[s] = "idle" => arg[s] = None
  /\ pc[s] \in {"idle", "validate", "quota"} => keys[s] = {}
  /\ op[s] \in Uploads =>
       /\ keys[s] \union todo[s] \subseteq Files[s] \intersect Kind(op[s])
       /\ pc[s] = "writing" => arg[s] \in Files[s] \intersect Kind(op[s])

CallInv(s) == PlaceInv(s) /\ WriteInv(s) /\ FilesInv(s)

\* The lock on the firearm excludes: the quota looked at is the one that holds
\* at the COMMIT, and the deletion of the firearm takes every row with it.
HolderInv(s) ==
  /\ pc[s] = "insert" \/ (pc[s] = "commit" /\ op[s] \in Uploads) => ~OverQuota(op[s], keys[s])
  /\ pc[s] = "commit" /\ op[s] = "deleteFirearm" => rows \subseteq tx[s].del

LockInv ==
  \A s \in Session :
    HolderInv(s) /\ \A r \in Session \ {s} : ~(HoldsFirearm(r) /\ HoldsFirearm(s))

\* The index: one open transaction makes one photo primary, and every other
\* primary is one it takes away.
IndexInv ==
  \A s \in Session : tx[s].set # {} =>
    /\ \E p \in tx[s].set : tx[s].set = {p} /\ primary \subseteq {p} \union tx[s].clear \union tx[s].del
    /\ \A r \in Session \ {s} : tx[r].set = {}

\* While no move of the primary has overlapped another transaction, it has the
\* gallery to itself, and what it and an upload have read of the primary holds.
AloneInv(s) ==
  InTx(s) /\ MovesPrimary(op[s]) => \A r \in Session \ {s} : ~InTx(r)

MoverInv(s) ==
  /\ op[s] = "createPhotos" /\ pc[s] = "insert" => seen[s] = primary
  /\ op[s] = "createPhotos" /\ pc[s] = "commit" => primary # {} \/ tx[s].set # {}
  /\ pc[s] \in {"next", "promote"} => primary \subseteq tx[s].del
  /\ pc[s] = "promote" => arg[s] \in rows
  /\ op[s] = "deletePhoto" /\ pc[s] = "commit" =>
       \/ tx[s].set # {}
       \/ primary \intersect tx[s].del = {}
       \/ rows \intersect Photos \subseteq tx[s].del
  /\ pc[s] \in {"scan", "clear", "set"} => arg[s] \in rows
  /\ pc[s] = "clear" => seen[s] = primary
  /\ pc[s] = "set" => tx[s].clear = primary
  /\ op[s] = "setPrimary" /\ pc[s] = "commit" => tx[s].set # {}

PrimaryInv == ~overlap => PrimaryKept /\ \A s \in Session : AloneInv(s) /\ MoverInv(s)

\* An upload whose COMMIT has not gone through, and the files of those that
\* have not begun or are no uploads: nobody else has anything to do with them.
Ended(s) == op[s] \in Uploads /\ pc[s] \in {"reclaim", "done"}
Unborn == {i \in Item : \E s \in Session : i \in Files[s] /\ ~Ended(s)}

\* Files come to the disk before their row ...
UploadInv(s) ==
  /\ pc[s] = "idle" => \A i \in Files[s] : blobs[i] = "none" /\ i \notin old
  /\ op[s] \in Uploads /\ ~Ended(s) =>
       /\ \A i \in todo[s] : blobs[i] = "none" /\ i \notin old
       /\ \A i \in keys[s] : blobs[i] = "all" /\ i \notin old
       /\ pc[s] = "writing" => arg[s] \notin keys[s] \union todo[s] \union old
       /\ keys[s] \intersect todo[s] = {}
  /\ op[s] \in Uploads /\ pc[s] = "reclaim" => Files[s] \intersect rows \subseteq unsure

\* ... and leave it after their row.
RemovalInv(s) ==
  op[s] \in Removals =>
    /\ keys[s] \intersect Unborn = {}
    /\ pc[s] \in {"next", "promote", "commit"} => keys[s] \intersect rows \subseteq tx[s].del
    /\ pc[s] = "reclaim" => keys[s] \intersect rows = {}

\* What a sweep has read accounts for every row of an old file.
SweepInv ==
  /\ sweep.pc = "documents" => old \intersect rows \intersect Photos \subseteq sweep.owned
  /\ sweep.pc = "delete" => old \intersect rows \subseteq sweep.owned

RowInv == rows \intersect Unborn = {} /\ RowsHaveBlobs

\* A revoked upload stays out of its transaction.
CutInv ==
  \A s \in cut :
    /\ s \notin editors
    /\ op[s] = "createPhotos" => /\ pc[s] \in BeforeTx \union {"reclaim", "done"}
                                 /\ rows \intersect Files[s] = {}

\* The files a call is still going to give a row, or to delete.
Owed(s) ==
  IF op[s] \in Uploads /\ pc[s] # "done"
  THEN keys[s] \union (IF pc[s] = "writing" THEN {arg[s]} ELSE {})
  ELSE IF op[s] \in Removals /\ pc[s] = "reclaim" THEN keys[s] ELSE {}

OrphanInv ==
  ~failed /\ firearmLive =>
    \A i \in Item : blobs[i] # "none" => i \in rows \/ \E s \in Session : i \in Owed(s)

IInv ==
  /\ TypeOK
  /\ \A s \in Session : CallInv(s)
  /\ LockInv /\ QuotaHolds
  /\ IndexInv /\ AtMostOnePrimary
  /\ PrimaryInv
  /\ RowInv /\ SweepInv /\ \A s \in Session : UploadInv(s) /\ RemovalInv(s)
  /\ CutInv
  /\ OrphanInv
=============================================================================
