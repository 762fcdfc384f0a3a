--------------------------- MODULE GalleryProofs ---------------------------
(***************************************************************************)
(* The proofs about Gallery: its inductive invariant IInv, part by part,   *)
(* and with it GalleryIsSound and RowsAreSound, for any number of photos,  *)
(* documents, calls, stops and sweeps, and any quotas.                     *)
(*                                                                         *)
(* A part of the invariant is preserved by the step of a call in two       *)
(* moves: a lemma with one leaf per action for what the step does to the   *)
(* call itself, and an argument from what steps of a call have in common   *)
(* (OthersSame, Commits, RowsComeFromUploads) for what it does to the rest.*)
(***************************************************************************)
EXTENDS Gallery, FiniteSetTheorems, TLAPS

-----------------------------------------------------------------------------
(* The steps of a call.                                                    *)

Call(s) == Starts(s) \/ Proceeds(s) \/ TxFails(s)

\* What a transaction has written, field by field.
LEMMA TxFields ==
  ASSUME NEW t \in TxType
  PROVE  /\ t.ins \in SUBSET Item /\ t.del \in SUBSET Item /\ t.set \in SUBSET Photos
         /\ t.clear \in SUBSET Photos /\ t.moved \in SUBSET Item
BY DEF TxType, Item

\* A transaction that has written nothing.
LEMMA NoTxType ==
  /\ NoTx \in TxType
  /\ NoTx.ins = {} /\ NoTx.del = {} /\ NoTx.set = {} /\ NoTx.clear = {} /\ NoTx.moved = {}
BY DEF NoTx, TxType

\* A statement that writes one field of its transaction keeps the type.
LEMMA TxDel ==
  ASSUME NEW t \in [Session -> TxType], NEW s \in Session, NEW I \in SUBSET Item
  PROVE  [t EXCEPT ![s].del = I] \in [Session -> TxType]
BY DEF TxType

LEMMA TxIns ==
  ASSUME NEW t \in [Session -> TxType], NEW s \in Session, NEW I \in SUBSET Item
  PROVE  [t EXCEPT ![s].ins = I] \in [Session -> TxType]
BY DEF TxType

LEMMA TxInsSet ==
  ASSUME NEW t \in [Session -> TxType], NEW s \in Session, NEW I \in SUBSET Item,
         NEW P \in SUBSET Photos
  PROVE  [t EXCEPT ![s].ins = I, ![s].set = P] \in [Session -> TxType]
BY DEF TxType

LEMMA TxSet ==
  ASSUME NEW t \in [Session -> TxType], NEW s \in Session, NEW P \in SUBSET Photos
  PROVE  [t EXCEPT ![s].set = P] \in [Session -> TxType]
BY DEF TxType

LEMMA TxClear ==
  ASSUME NEW t \in [Session -> TxType], NEW s \in Session, NEW P \in SUBSET Photos
  PROVE  [t EXCEPT ![s].clear = P] \in [Session -> TxType]
BY DEF TxType

LEMMA TxMoved ==
  ASSUME NEW t \in [Session -> TxType], NEW s \in Session, NEW P \in SUBSET Photos
  PROVE  [t EXCEPT ![s].moved = P] \in [Session -> TxType]
BY DEF TxType

\* A step of a call keeps every variable in its range.
LEMMA CallType ==
  ASSUME TypeOK, NEW s \in Session, CallInv(s), Call(s)
  PROVE  TypeOK'
<1> USE NoTxType, GalleryAssumption
    DEF TypeOK, GalleryAssumption, States, TxStates, BeforeTx, Operations, Uploads, Removals
<1>1. ASSUME StartUpload(s) PROVE TypeOK'
  BY <1>1 DEF StartUpload, Reads, tables, StaticKeeps, Goto
<1>2. ASSUME ValidateDocuments(s) PROVE TypeOK'
  BY <1>2 DEF ValidateDocuments, Reads, tables, StaticKeeps, Goto
<1>3. ASSUME CheckQuota(s) PROVE TypeOK'
  BY <1>3 DEF CheckQuota, Reads, tables, StaticKeeps, Goto, locals
<1>4. ASSUME BeginSave(s) PROVE TypeOK'
  BY <1>4 DEF BeginSave, StaticKeeps, Goto, AfterFile, tables
<1>5. ASSUME EndSave(s) PROVE TypeOK'
  <2>1. arg[s] \in Item
    BY <1>5 DEF EndSave, CallInv, FilesInv, PlaceInv
  <2>2. pc' \in [Session -> States]
    BY <1>5 DEF EndSave, AfterFile, Goto
  <2>3. blobs' \in [Item -> {"none", "some", "all"}]
    BY <1>5, <2>1 DEF EndSave
  <2>4. keys' \in [Session -> SUBSET Item]
    BY <1>5, <2>1 DEF EndSave
  <2>5. failed' \in BOOLEAN
    BY <1>5 DEF EndSave
  <2> QED
    BY <1>5, <2>1, <2>2, <2>3, <2>4, <2>5 DEF EndSave, StaticKeeps, AfterFile, Goto, tables
<1>6. ASSUME BeginUpload(s) PROVE TypeOK'
  BY <1>6 DEF BeginUpload, Begins, tables, StaticKeeps, GiveUp, Goto, locals
<1>7. ASSUME LockFirearm(s) PROVE TypeOK'
  BY <1>7 DEF LockFirearm, OnlyTx, locals, tables, StaticKeeps, GiveUp, Goto
<1>8. ASSUME ReadExisting(s) PROVE TypeOK'
  BY <1>8 DEF ReadExisting, GiveUp, Goto, StaticKeeps, tables
<1>9. ASSUME InsertRows(s) PROVE TypeOK'
  <2>1. Promotes(s) => keys[s] \subseteq Photos
    BY <1>9 DEF InsertRows, Promotes, CallInv, FilesInv, Kind
  <2>2. \/ tx' = [tx EXCEPT ![s] = NoTx]
        \/ tx' = [tx EXCEPT ![s].ins = keys[s]]
        \/ \E P \in SUBSET Photos : tx' = [tx EXCEPT ![s].ins = keys[s], ![s].set = P]
    BY <1>9, <2>1 DEF InsertRows, GiveUp
  <2>3. keys[s] \in SUBSET Item
    OBVIOUS
  <2>4. tx \in [Session -> TxType] /\ [tx EXCEPT ![s] = NoTx] \in [Session -> TxType]
    BY NoTxType
  <2>5. [tx EXCEPT ![s].ins = keys[s]] \in [Session -> TxType]
    BY <2>3, <2>4, TxIns
  <2>6. \A P \in SUBSET Photos :
          [tx EXCEPT ![s].ins = keys[s], ![s].set = P] \in [Session -> TxType]
    BY <2>3, <2>4, TxInsSet
  <2>7. tx' \in [Session -> TxType]
    <3>1. ASSUME NEW P \in SUBSET Photos,
                 tx' = [tx EXCEPT ![s].ins = keys[s], ![s].set = P]
          PROVE  tx' \in [Session -> TxType]
      BY <2>6, <3>1
    <3> QED
      BY <2>2, <2>4, <2>5, <3>1
  <2>8. pc' \in [Session -> States]
    BY <1>9 DEF InsertRows, GiveUp, Goto
  <2> QED
    BY <1>9, <2>1, <2>2, <2>3, <2>4, <2>5, <2>6, <2>7, <2>8 DEF InsertRows, OnlyTx, locals,
       tables, StaticKeeps, GiveUp, Goto
<1>10. ASSUME StartOnItem(s) PROVE TypeOK'
  BY <1>10 DEF StartOnItem, Begins, tables, StaticKeeps, Goto
<1>11. ASSUME DeleteRow(s) PROVE TypeOK'
  <2>1. {arg[s]} \in SUBSET Item \/ arg[s] \notin rows
    BY DEF TypeOK
  <2>2. tx' = [tx EXCEPT ![s] = NoTx] \/ (arg[s] \in rows /\ tx' = [tx EXCEPT ![s].del = {arg[s]}])
    BY <1>11 DEF DeleteRow, GiveUp
  <2>3. tx \in [Session -> TxType] /\ [tx EXCEPT ![s] = NoTx] \in [Session -> TxType]
    BY NoTxType
  <2>4. arg[s] \in rows => [tx EXCEPT ![s].del = {arg[s]}] \in [Session -> TxType]
    BY <2>1, <2>3, TxDel
  <2>5. tx' \in [Session -> TxType]
    BY <2>2, <2>3, <2>4
  <2> QED
    BY <1>11, <2>1, <2>2, <2>3, <2>4, <2>5 DEF DeleteRow, GiveUp, Goto, StaticKeeps, tables
<1>12. ASSUME SelectNext(s) PROVE TypeOK'
  BY <1>12 DEF SelectNext, Reads, tables, StaticKeeps, Goto
<1>13. ASSUME MakePrimary(s) PROVE TypeOK'
  <2>1. {arg[s]} \in SUBSET Photos
    BY <1>13 DEF MakePrimary, CallInv, WriteInv
  <2>2. UNCHANGED tx \/ tx' = [tx EXCEPT ![s] = NoTx] \/ tx' = [tx EXCEPT ![s].set = {arg[s]}]
    BY <1>13 DEF MakePrimary, GiveUp
  <2>3. tx \in [Session -> TxType] /\ [tx EXCEPT ![s] = NoTx] \in [Session -> TxType]
    BY NoTxType
  <2>4. [tx EXCEPT ![s].set = {arg[s]}] \in [Session -> TxType]
    BY <2>1, <2>3, TxSet
  <2>5. tx' \in [Session -> TxType]
    BY <2>2, <2>3, <2>4
  <2> QED
    BY <1>13, <2>1, <2>2, <2>3, <2>4, <2>5 DEF MakePrimary, OnlyTx, locals, tables, StaticKeeps,
       GiveUp, Goto
<1>14. ASSUME ScanPrimary(s) PROVE TypeOK'
  BY <1>14 DEF ScanPrimary, Reads, tables, StaticKeeps, Goto
<1>15. ASSUME ClearPrimary(s) PROVE TypeOK'
  <2>1. tx' = [tx EXCEPT ![s].clear = seen[s] \intersect primary]
    BY <1>15 DEF ClearPrimary
  <2>2. seen[s] \intersect primary \in SUBSET Photos /\ tx \in [Session -> TxType]
    OBVIOUS
  <2>3. [tx EXCEPT ![s].clear = seen[s] \intersect primary] \in [Session -> TxType]
    BY <2>2, TxClear
  <2>4. tx' \in [Session -> TxType]
    BY <2>1, <2>3
  <2> QED
    BY <1>15, <2>1, <2>2, <2>3, <2>4 DEF ClearPrimary, OnlyTx, locals, tables, StaticKeeps, Goto
<1>16. ASSUME StartReorder(s) PROVE TypeOK'
  BY <1>16 DEF StartReorder, Begins, tables, StaticKeeps, Goto
<1>17. ASSUME MovePhoto(s) PROVE TypeOK'
  <2>1. todo[s] \subseteq Photos /\ arg[s] \in Photos \union {None}
    BY <1>17 DEF MovePhoto, CallInv, WriteInv
  <2>2. \/ UNCHANGED tx
        \/ /\ arg[s] \in Photos
           /\ tx' = [tx EXCEPT ![s].moved = tx[s].moved \union ({arg[s]} \intersect rows)]
    BY <1>17, <2>1 DEF MovePhoto
  <2>3. tx[s].moved \union ({arg[s]} \intersect rows) \in SUBSET Photos \/ arg[s] = None
    BY <2>1 DEF TxType
  <2>4. tx \in [Session -> TxType]
    OBVIOUS
  <2>5. arg[s] # None =>
          [tx EXCEPT ![s].moved = tx[s].moved \union ({arg[s]} \intersect rows)]
            \in [Session -> TxType]
    BY <2>3, <2>4, TxMoved
  <2>6. tx' \in [Session -> TxType]
    BY <1>17, <2>2, <2>4, <2>5 DEF MovePhoto
  <2> QED
    BY <1>17, <2>1, <2>2, <2>3, <2>4, <2>5, <2>6 DEF MovePhoto, StaticKeeps, Goto, tables
<1>18. ASSUME StartDeleteFirearm(s) PROVE TypeOK'
  BY <1>18 DEF StartDeleteFirearm, Begins, tables, StaticKeeps, Goto
<1>19. ASSUME CollectPhotos(s) PROVE TypeOK'
  BY <1>19 DEF CollectPhotos, Reads, tables, StaticKeeps, Goto
<1>20. ASSUME CollectDocuments(s) PROVE TypeOK'
  BY <1>20 DEF CollectDocuments, Reads, tables, StaticKeeps, Goto
<1>21. ASSUME Cascade(s) PROVE TypeOK'
  <2>1. tx' = [tx EXCEPT ![s] = NoTx] \/ tx' = [tx EXCEPT ![s].del = rows]
    BY <1>21 DEF Cascade, GiveUp
  <2>2. rows \in SUBSET Item
    OBVIOUS
  <2>3. tx \in [Session -> TxType] /\ [tx EXCEPT ![s] = NoTx] \in [Session -> TxType]
    BY NoTxType
  <2>4. [tx EXCEPT ![s].del = rows] \in [Session -> TxType]
    BY <2>2, <2>3, TxDel
  <2>5. tx' \in [Session -> TxType]
    BY <2>1, <2>3, <2>4
  <2> QED
    BY <1>21, <2>1, <2>2, <2>3, <2>4, <2>5 DEF Cascade, OnlyTx, locals, tables, StaticKeeps,
       GiveUp, Goto
<1>22. ASSUME TxFails(s) PROVE TypeOK'
  BY <1>22 DEF TxFails, OnlyTx, locals, tables, StaticKeeps, GiveUp, Goto
<1>23. ASSUME Deadlock(s) PROVE TypeOK'
  BY <1>23 DEF Deadlock, OnlyTx, locals, tables, StaticKeeps, GiveUp, Goto
<1>24. ASSUME Commit(s) PROVE TypeOK'
  <2>1. rows' \in SUBSET Item /\ primary' \in SUBSET Photos
    BY <1>24, TxFields DEF Commit, Apply
  <2> QED
    BY <1>24, <2>1 DEF Commit, StaticKeeps, Goto, Apply, locals
<1>25. ASSUME CommitUnanswered(s) PROVE TypeOK'
  <2>1. rows' \in SUBSET Item /\ primary' \in SUBSET Photos /\ unsure' \in SUBSET Item
    BY <1>25, TxFields DEF CommitUnanswered, Apply
  <2> QED
    BY <1>25, <2>1 DEF CommitUnanswered, GiveUp, Goto, Apply, locals
<1>26. ASSUME Reclaim(s) PROVE TypeOK'
  BY <1>26 DEF Reclaim, StaticKeeps, Goto, tables, locals
<1> QED
  BY <1>1, <1>2, <1>3, <1>4, <1>5, <1>6, <1>7, <1>8, <1>9, <1>10, <1>11, <1>12, <1>13,
     <1>14, <1>15, <1>16, <1>17, <1>18, <1>19, <1>20, <1>21, <1>22, <1>23, <1>24, <1>25,
     <1>26 DEF Call, Starts, Proceeds

\* A step of a call leaves the state of the other calls alone.
OthersSame(s) ==
  \A r \in Session \ {s} :
    /\ pc'[r] = pc[r] /\ op'[r] = op[r] /\ todo'[r] = todo[r] /\ keys'[r] = keys[r]
    /\ arg'[r] = arg[r] /\ seen'[r] = seen[r] /\ tx'[r] = tx[r]

LEMMA CallAlone ==
  ASSUME TypeOK, NEW s \in Session, Call(s)
  PROVE  OthersSame(s)
<1> USE DEF TypeOK, OthersSame
<1>1. ASSUME StartUpload(s) PROVE OthersSame(s)
  BY <1>1 DEF StartUpload, Reads, tables, StaticKeeps, Goto
<1>2. ASSUME ValidateDocuments(s) PROVE OthersSame(s)
  BY <1>2 DEF ValidateDocuments, Reads, tables, StaticKeeps, Goto
<1>3. ASSUME CheckQuota(s) PROVE OthersSame(s)
  BY <1>3 DEF CheckQuota, Reads, tables, StaticKeeps, Goto, locals
<1>4. ASSUME BeginSave(s) PROVE OthersSame(s)
  BY <1>4 DEF BeginSave, StaticKeeps, Goto, AfterFile, tables
<1>5. ASSUME EndSave(s) PROVE OthersSame(s)
  BY <1>5 DEF EndSave, StaticKeeps, AfterFile, Goto, tables
<1>6. ASSUME BeginUpload(s) PROVE OthersSame(s)
  BY <1>6 DEF BeginUpload, Begins, tables, StaticKeeps, GiveUp, Goto, locals
<1>7. ASSUME LockFirearm(s) PROVE OthersSame(s)
  BY <1>7 DEF LockFirearm, OnlyTx, locals, tables, StaticKeeps, GiveUp, Goto
<1>8. ASSUME ReadExisting(s) PROVE OthersSame(s)
  BY <1>8 DEF ReadExisting, GiveUp, Goto, StaticKeeps, tables
<1>9. ASSUME InsertRows(s) PROVE OthersSame(s)
  BY <1>9 DEF InsertRows, OnlyTx, locals, tables, StaticKeeps, GiveUp, Goto
<1>10. ASSUME StartOnItem(s) PROVE OthersSame(s)
  BY <1>10 DEF StartOnItem, Begins, tables, StaticKeeps, Goto
<1>11. ASSUME DeleteRow(s) PROVE OthersSame(s)
  BY <1>11 DEF DeleteRow, GiveUp, Goto, StaticKeeps, tables
<1>12. ASSUME SelectNext(s) PROVE OthersSame(s)
  BY <1>12 DEF SelectNext, Reads, tables, StaticKeeps, Goto
<1>13. ASSUME MakePrimary(s) PROVE OthersSame(s)
  BY <1>13 DEF MakePrimary, OnlyTx, locals, tables, StaticKeeps, GiveUp, Goto
<1>14. ASSUME ScanPrimary(s) PROVE OthersSame(s)
  BY <1>14 DEF ScanPrimary, Reads, tables, StaticKeeps, Goto
<1>15. ASSUME ClearPrimary(s) PROVE OthersSame(s)
  BY <1>15 DEF ClearPrimary, OnlyTx, locals, tables, StaticKeeps, Goto
<1>16. ASSUME StartReorder(s) PROVE OthersSame(s)
  BY <1>16 DEF StartReorder, Begins, tables, StaticKeeps, Goto
<1>17. ASSUME MovePhoto(s) PROVE OthersSame(s)
  BY <1>17 DEF MovePhoto, StaticKeeps, Goto, tables
<1>18. ASSUME StartDeleteFirearm(s) PROVE OthersSame(s)
  BY <1>18 DEF StartDeleteFirearm, Begins, tables, StaticKeeps, Goto
<1>19. ASSUME CollectPhotos(s) PROVE OthersSame(s)
  BY <1>19 DEF CollectPhotos, Reads, tables, StaticKeeps, Goto
<1>20. ASSUME CollectDocuments(s) PROVE OthersSame(s)
  BY <1>20 DEF CollectDocuments, Reads, tables, StaticKeeps, Goto
<1>21. ASSUME Cascade(s) PROVE OthersSame(s)
  BY <1>21 DEF Cascade, OnlyTx, locals, tables, StaticKeeps, GiveUp, Goto
<1>22. ASSUME TxFails(s) PROVE OthersSame(s)
  BY <1>22 DEF TxFails, OnlyTx, locals, tables, StaticKeeps, GiveUp, Goto
<1>23. ASSUME Deadlock(s) PROVE OthersSame(s)
  BY <1>23 DEF Deadlock, OnlyTx, locals, tables, StaticKeeps, GiveUp, Goto
<1>24. ASSUME Commit(s) PROVE OthersSame(s)
  BY <1>24 DEF Commit, StaticKeeps, Goto, Apply, locals
<1>25. ASSUME CommitUnanswered(s) PROVE OthersSame(s)
  BY <1>25 DEF CommitUnanswered, GiveUp, Goto, Apply, locals
<1>26. ASSUME Reclaim(s) PROVE OthersSame(s)
  BY <1>26 DEF Reclaim, StaticKeeps, Goto, tables, locals
<1> QED
  BY <1>1, <1>2, <1>3, <1>4, <1>5, <1>6, <1>7, <1>8, <1>9, <1>10, <1>11, <1>12, <1>13,
     <1>14, <1>15, <1>16, <1>17, <1>18, <1>19, <1>20, <1>21, <1>22, <1>23, <1>24, <1>25,
     <1>26 DEF Call, Starts, Proceeds

-----------------------------------------------------------------------------
(* What each step leaves of a call.                                        *)

\* Where a call is, what it has written and what files it holds go together.
LEMMA CallShape ==
  ASSUME TypeOK, TypeOK', NEW s \in Session, CallInv(s), Call(s)
  PROVE  CallInv(s)'
<1> USE NoTxType, GalleryAssumption
    DEF TypeOK, GalleryAssumption, States, TxStates, BeforeTx, Operations, Uploads, Removals,
        CallInv, PlaceInv, WriteInv, FilesInv, Kind, NoTx, TxType
<1>1. ASSUME StartUpload(s) PROVE CallInv(s)'
  BY <1>1 DEF StartUpload, Reads, tables, StaticKeeps, Goto
<1>2. ASSUME ValidateDocuments(s) PROVE CallInv(s)'
  BY <1>2 DEF ValidateDocuments, Reads, tables, StaticKeeps, Goto
<1>3. ASSUME CheckQuota(s) PROVE CallInv(s)'
  BY <1>3 DEF CheckQuota, Reads, tables, StaticKeeps, Goto, locals
<1>4. ASSUME BeginSave(s) PROVE CallInv(s)'
  BY <1>4 DEF BeginSave, StaticKeeps, Goto, AfterFile, tables
<1>5. ASSUME EndSave(s) PROVE CallInv(s)'
  BY <1>5 DEF EndSave, StaticKeeps, AfterFile, Goto, tables
<1>6. ASSUME BeginUpload(s) PROVE CallInv(s)'
  BY <1>6 DEF BeginUpload, Begins, tables, StaticKeeps, GiveUp, Goto, locals
<1>7. ASSUME LockFirearm(s) PROVE CallInv(s)'
  BY <1>7 DEF LockFirearm, OnlyTx, locals, tables, StaticKeeps, GiveUp, Goto
<1>8. ASSUME ReadExisting(s) PROVE CallInv(s)'
  BY <1>8 DEF ReadExisting, GiveUp, Goto, StaticKeeps, tables
<1>9. ASSUME InsertRows(s) PROVE CallInv(s)'
  <2>1. CASE GiveUp(s)
    <3>1. /\ UNCHANGED <<op, keys, todo, arg>> /\ op[s] \in Uploads
      BY <1>9 DEF InsertRows, OnlyTx, locals
    <3>2. tx'[s] = NoTx /\ pc'[s] = "reclaim"
      BY <1>9, <2>1, <3>1 DEF GiveUp, Goto
    <3> QED
      BY <3>1, <3>2
  <2>2. CASE ~GiveUp(s)
    <3>1. /\ UNCHANGED <<op, keys, todo, arg>> /\ pc'[s] = "commit" /\ op[s] \in Uploads
      BY <1>9, <2>2 DEF InsertRows, OnlyTx, locals, Goto
    <3>2. /\ tx'[s].ins = keys[s] /\ tx'[s].del = {} /\ tx'[s].clear = {}
          /\ ~Promotes(s) => tx'[s].set = {}
      <4>1. tx[s] = NoTx
        BY <1>9 DEF InsertRows
      <4>2. CASE Promotes(s)
        <5>1. PICK p \in keys[s] : tx' = [tx EXCEPT ![s].ins = keys[s], ![s].set = {p}]
          BY <1>9, <2>2, <4>2 DEF InsertRows
        <5> QED
          BY <4>1, <4>2, <5>1
      <4>3. CASE ~Promotes(s)
        <5>1. tx' = [tx EXCEPT ![s].ins = keys[s]]
          BY <1>9, <2>2, <4>3 DEF InsertRows
        <5> QED
          BY <4>1, <5>1
      <4> QED
        BY <4>2, <4>3
    <3>3. op[s] = "createDocuments" => ~Promotes(s)
      BY <1>9 DEF InsertRows, Promotes
    <3> QED
      BY <3>1, <3>2, <3>3
  <2> QED
    BY <2>1, <2>2
<1>10. ASSUME StartOnItem(s) PROVE CallInv(s)'
  BY <1>10 DEF StartOnItem, Begins, tables, StaticKeeps, Goto
<1>11. ASSUME DeleteRow(s) PROVE CallInv(s)'
  <2>1. CASE arg[s] \notin rows
    BY <1>11, <2>1 DEF DeleteRow, GiveUp, Goto
  <2>2. CASE arg[s] \in rows
    <3>1. /\ tx'[s] = [tx[s] EXCEPT !.del = {arg[s]}] /\ keys'[s] = {arg[s]}
          /\ pc'[s] = IF arg[s] \in primary THEN "next" ELSE "commit"
          /\ op' = op /\ arg' = arg /\ op[s] \in {"deletePhoto", "deleteDocument"}
      BY <1>11, <2>2 DEF DeleteRow, Goto
    <3>2. /\ tx'[s].ins = {} /\ tx'[s].set = {} /\ tx'[s].clear = {} /\ tx'[s].del = {arg[s]}
      BY <1>11, <3>1 DEF DeleteRow
    <3>3. op[s] = "deleteDocument" => arg[s] \in Documents /\ arg[s] \notin primary
      BY <1>11 DEF DeleteRow
    <3> QED
      BY <3>1, <3>2, <3>3
  <2> QED
    BY <2>1, <2>2
<1>12. ASSUME SelectNext(s) PROVE CallInv(s)'
  BY <1>12 DEF SelectNext, Reads, tables, StaticKeeps, Goto
<1>13. ASSUME MakePrimary(s) PROVE CallInv(s)'
  BY <1>13 DEF MakePrimary, OnlyTx, locals, tables, StaticKeeps, GiveUp, Goto
<1>14. ASSUME ScanPrimary(s) PROVE CallInv(s)'
  BY <1>14 DEF ScanPrimary, Reads, tables, StaticKeeps, Goto
<1>15. ASSUME ClearPrimary(s) PROVE CallInv(s)'
  BY <1>15 DEF ClearPrimary, OnlyTx, locals, tables, StaticKeeps, Goto
<1>16. ASSUME StartReorder(s) PROVE CallInv(s)'
  BY <1>16 DEF StartReorder, Begins, tables, StaticKeeps, Goto
<1>17. ASSUME MovePhoto(s) PROVE CallInv(s)'
  BY <1>17 DEF MovePhoto, StaticKeeps, Goto, tables
<1>18. ASSUME StartDeleteFirearm(s) PROVE CallInv(s)'
  BY <1>18 DEF StartDeleteFirearm, Begins, tables, StaticKeeps, Goto
<1>19. ASSUME CollectPhotos(s) PROVE CallInv(s)'
  BY <1>19 DEF CollectPhotos, Reads, tables, StaticKeeps, Goto
<1>20. ASSUME CollectDocuments(s) PROVE CallInv(s)'
  BY <1>20 DEF CollectDocuments, Reads, tables, StaticKeeps, Goto
<1>21. ASSUME Cascade(s) PROVE CallInv(s)'
  <2>1. CASE ~firearmLive
    BY <1>21, <2>1 DEF Cascade, OnlyTx, locals, GiveUp, Goto
  <2>2. CASE firearmLive
    <3>1. tx'[s] = [tx[s] EXCEPT !.del = rows] /\ pc'[s] = "commit"
      BY <1>21, <2>2 DEF Cascade, Goto
    <3>2. /\ tx'[s].ins = {} /\ tx'[s].set = {} /\ tx'[s].clear = {}
      BY <1>21, <3>1 DEF Cascade
    <3> QED
      BY <1>21, <3>1, <3>2 DEF Cascade, OnlyTx, locals
  <2> QED
    BY <2>1, <2>2
<1>22. ASSUME TxFails(s) PROVE CallInv(s)'
  BY <1>22 DEF TxFails, OnlyTx, locals, tables, StaticKeeps, GiveUp, Goto
<1>23. ASSUME Deadlock(s) PROVE CallInv(s)'
  BY <1>23 DEF Deadlock, OnlyTx, locals, tables, StaticKeeps, GiveUp, Goto
<1>24. ASSUME Commit(s) PROVE CallInv(s)'
  BY <1>24 DEF Commit, StaticKeeps, Goto, Apply, locals
<1>25. ASSUME CommitUnanswered(s) PROVE CallInv(s)'
  BY <1>25 DEF CommitUnanswered, GiveUp, Goto, Apply, locals
<1>26. ASSUME Reclaim(s) PROVE CallInv(s)'
  BY <1>26 DEF Reclaim, StaticKeeps, Goto, tables, locals
<1> QED
  BY <1>1, <1>2, <1>3, <1>4, <1>5, <1>6, <1>7, <1>8, <1>9, <1>10, <1>11, <1>12, <1>13,
     <1>14, <1>15, <1>16, <1>17, <1>18, <1>19, <1>20, <1>21, <1>22, <1>23, <1>24, <1>25,
     <1>26 DEF Call, Starts, Proceeds

-----------------------------------------------------------------------------
(* The lock on the firearm and the quotas.                                 *)

\* A COMMIT that goes through, answered or not.
Commits(s) ==
  /\ pc[s] = "commit" /\ Apply(s) /\ tx'[s] = NoTx 
  /\ UNCHANGED <<locals, blobs, old, editors, sweep, cut>>
  /\ \/ pc'[s] = (IF op[s] \in Removals THEN "reclaim" ELSE "done") /\ UNCHANGED <<unsure, failed>>
     \/ /\ pc'[s] = (IF op[s] \in Uploads THEN "reclaim" ELSE "done")
        /\ unsure' = unsure \union tx[s].ins /\ failed' = (failed \/ op[s] \in Removals)

\* No other step of a call changes a table.
LEMMA CallTables ==
  ASSUME TypeOK, NEW s \in Session, Call(s)
  PROVE  Commits(s) \/ UNCHANGED <<firearmLive, rows, primary, unsure>>
<1> DEFINE Kept == Commits(s) \/ UNCHANGED <<firearmLive, rows, primary, unsure>>
<1> USE DEF TypeOK
<1>1. ASSUME StartUpload(s) PROVE Kept
  BY <1>1 DEF StartUpload, Reads, tables, StaticKeeps, Goto
<1>2. ASSUME ValidateDocuments(s) PROVE Kept
  BY <1>2 DEF ValidateDocuments, Reads, tables, StaticKeeps, Goto
<1>3. ASSUME CheckQuota(s) PROVE Kept
  BY <1>3 DEF CheckQuota, Reads, tables, StaticKeeps, Goto, locals
<1>4. ASSUME BeginSave(s) PROVE Kept
  BY <1>4 DEF BeginSave, StaticKeeps, Goto, AfterFile, tables
<1>5. ASSUME EndSave(s) PROVE Kept
  BY <1>5 DEF EndSave, StaticKeeps, AfterFile, Goto, tables
<1>6. ASSUME BeginUpload(s) PROVE Kept
  BY <1>6 DEF BeginUpload, Begins, tables, StaticKeeps, GiveUp, Goto, locals
<1>7. ASSUME LockFirearm(s) PROVE Kept
  BY <1>7 DEF LockFirearm, OnlyTx, locals, tables, StaticKeeps, GiveUp, Goto
<1>8. ASSUME ReadExisting(s) PROVE Kept
  BY <1>8 DEF ReadExisting, GiveUp, Goto, StaticKeeps, tables
<1>9. ASSUME InsertRows(s) PROVE Kept
  BY <1>9 DEF InsertRows, OnlyTx, locals, tables, StaticKeeps, GiveUp, Goto
<1>10. ASSUME StartOnItem(s) PROVE Kept
  BY <1>10 DEF StartOnItem, Begins, tables, StaticKeeps, Goto
<1>11. ASSUME DeleteRow(s) PROVE Kept
  BY <1>11 DEF DeleteRow, GiveUp, Goto, StaticKeeps, tables
<1>12. ASSUME SelectNext(s) PROVE Kept
  BY <1>12 DEF SelectNext, Reads, tables, StaticKeeps, Goto
<1>13. ASSUME MakePrimary(s) PROVE Kept
  BY <1>13 DEF MakePrimary, OnlyTx, locals, tables, StaticKeeps, GiveUp, Goto
<1>14. ASSUME ScanPrimary(s) PROVE Kept
  BY <1>14 DEF ScanPrimary, Reads, tables, StaticKeeps, Goto
<1>15. ASSUME ClearPrimary(s) PROVE Kept
  BY <1>15 DEF ClearPrimary, OnlyTx, locals, tables, StaticKeeps, Goto
<1>16. ASSUME StartReorder(s) PROVE Kept
  BY <1>16 DEF StartReorder, Begins, tables, StaticKeeps, Goto
<1>17. ASSUME MovePhoto(s) PROVE Kept
  BY <1>17 DEF MovePhoto, StaticKeeps, Goto, tables
<1>18. ASSUME StartDeleteFirearm(s) PROVE Kept
  BY <1>18 DEF StartDeleteFirearm, Begins, tables, StaticKeeps, Goto
<1>19. ASSUME CollectPhotos(s) PROVE Kept
  BY <1>19 DEF CollectPhotos, Reads, tables, StaticKeeps, Goto
<1>20. ASSUME CollectDocuments(s) PROVE Kept
  BY <1>20 DEF CollectDocuments, Reads, tables, StaticKeeps, Goto
<1>21. ASSUME Cascade(s) PROVE Kept
  BY <1>21 DEF Cascade, OnlyTx, locals, tables, StaticKeeps, GiveUp, Goto
<1>22. ASSUME TxFails(s) PROVE Kept
  BY <1>22 DEF TxFails, OnlyTx, locals, tables, StaticKeeps, GiveUp, Goto
<1>23. ASSUME Deadlock(s) PROVE Kept
  BY <1>23 DEF Deadlock, OnlyTx, locals, tables, StaticKeeps, GiveUp, Goto
<1>24. ASSUME Commit(s) PROVE Kept
  BY <1>24 DEF Commit, StaticKeeps, Goto, Apply, locals, Commits
<1>25. ASSUME CommitUnanswered(s) PROVE Kept
  BY <1>25 DEF CommitUnanswered, GiveUp, Goto, Apply, locals, Commits
<1>26. ASSUME Reclaim(s) PROVE Kept
  BY <1>26 DEF Reclaim, StaticKeeps, Goto, tables, locals
<1> QED
  BY <1>1, <1>2, <1>3, <1>4, <1>5, <1>6, <1>7, <1>8, <1>9, <1>10, <1>11, <1>12, <1>13,
     <1>14, <1>15, <1>16, <1>17, <1>18, <1>19, <1>20, <1>21, <1>22, <1>23, <1>24, <1>25,
     <1>26 DEF Call, Starts, Proceeds

\* The lock on the firearm is taken when no other call holds it.
LEMMA LockTaken ==
  ASSUME TypeOK, TypeOK', NEW s \in Session, CallInv(s), Call(s)
  PROVE  HoldsFirearm(s)' => HoldsFirearm(s) \/ \A r \in Session \ {s} : ~HoldsFirearm(r)
<1> DEFINE Taken == HoldsFirearm(s)' => HoldsFirearm(s) \/ \A r \in Session \ {s} : ~HoldsFirearm(r)
<1> USE DEF TypeOK, CallInv, PlaceInv, HoldsFirearm, Uploads, Removals, BeforeTx
<1>1. ASSUME StartUpload(s) PROVE Taken
  BY <1>1 DEF StartUpload, Reads, tables, StaticKeeps, Goto
<1>2. ASSUME ValidateDocuments(s) PROVE Taken
  BY <1>2 DEF ValidateDocuments, Reads, tables, StaticKeeps, Goto
<1>3. ASSUME CheckQuota(s) PROVE Taken
  BY <1>3 DEF CheckQuota, Reads, tables, StaticKeeps, Goto, locals
<1>4. ASSUME BeginSave(s) PROVE Taken
  BY <1>4 DEF BeginSave, StaticKeeps, Goto, AfterFile, tables
<1>5. ASSUME EndSave(s) PROVE Taken
  BY <1>5 DEF EndSave, StaticKeeps, AfterFile, Goto, tables
<1>6. ASSUME BeginUpload(s) PROVE Taken
  BY <1>6 DEF BeginUpload, Begins, tables, StaticKeeps, GiveUp, Goto, locals
<1>7. ASSUME LockFirearm(s) PROVE Taken
  BY <1>7 DEF LockFirearm, OnlyTx, locals, tables, StaticKeeps, GiveUp, Goto, Free, WaitsFor
<1>8. ASSUME ReadExisting(s) PROVE Taken
  BY <1>8 DEF ReadExisting, GiveUp, Goto, StaticKeeps, tables
<1>9. ASSUME InsertRows(s) PROVE Taken
  BY <1>9 DEF InsertRows, OnlyTx, locals, tables, StaticKeeps, GiveUp, Goto
<1>10. ASSUME StartOnItem(s) PROVE Taken
  BY <1>10 DEF StartOnItem, Begins, tables, StaticKeeps, Goto
<1>11. ASSUME DeleteRow(s) PROVE Taken
  BY <1>11 DEF DeleteRow, GiveUp, Goto, StaticKeeps, tables
<1>12. ASSUME SelectNext(s) PROVE Taken
  BY <1>12 DEF SelectNext, Reads, tables, StaticKeeps, Goto
<1>13. ASSUME MakePrimary(s) PROVE Taken
  BY <1>13 DEF MakePrimary, OnlyTx, locals, tables, StaticKeeps, GiveUp, Goto
<1>14. ASSUME ScanPrimary(s) PROVE Taken
  BY <1>14 DEF ScanPrimary, Reads, tables, StaticKeeps, Goto
<1>15. ASSUME ClearPrimary(s) PROVE Taken
  BY <1>15 DEF ClearPrimary, OnlyTx, locals, tables, StaticKeeps, Goto
<1>16. ASSUME StartReorder(s) PROVE Taken
  BY <1>16 DEF StartReorder, Begins, tables, StaticKeeps, Goto
<1>17. ASSUME MovePhoto(s) PROVE Taken
  BY <1>17 DEF MovePhoto, StaticKeeps, Goto, tables
<1>18. ASSUME StartDeleteFirearm(s) PROVE Taken
  BY <1>18 DEF StartDeleteFirearm, Begins, tables, StaticKeeps, Goto
<1>19. ASSUME CollectPhotos(s) PROVE Taken
  BY <1>19 DEF CollectPhotos, Reads, tables, StaticKeeps, Goto
<1>20. ASSUME CollectDocuments(s) PROVE Taken
  BY <1>20 DEF CollectDocuments, Reads, tables, StaticKeeps, Goto
<1>21. ASSUME Cascade(s) PROVE Taken
  BY <1>21 DEF Cascade, OnlyTx, locals, tables, StaticKeeps, GiveUp, Goto, Free, WaitsFor
<1>22. ASSUME TxFails(s) PROVE Taken
  BY <1>22 DEF TxFails, OnlyTx, locals, tables, StaticKeeps, GiveUp, Goto
<1>23. ASSUME Deadlock(s) PROVE Taken
  BY <1>23 DEF Deadlock, OnlyTx, locals, tables, StaticKeeps, GiveUp, Goto
<1>24. ASSUME Commit(s) PROVE Taken
  BY <1>24 DEF Commit, StaticKeeps, Goto, Apply, locals
<1>25. ASSUME CommitUnanswered(s) PROVE Taken
  BY <1>25 DEF CommitUnanswered, GiveUp, Goto, Apply, locals
<1>26. ASSUME Reclaim(s) PROVE Taken
  BY <1>26 DEF Reclaim, StaticKeeps, Goto, tables, locals
<1> QED
  BY <1>1, <1>2, <1>3, <1>4, <1>5, <1>6, <1>7, <1>8, <1>9, <1>10, <1>11, <1>12, <1>13,
     <1>14, <1>15, <1>16, <1>17, <1>18, <1>19, <1>20, <1>21, <1>22, <1>23, <1>24, <1>25,
     <1>26 DEF Call, Starts, Proceeds

\* What the holder of the lock has read of the rows, at its own steps.
LEMMA HolderStep ==
  ASSUME TypeOK, TypeOK', NEW s \in Session, CallInv(s), HolderInv(s), Call(s)
  PROVE  HolderInv(s)'
<1> USE DEF TypeOK, CallInv, PlaceInv, HolderInv, OverQuota, Quota, Kind, Uploads, Removals,
            BeforeTx, Operations
<1>1. ASSUME StartUpload(s) PROVE HolderInv(s)'
  BY <1>1 DEF StartUpload, Reads, tables, StaticKeeps, Goto
<1>2. ASSUME ValidateDocuments(s) PROVE HolderInv(s)'
  BY <1>2 DEF ValidateDocuments, Reads, tables, StaticKeeps, Goto
<1>3. ASSUME CheckQuota(s) PROVE HolderInv(s)'
  BY <1>3 DEF CheckQuota, Reads, tables, StaticKeeps, Goto, locals
<1>4. ASSUME BeginSave(s) PROVE HolderInv(s)'
  BY <1>4 DEF BeginSave, StaticKeeps, Goto, AfterFile, tables
<1>5. ASSUME EndSave(s) PROVE HolderInv(s)'
  BY <1>5 DEF EndSave, StaticKeeps, AfterFile, Goto, tables
<1>6. ASSUME BeginUpload(s) PROVE HolderInv(s)'
  BY <1>6 DEF BeginUpload, Begins, tables, StaticKeeps, GiveUp, Goto, locals
<1>7. ASSUME LockFirearm(s) PROVE HolderInv(s)'
  BY <1>7 DEF LockFirearm, OnlyTx, locals, tables, StaticKeeps, GiveUp, Goto
<1>8. ASSUME ReadExisting(s) PROVE HolderInv(s)'
  BY <1>8 DEF ReadExisting, GiveUp, Goto, StaticKeeps, tables
<1>9. ASSUME InsertRows(s) PROVE HolderInv(s)'
  BY <1>9 DEF InsertRows, OnlyTx, locals, tables, StaticKeeps, GiveUp, Goto
<1>10. ASSUME StartOnItem(s) PROVE HolderInv(s)'
  BY <1>10 DEF StartOnItem, Begins, tables, StaticKeeps, Goto
<1>11. ASSUME DeleteRow(s) PROVE HolderInv(s)'
  BY <1>11 DEF DeleteRow, GiveUp, Goto, StaticKeeps, tables
<1>12. ASSUME SelectNext(s) PROVE HolderInv(s)'
  BY <1>12 DEF SelectNext, Reads, tables, StaticKeeps, Goto
<1>13. ASSUME MakePrimary(s) PROVE HolderInv(s)'
  BY <1>13 DEF MakePrimary, OnlyTx, locals, tables, StaticKeeps, GiveUp, Goto
<1>14. ASSUME ScanPrimary(s) PROVE HolderInv(s)'
  BY <1>14 DEF ScanPrimary, Reads, tables, StaticKeeps, Goto
<1>15. ASSUME ClearPrimary(s) PROVE HolderInv(s)'
  BY <1>15 DEF ClearPrimary, OnlyTx, locals, tables, StaticKeeps, Goto
<1>16. ASSUME StartReorder(s) PROVE HolderInv(s)'
  BY <1>16 DEF StartReorder, Begins, tables, StaticKeeps, Goto
<1>17. ASSUME MovePhoto(s) PROVE HolderInv(s)'
  BY <1>17 DEF MovePhoto, StaticKeeps, Goto, tables
<1>18. ASSUME StartDeleteFirearm(s) PROVE HolderInv(s)'
  BY <1>18 DEF StartDeleteFirearm, Begins, tables, StaticKeeps, Goto
<1>19. ASSUME CollectPhotos(s) PROVE HolderInv(s)'
  BY <1>19 DEF CollectPhotos, Reads, tables, StaticKeeps, Goto
<1>20. ASSUME CollectDocuments(s) PROVE HolderInv(s)'
  BY <1>20 DEF CollectDocuments, Reads, tables, StaticKeeps, Goto
<1>21. ASSUME Cascade(s) PROVE HolderInv(s)'
  <2>1. UNCHANGED <<rows, op, keys>>
    BY <1>21 DEF Cascade, OnlyTx, locals, tables
  <2>2. CASE ~firearmLive
    BY <1>21, <2>1, <2>2 DEF Cascade, GiveUp, Goto
  <2>3. CASE firearmLive
    <3>1. tx'[s] = [tx[s] EXCEPT !.del = rows] /\ op[s] = "deleteFirearm" /\ pc'[s] = "commit"
      BY <1>21, <2>3 DEF Cascade, Goto
    <3>2. tx'[s].del = rows
      BY <3>1 DEF TxType
    <3> QED
      BY <2>1, <3>1, <3>2
  <2> QED
    BY <2>2, <2>3
<1>22. ASSUME TxFails(s) PROVE HolderInv(s)'
  BY <1>22 DEF TxFails, OnlyTx, locals, tables, StaticKeeps, GiveUp, Goto
<1>23. ASSUME Deadlock(s) PROVE HolderInv(s)'
  BY <1>23 DEF Deadlock, OnlyTx, locals, tables, StaticKeeps, GiveUp, Goto
<1>24. ASSUME Commit(s) PROVE HolderInv(s)'
  BY <1>24 DEF Commit, StaticKeeps, Goto, Apply, locals
<1>25. ASSUME CommitUnanswered(s) PROVE HolderInv(s)'
  BY <1>25 DEF CommitUnanswered, GiveUp, Goto, Apply, locals
<1>26. ASSUME Reclaim(s) PROVE HolderInv(s)'
  BY <1>26 DEF Reclaim, StaticKeeps, Goto, tables, locals
<1> QED
  BY <1>1, <1>2, <1>3, <1>4, <1>5, <1>6, <1>7, <1>8, <1>9, <1>10, <1>11, <1>12, <1>13,
     <1>14, <1>15, <1>16, <1>17, <1>18, <1>19, <1>20, <1>21, <1>22, <1>23, <1>24, <1>25,
     <1>26 DEF Call, Starts, Proceeds

\* A gallery that shrinks stays within a quota.
LEMMA Shrinks ==
  ASSUME NEW R \in SUBSET Item, NEW S \in SUBSET R, NEW K
  PROVE  /\ Cardinality(S \intersect K) \in Nat /\ Cardinality(R \intersect K) \in Nat
         /\ Cardinality(S \intersect K) <= Cardinality(R \intersect K)
<1>1. IsFiniteSet(R \intersect K)
  BY GalleryAssumption, FS_Subset DEF GalleryAssumption
<1>2. S \intersect K \in SUBSET (R \intersect K)
  OBVIOUS
<1> QED
  BY <1>1, <1>2, FS_Subset, FS_CardinalityType

\* A gallery that takes new files in grows by no more than their number.
LEMMA Grows ==
  ASSUME NEW R \in SUBSET Item, NEW N \in SUBSET Item, NEW K, N \subseteq K
  PROVE  /\ Cardinality(R \intersect K) \in Nat /\ Cardinality(N) \in Nat
         /\ Cardinality((R \union N) \intersect K) \in Nat
         /\ Cardinality((R \union N) \intersect K) <= Cardinality(R \intersect K) + Cardinality(N)
<1>1. IsFiniteSet(R \intersect K) /\ IsFiniteSet(N) /\ IsFiniteSet((R \intersect K) \intersect N)
  BY GalleryAssumption, FS_Subset DEF GalleryAssumption
<1>2. (R \union N) \intersect K = (R \intersect K) \union N
  OBVIOUS
<1>3. Cardinality((R \intersect K) \union N)
        = Cardinality(R \intersect K) + Cardinality(N) - Cardinality((R \intersect K) \intersect N)
  BY <1>1, FS_Union
<1>4. /\ Cardinality(R \intersect K) \in Nat /\ Cardinality(N) \in Nat
      /\ Cardinality((R \intersect K) \intersect N) \in Nat
  BY <1>1, FS_CardinalityType
<1>5. IsFiniteSet((R \intersect K) \union N)
  BY <1>1, FS_Union
<1>6. Cardinality((R \intersect K) \union N) \in Nat
  BY <1>5, FS_CardinalityType
<1>7. ASSUME NEW a \in Nat, NEW b \in Nat, NEW d \in Nat, NEW c \in Nat, c = a + b - d
      PROVE  c <= a + b
  BY <1>7
<1>8. Cardinality((R \intersect K) \union N) <= Cardinality(R \intersect K) + Cardinality(N)
  BY <1>3, <1>4, <1>6, <1>7
<1> QED
  BY <1>2, <1>4, <1>6, <1>8

\* The quotas hold, and the lock keeps what its holder has read of the rows true
\* until its COMMIT.
LEMMA LockStep ==
  ASSUME TypeOK, TypeOK', \A q \in Session : CallInv(q), LockInv, QuotaHolds,
         NEW s \in Session, Call(s)
  PROVE  LockInv' /\ QuotaHolds'
<1>1. OthersSame(s) /\ (Commits(s) \/ UNCHANGED <<firearmLive, rows, primary, unsure>>)
  BY CallAlone, CallTables
<1>2. \A r \in Session : HolderInv(r)
  BY DEF LockInv, HolderInv
<1>3. HolderInv(s)'
  BY <1>2, HolderStep
<1>4. ASSUME NEW r \in Session \ {s}
      PROVE  HoldsFirearm(r)' = HoldsFirearm(r) /\ ~(HoldsFirearm(r)' /\ HoldsFirearm(s)')
  <2>1. HoldsFirearm(r)' = HoldsFirearm(r)
    BY <1>1 DEF OthersSame, HoldsFirearm
  <2>2. HoldsFirearm(s)' => HoldsFirearm(s) \/ ~HoldsFirearm(r)
    BY LockTaken
  <2>3. ~(HoldsFirearm(r) /\ HoldsFirearm(s))
    BY DEF LockInv
  <2> QED
    BY <2>1, <2>2, <2>3
<1>5. Commits(s) =>
        /\ op[s] \in Operations /\ pc[s] = "commit"
        /\ op[s] \notin Uploads => rows' \subseteq rows
        /\ op[s] \in Uploads => /\ rows' = rows \union keys[s]
                                /\ keys[s] \subseteq Kind(op[s]) /\ keys[s] \subseteq Item
                                /\ ~OverQuota(op[s], keys[s])
  BY <1>2 DEF Commits, Apply, CallInv, PlaceInv, WriteInv, FilesInv, HolderInv, TypeOK
<1>6. ASSUME NEW r \in Session \ {s}
      PROVE  HolderInv(r)'
  <2>1. /\ pc'[r] = pc[r] /\ op'[r] = op[r] /\ keys'[r] = keys[r] /\ tx'[r] = tx[r]
        /\ HolderInv(r)
    BY <1>1, <1>2 DEF OthersSame
  <2>2. CASE rows' = rows
    BY <2>1, <2>2 DEF HolderInv, OverQuota
  <2>3. CASE Commits(s) /\ HoldsFirearm(r)
    <3>1. ~HoldsFirearm(s)
      BY <2>3 DEF LockInv
    <3>2. rows' \subseteq rows
      BY <1>5, <2>3, <3>1 DEF HoldsFirearm
    <3>3. /\ Cardinality(rows' \intersect Kind(op[r])) \in Nat
          /\ Cardinality(rows \intersect Kind(op[r])) \in Nat
          /\ Cardinality(rows' \intersect Kind(op[r])) <= Cardinality(rows \intersect Kind(op[r]))
      BY <3>2, Shrinks DEF TypeOK
    <3>4. op[r] \in Uploads => keys[r] \subseteq Item /\ Cardinality(keys[r]) \in Nat
      BY GalleryAssumption, FS_Subset, FS_CardinalityType DEF GalleryAssumption, TypeOK
    <3>5. op[r] \in Uploads => (~OverQuota(op[r], keys[r]) => ~OverQuota(op[r], keys[r])')
      BY <2>1, <3>3, <3>4, GalleryAssumption DEF OverQuota, Quota, GalleryAssumption
    <3> QED
      BY <2>1, <3>2, <3>5 DEF HolderInv, CallInv, PlaceInv
  <2>4. CASE ~HoldsFirearm(r)
    BY <2>1, <2>4 DEF HolderInv, HoldsFirearm
  <2> QED
    BY <1>1, <2>2, <2>3, <2>4
<1>7. LockInv'
  <2> SUFFICES ASSUME NEW q \in Session
               PROVE  /\ \A r \in Session \ {q} : ~(HoldsFirearm(r) /\ HoldsFirearm(q))'
                      /\ HolderInv(q)'
    BY DEF LockInv, HolderInv
  <2>1. HolderInv(q)'
    BY <1>3, <1>6
  <2>2. ASSUME NEW r \in Session \ {q}
        PROVE  ~(HoldsFirearm(r)' /\ HoldsFirearm(q)')
    <3>1. CASE r = s \/ q = s
      BY <1>4, <3>1
    <3>2. CASE r # s /\ q # s
      BY <1>4, <3>2 DEF LockInv
    <3> QED
      BY <3>1, <3>2
  <2> QED
    BY <2>1, <2>2
<1>8. QuotaHolds'
  <2>1. CASE rows' \subseteq rows
    <3>1. ASSUME NEW K
          PROVE  /\ Cardinality(rows' \intersect K) \in Nat
                 /\ Cardinality(rows \intersect K) \in Nat
                 /\ Cardinality(rows' \intersect K) <= Cardinality(rows \intersect K)
      BY <2>1, Shrinks DEF TypeOK
    <3>2. /\ Cardinality(rows' \intersect Photos) <= Cardinality(rows \intersect Photos)
          /\ Cardinality(rows' \intersect Documents) <= Cardinality(rows \intersect Documents)
          /\ Cardinality(rows' \intersect Photos) \in Nat
          /\ Cardinality(rows \intersect Photos) \in Nat
          /\ Cardinality(rows' \intersect Documents) \in Nat
          /\ Cardinality(rows \intersect Documents) \in Nat
      BY <3>1
    <3> QED
      BY <3>2, GalleryAssumption DEF QuotaHolds, GalleryAssumption
  <2>2. CASE Commits(s) /\ op[s] \in Uploads
    <3> DEFINE K == Kind(op[s])
    <3>1. /\ rows' = rows \union keys[s] /\ ~OverQuota(op[s], keys[s])
          /\ keys[s] \subseteq K /\ keys[s] \in SUBSET Item /\ rows \in SUBSET Item
      BY <1>5, <2>2 DEF TypeOK
    <3>2. /\ Cardinality(rows \intersect K) \in Nat /\ Cardinality(keys[s]) \in Nat
          /\ Cardinality(rows' \intersect K) \in Nat
          /\ Cardinality(rows' \intersect K)
               <= Cardinality(rows \intersect K) + Cardinality(keys[s])
      BY <3>1, Grows
    <3>3. Cardinality(rows \intersect K) + Cardinality(keys[s]) <= Quota(op[s])
      BY <3>1, <3>2, GalleryAssumption DEF OverQuota, Quota, GalleryAssumption
    <3>4. Cardinality(rows' \intersect K) <= Quota(op[s])
      BY <3>2, <3>3, GalleryAssumption DEF Quota, GalleryAssumption
    <3>5. CASE op[s] = "createPhotos"
      <4>1. rows' \intersect Documents = rows \intersect Documents
        BY <3>1, <3>5, GalleryAssumption DEF Kind, GalleryAssumption
      <4> QED
        BY <3>4, <3>5, <4>1 DEF QuotaHolds, Quota, Kind
    <3>6. CASE op[s] = "createDocuments"
      <4>1. rows' \intersect Photos = rows \intersect Photos
        BY <3>1, <3>6, GalleryAssumption DEF Kind, GalleryAssumption
      <4> QED
        BY <3>4, <3>6, <4>1 DEF QuotaHolds, Quota, Kind
    <3> QED
      BY <2>2, <3>5, <3>6 DEF Uploads
  <2> QED
    BY <1>1, <1>5, <2>1, <2>2
<1> QED
  BY <1>7, <1>8

-----------------------------------------------------------------------------
(* The index of the primary.                                               *)

\* The statement that makes a photo primary finds no other primary that stays,
\* and no other transaction about to make one.
MakesPrimary(s) ==
  \E p \in Photos :
    /\ tx'[s].set = {p} /\ UNCHANGED primary
    /\ primary \subseteq {p} \union tx'[s].clear \union tx'[s].del
    /\ \A r \in Session \ {s} : tx[r].set = {}

\* A step of a call leaves nothing to be made primary, or makes one photo so.
LEMMA SetStep ==
  ASSUME TypeOK, TypeOK', NEW s \in Session, CallInv(s), CallInv(s)', Call(s)
  PROVE  tx'[s].set = {} \/ MakesPrimary(s)
<1> USE NoTxType DEF TypeOK
<1>1. ASSUME StartUpload(s) PROVE tx'[s].set = {} \/ MakesPrimary(s)
  BY <1>1 DEF StartUpload, Reads, tables, StaticKeeps, Goto, CallInv, WriteInv
<1>2. ASSUME ValidateDocuments(s) PROVE tx'[s].set = {} \/ MakesPrimary(s)
  BY <1>2 DEF ValidateDocuments, Reads, tables, StaticKeeps, Goto, CallInv, WriteInv
<1>3. ASSUME CheckQuota(s) PROVE tx'[s].set = {} \/ MakesPrimary(s)
  BY <1>3 DEF CheckQuota, Reads, tables, StaticKeeps, Goto, locals, CallInv, WriteInv
<1>4. ASSUME BeginSave(s) PROVE tx'[s].set = {} \/ MakesPrimary(s)
  BY <1>4 DEF BeginSave, StaticKeeps, Goto, AfterFile, tables, CallInv, WriteInv
<1>5. ASSUME EndSave(s) PROVE tx'[s].set = {} \/ MakesPrimary(s)
  BY <1>5 DEF EndSave, StaticKeeps, AfterFile, Goto, tables, CallInv, WriteInv
<1>6. ASSUME BeginUpload(s) PROVE tx'[s].set = {} \/ MakesPrimary(s)
  BY <1>6 DEF BeginUpload, Begins, tables, StaticKeeps, GiveUp, Goto, locals, CallInv,
     WriteInv
<1>7. ASSUME LockFirearm(s) PROVE tx'[s].set = {} \/ MakesPrimary(s)
  BY <1>7 DEF LockFirearm, OnlyTx, locals, tables, StaticKeeps, GiveUp, Goto, CallInv,
     WriteInv
<1>8. ASSUME ReadExisting(s) PROVE tx'[s].set = {} \/ MakesPrimary(s)
  BY <1>8 DEF ReadExisting, GiveUp, Goto, StaticKeeps, tables, CallInv, WriteInv
<1>9. ASSUME InsertRows(s) PROVE tx'[s].set = {} \/ MakesPrimary(s)
  <2>1. tx[s] = NoTx /\ tx[s].set = {} /\ tx[s].clear = {} /\ tx[s].del = {}
    BY <1>9, NoTxType DEF InsertRows, CallInv, WriteInv
  <2>2. CASE GiveUp(s)
    BY <2>1, <2>2 DEF GiveUp
  <2>3. CASE ~Promotes(s)
    <3>1. tx' = [tx EXCEPT ![s].ins = keys[s]]
      BY <1>9, <2>3 DEF InsertRows
    <3> QED
      BY <2>1, <3>1 DEF TxType
  <2>4. CASE Promotes(s) /\ ~GiveUp(s)
    <3>1. PICK p \in keys[s] : /\ tx' = [tx EXCEPT ![s].ins = keys[s], ![s].set = {p}]
                               /\ ~IndexRefuses(s, p)
      BY <1>9, <2>4 DEF InsertRows
    <3>2. tx'[s].set = {p} /\ tx'[s].clear = tx[s].clear /\ tx'[s].del = tx[s].del
      BY <3>1 DEF TxType
    <3>3. ASSUME NEW r \in Session \ {s}
          PROVE  tx[r].set = {}
      <4>1. Touches(s) = {}
        BY <1>9 DEF InsertRows, Touches
      <4> QED
        BY <1>9, <2>4, <4>1 DEF InsertRows, Free, WaitsFor, IndexWaits
    <3>4. primary \subseteq {p} \union tx[s].clear \union tx[s].del
      BY <3>1 DEF IndexRefuses
    <3>5. tx'[s].set \in SUBSET Photos
      BY TxFields
    <3>6. p \in Photos /\ UNCHANGED primary
      BY <1>9, <3>2, <3>5 DEF InsertRows, OnlyTx, tables
    <3> QED
      BY <3>2, <3>3, <3>4, <3>6 DEF MakesPrimary
  <2> QED
    BY <2>2, <2>3, <2>4
<1>10. ASSUME StartOnItem(s) PROVE tx'[s].set = {} \/ MakesPrimary(s)
  BY <1>10 DEF StartOnItem, Begins, tables, StaticKeeps, Goto, CallInv, WriteInv
<1>11. ASSUME DeleteRow(s) PROVE tx'[s].set = {} \/ MakesPrimary(s)
  <2>1. tx[s].set = {} /\ NoTx.set = {}
    BY <1>11 DEF DeleteRow, CallInv, WriteInv
  <2>2. tx'[s] = NoTx \/ tx'[s] = [tx[s] EXCEPT !.del = {arg[s]}]
    BY <1>11 DEF DeleteRow, GiveUp
  <2> QED
    BY <2>1, <2>2 DEF TxType
<1>12. ASSUME SelectNext(s) PROVE tx'[s].set = {} \/ MakesPrimary(s)
  BY <1>12 DEF SelectNext, Reads, tables, StaticKeeps, Goto, CallInv, WriteInv
<1>13. ASSUME MakePrimary(s) PROVE tx'[s].set = {} \/ MakesPrimary(s)
  <2>1. tx[s].set = {} /\ tx'[s] \in TxType /\ NoTx.set = {}
    BY <1>13, NoTxType DEF MakePrimary, CallInv, WriteInv
  <2>2. CASE tx' = tx \/ GiveUp(s)
    BY <2>1, <2>2 DEF GiveUp
  <2>3. CASE tx' = [tx EXCEPT ![s].set = {arg[s]}] /\ ~IndexRefuses(s, arg[s]) /\ arg[s] \in rows
    <3>1. /\ tx'[s].set = {arg[s]} /\ tx'[s].clear = tx[s].clear /\ tx'[s].del = tx[s].del
      BY <2>3 DEF TxType
    <3>2. ASSUME NEW r \in Session \ {s}
          PROVE  tx[r].set = {}
      <4>1. Touches(s) = {arg[s]} /\ Promotes(s)
        BY <1>13, <2>3 DEF MakePrimary, Touches, Promotes
      <4>2. tx[r].set \subseteq {arg[s]} /\ {arg[s]} \intersect Written(r) = {}
        BY <1>13, <4>1 DEF MakePrimary, Free, WaitsFor, IndexWaits
      <4> QED
        BY <4>2 DEF Written
    <3>3. primary \subseteq {arg[s]} \union tx[s].clear \union tx[s].del
      BY <2>3 DEF IndexRefuses
    <3>5. tx'[s].set \in SUBSET Photos
      BY TxFields
    <3>6. arg[s] \in Photos /\ UNCHANGED primary
      BY <1>13, <3>1, <3>5 DEF MakePrimary, OnlyTx, tables
    <3> QED
      BY <3>1, <3>2, <3>3, <3>6 DEF MakesPrimary
  <2> QED
    BY <1>13, <2>2, <2>3 DEF MakePrimary
<1>14. ASSUME ScanPrimary(s) PROVE tx'[s].set = {} \/ MakesPrimary(s)
  BY <1>14 DEF ScanPrimary, Reads, tables, StaticKeeps, Goto, CallInv, WriteInv
<1>15. ASSUME ClearPrimary(s) PROVE tx'[s].set = {} \/ MakesPrimary(s)
  BY <1>15 DEF ClearPrimary, OnlyTx, locals, tables, StaticKeeps, Goto, CallInv, WriteInv
<1>16. ASSUME StartReorder(s) PROVE tx'[s].set = {} \/ MakesPrimary(s)
  BY <1>16 DEF StartReorder, Begins, tables, StaticKeeps, Goto, CallInv, WriteInv
<1>17. ASSUME MovePhoto(s) PROVE tx'[s].set = {} \/ MakesPrimary(s)
  <2>1. op'[s] = "reorderPhotos"
    BY <1>17 DEF MovePhoto, CallInv, PlaceInv
  <2> QED
    BY <2>1 DEF CallInv, WriteInv
<1>18. ASSUME StartDeleteFirearm(s) PROVE tx'[s].set = {} \/ MakesPrimary(s)
  BY <1>18 DEF StartDeleteFirearm, Begins, tables, StaticKeeps, Goto, CallInv, WriteInv
<1>19. ASSUME CollectPhotos(s) PROVE tx'[s].set = {} \/ MakesPrimary(s)
  BY <1>19 DEF CollectPhotos, Reads, tables, StaticKeeps, Goto, CallInv, WriteInv
<1>20. ASSUME CollectDocuments(s) PROVE tx'[s].set = {} \/ MakesPrimary(s)
  BY <1>20 DEF CollectDocuments, Reads, tables, StaticKeeps, Goto, CallInv, WriteInv
<1>21. ASSUME Cascade(s) PROVE tx'[s].set = {} \/ MakesPrimary(s)
  <2>1. op'[s] = "deleteFirearm"
    BY <1>21 DEF Cascade, OnlyTx, locals, CallInv, PlaceInv
  <2> QED
    BY <2>1 DEF CallInv, WriteInv
<1>22. ASSUME TxFails(s) PROVE tx'[s].set = {} \/ MakesPrimary(s)
  BY <1>22 DEF TxFails, OnlyTx, locals, tables, StaticKeeps, GiveUp, Goto, CallInv, WriteInv
<1>23. ASSUME Deadlock(s) PROVE tx'[s].set = {} \/ MakesPrimary(s)
  BY <1>23 DEF Deadlock, OnlyTx, locals, tables, StaticKeeps, GiveUp, Goto, CallInv,
     WriteInv
<1>24. ASSUME Commit(s) PROVE tx'[s].set = {} \/ MakesPrimary(s)
  BY <1>24 DEF Commit, StaticKeeps, Goto, Apply, locals, CallInv, WriteInv
<1>25. ASSUME CommitUnanswered(s) PROVE tx'[s].set = {} \/ MakesPrimary(s)
  BY <1>25 DEF CommitUnanswered, GiveUp, Goto, Apply, locals, CallInv, WriteInv
<1>26. ASSUME Reclaim(s) PROVE tx'[s].set = {} \/ MakesPrimary(s)
  BY <1>26 DEF Reclaim, StaticKeeps, Goto, tables, locals, CallInv, WriteInv
<1> QED
  BY <1>1, <1>2, <1>3, <1>4, <1>5, <1>6, <1>7, <1>8, <1>9, <1>10, <1>11, <1>12, <1>13,
     <1>14, <1>15, <1>16, <1>17, <1>18, <1>19, <1>20, <1>21, <1>22, <1>23, <1>24, <1>25,
     <1>26 DEF Call, Starts, Proceeds

\* One open transaction makes a photo primary, and no COMMIT leaves two of them.
LEMMA IndexStep ==
  ASSUME TypeOK, TypeOK', \A q \in Session : CallInv(q), IndexInv, AtMostOnePrimary,
         NEW s \in Session, CallInv(s)', Call(s)
  PROVE  IndexInv' /\ AtMostOnePrimary'
<1>1. OthersSame(s) /\ (Commits(s) \/ UNCHANGED <<firearmLive, rows, primary, unsure>>)
  BY CallAlone, CallTables
<1>2. tx'[s].set = {} \/ MakesPrimary(s)
  BY SetStep
<1>3. CASE MakesPrimary(s)
  <2>1. PICK p \in Photos :
          /\ tx'[s].set = {p} /\ UNCHANGED primary
          /\ primary \subseteq {p} \union tx'[s].clear \union tx'[s].del
          /\ \A r \in Session \ {s} : tx[r].set = {}
    BY <1>3 DEF MakesPrimary
  <2>2. \A r \in Session \ {s} : tx'[r].set = {}
    BY <1>1, <2>1 DEF OthersSame
  <2> QED
    BY <2>1, <2>2 DEF IndexInv, AtMostOnePrimary
<1>4. CASE tx'[s].set = {} /\ ~Commits(s)
  <2>1. primary' = primary
    BY <1>1, <1>4
  <2>2. \A r \in Session \ {s} : tx'[r] = tx[r]
    BY <1>1 DEF OthersSame
  <2> QED
    BY <1>4, <2>1, <2>2 DEF IndexInv, AtMostOnePrimary
<1>5. CASE tx'[s].set = {} /\ Commits(s)
  <2>1. primary' = ((primary \ tx[s].clear) \ tx[s].del) \union tx[s].set
    BY <1>5 DEF Commits, Apply
  <2>2. \A r \in Session \ {s} : tx'[r] = tx[r]
    BY <1>1 DEF OthersSame
  <2>3. CASE tx[s].set = {}
    <3>1. primary' \subseteq primary
      BY <2>1, <2>3
    <3> QED
      BY <1>5, <2>2, <3>1 DEF IndexInv, AtMostOnePrimary
  <2>4. CASE tx[s].set # {}
    <3>1. PICK p \in tx[s].set : /\ tx[s].set = {p}
                                 /\ primary \subseteq {p} \union tx[s].clear \union tx[s].del
      BY <2>4 DEF IndexInv
    <3>2. primary' \subseteq {p}
      BY <2>1, <3>1
    <3>3. \A r \in Session : tx'[r].set = {}
      BY <1>5, <2>2, <2>4 DEF IndexInv
    <3> QED
      BY <3>2, <3>3 DEF IndexInv, AtMostOnePrimary
  <2> QED
    BY <2>3, <2>4
<1> QED
  BY <1>2, <1>3, <1>4, <1>5

-----------------------------------------------------------------------------
(* The primary of the gallery.                                             *)

\* A call that is in its transaction has been, or has begun it now.
LEMMA Entering ==
  ASSUME TypeOK, NEW s \in Session, CallInv(s), Call(s)
  PROVE  \/ UNCHANGED overlap /\ InTx(s) /\ op'[s] = op[s]
         \/ UNCHANGED overlap /\ ~InTx(s)'
         \/ overlap' = (overlap \/ Overlaps(s, op'[s])) /\ ~InTx(s)
<1> DEFINE Entered == \/ UNCHANGED overlap /\ InTx(s) /\ op'[s] = op[s]
                      \/ UNCHANGED overlap /\ ~InTx(s)'
                      \/ overlap' = (overlap \/ Overlaps(s, op'[s])) /\ ~InTx(s)
<1> USE DEF TypeOK, InTx, TxStates, CallInv, PlaceInv
<1>1. ASSUME StartUpload(s) PROVE Entered
  BY <1>1 DEF StartUpload, Reads, tables, StaticKeeps, Goto
<1>2. ASSUME ValidateDocuments(s) PROVE Entered
  BY <1>2 DEF ValidateDocuments, Reads, tables, StaticKeeps, Goto
<1>3. ASSUME CheckQuota(s) PROVE Entered
  BY <1>3 DEF CheckQuota, Reads, tables, StaticKeeps, Goto, locals
<1>4. ASSUME BeginSave(s) PROVE Entered
  BY <1>4 DEF BeginSave, StaticKeeps, Goto, AfterFile, tables
<1>5. ASSUME EndSave(s) PROVE Entered
  BY <1>5 DEF EndSave, StaticKeeps, AfterFile, Goto, tables
<1>6. ASSUME BeginUpload(s) PROVE Entered
  BY <1>6 DEF BeginUpload, Begins, tables, StaticKeeps, GiveUp, Goto, locals
<1>7. ASSUME LockFirearm(s) PROVE Entered
  BY <1>7 DEF LockFirearm, OnlyTx, locals, tables, StaticKeeps, GiveUp, Goto
<1>8. ASSUME ReadExisting(s) PROVE Entered
  BY <1>8 DEF ReadExisting, GiveUp, Goto, StaticKeeps, tables
<1>9. ASSUME InsertRows(s) PROVE Entered
  BY <1>9 DEF InsertRows, OnlyTx, locals, tables, StaticKeeps, GiveUp, Goto
<1>10. ASSUME StartOnItem(s) PROVE Entered
  BY <1>10 DEF StartOnItem, Begins, tables, StaticKeeps, Goto
<1>11. ASSUME DeleteRow(s) PROVE Entered
  BY <1>11 DEF DeleteRow, GiveUp, Goto, StaticKeeps, tables
<1>12. ASSUME SelectNext(s) PROVE Entered
  BY <1>12 DEF SelectNext, Reads, tables, StaticKeeps, Goto
<1>13. ASSUME MakePrimary(s) PROVE Entered
  BY <1>13 DEF MakePrimary, OnlyTx, locals, tables, StaticKeeps, GiveUp, Goto
<1>14. ASSUME ScanPrimary(s) PROVE Entered
  BY <1>14 DEF ScanPrimary, Reads, tables, StaticKeeps, Goto
<1>15. ASSUME ClearPrimary(s) PROVE Entered
  BY <1>15 DEF ClearPrimary, OnlyTx, locals, tables, StaticKeeps, Goto
<1>16. ASSUME StartReorder(s) PROVE Entered
  BY <1>16 DEF StartReorder, Begins, tables, StaticKeeps, Goto
<1>17. ASSUME MovePhoto(s) PROVE Entered
  BY <1>17 DEF MovePhoto, StaticKeeps, Goto, tables
<1>18. ASSUME StartDeleteFirearm(s) PROVE Entered
  BY <1>18 DEF StartDeleteFirearm, Begins, tables, StaticKeeps, Goto
<1>19. ASSUME CollectPhotos(s) PROVE Entered
  BY <1>19 DEF CollectPhotos, Reads, tables, StaticKeeps, Goto
<1>20. ASSUME CollectDocuments(s) PROVE Entered
  BY <1>20 DEF CollectDocuments, Reads, tables, StaticKeeps, Goto
<1>21. ASSUME Cascade(s) PROVE Entered
  BY <1>21 DEF Cascade, OnlyTx, locals, tables, StaticKeeps, GiveUp, Goto
<1>22. ASSUME TxFails(s) PROVE Entered
  BY <1>22 DEF TxFails, OnlyTx, locals, tables, StaticKeeps, GiveUp, Goto
<1>23. ASSUME Deadlock(s) PROVE Entered
  BY <1>23 DEF Deadlock, OnlyTx, locals, tables, StaticKeeps, GiveUp, Goto
<1>24. ASSUME Commit(s) PROVE Entered
  BY <1>24 DEF Commit, StaticKeeps, Goto, Apply, locals
<1>25. ASSUME CommitUnanswered(s) PROVE Entered
  BY <1>25 DEF CommitUnanswered, GiveUp, Goto, Apply, locals
<1>26. ASSUME Reclaim(s) PROVE Entered
  BY <1>26 DEF Reclaim, StaticKeeps, Goto, tables, locals
<1> QED
  BY <1>1, <1>2, <1>3, <1>4, <1>5, <1>6, <1>7, <1>8, <1>9, <1>10, <1>11, <1>12, <1>13,
     <1>14, <1>15, <1>16, <1>17, <1>18, <1>19, <1>20, <1>21, <1>22, <1>23, <1>24, <1>25,
     <1>26 DEF Call, Starts, Proceeds

\* What a call has read of the primary holds on, at its own steps.
LEMMA MoverStep ==
  ASSUME TypeOK, TypeOK', NEW s \in Session, CallInv(s), AtMostOnePrimary, MoverInv(s), Call(s)
  PROVE  MoverInv(s)'
<1> USE DEF TypeOK, MoverInv
<1>1. ASSUME StartUpload(s) PROVE MoverInv(s)'
  BY <1>1 DEF StartUpload, Reads, tables, StaticKeeps, Goto, CallInv, PlaceInv, Uploads,
     Removals, BeforeTx
<1>2. ASSUME ValidateDocuments(s) PROVE MoverInv(s)'
  BY <1>2 DEF ValidateDocuments, Reads, tables, StaticKeeps, Goto, CallInv, PlaceInv,
     Uploads, Removals, BeforeTx
<1>3. ASSUME CheckQuota(s) PROVE MoverInv(s)'
  BY <1>3 DEF CheckQuota, Reads, tables, StaticKeeps, Goto, locals, CallInv, PlaceInv,
     Uploads, Removals, BeforeTx
<1>4. ASSUME BeginSave(s) PROVE MoverInv(s)'
  BY <1>4 DEF BeginSave, StaticKeeps, Goto, AfterFile, tables, CallInv, PlaceInv, Uploads,
     Removals, BeforeTx
<1>5. ASSUME EndSave(s) PROVE MoverInv(s)'
  BY <1>5 DEF EndSave, StaticKeeps, AfterFile, Goto, tables, CallInv, PlaceInv, Uploads,
     Removals, BeforeTx
<1>6. ASSUME BeginUpload(s) PROVE MoverInv(s)'
  BY <1>6 DEF BeginUpload, Begins, tables, StaticKeeps, GiveUp, Goto, locals, CallInv,
     PlaceInv, Uploads, Removals, BeforeTx
<1>7. ASSUME LockFirearm(s) PROVE MoverInv(s)'
  BY <1>7 DEF LockFirearm, OnlyTx, locals, tables, StaticKeeps, GiveUp, Goto, CallInv,
     PlaceInv, Uploads, Removals, BeforeTx
<1>8. ASSUME ReadExisting(s) PROVE MoverInv(s)'
  BY <1>8 DEF ReadExisting, GiveUp, Goto, StaticKeeps, tables, CallInv, PlaceInv, Uploads,
     Removals, BeforeTx
<1>9. ASSUME InsertRows(s) PROVE MoverInv(s)'
  <2>1. UNCHANGED <<op, rows, primary>> /\ op[s] \in Uploads
    BY <1>9 DEF InsertRows, OnlyTx, locals, tables, CallInv, PlaceInv
  <2>2. CASE GiveUp(s)
    BY <2>1, <2>2 DEF GiveUp, Goto
  <2>3. CASE ~GiveUp(s) /\ op[s] = "createPhotos"
    <3>1. pc'[s] = "commit"
      BY <1>9, <2>3 DEF InsertRows, Goto
    <3>2. CASE Promotes(s)
      <4>1. PICK p \in keys[s] : tx' = [tx EXCEPT ![s].ins = keys[s], ![s].set = {p}]
        BY <1>9, <2>3, <3>2 DEF InsertRows
      <4>2. tx'[s].set = {p}
        BY <4>1 DEF TxType
      <4> QED
        BY <2>1, <2>3, <3>1, <4>2
    <3>3. CASE ~Promotes(s)
      <4>1. primary # {}
        BY <1>9, <2>3, <3>3 DEF InsertRows, Promotes
      <4> QED
        BY <2>1, <2>3, <3>1, <4>1
    <3> QED
      BY <3>2, <3>3
  <2>4. CASE ~GiveUp(s) /\ op[s] = "createDocuments"
    <3>1. pc'[s] = "commit"
      BY <1>9, <2>4 DEF InsertRows, Goto
    <3> QED
      BY <2>1, <2>4, <3>1
  <2> QED
    BY <2>1, <2>2, <2>3, <2>4 DEF Uploads
<1>10. ASSUME StartOnItem(s) PROVE MoverInv(s)'
  BY <1>10 DEF StartOnItem, Begins, tables, StaticKeeps, Goto, CallInv, PlaceInv, Uploads,
     Removals, BeforeTx
<1>11. ASSUME DeleteRow(s) PROVE MoverInv(s)'
  <2>1. op'[s] = op[s] /\ op[s] \in Removals /\ UNCHANGED <<rows, primary>>
    BY <1>11 DEF DeleteRow, tables, CallInv, PlaceInv, Removals
  <2>2. CASE arg[s] \notin rows
    BY <1>11, <2>1, <2>2 DEF DeleteRow, GiveUp, Goto, Removals, Uploads
  <2>3. CASE arg[s] \in rows
    <3>1. tx'[s] = [tx[s] EXCEPT !.del = {arg[s]}]
      BY <1>11, <2>3 DEF DeleteRow
    <3>2. tx'[s].del = {arg[s]}
      BY <3>1 DEF TxType
    <3>3. pc'[s] = IF arg[s] \in primary THEN "next" ELSE "commit"
      BY <1>11, <2>3 DEF DeleteRow, Goto
    <3>4. arg[s] \in primary => primary \subseteq tx'[s].del
      BY <3>2 DEF AtMostOnePrimary
    <3>5. op[s] # "setPrimary" /\ op[s] # "createPhotos"
      BY <2>1 DEF Removals
    <3> QED
      BY <2>1, <3>2, <3>3, <3>4, <3>5
  <2> QED
    BY <2>2, <2>3
<1>12. ASSUME SelectNext(s) PROVE MoverInv(s)'
  <2>1. /\ UNCHANGED <<rows, primary>> /\ op'[s] = op[s] /\ op[s] = "deletePhoto" /\ tx'[s] = tx[s]
        /\ tx[s].del = {arg[s]} /\ primary \subseteq tx[s].del
    BY <1>12 DEF SelectNext, Reads, tables, CallInv, PlaceInv, WriteInv
  <2>2. CASE (rows \intersect Photos) \ {arg[s]} = {}
    <3>1. pc'[s] = "commit"
      BY <1>12, <2>2 DEF SelectNext, Goto
    <3> QED
      BY <2>1, <2>2, <3>1
  <2>3. CASE (rows \intersect Photos) \ {arg[s]} # {}
    <3>1. pc'[s] = "promote" /\ arg'[s] \in rows
      BY <1>12, <2>3 DEF SelectNext, Goto
    <3> QED
      BY <2>1, <3>1
  <2> QED
    BY <2>2, <2>3
<1>13. ASSUME MakePrimary(s) PROVE MoverInv(s)'
  <2>1. /\ UNCHANGED <<op, rows, primary>>
        /\ op[s] \in {"deletePhoto", "setPrimary"} /\ arg[s] \in rows
    BY <1>13 DEF MakePrimary, OnlyTx, locals, tables, CallInv, PlaceInv
  <2>2. CASE GiveUp(s)
    BY <2>1, <2>2 DEF GiveUp, Goto, Uploads
  <2>3. CASE ~GiveUp(s)
    <3>1. pc'[s] = "commit" /\ tx' = [tx EXCEPT ![s].set = {arg[s]}]
      BY <1>13, <2>1, <2>3 DEF MakePrimary, Goto
    <3>2. tx'[s].set = {arg[s]}
      BY <3>1 DEF TxType
    <3> QED
      BY <2>1, <3>1, <3>2
  <2> QED
    BY <2>2, <2>3
<1>14. ASSUME ScanPrimary(s) PROVE MoverInv(s)'
  BY <1>14 DEF ScanPrimary, Reads, tables, StaticKeeps, Goto, CallInv, PlaceInv, Uploads,
     Removals, BeforeTx
<1>15. ASSUME ClearPrimary(s) PROVE MoverInv(s)'
  <2>1. /\ UNCHANGED <<op, rows, primary, arg>> /\ op[s] = "setPrimary" /\ arg[s] \in rows
        /\ seen[s] = primary /\ pc'[s] = "set"
    BY <1>15 DEF ClearPrimary, OnlyTx, locals, tables, CallInv, PlaceInv, Goto
  <2>2. tx'[s] = [tx[s] EXCEPT !.clear = primary]
    BY <1>15, <2>1 DEF ClearPrimary
  <2>3. tx'[s].clear = primary
    BY <2>2 DEF TxType
  <2> QED
    BY <2>1, <2>3
<1>16. ASSUME StartReorder(s) PROVE MoverInv(s)'
  BY <1>16 DEF StartReorder, Begins, tables, StaticKeeps, Goto, CallInv, PlaceInv, Uploads,
     Removals, BeforeTx
<1>17. ASSUME MovePhoto(s) PROVE MoverInv(s)'
  <2>1. op'[s] = "reorderPhotos" /\ pc'[s] \in {"reorder", "commit"}
    BY <1>17 DEF MovePhoto, CallInv, PlaceInv, Goto
  <2> QED
    BY <2>1
<1>18. ASSUME StartDeleteFirearm(s) PROVE MoverInv(s)'
  BY <1>18 DEF StartDeleteFirearm, Begins, tables, StaticKeeps, Goto, CallInv, PlaceInv,
     Uploads, Removals, BeforeTx
<1>19. ASSUME CollectPhotos(s) PROVE MoverInv(s)'
  BY <1>19 DEF CollectPhotos, Reads, tables, StaticKeeps, Goto, CallInv, PlaceInv, Uploads,
     Removals, BeforeTx
<1>20. ASSUME CollectDocuments(s) PROVE MoverInv(s)'
  BY <1>20 DEF CollectDocuments, Reads, tables, StaticKeeps, Goto, CallInv, PlaceInv,
     Uploads, Removals, BeforeTx
<1>21. ASSUME Cascade(s) PROVE MoverInv(s)'
  <2>1. op'[s] = "deleteFirearm" /\ pc'[s] \in {"commit", "reclaim", "done"}
    BY <1>21 DEF Cascade, OnlyTx, locals, CallInv, PlaceInv, GiveUp, Goto
  <2> QED
    BY <2>1
<1>22. ASSUME TxFails(s) PROVE MoverInv(s)'
  BY <1>22 DEF TxFails, OnlyTx, locals, tables, StaticKeeps, GiveUp, Goto, CallInv,
     PlaceInv, Uploads, Removals, BeforeTx
<1>23. ASSUME Deadlock(s) PROVE MoverInv(s)'
  BY <1>23 DEF Deadlock, OnlyTx, locals, tables, StaticKeeps, GiveUp, Goto, CallInv,
     PlaceInv, Uploads, Removals, BeforeTx
<1>24. ASSUME Commit(s) PROVE MoverInv(s)'
  BY <1>24 DEF Commit, StaticKeeps, Goto, Apply, locals, CallInv, PlaceInv, Uploads,
     Removals, BeforeTx
<1>25. ASSUME CommitUnanswered(s) PROVE MoverInv(s)'
  BY <1>25 DEF CommitUnanswered, GiveUp, Goto, Apply, locals, CallInv, PlaceInv, Uploads,
     Removals, BeforeTx
<1>26. ASSUME Reclaim(s) PROVE MoverInv(s)'
  BY <1>26 DEF Reclaim, StaticKeeps, Goto, tables, locals, CallInv, PlaceInv, Uploads,
     Removals, BeforeTx
<1> QED
  BY <1>1, <1>2, <1>3, <1>4, <1>5, <1>6, <1>7, <1>8, <1>9, <1>10, <1>11, <1>12, <1>13,
     <1>14, <1>15, <1>16, <1>17, <1>18, <1>19, <1>20, <1>21, <1>22, <1>23, <1>24, <1>25,
     <1>26 DEF Call, Starts, Proceeds

\* The calls that move the primary are alone in their transactions.
LEMMA MoverAlone ==
  ASSUME TypeOK, NEW s \in Session, CallInv(s), Call(s), ~overlap', OthersSame(s),
         \A q \in Session : AloneInv(q)
  PROVE  \A q \in Session : AloneInv(q)'
<1> USE DEF AloneInv
<1>1. \A r \in Session \ {s} : InTx(r)' = InTx(r) /\ op'[r] = op[r]
  BY DEF OthersSame, InTx
<1>2. ASSUME NEW r \in Session \ {s}, InTx(s)', InTx(r)
      PROVE  ~MovesPrimary(op'[s]) /\ ~MovesPrimary(op[r])
  <2>1. CASE InTx(s) /\ op'[s] = op[s]
    BY <1>2, <2>1
  <2>2. CASE overlap' = (overlap \/ Overlaps(s, op'[s])) /\ ~InTx(s)
    BY <1>2, <2>2 DEF Overlaps
  <2> QED
    BY <1>2, <2>1, <2>2, Entering
<1> SUFFICES ASSUME NEW q \in Session, InTx(q)', MovesPrimary(op'[q]),
                    NEW r \in Session \ {q}, InTx(r)'
             PROVE  FALSE
  OBVIOUS
<1>3. CASE q = s
  BY <1>1, <1>2, <1>3
<1>4. CASE r = s
  BY <1>1, <1>2, <1>4
<1>5. CASE q # s /\ r # s
  BY <1>1, <1>5
<1> QED
  BY <1>3, <1>4, <1>5

\* What a COMMIT does to the gallery next to which other transactions are open.
LEMMA QuietCommit ==
  ASSUME TypeOK, NEW s \in Session, NEW r \in Session \ {s}, CallInv(s), CallInv(r), Commits(s),
         ~(HoldsFirearm(r) /\ HoldsFirearm(s)),
         InTx(s) /\ MovesPrimary(op[s]) => ~InTx(r),
         op[r] = "createPhotos", pc[r] \in {"insert", "commit"}
  PROVE  primary' = primary
<1>1. /\ InTx(s) /\ InTx(r) /\ HoldsFirearm(r)
      /\ pc[s] = "commit" /\ op[s] \in Operations
  BY DEF Commits, InTx, TxStates, HoldsFirearm, Uploads, CallInv, PlaceInv
<1>2. op[s] \in {"reorderPhotos", "deleteDocument"}
  BY <1>1 DEF HoldsFirearm, MovesPrimary, Operations, Uploads, Removals
<1>3. tx[s].set = {} /\ tx[s].clear = {} /\ tx[s].del \subseteq Documents
  BY <1>1, <1>2 DEF CallInv, WriteInv
<1>4. primary \intersect Documents = {}
  BY GalleryAssumption DEF TypeOK, GalleryAssumption
<1> QED
  BY <1>3, <1>4 DEF Commits, Apply

\* The gallery keeps a primary as long as nothing overlaps a move of it.
LEMMA PrimaryStep ==
  ASSUME TypeOK, TypeOK', \A q \in Session : CallInv(q) /\ CallInv(q)', LockInv, AtMostOnePrimary,
         PrimaryInv, NEW s \in Session, Call(s)
  PROVE  PrimaryInv'
<1> SUFFICES ASSUME ~overlap'
             PROVE  PrimaryKept' /\ \A q \in Session : AloneInv(q)' /\ MoverInv(q)'
  BY DEF PrimaryInv
<1>1. ~overlap /\ PrimaryKept /\ \A q \in Session : AloneInv(q) /\ MoverInv(q)
  BY Entering DEF PrimaryInv, TypeOK
<1>2. OthersSame(s) /\ (Commits(s) \/ UNCHANGED <<firearmLive, rows, primary, unsure>>)
  BY CallAlone, CallTables
<1>3. \A q \in Session : AloneInv(q)'
  BY <1>1, <1>2, MoverAlone
<1>4. MoverInv(s)'
  BY <1>1, MoverStep
<1>5. ASSUME NEW r \in Session \ {s}
      PROVE  MoverInv(r)'
  <2>1. /\ pc'[r] = pc[r] /\ op'[r] = op[r] /\ arg'[r] = arg[r]
        /\ seen'[r] = seen[r] /\ tx'[r] = tx[r]
    BY <1>2 DEF OthersSame
  <2>2. CASE UNCHANGED <<rows, primary>>
    BY <1>1, <2>1, <2>2 DEF MoverInv
  <2>3. CASE Commits(s)
    <3>1. InTx(s)
      BY <2>3 DEF Commits, InTx, TxStates
    <3>2. (~InTx(r) \/ ~MovesPrimary(op[r])) /\ (~InTx(r) \/ ~MovesPrimary(op[s]))
      BY <1>1, <3>1 DEF AloneInv
    <3>3. ~(HoldsFirearm(r) /\ HoldsFirearm(s))
      BY DEF LockInv
    <3>4. op[r] = "createPhotos" /\ pc[r] \in {"insert", "commit"} => primary' = primary
      BY <2>3, <3>2, <3>3, QuietCommit
    <3>5. pc[r] \notin {"next", "promote", "scan", "clear", "set"}
      BY <3>2 DEF InTx, TxStates, MovesPrimary, CallInv, PlaceInv
    <3>6. pc[r] = "commit" => op[r] \notin {"deletePhoto", "setPrimary"}
      BY <3>2 DEF InTx, TxStates, MovesPrimary
    <3> QED
      BY <1>1, <2>1, <3>4, <3>5, <3>6 DEF MoverInv
  <2> QED
    BY <1>2, <2>2, <2>3
<1>6. PrimaryKept'
  <2>1. CASE UNCHANGED <<rows, primary>>
    BY <1>1, <2>1 DEF PrimaryKept
  <2>2. CASE Commits(s)
    <3>1. /\ rows' = (rows \ tx[s].del) \union tx[s].ins
          /\ primary' = ((primary \ tx[s].clear) \ tx[s].del) \union tx[s].set
          /\ pc[s] = "commit" /\ op[s] \in Operations
      BY <2>2 DEF Commits, Apply, CallInv, PlaceInv
    <3>2. rows \intersect Photos # {} => primary # {}
      BY <1>1 DEF PrimaryKept
    <3>3. Photos \intersect Documents = {} /\ primary \subseteq Photos
      BY GalleryAssumption DEF GalleryAssumption, TypeOK
    <3>4. CASE op[s] = "createPhotos"
      <4>1. tx[s].del = {} /\ tx[s].clear = {} /\ (primary # {} \/ tx[s].set # {})
        BY <1>1, <3>1, <3>4 DEF CallInv, WriteInv, Uploads, MoverInv
      <4> QED
        BY <3>1, <4>1 DEF PrimaryKept
    <3>5. CASE op[s] = "createDocuments"
      <4>1. /\ tx[s].del = {} /\ tx[s].clear = {} /\ tx[s].set = {}
            /\ tx[s].ins \intersect Photos = {}
        BY <3>1, <3>3, <3>5 DEF CallInv, WriteInv, FilesInv, Uploads, Kind
      <4> QED
        BY <3>1, <3>2, <4>1 DEF PrimaryKept
    <3>6. CASE op[s] = "deletePhoto"
      <4>1. /\ tx[s].ins = {} /\ tx[s].clear = {}
            /\ \/ tx[s].set # {}
               \/ primary \intersect tx[s].del = {}
               \/ rows \intersect Photos \subseteq tx[s].del
        BY <1>1, <3>1, <3>6 DEF CallInv, WriteInv, Uploads, MoverInv
      <4> QED
        BY <3>1, <3>2, <4>1 DEF PrimaryKept
    <3>7. CASE op[s] = "deleteDocument"
      <4>1. /\ tx[s].ins = {} /\ tx[s].clear = {} /\ tx[s].set = {} /\ tx[s].del \subseteq Documents
        BY <3>1, <3>7 DEF CallInv, WriteInv, Uploads
      <4> QED
        BY <3>1, <3>2, <3>3, <4>1 DEF PrimaryKept
    <3>8. CASE op[s] = "deleteFirearm"
      <4>1. rows \subseteq tx[s].del /\ tx[s].ins = {}
        BY <3>1, <3>8 DEF LockInv, HolderInv, CallInv, WriteInv, Uploads
      <4> QED
        BY <3>1, <4>1 DEF PrimaryKept
    <3>9. CASE op[s] = "setPrimary"
      BY <1>1, <3>1, <3>9 DEF PrimaryKept, MoverInv
    <3>10. CASE op[s] = "reorderPhotos"
      <4>1. tx[s].ins = {} /\ tx[s].clear = {} /\ tx[s].set = {} /\ tx[s].del = {}
        BY <3>1, <3>10 DEF CallInv, WriteInv, Uploads
      <4> QED
        BY <3>1, <3>2, <4>1 DEF PrimaryKept
    <3> QED
      BY <3>1, <3>4, <3>5, <3>6, <3>7, <3>8, <3>9, <3>10 DEF Operations, Uploads, Removals
  <2> QED
    BY <1>2, <2>1, <2>2
<1> QED
  BY <1>3, <1>4, <1>5, <1>6

-----------------------------------------------------------------------------
(* Files and rows.                                                         *)

\* A call that is over takes no step, and none begins again.
LEMMA CallGoesOn ==
  ASSUME TypeOK, NEW s \in Session, CallInv(s), Call(s)
  PROVE  /\ pc[s] # "done" /\ pc'[s] # "idle"
         /\ pc[s] = "idle" \/ op'[s] = op[s]
         /\ Ended(s) => Ended(s)'
<1> DEFINE Goes == /\ pc[s] # "done" /\ pc'[s] # "idle"
                   /\ pc[s] = "idle" \/ op'[s] = op[s]
                   /\ Ended(s) => Ended(s)'
<1> USE DEF TypeOK, Ended, Uploads, BeforeTx
<1>1. ASSUME StartUpload(s) PROVE Goes
  BY <1>1 DEF StartUpload, Reads, tables, StaticKeeps, Goto
<1>2. ASSUME ValidateDocuments(s) PROVE Goes
  BY <1>2 DEF ValidateDocuments, Reads, tables, StaticKeeps, Goto
<1>3. ASSUME CheckQuota(s) PROVE Goes
  BY <1>3 DEF CheckQuota, Reads, tables, StaticKeeps, Goto, locals
<1>4. ASSUME BeginSave(s) PROVE Goes
  BY <1>4 DEF BeginSave, StaticKeeps, Goto, AfterFile, tables
<1>5. ASSUME EndSave(s) PROVE Goes
  BY <1>5 DEF EndSave, StaticKeeps, AfterFile, Goto, tables
<1>6. ASSUME BeginUpload(s) PROVE Goes
  BY <1>6 DEF BeginUpload, Begins, tables, StaticKeeps, GiveUp, Goto, locals
<1>7. ASSUME LockFirearm(s) PROVE Goes
  BY <1>7 DEF LockFirearm, OnlyTx, locals, tables, StaticKeeps, GiveUp, Goto
<1>8. ASSUME ReadExisting(s) PROVE Goes
  BY <1>8 DEF ReadExisting, GiveUp, Goto, StaticKeeps, tables
<1>9. ASSUME InsertRows(s) PROVE Goes
  BY <1>9 DEF InsertRows, OnlyTx, locals, tables, StaticKeeps, GiveUp, Goto
<1>10. ASSUME StartOnItem(s) PROVE Goes
  BY <1>10 DEF StartOnItem, Begins, tables, StaticKeeps, Goto
<1>11. ASSUME DeleteRow(s) PROVE Goes
  BY <1>11 DEF DeleteRow, GiveUp, Goto, StaticKeeps, tables
<1>12. ASSUME SelectNext(s) PROVE Goes
  BY <1>12 DEF SelectNext, Reads, tables, StaticKeeps, Goto
<1>13. ASSUME MakePrimary(s) PROVE Goes
  BY <1>13 DEF MakePrimary, OnlyTx, locals, tables, StaticKeeps, GiveUp, Goto
<1>14. ASSUME ScanPrimary(s) PROVE Goes
  BY <1>14 DEF ScanPrimary, Reads, tables, StaticKeeps, Goto
<1>15. ASSUME ClearPrimary(s) PROVE Goes
  BY <1>15 DEF ClearPrimary, OnlyTx, locals, tables, StaticKeeps, Goto
<1>16. ASSUME StartReorder(s) PROVE Goes
  BY <1>16 DEF StartReorder, Begins, tables, StaticKeeps, Goto
<1>17. ASSUME MovePhoto(s) PROVE Goes
  BY <1>17 DEF MovePhoto, StaticKeeps, Goto, tables
<1>18. ASSUME StartDeleteFirearm(s) PROVE Goes
  BY <1>18 DEF StartDeleteFirearm, Begins, tables, StaticKeeps, Goto
<1>19. ASSUME CollectPhotos(s) PROVE Goes
  BY <1>19 DEF CollectPhotos, Reads, tables, StaticKeeps, Goto
<1>20. ASSUME CollectDocuments(s) PROVE Goes
  BY <1>20 DEF CollectDocuments, Reads, tables, StaticKeeps, Goto
<1>21. ASSUME Cascade(s) PROVE Goes
  BY <1>21 DEF Cascade, OnlyTx, locals, tables, StaticKeeps, GiveUp, Goto
<1>22. ASSUME TxFails(s) PROVE Goes
  BY <1>22 DEF TxFails, OnlyTx, locals, tables, StaticKeeps, GiveUp, Goto, InTx, TxStates
<1>23. ASSUME Deadlock(s) PROVE Goes
  BY <1>23 DEF Deadlock, OnlyTx, locals, tables, StaticKeeps, GiveUp, Goto, Circle,
     WaitsFor, Touches, IndexWaits, Promotes
<1>24. ASSUME Commit(s) PROVE Goes
  BY <1>24 DEF Commit, StaticKeeps, Goto, Apply, locals
<1>25. ASSUME CommitUnanswered(s) PROVE Goes
  BY <1>25 DEF CommitUnanswered, GiveUp, Goto, Apply, locals
<1>26. ASSUME Reclaim(s) PROVE Goes
  BY <1>26 DEF Reclaim, StaticKeeps, Goto, tables, locals
<1> QED
  BY <1>1, <1>2, <1>3, <1>4, <1>5, <1>6, <1>7, <1>8, <1>9, <1>10, <1>11, <1>12, <1>13,
     <1>14, <1>15, <1>16, <1>17, <1>18, <1>19, <1>20, <1>21, <1>22, <1>23, <1>24, <1>25,
     <1>26 DEF Call, Starts, Proceeds

\* Only uploads and deletions change a file: an upload its own, a deletion those
\* whose rows are gone.
LEMMA BlobsTouched ==
  ASSUME TypeOK, NEW s \in Session, CallInv(s), Call(s)
  PROVE  \A i \in Item : blobs'[i] # blobs[i] =>
            \/ op[s] \in Uploads /\ pc[s] # "idle" /\ i \in Files[s]
            \/ op[s] \in Removals /\ pc[s] = "reclaim" /\ i \in keys[s]
<1> DEFINE Touched == \A i \in Item : blobs'[i] # blobs[i] =>
              \/ op[s] \in Uploads /\ pc[s] # "idle" /\ i \in Files[s]
              \/ op[s] \in Removals /\ pc[s] = "reclaim" /\ i \in keys[s]
<1> USE DEF TypeOK, CallInv, PlaceInv, FilesInv, Uploads, Removals, BeforeTx
<1>1. ASSUME StartUpload(s) PROVE Touched
  BY <1>1 DEF StartUpload, Reads, tables, StaticKeeps, Goto
<1>2. ASSUME ValidateDocuments(s) PROVE Touched
  BY <1>2 DEF ValidateDocuments, Reads, tables, StaticKeeps, Goto
<1>3. ASSUME CheckQuota(s) PROVE Touched
  BY <1>3 DEF CheckQuota, Reads, tables, StaticKeeps, Goto, locals
<1>4. ASSUME BeginSave(s) PROVE Touched
  BY <1>4 DEF BeginSave, StaticKeeps, Goto, AfterFile, tables
<1>5. ASSUME EndSave(s) PROVE Touched
  BY <1>5 DEF EndSave, StaticKeeps, AfterFile, Goto, tables
<1>6. ASSUME BeginUpload(s) PROVE Touched
  BY <1>6 DEF BeginUpload, Begins, tables, StaticKeeps, GiveUp, Goto, locals
<1>7. ASSUME LockFirearm(s) PROVE Touched
  BY <1>7 DEF LockFirearm, OnlyTx, locals, tables, StaticKeeps, GiveUp, Goto
<1>8. ASSUME ReadExisting(s) PROVE Touched
  BY <1>8 DEF ReadExisting, GiveUp, Goto, StaticKeeps, tables
<1>9. ASSUME InsertRows(s) PROVE Touched
  BY <1>9 DEF InsertRows, OnlyTx, locals, tables, StaticKeeps, GiveUp, Goto
<1>10. ASSUME StartOnItem(s) PROVE Touched
  BY <1>10 DEF StartOnItem, Begins, tables, StaticKeeps, Goto
<1>11. ASSUME DeleteRow(s) PROVE Touched
  BY <1>11 DEF DeleteRow, GiveUp, Goto, StaticKeeps, tables
<1>12. ASSUME SelectNext(s) PROVE Touched
  BY <1>12 DEF SelectNext, Reads, tables, StaticKeeps, Goto
<1>13. ASSUME MakePrimary(s) PROVE Touched
  BY <1>13 DEF MakePrimary, OnlyTx, locals, tables, StaticKeeps, GiveUp, Goto
<1>14. ASSUME ScanPrimary(s) PROVE Touched
  BY <1>14 DEF ScanPrimary, Reads, tables, StaticKeeps, Goto
<1>15. ASSUME ClearPrimary(s) PROVE Touched
  BY <1>15 DEF ClearPrimary, OnlyTx, locals, tables, StaticKeeps, Goto
<1>16. ASSUME StartReorder(s) PROVE Touched
  BY <1>16 DEF StartReorder, Begins, tables, StaticKeeps, Goto
<1>17. ASSUME MovePhoto(s) PROVE Touched
  BY <1>17 DEF MovePhoto, StaticKeeps, Goto, tables
<1>18. ASSUME StartDeleteFirearm(s) PROVE Touched
  BY <1>18 DEF StartDeleteFirearm, Begins, tables, StaticKeeps, Goto
<1>19. ASSUME CollectPhotos(s) PROVE Touched
  BY <1>19 DEF CollectPhotos, Reads, tables, StaticKeeps, Goto
<1>20. ASSUME CollectDocuments(s) PROVE Touched
  BY <1>20 DEF CollectDocuments, Reads, tables, StaticKeeps, Goto
<1>21. ASSUME Cascade(s) PROVE Touched
  BY <1>21 DEF Cascade, OnlyTx, locals, tables, StaticKeeps, GiveUp, Goto
<1>22. ASSUME TxFails(s) PROVE Touched
  BY <1>22 DEF TxFails, OnlyTx, locals, tables, StaticKeeps, GiveUp, Goto
<1>23. ASSUME Deadlock(s) PROVE Touched
  BY <1>23 DEF Deadlock, OnlyTx, locals, tables, StaticKeeps, GiveUp, Goto
<1>24. ASSUME Commit(s) PROVE Touched
  BY <1>24 DEF Commit, StaticKeeps, Goto, Apply, locals
<1>25. ASSUME CommitUnanswered(s) PROVE Touched
  BY <1>25 DEF CommitUnanswered, GiveUp, Goto, Apply, locals
<1>26. ASSUME Reclaim(s) PROVE Touched
  BY <1>26 DEF Reclaim, StaticKeeps, Goto, tables, locals
<1> QED
  BY <1>1, <1>2, <1>3, <1>4, <1>5, <1>6, <1>7, <1>8, <1>9, <1>10, <1>11, <1>12, <1>13,
     <1>14, <1>15, <1>16, <1>17, <1>18, <1>19, <1>20, <1>21, <1>22, <1>23, <1>24, <1>25,
     <1>26 DEF Call, Starts, Proceeds

\* The calls leave the age of the files and the sweep to others.
LEMMA StaticCall ==
  ASSUME NEW s \in Session, Call(s)
  PROVE  UNCHANGED <<old, editors, sweep, sweeps, stops, cut>>
<1> DEFINE Kept == UNCHANGED <<old, editors, sweep, sweeps, stops, cut>>
<1>1. ASSUME StartUpload(s) PROVE Kept
  BY <1>1 DEF StartUpload, Reads, tables, StaticKeeps, Goto
<1>2. ASSUME ValidateDocuments(s) PROVE Kept
  BY <1>2 DEF ValidateDocuments, Reads, tables, StaticKeeps, Goto
<1>3. ASSUME CheckQuota(s) PROVE Kept
  BY <1>3 DEF CheckQuota, Reads, tables, StaticKeeps, Goto, locals
<1>4. ASSUME BeginSave(s) PROVE Kept
  BY <1>4 DEF BeginSave, StaticKeeps, Goto, AfterFile, tables
<1>5. ASSUME EndSave(s) PROVE Kept
  BY <1>5 DEF EndSave, StaticKeeps, AfterFile, Goto, tables
<1>6. ASSUME BeginUpload(s) PROVE Kept
  BY <1>6 DEF BeginUpload, Begins, tables, StaticKeeps, GiveUp, Goto, locals
<1>7. ASSUME LockFirearm(s) PROVE Kept
  BY <1>7 DEF LockFirearm, OnlyTx, locals, tables, StaticKeeps, GiveUp, Goto
<1>8. ASSUME ReadExisting(s) PROVE Kept
  BY <1>8 DEF ReadExisting, GiveUp, Goto, StaticKeeps, tables
<1>9. ASSUME InsertRows(s) PROVE Kept
  BY <1>9 DEF InsertRows, OnlyTx, locals, tables, StaticKeeps, GiveUp, Goto
<1>10. ASSUME StartOnItem(s) PROVE Kept
  BY <1>10 DEF StartOnItem, Begins, tables, StaticKeeps, Goto
<1>11. ASSUME DeleteRow(s) PROVE Kept
  BY <1>11 DEF DeleteRow, GiveUp, Goto, StaticKeeps, tables
<1>12. ASSUME SelectNext(s) PROVE Kept
  BY <1>12 DEF SelectNext, Reads, tables, StaticKeeps, Goto
<1>13. ASSUME MakePrimary(s) PROVE Kept
  BY <1>13 DEF MakePrimary, OnlyTx, locals, tables, StaticKeeps, GiveUp, Goto
<1>14. ASSUME ScanPrimary(s) PROVE Kept
  BY <1>14 DEF ScanPrimary, Reads, tables, StaticKeeps, Goto
<1>15. ASSUME ClearPrimary(s) PROVE Kept
  BY <1>15 DEF ClearPrimary, OnlyTx, locals, tables, StaticKeeps, Goto
<1>16. ASSUME StartReorder(s) PROVE Kept
  BY <1>16 DEF StartReorder, Begins, tables, StaticKeeps, Goto
<1>17. ASSUME MovePhoto(s) PROVE Kept
  BY <1>17 DEF MovePhoto, StaticKeeps, Goto, tables
<1>18. ASSUME StartDeleteFirearm(s) PROVE Kept
  BY <1>18 DEF StartDeleteFirearm, Begins, tables, StaticKeeps, Goto
<1>19. ASSUME CollectPhotos(s) PROVE Kept
  BY <1>19 DEF CollectPhotos, Reads, tables, StaticKeeps, Goto
<1>20. ASSUME CollectDocuments(s) PROVE Kept
  BY <1>20 DEF CollectDocuments, Reads, tables, StaticKeeps, Goto
<1>21. ASSUME Cascade(s) PROVE Kept
  BY <1>21 DEF Cascade, OnlyTx, locals, tables, StaticKeeps, GiveUp, Goto
<1>22. ASSUME TxFails(s) PROVE Kept
  BY <1>22 DEF TxFails, OnlyTx, locals, tables, StaticKeeps, GiveUp, Goto
<1>23. ASSUME Deadlock(s) PROVE Kept
  BY <1>23 DEF Deadlock, OnlyTx, locals, tables, StaticKeeps, GiveUp, Goto
<1>24. ASSUME Commit(s) PROVE Kept
  BY <1>24 DEF Commit, StaticKeeps, Goto, Apply, locals
<1>25. ASSUME CommitUnanswered(s) PROVE Kept
  BY <1>25 DEF CommitUnanswered, GiveUp, Goto, Apply, locals
<1>26. ASSUME Reclaim(s) PROVE Kept
  BY <1>26 DEF Reclaim, StaticKeeps, Goto, tables, locals
<1> QED
  BY <1>1, <1>2, <1>3, <1>4, <1>5, <1>6, <1>7, <1>8, <1>9, <1>10, <1>11, <1>12, <1>13,
     <1>14, <1>15, <1>16, <1>17, <1>18, <1>19, <1>20, <1>21, <1>22, <1>23, <1>24, <1>25,
     <1>26 DEF Call, Starts, Proceeds

\* An upload writes files before rows.
LEMMA UploadStep ==
  ASSUME TypeOK, TypeOK', NEW s \in Session, CallInv(s), UploadInv(s),
         rows \intersect Unborn = {}, Call(s)
  PROVE  UploadInv(s)'
<1>a. Files[s] \subseteq Item /\ (~Ended(s) => Files[s] \intersect rows = {})
  BY GalleryAssumption DEF GalleryAssumption, Unborn
<1> USE <1>a DEF TypeOK, CallInv, PlaceInv, FilesInv, UploadInv, Ended, Uploads, BeforeTx
<1>1. ASSUME StartUpload(s) PROVE UploadInv(s)'
  BY <1>1 DEF StartUpload, Reads, tables, StaticKeeps, Goto
<1>2. ASSUME ValidateDocuments(s) PROVE UploadInv(s)'
  BY <1>2 DEF ValidateDocuments, Reads, tables, StaticKeeps, Goto
<1>3. ASSUME CheckQuota(s) PROVE UploadInv(s)'
  BY <1>3 DEF CheckQuota, Reads, tables, StaticKeeps, Goto, locals
<1>4. ASSUME BeginSave(s) PROVE UploadInv(s)'
  BY <1>4 DEF BeginSave, StaticKeeps, Goto, AfterFile, tables
<1>5. ASSUME EndSave(s) PROVE UploadInv(s)'
  BY <1>5 DEF EndSave, StaticKeeps, AfterFile, Goto, tables
<1>6. ASSUME BeginUpload(s) PROVE UploadInv(s)'
  BY <1>6 DEF BeginUpload, Begins, tables, StaticKeeps, GiveUp, Goto, locals
<1>7. ASSUME LockFirearm(s) PROVE UploadInv(s)'
  BY <1>7 DEF LockFirearm, OnlyTx, locals, tables, StaticKeeps, GiveUp, Goto
<1>8. ASSUME ReadExisting(s) PROVE UploadInv(s)'
  BY <1>8 DEF ReadExisting, GiveUp, Goto, StaticKeeps, tables
<1>9. ASSUME InsertRows(s) PROVE UploadInv(s)'
  BY <1>9 DEF InsertRows, OnlyTx, locals, tables, StaticKeeps, GiveUp, Goto
<1>10. ASSUME StartOnItem(s) PROVE UploadInv(s)'
  BY <1>10 DEF StartOnItem, Begins, tables, StaticKeeps, Goto
<1>11. ASSUME DeleteRow(s) PROVE UploadInv(s)'
  BY <1>11 DEF DeleteRow, GiveUp, Goto, StaticKeeps, tables
<1>12. ASSUME SelectNext(s) PROVE UploadInv(s)'
  BY <1>12 DEF SelectNext, Reads, tables, StaticKeeps, Goto
<1>13. ASSUME MakePrimary(s) PROVE UploadInv(s)'
  BY <1>13 DEF MakePrimary, OnlyTx, locals, tables, StaticKeeps, GiveUp, Goto
<1>14. ASSUME ScanPrimary(s) PROVE UploadInv(s)'
  BY <1>14 DEF ScanPrimary, Reads, tables, StaticKeeps, Goto
<1>15. ASSUME ClearPrimary(s) PROVE UploadInv(s)'
  BY <1>15 DEF ClearPrimary, OnlyTx, locals, tables, StaticKeeps, Goto
<1>16. ASSUME StartReorder(s) PROVE UploadInv(s)'
  BY <1>16 DEF StartReorder, Begins, tables, StaticKeeps, Goto
<1>17. ASSUME MovePhoto(s) PROVE UploadInv(s)'
  BY <1>17 DEF MovePhoto, StaticKeeps, Goto, tables
<1>18. ASSUME StartDeleteFirearm(s) PROVE UploadInv(s)'
  BY <1>18 DEF StartDeleteFirearm, Begins, tables, StaticKeeps, Goto
<1>19. ASSUME CollectPhotos(s) PROVE UploadInv(s)'
  BY <1>19 DEF CollectPhotos, Reads, tables, StaticKeeps, Goto
<1>20. ASSUME CollectDocuments(s) PROVE UploadInv(s)'
  BY <1>20 DEF CollectDocuments, Reads, tables, StaticKeeps, Goto
<1>21. ASSUME Cascade(s) PROVE UploadInv(s)'
  BY <1>21 DEF Cascade, OnlyTx, locals, tables, StaticKeeps, GiveUp, Goto
<1>22. ASSUME TxFails(s) PROVE UploadInv(s)'
  <2>1. UNCHANGED <<op, rows, unsure, blobs, old, todo, keys, arg>> /\ GiveUp(s)
    BY <1>22 DEF TxFails, OnlyTx, locals, tables, StaticKeeps
  <2>2. pc[s] # "done"
    BY <1>22, CallGoesOn DEF Call, Starts, Proceeds
  <2>3. CASE op[s] \in Uploads
    <3>1. pc'[s] = "reclaim" /\ op'[s] = op[s]
      BY <2>1, <2>3 DEF GiveUp, Goto
    <3>2. Files[s] \intersect rows \subseteq unsure
      BY <2>2, <2>3
    <3> QED
      BY <2>1, <2>3, <3>1, <3>2
  <2>4. CASE op[s] \notin Uploads
    <3>1. pc'[s] = "done" /\ op'[s] = op[s]
      BY <2>1, <2>4 DEF GiveUp, Goto
    <3> QED
      BY <2>4, <3>1
  <2> QED
    BY <2>3, <2>4
<1>23. ASSUME Deadlock(s) PROVE UploadInv(s)'
  <2>1. UNCHANGED <<op, rows, unsure, blobs, old, todo, keys, arg>> /\ GiveUp(s)
    BY <1>23 DEF Deadlock, OnlyTx, locals, tables, StaticKeeps
  <2>2. pc[s] # "done"
    BY <1>23, CallGoesOn DEF Call, Starts, Proceeds
  <2>3. CASE op[s] \in Uploads
    <3>1. pc'[s] = "reclaim" /\ op'[s] = op[s]
      BY <2>1, <2>3 DEF GiveUp, Goto
    <3>2. Files[s] \intersect rows \subseteq unsure
      BY <2>2, <2>3
    <3> QED
      BY <2>1, <2>3, <3>1, <3>2
  <2>4. CASE op[s] \notin Uploads
    <3>1. pc'[s] = "done" /\ op'[s] = op[s]
      BY <2>1, <2>4 DEF GiveUp, Goto
    <3> QED
      BY <2>4, <3>1
  <2> QED
    BY <2>3, <2>4
<1>24. ASSUME Commit(s) PROVE UploadInv(s)'
  <2>1. op'[s] = op[s] /\ pc'[s] = IF op[s] \in Removals THEN "reclaim" ELSE "done"
    BY <1>24 DEF Commit, Goto, locals
  <2> QED
    BY <2>1 DEF Removals
<1>25. ASSUME CommitUnanswered(s) PROVE UploadInv(s)'
  BY <1>25 DEF CommitUnanswered, GiveUp, Goto, Apply, locals
<1>26. ASSUME Reclaim(s) PROVE UploadInv(s)'
  BY <1>26 DEF Reclaim, StaticKeeps, Goto, tables, locals
<1> QED
  BY <1>1, <1>2, <1>3, <1>4, <1>5, <1>6, <1>7, <1>8, <1>9, <1>10, <1>11, <1>12, <1>13,
     <1>14, <1>15, <1>16, <1>17, <1>18, <1>19, <1>20, <1>21, <1>22, <1>23, <1>24, <1>25,
     <1>26 DEF Call, Starts, Proceeds

\* A removal deletes files after rows.
LEMMA RemovalStep ==
  ASSUME TypeOK, TypeOK', NEW s \in Session, CallInv(s), CallInv(s)', RemovalInv(s),
         rows \intersect Unborn = {}, Unborn' \subseteq Unborn, Call(s)
  PROVE  RemovalInv(s)'
<1> USE DEF TypeOK, CallInv, PlaceInv, FilesInv, RemovalInv, Uploads, Removals, BeforeTx
<1>1. ASSUME StartUpload(s) PROVE RemovalInv(s)'
  BY <1>1 DEF StartUpload, Reads, tables, StaticKeeps, Goto
<1>2. ASSUME ValidateDocuments(s) PROVE RemovalInv(s)'
  BY <1>2 DEF ValidateDocuments, Reads, tables, StaticKeeps, Goto
<1>3. ASSUME CheckQuota(s) PROVE RemovalInv(s)'
  BY <1>3 DEF CheckQuota, Reads, tables, StaticKeeps, Goto, locals
<1>4. ASSUME BeginSave(s) PROVE RemovalInv(s)'
  BY <1>4 DEF BeginSave, StaticKeeps, Goto, AfterFile, tables
<1>5. ASSUME EndSave(s) PROVE RemovalInv(s)'
  BY <1>5 DEF EndSave, StaticKeeps, AfterFile, Goto, tables
<1>6. ASSUME BeginUpload(s) PROVE RemovalInv(s)'
  BY <1>6 DEF BeginUpload, Begins, tables, StaticKeeps, GiveUp, Goto, locals
<1>7. ASSUME LockFirearm(s) PROVE RemovalInv(s)'
  BY <1>7 DEF LockFirearm, OnlyTx, locals, tables, StaticKeeps, GiveUp, Goto
<1>8. ASSUME ReadExisting(s) PROVE RemovalInv(s)'
  BY <1>8 DEF ReadExisting, GiveUp, Goto, StaticKeeps, tables
<1>9. ASSUME InsertRows(s) PROVE RemovalInv(s)'
  BY <1>9 DEF InsertRows, OnlyTx, locals, tables, StaticKeeps, GiveUp, Goto
<1>10. ASSUME StartOnItem(s) PROVE RemovalInv(s)'
  BY <1>10 DEF StartOnItem, Begins, tables, StaticKeeps, Goto
<1>11. ASSUME DeleteRow(s) PROVE RemovalInv(s)'
  <2>1. op'[s] = op[s] /\ UNCHANGED <<rows, primary>> /\ op[s] \in Removals
    BY <1>11 DEF DeleteRow, tables
  <2>2. CASE arg[s] \notin rows
    <3>1. pc'[s] = "done" /\ UNCHANGED keys
      BY <1>11, <2>1, <2>2 DEF DeleteRow, GiveUp, Goto
    <3> QED
      BY <2>1, <3>1
  <2>3. CASE arg[s] \in rows
    <3>1. tx'[s] = [tx[s] EXCEPT !.del = {arg[s]}] /\ keys'[s] = {arg[s]}
      BY <1>11, <2>3 DEF DeleteRow
    <3>2. tx'[s].del = {arg[s]}
      BY <3>1 DEF TxType
    <3>3. pc'[s] \in {"next", "commit"}
      BY <1>11, <2>3 DEF DeleteRow, Goto
    <3> QED
      BY <2>1, <2>3, <3>1, <3>2, <3>3
  <2> QED
    BY <2>2, <2>3
<1>12. ASSUME SelectNext(s) PROVE RemovalInv(s)'
  BY <1>12 DEF SelectNext, Reads, tables, StaticKeeps, Goto
<1>13. ASSUME MakePrimary(s) PROVE RemovalInv(s)'
  <2>1. UNCHANGED <<op, rows, keys>> /\ pc[s] \in {"promote", "set"}
    BY <1>13 DEF MakePrimary, OnlyTx, locals, tables
  <2>2. CASE GiveUp(s)
    <3>1. op[s] \notin Uploads
      BY <2>1
    <3>2. pc'[s] = "done"
      BY <2>2, <3>1 DEF GiveUp, Goto
    <3> QED
      BY <2>1, <3>2
  <2>3. CASE ~GiveUp(s)
    <3>1. pc'[s] = "commit"
      BY <1>13, <2>3 DEF MakePrimary, Goto
    <3>2. tx'[s].del = tx[s].del
      BY <1>13, <2>3 DEF MakePrimary, TxType
    <3>3. pc[s] = "promote" \/ op[s] = "setPrimary"
      BY <2>1
    <3> QED
      BY <2>1, <3>1, <3>2, <3>3
  <2> QED
    BY <2>2, <2>3
<1>14. ASSUME ScanPrimary(s) PROVE RemovalInv(s)'
  BY <1>14 DEF ScanPrimary, Reads, tables, StaticKeeps, Goto
<1>15. ASSUME ClearPrimary(s) PROVE RemovalInv(s)'
  BY <1>15 DEF ClearPrimary, OnlyTx, locals, tables, StaticKeeps, Goto
<1>16. ASSUME StartReorder(s) PROVE RemovalInv(s)'
  BY <1>16 DEF StartReorder, Begins, tables, StaticKeeps, Goto
<1>17. ASSUME MovePhoto(s) PROVE RemovalInv(s)'
  BY <1>17 DEF MovePhoto, StaticKeeps, Goto, tables
<1>18. ASSUME StartDeleteFirearm(s) PROVE RemovalInv(s)'
  BY <1>18 DEF StartDeleteFirearm, Begins, tables, StaticKeeps, Goto
<1>19. ASSUME CollectPhotos(s) PROVE RemovalInv(s)'
  BY <1>19 DEF CollectPhotos, Reads, tables, StaticKeeps, Goto
<1>20. ASSUME CollectDocuments(s) PROVE RemovalInv(s)'
  BY <1>20 DEF CollectDocuments, Reads, tables, StaticKeeps, Goto
<1>21. ASSUME Cascade(s) PROVE RemovalInv(s)'
  <2>1. UNCHANGED <<op, rows, keys>> /\ pc[s] = "cascade"
    BY <1>21 DEF Cascade, OnlyTx, locals, tables
  <2>2. CASE ~firearmLive
    <3>1. pc'[s] = "done"
      BY <1>21, <2>1, <2>2 DEF Cascade, GiveUp, Goto
    <3> QED
      BY <2>1, <3>1
  <2>3. CASE firearmLive
    <3>1. tx'[s] = [tx[s] EXCEPT !.del = rows] /\ pc'[s] = "commit"
      BY <1>21, <2>3 DEF Cascade, Goto
    <3>2. tx'[s].del = rows
      BY <3>1 DEF TxType
    <3> QED
      BY <2>1, <3>1, <3>2
  <2> QED
    BY <2>2, <2>3
<1>22. ASSUME TxFails(s) PROVE RemovalInv(s)'
  BY <1>22 DEF TxFails, OnlyTx, locals, tables, StaticKeeps, GiveUp, Goto
<1>23. ASSUME Deadlock(s) PROVE RemovalInv(s)'
  BY <1>23 DEF Deadlock, OnlyTx, locals, tables, StaticKeeps, GiveUp, Goto
<1>24. ASSUME Commit(s) PROVE RemovalInv(s)'
  <2>1. /\ op'[s] = op[s] /\ keys' = keys /\ rows' = (rows \ tx[s].del) \union tx[s].ins
        /\ pc'[s] = IF op[s] \in Removals THEN "reclaim" ELSE "done"
    BY <1>24 DEF Commit, Goto, locals, Apply
  <2>2. op[s] \in Removals =>
          tx[s].ins = {} /\ pc[s] = "commit" /\ keys[s] \intersect rows \subseteq tx[s].del
    BY <1>24 DEF Commit, WriteInv
  <2> QED
    BY <2>1, <2>2
<1>25. ASSUME CommitUnanswered(s) PROVE RemovalInv(s)'
  BY <1>25 DEF CommitUnanswered, GiveUp, Goto, Apply, locals
<1>26. ASSUME Reclaim(s) PROVE RemovalInv(s)'
  BY <1>26 DEF Reclaim, StaticKeeps, Goto, tables, locals
<1> QED
  BY <1>1, <1>2, <1>3, <1>4, <1>5, <1>6, <1>7, <1>8, <1>9, <1>10, <1>11, <1>12, <1>13,
     <1>14, <1>15, <1>16, <1>17, <1>18, <1>19, <1>20, <1>21, <1>22, <1>23, <1>24, <1>25,
     <1>26 DEF Call, Starts, Proceeds

\* Rows only come from the COMMIT of an upload that had not ended.
LEMMA RowsComeFromUploads ==
  ASSUME TypeOK, NEW s \in Session, CallInv(s), UploadInv(s), Call(s)
  PROVE  \E new \in SUBSET (Files[s] \ old) :
           /\ rows' \subseteq rows \union new /\ unsure \subseteq unsure'
           /\ new # {} => /\ op[s] \in Uploads /\ ~Ended(s) /\ Ended(s)' /\ UNCHANGED blobs
                          /\ \A i \in new : blobs[i] = "all"
<1>1. CASE Commits(s) /\ op[s] \in Uploads
  <2>1. /\ pc[s] = "commit" /\ rows' = (rows \ tx[s].del) \union tx[s].ins
        /\ UNCHANGED <<op, blobs>> /\ unsure \subseteq unsure'
    BY <1>1 DEF Commits, Apply, locals
  <2>2. tx[s].ins = keys[s] /\ keys[s] \subseteq Files[s] /\ ~Ended(s)
    BY <1>1, <2>1 DEF CallInv, WriteInv, FilesInv, Ended
  <2>3. \A i \in keys[s] : blobs[i] = "all" /\ i \notin old
    BY <1>1, <2>2 DEF UploadInv
  <2>4. pc'[s] \in {"reclaim", "done"}
    BY <1>1 DEF Commits
  <2>5. Ended(s)'
    BY <1>1, <2>1, <2>4 DEF Ended
  <2>6. keys[s] \in SUBSET (Files[s] \ old) /\ rows' \subseteq rows \union keys[s]
    BY <2>1, <2>2, <2>3
  <2> QED
    BY <1>1, <2>1, <2>2, <2>3, <2>5, <2>6
<1>2. CASE Commits(s) /\ op[s] \notin Uploads
  <2>1. rows' \subseteq rows /\ unsure \subseteq unsure'
    BY <1>2 DEF Commits, Apply, CallInv, WriteInv
  <2> QED
    BY <2>1
<1>3. CASE UNCHANGED <<rows, unsure>>
  <2> QED
    BY <1>3
<1> QED
  BY <1>1, <1>2, <1>3, CallTables

\* Files come before rows and leave after them, at every step of a call.
LEMMA BlobStep ==
  ASSUME TypeOK, TypeOK', \A q \in Session : CallInv(q) /\ CallInv(q)', RowInv, SweepInv,
         \A q \in Session : UploadInv(q) /\ RemovalInv(q), NEW s \in Session, Call(s)
  PROVE  RowInv' /\ SweepInv' /\ \A q \in Session : UploadInv(q)' /\ RemovalInv(q)'
<1>1. /\ OthersSame(s) /\ (Commits(s) \/ UNCHANGED <<firearmLive, rows, primary, unsure>>)
      /\ UNCHANGED <<old, sweep>>
  BY CallAlone, CallTables, StaticCall
<1>2. /\ \A r \in Session \ {s} : Files[r] \intersect Files[s] = {}
      /\ \A r \in Session : Files[r] \subseteq Item
  BY GalleryAssumption DEF GalleryAssumption
<1>3. \A r \in Session : (~Ended(r) => Files[r] \subseteq Unborn)
  BY <1>2 DEF Unborn
<1>4. /\ pc[s] # "done" /\ pc'[s] # "idle" /\ (pc[s] = "idle" \/ op'[s] = op[s])
      /\ Ended(s) => Ended(s)'
  BY CallGoesOn
<1>5. Unborn' \subseteq Unborn
  BY <1>1, <1>4 DEF Unborn, OthersSame, Ended
<1>6. \A i \in Item : blobs'[i] # blobs[i] =>
         \/ op[s] \in Uploads /\ pc[s] # "idle" /\ i \in Files[s]
         \/ op[s] \in Removals /\ i \notin Unborn /\ i \notin rows
  BY BlobsTouched DEF RemovalInv
<1>7. PICK new \in SUBSET (Files[s] \ old) :
        /\ rows' \subseteq rows \union new /\ unsure \subseteq unsure'
        /\ new # {} => /\ op[s] \in Uploads /\ ~Ended(s) /\ Ended(s)' /\ UNCHANGED blobs
                       /\ \A i \in new : blobs[i] = "all"
  BY RowsComeFromUploads
<1>8. new \intersect Unborn' = {} /\ new \subseteq Unborn
  <2>1. ASSUME NEW i \in new
        PROVE  i \in Unborn /\ i \notin Unborn'
    <3>1. i \in Files[s] /\ ~Ended(s) /\ Ended(s)'
      BY <1>7, <2>1
    <3> QED
      BY <1>2, <1>3, <3>1 DEF Unborn
  <2> QED
    BY <2>1
<1>9. RowInv'
  <2>1. rows' \intersect Unborn' = {}
    BY <1>5, <1>7, <1>8 DEF RowInv
  <2>2. ASSUME NEW i \in rows' \ unsure'
        PROVE  blobs'[i] = "all"
    <3>1. CASE i \in new
      BY <1>7, <3>1
    <3>2. CASE i \in rows /\ i \notin unsure
      <4>1. blobs[i] = "all" /\ i \notin Unborn /\ i \in Item
        BY <3>2 DEF RowInv, RowsHaveBlobs, TypeOK
      <4>2. ASSUME op[s] \in Uploads, pc[s] # "idle", i \in Files[s]
            PROVE  FALSE
        <5>1. Ended(s)
          BY <1>3, <4>1, <4>2
        <5>2. Files[s] \intersect rows \subseteq unsure
          BY <1>4, <4>2, <5>1 DEF UploadInv, Ended
        <5> QED
          BY <3>2, <4>2, <5>2
      <4> QED
        BY <1>6, <3>2, <4>1, <4>2
    <3> QED
      BY <1>7, <2>2, <3>1, <3>2
  <2> QED
    BY <2>1, <2>2 DEF RowInv, RowsHaveBlobs
<1>10. SweepInv'
  BY <1>1, <1>7 DEF SweepInv
<1>11. UploadInv(s)'
  BY UploadStep DEF RowInv
<1>12. RemovalInv(s)'
  BY <1>5, RemovalStep DEF RowInv
<1>13. ASSUME NEW r \in Session \ {s}
       PROVE  UploadInv(r)'
  <2>1. /\ pc'[r] = pc[r] /\ op'[r] = op[r] /\ todo'[r] = todo[r] /\ keys'[r] = keys[r]
        /\ arg'[r] = arg[r] /\ old' = old /\ UploadInv(r)
    BY <1>1 DEF OthersSame
  <2>2. Ended(r)' = Ended(r)
    BY <2>1 DEF Ended
  <2>3. ASSUME ~Ended(r), NEW i \in Files[r]
        PROVE  blobs'[i] = blobs[i]
    BY <1>2, <1>3, <1>6, <2>3
  <2>4. op[r] \in Uploads /\ ~Ended(r) => keys[r] \union todo[r] \subseteq Files[r]
    BY DEF CallInv, FilesInv
  <2>5. pc[r] = "idle" => ~Ended(r)
    BY DEF Ended
  <2>6. Files[r] \intersect rows' \subseteq Files[r] \intersect rows
    BY <1>2, <1>7
  <2> QED
    BY <1>7, <2>1, <2>2, <2>3, <2>4, <2>5, <2>6 DEF UploadInv
<1>14. ASSUME NEW r \in Session \ {s}
       PROVE  RemovalInv(r)'
  <2>1. pc'[r] = pc[r] /\ op'[r] = op[r] /\ keys'[r] = keys[r] /\ tx'[r] = tx[r] /\ RemovalInv(r)
    BY <1>1 DEF OthersSame
  <2> QED
    BY <1>5, <1>7, <1>8, <2>1 DEF RemovalInv
<1> QED
  BY <1>9, <1>10, <1>11, <1>12, <1>13, <1>14

-----------------------------------------------------------------------------
(* Revoked uploads and files without a row.                                *)

\* A revoked call never reaches its transaction.
CutCall(s) ==
  op[s] = "createPhotos" => pc[s] \in BeforeTx \union {"reclaim", "done"}

\* ... at its own steps.
LEMMA CutCallStep ==
  ASSUME TypeOK, NEW s \in Session, CallInv(s), s \notin editors, CutCall(s), Call(s)
  PROVE  CutCall(s)'
<1> USE DEF TypeOK, CallInv, PlaceInv, CutCall, Authorized, MayEdit, Uploads, BeforeTx
<1>1. ASSUME StartUpload(s) PROVE CutCall(s)'
  BY <1>1 DEF StartUpload, Reads, tables, StaticKeeps, Goto
<1>2. ASSUME ValidateDocuments(s) PROVE CutCall(s)'
  BY <1>2 DEF ValidateDocuments, Reads, tables, StaticKeeps, Goto
<1>3. ASSUME CheckQuota(s) PROVE CutCall(s)'
  BY <1>3 DEF CheckQuota, Reads, tables, StaticKeeps, Goto, locals
<1>4. ASSUME BeginSave(s) PROVE CutCall(s)'
  BY <1>4 DEF BeginSave, StaticKeeps, Goto, AfterFile, tables
<1>5. ASSUME EndSave(s) PROVE CutCall(s)'
  BY <1>5 DEF EndSave, StaticKeeps, AfterFile, Goto, tables
<1>6. ASSUME BeginUpload(s) PROVE CutCall(s)'
  BY <1>6 DEF BeginUpload, Begins, tables, StaticKeeps, GiveUp, Goto, locals
<1>7. ASSUME LockFirearm(s) PROVE CutCall(s)'
  BY <1>7 DEF LockFirearm, OnlyTx, locals, tables, StaticKeeps, GiveUp, Goto
<1>8. ASSUME ReadExisting(s) PROVE CutCall(s)'
  BY <1>8 DEF ReadExisting, GiveUp, Goto, StaticKeeps, tables
<1>9. ASSUME InsertRows(s) PROVE CutCall(s)'
  BY <1>9 DEF InsertRows, OnlyTx, locals, tables, StaticKeeps, GiveUp, Goto
<1>10. ASSUME StartOnItem(s) PROVE CutCall(s)'
  BY <1>10 DEF StartOnItem, Begins, tables, StaticKeeps, Goto
<1>11. ASSUME DeleteRow(s) PROVE CutCall(s)'
  BY <1>11 DEF DeleteRow, GiveUp, Goto, StaticKeeps, tables
<1>12. ASSUME SelectNext(s) PROVE CutCall(s)'
  BY <1>12 DEF SelectNext, Reads, tables, StaticKeeps, Goto
<1>13. ASSUME MakePrimary(s) PROVE CutCall(s)'
  BY <1>13 DEF MakePrimary, OnlyTx, locals, tables, StaticKeeps, GiveUp, Goto
<1>14. ASSUME ScanPrimary(s) PROVE CutCall(s)'
  BY <1>14 DEF ScanPrimary, Reads, tables, StaticKeeps, Goto
<1>15. ASSUME ClearPrimary(s) PROVE CutCall(s)'
  BY <1>15 DEF ClearPrimary, OnlyTx, locals, tables, StaticKeeps, Goto
<1>16. ASSUME StartReorder(s) PROVE CutCall(s)'
  BY <1>16 DEF StartReorder, Begins, tables, StaticKeeps, Goto
<1>17. ASSUME MovePhoto(s) PROVE CutCall(s)'
  BY <1>17 DEF MovePhoto, StaticKeeps, Goto, tables
<1>18. ASSUME StartDeleteFirearm(s) PROVE CutCall(s)'
  BY <1>18 DEF StartDeleteFirearm, Begins, tables, StaticKeeps, Goto
<1>19. ASSUME CollectPhotos(s) PROVE CutCall(s)'
  BY <1>19 DEF CollectPhotos, Reads, tables, StaticKeeps, Goto
<1>20. ASSUME CollectDocuments(s) PROVE CutCall(s)'
  BY <1>20 DEF CollectDocuments, Reads, tables, StaticKeeps, Goto
<1>21. ASSUME Cascade(s) PROVE CutCall(s)'
  BY <1>21 DEF Cascade, OnlyTx, locals, tables, StaticKeeps, GiveUp, Goto
<1>22. ASSUME TxFails(s) PROVE CutCall(s)'
  BY <1>22 DEF TxFails, OnlyTx, locals, tables, StaticKeeps, GiveUp, Goto, InTx, TxStates
<1>23. ASSUME Deadlock(s) PROVE CutCall(s)'
  BY <1>23 DEF Deadlock, OnlyTx, locals, tables, StaticKeeps, GiveUp, Goto
<1>24. ASSUME Commit(s) PROVE CutCall(s)'
  BY <1>24 DEF Commit, StaticKeeps, Goto, Apply, locals
<1>25. ASSUME CommitUnanswered(s) PROVE CutCall(s)'
  BY <1>25 DEF CommitUnanswered, GiveUp, Goto, Apply, locals
<1>26. ASSUME Reclaim(s) PROVE CutCall(s)'
  BY <1>26 DEF Reclaim, StaticKeeps, Goto, tables, locals
<1> QED
  BY <1>1, <1>2, <1>3, <1>4, <1>5, <1>6, <1>7, <1>8, <1>9, <1>10, <1>11, <1>12, <1>13,
     <1>14, <1>15, <1>16, <1>17, <1>18, <1>19, <1>20, <1>21, <1>22, <1>23, <1>24, <1>25,
     <1>26 DEF Call, Starts, Proceeds

\* A file a call still answers for stays one, gets its row, or is gone.
LEMMA OwedStep ==
  ASSUME TypeOK, NEW s \in Session, CallInv(s), Call(s), ~failed'
  PROVE  /\ ~failed
         /\ \A i \in Owed(s) : i \in Owed(s)' \/ i \in rows' \/ blobs'[i] = "none"
         /\ \A i \in Item : blobs'[i] # blobs[i] => i \in Owed(s)' \/ blobs'[i] = "none"
<1>a. Files[s] \subseteq Item
  BY GalleryAssumption DEF GalleryAssumption
<1> DEFINE Kept == /\ ~failed
                   /\ \A i \in Owed(s) : i \in Owed(s)' \/ i \in rows' \/ blobs'[i] = "none"
                   /\ \A i \in Item : blobs'[i] # blobs[i] => i \in Owed(s)' \/ blobs'[i] = "none"
<1> USE <1>a DEF TypeOK, CallInv, PlaceInv, FilesInv, Owed, Uploads, Removals, BeforeTx
<1>1. ASSUME StartUpload(s) PROVE Kept
  BY <1>1 DEF StartUpload, Reads, tables, StaticKeeps, Goto
<1>2. ASSUME ValidateDocuments(s) PROVE Kept
  BY <1>2 DEF ValidateDocuments, Reads, tables, StaticKeeps, Goto
<1>3. ASSUME CheckQuota(s) PROVE Kept
  BY <1>3 DEF CheckQuota, Reads, tables, StaticKeeps, Goto, locals
<1>4. ASSUME BeginSave(s) PROVE Kept
  BY <1>4 DEF BeginSave, StaticKeeps, Goto, AfterFile, tables
<1>5. ASSUME EndSave(s) PROVE Kept
  <2>1. /\ op' = op /\ pc[s] = "writing" /\ op[s] \in Uploads /\ arg[s] \in Item
        /\ Owed(s) = keys[s] \union {arg[s]} /\ UNCHANGED rows /\ ~failed
    BY <1>5 DEF EndSave, tables
  <2>2. \/ /\ keys' = [keys EXCEPT ![s] = keys[s] \union {arg[s]}]
           /\ AfterFile(s, todo[s], keys[s] \union {arg[s]})
        \/ /\ UNCHANGED keys /\ AfterFile(s, todo[s], keys[s])
           /\ blobs' = [blobs EXCEPT ![arg[s]] = "none"]
    BY <1>5, <2>1 DEF EndSave
  <2>3. CASE /\ keys' = [keys EXCEPT ![s] = keys[s] \union {arg[s]}]
             /\ AfterFile(s, todo[s], keys[s] \union {arg[s]})
    <3>1. keys'[s] = keys[s] \union {arg[s]}
      BY <2>3
    <3>2. pc'[s] # "done"
      BY <2>1, <2>3 DEF AfterFile, Goto
    <3>3. keys[s] \union {arg[s]} \subseteq Owed(s)'
      BY <2>1, <3>1, <3>2
    <3>4. \A i \in Item \ {arg[s]} : blobs'[i] = blobs[i]
      BY <1>5 DEF EndSave
    <3> QED
      BY <2>1, <3>3, <3>4
  <2>4. CASE /\ UNCHANGED keys /\ AfterFile(s, todo[s], keys[s])
             /\ blobs' = [blobs EXCEPT ![arg[s]] = "none"]
    <3>1. keys[s] \subseteq Owed(s)'
      BY <2>1, <2>4 DEF AfterFile, Goto
    <3> QED
      BY <2>1, <2>4, <3>1
  <2> QED
    BY <2>2, <2>3, <2>4
<1>6. ASSUME BeginUpload(s) PROVE Kept
  BY <1>6 DEF BeginUpload, Begins, tables, StaticKeeps, GiveUp, Goto, locals
<1>7. ASSUME LockFirearm(s) PROVE Kept
  BY <1>7 DEF LockFirearm, OnlyTx, locals, tables, StaticKeeps, GiveUp, Goto
<1>8. ASSUME ReadExisting(s) PROVE Kept
  BY <1>8 DEF ReadExisting, GiveUp, Goto, StaticKeeps, tables
<1>9. ASSUME InsertRows(s) PROVE Kept
  BY <1>9 DEF InsertRows, OnlyTx, locals, tables, StaticKeeps, GiveUp, Goto
<1>10. ASSUME StartOnItem(s) PROVE Kept
  BY <1>10 DEF StartOnItem, Begins, tables, StaticKeeps, Goto
<1>11. ASSUME DeleteRow(s) PROVE Kept
  BY <1>11 DEF DeleteRow, GiveUp, Goto, StaticKeeps, tables
<1>12. ASSUME SelectNext(s) PROVE Kept
  BY <1>12 DEF SelectNext, Reads, tables, StaticKeeps, Goto
<1>13. ASSUME MakePrimary(s) PROVE Kept
  BY <1>13 DEF MakePrimary, OnlyTx, locals, tables, StaticKeeps, GiveUp, Goto
<1>14. ASSUME ScanPrimary(s) PROVE Kept
  BY <1>14 DEF ScanPrimary, Reads, tables, StaticKeeps, Goto
<1>15. ASSUME ClearPrimary(s) PROVE Kept
  BY <1>15 DEF ClearPrimary, OnlyTx, locals, tables, StaticKeeps, Goto
<1>16. ASSUME StartReorder(s) PROVE Kept
  BY <1>16 DEF StartReorder, Begins, tables, StaticKeeps, Goto
<1>17. ASSUME MovePhoto(s) PROVE Kept
  BY <1>17 DEF MovePhoto, StaticKeeps, Goto, tables
<1>18. ASSUME StartDeleteFirearm(s) PROVE Kept
  BY <1>18 DEF StartDeleteFirearm, Begins, tables, StaticKeeps, Goto
<1>19. ASSUME CollectPhotos(s) PROVE Kept
  BY <1>19 DEF CollectPhotos, Reads, tables, StaticKeeps, Goto
<1>20. ASSUME CollectDocuments(s) PROVE Kept
  BY <1>20 DEF CollectDocuments, Reads, tables, StaticKeeps, Goto
<1>21. ASSUME Cascade(s) PROVE Kept
  BY <1>21 DEF Cascade, OnlyTx, locals, tables, StaticKeeps, GiveUp, Goto
<1>22. ASSUME TxFails(s) PROVE Kept
  BY <1>22 DEF TxFails, OnlyTx, locals, tables, StaticKeeps, GiveUp, Goto, InTx, TxStates
<1>23. ASSUME Deadlock(s) PROVE Kept
  BY <1>23 DEF Deadlock, OnlyTx, locals, tables, StaticKeeps, GiveUp, Goto, Circle,
     WaitsFor, Touches, IndexWaits, Promotes
<1>24. ASSUME Commit(s) PROVE Kept
  BY <1>24 DEF Commit, StaticKeeps, Goto, Apply, locals, WriteInv
<1>25. ASSUME CommitUnanswered(s) PROVE Kept
  BY <1>25 DEF CommitUnanswered, GiveUp, Goto, Apply, locals, WriteInv
<1>26. ASSUME Reclaim(s) PROVE Kept
  BY <1>26 DEF Reclaim, StaticKeeps, Goto, tables, locals
<1> QED
  BY <1>1, <1>2, <1>3, <1>4, <1>5, <1>6, <1>7, <1>8, <1>9, <1>10, <1>11, <1>12, <1>13,
     <1>14, <1>15, <1>16, <1>17, <1>18, <1>19, <1>20, <1>21, <1>22, <1>23, <1>24, <1>25,
     <1>26 DEF Call, Starts, Proceeds

\* The rows a COMMIT takes away are files their call answers for, unless the
\* firearm goes too.
LEMMA RemovedRows ==
  ASSUME TypeOK, NEW s \in Session, CallInv(s), RemovalInv(s), Call(s), ~failed', firearmLive'
  PROVE  firearmLive /\ \A i \in rows : i \in rows' \/ i \in Owed(s)'
<1>1. CASE Commits(s)
  <2>1. /\ pc[s] = "commit" /\ op' = op /\ keys' = keys /\ firearmLive /\ op[s] # "deleteFirearm"
        /\ op[s] \in Operations /\ rows' = (rows \ tx[s].del) \union tx[s].ins
    BY <1>1 DEF Commits, Apply, locals, CallInv, PlaceInv
  <2>2. CASE op[s] \in {"deletePhoto", "deleteDocument"}
    <3>1. tx[s].del = keys[s]
      BY <2>1, <2>2 DEF CallInv, WriteInv
    <3>2. pc'[s] = "reclaim"
      BY <1>1, <2>2 DEF Commits, Removals, Uploads, TypeOK
    <3>3. Owed(s)' = keys[s]
      BY <2>1, <2>2, <3>2 DEF Owed, Removals, Uploads
    <3> QED
      BY <2>1, <3>1, <3>3
  <2>3. CASE op[s] \notin Removals
    <3>1. tx[s].del = {}
      BY <2>1, <2>3 DEF CallInv, WriteInv, Operations, Removals
    <3> QED
      BY <2>1, <3>1
  <2> QED
    BY <2>1, <2>2, <2>3 DEF Removals
<1>2. CASE UNCHANGED <<firearmLive, rows>>
  BY <1>2
<1> QED
  BY <1>1, <1>2, CallTables

\* Revoked uploads leave nothing, and no file is left without one who answers
\* for it, at every step of a call.
LEMMA DuesStep ==
  ASSUME TypeOK, TypeOK', \A q \in Session : CallInv(q), RowInv, CutInv, OrphanInv,
         \A q \in Session : UploadInv(q) /\ RemovalInv(q), NEW s \in Session, Call(s)
  PROVE  CutInv' /\ OrphanInv'
<1>1. OthersSame(s) /\ UNCHANGED <<old, editors, sweep, sweeps, stops, cut>>
  BY CallAlone, StaticCall
<1>2. /\ \A r \in Session \ {s} : Files[r] \intersect Files[s] = {}
      /\ \A r \in Session : (~Ended(r) => Files[r] \intersect rows = {})
  BY GalleryAssumption DEF GalleryAssumption, RowInv, Unborn
<1>3. PICK new \in SUBSET (Files[s] \ old) :
        /\ rows' \subseteq rows \union new
        /\ new # {} => op[s] \in Uploads /\ ~Ended(s) /\ Ended(s)'
  BY RowsComeFromUploads
<1>4. ASSUME NEW q \in cut
      PROVE  /\ q \notin editors'
             /\ op'[q] = "createPhotos" =>
                  pc'[q] \in BeforeTx \union {"reclaim", "done"} /\ rows' \intersect Files[q] = {}
  <2>1. q \in Session /\ q \notin editors /\ CutCall(q)
    BY DEF TypeOK, CutInv, CutCall
  <2>2. CASE q # s
    <3>1. pc'[q] = pc[q] /\ op'[q] = op[q]
      BY <1>1, <2>1, <2>2 DEF OthersSame
    <3>2. rows' \intersect Files[q] \subseteq rows \intersect Files[q]
      BY <1>2, <1>3, <2>1, <2>2
    <3> QED
      BY <1>1, <3>1, <3>2 DEF CutInv
  <2>3. CASE q = s
    <3>1. CutCall(s)'
      BY <2>1, <2>3, CutCallStep
    <3>2. ASSUME op'[s] = "createPhotos"
          PROVE  rows' \intersect Files[s] = {}
      <4>1. pc[s] = "idle" \/ op[s] = "createPhotos"
        BY <3>2, CallGoesOn
      <4>2. pc[s] \in BeforeTx \union {"reclaim", "done", "idle"}
        BY <2>1, <2>3, <4>1 DEF CutCall
      <4>3. rows' = rows
        BY <4>2, CallTables DEF Commits, BeforeTx
      <4>4. rows \intersect Files[s] = {}
        BY <1>2, <2>1, <2>3, <4>1, <4>2 DEF CutInv, Ended, BeforeTx
      <4> QED
        BY <4>3, <4>4
    <3> QED
      BY <1>1, <2>1, <2>3, <3>1, <3>2 DEF CutCall
  <2> QED
    BY <2>2, <2>3
<1>5. CutInv'
  BY <1>1, <1>4 DEF CutInv
<1>6. OrphanInv'
  <2> SUFFICES ASSUME ~failed', firearmLive', NEW i \in Item, blobs'[i] # "none"
               PROVE  i \in rows' \/ \E q \in Session : i \in Owed(q)'
    BY DEF OrphanInv
  <2>1. ~failed /\ firearmLive
    BY OwedStep, RemovedRows
  <2>2. CASE blobs[i] = "none"
    BY <2>2, OwedStep
  <2>3. CASE i \in rows
    BY <2>3, RemovedRows
  <2>4. ASSUME NEW q \in Session, i \in Owed(q)
        PROVE  i \in rows' \/ \E r \in Session : i \in Owed(r)'
    <3>1. CASE q = s
      BY <2>4, <3>1, OwedStep
    <3>2. CASE q # s
      <4>1. Owed(q)' = Owed(q)
        BY <1>1, <3>2 DEF OthersSame, Owed
      <4> QED
        BY <2>4, <4>1
    <3> QED
      BY <3>1, <3>2
  <2> QED
    BY <2>1, <2>2, <2>3, <2>4 DEF OrphanInv
<1> QED
  BY <1>5, <1>6

-----------------------------------------------------------------------------
(* The world around the calls, and the whole invariant.                    *)

\* A firearm with some photos and documents, each with its files.
LEMMA InitInv == Init => IInv
<1> SUFFICES ASSUME Init PROVE IInv
  OBVIOUS
<1> USE GalleryAssumption, NoTxType DEF Init, GalleryAssumption
<1>1. TypeOK
  <2>1. rows \in SUBSET Item /\ old \in SUBSET Item /\ primary \in SUBSET Photos
    OBVIOUS
  <2>2. /\ tx \in [Session -> TxType] /\ pc \in [Session -> States]
        /\ blobs \in [Item -> {"none", "some", "all"}]
    BY DEF States
  <2>3. sweeps \in 0 .. MaxSweeps /\ stops \in 0 .. MaxStops
    OBVIOUS
  <2> QED
    BY <2>1, <2>2, <2>3 DEF TypeOK, IdleSweep
<1>2. \A s \in Session : CallInv(s)
  BY DEF CallInv, PlaceInv, WriteInv, FilesInv, BeforeTx, Uploads
<1>3. LockInv /\ QuotaHolds
  BY DEF LockInv, HolderInv, QuotaHolds, HoldsFirearm
<1>4. IndexInv /\ AtMostOnePrimary
  BY DEF IndexInv, AtMostOnePrimary
<1>5. PrimaryInv
  BY DEF PrimaryInv, PrimaryKept, AloneInv, MoverInv, InTx, TxStates
<1>6. \A s \in Session : UploadInv(s) /\ RemovalInv(s)
  BY DEF UploadInv, RemovalInv, Uploads, Removals
<1>7. RowInv
  BY DEF RowInv, RowsHaveBlobs, Unborn
<1>8. SweepInv /\ CutInv
  BY DEF SweepInv, CutInv, IdleSweep
<1>9. OrphanInv
  BY DEF OrphanInv
<1> QED
  BY <1>1, <1>2, <1>3, <1>4, <1>5, <1>6, <1>7, <1>8, <1>9 DEF IInv

\* A step of a call.
LEMMA CallStep ==
  ASSUME IInv, NEW s \in Session, Call(s)
  PROVE  IInv'
<1> USE DEF IInv
<1>1. TypeOK'
  BY CallType
<1>2. OthersSame(s)
  BY CallAlone
<1>3. \A q \in Session : CallInv(q)'
  <2>1. CallInv(s)'
    BY <1>1, CallShape
  <2>2. ASSUME NEW q \in Session \ {s}
        PROVE  CallInv(q)'
    BY <1>2 DEF OthersSame, CallInv, PlaceInv, WriteInv, FilesInv
  <2> QED
    BY <2>1, <2>2
<1>4. LockInv' /\ QuotaHolds'
  BY <1>1, LockStep
<1>5. IndexInv' /\ AtMostOnePrimary'
  BY <1>1, <1>3, IndexStep
<1>6. PrimaryInv'
  BY <1>1, <1>3, PrimaryStep
<1>7. RowInv' /\ SweepInv' /\ \A q \in Session : UploadInv(q)' /\ RemovalInv(q)'
  BY <1>1, <1>3, BlobStep
<1>8. CutInv' /\ OrphanInv'
  BY <1>1, DuesStep
<1> QED
  BY <1>1, <1>3, <1>4, <1>5, <1>6, <1>7, <1>8

\* What the calls have done stays as it is when only the files, the sweep and
\* the grants change.
LEMMA CallsKeepInv ==
  ASSUME IInv, UNCHANGED <<tables, pc, locals, tx, unsure, overlap>>
  PROVE  /\ \A s \in Session : CallInv(s)'
         /\ LockInv' /\ QuotaHolds' /\ IndexInv' /\ AtMostOnePrimary' /\ PrimaryInv'
         /\ \A s \in Session : RemovalInv(s)'
         /\ UNCHANGED Unborn
         /\ \A s \in Session : UNCHANGED Ended(s) /\ Owed(s)' = Owed(s)
<1> USE DEF IInv, tables, locals
<1>1. \A s \in Session : CallInv(s)'
  BY DEF CallInv, PlaceInv, WriteInv, FilesInv
<1>2. LockInv' /\ QuotaHolds'
  BY DEF LockInv, HolderInv, QuotaHolds, HoldsFirearm, OverQuota
<1>3. IndexInv' /\ AtMostOnePrimary'
  BY DEF IndexInv, AtMostOnePrimary
<1>4. PrimaryInv'
  BY DEF PrimaryInv, PrimaryKept, AloneInv, MoverInv, InTx
<1>5. \A s \in Session : UNCHANGED Ended(s) /\ Owed(s)' = Owed(s)
  BY DEF Ended, Owed
<1>6. UNCHANGED Unborn
  BY <1>5 DEF Unborn
<1>7. \A s \in Session : RemovalInv(s)'
  BY <1>6 DEF RemovalInv
<1> QED
  BY <1>1, <1>2, <1>3, <1>4, <1>5, <1>6, <1>7

\* The sweep reads and deletes, and time goes by.
LEMMA SweepStep ==
  ASSUME IInv, Sweeps \/ Age
  PROVE  IInv'
<1>1. UNCHANGED <<tables, pc, locals, tx, editors, stops, cut, unsure, overlap>>
  BY DEF Sweeps, Age, SweepList, SweepReadPhotos, SweepReadDocuments, SweepDelete, CallsKeep
<1>2. /\ \A s \in Session : CallInv(s)'
      /\ LockInv' /\ QuotaHolds' /\ IndexInv' /\ AtMostOnePrimary' /\ PrimaryInv'
      /\ \A s \in Session : RemovalInv(s)'
      /\ UNCHANGED Unborn
      /\ \A s \in Session : UNCHANGED Ended(s) /\ Owed(s)' = Owed(s)
  BY <1>1, CallsKeepInv
<1>3. CutInv'
  BY <1>1 DEF IInv, CutInv, tables, locals
<1> USE DEF IInv, tables, locals
<1>4. CASE SweepList \/ SweepReadPhotos \/ SweepReadDocuments
  <2>1. UNCHANGED <<blobs, old, failed>>
    BY <1>4 DEF SweepList, SweepReadPhotos, SweepReadDocuments
  <2>2. TypeOK'
    <3>1. /\ sweeps' \in 0 .. MaxSweeps
          /\ sweep' \in [pc : {"idle", "photos", "documents", "delete"},
                         listed : SUBSET Item, owned : SUBSET Item]
      <4>1. CASE SweepList
        BY <4>1, GalleryAssumption DEF SweepList, TypeOK, GalleryAssumption
      <4>2. CASE SweepReadPhotos
        BY <4>2 DEF SweepReadPhotos, TypeOK
      <4>3. CASE SweepReadDocuments
        BY <4>3 DEF SweepReadDocuments, TypeOK
      <4> QED
        BY <1>4, <4>1, <4>2, <4>3
    <3> QED
      BY <1>1, <2>1, <3>1 DEF TypeOK
  <2>3. SweepInv'
    <3>1. CASE SweepList
      BY <3>1 DEF SweepList, SweepInv
    <3>2. CASE SweepReadPhotos
      BY <1>1, <2>1, <3>2 DEF SweepReadPhotos, SweepInv, TypeOK
    <3>3. CASE SweepReadDocuments
      BY <1>1, <2>1, <3>3 DEF SweepReadDocuments, SweepInv, TypeOK, Item
    <3> QED
      BY <1>4, <3>1, <3>2, <3>3
  <2>4. RowInv' /\ \A s \in Session : UploadInv(s)'
    BY <1>1, <1>2, <2>1 DEF RowInv, RowsHaveBlobs, UploadInv
  <2>5. OrphanInv'
    BY <1>1, <1>2, <2>1 DEF OrphanInv
  <2> QED
    BY <1>2, <1>3, <2>2, <2>3, <2>4, <2>5
<1>5. CASE SweepDelete
  <2>1. /\ sweep.pc = "delete" /\ sweep' = IdleSweep /\ UNCHANGED <<old, sweeps>>
        /\ \A i \in Item : blobs'[i] # blobs[i] => i \in old /\ i \notin rows
        /\ blobs' \in [Item -> {"none", "some", "all"}] /\ failed' \in BOOLEAN
    BY <1>5 DEF SweepDelete, Orphans, SweepInv, TypeOK
  <2>2. TypeOK'
    BY <1>1, <2>1 DEF TypeOK, IdleSweep
  <2>3. SweepInv'
    BY <2>1 DEF SweepInv, IdleSweep
  <2>4. RowInv'
    BY <1>1, <1>2, <2>1 DEF RowInv, RowsHaveBlobs, TypeOK
  <2>5. ASSUME NEW s \in Session
        PROVE  UploadInv(s)'
    <3>1. Files[s] \subseteq Item
      BY GalleryAssumption DEF GalleryAssumption
    <3> QED
      BY <1>1, <1>2, <2>1, <3>1 DEF UploadInv, TypeOK
  <2>6. OrphanInv'
    <3>1. ~failed' => ~failed /\ \A i \in Item : blobs'[i] # "none" => blobs[i] # "none"
      BY <1>5 DEF SweepDelete, TypeOK
    <3> QED
      BY <1>1, <1>2, <3>1 DEF OrphanInv
  <2> QED
    BY <1>2, <1>3, <2>2, <2>3, <2>4, <2>5, <2>6
<1>6. CASE Age
  <2>1. /\ sweep.pc = "idle" /\ UNCHANGED <<blobs, sweep, sweeps, failed>>
    BY <1>6 DEF Age
  <2>2. PICK i \in Item : blobs[i] # "none" /\ ~Uploading(i) /\ old' = old \union {i}
    BY <1>6 DEF Age
  <2>3. TypeOK'
    BY <1>1, <2>1, <2>2 DEF TypeOK
  <2>4. SweepInv'
    BY <2>1 DEF SweepInv
  <2>5. RowInv'
    BY <1>1, <1>2, <2>1 DEF RowInv, RowsHaveBlobs
  <2>6. ASSUME NEW s \in Session
        PROVE  UploadInv(s)'
    <3>1. op[s] \in Uploads /\ ~Ended(s) => i \notin keys[s] \union {arg[s]}
      BY <2>2 DEF Uploading, Ended
    <3> QED
      BY <1>1, <1>2, <2>1, <2>2, <3>1 DEF UploadInv
  <2>7. OrphanInv'
    BY <1>1, <1>2, <2>1 DEF OrphanInv
  <2> QED
    BY <1>2, <1>3, <2>3, <2>4, <2>5, <2>6, <2>7
<1> QED
  BY <1>4, <1>5, <1>6 DEF Sweeps

\* A grant is revoked.
LEMMA RevokeStep ==
  ASSUME IInv, NEW s \in Session, Revoke(s)
  PROVE  IInv'
<1>1. /\ UNCHANGED <<tables, pc, locals, tx, unsure, overlap>>
      /\ UNCHANGED <<blobs, old, sweep, sweeps, stops, failed>>
      /\ editors' = editors \ {s}
      /\ cut' = IF pc[s] \in BeforeTx THEN cut \union {s} ELSE cut
  BY DEF Revoke
<1>2. /\ \A q \in Session : CallInv(q)'
      /\ LockInv' /\ QuotaHolds' /\ IndexInv' /\ AtMostOnePrimary' /\ PrimaryInv'
      /\ \A q \in Session : RemovalInv(q)'
      /\ UNCHANGED Unborn
      /\ \A q \in Session : UNCHANGED Ended(q) /\ Owed(q)' = Owed(q)
  BY <1>1, CallsKeepInv
<1> USE DEF IInv, tables, locals
<1>3. TypeOK'
  BY <1>1 DEF TypeOK
<1>4. RowInv' /\ SweepInv' /\ OrphanInv' /\ \A q \in Session : UploadInv(q)'
  BY <1>1, <1>2 DEF RowInv, RowsHaveBlobs, SweepInv, OrphanInv, UploadInv
<1>5. pc[s] \in BeforeTx => rows \intersect Files[s] = {}
  <2>1. pc[s] \in BeforeTx => ~Ended(s)
    BY DEF Ended, BeforeTx
  <2>2. Files[s] \subseteq Item
    BY GalleryAssumption DEF GalleryAssumption
  <2> QED
    BY <2>1, <2>2 DEF RowInv, Unborn
<1>6. CutInv'
  BY <1>1, <1>5 DEF CutInv, TypeOK
<1> QED
  BY <1>2, <1>3, <1>4, <1>6

\* The server stops.
LEMMA StopStep ==
  ASSUME IInv, Stop
  PROVE  IInv'
<1>1. /\ UNCHANGED <<firearmLive, rows, primary, blobs, old, editors, op, todo, keys, arg, seen>>
      /\ UNCHANGED <<sweeps, cut, unsure, overlap>>
      /\ stops' = stops + 1 /\ stops < MaxStops /\ sweep' = IdleSweep /\ failed' = TRUE
  BY DEF Stop, tables, locals
<1> USE DEF IInv
<1>2. ASSUME NEW s \in Session
      PROVE  /\ tx'[s] = NoTx /\ (pc'[s] = "idle" \/ pc'[s] = "done")
             /\ pc'[s] = "idle" <=> pc[s] = "idle"
             /\ Ended(s) => Ended(s)'
  <2>1. op' = op /\ tx'[s] = NoTx /\ pc'[s] = IF pc[s] = "idle" THEN "idle" ELSE "done"
    BY DEF Stop, locals
  <2> QED
    BY <2>1 DEF Ended
<1>3. TypeOK'
  <2>1. pc' \in [Session -> States] /\ tx' \in [Session -> TxType]
    BY NoTxType DEF Stop, States, TypeOK
  <2> QED
    BY <1>1, <2>1, GalleryAssumption DEF TypeOK, IdleSweep, GalleryAssumption
<1>4. Unborn' \subseteq Unborn
  BY <1>2 DEF Unborn
<1>5. \A s \in Session : CallInv(s)'
  <2> SUFFICES ASSUME NEW s \in Session PROVE CallInv(s)'
    OBVIOUS
  <2>1. PlaceInv(s)'
    BY <1>2 DEF PlaceInv, BeforeTx
  <2>2. WriteInv(s)'
    BY <1>2, NoTxType DEF WriteInv
  <2>3. FilesInv(s)'
    BY <1>1, <1>2 DEF FilesInv, CallInv
  <2> QED
    BY <2>1, <2>2, <2>3 DEF CallInv
<1>6. LockInv' /\ QuotaHolds'
  BY <1>1, <1>2 DEF LockInv, HolderInv, QuotaHolds, HoldsFirearm
<1>7. IndexInv' /\ AtMostOnePrimary'
  BY <1>1, <1>2, NoTxType DEF IndexInv, AtMostOnePrimary
<1>8. PrimaryInv'
  BY <1>1, <1>2 DEF PrimaryInv, PrimaryKept, AloneInv, MoverInv, InTx, TxStates
<1>9. \A s \in Session : UploadInv(s)' /\ RemovalInv(s)'
  BY <1>1, <1>2, <1>4 DEF UploadInv, RemovalInv, Ended
<1>10. RowInv' /\ SweepInv'
  BY <1>1, <1>4 DEF RowInv, RowsHaveBlobs, SweepInv, IdleSweep
<1>11. CutInv'
  <2> SUFFICES ASSUME NEW s \in cut, op[s] = "createPhotos"
               PROVE  pc'[s] = "done"
    BY <1>1 DEF CutInv
  <2> QED
    BY <1>2 DEF CutInv, BeforeTx, TypeOK
<1>12. OrphanInv'
  BY <1>1 DEF OrphanInv
<1> QED
  BY <1>3, <1>5, <1>6, <1>7, <1>8, <1>9, <1>10, <1>11, <1>12

\* The invariant is inductive.
LEMMA StepInv == IInv /\ [Next]_vars => IInv'
<1> SUFFICES ASSUME IInv, [Next]_vars PROVE IInv'
  OBVIOUS
<1>1. ASSUME NEW s \in Session, Starts(s) \/ Proceeds(s) \/ TxFails(s)
      PROVE  IInv'
  BY <1>1, CallStep DEF Call
<1>2. ASSUME NEW s \in Session, Revoke(s)
      PROVE  IInv'
  BY <1>2, RevokeStep
<1>3. CASE Sweeps \/ Age
  BY <1>3, SweepStep
<1>4. CASE Stop
  BY <1>4, StopStep
<1>5. CASE UNCHANGED vars
  <2>1. /\ UNCHANGED <<tables, pc, locals, tx, unsure, overlap>>
        /\ UNCHANGED <<blobs, old, editors, sweep, sweeps, stops, cut, failed>>
    BY <1>5 DEF vars, history
  <2>2. /\ \A q \in Session : CallInv(q)'
        /\ LockInv' /\ QuotaHolds' /\ IndexInv' /\ AtMostOnePrimary' /\ PrimaryInv'
        /\ \A q \in Session : RemovalInv(q)'
        /\ UNCHANGED Unborn
        /\ \A q \in Session : UNCHANGED Ended(q) /\ Owed(q)' = Owed(q)
    BY <2>1, CallsKeepInv
  <2>3. TypeOK'
    BY <2>1 DEF IInv, TypeOK, tables, locals
  <2>4. RowInv' /\ SweepInv' /\ CutInv' /\ OrphanInv' /\ \A q \in Session : UploadInv(q)'
    BY <2>1, <2>2 DEF IInv, RowInv, RowsHaveBlobs, SweepInv, CutInv, OrphanInv, UploadInv,
       tables, locals
  <2> QED
    BY <2>2, <2>3, <2>4 DEF IInv
<1> QED
  BY <1>1, <1>2, <1>3, <1>4, <1>5 DEF Next

-----------------------------------------------------------------------------
(* The theorems.                                                           *)

\* Whatever calls, sweeps, revocations, failures and stops do, the gallery stays in
\* the states of the inductive invariant.
THEOREM GalleryInvariant == Spec => []IInv
<1>1. Init => IInv
  BY InitInv
<1>2. IInv /\ [Next]_vars => IInv'
  BY StepInv
<1> QED
  BY <1>1, <1>2, PTL DEF Spec

\* The quotas hold, at most one photo is the primary, and a gallery with photos has
\* one unless a move of the primary overlapped another transaction: for any number
\* of photos, documents and calls (createPhotos, deletePhoto, setPrimary).
THEOREM GalleryIsAlwaysSound == Spec => []GalleryIsSound
<1>1. IInv => GalleryIsSound
  BY DEF IInv, GalleryIsSound, PrimaryInv, PrimaryKept
<1> QED
  BY <1>1, GalleryInvariant, PTL

\* A row finds its files, a revoked upload leaves no row, and a file without a row
\* comes from a failure or from the deletion of the firearm (createPhotos,
\* deletePhoto, deleteFirearm, orphanSweep).
THEOREM RowsAreAlwaysSound == Spec => []RowsAreSound
<1>1. IInv => RowsAreSound
  <2> SUFFICES ASSUME IInv PROVE RowsAreSound
    OBVIOUS
  <2>1. TypeOK /\ RowsHaveBlobs
    BY DEF IInv, RowInv
  <2>2. RevokedUploadLeavesNothing
    BY DEF IInv, CutInv, RevokedUploadLeavesNothing
  <2>3. Quiet => \A s \in Session : Owed(s) = {}
    <3>1. \A s \in Session : CallInv(s)
      BY DEF IInv
    <3> QED
      BY <3>1 DEF Quiet, Owed, CallInv, FilesInv
  <2>4. OrphansAreExplained
    BY <2>3 DEF IInv, OrphanInv, OrphansAreExplained
  <2> QED
    BY <2>1, <2>2, <2>4 DEF RowsAreSound
<1> QED
  BY <1>1, GalleryInvariant, PTL
=============================================================================
