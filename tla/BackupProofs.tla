---------------------------- MODULE BackupProofs ----------------------------
(***************************************************************************)
(* Proofs about a bundle: its export (BackupExport) and its staging for a  *)
(* restore (BundleStream).                                                 *)
(*                                                                         *)
(* Export, for every set of firearms and documents: the rows of a bundle   *)
(* are one consistent snapshot, and a row in it is without its blob only   *)
(* where a writer or a restore came in between; and a finished bundle      *)
(* holds what its manifest declares.  A step of the instance leaves the    *)
(* export where it is, and a step of the export leaves the instance alone  *)
(* (Elsewhere, Reads); each action says what it does on its own side.      *)
(*                                                                         *)
(* Staging, for every set of bundles and every size of a chunk: the        *)
(* decrypting stream lets through nothing but a beginning of the plaintext *)
(* that was sealed, chunk by chunk (CipherInv); the reader stands at the   *)
(* cells of an entry of that plaintext (CursorInv); so what is staged is   *)
(* what was packed (StagedInv).  The tar stream and the encrypted stream   *)
(* are folds over sequences of any length: what lies where in them is      *)
(* proved by counting up (CountingUp), without the library's induction.    *)
(***************************************************************************)
EXTENDS BackupExport, BundleStream, SequenceTheorems, WellFoundedInduction, TLAPS

\* What a step of the instance may do to what the export relies on: a file that
\* comes or goes between the two readings is noted, so is a swap, and an upload
\* that ran across a swap stays known.
Elsewhere ==
  /\ UNCHANGED <<exp, reading, packing>>
  /\ raced \subseteq raced'
  /\ exp # "reading" => disturbed' = disturbed
  /\ exp = "reading" =>
       /\ disturbed \subseteq disturbed'
       /\ upload \ disturbed' \subseteq upload'
       /\ upload' \ disturbed' \subseteq upload
       /\ promote' \in {"swapped", "promoted"} =>
            promote \in {"swapped", "promoted"} \/ disturbed' = Documents

\* What a step of the export leaves alone.
Reads == UNCHANGED <<instance, raced>>

-----------------------------------------------------------------------------
(* The two sides.                                                          *)

LEMMA ElsewhereKeeps ==
  ASSUME IInv, TypeOK', Elsewhere
  PROVE  ReadInv' /\ CauseInv'
<1>1. ReadInv'
  BY DEF IInv, ReadInv, Elsewhere, reading
<1>2. CauseInv'
  <2>1. promote \in {"swapped", "promoted"} <=> ~Serving
    BY DEF IInv, TypeOK, Serving
  <2>2. promote' \in {"swapped", "promoted"} <=> ~Serving'
    BY DEF TypeOK, Serving
  <2>3. exp = "reading" /\ ~Serving' => disturbed' = Documents
    BY <2>1, <2>2 DEF IInv, CauseInv, Elsewhere, TypeOK
  <2> QED BY <2>3 DEF IInv, CauseInv, Elsewhere, reading, packing, Entries
<1> QED BY <1>1, <1>2

LEMMA ReadsKeeps ==
  ASSUME IInv, Reads
  PROVE  InstanceInv'
BY DEF IInv, InstanceInv, Reads, instance, rows, Serving

-----------------------------------------------------------------------------
(* The instance.                                                           *)

LEMMA CreateFirearmKeeps ==
  ASSUME IInv, NEW f \in Firearms, CreateFirearm(f)
  PROVE  IInv'
<1>1. TypeOK'
  BY DEF IInv, TypeOK, CreateFirearm, reading, packing, history
<1>2. InstanceInv'
  BY DEF IInv, TypeOK, InstanceInv, CreateFirearm, Serving, history
<1>3. Elsewhere
  BY DEF Elsewhere, CreateFirearm, reading, packing, history
<1> QED BY <1>1, <1>2, <1>3, ElsewhereKeeps DEF IInv

LEMMA BeginSaveKeeps ==
  ASSUME IInv, NEW d \in Documents, BeginSave(d)
  PROVE  IInv'
<1>1. TypeOK'
  BY DEF IInv, TypeOK, Calls, BeginSave, Disturb, rows, reading, packing
<1>2. InstanceInv'
  BY DEF IInv, TypeOK, InstanceInv, BeginSave, Serving, rows
<1>3. Elsewhere
  BY DEF Elsewhere, IInv, TypeOK, InstanceInv, BeginSave, Disturb, Serving, rows,
       reading, packing
<1> QED BY <1>1, <1>2, <1>3, ElsewhereKeeps DEF IInv

LEMMA EndSaveKeeps ==
  ASSUME IInv, NEW d \in Documents, EndSave(d)
  PROVE  IInv'
<1>1. TypeOK'
  BY DEF IInv, TypeOK, Calls, EndSave, rows, reading, packing, history
<1>2. InstanceInv'
  BY DEF IInv, TypeOK, InstanceInv, EndSave, Serving, rows, history
<1>3. Elsewhere
  BY DEF Elsewhere, EndSave, rows, reading, packing, history
<1> QED BY <1>1, <1>2, <1>3, ElsewhereKeeps DEF IInv

LEMMA InsertRowKeeps ==
  ASSUME IInv, NEW d \in Documents, InsertRow(d)
  PROVE  IInv'
<1>1. TypeOK'
  BY DEF IInv, TypeOK, Calls, InsertRow, reading, packing, history
<1>2. InstanceInv'
  BY DEF IInv, TypeOK, InstanceInv, InsertRow, Serving, history
<1>3. Elsewhere
  BY DEF Elsewhere, InsertRow, reading, packing, history
<1> QED BY <1>1, <1>2, <1>3, ElsewhereKeeps DEF IInv

LEMMA DeleteRowKeeps ==
  ASSUME IInv, NEW d \in Documents, DeleteRow(d)
  PROVE  IInv'
<1>1. TypeOK'
  BY DEF IInv, TypeOK, Calls, DeleteRow, reading, packing, history
<1>2. InstanceInv'
  BY DEF IInv, TypeOK, InstanceInv, DeleteRow, Serving, history
<1>3. Elsewhere
  BY DEF Elsewhere, DeleteRow, reading, packing, history
<1> QED BY <1>1, <1>2, <1>3, ElsewhereKeeps DEF IInv

LEMMA DeleteFirearmKeeps ==
  ASSUME IInv, NEW f \in Firearms, DeleteFirearm(f)
  PROVE  IInv'
<1>1. TypeOK'
  BY DEF IInv, TypeOK, Calls, DeleteFirearm, reading, packing, history
<1>2. InstanceInv'
  BY DEF IInv, TypeOK, InstanceInv, DeleteFirearm, Serving, history
<1>3. Elsewhere
  BY DEF Elsewhere, DeleteFirearm, reading, packing, history
<1> QED BY <1>1, <1>2, <1>3, ElsewhereKeeps DEF IInv

LEMMA DeleteBlobKeeps ==
  ASSUME IInv, NEW d \in Documents, DeleteBlob(d)
  PROVE  IInv'
<1>1. TypeOK'
  BY DEF IInv, TypeOK, Calls, DeleteBlob, Disturb, rows, reading, packing
<1>2. InstanceInv'
  BY DEF IInv, TypeOK, InstanceInv, DeleteBlob, Serving, rows
<1>3. Elsewhere
  BY DEF Elsewhere, IInv, TypeOK, InstanceInv, DeleteBlob, Disturb, Serving, rows,
       reading, packing
<1> QED BY <1>1, <1>2, <1>3, ElsewhereKeeps DEF IInv

LEMMA BeginBlobSwapKeeps ==
  ASSUME IInv, BeginBlobSwap
  PROVE  IInv'
<1>1. TypeOK'
  BY DEF IInv, TypeOK, BeginBlobSwap, Disturb, rows, reading, packing
<1>2. InstanceInv'
  BY DEF IInv, TypeOK, InstanceInv, BeginBlobSwap, Serving, rows
<1>3. Elsewhere
  BY DEF Elsewhere, IInv, TypeOK, InstanceInv, BeginBlobSwap, Disturb, Serving, rows,
       reading, packing
<1> QED BY <1>1, <1>2, <1>3, ElsewhereKeeps DEF IInv

LEMMA PromoteTransactionKeeps ==
  ASSUME IInv, PromoteTransaction
  PROVE  IInv'
<1>1. TypeOK'
  BY ExportAssumption DEF ExportAssumption, IInv, TypeOK, Calls, PromoteTransaction,
       reading, packing, history
<1>2. InstanceInv'
  BY ExportAssumption DEF ExportAssumption, IInv, TypeOK, InstanceInv,
       PromoteTransaction, Serving, history
<1>3. Elsewhere
  BY DEF Elsewhere, IInv, TypeOK, InstanceInv, PromoteTransaction, Serving, reading,
       packing, history
<1> QED BY <1>1, <1>2, <1>3, ElsewhereKeeps DEF IInv

LEMMA FinishBlobSwapKeeps ==
  ASSUME IInv, FinishBlobSwap
  PROVE  IInv'
<1>1. TypeOK'
  BY ExportAssumption DEF ExportAssumption, IInv, TypeOK, FinishBlobSwap, Disturb,
       rows, reading, packing
<1>2. InstanceInv'
  BY ExportAssumption DEF ExportAssumption, IInv, TypeOK, InstanceInv, FinishBlobSwap,
       Serving, rows
<1>3. Elsewhere
  BY ExportAssumption DEF ExportAssumption, Elsewhere, IInv, TypeOK, InstanceInv,
       FinishBlobSwap, Disturb, rows, reading, packing
<1> QED BY <1>1, <1>2, <1>3, ElsewhereKeeps DEF IInv

-----------------------------------------------------------------------------
(* The export.                                                             *)

LEMMA StartExportKeeps ==
  ASSUME IInv, StartExport
  PROVE  IInv'
<1>1. TypeOK'
  BY DEF IInv, TypeOK, Tables, StartExport, instance, rows, reading, packing
<1>2. InstanceInv'
  BY ReadsKeeps DEF Reads, StartExport
<1>3. ReadInv'
  BY DEF IInv, TypeOK, Tables, InstanceInv, ReadInv, StartExport, reading
<1>4. CauseInv'
  BY DEF IInv, TypeOK, Tables, InstanceInv, ReadInv, CauseInv, StartExport, Serving,
       Entries, instance, rows, reading, packing
<1> QED BY <1>1, <1>2, <1>3, <1>4 DEF IInv

LEMMA SelectTableKeeps ==
  ASSUME IInv, SelectTable
  PROVE  IInv'
<1>1. TypeOK'
  BY DEF IInv, TypeOK, Tables, SelectTable, Seen, Live, instance, rows, reading,
       packing, history
<1>2. InstanceInv'
  BY ReadsKeeps DEF Reads, SelectTable, history
<1>3. ReadInv'
  BY DEF IInv, TypeOK, Tables, InstanceInv, ReadInv, SelectTable, Seen, Live, reading
<1>4. CauseInv'
  BY DEF IInv, TypeOK, Tables, InstanceInv, ReadInv, CauseInv, SelectTable, Seen, Live,
       Serving, Entries, instance, rows, reading, packing, history
<1> QED BY <1>1, <1>2, <1>3, <1>4 DEF IInv

LEMMA ListDirectoryKeeps ==
  ASSUME IInv, ListDirectory
  PROVE  IInv'
<1>1. TypeOK'
  BY DEF IInv, TypeOK, Tables, ListDirectory, instance, rows, reading, packing, history
<1>2. InstanceInv'
  BY ReadsKeeps DEF Reads, ListDirectory, history
<1>3. ReadInv'
  BY DEF IInv, TypeOK, Tables, InstanceInv, ReadInv, ListDirectory, reading
<1>4. CauseInv'
  BY DEF IInv, TypeOK, Tables, InstanceInv, ReadInv, CauseInv, ListDirectory, Serving,
       Entries, instance, rows, reading, packing, history
<1> QED BY <1>1, <1>2, <1>3, <1>4 DEF IInv

LEMMA StatBlobKeeps ==
  ASSUME IInv, NEW d \in Documents, StatBlob(d)
  PROVE  IInv'
<1>1. TypeOK'
  BY DEF IInv, TypeOK, Tables, StatBlob, Length, Unsized, instance, rows, reading,
       packing, history
<1>2. InstanceInv'
  BY ReadsKeeps DEF Reads, StatBlob, history
<1>3. ReadInv'
  BY DEF IInv, TypeOK, Tables, InstanceInv, ReadInv, StatBlob, reading
<1>4. CauseInv'
  BY DEF IInv, TypeOK, Tables, InstanceInv, ReadInv, CauseInv, StatBlob, Serving,
       Entries, instance, rows, reading, packing, history
<1> QED BY <1>1, <1>2, <1>3, <1>4 DEF IInv

LEMMA ComposeKeeps ==
  ASSUME IInv, Compose
  PROVE  IInv'
<1>1. TypeOK'
  BY DEF IInv, TypeOK, Tables, Compose, Unsized, instance, rows, reading, packing,
       history
<1>2. InstanceInv'
  BY ReadsKeeps DEF Reads, Compose, history
<1>3. ReadInv'
  BY DEF IInv, TypeOK, Tables, InstanceInv, ReadInv, Compose, reading
<1>4. CauseInv'
  BY DEF IInv, TypeOK, Tables, InstanceInv, ReadInv, CauseInv, Compose, Serving,
       Entries, instance, rows, reading, packing, history
<1> QED BY <1>1, <1>2, <1>3, <1>4 DEF IInv

LEMMA OpenBlobKeeps ==
  ASSUME IInv, NEW d \in Documents, OpenBlob(d)
  PROVE  IInv'
<1>1. TypeOK'
  BY DEF IInv, TypeOK, Tables, OpenBlob, Length, NoFile, Unpacked, instance, rows,
       reading, packing, history
<1>2. InstanceInv'
  BY ReadsKeeps DEF Reads, OpenBlob, history
<1>3. ReadInv'
  BY DEF IInv, TypeOK, Tables, InstanceInv, ReadInv, OpenBlob, reading
<1>4. CauseInv'
  BY DEF IInv, TypeOK, Tables, InstanceInv, ReadInv, CauseInv, OpenBlob, Serving,
       Entries, Unpacked, instance, rows, reading, packing, history
<1> QED BY <1>1, <1>2, <1>3, <1>4 DEF IInv

LEMMA PackBlobKeeps ==
  ASSUME IInv, PackBlob
  PROVE  IInv'
<1>1. TypeOK'
  BY DEF IInv, TypeOK, Tables, PackBlob, Length, NoFile, instance, rows, reading,
       packing, history
<1>2. InstanceInv'
  BY ReadsKeeps DEF Reads, PackBlob, history
<1>3. ReadInv'
  BY DEF IInv, TypeOK, Tables, InstanceInv, ReadInv, PackBlob, reading
<1>4. CauseInv'
  BY DEF IInv, TypeOK, Tables, InstanceInv, ReadInv, CauseInv, PackBlob, Serving,
       Entries, instance, rows, reading, packing, history
<1> QED BY <1>1, <1>2, <1>3, <1>4 DEF IInv

LEMMA FinalizeKeeps ==
  ASSUME IInv, Finalize
  PROVE  IInv'
<1>1. TypeOK'
  BY DEF IInv, TypeOK, Tables, Finalize, Unpacked, instance, rows, reading, packing,
       history
<1>2. InstanceInv'
  BY ReadsKeeps DEF Reads, Finalize, history
<1>3. ReadInv'
  BY DEF IInv, TypeOK, Tables, InstanceInv, ReadInv, Finalize, reading
<1>4. CauseInv'
  BY DEF IInv, TypeOK, Tables, InstanceInv, ReadInv, CauseInv, Finalize, Serving,
       Entries, Unpacked, instance, rows, reading, packing, history
<1> QED BY <1>1, <1>2, <1>3, <1>4 DEF IInv

LEMMA CancelKeeps ==
  ASSUME IInv, Cancel
  PROVE  IInv'
<1>1. TypeOK'
  BY DEF IInv, TypeOK, Tables, Cancel, instance, rows, reading, packing, history
<1>2. InstanceInv'
  BY ReadsKeeps DEF Reads, Cancel, history
<1>3. ReadInv'
  BY DEF IInv, TypeOK, Tables, InstanceInv, ReadInv, Cancel, reading
<1>4. CauseInv'
  BY DEF IInv, TypeOK, Tables, InstanceInv, ReadInv, CauseInv, Cancel, Serving,
       Entries, instance, rows, reading, packing, history
<1> QED BY <1>1, <1>2, <1>3, <1>4 DEF IInv

-----------------------------------------------------------------------------
(* Theorems.                                                               *)

LEMMA InitHolds == Init => IInv
<1> SUFFICES ASSUME Init PROVE IInv
  OBVIOUS
<1>1. TypeOK
  <2>1. snap \in Tables /\ got \in Tables
    BY DEF Init, Tables
  <2>2. file \in [doc : Documents \union {None}, at : 0 .. 2]
    BY DEF Init, NoFile
  <2>3. call \in [Documents -> Calls] /\ created \subseteq Firearms
    BY ExportAssumption DEF ExportAssumption, Init, Calls
  <2>4. size \in [Documents -> 0 .. 2] /\ packed \in [Documents -> 0 .. 2]
    BY DEF Init
  <2>5. /\ firearms \subseteq Firearms /\ documents \subseteq Documents
        /\ upload \subseteq Documents /\ names \subseteq Documents
        /\ disturbed \subseteq Documents /\ raced \subseteq Documents
    BY ExportAssumption DEF ExportAssumption, Init
  <2>6. promote = "idle" /\ exp = "idle" /\ read = 0 /\ listed \in BOOLEAN
    BY DEF Init
  <2> QED BY <2>1, <2>2, <2>3, <2>4, <2>5, <2>6 DEF TypeOK
<1>2. InstanceInv
  BY ExportAssumption DEF ExportAssumption, Init, InstanceInv, Serving
<1>3. ReadInv /\ CauseInv
  BY DEF Init, ReadInv, CauseInv
<1> QED BY <1>1, <1>2, <1>3 DEF IInv

LEMMA StepKeeps ==
  ASSUME IInv, [Next]_vars
  PROVE  IInv'
<1>1. CASE UNCHANGED vars
  BY <1>1 DEF vars, instance, rows, reading, packing, history, IInv, TypeOK,
       InstanceInv, ReadInv, CauseInv, Entries, Serving
<1>2. CASE Requests
  BY <1>2, CreateFirearmKeeps, DeleteFirearmKeeps, BeginSaveKeeps, EndSaveKeeps,
       InsertRowKeeps, DeleteRowKeeps, DeleteBlobKeeps DEF Requests
<1>3. CASE Promotes
  BY <1>3, BeginBlobSwapKeeps, PromoteTransactionKeeps, FinishBlobSwapKeeps DEF Promotes
<1>4. CASE StartExport \/ Exports \/ Cancel
  BY <1>4, StartExportKeeps, SelectTableKeeps, ListDirectoryKeeps, StatBlobKeeps,
       ComposeKeeps, OpenBlobKeeps, PackBlobKeeps, FinalizeKeeps,
       CancelKeeps DEF Exports
<1> QED BY <1>1, <1>2, <1>3, <1>4 DEF Next

\* What an export (createBackup) relies on at every point, whoever writes beside it.
THEOREM ExportInvariant == Spec => []IInv
<1>1. IInv /\ [Next]_vars => IInv'
  BY StepKeeps
<1> QED BY <1>1, InitHolds, PTL DEF Spec

\* The rows of a bundle can be inserted again, and a row in it is without its blob
\* only if a file came or went between the two readings or an upload ran across
\* the swap of a restore (bufferDbExport, listUploadBlobs, writeBundle).
THEOREM ExportIsAlwaysSound == Spec => []ExportIsSound
<1>1. IInv => ExportIsSound
  BY DEF IInv, InstanceInv, ReadInv, CauseInv, ExportIsSound, BundleRowsImport,
       MissingBlobHasACause
<1> QED BY <1>1, ExportInvariant, PTL

-----------------------------------------------------------------------------
(* A finished bundle holds what its manifest declares.                     *)

\* No step of the instance takes a written document back to its upload.
Written ==
  /\ UNCHANGED <<exp, reading, packing>>
  /\ \A d \in Documents : call[d] \notin {"new", "saving"} => call'[d] \notin {"new", "saving"}

LEMMA WrittenKeeps ==
  ASSUME IInv, WholeInv, Written
  PROVE  WholeInv'
BY DEF IInv, TypeOK, Tables, WholeInv, Written, reading, packing

LEMMA InstanceWrites ==
  ASSUME IInv, Requests \/ Promotes
  PROVE  Written
<1>a. call \in [Documents -> Calls]
  BY DEF IInv, TypeOK
<1>1. ASSUME NEW f \in Firearms, CreateFirearm(f) \/ DeleteFirearm(f) PROVE Written
  BY <1>1, <1>a DEF CreateFirearm, DeleteFirearm, Written, Calls
<1>2. ASSUME NEW d \in Documents, BeginSave(d) \/ EndSave(d) \/ InsertRow(d)
      PROVE  Written
  BY <1>2, <1>a DEF BeginSave, EndSave, InsertRow, Written, Calls
<1>3. ASSUME NEW d \in Documents, DeleteRow(d) \/ DeleteBlob(d)
      PROVE  Written
  BY <1>3, <1>a DEF DeleteRow, DeleteBlob, Written, Calls
<1>4. ASSUME Promotes PROVE Written
  BY <1>4, <1>a DEF Promotes, BeginBlobSwap, PromoteTransaction, FinishBlobSwap, Written, Calls
<1> QED BY <1>1, <1>2, <1>3, <1>4 DEF Requests

LEMMA ExportWhole ==
  ASSUME IInv, WholeInv, IInv', StartExport \/ Exports \/ Cancel
  PROVE  WholeInv'
<1>1. ASSUME SelectTable PROVE WholeInv'
  BY <1>1 DEF SelectTable, Seen, Live, instance, reading, packing, InstanceInv, ReadInv,
     Tables, IInv, TypeOK, WholeInv
<1>2. ASSUME ListDirectory PROVE WholeInv'
  BY <1>2 DEF ListDirectory, instance, reading, packing, IInv, TypeOK, WholeInv
<1>3. ASSUME Compose PROVE WholeInv'
  BY <1>3 DEF Compose, instance, reading, packing, IInv, TypeOK, WholeInv
<1>4. ASSUME PackBlob PROVE WholeInv'
  BY <1>4 DEF PackBlob, instance, reading, Length, SizeMatches, Tables, NoFile, ReadInv,
     IInv, TypeOK, WholeInv
<1>5. ASSUME Finalize PROVE WholeInv'
  BY <1>5 DEF Finalize, Unpacked, instance, reading, packing, IInv, TypeOK, WholeInv
<1>6. ASSUME StartExport PROVE WholeInv'
  BY <1>6 DEF StartExport, instance, reading, packing, IInv, TypeOK, WholeInv
<1>7. ASSUME Cancel PROVE WholeInv'
  BY <1>7 DEF Cancel, instance, reading, packing, IInv, TypeOK, WholeInv
<1>8. ASSUME NEW d \in Documents, StatBlob(d) PROVE WholeInv'
  BY <1>8 DEF StatBlob, Unsized, instance, packing, IInv, TypeOK, WholeInv
<1>9. ASSUME NEW d \in Documents, OpenBlob(d) PROVE WholeInv'
  BY <1>9 DEF OpenBlob, Length, Unpacked, instance, reading, NoFile, ReadInv, Tables, IInv,
     TypeOK, WholeInv
<1> QED
  BY <1>1, <1>2, <1>3, <1>4, <1>5, <1>6, <1>7, <1>8, <1>9 DEF Exports

LEMMA StepKeepsWhole == IInv /\ WholeInv /\ [Next]_vars => WholeInv'
<1> SUFFICES ASSUME IInv, WholeInv, [Next]_vars PROVE WholeInv'
  OBVIOUS
<1>1. CASE UNCHANGED vars
  BY <1>1 DEF vars, instance, reading, packing, WholeInv
<1>2. CASE Requests \/ Promotes
  BY <1>2, InstanceWrites, WrittenKeeps
<1>3. CASE StartExport \/ Exports \/ Cancel
  BY <1>3, StepKeeps, ExportWhole
<1> QED BY <1>1, <1>2, <1>3 DEF Next

LEMMA InitHoldsWhole == Init => WholeInv
BY DEF Init, WholeInv, NoFile

\* What the sizes a manifest declares and the bytes a bundle gets have to do with each
\* other at every point (listUploadBlobs, writeBundle).
THEOREM WholeInvariant == Spec => []WholeInv
<1> QED BY ExportInvariant, InitHoldsWhole, StepKeepsWhole, PTL DEF Spec

LEMMA FinishedIsWhole == IInv /\ WholeInv => BundleIsWhole
<1> SUFFICES ASSUME IInv, WholeInv, exp = "finished"
             PROVE  /\ Cardinality(Entries) = Manifest.blobs
                    /\ SumFunction(packed) = Manifest.bytes
                    /\ \A d \in got.documents \intersect Entries : packed[d] = 2
  BY DEF BundleIsWhole
<1>1. /\ size \in [Documents -> 0 .. 2] /\ packed \in [Documents -> 0 .. 2]
      /\ names \subseteq Documents
  BY DEF IInv, TypeOK
<1>2. Entries = names
  BY <1>1 DEF WholeInv, Entries
<1>3. packed = size
  <2>1. \A d \in Documents : packed[d] = size[d]
    BY <1>1 DEF WholeInv
  <2> QED BY <1>1, <2>1
<1>4. \A d \in got.documents \intersect Entries : packed[d] = 2
  BY <1>1 DEF WholeInv, Entries
<1> QED BY <1>2, <1>3, <1>4 DEF Manifest

\* A finished bundle has the entries and the bytes its manifest declares, and no row in
\* it names a half-written blob (tar-stream's size check in writeBundle), although
\* uploads run while the sizes are taken.
THEOREM BundleIsAlwaysWhole == Spec => []BundleIsWhole
<1> QED BY ExportInvariant, WholeInvariant, FinishedIsWhole, PTL

-----------------------------------------------------------------------------
(* Counting, products, and the highest of some numbers.                    *)

\* Counting up from 0 reaches every number.
LEMMA CountingUp ==
  ASSUME NEW B, 0 \in B, \A k \in Nat : k \in B => k + 1 \in B
  PROVE  \A k \in Nat : k \in B
<1> DEFINE C == {k \in Nat : k \notin B}
           R == OpToRel(<, Nat)
<1> SUFFICES ASSUME C # {} PROVE FALSE
  OBVIOUS
<1>1. PICK m \in C : \A c \in C : ~ (<<c, m>> \in R)
  <2>1. C \subseteq Nat
    OBVIOUS
  <2> HIDE DEF C
  <2> QED BY <2>1, WFMin, NatLessThanWellFounded, Zenon
<1>2. \A c, d \in Nat : c < d => <<c, d>> \in R
  BY Zenon DEF OpToRel
<1> HIDE DEF R
<1>3. m \in Nat /\ m # 0 /\ m \notin B
  OBVIOUS
<1>4. m - 1 \in Nat /\ m - 1 < m /\ (m - 1) + 1 = m
  BY <1>3
<1>5. m - 1 \in B
  BY <1>1, <1>2, <1>3, <1>4
<1> QED BY <1>3, <1>4, <1>5

\* Products and quotients.
LEMMA Division ==
  ASSUME NEW a \in Nat, NEW b \in Nat \ {0}
  PROVE  /\ a \div b \in Nat
         /\ (a \div b) * b <= a
         /\ a < (a \div b) * b + b
OBVIOUS

\* A product grows with its factors.
LEMMA Multiples ==
  ASSUME NEW a \in Nat, NEW b \in Nat, NEW c \in Nat
  PROVE  /\ a * c \in Nat
         /\ (a + 1) * c = a * c + c
         /\ (a + b) * c = a * c + b * c
         /\ a <= b => a * c <= b * c
         /\ a < b => a * c + c <= b * c
OBVIOUS

\* The highest of a bounded set of numbers.
LEMMA HighestIsMax ==
  ASSUME NEW T, T \in SUBSET Nat, T # {}, NEW b \in Nat, \A n \in T : n <= b
  PROVE  Max(T) \in T /\ \A n \in T : n <= Max(T)
<1>1. \E x \in T : \A n \in T : n <= x
  <2> SUFFICES ASSUME \A x \in T : \E n \in T : n > x PROVE FALSE
    OBVIOUS
  <2> DEFINE B == {k \in Nat : \E x \in T : x >= k}
  <2>1. 0 \in B
    <3>1. PICK x \in T : TRUE
      OBVIOUS
    <3>2. x \in Nat /\ x >= 0
      BY <3>1
    <3> QED BY <3>1, <3>2
  <2>2. \A k \in Nat : k \in B => k + 1 \in B
    OBVIOUS
  <2>3. \A k \in Nat : k \in B
    <3> HIDE DEF B
    <3> QED BY <2>1, <2>2, CountingUp
  <2>4. b + 1 \in B
    <3> HIDE DEF B
    <3> QED BY <2>3
  <2>5. PICK x \in T : x >= b + 1
    BY <2>4
  <2> QED BY <2>5
<1> QED BY <1>1 DEF Max

-----------------------------------------------------------------------------
(* Sequences flattened (SequencesExt!FlattenSeq).                          *)

\* FlattenSeq goes through its sequences one after the other.
FlattenStep(s, g, i) == IF i = 1 THEN s[i] ELSE g[i - 1] \o s[i]
Flat(s) == CHOOSE g : g = [i \in 1 .. Len(s) |-> FlattenStep(s, g, i)]

\* The library's definition, with its inner function named.
LEMMA FlattenIsFlat ==
  ASSUME NEW s
  PROVE  FlattenSeq(s) = IF Len(s) = 0 THEN s ELSE Flat(s)[Len(s)]
BY DEF FlattenSeq, Flat, FlattenStep

\* That function exists, and its values are sequences.
LEMMA FlatExists ==
  ASSUME NEW S, NEW s \in Seq(Seq(S))
  PROVE  /\ \A k \in 1 .. Len(s) : Flat(s)[k] = FlattenStep(s, Flat(s), k)
         /\ \A k \in 1 .. Len(s) : Flat(s)[k] \in Seq(S)
<1> DEFINE Has(k, g) == g = [i \in 1 .. k |-> FlattenStep(s, g, i)]
           B == {k \in Nat : \E g : Has(k, g)}
<1>0. Len(s) \in Nat /\ \A i \in 1 .. Len(s) : s[i] \in Seq(S)
  OBVIOUS
<1>1. 0 \in B
  <2>1. Has(0, [i \in 1 .. 0 |-> s[i]])
    OBVIOUS
  <2> QED BY <2>1
<1>2. ASSUME NEW k \in Nat, k \in B PROVE k + 1 \in B
  <2>1. PICK h : Has(k, h)
    <3> HIDE DEF Has
    <3> QED BY <1>2
  <2> DEFINE g == [i \in 1 .. k + 1 |-> FlattenStep(s, h, i)]
  <2>2. \A i \in 1 .. k : h[i] = FlattenStep(s, h, i)
    BY <2>1
  <2>3. \A i \in 1 .. k : g[i] = h[i]
    BY <2>2
  <2>4. \A i \in 1 .. k + 1 : i # 1 => i - 1 \in 1 .. k
    OBVIOUS
  <2>5. \A i \in 1 .. k + 1 : FlattenStep(s, g, i) = FlattenStep(s, h, i)
    <3> HIDE DEF g
    <3> QED BY <2>3, <2>4 DEF FlattenStep
  <2>6. Has(k + 1, g)
    BY <2>5
  <2> HIDE DEF g, Has
  <2> QED BY <2>6
<1>3. Len(s) \in B
  <2> HIDE DEF B
  <2> QED BY <1>0, <1>1, <1>2, CountingUp
<1>4. \E g : Has(Len(s), g)
  BY <1>3
<1>5. Has(Len(s), Flat(s))
  BY <1>4 DEF Flat
<1>6. \A k \in 1 .. Len(s) : Flat(s)[k] = FlattenStep(s, Flat(s), k)
  BY <1>5
<1>7. ASSUME NEW k \in 1 .. Len(s) PROVE Flat(s)[k] \in Seq(S)
  <2> DEFINE C == {n \in Nat : n \in 1 .. Len(s) => Flat(s)[n] \in Seq(S)}
  <2>1. 0 \in C
    OBVIOUS
  <2>2. ASSUME NEW n \in Nat, n \in C PROVE n + 1 \in C
    <3> SUFFICES ASSUME n + 1 \in 1 .. Len(s) PROVE Flat(s)[n + 1] \in Seq(S)
      OBVIOUS
    <3>1. CASE n = 0
      BY <1>0, <1>6, <3>1 DEF FlattenStep
    <3>2. CASE n # 0
      <4>1. Flat(s)[n] \in Seq(S) /\ s[n + 1] \in Seq(S) /\ (n + 1) - 1 = n /\ n + 1 # 1
        BY <1>0, <2>2, <3>2
      <4>2. Flat(s)[n + 1] = Flat(s)[n] \o s[n + 1]
        BY <1>6, <4>1 DEF FlattenStep
      <4> QED BY <4>1, <4>2, ConcatProperties
    <3> QED BY <3>1, <3>2
  <2>3. \A n \in Nat : n \in C
    <3> HIDE DEF C
    <3> QED BY <2>1, <2>2, CountingUp
  <2> QED BY <1>0, <2>3
<1> QED BY <1>6, <1>7

\* Nothing flattened is nothing.
LEMMA FlattenEmpty == FlattenSeq(<<>>) = <<>>
BY FlattenIsFlat

\* One sequence more is flattened behind those before it.
LEMMA FlattenAppend ==
  ASSUME NEW S, NEW s \in Seq(Seq(S)), NEW x \in Seq(S)
  PROVE  /\ FlattenSeq(s) \in Seq(S)
         /\ FlattenSeq(Append(s, x)) = FlattenSeq(s) \o x
<1> DEFINE t == Append(s, x)
           n == Len(s)
<1>1. /\ t \in Seq(Seq(S)) /\ n \in Nat /\ Len(t) = n + 1 /\ t[n + 1] = x
      /\ \A i \in 1 .. n : t[i] = s[i]
  BY AppendProperties
<1> HIDE DEF t
<1>2. /\ \A i \in 1 .. n : Flat(s)[i] = FlattenStep(s, Flat(s), i) /\ Flat(s)[i] \in Seq(S)
      /\ \A i \in 1 .. n + 1 : Flat(t)[i] = FlattenStep(t, Flat(t), i)
  <2>1. \A i \in 1 .. n : Flat(s)[i] = FlattenStep(s, Flat(s), i) /\ Flat(s)[i] \in Seq(S)
    BY FlatExists
  <2>2. \A i \in 1 .. Len(t) : Flat(t)[i] = FlattenStep(t, Flat(t), i)
    BY <1>1, FlatExists
  <2> QED BY <1>1, <2>1, <2>2
<1>3. \A k \in 1 .. n : Flat(t)[k] = Flat(s)[k]
  <2> DEFINE B == {k \in Nat : k \in 1 .. n => Flat(t)[k] = Flat(s)[k]}
  <2>1. 0 \in B
    OBVIOUS
  <2>2. ASSUME NEW k \in Nat, k \in B PROVE k + 1 \in B
    <3> SUFFICES ASSUME k + 1 \in 1 .. n PROVE Flat(t)[k + 1] = Flat(s)[k + 1]
      OBVIOUS
    <3>1. /\ Flat(t)[k + 1] = FlattenStep(t, Flat(t), k + 1)
          /\ Flat(s)[k + 1] = FlattenStep(s, Flat(s), k + 1)
          /\ t[k + 1] = s[k + 1]
      BY <1>1, <1>2
    <3>2. k # 0 => Flat(t)[k] = Flat(s)[k]
      BY <1>1, <2>2
    <3>3. (k + 1) - 1 = k /\ (k = 0 <=> k + 1 = 1)
      OBVIOUS
    <3> QED BY <3>1, <3>2, <3>3 DEF FlattenStep
  <2> HIDE DEF B
  <2>3. \A k \in Nat : k \in B
    BY <2>1, <2>2, CountingUp
  <2> QED BY <2>3 DEF B
<1>4. FlattenSeq(t) = FlattenStep(t, Flat(t), n + 1)
  <2>1. FlattenSeq(t) = Flat(t)[n + 1]
    BY <1>1, FlattenIsFlat
  <2> QED BY <1>1, <1>2, <2>1
<1>5. CASE n = 0
  <2>1. s = <<>> /\ FlattenSeq(s) = <<>>
    BY <1>5, EmptySeq, FlattenEmpty
  <2>2. FlattenSeq(t) = x
    BY <1>1, <1>4, <1>5 DEF FlattenStep
  <2>3. <<>> \o x = x /\ <<>> \in Seq(S)
    BY ConcatEmptySeq
  <2> QED BY <2>1, <2>2, <2>3 DEF t
<1>6. CASE n # 0
  <2>1. FlattenSeq(s) = Flat(s)[n] /\ n \in 1 .. n
    BY <1>1, <1>6, FlattenIsFlat
  <2>2. (n + 1) - 1 = n /\ n + 1 # 1
    BY <1>1, <1>6
  <2>3. FlattenSeq(t) = Flat(t)[n] \o x
    BY <1>1, <1>4, <2>2 DEF FlattenStep
  <2>4. FlattenSeq(t) = FlattenSeq(s) \o x
    BY <1>3, <2>1, <2>3
  <2> QED BY <1>2, <2>1, <2>4 DEF t
<1> QED BY <1>1, <1>5, <1>6

-----------------------------------------------------------------------------
(* What lies where in sequences flattened.                                 *)

\* What lies where in two sequences joined.
LEMMA Joined ==
  ASSUME NEW S, NEW a \in Seq(S), NEW b \in Seq(S)
  PROVE  /\ a \o b \in Seq(S) /\ Len(a) \in Nat /\ Len(b) \in Nat
         /\ Len(a \o b) = Len(a) + Len(b)
         /\ Len(a) <= Len(a \o b)
         /\ \A i \in 1 .. Len(a) : (a \o b)[i] = a[i]
         /\ \A i \in 1 .. Len(b) : (a \o b)[Len(a) + i] = b[i]
<1>1. Len(a) \in Nat /\ Len(b) \in Nat
  BY LenProperties
<1>2. /\ a \o b \in Seq(S) /\ Len(a \o b) = Len(a) + Len(b)
      /\ \A i \in 1 .. Len(a) + Len(b) : (a \o b)[i] =
           IF i <= Len(a) THEN a[i] ELSE b[i - Len(a)]
  BY ConcatProperties
<1>3. \A i \in 1 .. Len(b) : /\ Len(a) + i \in 1 .. Len(a) + Len(b)
                             /\ ~(Len(a) + i <= Len(a)) /\ (Len(a) + i) - Len(a) = i
  BY <1>1
<1>4. \A i \in 1 .. Len(b) : (a \o b)[Len(a) + i] = b[i]
  BY <1>2, <1>3
<1>5. \A i \in 1 .. Len(a) : i \in 1 .. Len(a) + Len(b) /\ i <= Len(a)
  BY <1>1
<1> QED BY <1>1, <1>2, <1>4, <1>5

\* Sequences over S, n of them.
AllSeqs(f, n, S) == \A i \in 1 .. n : f[i] \in Seq(S)

\* The first k of some sequences flattened.
Upto(f, k) == FlattenSeq([i \in 1 .. k |-> f[i]])

\* The first k + 1 flattened are the first k flattened and the next.
LEMMA UptoSteps ==
  ASSUME NEW S, NEW n \in Nat, NEW f, AllSeqs(f, n, S)
  PROVE  /\ Upto(f, 0) = <<>>
         /\ \A k \in 0 .. n : Upto(f, k) \in Seq(S) /\ Len(Upto(f, k)) \in Nat
         /\ \A k \in 0 .. n : k < n =>
              /\ Upto(f, k + 1) = Upto(f, k) \o f[k + 1]
              /\ Len(Upto(f, k + 1)) = Len(Upto(f, k)) + Len(f[k + 1])
<1>0. \A i \in 1 .. n : f[i] \in Seq(S)
  BY DEF AllSeqs
<1> USE <1>0
<1> DEFINE part(k) == [i \in 1 .. k |-> f[i]]
<1>1. part(0) = <<>>
  OBVIOUS
<1>2. \A k \in 0 .. n : part(k) \in Seq(Seq(S))
  OBVIOUS
<1>3. ASSUME NEW k \in 0 .. n, k < n PROVE part(k + 1) = Append(part(k), f[k + 1])
  <2>1. Len(part(k)) = k /\ f[k + 1] \in Seq(S)
    BY <1>3
  <2>2. part(k) \in Seq(Seq(S)) /\ part(k + 1) \in Seq(Seq(S))
    BY <1>2, <1>3
  <2>3. /\ Append(part(k), f[k + 1]) \in Seq(Seq(S))
        /\ Len(Append(part(k), f[k + 1])) = k + 1
        /\ \A i \in 1 .. k : Append(part(k), f[k + 1])[i] = part(k)[i]
        /\ Append(part(k), f[k + 1])[k + 1] = f[k + 1]
    <3> HIDE DEF part
    <3> QED BY <2>1, <2>2, AppendProperties
  <2>4. Len(part(k + 1)) = k + 1 /\ \A i \in 1 .. k + 1 : part(k + 1)[i] = f[i]
    BY <1>3
  <2>5. \A i \in 1 .. k : part(k)[i] = f[i]
    OBVIOUS
  <2> HIDE DEF part
  <2>6. \A i \in 1 .. k + 1 : part(k + 1)[i] = Append(part(k), f[k + 1])[i]
    BY <2>3, <2>4, <2>5
  <2> QED BY <2>2, <2>3, <2>4, <2>6, SeqEqual
<1>4. \A k \in 0 .. n : Upto(f, k) = FlattenSeq(part(k))
  BY DEF Upto
<1>5. f[1] \in Seq(S) \/ n = 0
  OBVIOUS
<1> HIDE DEF part
<1>6. \A k \in 0 .. n : Upto(f, k) \in Seq(S)
  BY <1>2, <1>4, FlattenAppend, EmptySeq
<1>7. Upto(f, 0) = <<>>
  BY <1>1, <1>4, FlattenEmpty
<1>8. ASSUME NEW k \in 0 .. n, k < n
      PROVE  /\ Upto(f, k + 1) = Upto(f, k) \o f[k + 1]
             /\ Len(Upto(f, k + 1)) = Len(Upto(f, k)) + Len(f[k + 1])
  <2>1. k + 1 \in 0 .. n /\ f[k + 1] \in Seq(S)
    BY <1>8
  <2>2. Upto(f, k + 1) = Upto(f, k) \o f[k + 1]
    BY <1>2, <1>3, <1>4, <1>8, <2>1, FlattenAppend
  <2> QED BY <1>6, <2>1, <2>2, ConcatProperties
<1> QED BY <1>6, <1>7, <1>8, LenProperties

\* They are a beginning of those flattened later, and each comes where they end.
LEMMA UptoGrows ==
  ASSUME NEW S, NEW n \in Nat, NEW f, AllSeqs(f, n, S), NEW k \in 0 .. n
  PROVE  \A m \in k .. n : /\ Upto(f, m) \in Seq(S)
                           /\ Len(Upto(f, k)) <= Len(Upto(f, m))
                           /\ \A i \in 1 .. Len(Upto(f, k)) : Upto(f, m)[i] = Upto(f, k)[i]
<1>0. \A i \in 1 .. n : f[i] \in Seq(S)
  BY DEF AllSeqs
<1> USE <1>0
<1> DEFINE Grows(m) == /\ Len(Upto(f, k)) <= Len(Upto(f, m))
                       /\ \A i \in 1 .. Len(Upto(f, k)) : Upto(f, m)[i] = Upto(f, k)[i]
           B == {d \in Nat : k + d <= n => Grows(k + d)}
<1>1. 0 \in B
  BY UptoSteps
<1>2. ASSUME NEW d \in Nat, d \in B PROVE d + 1 \in B
  <2> SUFFICES ASSUME k + (d + 1) <= n PROVE Grows(k + (d + 1))
    OBVIOUS
  <2>1. PICK q \in 0 .. n : q = k + d /\ q < n /\ k + (d + 1) = q + 1 /\ Grows(q)
    BY <1>2
  <2>2. /\ Upto(f, q + 1) = Upto(f, q) \o f[q + 1]
        /\ Upto(f, q) \in Seq(S) /\ Len(Upto(f, k)) \in Nat /\ Len(Upto(f, q)) \in Nat
    BY <2>1, UptoSteps
  <2>3. f[q + 1] \in Seq(S)
    BY <2>1
  <2>4. /\ Len(Upto(f, q)) <= Len(Upto(f, q + 1))
        /\ \A i \in 1 .. Len(Upto(f, q)) : Upto(f, q + 1)[i] = Upto(f, q)[i]
        /\ Len(Upto(f, q + 1)) \in Nat
    <3>1. PICK a \in Seq(S), b \in Seq(S) : a = Upto(f, q) /\ b = f[q + 1]
      BY <2>2, <2>3
    <3>2. /\ Len(a) <= Len(a \o b) /\ a \o b \in Seq(S)
          /\ \A i \in 1 .. Len(a) : (a \o b)[i] = a[i]
      BY Joined
    <3>3. Upto(f, q + 1) = a \o b
      BY <2>2, <3>1
    <3>4. Len(a \o b) \in Nat
      BY <3>2, LenProperties
    <3> QED BY <3>1, <3>2, <3>3, <3>4, Zenon
  <2>5. Grows(q + 1)
    BY <2>1, <2>2, <2>4
  <2> QED BY <2>1, <2>5
<1>3. \A d \in Nat : d \in B
  <2> HIDE DEF B
  <2> QED BY <1>1, <1>2, CountingUp
<1>4. ASSUME NEW m \in k .. n PROVE Grows(m)
  <2>1. m - k \in Nat /\ k + (m - k) = m /\ m <= n
    OBVIOUS
  <2>2. m - k \in B
    <3> HIDE DEF B
    <3> QED BY <1>3, <2>1
  <2> QED BY <2>1, <2>2
<1> QED BY <1>4, UptoSteps

\* Sequence p lies in s behind its first c elements.
LiesAt(p, s, c) == c + Len(p) <= Len(s) /\ \A i \in 1 .. Len(p) : s[c + i] = p[i]

\* Each sequence lies where those before it end.
LEMMA UptoAt ==
  ASSUME NEW S, NEW n \in Nat, NEW f, AllSeqs(f, n, S),
         NEW k \in 0 .. n, NEW m \in k .. n, k < m
  PROVE  LiesAt(f[k + 1], Upto(f, m), Len(Upto(f, k)))
<1>0. \A i \in 1 .. n : f[i] \in Seq(S)
  BY DEF AllSeqs
<1> USE <1>0
<1>1. k < n /\ k + 1 \in 0 .. n /\ m \in k + 1 .. n /\ f[k + 1] \in Seq(S)
  OBVIOUS
<1>2. /\ Upto(f, k + 1) = Upto(f, k) \o f[k + 1] /\ Upto(f, k) \in Seq(S)
      /\ Len(Upto(f, k)) \in Nat
  BY <1>1, UptoSteps
<1>3. /\ Len(f[k + 1]) \in Nat
      /\ Len(Upto(f, k + 1)) = Len(Upto(f, k)) + Len(f[k + 1])
      /\ \A i \in 1 .. Len(f[k + 1]) : Upto(f, k + 1)[Len(Upto(f, k)) + i] = f[k + 1][i]
  BY <1>1, <1>2, Joined
<1>4. /\ Len(Upto(f, k + 1)) <= Len(Upto(f, m))
      /\ \A i \in 1 .. Len(Upto(f, k + 1)) : Upto(f, m)[i] = Upto(f, k + 1)[i]
  <2>1. PICK q \in 0 .. n : q = k + 1 /\ m \in q .. n
    BY <1>1
  <2>2. \A j \in q .. n : /\ Upto(f, j) \in Seq(S)
                          /\ Len(Upto(f, q)) <= Len(Upto(f, j))
                          /\ \A i \in 1 .. Len(Upto(f, q)) : Upto(f, j)[i] = Upto(f, q)[i]
    BY UptoGrows
  <2> QED BY <2>1, <2>2
<1>5. \A i \in 1 .. Len(f[k + 1]) : Len(Upto(f, k)) + i \in 1 .. Len(Upto(f, k + 1))
  BY <1>2, <1>3
<1> QED BY <1>3, <1>4, <1>5 DEF LiesAt

\* Longer sequences are longer flattened.
LEMMA UptoLens ==
  ASSUME NEW S, NEW T, NEW n \in Nat, NEW f, AllSeqs(f, n, S),
         NEW g, AllSeqs(g, n, T),
         \A i \in 1 .. n : Len(f[i]) <= Len(g[i])
  PROVE  \A k \in 0 .. n : Len(Upto(f, k)) <= Len(Upto(g, k))
<1>00. \A i \in 1 .. n : g[i] \in Seq(T)
  BY DEF AllSeqs
<1> USE <1>00
<1>0. \A i \in 1 .. n : f[i] \in Seq(S)
  BY DEF AllSeqs
<1> USE <1>0
<1> DEFINE B == {k \in Nat : k <= n => Len(Upto(f, k)) <= Len(Upto(g, k))}
<1>1. 0 \in B
  <2>1. Upto(f, 0) = <<>>
    BY UptoSteps
  <2>2. Upto(g, 0) = <<>>
    BY UptoSteps
  <2>3. Len(<<>>) <= Len(<<>>)
    OBVIOUS
  <2> QED BY <2>1, <2>2, <2>3
<1>2. ASSUME NEW k \in Nat, k \in B PROVE k + 1 \in B
  <2> SUFFICES ASSUME k + 1 <= n PROVE Len(Upto(f, k + 1)) <= Len(Upto(g, k + 1))
    OBVIOUS
  <2>1. k \in 0 .. n /\ k < n /\ k + 1 \in 1 .. n
    OBVIOUS
  <2>2. /\ Len(Upto(f, k + 1)) = Len(Upto(f, k)) + Len(f[k + 1])
        /\ Len(Upto(f, k)) \in Nat
    BY <2>1, UptoSteps
  <2>3. /\ Len(Upto(g, k + 1)) = Len(Upto(g, k)) + Len(g[k + 1])
        /\ Len(Upto(g, k)) \in Nat
    BY <2>1, UptoSteps
  <2>4. Len(f[k + 1]) \in Nat /\ Len(g[k + 1]) \in Nat /\ Len(f[k + 1]) <= Len(g[k + 1])
    BY <2>1, LenProperties
  <2> QED BY <1>2, <2>1, <2>2, <2>3, <2>4
<1>3. \A k \in Nat : k \in B
  <2> HIDE DEF B
  <2> QED BY <1>1, <1>2, CountingUp
<1> QED BY <1>3

\* All of them flattened.
LEMMA FlattenIsUpto ==
  ASSUME NEW S, NEW s \in Seq(Seq(S))
  PROVE  FlattenSeq(s) = Upto(s, Len(s)) /\ Len(s) \in Nat /\ AllSeqs(s, Len(s), S)
<1>1. [i \in 1 .. Len(s) |-> s[i]] = s
  BY LenProperties
<1>2. \A i \in 1 .. Len(s) : s[i] \in Seq(S)
  BY ElementOfSeq
<1> QED BY <1>1, <1>2, LenProperties DEF Upto, AllSeqs

\* It depends on nothing but the first k.
LEMMA UptoSame ==
  ASSUME NEW f, NEW g, NEW k \in Nat, \A i \in 1 .. k : f[i] = g[i]
  PROVE  Upto(f, k) = Upto(g, k)
<1>1. [i \in 1 .. k |-> f[i]] = [i \in 1 .. k |-> g[i]]
  OBVIOUS
<1> QED BY <1>1 DEF Upto

-----------------------------------------------------------------------------
(* The tar stream of a bundle.                                             *)

\* A bundle and what it declares are typed.
LEMMA BundleFacts ==
  ASSUME bundle \in Bundles
  PROVE  /\ bundle.version \in Nat /\ bundle.blobs \in Nat /\ bundle.bytes \in Nat
         /\ Len(bundle.entries) \in Nat /\ Len(bundle.entries) >= 2
         /\ \A e \in 1 .. Len(bundle.entries) : bundle.entries[e].size \in Nat
         /\ bundle.entries[1].name = "manifest.json" /\ bundle.entries[1].size = 1
         /\ bundle.entries[2].name = "db.ndjson" /\ bundle.entries[2].size > 0
         /\ \A e \in 3 .. Len(bundle.entries) : bundle.entries[e].name = "blob"
<1>1. /\ bundle.version \in Nat /\ bundle.blobs \in Nat /\ bundle.bytes \in Nat
      /\ bundle.entries \in Seq([name : {"manifest.json", "db.ndjson", "blob"}, size : Nat])
      /\ Len(bundle.entries) >= 2
      /\ bundle.entries[1] = [name |-> "manifest.json", size |-> 1]
      /\ bundle.entries[2].name = "db.ndjson" /\ bundle.entries[2].size > 0
      /\ \A e \in 3 .. Len(bundle.entries) : bundle.entries[e].name = "blob"
  BY StreamAssumption
<1>2. Len(bundle.entries) \in Nat
  BY <1>1, LenProperties
<1>3. \A e \in 1 .. Len(bundle.entries) : bundle.entries[e].size \in Nat
  <2> TAKE e \in 1 .. Len(bundle.entries)
  <2>1. bundle.entries[e] \in [name : {"manifest.json", "db.ndjson", "blob"}, size : Nat]
    BY <1>1, ElementOfSeq
  <2> QED BY <2>1
<1> QED BY <1>1, <1>2, <1>3


\* The entries of the bundle, one after the other.
Laid == [e \in 1 .. Len(bundle.entries) |-> EntryCells(bundle, e)]

\* The cells of an entry: its header, then its content in order.
LEMMA EntryFacts ==
  ASSUME bundle \in Bundles
  PROVE  /\ AllSeqs(Laid, Len(bundle.entries), PlainCell)
         /\ \A e \in 1 .. Len(bundle.entries) :
              /\ Laid[e] \in Seq(PlainCell)
              /\ Len(Laid[e]) = bundle.entries[e].size + 1
              /\ \A i \in 1 .. bundle.entries[e].size + 1 : Laid[e][i] = [e |-> e, i |-> i - 1]
<1>1. ASSUME NEW e \in 1 .. Len(bundle.entries)
      PROVE /\ Laid[e] \in Seq(PlainCell)
            /\ Len(Laid[e]) = bundle.entries[e].size + 1
            /\ \A i \in 1 .. bundle.entries[e].size + 1 : Laid[e][i] = [e |-> e, i |-> i - 1]
  <2>1. bundle.entries[e].size \in Nat /\ e \in Nat
    BY BundleFacts
  <2>2. PICK s \in Nat : s = bundle.entries[e].size
    BY <2>1
  <2>3. Laid[e] = [i \in 1 .. s + 1 |-> [e |-> e, i |-> i - 1]]
    BY <2>2 DEF Laid, EntryCells
  <2>4. \A i \in 1 .. s + 1 : [e |-> e, i |-> i - 1] \in PlainCell
    BY <2>1 DEF PlainCell
  <2>5. [i \in 1 .. s + 1 |-> [e |-> e, i |-> i - 1]] \in Seq(PlainCell)
    BY <2>2, <2>4
  <2>6. Len([i \in 1 .. s + 1 |-> [e |-> e, i |-> i - 1]]) = s + 1
    BY <2>2
  <2> QED BY <2>2, <2>3, <2>5, <2>6
<1> QED BY <1>1 DEF AllSeqs

\* The cells up to an entry are the entries before it flattened.
LEMMA CellsAreUpto ==
  ASSUME bundle \in Bundles
  PROVE  /\ \A k \in 0 .. Len(bundle.entries) : CellsUpTo(k) = Len(Upto(Laid, k))
         /\ Tar(bundle) = Upto(Laid, Len(bundle.entries)) \o <<[e |-> 0, i |-> 0]>>
<1>1. ASSUME NEW k \in 0 .. Len(bundle.entries)
      PROVE  [e \in 1 .. k |-> EntryCells(bundle, e)] = [e \in 1 .. k |-> Laid[e]]
  BY BundleFacts DEF Laid
<1>2. \A k \in 0 .. Len(bundle.entries) : CellsUpTo(k) = Len(Upto(Laid, k))
  BY <1>1 DEF CellsUpTo, Upto
<1>3. Len(bundle.entries) \in 0 .. Len(bundle.entries)
  BY BundleFacts
<1> QED BY <1>1, <1>2, <1>3 DEF Tar, Upto

\* The cells of the entries add up.
LEMMA CellsAddUp ==
  ASSUME bundle \in Bundles
  PROVE  /\ CellsUpTo(0) = 0
         /\ \A k \in 0 .. Len(bundle.entries) : CellsUpTo(k) \in Nat
         /\ \A e \in 1 .. Len(bundle.entries) :
              /\ CellsUpTo(e) = CellsUpTo(e - 1) + bundle.entries[e].size + 1
              /\ CellsUpTo(e) <= CellsUpTo(Len(bundle.entries))
<1> DEFINE n == Len(bundle.entries)
<1>0. n \in Nat /\ n >= 2
  BY BundleFacts
<1>1. /\ Upto(Laid, 0) = <<>>
      /\ \A k \in 0 .. n : Len(Upto(Laid, k)) \in Nat
      /\ \A k \in 0 .. n : k < n => Len(Upto(Laid, k + 1)) = Len(Upto(Laid, k)) + Len(Laid[k + 1])
  BY <1>0, EntryFacts, UptoSteps
<1>2. CellsUpTo(0) = 0
  BY <1>0, <1>1, CellsAreUpto, EmptySeq
<1>3. ASSUME NEW e \in 1 .. n
      PROVE  CellsUpTo(e) = CellsUpTo(e - 1) + bundle.entries[e].size + 1
  <2>1. PICK k \in 0 .. n : k = e - 1 /\ k < n /\ k + 1 = e /\ e \in 0 .. n
    BY <1>0
  <2>2. Len(Upto(Laid, e)) = Len(Upto(Laid, k)) + Len(Laid[e])
    BY <1>1, <2>1
  <2>3. Len(Laid[e]) = bundle.entries[e].size + 1 /\ bundle.entries[e].size \in Nat
    BY EntryFacts, BundleFacts
  <2>4. CellsUpTo(e) = Len(Upto(Laid, e)) /\ CellsUpTo(k) = Len(Upto(Laid, k))
    BY <2>1, CellsAreUpto
  <2>5. Len(Upto(Laid, k)) \in Nat
    BY <1>1
  <2>6. CellsUpTo(e) = CellsUpTo(k) + bundle.entries[e].size + 1
    <3>1. PICK z \in Nat, c \in Nat : z = bundle.entries[e].size /\ c = Len(Upto(Laid, k))
      BY <2>3, <2>5
    <3>2. Len(Upto(Laid, e)) = c + (z + 1)
      BY <2>2, <2>3, <3>1
    <3> QED BY <2>4, <3>1, <3>2
  <2>7. e - 1 = k
    BY <2>1
  <2> QED BY <2>6, <2>7
<1>4. ASSUME NEW e \in 1 .. n PROVE CellsUpTo(e) <= CellsUpTo(n)
  <2>1. e \in 0 .. n /\ n \in e .. n /\ n \in 0 .. n
    BY <1>0
  <2>2. Len(Upto(Laid, e)) <= Len(Upto(Laid, n))
    BY <1>0, <2>1, EntryFacts, UptoGrows
  <2> QED BY <2>1, <2>2, CellsAreUpto
<1> QED BY <1>1, <1>2, <1>3, <1>4, CellsAreUpto

\* The tar: a header before the cells of each entry, and the end.
LEMMA TarCells ==
  ASSUME bundle \in Bundles
  PROVE  /\ Tar(bundle) \in Seq(PlainCell)
         /\ Len(Tar(bundle)) = CellsUpTo(Len(bundle.entries)) + 1
         /\ Tar(bundle)[CellsUpTo(Len(bundle.entries)) + 1] = [e |-> 0, i |-> 0]
         /\ \A k \in 0 .. Len(bundle.entries) : k < Len(bundle.entries) =>
              Tar(bundle)[CellsUpTo(k) + 1] = [e |-> k + 1, i |-> 0]
         /\ \A e \in 1 .. Len(bundle.entries) : \A l \in 1 .. bundle.entries[e].size :
              Tar(bundle)[CellsUpTo(e) - l + 1] =
                [e |-> e, i |-> bundle.entries[e].size - l + 1]
<1> DEFINE n == Len(bundle.entries)
           U == Upto(Laid, n)
           E == <<[e |-> 0, i |-> 0]>>
<1>0. n \in Nat /\ n >= 2 /\ n \in 0 .. n
  BY BundleFacts
<1>1. E \in Seq(PlainCell) /\ Len(E) = 1 /\ E[1] = [e |-> 0, i |-> 0]
  BY DEF PlainCell
<1>2. U \in Seq(PlainCell)
  BY <1>0, EntryFacts, UptoSteps
<1>3. Tar(bundle) = U \o E /\ Len(U) = CellsUpTo(n)
  BY <1>0, CellsAreUpto
<1>4. /\ Tar(bundle) \in Seq(PlainCell) /\ Len(U) \in Nat
      /\ Len(Tar(bundle)) = CellsUpTo(n) + 1
      /\ \A i \in 1 .. Len(U) : Tar(bundle)[i] = U[i]
      /\ Tar(bundle)[CellsUpTo(n) + 1] = [e |-> 0, i |-> 0]
  <2> HIDE DEF U, E
  <2>1. /\ U \o E \in Seq(PlainCell) /\ Len(U) \in Nat
        /\ Len(U \o E) = Len(U) + Len(E)
        /\ \A i \in 1 .. Len(U) : (U \o E)[i] = U[i]
        /\ \A i \in 1 .. Len(E) : (U \o E)[Len(U) + i] = E[i]
    BY <1>1, <1>2, Joined
  <2>2. 1 \in 1 .. Len(E)
    BY <1>1
  <2> QED BY <1>1, <1>3, <2>1, <2>2
<1>5. ASSUME NEW k \in 0 .. n, k < n, NEW i \in 1 .. bundle.entries[k + 1].size + 1
      PROVE  Tar(bundle)[CellsUpTo(k) + i] = [e |-> k + 1, i |-> i - 1]
  <2>1. k + 1 \in 1 .. n /\ n \in k .. n
    BY <1>0, <1>5
  <2>2. /\ Len(Laid[k + 1]) = bundle.entries[k + 1].size + 1
        /\ Laid[k + 1][i] = [e |-> k + 1, i |-> i - 1]
        /\ bundle.entries[k + 1].size \in Nat
    BY <2>1, EntryFacts, BundleFacts
  <2>3. /\ Len(Upto(Laid, k)) + Len(Laid[k + 1]) <= Len(U)
        /\ \A j \in 1 .. Len(Laid[k + 1]) : U[Len(Upto(Laid, k)) + j] = Laid[k + 1][j]
    <3>1. AllSeqs(Laid, n, PlainCell) /\ k < n /\ n \in Nat
      BY <1>0, <1>5, EntryFacts
    <3>2. LiesAt(Laid[k + 1], U, Len(Upto(Laid, k)))
      BY <2>1, <3>1, UptoAt
    <3> QED BY <3>2 DEF LiesAt
  <2>4. Len(Upto(Laid, k)) = CellsUpTo(k) /\ CellsUpTo(k) \in Nat
    BY CellsAreUpto, CellsAddUp
  <2>5. U[CellsUpTo(k) + i] = Laid[k + 1][i] /\ CellsUpTo(k) + i <= Len(U)
    <3>1. i \in 1 .. Len(Laid[k + 1]) /\ i <= Len(Laid[k + 1])
      BY <2>2
    <3>2. PICK c \in Nat, z \in Nat : c = CellsUpTo(k) /\ z = Len(Laid[k + 1])
      BY <2>2, <2>4
    <3>3. U[c + i] = Laid[k + 1][i] /\ c + z <= Len(U)
      BY <2>3, <2>4, <3>1, <3>2
    <3> HIDE DEF U
    <3>4. c + i <= Len(U)
      BY <1>4, <3>1, <3>2, <3>3
    <3> QED BY <3>2, <3>3, <3>4
  <2> HIDE DEF U
  <2>6. CellsUpTo(k) + i \in 1 .. Len(U)
    BY <1>4, <2>2, <2>4, <2>5
  <2> QED BY <1>4, <2>2, <2>5, <2>6
<1>6. ASSUME NEW k \in 0 .. n, k < n PROVE Tar(bundle)[CellsUpTo(k) + 1] = [e |-> k + 1, i |-> 0]
  <2>1. k + 1 \in 1 .. n
    BY <1>0, <1>6
  <2>2. 1 \in 1 .. bundle.entries[k + 1].size + 1 /\ 1 - 1 = 0
    BY <2>1, BundleFacts
  <2> QED BY <1>5, <1>6, <2>2
<1>7. ASSUME NEW e \in 1 .. n, NEW l \in 1 .. bundle.entries[e].size
      PROVE  Tar(bundle)[CellsUpTo(e) - l + 1] = [e |-> e, i |-> bundle.entries[e].size - l + 1]
  <2>1. PICK k \in 0 .. n : k = e - 1 /\ k < n /\ k + 1 = e
    BY <1>0
  <2>2. bundle.entries[e].size \in Nat
    BY BundleFacts
  <2>3. PICK i \in 1 .. bundle.entries[e].size + 1 : i = bundle.entries[e].size + 2 - l
    BY <2>2
  <2>4. CellsUpTo(e) = CellsUpTo(k) + bundle.entries[e].size + 1 /\ CellsUpTo(k) \in Nat
    BY <2>1, CellsAddUp
  <2>5. Tar(bundle)[CellsUpTo(k) + i] = [e |-> e, i |-> i - 1]
    BY <1>5, <2>1
  <2>6. CellsUpTo(k) + i = CellsUpTo(e) - l + 1
    <3>1. PICK z \in Nat, c \in Nat : z = bundle.entries[e].size /\ c = CellsUpTo(k)
      BY <2>2, <2>4
    <3>2. CellsUpTo(e) = c + z + 1 /\ i = z + 2 - l
      BY <2>3, <2>4, <3>1
    <3>3. c + (z + 2 - l) = (c + z + 1) - l + 1
      OBVIOUS
    <3> QED BY <3>1, <3>2, <3>3
  <2>7. i - 1 = bundle.entries[e].size - l + 1
    BY <2>2, <2>3
  <2> QED BY <2>5, <2>6, <2>7
<1> QED BY <1>4, <1>6, <1>7

-----------------------------------------------------------------------------
(* Its chunks.                                                             *)

\* How many full chunks a plaintext makes.
LEMMA FullFacts ==
  ASSUME NEW p \in Seq(PlainCell)
  PROVE  /\ Full(p) \in Nat /\ Len(p) \in Nat
         /\ Full(p) * Chunk \in Nat
         /\ Full(p) * Chunk <= Len(p)
         /\ Len(p) < Full(p) * Chunk + Chunk
         /\ Chunk \in Nat /\ Chunk >= 1
<1>1. Len(p) \in Nat /\ Chunk \in Nat \ {0}
  BY StreamAssumption, LenProperties
<1>2. Full(p) \in Nat /\ Full(p) * Chunk <= Len(p) /\ Len(p) < Full(p) * Chunk + Chunk
  BY <1>1, Division DEF Full
<1>3. Full(p) * Chunk \in Nat
  BY <1>1, <1>2, Multiples
<1> QED BY <1>1, <1>2, <1>3

\* A chunk of a plaintext continues the chunks before it; the final one ends it.
LEMMA ChunkFacts ==
  ASSUME NEW p \in Seq(PlainCell), NEW q \in Nat, q <= Full(p)
  PROVE  /\ ChunkOf(p, q + 1) \in Seq(PlainCell)
         /\ q * Chunk \in Nat /\ q * Chunk <= Len(p)
         /\ q < Full(p) => /\ Len(ChunkOf(p, q + 1)) = Chunk
                           /\ (q + 1) * Chunk <= Len(p)
                           /\ SubSeq(p, 1, q * Chunk) \o ChunkOf(p, q + 1)
                                = SubSeq(p, 1, (q + 1) * Chunk)
         /\ q = Full(p) => /\ Len(ChunkOf(p, q + 1)) = Len(p) - q * Chunk
                           /\ Len(ChunkOf(p, q + 1)) < Chunk
                           /\ SubSeq(p, 1, q * Chunk) \o ChunkOf(p, q + 1) = p
<1>1. PICK N \in Nat, F \in Nat, C \in Nat : N = Len(p) /\ F = Full(p) /\ C = Chunk /\ C >= 1
  BY FullFacts
<1>2. PICK x \in Nat : x = q * C
  BY Multiples
<1>3. (q + 1) * C = x + C /\ x <= N
  <2>1. (q + 1) * C = x + C
    BY <1>2, Multiples
  <2>2. q * C <= F * C
    BY <1>1, Multiples
  <2>3. F * C <= N /\ F * C \in Nat
    BY <1>1, FullFacts
  <2> QED BY <1>2, <2>1, <2>2, <2>3
<1>4. \A i \in 1 .. N : p[i] \in PlainCell
  BY <1>1, ElementOfSeq
<1>5. /\ ChunkOf(p, q + 1) =
           SubSeq(p, x + 1, IF q + 1 <= F THEN x + C ELSE N)
      /\ q * Chunk = x /\ (q + 1) * Chunk = x + C
  <2>1. (q + 1) - 1 = q
    OBVIOUS
  <2>2. ChunkOf(p, q + 1) = SubSeq(p, q * C + 1, IF q + 1 <= F THEN (q + 1) * C ELSE N)
    BY <1>1, <2>1, Zenon DEF ChunkOf
  <2> QED BY <1>1, <1>2, <1>3, <2>2, Zenon
<1>6. CASE q < F
  <2>1. x + C <= N
    <3>1. q * C + C <= F * C
      BY <1>6, Multiples
    <3>2. F * C <= N /\ F * C \in Nat
      BY <1>1, FullFacts
    <3> QED BY <1>2, <3>1, <3>2
  <2>2. ChunkOf(p, q + 1) = SubSeq(p, x + 1, x + C)
    <3>1. q + 1 <= F
      BY <1>6
    <3> QED BY <1>5, <3>1
  <2>3. \A i \in x + 1 .. x + C : p[i] \in PlainCell
    BY <1>4, <2>1
  <2>4. /\ SubSeq(p, x + 1, x + C) \in Seq(PlainCell)
        /\ Len(SubSeq(p, x + 1, x + C)) = IF x + 1 <= x + C THEN x + C - (x + 1) + 1 ELSE 0
    BY <2>3, SubSeqProperties
  <2>5. Len(SubSeq(p, x + 1, x + C)) = C
    BY <1>1, <2>4
  <2>6. SubSeq(p, 1, x) \o SubSeq(p, x + 1, x + C) = SubSeq(p, 1, x + C)
    <3>1. 1 \in 1 .. Len(p) + 1 /\ x \in 1 - 1 .. Len(p) /\ x + C \in x .. Len(p)
      BY <1>1, <1>3, <2>1
    <3> QED BY <3>1, ConcatAdjacentSubSeq
  <2>7. q * Chunk \in Nat /\ q * Chunk <= Len(p) /\ (q + 1) * Chunk <= Len(p)
    BY <1>1, <1>2, <1>3, <1>5, <2>1
  <2>8. q < Full(p) /\ q # Full(p)
    BY <1>1, <1>6
  <2> QED BY <1>1, <1>5, <2>2, <2>4, <2>5, <2>6, <2>7, <2>8, Zenon
<1>7. CASE q = F
  <2>1. N < x + C
    BY <1>1, <1>2, <1>7, FullFacts
  <2>2. ChunkOf(p, q + 1) = SubSeq(p, x + 1, N)
    <3>1. ~(q + 1 <= F)
      BY <1>7
    <3> QED BY <1>5, <3>1
  <2>3. \A i \in x + 1 .. N : p[i] \in PlainCell
    BY <1>4
  <2>4. /\ SubSeq(p, x + 1, N) \in Seq(PlainCell)
        /\ Len(SubSeq(p, x + 1, N)) = IF x + 1 <= N THEN N - (x + 1) + 1 ELSE 0
    BY <2>3, SubSeqProperties
  <2>5. Len(SubSeq(p, x + 1, N)) = N - x
    BY <1>3, <2>4
  <2>6. SubSeq(p, 1, x) \o SubSeq(p, x + 1, N) = p
    <3>1. 1 \in 1 .. Len(p) + 1 /\ x \in 1 - 1 .. Len(p) /\ N \in x .. Len(p)
      BY <1>1, <1>3
    <3>2. SubSeq(p, 1, x) \o SubSeq(p, x + 1, N) = SubSeq(p, 1, N)
      BY <3>1, ConcatAdjacentSubSeq
    <3> QED BY <1>1, <3>2, SubSeqFull
  <2>7. q * Chunk \in Nat /\ q * Chunk <= Len(p)
    BY <1>1, <1>2, <1>3, <1>5
  <2>8. ~(q < Full(p)) /\ N - x < C
    BY <1>1, <1>3, <1>7, <2>1
  <2> QED BY <1>1, <1>5, <2>2, <2>4, <2>5, <2>6, <2>7, <2>8, Zenon
<1> QED BY <1>1, <1>6, <1>7

\* A sealed chunk bears its number; only the full ones have the full length.
LEMMA SealedFacts ==
  ASSUME NEW p \in Seq(PlainCell), NEW q \in Nat, q <= Full(p)
  PROVE  /\ Sealed(p, q + 1) \in Seq(WireCell)
         /\ Len(Sealed(p, q + 1)) \in Nat /\ Len(Sealed(p, q + 1)) >= 1
         /\ Sealed(p, q + 1) # <<>>
         /\ Sealed(p, q + 1)[1].chunk = q + 1
         /\ q < Full(p) => Len(Sealed(p, q + 1)) = Chunk + 1
         /\ q = Full(p) => Len(Sealed(p, q + 1)) <= Chunk
<1>1. PICK z \in Nat : z = Len(ChunkOf(p, q + 1)) + 1 /\ z >= 1
  BY ChunkFacts, LenProperties
<1>2. Sealed(p, q + 1) = [i \in 1 .. z |-> [chunk |-> q + 1, i |-> i, of |-> z]]
  BY <1>1 DEF Sealed
<1>3. \A i \in 1 .. z : [chunk |-> q + 1, i |-> i, of |-> z] \in WireCell
  BY DEF WireCell
<1>4. [i \in 1 .. z |-> [chunk |-> q + 1, i |-> i, of |-> z]] \in Seq(WireCell)
  BY <1>3
<1>5. Len([i \in 1 .. z |-> [chunk |-> q + 1, i |-> i, of |-> z]]) = z
  OBVIOUS
<1>6. Sealed(p, q + 1)[1].chunk = q + 1
  BY <1>1, <1>2
<1>7. Sealed(p, q + 1) # <<>>
  BY <1>1, <1>2, <1>5, EmptySeq
<1>8. /\ q < Full(p) => Len(ChunkOf(p, q + 1)) = Chunk
      /\ q = Full(p) => Len(ChunkOf(p, q + 1)) < Chunk
  BY ChunkFacts
<1>9. Chunk \in Nat /\ Len(ChunkOf(p, q + 1)) \in Nat
  BY FullFacts, ChunkFacts, LenProperties
<1> QED BY <1>1, <1>2, <1>4, <1>5, <1>6, <1>7, <1>8, <1>9

SealedOf(p) == [n \in 1 .. Full(p) + 1 |-> Sealed(p, n)]

\* The chunks sealed one after the other are typed.
LEMMA SealedAll ==
  ASSUME NEW p \in Seq(PlainCell)
  PROVE  /\ AllSeqs(SealedOf(p), Full(p) + 1, WireCell)
         /\ \A q \in 0 .. Full(p) : SealedOf(p)[q + 1] = Sealed(p, q + 1)
         /\ \A q \in 0 .. Full(p) : Len(Upto(SealedOf(p), q)) = q * (Chunk + 1)
<1>1. Full(p) \in Nat
  BY FullFacts
<1>2. \A q \in 0 .. Full(p) : SealedOf(p)[q + 1] = Sealed(p, q + 1)
  BY <1>1 DEF SealedOf
<1>3. \A n \in 1 .. Full(p) + 1 : SealedOf(p)[n] \in Seq(WireCell)
  <2> TAKE n \in 1 .. Full(p) + 1
  <2>1. PICK q \in Nat : q <= Full(p) /\ n = q + 1 /\ q \in 0 .. Full(p)
    BY <1>1
  <2> QED BY <1>2, <2>1, SealedFacts
<1>4. AllSeqs(SealedOf(p), Full(p) + 1, WireCell)
  BY <1>3 DEF AllSeqs
<1> DEFINE B == {q \in Nat : q <= Full(p) => Len(Upto(SealedOf(p), q)) = q * (Chunk + 1)}
<1>5. /\ Upto(SealedOf(p), 0) = <<>>
      /\ \A k \in 0 .. Full(p) + 1 : k < Full(p) + 1 =>
           Len(Upto(SealedOf(p), k + 1)) = Len(Upto(SealedOf(p), k)) + Len(SealedOf(p)[k + 1])
  <2>1. Full(p) + 1 \in Nat
    BY <1>1
  <2> QED BY <1>4, <2>1, UptoSteps
<1>6. 0 \in B
  BY <1>5, EmptySeq, FullFacts
<1>7. ASSUME NEW q \in Nat, q \in B PROVE q + 1 \in B
  <2> SUFFICES ASSUME q + 1 <= Full(p) PROVE Len(Upto(SealedOf(p), q + 1)) = (q + 1) * (Chunk + 1)
    OBVIOUS
  <2>1. /\ q \in 0 .. Full(p) /\ q <= Full(p) /\ q < Full(p)
        /\ q \in 0 .. Full(p) + 1 /\ q < Full(p) + 1
    BY <1>1
  <2>2. Len(Upto(SealedOf(p), q + 1)) = Len(Upto(SealedOf(p), q)) + Len(Sealed(p, q + 1))
    BY <1>2, <1>5, <2>1
  <2>3. Len(Sealed(p, q + 1)) = Chunk + 1
    BY <2>1, SealedFacts
  <2>4. Len(Upto(SealedOf(p), q)) = q * (Chunk + 1)
    BY <1>7, <2>1
  <2>5. Chunk + 1 \in Nat
    BY FullFacts
  <2>6. (q + 1) * (Chunk + 1) = q * (Chunk + 1) + (Chunk + 1)
    BY <2>5, Multiples
  <2> QED BY <2>2, <2>3, <2>4, <2>6
<1>8. \A q \in Nat : q \in B
  <2> HIDE DEF B
  <2> QED BY <1>6, <1>7, CountingUp
<1> QED BY <1>2, <1>4, <1>8

-----------------------------------------------------------------------------
(* What lies where in the encrypted stream.                                *)

\* A slice lies where it was taken.
LEMMA SliceLies ==
  ASSUME NEW S, NEW p \in Seq(S), NEW s \in Seq(S), NEW c \in Nat, LiesAt(p, s, c)
  PROVE  SubSeq(s, c + 1, c + Len(p)) = p
<1>1. Len(p) \in Nat /\ Len(s) \in Nat
  BY LenProperties
<1>2. PICK z \in Nat, y \in Nat : z = Len(p) /\ y = Len(s)
  BY <1>1
<1>3. c + z <= y /\ \A i \in 1 .. z : s[c + i] = p[i]
  BY <1>2 DEF LiesAt
<1>4. \A i \in c + 1 .. c + z : s[i] \in S
  <2>1. \A i \in c + 1 .. c + z : i \in 1 .. y
    BY <1>3
  <2> QED BY <1>2, <2>1, ElementOfSeq
<1>5. /\ SubSeq(s, c + 1, c + z) \in Seq(S)
      /\ Len(SubSeq(s, c + 1, c + z)) = IF c + 1 <= c + z THEN c + z - (c + 1) + 1 ELSE 0
      /\ \A i \in 1 .. c + z - (c + 1) + 1 : SubSeq(s, c + 1, c + z)[i] = s[c + 1 + i - 1]
  BY <1>4, SubSeqProperties
<1>6. Len(SubSeq(s, c + 1, c + z)) = z
  BY <1>5
<1>7. \A i \in 1 .. z : SubSeq(s, c + 1, c + z)[i] = p[i]
  <2> TAKE i \in 1 .. z
  <2>1. i \in 1 .. c + z - (c + 1) + 1 /\ c + 1 + i - 1 = c + i
    OBVIOUS
  <2> QED BY <1>3, <1>5, <2>1
<1> QED BY <1>2, <1>5, <1>6, <1>7, SeqEqual

\* What lies in a part lies in the whole, further behind.
LEMMA LiesBehind ==
  ASSUME NEW S, NEW a \in Seq(S), NEW s \in Seq(S), NEW p \in Seq(S), NEW c \in Nat,
         LiesAt(p, s, c)
  PROVE  LiesAt(p, a \o s, Len(a) + c)
<1>1. PICK x \in Nat, y \in Nat, z \in Nat : x = Len(a) /\ y = Len(s) /\ z = Len(p)
  BY LenProperties
<1>2. c + z <= y /\ \A i \in 1 .. z : s[c + i] = p[i]
  BY <1>1 DEF LiesAt
<1>3. Len(a \o s) = x + y /\ \A i \in 1 .. y : (a \o s)[x + i] = s[i]
  BY <1>1, Joined
<1>4. (x + c) + z <= Len(a \o s)
  BY <1>2, <1>3
<1>5. \A i \in 1 .. z : (a \o s)[(x + c) + i] = p[i]
  <2> TAKE i \in 1 .. z
  <2>1. c + i \in 1 .. y /\ (x + c) + i = x + (c + i)
    BY <1>2
  <2> QED BY <1>2, <1>3, <2>1
<1> QED BY <1>1, <1>4, <1>5 DEF LiesAt

\* The file: the header, the full chunks one after the other, and the final one.
LEMMA EncryptedFacts ==
  ASSUME NEW p \in Seq(PlainCell)
  PROVE  /\ Encrypted(p) \in Seq(WireCell) /\ Len(Encrypted(p)) \in Nat
         /\ SubSeq(Encrypted(p), 1, 2) = Header
         /\ \A q \in 0 .. Full(p) :
              /\ q * (Chunk + 1) \in Nat
              /\ 2 + q * (Chunk + 1) + Len(Sealed(p, q + 1)) <= Len(Encrypted(p))
              /\ SubSeq(Encrypted(p), 2 + q * (Chunk + 1) + 1,
                        2 + q * (Chunk + 1) + Len(Sealed(p, q + 1))) = Sealed(p, q + 1)
         /\ Len(Encrypted(p)) = 2 + Full(p) * (Chunk + 1) + Len(Sealed(p, Full(p) + 1))
<1> DEFINE F == Full(p)
           D == Upto(SealedOf(p), F + 1)
<1>0. F \in Nat /\ Chunk + 1 \in Nat /\ F + 1 \in Nat
  BY FullFacts
<1>1. Header \in Seq(WireCell) /\ Len(Header) = 2
  BY DEF Header, WireCell
<1>2. Encrypted(p) = Header \o D
  <2>1. [n \in 1 .. Full(p) + 1 |-> SealedOf(p)[n]] = [n \in 1 .. Full(p) + 1 |-> Sealed(p, n)]
    BY DEF SealedOf
  <2> QED BY <2>1 DEF Encrypted, Upto
<1>3. D \in Seq(WireCell)
  BY <1>0, SealedAll, UptoSteps
<1>4. /\ Encrypted(p) \in Seq(WireCell) /\ Len(Encrypted(p)) = 2 + Len(D)
      /\ Len(D) \in Nat /\ Len(Encrypted(p)) \in Nat
  <2> HIDE DEF D
  <2>1. /\ Header \o D \in Seq(WireCell) /\ Len(Header \o D) = Len(Header) + Len(D)
        /\ Len(D) \in Nat
    BY <1>1, <1>3, Joined
  <2> QED BY <1>1, <1>2, <2>1
<1>5. SubSeq(Encrypted(p), 1, 2) = Header
  <2> HIDE DEF D
  <2>1. \A i \in 1 .. Len(Header) : (Header \o D)[i] = Header[i]
    BY <1>1, <1>3, Joined
  <2>2. LiesAt(Header, Encrypted(p), 0)
    <3>1. \A i \in 1 .. 2 : 0 + i = i
      OBVIOUS
    <3> QED BY <1>1, <1>2, <1>4, <2>1, <3>1 DEF LiesAt
  <2>3. SubSeq(Encrypted(p), 0 + 1, 0 + Len(Header)) = Header
    BY <1>1, <1>4, <2>2, SliceLies
  <2>4. 0 + 1 = 1 /\ 0 + Len(Header) = 2
    BY <1>1
  <2> QED BY <2>3, <2>4
<1>6. ASSUME NEW q \in 0 .. F
      PROVE /\ q * (Chunk + 1) \in Nat
            /\ 2 + q * (Chunk + 1) + Len(Sealed(p, q + 1)) <= Len(Encrypted(p))
            /\ SubSeq(Encrypted(p), 2 + q * (Chunk + 1) + 1,
                      2 + q * (Chunk + 1) + Len(Sealed(p, q + 1))) = Sealed(p, q + 1)
  <2>1. PICK x \in Nat : x = q * (Chunk + 1)
    BY <1>0, Multiples
  <2>2. Len(Upto(SealedOf(p), q)) = x
    BY <2>1, SealedAll
  <2>3. q \in Nat /\ q <= Full(p) /\ q \in 0 .. F + 1 /\ F + 1 \in q .. F + 1 /\ q < F + 1
    BY <1>0
  <2>4. SealedOf(p)[q + 1] = Sealed(p, q + 1) /\ Sealed(p, q + 1) \in Seq(WireCell)
        /\ Len(Sealed(p, q + 1)) \in Nat
    BY <2>3, SealedAll, SealedFacts
  <2>5. LiesAt(Sealed(p, q + 1), D, x)
    <3>1. AllSeqs(SealedOf(p), F + 1, WireCell)
      BY SealedAll
    <3>2. LiesAt(SealedOf(p)[q + 1], Upto(SealedOf(p), F + 1), Len(Upto(SealedOf(p), q)))
      <4> HIDE DEF F
      <4> QED BY <1>0, <2>3, <3>1, UptoAt
    <3> QED BY <2>2, <2>4, <3>2
  <2>6. LiesAt(Sealed(p, q + 1), Encrypted(p), 2 + x)
    <3> HIDE DEF D
    <3>1. LiesAt(Sealed(p, q + 1), Header \o D, Len(Header) + x)
      BY <1>1, <1>3, <2>4, <2>5, LiesBehind
    <3> QED BY <1>1, <1>2, <3>1
  <2>7. SubSeq(Encrypted(p), (2 + x) + 1, (2 + x) + Len(Sealed(p, q + 1))) = Sealed(p, q + 1)
    <3>1. 2 + x \in Nat
      OBVIOUS
    <3> QED BY <1>4, <2>4, <2>6, <3>1, SliceLies
  <2>8. 2 + x + Len(Sealed(p, q + 1)) <= Len(Encrypted(p))
    BY <2>6 DEF LiesAt
  <2> QED BY <2>1, <2>7, <2>8
<1>7. Len(Encrypted(p)) = 2 + Full(p) * (Chunk + 1) + Len(Sealed(p, Full(p) + 1))
  <2>1. F \in 0 .. F /\ F \in 0 .. F + 1 /\ F < F + 1 /\ F <= Full(p)
    BY <1>0
  <2>2. Len(Upto(SealedOf(p), F)) = F * (Chunk + 1) /\ SealedOf(p)[F + 1] = Sealed(p, F + 1)
    BY <2>1, SealedAll
  <2>3. Len(Upto(SealedOf(p), F + 1)) = Len(Upto(SealedOf(p), F)) + Len(SealedOf(p)[F + 1])
    <3>1. AllSeqs(SealedOf(p), F + 1, WireCell)
      BY SealedAll
    <3> HIDE DEF F
    <3>2. \A k \in 0 .. F + 1 : k < F + 1 =>
            Len(Upto(SealedOf(p), k + 1)) = Len(Upto(SealedOf(p), k)) + Len(SealedOf(p)[k + 1])
      BY <1>0, <3>1, UptoSteps
    <3> QED BY <2>1, <3>2
  <2>4. F * (Chunk + 1) \in Nat /\ Len(Sealed(p, F + 1)) \in Nat
    BY <1>0, <2>1, Multiples, SealedFacts
  <2> QED BY <1>4, <2>2, <2>3, <2>4
<1> QED BY <1>4, <1>5, <1>6, <1>7

-----------------------------------------------------------------------------
(* The decrypting stream's chunks.                                         *)

\* Where q full chunks end: in the plaintext, and in the file.
PlainEnd(q) == q * Chunk
WireEnd(q) == 2 + q * (Chunk + 1)

\* Where the chunks of a bundle end, in the plaintext and on the wire.
LEMMA EndFacts ==
  /\ PlainEnd(0) = 0 /\ WireEnd(0) = 2
  /\ \A q \in Nat :
       /\ PlainEnd(q) \in Nat /\ PlainEnd(q + 1) = PlainEnd(q) + Chunk
       /\ WireEnd(q) \in Nat /\ WireEnd(q) >= 2 /\ WireEnd(q + 1) = WireEnd(q) + Chunk + 1
  /\ \A a, b \in Nat : a <= b => PlainEnd(a) <= PlainEnd(b) /\ WireEnd(a) <= WireEnd(b)
  /\ \A a, b \in Nat : WireEnd(a) + b * (Chunk + 1) = WireEnd(a + b)
<1>1. Chunk \in Nat /\ Chunk + 1 \in Nat
  BY StreamAssumption
<1>2. ASSUME NEW a \in Nat, NEW b \in Nat
      PROVE  WireEnd(a) + b * (Chunk + 1) = WireEnd(a + b)
  <2>1. /\ a * (Chunk + 1) \in Nat /\ b * (Chunk + 1) \in Nat
        /\ (a + b) * (Chunk + 1) = a * (Chunk + 1) + b * (Chunk + 1)
    BY <1>1, Multiples
  <2>2. PICK x \in Nat, y \in Nat : x = a * (Chunk + 1) /\ y = b * (Chunk + 1)
    BY <2>1
  <2>3. WireEnd(a) = 2 + x /\ WireEnd(a + b) = 2 + (x + y)
    BY <2>1, <2>2, Zenon DEF WireEnd
  <2>4. (2 + x) + y = 2 + (x + y)
    OBVIOUS
  <2> QED BY <2>2, <2>3, <2>4, Zenon
<1>3. ASSUME NEW a \in Nat, NEW b \in Nat, a <= b
      PROVE  PlainEnd(a) <= PlainEnd(b) /\ WireEnd(a) <= WireEnd(b)
  <2>1. /\ a * Chunk <= b * Chunk /\ a * (Chunk + 1) <= b * (Chunk + 1)
        /\ a * (Chunk + 1) \in Nat /\ b * (Chunk + 1) \in Nat
    BY <1>1, <1>3, Multiples
  <2>2. PICK x \in Nat, y \in Nat : x = a * (Chunk + 1) /\ y = b * (Chunk + 1) /\ x <= y
    BY <2>1
  <2>3. WireEnd(a) = 2 + x /\ WireEnd(b) = 2 + y
    BY <2>2, Zenon DEF WireEnd
  <2>4. 2 + x <= 2 + y
    BY <2>2
  <2> QED BY <2>1, <2>3, <2>4, Zenon DEF PlainEnd
<1>4. ASSUME NEW q \in Nat
      PROVE  /\ PlainEnd(q) \in Nat /\ PlainEnd(q + 1) = PlainEnd(q) + Chunk
             /\ WireEnd(q) \in Nat /\ WireEnd(q) >= 2 /\ WireEnd(q + 1) = WireEnd(q) + Chunk + 1
  <2>1. /\ q * Chunk \in Nat /\ q * (Chunk + 1) \in Nat
        /\ (q + 1) * Chunk = q * Chunk + Chunk
        /\ (q + 1) * (Chunk + 1) = q * (Chunk + 1) + (Chunk + 1)
    BY <1>1, Multiples
  <2>2. PICK x \in Nat : x = q * (Chunk + 1)
    BY <2>1
  <2>3. WireEnd(q) = 2 + x /\ WireEnd(q + 1) = 2 + (x + (Chunk + 1))
    BY <2>1, <2>2, Zenon DEF WireEnd
  <2>4. 2 + (x + (Chunk + 1)) = (2 + x) + Chunk + 1 /\ 2 + x \in Nat /\ 2 + x >= 2
    BY <1>1
  <2> QED BY <2>1, <2>3, <2>4, Zenon DEF PlainEnd
<1>5. PlainEnd(0) = 0 /\ WireEnd(0) = 2
  BY <1>1 DEF PlainEnd, WireEnd
<1> QED BY <1>2, <1>3, <1>4, <1>5

\* The chunks of the plaintext, joined, are the plaintext up to where the last ends.
LEMMA PlainChunks ==
  ASSUME NEW p \in Seq(PlainCell), NEW q \in Nat, q <= Full(p)
  PROVE  /\ ChunkOf(p, q + 1) \in Seq(PlainCell)
         /\ PlainEnd(q) \in Nat /\ PlainEnd(q) <= Len(p)
         /\ q < Full(p) => SubSeq(p, 1, PlainEnd(q)) \o ChunkOf(p, q + 1)
                             = SubSeq(p, 1, PlainEnd(q + 1))
         /\ q = Full(p) => SubSeq(p, 1, PlainEnd(q)) \o ChunkOf(p, q + 1) = p
BY ChunkFacts, Zenon DEF PlainEnd

\* The same of the wire.
LEMMA WireChunks ==
  ASSUME NEW p \in Seq(PlainCell)
  PROVE  /\ Encrypted(p) \in Seq(WireCell) /\ Len(Encrypted(p)) \in Nat
         /\ SubSeq(Encrypted(p), 1, 2) = Header
         /\ \A q \in 0 .. Full(p) :
              /\ WireEnd(q) + Len(Sealed(p, q + 1)) <= Len(Encrypted(p))
              /\ SubSeq(Encrypted(p), WireEnd(q) + 1, WireEnd(q) + Len(Sealed(p, q + 1)))
                   = Sealed(p, q + 1)
         /\ Len(Encrypted(p)) = WireEnd(Full(p)) + Len(Sealed(p, Full(p) + 1))
BY EncryptedFacts, Zenon DEF WireEnd

SameUpTo(w, p, c) == SubSeq(w, 1, c) = SubSeq(Encrypted(p), 1, c)

\* The length of a slice.
LEMMA SliceLength ==
  ASSUME NEW S, NEW s \in Seq(S), NEW a \in Nat, NEW b \in Nat, a <= b, b <= Len(s)
  PROVE  SubSeq(s, a + 1, b) \in Seq(S) /\ Len(SubSeq(s, a + 1, b)) = b - a
<1>1. \A i \in a + 1 .. b : s[i] \in S
  <2>1. \A i \in a + 1 .. b : i \in 1 .. Len(s)
    BY LenProperties
  <2> QED BY <2>1, ElementOfSeq
<1>2. /\ SubSeq(s, a + 1, b) \in Seq(S)
      /\ Len(SubSeq(s, a + 1, b)) = IF a + 1 <= b THEN b - (a + 1) + 1 ELSE 0
  BY <1>1, SubSeqProperties
<1> QED BY <1>2

\* A beginning of a beginning.
LEMMA PrefixGrows ==
  ASSUME NEW S, NEW s \in Seq(S), NEW a \in Nat, NEW b \in Nat, a <= b, b <= Len(s)
  PROVE  SubSeq(s, 1, a) \o SubSeq(s, a + 1, b) = SubSeq(s, 1, b)
<1>1. 1 \in 1 .. Len(s) + 1 /\ a \in 1 - 1 .. Len(s) /\ b \in a .. Len(s)
  BY LenProperties
<1> QED BY <1>1, ConcatAdjacentSubSeq

\* A piece of the file as long as a full chunk that opens is the next full chunk.
LEMMA OneDrained ==
  ASSUME NEW w \in Seq(WireCell), NEW p \in Seq(PlainCell), NEW q \in Nat, q <= Full(p),
         WireEnd(q + 1) <= Len(w),
         SubSeq(w, WireEnd(q) + 1, WireEnd(q + 1)) = Sealed(p, q + 1)
  PROVE  /\ q + 1 <= Full(p)
         /\ SameUpTo(w, p, WireEnd(q)) => SameUpTo(w, p, WireEnd(q + 1))
<1>1. PICK y \in Nat, z \in Nat :
        y = WireEnd(q) /\ z = WireEnd(q + 1) /\ z = y + Chunk + 1 /\ y <= z /\ Chunk \in Nat
  <2>1. q + 1 \in Nat
    OBVIOUS
  <2>2. WireEnd(q) \in Nat /\ WireEnd(q + 1) \in Nat /\ WireEnd(q + 1) = WireEnd(q) + Chunk + 1
    BY <2>1, EndFacts
  <2>3. Chunk \in Nat
    BY FullFacts
  <2> QED BY <2>2, <2>3
<1>2. Len(SubSeq(w, y + 1, z)) = z - y
  BY <1>1, SliceLength
<1>3. Len(Sealed(p, q + 1)) = Chunk + 1
  BY <1>1, <1>2
<1>4. q # Full(p) /\ q \in 0 .. Full(p) /\ q + 1 <= Full(p)
  <2>1. q # Full(p)
    BY <1>1, <1>3, SealedFacts
  <2> QED BY <2>1, FullFacts
<1>5. /\ z <= Len(Encrypted(p)) /\ Encrypted(p) \in Seq(WireCell)
      /\ SubSeq(Encrypted(p), y + 1, z) = Sealed(p, q + 1)
  <2>1. y + (Chunk + 1) = z
    BY <1>1
  <2> QED BY <1>1, <1>3, <1>4, <2>1, WireChunks
<1>6. ASSUME SubSeq(w, 1, y) = SubSeq(Encrypted(p), 1, y)
      PROVE  SubSeq(w, 1, z) = SubSeq(Encrypted(p), 1, z)
  <2>1. SubSeq(w, 1, y) \o SubSeq(w, y + 1, z) = SubSeq(w, 1, z)
    BY <1>1, PrefixGrows
  <2>2. SubSeq(Encrypted(p), 1, y) \o SubSeq(Encrypted(p), y + 1, z) = SubSeq(Encrypted(p), 1, z)
    BY <1>1, <1>5, PrefixGrows
  <2> QED BY <1>1, <1>5, <1>6, <2>1, <2>2
<1> QED BY <1>1, <1>4, <1>6 DEF SameUpTo

\* So are as many of them as open one after the other.
LEMMA Drained ==
  ASSUME NEW w \in Seq(WireCell), NEW p \in Seq(PlainCell), NEW a \in Nat, a <= Full(p),
         NEW g \in Nat, WireEnd(a + g) <= Len(w),
         \A i \in 1 .. g :
           SubSeq(w, WireEnd(a + i - 1) + 1, WireEnd(a + i)) = Sealed(p, a + i)
  PROVE  /\ a + g <= Full(p)
         /\ \A i \in 1 .. g : Sealed(p, a + i)[1].chunk = a + i
         /\ SubSeq(p, 1, PlainEnd(a)) \o Upto([i \in 1 .. g |-> ChunkOf(p, a + i)], g)
              = SubSeq(p, 1, PlainEnd(a + g))
         /\ SameUpTo(w, p, WireEnd(a)) => SameUpTo(w, p, WireEnd(a + g))
<1>0. \A i \in 1 .. g : SubSeq(w, WireEnd(a + i - 1) + 1, WireEnd(a + i)) = Sealed(p, a + i)
  OBVIOUS
<1> DEFINE P == [i \in 1 .. g |-> ChunkOf(p, a + i)]
           Good(q) == q <= Full(p) /\ (SameUpTo(w, p, WireEnd(a)) => SameUpTo(w, p, WireEnd(q)))
           B == {m \in Nat : m <= g => Good(a + m)}
<1>1. 0 \in B
  <2>1. a + 0 = a
    OBVIOUS
  <2> QED BY <2>1
<1>2. ASSUME NEW m \in Nat, m \in B PROVE m + 1 \in B
  <2> SUFFICES ASSUME m + 1 <= g PROVE Good(a + (m + 1))
    OBVIOUS
  <2>1. PICK q \in Nat : q = a + m /\ a + (m + 1) = q + 1 /\ a + (m + 1) - 1 = q /\ q + 1 <= a + g
    OBVIOUS
  <2>2. Good(q)
    BY <1>2, <2>1
  <2>3. WireEnd(q + 1) <= Len(w)
    <3>1. WireEnd(q + 1) <= WireEnd(a + g) /\ WireEnd(q + 1) \in Nat /\ WireEnd(a + g) \in Nat
      <4>1. q + 1 \in Nat /\ a + g \in Nat
        OBVIOUS
      <4> QED BY <2>1, <4>1, EndFacts
    <3> QED BY <3>1, LenProperties
  <2>4. SubSeq(w, WireEnd(q) + 1, WireEnd(q + 1)) = Sealed(p, q + 1)
    <3>1. m + 1 \in 1 .. g
      OBVIOUS
    <3>2. SubSeq(w, WireEnd(a + (m + 1) - 1) + 1, WireEnd(a + (m + 1))) = Sealed(p, a + (m + 1))
      BY <1>0, <3>1
    <3> QED BY <2>1, <3>2
  <2>5. Good(q + 1)
    BY <2>2, <2>3, <2>4, OneDrained
  <2> HIDE DEF Good
  <2> QED BY <2>1, <2>5
<1>3. \A m \in Nat : m \in B
  <2> HIDE DEF B
  <2> QED BY <1>1, <1>2, CountingUp
<1>4. \A m \in 0 .. g : Good(a + m)
  <2> HIDE DEF Good
  <2> TAKE m \in 0 .. g
  <2>1. m \in Nat /\ m <= g /\ m \in B
    BY <1>3
  <2> QED BY <2>1
<1>5. \A m \in 0 .. g : a + m <= Full(p)
  BY <1>4
<1>6. a + g <= Full(p) /\ (SameUpTo(w, p, WireEnd(a)) => SameUpTo(w, p, WireEnd(a + g)))
  <2>1. g \in 0 .. g
    OBVIOUS
  <2> QED BY <1>4, <2>1
<1> HIDE DEF B, Good
<1>7. \A i \in 1 .. g : /\ ChunkOf(p, a + i) \in Seq(PlainCell)
                        /\ Sealed(p, a + i)[1].chunk = a + i
  <2> TAKE i \in 1 .. g
  <2>1. PICK q \in Nat : q + 1 = a + i /\ q <= Full(p)
    <3>1. i - 1 \in 0 .. g /\ a + (i - 1) \in Nat /\ a + (i - 1) + 1 = a + i
      OBVIOUS
    <3> QED BY <1>5, <3>1
  <2>2. ChunkOf(p, q + 1) \in Seq(PlainCell) /\ Sealed(p, q + 1)[1].chunk = q + 1
    BY <2>1, ChunkFacts, SealedFacts
  <2> QED BY <2>1, <2>2
<1>8. AllSeqs(P, g, PlainCell) /\ \A i \in 1 .. g : P[i] = ChunkOf(p, a + i)
  BY <1>7 DEF AllSeqs
<1> DEFINE X == SubSeq(p, 1, PlainEnd(a))
           Begun(m, q) == X \o Upto(P, m) = SubSeq(p, 1, PlainEnd(q))
           E == {m \in Nat : m <= g => Begun(m, a + m)}
<1>9. X \in Seq(PlainCell)
  <2>1. PlainEnd(a) \in Nat /\ PlainEnd(a) <= Len(p) /\ 0 <= PlainEnd(a)
    BY PlainChunks
  <2>2. SubSeq(p, 0 + 1, PlainEnd(a)) \in Seq(PlainCell)
    BY <2>1, SliceLength
  <2>3. 0 + 1 = 1
    OBVIOUS
  <2> QED BY <2>2, <2>3
<1> HIDE DEF P
<1>10. /\ Upto(P, 0) = <<>>
       /\ \A m \in 0 .. g : Upto(P, m) \in Seq(PlainCell)
       /\ \A m \in 0 .. g : m < g => Upto(P, m + 1) = Upto(P, m) \o P[m + 1]
  BY <1>8, UptoSteps
<1>11. 0 \in E
  <2>1. a + 0 = a
    OBVIOUS
  <2>2. X \o <<>> = X
    BY <1>9, ConcatEmptySeq
  <2> QED BY <1>10, <2>1, <2>2
<1>12. ASSUME NEW m \in Nat, m \in E PROVE m + 1 \in E
  <2> SUFFICES ASSUME m + 1 <= g PROVE Begun(m + 1, a + (m + 1))
    <3> HIDE DEF Begun
    <3> QED OBVIOUS
  <2>1. m \in 0 .. g /\ m < g /\ m + 1 \in 1 .. g /\ m + 1 \in 0 .. g /\ m <= g
    OBVIOUS
  <2>2. PICK q \in Nat : q = a + m /\ a + (m + 1) = q + 1
    OBVIOUS
  <2>3. q + 1 <= Full(p) /\ q <= Full(p) /\ q < Full(p)
    <3>1. a + (m + 1) <= Full(p)
      BY <1>5, <2>1
    <3> QED BY <2>2, <3>1, FullFacts
  <2>4. P[m + 1] = ChunkOf(p, q + 1) /\ ChunkOf(p, q + 1) \in Seq(PlainCell)
    <3>1. P[m + 1] = ChunkOf(p, a + (m + 1)) /\ ChunkOf(p, a + (m + 1)) \in Seq(PlainCell)
      BY <1>7, <1>8, <2>1
    <3> QED BY <2>2, <3>1
  <2>5. Upto(P, m + 1) = Upto(P, m) \o ChunkOf(p, q + 1) /\ Upto(P, m) \in Seq(PlainCell)
    BY <1>10, <2>1, <2>4
  <2>6. Begun(m, q)
    <3> HIDE DEF Begun
    <3> QED BY <1>12, <2>1, <2>2
  <2>7. SubSeq(p, 1, PlainEnd(q)) \o ChunkOf(p, q + 1) = SubSeq(p, 1, PlainEnd(q + 1))
    BY <2>3, PlainChunks
  <2> HIDE DEF X
  <2>8. X \o Upto(P, m + 1) = (X \o Upto(P, m)) \o ChunkOf(p, q + 1)
    <3>1. PICK x \in Seq(PlainCell), u \in Seq(PlainCell), v \in Seq(PlainCell) :
            x = X /\ u = Upto(P, m) /\ v = ChunkOf(p, q + 1)
      BY <1>9, <2>4, <2>5
    <3>2. (x \o u) \o v = x \o (u \o v)
      <4> HIDE DEF E, Begun, X
      <4> QED BY SMTT(30)
    <3> QED BY <2>5, <3>1, <3>2
  <2>9. Begun(m + 1, q + 1)
    BY <2>6, <2>7, <2>8
  <2> HIDE DEF Begun
  <2> QED BY <2>2, <2>9
<1>13. \A m \in Nat : m \in E
  <2> HIDE DEF E
  <2> QED BY <1>11, <1>12, CountingUp
<1>14. Begun(g, a + g)
  <2> HIDE DEF Begun
  <2> QED BY <1>13
<1> QED BY <1>6, <1>7, <1>14 DEF P

-----------------------------------------------------------------------------
(* What arrives, altered or not.                                           *)

\* Less than a full chunk that opens is the final one.
LEMMA FinalOpens ==
  ASSUME NEW w \in Seq(WireCell), NEW p \in Seq(PlainCell), NEW q \in Nat, q <= Full(p),
         WireEnd(q) <= Len(w), Len(w) <= WireEnd(q) + Chunk,
         SubSeq(w, WireEnd(q) + 1, Len(w)) = Sealed(p, q + 1)
  PROVE  /\ q = Full(p)
         /\ Sealed(p, q + 1)[1].chunk = q + 1
         /\ SameUpTo(w, p, WireEnd(q)) => w = Encrypted(p)
<1>1. PICK y \in Nat, N \in Nat, C \in Nat : y = WireEnd(q) /\ N = Len(w) /\ C = Chunk
  BY EndFacts, FullFacts, LenProperties
<1>2. y <= N /\ N <= y + C /\ SubSeq(w, y + 1, N) = Sealed(p, q + 1)
  BY <1>1
<1>3. Len(Sealed(p, q + 1)) = N - y
  BY <1>1, <1>2, SliceLength
<1>4. q = Full(p)
  <2>1. q < Full(p) => Len(Sealed(p, q + 1)) = C + 1
    BY <1>1, SealedFacts
  <2>2. ~(q < Full(p))
    BY <1>2, <1>3, <2>1
  <2> QED BY <2>2, FullFacts
<1>5. ASSUME SubSeq(w, 1, y) = SubSeq(Encrypted(p), 1, y) PROVE w = Encrypted(p)
  <2>1. /\ Len(Encrypted(p)) = y + Len(Sealed(p, q + 1)) /\ Encrypted(p) \in Seq(WireCell)
        /\ SubSeq(Encrypted(p), y + 1, y + Len(Sealed(p, q + 1))) = Sealed(p, q + 1)
    <3>1. Full(p) \in 0 .. Full(p)
      BY FullFacts
    <3> QED BY <1>1, <1>4, <3>1, WireChunks
  <2>2. Len(Encrypted(p)) = N /\ y + Len(Sealed(p, q + 1)) = N
    BY <1>3, <2>1
  <2>3. SubSeq(w, 1, y) \o SubSeq(w, y + 1, N) = SubSeq(w, 1, N)
    <3>1. y \in Nat /\ N \in Nat /\ y <= N /\ N <= Len(w)
      BY <1>1, <1>2
    <3> QED BY <3>1, PrefixGrows
  <2>4. SubSeq(Encrypted(p), 1, y) \o SubSeq(Encrypted(p), y + 1, N) = SubSeq(Encrypted(p), 1, N)
    <3>1. y \in Nat /\ N \in Nat /\ y <= N /\ N <= Len(Encrypted(p))
      BY <1>2, <2>2
    <3> QED BY <2>1, <3>1, PrefixGrows
  <2>5. SubSeq(w, 1, N) = w
    BY <1>1, SubSeqFull
  <2>6. SubSeq(Encrypted(p), 1, N) = Encrypted(p)
    BY <2>1, <2>2, SubSeqFull
  <2> QED BY <1>2, <1>5, <2>1, <2>2, <2>3, <2>4, <2>5, <2>6
<1>6. Sealed(p, q + 1)[1].chunk = q + 1
  BY SealedFacts
<1> QED BY <1>1, <1>4, <1>5, <1>6 DEF SameUpTo

\* Of an undamaged file every full chunk opens, and then the final one.
LEMMA IntactOpens ==
  ASSUME NEW p \in Seq(PlainCell), NEW q \in Nat, q <= Full(p)
  PROVE  /\ WireEnd(q) <= Len(Encrypted(p))
         /\ WireEnd(q + 1) <= Len(Encrypted(p)) =>
              SubSeq(Encrypted(p), WireEnd(q) + 1, WireEnd(q + 1)) = Sealed(p, q + 1)
         /\ Len(Encrypted(p)) <= WireEnd(q) + Chunk =>
              /\ SubSeq(Encrypted(p), WireEnd(q) + 1, Len(Encrypted(p))) = Sealed(p, q + 1)
              /\ Sealed(p, q + 1) # <<>>
<1>1. PICK y \in Nat, N \in Nat, C \in Nat, z \in Nat :
        y = WireEnd(q) /\ N = Len(Encrypted(p)) /\ C = Chunk /\ z = Len(Sealed(p, q + 1))
  BY EndFacts, FullFacts, WireChunks, SealedFacts
<1>2. y + z <= N /\ SubSeq(Encrypted(p), y + 1, y + z) = Sealed(p, q + 1)
  <2>1. q \in 0 .. Full(p)
    BY FullFacts
  <2> QED BY <1>1, <2>1, WireChunks
<1>3. WireEnd(q + 1) = y + C + 1
  BY <1>1, EndFacts
<1>4. /\ q < Full(p) => z = C + 1
      /\ q = Full(p) => z <= C /\ N = y + z
  BY <1>1, SealedFacts, WireChunks
<1>5. q < Full(p) \/ q = Full(p)
  BY FullFacts
<1>6. ASSUME y + C + 1 <= N PROVE z = C + 1
  BY <1>4, <1>5, <1>6
<1>7. ASSUME N <= y + C PROVE N = y + z
  BY <1>2, <1>4, <1>5, <1>7
<1>8. Sealed(p, q + 1) # <<>>
  BY SealedFacts
<1>9. ASSUME y + C + 1 <= N PROVE SubSeq(Encrypted(p), y + 1, y + C + 1) = Sealed(p, q + 1)
  <2>1. y + z = y + C + 1
    BY <1>6, <1>9
  <2> QED BY <1>2, <2>1
<1>10. y <= N
  BY <1>2
<1> QED BY <1>1, <1>2, <1>3, <1>7, <1>8, <1>9, <1>10

\* A tar stream is a sequence of cells.
LEMMA TarTyped ==
  ASSUME bundle \in Bundles
  PROVE  /\ Tar(bundle) \in Seq(PlainCell) /\ Full(Tar(bundle)) \in Nat
         /\ Len(Tar(bundle)) \in Nat
BY TarCells, FullFacts, LenProperties

\* Where a decryption that has not ended stands.
DecryptingAt ==
  /\ pulls <= Full(Tar(bundle)) /\ Len(plain) = PlainEnd(pulls)
  /\ opened = IF arrived < 2 THEN 0 ELSE WireEnd(pulls)
  /\ opened <= arrived
  /\ arrived < 2 => pulls = 0
  /\ arrived >= 2 => arrived <= opened + Chunk
  /\ arrived >= 2 /\ password /\ readHeader => SameUpTo(wire, Tar(bundle), opened)

\* The invariant of the decryption in terms of where chunks end.
CipherAt ==
  /\ pulls > 0 => password /\ readHeader
  /\ plain = SubSeq(Tar(bundle), 1, Len(plain)) /\ Len(plain) <= Len(Tar(bundle))
  /\ pulls = 0 => plain = <<>>
  /\ Decrypting => DecryptingAt
  /\ verified => failure = "none" /\ password /\ Intact /\ plain = Tar(bundle)
  /\ failure \in {"auth", "header"} => ~(password /\ Intact)
  /\ failure = "upload" => aborts
  /\ failure = "kdf" => PreambleAltered

\* Where the cells of a chunk lie in what has arrived.
LEMMA CipherPlaces == (CipherInv <=> CipherAt) /\ (CipherInv' <=> CipherAt')
BY DEF CipherInv, CipherAt, DecryptingAt, PlainEnd, WireEnd, SameUpTo

\* A header read of what has arrived is the header sent.
LEMMA IntactHeader ==
  ASSUME bundle \in Bundles
  PROVE  Intact => readHeader /\ Len(wire) >= 2 /\ ~PreambleAltered
<1>1. /\ SubSeq(Encrypted(Tar(bundle)), 1, 2) = Header
      /\ Len(Encrypted(Tar(bundle))) >= WireEnd(Full(Tar(bundle)))
      /\ Len(Encrypted(Tar(bundle))) \in Nat
  BY TarTyped, WireChunks, IntactOpens
<1>2. WireEnd(Full(Tar(bundle))) \in Nat /\ WireEnd(Full(Tar(bundle))) >= 2
  BY TarTyped, EndFacts
<1>3. ASSUME Intact PROVE readHeader /\ Len(wire) >= 2 /\ Len(wire) \in Nat
  BY <1>1, <1>2, <1>3 DEF Intact, readHeader
<1>4. ASSUME Intact PROVE wire[1] = Header[1]
  <2>1. Header[1] = SubSeq(wire, 1, 2)[1]
    BY <1>3, <1>4 DEF readHeader
  <2>2. wire \in Seq(WireCell)
    BY <1>4, TarTyped, WireChunks, IntactOpens DEF Intact
  <2> QED BY <1>3, <1>4, <2>1, <2>2
<1> QED BY <1>3, <1>4 DEF PreambleAltered

-----------------------------------------------------------------------------
(* The decrypting stream: a piece of the upload.                           *)

\* The larger of two and a number.
LEMMA MaxOfTwo == ASSUME NEW x \in Nat PROVE Max({2, x}) = IF x < 2 THEN 2 ELSE x
<1>1. PICK b \in Nat : 2 <= b /\ x <= b
  <2>1. x + 2 \in Nat /\ 2 <= x + 2 /\ x <= x + 2
    OBVIOUS
  <2> QED BY <2>1
<1>2. {2, x} \in SUBSET Nat /\ {2, x} # {} /\ \A n \in {2, x} : n <= b
  BY <1>1
<1>3. Max({2, x}) \in {2, x} /\ \A n \in {2, x} : n <= Max({2, x})
  BY <1>2, HighestIsMax
<1> QED BY <1>3

\* A write keeps what has been decrypted and where it stopped.
LEMMA DeliverKeeps ==
  ASSUME StreamTypeOK, CipherInv, Deliver
  PROVE  StreamTypeOK' /\ CipherInv'
<1> DEFINE T == Tar(bundle)
           F == Full(T)
           W == Chunk + 1
           from == Max({2, opened})
           full(to) == Drainable(from, to)
           Opening(m) == \A i \in 1 .. m : Opens(Nth(from, i), pulls + i)
           good(to) == Max({m \in 0 .. full(to) : Opening(m)})
<1>1. PICK k \in 1 .. MaxPiece :
        /\ arrived + k <= Len(wire)
        /\ arrived' = arrived + k
        /\ IF arrived + k < 2
             THEN UNCHANGED <<opened, pulls, plain, failure>>
             ELSE /\ opened' = from + good(arrived + k) * (Chunk + 1)
                  /\ pulls' = pulls + good(arrived + k)
                  /\ plain' = plain \o
                       FlattenSeq([i \in 1 .. good(arrived + k) |-> PlainOf(Nth(from, i))])
                  /\ \/ failure' = IF good(arrived + k) < full(arrived + k) THEN "auth" ELSE failure
                     \/ /\ arrived < 2 /\ PreambleAltered
                        /\ failure' \in {"header", "kdf"}
  BY DEF Deliver
<1>2. /\ Decrypting
      /\ UNCHANGED <<bundle, wire, aborts, password, occupied, verified, taken, entry, left, count>>
      /\ UNCHANGED <<imported, stagedBlobs, verdict>>
  BY DEF Deliver, input, cursor, stagingArea
<1>3. /\ bundle \in Bundles /\ wire \in Seq(WireCell) /\ plain \in Seq(PlainCell)
      /\ arrived \in Nat /\ opened \in Nat /\ pulls \in Nat /\ Len(wire) \in Nat
      /\ failure = "none" /\ verified = FALSE
  BY <1>2, TarTyped, LenProperties DEF StreamTypeOK, Decrypting
<1>4. /\ T \in Seq(PlainCell) /\ F \in Nat /\ Len(T) \in Nat
      /\ Chunk \in Nat /\ Chunk >= 1 /\ MaxPiece \in Nat
  BY <1>3, TarTyped, FullFacts, StreamAssumption
<1>5. /\ pulls > 0 => password /\ readHeader
      /\ plain = SubSeq(T, 1, Len(plain)) /\ Len(plain) <= Len(T)
      /\ pulls = 0 => plain = <<>>
      /\ pulls <= F /\ Len(plain) = PlainEnd(pulls)
      /\ opened = IF arrived < 2 THEN 0 ELSE WireEnd(pulls)
      /\ opened <= arrived
      /\ arrived < 2 => pulls = 0
      /\ arrived >= 2 => arrived <= opened + Chunk
      /\ arrived >= 2 /\ password /\ readHeader => SameUpTo(wire, T, opened)
  BY <1>2, CipherPlaces, Zenon DEF CipherAt, DecryptingAt
<1>6. /\ T' = T /\ F' = F /\ readHeader' = readHeader /\ Intact' = Intact
      /\ PreambleAltered' = PreambleAltered
      /\ \A c : SameUpTo(wire, T, c)' <=> SameUpTo(wire, T, c)
  BY <1>2 DEF readHeader, PreambleAltered, Intact, SameUpTo
<1>7. arrived' \in Nat /\ arrived' <= Len(wire) /\ arrived' >= arrived
  BY <1>1, <1>3, <1>4
<1>8. CASE arrived + k < 2
  <2>1. UNCHANGED <<opened, pulls, plain, failure>> /\ arrived < 2 /\ arrived' < 2
    BY <1>1, <1>3, <1>4, <1>8
  <2>2. opened' = 0 /\ pulls' = 0 /\ opened = 0 /\ pulls = 0
    BY <1>5, <2>1
  <2>3. StreamTypeOK'
    BY <1>2, <1>3, <1>4, <1>7, <2>1, <2>2 DEF StreamTypeOK
  <2>4. Decrypting'
    BY <1>2, <2>1 DEF Decrypting
  <2>5. DecryptingAt'
    <3>1. PlainEnd(pulls') = PlainEnd(pulls) /\ Chunk' = Chunk
      BY <2>1
    <3>2. pulls' <= F' /\ Len(plain') = PlainEnd(pulls')
      BY <1>5, <1>6, <2>1, <3>1
    <3>3. opened' <= arrived'
      BY <1>7, <2>2
    <3>4. ~(arrived' >= 2)
      BY <1>7, <2>1
    <3> QED BY <2>1, <2>2, <3>1, <3>2, <3>3, <3>4 DEF DecryptingAt
  <2>6. CipherAt'
    BY <1>2, <1>3, <1>5, <1>6, <2>1, <2>2, <2>5 DEF CipherAt
  <2> QED BY <2>3, <2>6, CipherPlaces
<1>9. CASE ~(arrived + k < 2)
  <2> DEFINE fl == full(arrived + k)
             g == good(arrived + k)
             M == {m \in 0 .. fl : Opening(m)}
  <2>1. from = WireEnd(pulls) /\ from \in Nat /\ from <= arrived + k
    <3>1. from = IF opened < 2 THEN 2 ELSE opened
      BY <1>3, MaxOfTwo
    <3>2. CASE arrived < 2
      BY <1>3, <1>5, <1>9, <3>1, <3>2, EndFacts
    <3>3. CASE ~(arrived < 2)
      <4>1. opened = WireEnd(pulls) /\ WireEnd(pulls) >= 2 /\ opened <= arrived
        BY <1>3, <1>5, <3>3, EndFacts
      <4> QED BY <1>3, <3>1, <4>1
    <3> QED BY <3>2, <3>3
  <2>2. /\ fl \in Nat /\ fl * W \in Nat /\ fl * W <= (arrived + k) - from
        /\ (arrived + k) - from < fl * W + W
    <3>1. (arrived + k) - from \in Nat /\ W \in Nat \ {0}
      BY <1>3, <1>4, <2>1
    <3>2. fl = ((arrived + k) - from) \div W
      BY DEF Drainable
    <3> HIDE DEF fl, from, W
    <3>3. fl \in Nat /\ fl * W <= (arrived + k) - from /\ (arrived + k) - from < fl * W + W
      BY <3>1, <3>2, Division
    <3>4. fl * W \in Nat
      BY <3>1, <3>3, Multiples
    <3> QED BY <3>3, <3>4
  <2>3. g \in 0 .. fl /\ Opening(g) /\ \A m \in 0 .. fl : Opening(m) => m <= g
    <3>1. g = Max(M)
      OBVIOUS
    <3>2. Opening(0)
      OBVIOUS
    <3> HIDE DEF fl, g, Opening
    <3>3. M \in SUBSET Nat /\ 0 \in M /\ \A m \in M : m <= fl
      BY <2>2, <3>2
    <3>4. M # {}
      BY <3>3
    <3>5. Max(M) \in M /\ \A m \in M : m <= Max(M)
      <4> HIDE DEF M
      <4> QED BY <2>2, <3>3, <3>4, HighestIsMax
    <3> QED BY <3>1, <3>5
  <2> HIDE DEF M
  <2>4. /\ WireEnd(pulls + g) = from + g * W /\ WireEnd(pulls + fl) = from + fl * W
        /\ WireEnd(pulls + g) <= WireEnd(pulls + fl)
        /\ WireEnd(pulls + g) \in Nat /\ WireEnd(pulls + fl) \in Nat
        /\ g \in Nat /\ pulls + g \in Nat
    <3> HIDE DEF g, fl, from
    <3>1. g \in Nat /\ g <= fl /\ pulls + g \in Nat /\ pulls + fl \in Nat
      BY <1>3, <2>2, <2>3
    <3>2. pulls + g <= pulls + fl
      BY <1>3, <2>2, <3>1
    <3> QED BY <1>3, <2>1, <2>2, <3>1, <3>2, EndFacts
  <2>5. /\ WireEnd(pulls + fl) <= arrived + k /\ arrived + k <= WireEnd(pulls + fl) + Chunk
        /\ WireEnd(pulls + g) <= arrived + k /\ WireEnd(pulls + g) <= Len(wire)
    <3>1. PICK x \in Nat, y \in Nat, z \in Nat, t \in Nat :
            /\ x = WireEnd(pulls + g) /\ y = WireEnd(pulls + fl) /\ z = fl * W
            /\ t = from
      BY <2>1, <2>2, <2>4
    <3>2. y = t + z /\ x <= y /\ z <= (arrived + k) - t /\ (arrived + k) - t < z + (Chunk + 1)
      BY <2>2, <2>4, <3>1
    <3>3. arrived + k \in Nat /\ arrived + k <= Len(wire)
      BY <1>1, <1>3, <1>4
    <3> HIDE DEF g, fl, from
    <3>4. y <= arrived + k /\ arrived + k <= y + Chunk /\ x <= arrived + k /\ x <= Len(wire)
      BY <1>3, <1>4, <3>2, <3>3
    <3> QED BY <3>1, <3>4
  <2>6. \A i \in 1 .. fl : Nth(from, i) =
          SubSeq(wire, WireEnd(pulls + i - 1) + 1, WireEnd(pulls + i))
    <3> TAKE i \in 1 .. fl
    <3>1. i \in Nat /\ i - 1 \in Nat /\ pulls + (i - 1) = pulls + i - 1
      BY <1>3, <2>2
    <3>2. /\ WireEnd(pulls) + i * (Chunk + 1) = WireEnd(pulls + i)
          /\ WireEnd(pulls) + (i - 1) * (Chunk + 1) = WireEnd(pulls + (i - 1))
      BY <1>3, <3>1, EndFacts
    <3> HIDE DEF from
    <3>3. Nth(from, i) = SubSeq(wire, from + (i - 1) * (Chunk + 1) + 1, from + i * (Chunk + 1))
      BY Zenon DEF Nth
    <3> QED BY <2>1, <3>1, <3>2, <3>3, Zenon
  <2> HIDE DEF fl, g, from
  <2>7. \A i \in 1 .. g : i \in 1 .. fl
    BY <2>2, <2>3
  <2>8. \A i \in 1 .. g : /\ password /\ readHeader
                          /\ Nth(from, i) = Sealed(T, pulls + i)
    BY <2>3 DEF Opens
  <2>9. /\ pulls + g <= F
        /\ \A i \in 1 .. g : Sealed(T, pulls + i)[1].chunk = pulls + i
        /\ SubSeq(T, 1, PlainEnd(pulls)) \o Upto([i \in 1 .. g |-> ChunkOf(T, pulls + i)], g)
              = SubSeq(T, 1, PlainEnd(pulls + g))
        /\ SameUpTo(wire, T, WireEnd(pulls)) => SameUpTo(wire, T, WireEnd(pulls + g))
    <3>1. \A i \in 1 .. g :
            SubSeq(wire, WireEnd(pulls + i - 1) + 1, WireEnd(pulls + i)) = Sealed(T, pulls + i)
      BY <2>6, <2>7, <2>8
    <3> HIDE DEF T
    <3> QED BY <1>3, <1>4, <1>5, <2>4, <2>5, <3>1, Drained
  <2>10. /\ opened' = WireEnd(pulls + g) /\ pulls' = pulls + g
         /\ plain' = plain \o FlattenSeq([i \in 1 .. g |-> PlainOf(Nth(from, i))])
         /\ \/ failure' = IF g < fl THEN "auth" ELSE failure
            \/ arrived < 2 /\ PreambleAltered /\ failure' \in {"header", "kdf"}
    <3>1. /\ opened' = from + g * (Chunk + 1) /\ pulls' = pulls + g
          /\ plain' = plain \o FlattenSeq([i \in 1 .. g |-> PlainOf(Nth(from, i))])
          /\ \/ failure' = IF g < fl THEN "auth" ELSE failure
             \/ arrived < 2 /\ PreambleAltered /\ failure' \in {"header", "kdf"}
      BY <1>1, <1>9 DEF fl, g, from
    <3> QED BY <2>4, <3>1
  <2>11. plain' = SubSeq(T, 1, PlainEnd(pulls + g))
    <3>1. [i \in 1 .. g |-> PlainOf(Nth(from, i))]
            = [i \in 1 .. g |-> [j \in 1 .. g |-> ChunkOf(T, pulls + j)][i]]
      <4>1. \A i \in 1 .. g : PlainOf(Nth(from, i)) = ChunkOf(T, pulls + i)
        BY <2>8, <2>9 DEF PlainOf
      <4> QED BY <4>1
    <3>2. plain' = plain \o Upto([i \in 1 .. g |-> ChunkOf(T, pulls + i)], g)
      BY <2>10, <3>1, Zenon DEF Upto
    <3>3. plain = SubSeq(T, 1, PlainEnd(pulls))
      BY <1>5
    <3> QED BY <2>9, <3>2, <3>3
  <2>12. /\ PlainEnd(pulls + g) \in Nat /\ PlainEnd(pulls + g) <= Len(T)
         /\ PlainEnd(pulls) \in Nat /\ PlainEnd(pulls) <= PlainEnd(pulls + g)
    <3>1. pulls <= pulls + g
      BY <1>3, <2>4
    <3> HIDE DEF T
    <3> QED BY <1>3, <1>4, <2>4, <2>9, <3>1, PlainChunks, EndFacts
  <2>13. plain' \in Seq(PlainCell) /\ Len(plain') = PlainEnd(pulls + g)
    <3> HIDE DEF T
    <3>1. 0 <= PlainEnd(pulls + g) /\ 0 \in Nat /\ 0 + 1 = 1
      BY <2>12
    <3>2. /\ SubSeq(T, 0 + 1, PlainEnd(pulls + g)) \in Seq(PlainCell)
          /\ Len(SubSeq(T, 0 + 1, PlainEnd(pulls + g))) = PlainEnd(pulls + g) - 0
      BY <1>4, <2>12, <3>1, SliceLength
    <3>3. PlainEnd(pulls + g) - 0 = PlainEnd(pulls + g)
      BY <2>12
    <3> QED BY <2>11, <3>1, <3>2, <3>3
  <2>14. \/ failure' = "auth" \/ failure' = "header" \/ (failure' = "kdf" /\ PreambleAltered)
         \/ (failure' = "none" /\ g = fl)
    BY <1>3, <2>2, <2>3, <2>10
  <2>15. failure' \in {"auth", "header"} => ~(password /\ Intact)
    <3> SUFFICES ASSUME password, Intact, failure' # "none" PROVE FALSE
      BY <2>14
    <3>1. readHeader /\ ~PreambleAltered
      BY <1>3, IntactHeader
    <3>2. g < fl
      BY <1>3, <2>10, <3>1
    <3>3. wire = Encrypted(T)
      BY DEF Intact
    <3>4. PICK q \in Nat : q = pulls + g /\ pulls + (g + 1) = q + 1 /\ q <= F
                          /\ pulls + (g + 1) - 1 = q
      BY <1>3, <2>4, <2>9
    <3>5. WireEnd(q + 1) <= Len(wire)
      <4>1. q + 1 <= pulls + fl /\ q + 1 \in Nat /\ pulls + fl \in Nat
        BY <1>3, <2>2, <2>4, <3>2, <3>4
      <4>2. WireEnd(q + 1) <= WireEnd(pulls + fl) /\ WireEnd(q + 1) \in Nat
        BY <4>1, EndFacts
      <4>3. arrived + k \in Nat /\ arrived + k <= Len(wire)
        BY <1>1, <1>3, <1>4
      <4> QED BY <1>3, <2>4, <2>5, <4>2, <4>3
    <3>6. SubSeq(wire, WireEnd(q) + 1, WireEnd(q + 1)) = Sealed(T, q + 1)
      <4> HIDE DEF T
      <4> QED BY <1>4, <3>3, <3>4, <3>5, IntactOpens
    <3>7. g + 1 \in 1 .. fl /\ g + 1 \in 0 .. fl
      BY <2>2, <2>4, <3>2
    <3>8. Nth(from, g + 1) = Sealed(T, pulls + (g + 1))
      BY <2>6, <3>4, <3>6, <3>7
    <3>9. Opening(g + 1)
      <4>1. \A i \in 1 .. g + 1 : i \in 1 .. g \/ i = g + 1
        BY <2>4
      <4> QED BY <2>8, <3>1, <3>8, <4>1 DEF Opens
    <3> HIDE DEF Opening
    <3>10. g + 1 <= g
      BY <2>3, <3>7, <3>9
    <3> QED BY <2>4, <3>10
  <2>16. pulls' > 0 => password /\ readHeader
    <3>1. CASE g = 0
      BY <1>3, <1>5, <2>4, <2>10, <3>1
    <3>2. CASE g # 0
      <4>1. 1 \in 1 .. g
        BY <2>4, <3>2
      <4> QED BY <2>8, <4>1
    <3> QED BY <3>1, <3>2
  <2>17. pulls' = 0 => plain' = <<>>
    <3> SUFFICES ASSUME pulls' = 0 PROVE plain' = <<>>
      OBVIOUS
    <3>1. pulls + g = 0
      BY <2>10
    <3>2. Len(plain') = 0
      BY <2>13, <3>1, EndFacts
    <3> QED BY <2>13, <3>2, EmptySeq
  <2>18. arrived' = arrived + k /\ ~(arrived' < 2) /\ arrived' \in Nat
    BY <1>1, <1>7, <1>9
  <2>19. WireEnd(pulls + g) \in 2 .. Len(wire) /\ WireEnd(pulls + g) <= arrived'
    BY <1>3, <2>4, <2>5, <2>18, EndFacts
  <2>20. StreamTypeOK'
    <3>1. pulls' \in 0 .. F + 1
      BY <1>4, <2>4, <2>9, <2>10
    <3>2. taken' \in 0 .. Len(plain')
      <4>1. taken \in 0 .. PlainEnd(pulls)
        BY <1>5 DEF StreamTypeOK
      <4> QED BY <1>2, <2>12, <2>13, <4>1
    <3>3. failure' \in {"none", "header", "kdf", "auth", "upload"}
      BY <2>14
    <3>4. arrived' \in 0 .. Len(wire) /\ opened' \in {0} \union 2 .. Len(wire)
      BY <1>3, <1>7, <2>10, <2>19
    <3> QED BY <1>2, <1>6, <2>13, <3>1, <3>2, <3>3, <3>4 DEF StreamTypeOK
  <2>21. DecryptingAt' \/ failure' # "none"
    <3> SUFFICES ASSUME failure' = "none" PROVE DecryptingAt'
      OBVIOUS
    <3>1. g = fl
      BY <2>14
    <3>2. pulls' <= F' /\ Len(plain') = PlainEnd(pulls')
      BY <1>6, <2>9, <2>10, <2>13
    <3>3. opened' = WireEnd(pulls') /\ opened' <= arrived'
      BY <2>10, <2>19
    <3>4. arrived' <= opened' + Chunk
      BY <2>5, <2>10, <2>18, <3>1
    <3>5. password' /\ readHeader' => SameUpTo(wire', Tar(bundle'), opened')
      <4> SUFFICES ASSUME password, readHeader PROVE SameUpTo(wire, T, WireEnd(pulls + g))
        BY <1>2, <1>6, <2>10
      <4>1. SameUpTo(wire, T, WireEnd(pulls))
        <5>1. CASE arrived < 2
          <6>1. WireEnd(pulls) = 2 /\ SubSeq(wire, 1, 2) = Header
            BY <1>5, <5>1, EndFacts DEF readHeader
          <6>2. SubSeq(Encrypted(T), 1, 2) = Header
            <7> HIDE DEF T
            <7> QED BY <1>4, WireChunks
          <6> QED BY <6>1, <6>2 DEF SameUpTo
        <5>2. CASE ~(arrived < 2)
          <6>1. arrived >= 2
            BY <1>3, <5>2
          <6> QED BY <1>5, <5>2, <6>1
        <5> QED BY <5>1, <5>2
      <4> QED BY <2>9, <4>1
    <3> QED BY <1>2, <1>6, <2>18, <3>2, <3>3, <3>4, <3>5
            DEF DecryptingAt, PlainEnd, WireEnd, SameUpTo
  <2>22. CipherAt'
    <3>1. plain' = SubSeq(T, 1, Len(plain')) /\ Len(plain') <= Len(T)
      BY <2>11, <2>12, <2>13
    <3>2. /\ failure' # "upload" /\ verified' = FALSE
          /\ (failure' = "kdf" => PreambleAltered')
      BY <1>2, <1>3, <1>6, <2>14
    <3>3. (failure' \in {"auth", "header"} => ~(password' /\ Intact'))
      BY <1>2, <1>6, <2>15
    <3>4. (pulls' > 0 => password' /\ readHeader')
      BY <1>2, <1>6, <2>16
    <3>5. Decrypting' => DecryptingAt'
      BY <2>21 DEF Decrypting
    <3> QED BY <1>6, <2>17, <3>1, <3>2, <3>3, <3>4, <3>5 DEF CipherAt
  <2> QED BY <2>20, <2>22, CipherPlaces
<1> QED BY <1>8, <1>9

-----------------------------------------------------------------------------
(* The decrypting stream: its end.                                         *)

\* The end of the file: the final chunk, or an error that is the file's or the password's.
LEMMA FlushKeeps ==
  ASSUME StreamTypeOK, CipherInv, Flush
  PROVE  StreamTypeOK' /\ CipherInv'
<1> DEFINE T == Tar(bundle)
           F == Full(T)
<1>1. /\ Decrypting /\ arrived = Len(wire) /\ UNCHANGED arrived
      /\ UNCHANGED <<bundle, wire, aborts, password, occupied, taken, entry, left, count>>
      /\ UNCHANGED <<imported, stagedBlobs, verdict>>
  BY DEF Flush, input, cursor, stagingArea
<1>2. \/ arrived < 2 /\ failure' = "header" /\ UNCHANGED <<verified, plain, opened, pulls>>
      \/ /\ ~(arrived < 2) /\ Remainder # <<>> /\ Opens(Remainder, pulls + 1)
         /\ plain' = plain \o PlainOf(Remainder)
         /\ opened' = Len(wire) /\ pulls' = pulls + 1
         /\ verified' = IsFinal(Remainder)
         /\ failure' = IF IsFinal(Remainder) THEN failure ELSE "auth"
      \/ /\ ~(arrived < 2) /\ ~(Remainder # <<>> /\ Opens(Remainder, pulls + 1))
         /\ failure' = "auth" /\ UNCHANGED <<verified, plain, opened, pulls>>
  BY DEF Flush
<1>3. /\ bundle \in Bundles /\ wire \in Seq(WireCell) /\ plain \in Seq(PlainCell)
      /\ arrived \in Nat /\ opened \in Nat /\ pulls \in Nat /\ Len(wire) \in Nat
      /\ failure = "none" /\ verified = FALSE
  BY <1>1, TarTyped, LenProperties DEF StreamTypeOK, Decrypting
<1>4. /\ T \in Seq(PlainCell) /\ F \in Nat /\ Len(T) \in Nat
      /\ Chunk \in Nat /\ Chunk >= 1
  BY <1>3, TarTyped, FullFacts
<1>5. /\ pulls > 0 => password /\ readHeader
      /\ plain = SubSeq(T, 1, Len(plain)) /\ Len(plain) <= Len(T)
      /\ pulls = 0 => plain = <<>>
      /\ pulls <= F /\ Len(plain) = PlainEnd(pulls)
      /\ opened = IF arrived < 2 THEN 0 ELSE WireEnd(pulls)
      /\ opened <= arrived
      /\ arrived >= 2 => arrived <= opened + Chunk
      /\ arrived >= 2 /\ password /\ readHeader => SameUpTo(wire, T, opened)
  BY <1>1, CipherPlaces, Zenon DEF CipherAt, DecryptingAt
<1>6. /\ T' = T /\ F' = F /\ readHeader' = readHeader /\ Intact' = Intact
  BY <1>1 DEF readHeader, Intact
<1>7. ASSUME failure' \in {"header", "auth"}, ~(password /\ Intact),
             UNCHANGED <<verified, plain, opened, pulls>>
      PROVE  StreamTypeOK' /\ CipherAt'
  <2>1. StreamTypeOK'
    BY <1>1, <1>6, <1>7 DEF StreamTypeOK
  <2>2. ~Decrypting' /\ failure' # "upload" /\ verified' = FALSE
    BY <1>3, <1>7 DEF Decrypting
  <2>3. ~(password' /\ Intact')
    BY <1>1, <1>6, <1>7
  <2> QED BY <1>1, <1>5, <1>6, <1>7, <2>1, <2>2, <2>3 DEF CipherAt
<1>8. CASE arrived < 2
  <2>1. failure' = "header" /\ UNCHANGED <<verified, plain, opened, pulls>>
    BY <1>2, <1>8
  <2>2. ~Intact
    BY <1>1, <1>3, <1>8, IntactHeader
  <2> QED BY <1>7, <2>1, <2>2, CipherPlaces
<1>9. CASE ~(arrived < 2)
  <2>1. /\ opened = WireEnd(pulls) /\ WireEnd(pulls) <= Len(wire)
        /\ Len(wire) <= WireEnd(pulls) + Chunk
        /\ Remainder = SubSeq(wire, WireEnd(pulls) + 1, Len(wire))
    <3>1. opened = WireEnd(pulls) /\ arrived >= 2
      BY <1>3, <1>5, <1>9
    <3>2. arrived <= opened + Chunk /\ opened <= arrived
      BY <1>5, <3>1
    <3> QED BY <1>1, <3>1, <3>2 DEF Remainder
  <2>2. CASE Opens(Remainder, pulls + 1) /\ Remainder # <<>>
    <3>1. /\ plain' = plain \o PlainOf(Remainder)
          /\ opened' = Len(wire) /\ pulls' = pulls + 1
          /\ verified' = IsFinal(Remainder)
          /\ failure' = IF IsFinal(Remainder) THEN failure ELSE "auth"
      BY <1>2, <1>9, <2>2
    <3>2. password /\ readHeader /\ Remainder = Sealed(T, pulls + 1)
      BY <2>2 DEF Opens
    <3> HIDE DEF T
    <3>3. /\ pulls = F /\ Sealed(T, pulls + 1)[1].chunk = pulls + 1
          /\ SameUpTo(wire, T, WireEnd(pulls)) => wire = Encrypted(T)
      BY <1>3, <1>4, <1>5, <2>1, <3>2, FinalOpens
    <3>4. Intact
      <4>1. SameUpTo(wire, T, opened)
        BY <1>3, <1>5, <1>9, <3>2
      <4> QED BY <2>1, <3>3, <4>1 DEF Intact, T
    <3>5. IsFinal(Remainder) /\ PlainOf(Remainder) = ChunkOf(T, pulls + 1)
      BY <3>2, <3>3 DEF IsFinal, PlainOf, T
    <3>6. plain' = T
      <4>1. SubSeq(T, 1, PlainEnd(pulls)) \o ChunkOf(T, pulls + 1) = T
        BY <1>3, <1>4, <1>5, <3>3, PlainChunks
      <4>2. plain = SubSeq(T, 1, PlainEnd(pulls))
        BY <1>5
      <4> QED BY <3>1, <3>5, <4>1, <4>2
    <3>7. verified' = TRUE /\ failure' = "none"
      BY <1>3, <3>1, <3>5
    <3>8. StreamTypeOK'
      <4>1. pulls' \in 0 .. F + 1
        BY <1>4, <1>3, <3>1, <3>3
      <4>2. taken' \in 0 .. Len(plain') /\ plain' \in Seq(PlainCell)
        <5>1. taken \in 0 .. Len(plain) /\ Len(plain) \in Nat
          BY <1>3, LenProperties DEF StreamTypeOK
        <5> QED BY <1>1, <1>4, <1>5, <3>6, <5>1
      <4>3. opened' \in {0} \union 2 .. Len(wire)
        BY <1>1, <1>3, <1>9, <3>1
      <4>4. arrived \in 0 .. Len(wire)
        BY <1>1, <1>3
      <4> QED BY <1>1, <1>6, <3>7, <4>1, <4>2, <4>3, <4>4 DEF StreamTypeOK, T
    <3>9. CipherAt'
      <4>1. T = SubSeq(T, 1, Len(T)) /\ Len(T) <= Len(T)
        BY <1>4, SubSeqFull
      <4>2. ~Decrypting'
        BY <3>7 DEF Decrypting
      <4>3. pulls' # 0 /\ password' /\ readHeader' /\ Intact'
        BY <1>1, <1>3, <1>6, <3>1, <3>2, <3>4
      <4> QED BY <1>6, <3>6, <3>7, <4>1, <4>2, <4>3 DEF CipherAt, T
    <3> QED BY <3>8, <3>9, CipherPlaces
  <2>3. CASE ~(Remainder # <<>> /\ Opens(Remainder, pulls + 1))
    <3>1. failure' = "auth" /\ UNCHANGED <<verified, plain, opened, pulls>>
      BY <1>2, <1>9, <2>3
    <3>2. ~(password /\ Intact)
      <4> SUFFICES ASSUME password, Intact PROVE FALSE
        OBVIOUS
      <4>1. readHeader /\ wire = Encrypted(T)
        BY <1>3, IntactHeader DEF Intact
      <4>2. Remainder = Sealed(T, pulls + 1) /\ Remainder # <<>>
        <5> HIDE DEF T
        <5> QED BY <1>3, <1>4, <1>5, <2>1, <4>1, IntactOpens
      <4> QED BY <2>3, <4>1, <4>2 DEF Opens
    <3> QED BY <1>7, <3>1, <3>2, CipherPlaces
  <2> QED BY <2>2, <2>3
<1> QED BY <1>8, <1>9

\* The upload is cut off.
LEMMA AbortKeeps ==
  ASSUME StreamTypeOK, CipherInv, Abort
  PROVE  StreamTypeOK' /\ CipherInv'
<1>1. /\ UNCHANGED <<arrived, opened, pulls, plain, verified, bundle, wire, aborts, password>>
      /\ UNCHANGED <<occupied, taken, entry, left, count, imported, stagedBlobs, verdict>>
      /\ failure' = "upload" /\ aborts /\ verified = FALSE
  BY DEF Abort, input, cursor, stagingArea, Decrypting, StreamTypeOK
<1>2. StreamTypeOK'
  BY <1>1 DEF StreamTypeOK
<1>3. CipherAt'
  <2>1. ~Decrypting' /\ readHeader' = readHeader
    BY <1>1 DEF Decrypting, readHeader
  <2> QED BY <1>1, <2>1, CipherPlaces DEF CipherAt
<1> QED BY <1>2, <1>3, CipherPlaces

-----------------------------------------------------------------------------
(* Types, and the beginning.                                               *)

\* However a file is damaged on its way, it is a sequence of cells.
LEMMA DeliveredTyped ==
  ASSUME NEW w \in Seq(WireCell), NEW d \in Delivered(w)
  PROVE  d \in Seq(WireCell)
<1>1. Bad \in WireCell /\ <<Bad>> \in Seq(WireCell) /\ Len(w) \in Nat
  BY LenProperties DEF Bad, WireCell
<1>2. \A a, b \in Nat : SubSeq(w, a, b) \in Seq(WireCell) \/ ~(1 <= a /\ b <= Len(w))
  <2> TAKE a, b \in Nat
  <2> SUFFICES ASSUME 1 <= a, b <= Len(w) PROVE SubSeq(w, a, b) \in Seq(WireCell)
    OBVIOUS
  <2>1. \A i \in a .. b : i \in 1 .. Len(w)
    BY <1>1
  <2>2. \A i \in a .. b : w[i] \in WireCell
    BY <2>1, ElementOfSeq
  <2> QED BY <2>2, SubSeqProperties
<1>3. ASSUME NEW k \in 0 .. Len(w) - 1, d = SubSeq(w, 1, k) PROVE d \in Seq(WireCell)
  BY <1>1, <1>2, <1>3
<1>4. ASSUME NEW k \in 1 .. Len(w), d = [w EXCEPT ![k] = Bad] PROVE d \in Seq(WireCell)
  BY <1>1, <1>4
<1>5. ASSUME NEW k \in 1 .. Len(w), d = RemoveAt(w, k) PROVE d \in Seq(WireCell)
  <2>1. /\ k - 1 \in Nat /\ 1 \in Nat /\ k + 1 \in Nat /\ 1 <= k + 1
        /\ k - 1 <= Len(w) /\ Len(w) <= Len(w) /\ 1 <= 1
    BY <1>1
  <2>2. SubSeq(w, 1, k - 1) \in Seq(WireCell) /\ SubSeq(w, k + 1, Len(w)) \in Seq(WireCell)
    BY <1>1, <1>2, <2>1
  <2> QED BY <1>5, <2>2, ConcatProperties DEF RemoveAt
<1>6. ASSUME NEW k \in 1 .. Len(w) + 1, d = InsertAt(w, k, Bad) PROVE d \in Seq(WireCell)
  <2>1. /\ k - 1 \in Nat /\ 1 \in Nat /\ k \in Nat /\ 1 <= k
        /\ k - 1 <= Len(w) /\ Len(w) <= Len(w) /\ 1 <= 1
    BY <1>1
  <2>2. SubSeq(w, 1, k - 1) \in Seq(WireCell) /\ SubSeq(w, k, Len(w)) \in Seq(WireCell)
    BY <1>1, <1>2, <2>1
  <2>3. SubSeq(w, 1, k - 1) \o <<Bad>> \in Seq(WireCell)
    BY <1>1, <2>2, ConcatProperties
  <2> QED BY <1>6, <2>2, <2>3, ConcatProperties DEF InsertAt
<1>7. ASSUME NEW n \in 1 .. ((Len(w) - 2) \div (Chunk + 1)) - 1,
             d = ChunksSwapped(w, 2 + (n - 1) * (Chunk + 1))
      PROVE  d \in Seq(WireCell)
  <2>1. PICK N \in Nat, C \in Nat : N = Len(w) /\ C = Chunk
    BY <1>1, FullFacts, EmptySeq
  <2>2. N >= 2
    <3> SUFFICES ASSUME N < 2 PROVE FALSE
      OBVIOUS
    <3>1. (N - 2) \div (C + 1) <= 0
      OBVIOUS
    <3> QED BY <2>1, <3>1
  <2>3. PICK f \in Nat : f = (N - 2) \div (C + 1) /\ f * (C + 1) <= N - 2
    <3>1. N - 2 \in Nat /\ C + 1 \in Nat \ {0}
      BY <2>2
    <3> QED BY <3>1, Division
  <2>4. n \in Nat /\ n >= 1 /\ n + 1 <= f
    BY <2>1, <2>3
  <2>5. PICK k \in Nat : k = 2 + (n - 1) * (C + 1) /\ k + 2 * (C + 1) <= N
    <3>1. n - 1 \in Nat /\ n - 1 + 1 = n /\ C + 1 \in Nat
      BY <2>4
    <3>2. /\ (n - 1) * (C + 1) \in Nat
          /\ n * (C + 1) = (n - 1) * (C + 1) + (C + 1)
          /\ (n + 1) * (C + 1) = n * (C + 1) + (C + 1)
          /\ (n + 1) * (C + 1) <= f * (C + 1)
      BY <2>4, <3>1, Multiples
    <3>3. PICK x \in Nat, y \in Nat : x = (n - 1) * (C + 1) /\ y = f * (C + 1)
      BY <3>1, <3>2, Multiples
    <3>4. x + (C + 1) + (C + 1) <= y /\ y <= N - 2
      BY <2>3, <3>2, <3>3
    <3>5. 2 + x \in Nat /\ (2 + x) + 2 * (C + 1) <= N
      BY <3>4
    <3> QED BY <3>3, <3>5, Zenon
  <2>6. d = ChunksSwapped(w, k)
    BY <1>7, <2>1, <2>5
  <2>7. \A i \in 1 .. N : w[i] \in WireCell
    BY <2>1, ElementOfSeq
  <2>8. ASSUME NEW i \in 1 .. N
        PROVE (CASE i \in k + 1 .. k + C + 1 -> w[i + C + 1]
                 [] i \in k + C + 2 .. k + 2 * (C + 1) -> w[i - C - 1]
                 [] OTHER -> w[i]) \in WireCell
    <3>1. CASE i \in k + 1 .. k + C + 1
      <4>1. i + C + 1 \in 1 .. N
        BY <2>5, <3>1
      <4>2. ~(i \in k + C + 2 .. k + 2 * (C + 1))
        BY <3>1
      <4> QED BY <2>7, <3>1, <4>1, <4>2
    <3>2. CASE i \in k + C + 2 .. k + 2 * (C + 1)
      <4>1. i - C - 1 \in 1 .. N
        BY <2>5, <3>2
      <4>2. ~(i \in k + 1 .. k + C + 1)
        BY <3>2
      <4> QED BY <2>7, <3>2, <4>1, <4>2
    <3>3. CASE ~(i \in k + 1 .. k + C + 1) /\ ~(i \in k + C + 2 .. k + 2 * (C + 1))
      BY <2>7, <3>3
    <3> QED BY <3>1, <3>2, <3>3
  <2>9. d = [i \in 1 .. N |-> CASE i \in k + 1 .. k + C + 1 -> w[i + C + 1]
                               [] i \in k + C + 2 .. k + 2 * (C + 1) -> w[i - C - 1]
                               [] OTHER -> w[i]]
    BY <2>1, <2>6 DEF ChunksSwapped
  <2> DEFINE v(i) == CASE i \in k + 1 .. k + C + 1 -> w[i + C + 1]
                       [] i \in k + C + 2 .. k + 2 * (C + 1) -> w[i - C - 1]
                       [] OTHER -> w[i]
  <2>10. d = [i \in 1 .. N |-> v(i)]
    BY <2>9
  <2>11. \A i \in 1 .. N : v(i) \in WireCell
    BY <2>8
  <2> HIDE DEF v
  <2> QED BY <2>10, <2>11
<1> QED BY <1>3, <1>4, <1>5, <1>6, <1>7 DEF Delivered

\* A stream that has not begun.
LEMMA StreamInitHolds == StreamInit => StreamInv
<1> SUFFICES ASSUME StreamInit PROVE StreamInv
  OBVIOUS
<1>1. bundle \in Bundles /\ wire \in Seq(WireCell) /\ Len(wire) \in Nat
  <2>1. bundle \in Bundles /\ wire \in Delivered(Encrypted(Tar(bundle)))
    BY DEF StreamInit
  <2> QED BY <2>1, TarTyped, WireChunks, DeliveredTyped, LenProperties
<1>2. Tar(bundle) \in Seq(PlainCell) /\ Full(Tar(bundle)) \in Nat /\ Len(Tar(bundle)) \in Nat
  BY <1>1, TarTyped
<1>3. Len(<<>>) = 0 /\ <<>> \in Seq(PlainCell) /\ <<>> \in Seq(Seq(PlainCell))
  OBVIOUS
<1>4. /\ bundle.bytes \in Nat /\ bundle.blobs \in Nat /\ Len(bundle.entries) \in Nat
      /\ Len(bundle.entries) >= 2
  BY <1>1, BundleFacts
<1>5. StreamTypeOK
  <2>1. /\ 0 \in 0 .. Len(wire) /\ 0 \in 0 .. Full(Tar(bundle)) + 1
        /\ 0 \in 0 .. Len(<<>>) /\ 0 \in 0 .. Len(bundle.entries)
    BY <1>1, <1>2, <1>3, <1>4
  <2> QED BY <1>1, <1>3, <2>1, Zenon DEF StreamInit, StreamTypeOK, Verdicts
<1>6. CipherAt
  <2>1. <<>> = SubSeq(Tar(bundle), 1, 0)
    BY SubSeqEmpty
  <2>2. Decrypting => DecryptingAt
    BY <1>2, <1>3, EndFacts DEF StreamInit, DecryptingAt
  <2> QED BY <1>2, <1>3, <2>1, <2>2 DEF StreamInit, CipherAt
<1>7. CursorInv
  <2>1. CellsUpTo(0) = 0
    BY <1>1, CellsAddUp
  <2> QED BY <1>4, <2>1 DEF StreamInit, CursorInv
<1>8. StagedInv
  BY <1>3 DEF StreamInit, StagedInv
<1>9. StagingStaysBounded
  BY <1>3, <1>4, FlattenEmpty DEF StreamInit, StagingStaysBounded, Bytes
<1>10. OnlyTheWholeBundleIsStaged /\ TheVerdictNamesTheCause
  BY DEF StreamInit, OnlyTheWholeBundleIsStaged, TheVerdictNamesTheCause
<1> QED BY <1>5, <1>6, <1>7, <1>8, <1>9, <1>10, CipherPlaces DEF StreamInv

-----------------------------------------------------------------------------
(* The reader: where it stands in the tar stream.                          *)

\* What the reader does leaves the decryption alone.
LEMMA CipherStands ==
  ASSUME CipherInv, UNCHANGED <<input, cipher>>
  PROVE  CipherInv'
BY DEF CipherInv, input, cipher, Decrypting, readHeader, PreambleAltered, Intact

\* The reader's next cell is the next one that was packed.
LEMMA CellIsPacked ==
  ASSUME StreamTypeOK, CipherInv, Available
  PROVE  /\ Cell = Tar(bundle)[taken + 1] /\ taken + 1 <= Len(Tar(bundle))
         /\ taken \in Nat /\ Len(plain) \in Nat
<1>1. /\ bundle \in Bundles /\ plain \in Seq(PlainCell) /\ taken \in 0 .. Len(plain)
      /\ plain = SubSeq(Tar(bundle), 1, Len(plain)) /\ Len(plain) <= Len(Tar(bundle))
      /\ taken < Len(plain)
  BY DEF StreamTypeOK, CipherInv, Available
<1>2. Tar(bundle) \in Seq(PlainCell) /\ Len(Tar(bundle)) \in Nat
  BY <1>1, TarTyped
<1>3. PICK N \in Nat : N = Len(plain) /\ N <= Len(Tar(bundle)) /\ taken + 1 \in 1 .. N
  <2>1. Len(plain) \in Nat
    BY <1>1, LenProperties
  <2>2. taken + 1 \in 1 .. Len(plain) /\ Len(plain) <= Len(Tar(bundle))
    BY <1>1, <2>1
  <2> QED BY <2>1, <2>2
<1>4. \A i \in 1 .. N : Tar(bundle)[i] \in PlainCell
  <2>1. \A i \in 1 .. N : i \in 1 .. Len(Tar(bundle))
    BY <1>2, <1>3
  <2> QED BY <1>2, <2>1, ElementOfSeq
<1>5. \A i \in 1 .. N - 1 + 1 : SubSeq(Tar(bundle), 1, N)[i] = Tar(bundle)[1 + i - 1]
  BY <1>4, SubSeqProperties
<1>6. taken + 1 \in 1 .. N - 1 + 1 /\ 1 + (taken + 1) - 1 = taken + 1
  BY <1>1, <1>3
<1>7. SubSeq(Tar(bundle), 1, N)[taken + 1] = Tar(bundle)[taken + 1]
  BY <1>5, <1>6
<1> QED BY <1>1, <1>2, <1>3, <1>7 DEF Cell

\* A header the reader meets is that of the entry after the last it read.
LEMMA AtHeader ==
  ASSUME StreamTypeOK, CipherInv, CursorInv, Reading, HeaderNext
  PROVE  /\ bundle \in Bundles /\ left = 0
         /\ entry \in Nat /\ entry < Len(bundle.entries)
         /\ entry + 1 \in 1 .. Len(bundle.entries)
         /\ NextEntry = bundle.entries[entry + 1]
         /\ bundle.entries[entry + 1].size \in Nat
         /\ taken \in Nat /\ taken + 1 \in 0 .. Len(plain)
         /\ taken + 1 = CellsUpTo(entry + 1) - bundle.entries[entry + 1].size
<1> DEFINE n == Len(bundle.entries)
<1>1. /\ bundle \in Bundles /\ entry \in 0 .. n /\ left = 0
      /\ Available /\ Cell.i = 0 /\ Cell.e # 0 /\ n \in Nat /\ n >= 2
  BY BundleFacts DEF StreamTypeOK, HeaderNext
<1>2. /\ Cell = Tar(bundle)[taken + 1] /\ taken + 1 <= Len(Tar(bundle))
      /\ taken \in Nat /\ Len(plain) \in Nat /\ taken < Len(plain)
  BY <1>1, CellIsPacked DEF Available
<1>3. /\ Len(Tar(bundle)) = CellsUpTo(n) + 1
      /\ Tar(bundle)[CellsUpTo(n) + 1] = [e |-> 0, i |-> 0]
      /\ \A k \in 0 .. n : k < n => Tar(bundle)[CellsUpTo(k) + 1] = [e |-> k + 1, i |-> 0]
      /\ CellsUpTo(entry) \in Nat /\ CellsUpTo(n) \in Nat
  <2>1. n \in 0 .. n
    BY <1>1
  <2> QED BY <1>1, <2>1, TarCells, CellsAddUp
<1>4. taken = CellsUpTo(entry)
  <2>1. \/ taken = CellsUpTo(entry) - left
        \/ taken = CellsUpTo(n) + 1
    BY DEF CursorInv
  <2> QED BY <1>1, <1>2, <1>3, <2>1
<1>5. entry < n
  <2> SUFFICES ASSUME entry = n PROVE FALSE
    BY <1>1
  <2>1. Cell = [e |-> 0, i |-> 0]
    BY <1>2, <1>3, <1>4
  <2> QED BY <1>1, <2>1
<1>6. entry + 1 \in 1 .. n /\ (entry + 1) - 1 = entry /\ entry \in Nat
  BY <1>1, <1>5
<1>7. NextEntry = bundle.entries[entry + 1]
  <2>1. Cell = [e |-> entry + 1, i |-> 0]
    BY <1>1, <1>2, <1>3, <1>4, <1>5
  <2> QED BY <2>1 DEF NextEntry
<1>8. bundle.entries[entry + 1].size \in Nat
  BY <1>1, <1>6, BundleFacts
<1>9. CellsUpTo(entry + 1) = CellsUpTo(entry) + bundle.entries[entry + 1].size + 1
  <2>1. CellsUpTo(entry + 1) = CellsUpTo((entry + 1) - 1) + bundle.entries[entry + 1].size + 1
    BY <1>1, <1>6, CellsAddUp
  <2> QED BY <1>6, <2>1
<1>10. taken + 1 = CellsUpTo(entry + 1) - bundle.entries[entry + 1].size
  BY <1>3, <1>4, <1>8, <1>9
<1> QED BY <1>1, <1>2, <1>5, <1>6, <1>7, <1>8, <1>10

\* A cell of content is the next of the entry being read.
LEMMA AtContent ==
  ASSUME StreamTypeOK, CipherInv, CursorInv, Reading, ContentNext
  PROVE  /\ bundle \in Bundles /\ entry \in 1 .. Len(bundle.entries)
         /\ bundle.entries[entry].size \in Nat
         /\ left \in 1 .. bundle.entries[entry].size
         /\ Cell = [e |-> entry, i |-> bundle.entries[entry].size - left + 1]
         /\ taken \in Nat /\ taken + 1 \in 0 .. Len(plain)
         /\ taken + 1 = CellsUpTo(entry) - (left - 1)
<1> DEFINE n == Len(bundle.entries)
<1>1. /\ bundle \in Bundles /\ entry \in 0 .. n /\ left \in Nat /\ left > 0
      /\ Available /\ n \in Nat /\ n >= 2
  BY BundleFacts DEF StreamTypeOK, ContentNext
<1>2. /\ Cell = Tar(bundle)[taken + 1] /\ taken + 1 <= Len(Tar(bundle))
      /\ taken \in Nat /\ Len(plain) \in Nat /\ taken < Len(plain)
  BY <1>1, CellIsPacked DEF Available
<1>3. /\ left <= IF entry = 0 THEN 0 ELSE bundle.entries[entry].size
      /\ taken = CellsUpTo(entry) - left
  BY <1>1 DEF CursorInv
<1>4. entry \in 1 .. n /\ left <= bundle.entries[entry].size
  BY <1>1, <1>3
<1>5. bundle.entries[entry].size \in Nat /\ CellsUpTo(entry) \in Nat
  BY <1>1, <1>4, BundleFacts, CellsAddUp
<1>6. left \in 1 .. bundle.entries[entry].size
  BY <1>1, <1>4, <1>5
<1>7. Tar(bundle)[CellsUpTo(entry) - left + 1]
        = [e |-> entry, i |-> bundle.entries[entry].size - left + 1]
  BY <1>1, <1>4, <1>6, TarCells
<1>8. taken + 1 = CellsUpTo(entry) - (left - 1)
  BY <1>1, <1>3, <1>5
<1> QED BY <1>1, <1>2, <1>3, <1>4, <1>5, <1>6, <1>7, <1>8

\* The blobs that the manifest stands for.
Declared == [b \in 1 .. Len(bundle.entries) - 2 |->
               [i \in 1 .. bundle.entries[b + 2].size |-> b]]

\* What the entry being read declares, and where its cells lie.
LEMMA DeclaredFacts ==
  ASSUME bundle \in Bundles
  PROVE  /\ Len(bundle.entries) - 2 \in Nat
         /\ AllSeqs(Declared, Len(bundle.entries) - 2, Nat)
         /\ \A b \in 1 .. Len(bundle.entries) - 2 :
              Len(Declared[b]) = bundle.entries[b + 2].size
         /\ Bytes(Declared) = Len(Upto(Declared, Len(bundle.entries) - 2))
<1>1. PICK m \in Nat : m = Len(bundle.entries) - 2
  <2>1. Len(bundle.entries) - 2 \in Nat
    BY BundleFacts
  <2> QED BY <2>1
<1>2. ASSUME NEW b \in 1 .. m
      PROVE  Declared[b] \in Seq(Nat) /\ Len(Declared[b]) = bundle.entries[b + 2].size
  <2>1. bundle.entries[b + 2].size \in Nat
    <3>1. b + 2 \in 1 .. Len(bundle.entries)
      BY <1>1, BundleFacts
    <3> QED BY <3>1, BundleFacts
  <2>2. PICK z \in Nat : z = bundle.entries[b + 2].size
    BY <2>1
  <2>3. Declared[b] = [i \in 1 .. z |-> b]
    BY <1>1, <2>2 DEF Declared
  <2> QED BY <2>2, <2>3
<1>3. [b \in 1 .. m |-> Declared[b]] = Declared
  BY <1>1 DEF Declared
<1> QED BY <1>1, <1>2, <1>3 DEF AllSeqs, Bytes, Upto

-----------------------------------------------------------------------------
(* The reader: the manifest, the rows and the end.                         *)

\* The reader takes the header of the first entry.
LEMMA BeginManifestKeeps == StreamInv /\ BeginManifest => StreamInv'
<1> SUFFICES ASSUME StreamInv, BeginManifest PROVE StreamInv'
  OBVIOUS
<1> USE DEF StreamInv
<1>1. /\ UNCHANGED <<bundle, wire, aborts, password, occupied, arrived, opened, pulls, plain>>
      /\ UNCHANGED <<verified, failure, count, imported, stagedBlobs>>
      /\ UNCHANGED <<input, cipher>>
      /\ Reading /\ HeaderNext /\ entry = 0
      /\ taken' = taken + 1 /\ entry' = entry + 1 /\ left' = NextEntry.size
      /\ verdict' = IF NextEntry.name = "manifest.json" THEN verdict ELSE "error"
  BY DEF BeginManifest, Begin, Check, input, cipher, stagingArea
<1>2. /\ bundle \in Bundles /\ entry + 1 \in 1 .. Len(bundle.entries)
      /\ NextEntry = bundle.entries[entry + 1] /\ taken + 1 \in 0 .. Len(plain)
      /\ taken + 1 = CellsUpTo(entry + 1) - bundle.entries[entry + 1].size
      /\ taken \in Nat
  BY <1>1, AtHeader
<1>3. /\ NextEntry.name = "manifest.json" /\ left' = 1 /\ entry' = 1
      /\ bundle.entries[1].size = 1 /\ Len(bundle.entries) \in Nat
      /\ taken' = CellsUpTo(1) - 1
  BY <1>1, <1>2, BundleFacts
<1>4. verdict' = verdict /\ verdict = "none"
  BY <1>1, <1>3 DEF Reading
<1>5. StreamTypeOK'
  BY <1>1, <1>2, <1>3, <1>4 DEF StreamTypeOK
<1>6. CipherInv'
  BY <1>1, CipherStands
<1>7. CursorInv'
  <2>1. CellsUpTo(1)' = CellsUpTo(1)
    BY <1>1 DEF CellsUpTo, EntryCells
  <2> QED BY <1>1, <1>3, <2>1 DEF CursorInv
<1>8. StagedInv'
  BY <1>1, <1>3, <1>4 DEF StagedInv
<1>9. StagingStaysBounded' /\ OnlyTheWholeBundleIsStaged' /\ TheVerdictNamesTheCause'
  BY <1>1, <1>4 DEF StagingStaysBounded, OnlyTheWholeBundleIsStaged, TheVerdictNamesTheCause
<1> QED BY <1>5, <1>6, <1>7, <1>8, <1>9

\* The manifest is read and the instance asked whether it is empty.
LEMMA ReadManifestKeeps == StreamInv /\ ReadManifest => StreamInv'
<1> SUFFICES ASSUME StreamInv, ReadManifest PROVE StreamInv'
  OBVIOUS
<1> USE DEF StreamInv
<1>1. /\ UNCHANGED <<bundle, wire, aborts, password, occupied, arrived, opened, pulls, plain>>
      /\ UNCHANGED <<verified, failure, entry, count, imported, stagedBlobs>>
      /\ UNCHANGED <<input, cipher>>
      /\ Reading /\ ContentNext /\ entry = 1
      /\ taken' = taken + 1 /\ left' = left - 1
      /\ verdict' = IF bundle.version # Version THEN "version_mismatch"
                    ELSE IF occupied THEN "refused_not_empty" ELSE verdict
  BY DEF ReadManifest, Advance, input, cipher, stagingArea
<1>2. /\ bundle \in Bundles /\ left \in 1 .. bundle.entries[entry].size
      /\ taken + 1 \in 0 .. Len(plain) /\ taken + 1 = CellsUpTo(entry) - (left - 1)
      /\ bundle.entries[entry].size \in Nat
  BY <1>1, AtContent
<1>3. left' = 0 /\ bundle.entries[1].size = 1 /\ taken' = CellsUpTo(1) /\ CellsUpTo(1) \in Nat
  <2>1. bundle.entries[1].size = 1 /\ 1 \in 0 .. Len(bundle.entries)
    BY <1>2, BundleFacts
  <2>2. CellsUpTo(1) \in Nat
    BY <1>2, <2>1, CellsAddUp
  <2> QED BY <1>1, <1>2, <2>1, <2>2
<1>4. count = 0 /\ imported = "none" /\ Len(stagedBlobs) = 0 /\ stagedBlobs = <<>>
  <2>1. count = 0 /\ imported = "none" /\ Len(stagedBlobs) = 0
    BY <1>1 DEF StagedInv
  <2>2. stagedBlobs \in Seq(Seq(PlainCell))
    BY DEF StreamTypeOK
  <2> QED BY <2>1, <2>2, EmptySeq
<1>5. StreamTypeOK'
  BY <1>1, <1>2, <1>3 DEF StreamTypeOK, Verdicts
<1>6. CipherInv'
  BY <1>1, CipherStands
<1>7. CursorInv'
  <2>1. CellsUpTo(1)' = CellsUpTo(1)
    BY <1>1 DEF CellsUpTo, EntryCells
  <2> QED BY <1>1, <1>3, <2>1 DEF CursorInv
<1>8. StagedInv'
  <2>1. Reading' => bundle.version = Version /\ ~occupied
    BY <1>1 DEF Reading
  <2> QED BY <1>1, <1>3, <1>4, <2>1 DEF StagedInv
<1>9. StagingStaysBounded' /\ OnlyTheWholeBundleIsStaged' /\ TheVerdictNamesTheCause'
  BY <1>1, <1>4 DEF Reading, StagingStaysBounded, OnlyTheWholeBundleIsStaged,
                    TheVerdictNamesTheCause
<1> QED BY <1>5, <1>6, <1>7, <1>8, <1>9

\* The header of the second entry.
LEMMA BeginRowsKeeps == StreamInv /\ BeginRows => StreamInv'
<1> SUFFICES ASSUME StreamInv, BeginRows PROVE StreamInv'
  OBVIOUS
<1> USE DEF StreamInv
<1>1. /\ UNCHANGED <<bundle, wire, aborts, password, occupied, arrived, opened, pulls, plain>>
      /\ UNCHANGED <<verified, failure, count, stagedBlobs>>
      /\ UNCHANGED <<input, cipher>>
      /\ Reading /\ HeaderNext /\ entry = 1 /\ imported' = "open"
      /\ taken' = taken + 1 /\ entry' = entry + 1 /\ left' = NextEntry.size
      /\ verdict' = IF NextEntry.name = "db.ndjson" THEN verdict ELSE "error"
  BY DEF BeginRows, Begin, Check, input, cipher
<1>2. /\ bundle \in Bundles /\ entry + 1 \in 1 .. Len(bundle.entries) /\ left = 0
      /\ NextEntry = bundle.entries[entry + 1] /\ taken + 1 \in 0 .. Len(plain)
      /\ taken + 1 = CellsUpTo(entry + 1) - bundle.entries[entry + 1].size
      /\ taken \in Nat
  BY <1>1, AtHeader
<1>3. /\ NextEntry.name = "db.ndjson" /\ entry' = 2 /\ left' = bundle.entries[2].size
      /\ left' \in Nat /\ left' > 0 /\ Len(bundle.entries) \in Nat
      /\ taken' = CellsUpTo(2) - left'
  BY <1>1, <1>2, BundleFacts
<1>4. verdict' = verdict /\ verdict = "none"
  BY <1>1, <1>3 DEF Reading
<1>5. StreamTypeOK'
  BY <1>1, <1>2, <1>3, <1>4 DEF StreamTypeOK
<1>6. CipherInv'
  BY <1>1, CipherStands
<1>7. CursorInv'
  <2>1. CellsUpTo(2)' = CellsUpTo(2)
    BY <1>1 DEF CellsUpTo, EntryCells
  <2> QED BY <1>1, <1>3, <2>1 DEF CursorInv
<1>8. StagedInv'
  <2>1. /\ count = 0 /\ Len(stagedBlobs) = count
        /\ bundle.version = Version /\ ~occupied
    BY <1>1, <1>2 DEF StagedInv
  <2>2. count' = 0 /\ Len(stagedBlobs') = count'
    BY <1>1, <2>1
  <2> QED BY <1>1, <1>3, <1>4, <2>1, <2>2 DEF StagedInv
<1>9. StagingStaysBounded' /\ OnlyTheWholeBundleIsStaged' /\ TheVerdictNamesTheCause'
  BY <1>1, <1>4 DEF StagingStaysBounded, OnlyTheWholeBundleIsStaged, TheVerdictNamesTheCause
<1> QED BY <1>5, <1>6, <1>7, <1>8, <1>9

\* The rows are imported.
LEMMA ReadRowsKeeps == StreamInv /\ ReadRows => StreamInv'
<1> SUFFICES ASSUME StreamInv, ReadRows PROVE StreamInv'
  OBVIOUS
<1> USE DEF StreamInv
<1>1. /\ UNCHANGED <<bundle, wire, aborts, password, occupied, arrived, opened, pulls, plain>>
      /\ UNCHANGED <<verified, failure, entry, count, stagedBlobs, verdict>>
      /\ UNCHANGED <<input, cipher>>
      /\ Reading /\ ContentNext /\ entry = 2
      /\ taken' = taken + 1 /\ left' = left - 1
      /\ imported' = IF left = 1 THEN "committed" ELSE imported
  BY DEF ReadRows, Advance, input, cipher
<1>2. /\ bundle \in Bundles /\ left \in 1 .. bundle.entries[2].size
      /\ taken + 1 \in 0 .. Len(plain) /\ taken + 1 = CellsUpTo(2) - (left - 1)
      /\ bundle.entries[2].size \in Nat
  BY <1>1, AtContent
<1>3. left' \in Nat /\ left' <= bundle.entries[2].size /\ taken' = CellsUpTo(2) - left'
  BY <1>1, <1>2
<1>4. /\ count = 0 /\ Len(stagedBlobs) = count /\ imported = "open"
      /\ bundle.version = Version /\ ~occupied
  BY <1>1, <1>2 DEF StagedInv
<1>5. StreamTypeOK'
  BY <1>1, <1>2, <1>3 DEF StreamTypeOK
<1>6. CipherInv'
  BY <1>1, CipherStands
<1>7. CursorInv'
  <2>1. CellsUpTo(2)' = CellsUpTo(2)
    BY <1>1 DEF CellsUpTo, EntryCells
  <2> QED BY <1>1, <1>3, <2>1 DEF CursorInv
<1>8. StagedInv'
  <2>1. count' = 0 /\ Len(stagedBlobs') = count'
    BY <1>1, <1>4
  <2>2. imported' = IF left' > 0 THEN "open" ELSE "committed"
    BY <1>1, <1>2, <1>4
  <2> QED BY <1>1, <1>4, <2>1, <2>2 DEF StagedInv
<1>9. StagingStaysBounded' /\ OnlyTheWholeBundleIsStaged' /\ TheVerdictNamesTheCause'
  BY <1>1 DEF Reading, StagingStaysBounded, OnlyTheWholeBundleIsStaged,
              TheVerdictNamesTheCause
<1> QED BY <1>5, <1>6, <1>7, <1>8, <1>9

\* The end of the archive.
LEMMA ReadEndKeeps == StreamInv /\ ReadEnd => StreamInv'
<1> SUFFICES ASSUME StreamInv, ReadEnd PROVE StreamInv'
  OBVIOUS
<1> USE DEF StreamInv
<1>1. /\ UNCHANGED <<bundle, wire, aborts, password, occupied, arrived, opened, pulls, plain>>
      /\ UNCHANGED <<verified, failure, entry, left, count, imported, stagedBlobs, verdict>>
      /\ UNCHANGED <<input, cipher>>
      /\ Reading /\ Available /\ left = 0 /\ Cell.e = 0
      /\ taken' = taken + 1
  BY DEF ReadEnd, input, cipher, stagingArea
<1>2. /\ bundle \in Bundles /\ entry \in 0 .. Len(bundle.entries) /\ Len(bundle.entries) \in Nat
      /\ Cell = Tar(bundle)[taken + 1] /\ taken + 1 <= Len(Tar(bundle))
      /\ taken \in Nat /\ Len(plain) \in Nat /\ taken < Len(plain)
  BY <1>1, CellIsPacked, BundleFacts DEF StreamTypeOK, Available
<1> DEFINE n == Len(bundle.entries)
<1>3. /\ Len(Tar(bundle)) = CellsUpTo(n) + 1
      /\ \A k \in 0 .. n : k < n => Tar(bundle)[CellsUpTo(k) + 1] = [e |-> k + 1, i |-> 0]
      /\ CellsUpTo(entry) \in Nat /\ CellsUpTo(n) \in Nat
  <2>1. n \in 0 .. n
    BY <1>2
  <2> QED BY <1>2, <2>1, TarCells, CellsAddUp
<1>4. taken = CellsUpTo(entry)
  <2>1. \/ taken = CellsUpTo(entry) - left
        \/ taken = CellsUpTo(n) + 1
    BY <1>1 DEF CursorInv
  <2> QED BY <1>1, <1>2, <1>3, <2>1
<1>5. entry = n
  <2> SUFFICES ASSUME entry < n PROVE FALSE
    BY <1>2
  <2>1. Cell = [e |-> entry + 1, i |-> 0]
    BY <1>2, <1>3, <1>4
  <2>2. entry + 1 = 0
    BY <1>1, <2>1
  <2> QED BY <1>2, <2>2
<1>6. StreamTypeOK'
  BY <1>1, <1>2 DEF StreamTypeOK
<1>7. CipherInv'
  BY <1>1, CipherStands
<1>8. CursorInv'
  <2>1. CellsUpTo(Len(bundle.entries))' = CellsUpTo(Len(bundle.entries))
    BY <1>1 DEF CellsUpTo, EntryCells
  <2>2. Len(bundle'.entries) = n /\ entry' = n /\ taken' = CellsUpTo(n) + 1
    BY <1>1, <1>4, <1>5
  <2>3. left' <= IF entry' = 0 THEN 0 ELSE bundle'.entries[entry'].size
    BY <1>1 DEF CursorInv
  <2> QED BY <1>1, <2>1, <2>2, <2>3 DEF CursorInv
<1>9. StagedInv'
  BY <1>1 DEF StagedInv, Reading
<1>10. StagingStaysBounded' /\ OnlyTheWholeBundleIsStaged' /\ TheVerdictNamesTheCause'
  BY <1>1 DEF Reading, StagingStaysBounded, OnlyTheWholeBundleIsStaged,
              TheVerdictNamesTheCause
<1> QED BY <1>6, <1>7, <1>8, <1>9, <1>10

\* Staging fails and its directory is removed.
LEMMA FailKeeps == StreamInv /\ Fail => StreamInv'
<1> SUFFICES ASSUME StreamInv, Fail PROVE StreamInv'
  OBVIOUS
<1> USE DEF StreamInv
<1>1. /\ UNCHANGED <<bundle, wire, aborts, password, occupied, arrived, opened, pulls, plain>>
      /\ UNCHANGED <<verified, failure, taken, entry, left, count, stagedBlobs>>
      /\ UNCHANGED <<input, cipher>>
      /\ failure # "none"
      /\ imported' = IF imported = "open" THEN "none" ELSE imported
      /\ verdict' = IF failure \in {"auth", "header"} THEN "wrong_password_or_tampered"
                    ELSE "error"
  BY DEF Fail, input, cipher, cursor
<1>2. StreamTypeOK'
  BY <1>1 DEF StreamTypeOK, Verdicts
<1>3. CipherInv'
  BY <1>1, CipherStands
<1>4. ~Reading'
  BY <1>1 DEF Reading
<1>5. CursorInv' /\ StagedInv'
  BY <1>4 DEF CursorInv, StagedInv
<1>6. StagingStaysBounded' /\ OnlyTheWholeBundleIsStaged'
  BY <1>1 DEF StagingStaysBounded, OnlyTheWholeBundleIsStaged
<1>7. TheVerdictNamesTheCause'
  <2>1. failure \in {"none", "header", "kdf", "auth", "upload"}
    BY DEF StreamTypeOK
  <2>2. /\ failure \in {"auth", "header"} => ~(password /\ Intact)
        /\ failure = "upload" => aborts
        /\ failure = "kdf" => PreambleAltered
    BY DEF CipherInv
  <2>3. Intact' = Intact /\ PreambleAltered' = PreambleAltered
    BY <1>1 DEF Intact, PreambleAltered
  <2> QED BY <1>1, <2>1, <2>2, <2>3 DEF TheVerdictNamesTheCause
<1> QED BY <1>2, <1>3, <1>5, <1>6, <1>7

\* The stream ended, and nothing is left of it: the reader has seen the whole tar.
LEMMA FinishKeeps == StreamInv /\ Finish => StreamInv'
<1> SUFFICES ASSUME StreamInv, Finish PROVE StreamInv'
  OBVIOUS
<1> USE DEF StreamInv
<1> DEFINE n == Len(bundle.entries)
<1>1. /\ UNCHANGED <<bundle, wire, aborts, password, occupied, arrived, opened, pulls, plain>>
      /\ UNCHANGED <<verified, failure, taken, entry, left, count, imported, stagedBlobs>>
      /\ UNCHANGED <<input, cipher>>
      /\ Reading /\ verified /\ ~(taken < Len(plain))
      /\ verdict' = IF entry >= 2 /\ left = 0 /\ count = bundle.blobs
                    THEN "staged" ELSE "error"
  BY DEF Finish, Available, input, cipher, cursor, stagingArea
<1>2. /\ bundle \in Bundles /\ n \in Nat /\ n >= 2 /\ entry \in 0 .. n /\ left \in Nat
      /\ taken \in 0 .. Len(plain) /\ plain \in Seq(PlainCell)
      /\ password /\ Intact /\ plain = Tar(bundle)
  BY <1>1, BundleFacts DEF StreamTypeOK, CipherInv
<1>3. taken = CellsUpTo(n) + 1 /\ CellsUpTo(n) \in Nat /\ CellsUpTo(entry) \in Nat
      /\ CellsUpTo(entry) <= CellsUpTo(n)
  <2>1. Len(Tar(bundle)) = CellsUpTo(n) + 1 /\ CellsUpTo(n) \in Nat /\ CellsUpTo(entry) \in Nat
    BY <1>2, TarCells, CellsAddUp
  <2>2. CellsUpTo(entry) <= CellsUpTo(n)
    <3>1. CASE entry = 0
      BY <1>2, <2>1, <3>1, CellsAddUp
    <3>2. CASE entry # 0
      <4>1. entry \in 1 .. n
        BY <1>2, <3>2
      <4> QED BY <1>2, <4>1, CellsAddUp
    <3> QED BY <3>1, <3>2
  <2> QED BY <1>1, <1>2, <2>1, <2>2
<1>4. entry = n /\ left = 0
  <2>1. \/ taken = CellsUpTo(entry) - left
        \/ entry = n /\ left = 0
    BY <1>1 DEF CursorInv
  <2> QED BY <1>2, <1>3, <2>1
<1>5. /\ count = n - 2 /\ Len(stagedBlobs) = n - 2 /\ imported = "committed"
      /\ bundle.version = Version
      /\ \A b \in 1 .. n - 2 :
           stagedBlobs[b] = [i \in 1 .. bundle.entries[b + 2].size |-> [e |-> b + 2, i |-> i]]
  <2>1. /\ count = n - 2 /\ Len(stagedBlobs) = count /\ imported = "committed"
        /\ bundle.version = Version
        /\ \A b \in 1 .. count :
             stagedBlobs[b] =
               [i \in 1 .. bundle.entries[b + 2].size - (IF b = count THEN left ELSE 0) |->
                  [e |-> b + 2, i |-> i]]
    BY <1>1, <1>2, <1>4 DEF StagedInv
  <2>2. ASSUME NEW b \in 1 .. n - 2
        PROVE  bundle.entries[b + 2].size - (IF b = count THEN left ELSE 0)
                 = bundle.entries[b + 2].size
    <3>1. b + 2 \in 1 .. n
      BY <1>2
    <3>2. bundle.entries[b + 2].size \in Nat
      BY <1>2, <3>1, BundleFacts
    <3> QED BY <1>4, <3>2
  <2>3. ASSUME NEW b \in 1 .. n - 2
        PROVE  stagedBlobs[b] =
                 [i \in 1 .. bundle.entries[b + 2].size |-> [e |-> b + 2, i |-> i]]
    <3>1. stagedBlobs[b] =
            [i \in 1 .. bundle.entries[b + 2].size - (IF b = count THEN left ELSE 0) |->
               [e |-> b + 2, i |-> i]]
      BY <2>1
    <3> QED BY <2>2, <3>1
  <2> QED BY <2>1, <2>3
<1>6. StreamTypeOK'
  BY <1>1 DEF StreamTypeOK, Verdicts
<1>7. CipherInv'
  BY <1>1, CipherStands
<1>8. CursorInv' /\ StagedInv'
  BY <1>1 DEF CursorInv, StagedInv, Reading
<1>9. StagingStaysBounded'
  BY <1>1 DEF StagingStaysBounded
<1>10. OnlyTheWholeBundleIsStaged'
  BY <1>1, <1>2, <1>5 DEF OnlyTheWholeBundleIsStaged, Intact
<1>11. TheVerdictNamesTheCause'
  <2>1. verdict' = "error" => Misdeclared
    BY <1>1, <1>2, <1>4, <1>5 DEF Misdeclared
  <2>2. Misdeclared' = Misdeclared
    BY <1>1 DEF Misdeclared
  <2>3. verdict' \in {"staged", "error"}
    BY <1>1
  <2> QED BY <2>1, <2>2, <2>3 DEF TheVerdictNamesTheCause
<1> QED BY <1>6, <1>7, <1>8, <1>9, <1>10, <1>11

-----------------------------------------------------------------------------
(* The reader: the beginning of a blob.                                    *)

\* The bytes of what is staged, when a blob is begun and when it grows.
LEMMA BytesOfOneMore ==
  ASSUME NEW s \in Seq(Seq(PlainCell)), NEW x \in Seq(PlainCell)
  PROVE  /\ Bytes(s) \in Nat /\ Bytes(Append(s, x)) = Bytes(s) + Len(x)
         /\ Len(x) \in Nat
<1>1. /\ FlattenSeq(s) \in Seq(PlainCell)
      /\ FlattenSeq(Append(s, x)) = FlattenSeq(s) \o x
  BY FlattenAppend
<1> QED BY <1>1, Joined, LenProperties DEF Bytes

\* The bytes staged before the last blob do not change when it grows.
LEMMA BytesBeforeLast ==
  ASSUME NEW s \in Seq(Seq(PlainCell)), NEW m \in Nat, Len(s) = m + 1
  PROVE  /\ Bytes(s) = Len(Upto(s, m)) + Len(s[m + 1])
         /\ Len(Upto(s, m)) \in Nat /\ s[m + 1] \in Seq(PlainCell) /\ Len(s[m + 1]) \in Nat
<1>1. FlattenSeq(s) = Upto(s, m + 1) /\ AllSeqs(s, m + 1, PlainCell) /\ m + 1 \in Nat
  BY FlattenIsUpto
<1>2. m \in 0 .. m + 1 /\ m < m + 1 /\ m + 1 \in 1 .. m + 1
  OBVIOUS
<1>3. /\ \A k \in 0 .. m + 1 : Len(Upto(s, k)) \in Nat
      /\ \A k \in 0 .. m + 1 : k < m + 1 => Len(Upto(s, k + 1)) = Len(Upto(s, k)) + Len(s[k + 1])
  <2>1. PICK n \in Nat : n = m + 1 /\ AllSeqs(s, n, PlainCell)
    BY <1>1
  <2> QED BY <2>1, UptoSteps
<1>4. s[m + 1] \in Seq(PlainCell)
  BY <1>2, ElementOfSeq
<1> QED BY <1>1, <1>2, <1>3, <1>4, LenProperties DEF Bytes

LastGrown(s, c) == [s EXCEPT ![Len(s)] = Append(@, c)]

\* The bytes staged, with the last blob grown.
LEMMA BytesOfLast ==
  ASSUME NEW s \in Seq(Seq(PlainCell)), NEW m \in Nat, Len(s) = m + 1, NEW c \in PlainCell
  PROVE  /\ LastGrown(s, c) \in Seq(Seq(PlainCell)) /\ Len(LastGrown(s, c)) = Len(s)
         /\ \A b \in 1 .. m : LastGrown(s, c)[b] = s[b]
         /\ LastGrown(s, c)[m + 1] = Append(s[m + 1], c)
         /\ Bytes(LastGrown(s, c)) = Bytes(s) + 1
<1> DEFINE t == LastGrown(s, c)
<1>1. m + 1 \in 1 .. Len(s) /\ s[m + 1] \in Seq(PlainCell)
  <2>1. m + 1 \in 1 .. Len(s)
    OBVIOUS
  <2> QED BY <2>1, ElementOfSeq
<1>2. Append(s[m + 1], c) \in Seq(PlainCell) /\ Len(Append(s[m + 1], c)) = Len(s[m + 1]) + 1
  BY <1>1, AppendProperties
<1>3. t = [s EXCEPT ![m + 1] = Append(s[m + 1], c)]
  BY DEF LastGrown
<1> HIDE DEF t
<1>4. /\ t \in Seq(Seq(PlainCell)) /\ Len(t) = m + 1
      /\ t[m + 1] = Append(s[m + 1], c) /\ \A b \in 1 .. m : t[b] = s[b]
  <2> DEFINE x == Append(s[m + 1], c)
  <2>1. x \in Seq(PlainCell)
    BY <1>2
  <2> HIDE DEF x
  <2>2. t = [s EXCEPT ![m + 1] = x]
    BY <1>3 DEF x
  <2>3. t \in Seq(Seq(PlainCell)) /\ Len(t) = m + 1 /\ t[m + 1] = x
        /\ \A b \in 1 .. m : t[b] = s[b]
    BY <1>1, <2>1, <2>2
  <2> QED BY <2>3 DEF x
<1>5. Upto(t, m) = Upto(s, m)
  BY <1>4, UptoSame
<1>6. /\ Bytes(s) = Len(Upto(s, m)) + Len(s[m + 1]) /\ Bytes(t) = Len(Upto(t, m)) + Len(t[m + 1])
      /\ Len(Upto(s, m)) \in Nat /\ Len(s[m + 1]) \in Nat
  BY <1>4, BytesBeforeLast
<1>7. /\ Len(t) = Len(s) /\ Bytes(t) = Bytes(s) + 1
  BY <1>2, <1>4, <1>5, <1>6
<1> QED BY <1>4, <1>7 DEF t

\* The header of a blob.
LEMMA BeginBlobKeeps == StreamInv /\ BeginBlob => StreamInv'
<1> SUFFICES ASSUME StreamInv, BeginBlob PROVE StreamInv'
  OBVIOUS
<1> USE DEF StreamInv
<1> DEFINE n == Len(bundle.entries)
           cells == bundle.entries[entry + 1].size
<1>1. /\ UNCHANGED <<bundle, wire, aborts, password, occupied, arrived, opened, pulls, plain>>
      /\ UNCHANGED <<verified, failure, imported>>
      /\ UNCHANGED <<input, cipher>>
      /\ Reading /\ HeaderNext /\ entry >= 2
      /\ taken' = taken + 1 /\ entry' = entry + 1 /\ left' = NextEntry.size
      /\ count' = count + 1
      /\ LET ok == NextEntry.name = "blob" /\ MayStage(NextEntry.size)
         IN  /\ verdict' = IF ok THEN verdict ELSE "error"
             /\ stagedBlobs' = IF ok THEN Append(stagedBlobs, <<>>) ELSE stagedBlobs
  BY DEF BeginBlob, Begin, Check, input, cipher
<1>2. /\ bundle \in Bundles /\ entry + 1 \in 1 .. n /\ left = 0 /\ entry \in Nat /\ entry < n
      /\ NextEntry = bundle.entries[entry + 1] /\ taken + 1 \in 0 .. Len(plain)
      /\ cells \in Nat
      /\ taken + 1 = CellsUpTo(entry + 1) - cells
      /\ taken \in Nat
  BY <1>1, AtHeader
<1>3. /\ NextEntry.name = "blob" /\ n \in Nat /\ bundle.bytes \in Nat /\ bundle.blobs \in Nat
  <2>1. entry + 1 \in 3 .. n
    BY <1>1, <1>2
  <2> QED BY <1>2, <2>1, BundleFacts
<1>4. /\ count = entry - 2 /\ Len(stagedBlobs) = count /\ imported = "committed"
      /\ bundle.version = Version /\ ~occupied
      /\ stagedBlobs \in Seq(Seq(PlainCell))
  BY <1>1, <1>2 DEF StagedInv, StreamTypeOK
<1>5. /\ taken' = CellsUpTo(entry + 1) - cells /\ entry' = entry + 1 /\ left' = cells
      /\ count' = entry' - 2 /\ count' \in 0 .. n
  BY <1>1, <1>2, <1>3, <1>4
<1>6. CipherInv'
  BY <1>1, CipherStands
<1>7. CursorInv'
  <2>1. CellsUpTo(entry)' = CellsUpTo(entry + 1)
    BY <1>1 DEF CellsUpTo, EntryCells
  <2>2. taken' = CellsUpTo(entry)' - left'
    BY <1>5, <2>1
  <2>3. entry' # 0 /\ left' <= bundle'.entries[entry'].size
    BY <1>1, <1>2, <1>5
  <2> QED BY <2>2, <2>3 DEF CursorInv
<1>8. CASE MayStage(cells)
  <2>1. verdict' = verdict /\ stagedBlobs' = Append(stagedBlobs, <<>>)
    BY <1>1, <1>2, <1>3, <1>8
  <2>2. /\ stagedBlobs' \in Seq(Seq(PlainCell)) /\ Len(stagedBlobs') = count'
        /\ \A b \in 1 .. count : stagedBlobs'[b] = stagedBlobs[b]
        /\ stagedBlobs'[count'] = <<>>
    <3>1. <<>> \in Seq(PlainCell)
      OBVIOUS
    <3>2. /\ Append(stagedBlobs, <<>>) \in Seq(Seq(PlainCell))
          /\ Len(Append(stagedBlobs, <<>>)) = Len(stagedBlobs) + 1
          /\ \A i \in 1 .. Len(stagedBlobs) : Append(stagedBlobs, <<>>)[i] = stagedBlobs[i]
          /\ Append(stagedBlobs, <<>>)[Len(stagedBlobs) + 1] = <<>>
      BY <1>4, <3>1, AppendProperties
    <3> QED BY <1>1, <1>4, <2>1, <3>2
  <2>3. StreamTypeOK'
    BY <1>1, <1>2, <1>3, <1>5, <2>1, <2>2 DEF StreamTypeOK
  <2>4. StagedInv'
    <3>1. ASSUME NEW b \in 1 .. count'
          PROVE  stagedBlobs'[b] =
                   [i \in 1 .. bundle.entries[b + 2].size - (IF b = count' THEN left' ELSE 0) |->
                      [e |-> b + 2, i |-> i]]
      <4>1. CASE b = count'
        <5>1. b + 2 = entry + 1
          BY <1>2, <1>5, <4>1
        <5>2. bundle.entries[b + 2].size - left' = 0
          BY <1>2, <1>5, <5>1
        <5>3. [i \in 1 .. 0 |-> [e |-> b + 2, i |-> i]] = <<>>
          OBVIOUS
        <5> QED BY <2>2, <4>1, <5>2, <5>3
      <4>2. CASE b # count'
        <5>1. b \in 1 .. count
          BY <1>1, <1>2, <1>4, <4>2
        <5>2. stagedBlobs[b] =
                [i \in 1 .. bundle.entries[b + 2].size - (IF b = count THEN left ELSE 0) |->
                   [e |-> b + 2, i |-> i]]
          BY <1>1, <5>1 DEF StagedInv
        <5>3. (IF b = count THEN left ELSE 0) = (IF b = count' THEN left' ELSE 0)
          BY <1>2, <4>2
        <5> QED BY <2>2, <5>1, <5>2, <5>3
      <4> QED BY <4>1, <4>2
    <3>2. entry' > 2
      BY <1>1, <1>2, <1>5
    <3>3. count' = IF entry' < 2 THEN 0 ELSE entry' - 2
      BY <1>2, <1>5, <3>2
    <3>4. imported' = IF entry' < 2 THEN "none"
                      ELSE IF entry' = 2 /\ left' > 0 THEN "open" ELSE "committed"
      BY <1>1, <1>2, <1>4, <1>5, <3>2
    <3> QED BY <1>1, <1>4, <2>2, <3>1, <3>3, <3>4 DEF StagedInv
  <2>5. StagingStaysBounded'
    <3>1. count < bundle.blobs
      BY <1>8 DEF MayStage
    <3>2. Bytes(stagedBlobs)' = Bytes(stagedBlobs)
      <4>1. <<>> \in Seq(PlainCell) /\ Len(<<>>) = 0
        OBVIOUS
      <4>2. Bytes(Append(stagedBlobs, <<>>)) = Bytes(stagedBlobs) + 0 /\ Bytes(stagedBlobs) \in Nat
        BY <1>4, <4>1, BytesOfOneMore
      <4>3. Bytes(stagedBlobs)' = Bytes(stagedBlobs')
        BY DEF Bytes
      <4> QED BY <2>1, <4>2, <4>3
    <3>3. Len(stagedBlobs') <= bundle.blobs
      BY <1>1, <1>2, <1>3, <1>4, <2>2, <3>1
    <3> QED BY <1>1, <3>2, <3>3 DEF StagingStaysBounded
  <2>6. OnlyTheWholeBundleIsStaged' /\ TheVerdictNamesTheCause'
    BY <1>1, <2>1 DEF Reading, OnlyTheWholeBundleIsStaged, TheVerdictNamesTheCause
  <2> QED BY <1>6, <1>7, <2>3, <2>4, <2>5, <2>6
<1>9. CASE ~MayStage(cells)
  <2>1. verdict' = "error" /\ stagedBlobs' = stagedBlobs
    BY <1>1, <1>2, <1>9
  <2>2. StreamTypeOK'
    BY <1>1, <1>2, <1>3, <1>5, <2>1 DEF StreamTypeOK, Verdicts
  <2>3. StagedInv' /\ StagingStaysBounded' /\ OnlyTheWholeBundleIsStaged'
    BY <1>1, <2>1 DEF StagedInv, StagingStaysBounded, OnlyTheWholeBundleIsStaged, Reading, Bytes
  <2>4. Misdeclared
    <3>1. CASE ~(count < bundle.blobs)
      BY <1>2, <1>3, <1>4, <3>1 DEF Misdeclared
    <3>2. CASE ~(cells <= bundle.bytes)
      <4>1. PICK k \in Nat, m \in Nat : m = n - 2 /\ k = entry - 2 /\ k < m
        <5>1. entry - 2 \in Nat /\ n - 2 \in Nat /\ entry - 2 < n - 2
          BY <1>1, <1>2, <1>3
        <5> QED BY <5>1
      <4>2. AllSeqs(Declared, m, Nat) /\ Bytes(Declared) = Len(Upto(Declared, m))
            /\ Len(Declared[k + 1]) = cells
        <5>1. k + 1 \in 1 .. m /\ (k + 1) + 2 = entry + 1
          BY <1>2, <4>1
        <5> QED BY <1>2, <4>1, <5>1, DeclaredFacts
      <4>3. LiesAt(Declared[k + 1], Upto(Declared, m), Len(Upto(Declared, k)))
        <5>1. k \in 0 .. m /\ m \in k .. m
          BY <4>1
        <5> QED BY <4>1, <4>2, <5>1, UptoAt
      <4>4. Len(Upto(Declared, k)) \in Nat /\ Len(Upto(Declared, m)) \in Nat
        <5>1. k \in 0 .. m /\ m \in 0 .. m
          BY <4>1
        <5> QED BY <4>2, <5>1, UptoSteps
      <4>5. Len(Upto(Declared, k)) + cells <= Len(Upto(Declared, m))
        BY <4>2, <4>3 DEF LiesAt
      <4>6. bundle.bytes < Bytes(Declared)
        BY <1>2, <1>3, <3>2, <4>2, <4>4, <4>5
      <4> QED BY <4>6 DEF Misdeclared, Declared
    <3> QED BY <1>9, <3>1, <3>2 DEF MayStage
  <2>5. TheVerdictNamesTheCause'
    <3>1. Misdeclared' = Misdeclared
      BY <1>1 DEF Misdeclared
    <3> QED BY <2>1, <2>4, <3>1 DEF TheVerdictNamesTheCause
  <2> QED BY <1>6, <1>7, <2>2, <2>3, <2>5
<1> QED BY <1>8, <1>9

-----------------------------------------------------------------------------
(* The reader: the content of a blob; every step.                          *)

\* A piece of a blob is written to its staging file.
LEMMA ReadBlobKeeps == StreamInv /\ ReadBlob => StreamInv'
<1> SUFFICES ASSUME StreamInv, ReadBlob PROVE StreamInv'
  OBVIOUS
<1> USE DEF StreamInv
<1> DEFINE n == Len(bundle.entries)
           cells == bundle.entries[entry].size
<1>1. /\ UNCHANGED <<bundle, wire, aborts, password, occupied, arrived, opened, pulls, plain>>
      /\ UNCHANGED <<verified, failure, entry, count, imported>>
      /\ UNCHANGED <<input, cipher>>
      /\ Reading /\ ContentNext /\ entry > 2
      /\ taken' = taken + 1 /\ left' = left - 1
      /\ verdict' = IF Budget > 0 THEN verdict ELSE "error"
      /\ stagedBlobs' = IF Budget > 0
                        THEN [stagedBlobs EXCEPT ![Len(stagedBlobs)] = Append(@, Cell)]
                        ELSE stagedBlobs
  BY DEF ReadBlob, Advance, Check, input, cipher
<1>2. /\ bundle \in Bundles /\ entry \in 1 .. n /\ cells \in Nat /\ left \in 1 .. cells
      /\ Cell = [e |-> entry, i |-> cells - left + 1]
      /\ taken \in Nat /\ taken + 1 \in 0 .. Len(plain)
      /\ taken + 1 = CellsUpTo(entry) - (left - 1)
  BY <1>1, AtContent
<1>3. /\ n \in Nat /\ bundle.bytes \in Nat /\ bundle.blobs \in Nat
  BY <1>2, BundleFacts
<1>4. /\ count = entry - 2 /\ Len(stagedBlobs) = count /\ imported = "committed"
      /\ bundle.version = Version /\ ~occupied
      /\ stagedBlobs \in Seq(Seq(PlainCell))
  BY <1>1, <1>2 DEF StagedInv, StreamTypeOK
<1>5. PICK m \in Nat : count = m + 1 /\ m + 1 \in 1 .. n - 2 /\ entry = (m + 1) + 2
  <2>1. entry - 3 \in Nat /\ count = (entry - 3) + 1 /\ (entry - 3) + 1 \in 1 .. n - 2
        /\ entry = ((entry - 3) + 1) + 2
    <3>1. entry \in Nat /\ entry > 2 /\ entry <= n /\ n \in Nat /\ count = entry - 2
      BY <1>1, <1>2, <1>3, <1>4
    <3> HIDE DEF n
    <3> QED BY <3>1
  <2> QED BY <2>1
<1>6. ASSUME NEW b \in 1 .. m + 1
      PROVE  stagedBlobs[b] =
               [i \in 1 .. bundle.entries[b + 2].size - (IF b = m + 1 THEN left ELSE 0) |->
                  [e |-> b + 2, i |-> i]]
  BY <1>1, <1>5 DEF StagedInv
<1>7. CipherInv'
  BY <1>1, CipherStands
<1>8. CursorInv'
  <2>1. CellsUpTo(entry)' = CellsUpTo(entry)
    BY <1>1 DEF CellsUpTo, EntryCells
  <2>2. taken' = CellsUpTo(entry)' - left' /\ entry' # 0
        /\ left' <= bundle'.entries[entry'].size
    BY <1>1, <1>2, <2>1
  <2> QED BY <2>2 DEF CursorInv
<1>9. PICK z \in Nat : z = cells - left /\ z + 1 = cells - left + 1 /\ z < cells
                       /\ z + 1 = cells - left'
  <2>1. cells - left \in Nat /\ (cells - left) + 1 = cells - left + 1 /\ cells - left < cells
        /\ (cells - left) + 1 = cells - left'
    <3>1. left' = left - 1 /\ cells \in Nat /\ left \in Nat /\ left >= 1 /\ left <= cells
      BY <1>1, <1>2
    <3> HIDE DEF cells
    <3> QED BY <3>1
  <2> QED BY <2>1
<1>10. stagedBlobs[m + 1] = [i \in 1 .. z |-> [e |-> entry, i |-> i]]
  <2>1. m + 1 \in 1 .. m + 1
    OBVIOUS
  <2>2. stagedBlobs[m + 1] =
          [i \in 1 .. bundle.entries[(m + 1) + 2].size - left |-> [e |-> (m + 1) + 2, i |-> i]]
    BY <1>6, <2>1
  <2> QED BY <1>5, <1>9, <2>2
<1>11. CASE Budget > 0
  <2>1. /\ verdict' = verdict
        /\ stagedBlobs' = [stagedBlobs EXCEPT ![Len(stagedBlobs)] = Append(@, Cell)]
    BY <1>1, <1>11
  <2>2. Cell \in PlainCell /\ Cell = [e |-> entry, i |-> z + 1]
    BY <1>2, <1>9 DEF PlainCell
  <2>3. /\ stagedBlobs' \in Seq(Seq(PlainCell)) /\ Len(stagedBlobs') = m + 1
        /\ \A b \in 1 .. m : stagedBlobs'[b] = stagedBlobs[b]
        /\ stagedBlobs'[m + 1] = Append(stagedBlobs[m + 1], Cell)
        /\ Bytes(stagedBlobs') = Bytes(stagedBlobs) + 1
    <3>1. Len(stagedBlobs) = m + 1
      BY <1>4, <1>5
    <3>2. stagedBlobs \in Seq(Seq(PlainCell))
      BY <1>4
    <3>3. Cell \in PlainCell
      BY <2>2
    <3>4. stagedBlobs' = LastGrown(stagedBlobs, Cell)
      BY <2>1 DEF LastGrown
    <3>5. \A c \in PlainCell :
            /\ LastGrown(stagedBlobs, c) \in Seq(Seq(PlainCell))
            /\ Len(LastGrown(stagedBlobs, c)) = Len(stagedBlobs)
            /\ \A b \in 1 .. m : LastGrown(stagedBlobs, c)[b] = stagedBlobs[b]
            /\ LastGrown(stagedBlobs, c)[m + 1] = Append(stagedBlobs[m + 1], c)
            /\ Bytes(LastGrown(stagedBlobs, c)) = Bytes(stagedBlobs) + 1
      BY <3>1, <3>2, BytesOfLast
    <3> QED BY <3>1, <3>3, <3>4, <3>5
  <2>4. stagedBlobs'[m + 1] = [i \in 1 .. z + 1 |-> [e |-> entry, i |-> i]]
    <3> DEFINE s == [i \in 1 .. z |-> [e |-> entry, i |-> i]]
               t == [i \in 1 .. z + 1 |-> [e |-> entry, i |-> i]]
    <3>1. s \in Seq(PlainCell) /\ Len(s) = z /\ \A i \in 1 .. z : s[i] = [e |-> entry, i |-> i]
      BY <1>2 DEF PlainCell
    <3>2. t \in Seq(PlainCell) /\ Len(t) = z + 1
          /\ \A i \in 1 .. z + 1 : t[i] = [e |-> entry, i |-> i]
      BY <1>2 DEF PlainCell
    <3> HIDE DEF s, t
    <3>3. /\ Append(s, Cell) \in Seq(PlainCell) /\ Len(Append(s, Cell)) = z + 1
          /\ \A i \in 1 .. z : Append(s, Cell)[i] = s[i]
          /\ Append(s, Cell)[z + 1] = Cell
      BY <2>2, <3>1, AppendProperties
    <3>4. \A i \in 1 .. z + 1 : i \in 1 .. z \/ i = z + 1
      OBVIOUS
    <3>5. \A i \in 1 .. z + 1 : Append(s, Cell)[i] = t[i]
      BY <2>2, <3>1, <3>2, <3>3, <3>4
    <3>6. Append(s, Cell) = t
      BY <3>2, <3>3, <3>5, SeqEqual
    <3> QED BY <1>10, <2>3, <3>6 DEF s, t
  <2>5. StreamTypeOK'
    BY <1>1, <1>2, <2>1, <2>3 DEF StreamTypeOK
  <2>6. StagedInv'
    <3>1. ASSUME NEW b \in 1 .. m + 1
          PROVE  stagedBlobs'[b] =
                   [i \in 1 .. bundle.entries[b + 2].size - (IF b = m + 1 THEN left' ELSE 0) |->
                      [e |-> b + 2, i |-> i]]
      <4>1. CASE b = m + 1
        <5>1. b + 2 = entry /\ bundle.entries[b + 2].size - left' = z + 1
          BY <1>5, <1>9, <4>1
        <5> QED BY <2>4, <4>1, <5>1
      <4>2. CASE b # m + 1
        <5>1. b \in 1 .. m
          BY <4>2
        <5> QED BY <1>6, <2>3, <4>2, <5>1
      <4> QED BY <4>1, <4>2
    <3>2. imported' = IF entry' < 2 THEN "none"
                      ELSE IF entry' = 2 /\ left' > 0 THEN "open" ELSE "committed"
      BY <1>1, <1>2, <1>4
    <3>3. count' = m + 1 /\ count' = IF entry' < 2 THEN 0 ELSE entry' - 2
      BY <1>1, <1>2, <1>4, <1>5
    <3>4. Len(stagedBlobs') = count' /\ bundle' = bundle
      BY <1>1, <2>3, <3>3
    <3>5. \A b \in 1 .. count' :
            stagedBlobs'[b] =
              [i \in 1 .. bundle'.entries[b + 2].size - (IF b = count' THEN left' ELSE 0) |->
                 [e |-> b + 2, i |-> i]]
      BY <3>1, <3>3, <3>4
    <3>6. bundle'.version = Version /\ ~occupied'
      BY <1>1, <1>4
    <3> QED BY <3>2, <3>3, <3>4, <3>5, <3>6 DEF StagedInv
  <2>7. StagingStaysBounded'
    <3>1. Bytes(stagedBlobs) \in Nat
      <4>1. <<>> \in Seq(PlainCell)
        OBVIOUS
      <4> QED BY <1>4, <4>1, BytesOfOneMore
    <3>2. Bytes(stagedBlobs)' = Bytes(stagedBlobs')
      BY DEF Bytes
    <3>3. Bytes(stagedBlobs') <= bundle.bytes
      BY <1>3, <1>11, <2>3, <3>1 DEF Budget
    <3>4. Len(stagedBlobs) <= bundle.blobs
      BY DEF StagingStaysBounded
    <3> QED BY <1>1, <1>4, <1>5, <2>3, <3>2, <3>3, <3>4 DEF StagingStaysBounded
  <2>8. OnlyTheWholeBundleIsStaged' /\ TheVerdictNamesTheCause'
    BY <1>1, <2>1 DEF Reading, OnlyTheWholeBundleIsStaged, TheVerdictNamesTheCause
  <2> QED BY <1>7, <1>8, <2>5, <2>6, <2>7, <2>8
<1>12. CASE ~(Budget > 0)
  <2>1. verdict' = "error" /\ stagedBlobs' = stagedBlobs
    BY <1>1, <1>12
  <2>2. StreamTypeOK'
    <3>1. left' \in Nat
      BY <1>1, <1>2
    <3>2. taken' \in 0 .. Len(plain)
      BY <1>1, <1>2
    <3> QED BY <1>1, <2>1, <3>1, <3>2 DEF StreamTypeOK, Verdicts
  <2>3. StagedInv' /\ StagingStaysBounded' /\ OnlyTheWholeBundleIsStaged'
    BY <1>1, <2>1 DEF StagedInv, StagingStaysBounded, OnlyTheWholeBundleIsStaged, Reading, Bytes
  <2>4. Misdeclared
    <3>1. PICK k \in Nat : k = n - 2 /\ m + 1 \in 1 .. k /\ m < k
      <4>1. n - 2 \in Nat
        BY <1>2, BundleFacts
      <4>2. m < n - 2
        BY <1>5
      <4> QED BY <1>5, <4>1, <4>2
    <3>2. /\ Bytes(stagedBlobs) = Len(Upto(stagedBlobs, m)) + Len(stagedBlobs[m + 1])
          /\ Len(Upto(stagedBlobs, m)) \in Nat
          /\ AllSeqs(stagedBlobs, m + 1, PlainCell)
      <4>1. Len(stagedBlobs) = m + 1
        BY <1>4, <1>5
      <4> QED BY <1>4, <4>1, BytesBeforeLast, FlattenIsUpto
    <3>3. Len(stagedBlobs[m + 1]) = z
      BY <1>10
    <3>4. /\ AllSeqs(Declared, k, Nat) /\ Bytes(Declared) = Len(Upto(Declared, k))
          /\ \A b \in 1 .. k : Len(Declared[b]) = bundle.entries[b + 2].size
      BY <1>2, <3>1, DeclaredFacts
    <3>5. Len(Declared[m + 1]) = cells
      BY <1>5, <3>1, <3>4
    <3>6. Len(Upto(stagedBlobs, m)) <= Len(Upto(Declared, m))
      <4>1. AllSeqs(stagedBlobs, m, PlainCell) /\ AllSeqs(Declared, m, Nat)
        <5>1. \A i \in 1 .. m : i \in 1 .. m + 1 /\ i \in 1 .. k
          BY <3>1
        <5> QED BY <3>2, <3>4, <5>1 DEF AllSeqs
      <4>2. \A i \in 1 .. m : Len(stagedBlobs[i]) <= Len(Declared[i])
        <5> TAKE i \in 1 .. m
        <5>1. i \in 1 .. m + 1 /\ i # m + 1 /\ i \in 1 .. k /\ i + 2 \in 1 .. n
          BY <1>3, <3>1
        <5>2. bundle.entries[i + 2].size \in Nat
          BY <1>2, <5>1, BundleFacts
        <5>3. PICK y \in Nat : y = bundle.entries[i + 2].size
          BY <5>2
        <5>4. stagedBlobs[i] = [j \in 1 .. y |-> [e |-> i + 2, i |-> j]]
          <6>1. stagedBlobs[i] = [j \in 1 .. y - 0 |-> [e |-> i + 2, i |-> j]]
            BY <1>6, <5>1, <5>3
          <6> QED BY <6>1
        <5>5. Len(stagedBlobs[i]) = y
          BY <5>4
        <5> QED BY <3>4, <5>1, <5>3, <5>5
      <4>3. m \in 0 .. m
        OBVIOUS
      <4> QED BY <4>1, <4>2, <4>3, UptoLens
    <3>7. LiesAt(Declared[m + 1], Upto(Declared, k), Len(Upto(Declared, m)))
      <4>1. m \in 0 .. k /\ k \in m .. k
        BY <3>1
      <4> QED BY <3>1, <3>4, <4>1, UptoAt
    <3>8. Len(Upto(Declared, m)) \in Nat /\ Len(Upto(Declared, k)) \in Nat
      <4>1. m \in 0 .. k /\ k \in 0 .. k
        BY <3>1
      <4> QED BY <3>4, <4>1, UptoSteps
    <3>9. Len(Upto(Declared, m)) + cells <= Len(Upto(Declared, k))
      BY <3>5, <3>7 DEF LiesAt
    <3>10. bundle.bytes <= Bytes(stagedBlobs)
      BY <1>3, <1>12, <3>2, <3>3 DEF Budget
    <3>11. bundle.bytes < Bytes(Declared)
      <4>1. PICK u \in Nat, v \in Nat, x \in Nat, y \in Nat, d \in Nat :
              /\ u = Len(Upto(stagedBlobs, m)) /\ v = Len(Upto(Declared, m))
              /\ x = Len(Upto(Declared, k)) /\ y = cells /\ d = bundle.bytes
        BY <1>2, <1>3, <3>2, <3>8
      <4>2. d <= u + z /\ z < y /\ u <= v /\ v + y <= x
        BY <1>9, <3>2, <3>3, <3>6, <3>9, <3>10, <4>1
      <4>3. d < x
        BY <4>2
      <4> QED BY <3>4, <4>1, <4>3
    <3> QED BY <3>11 DEF Misdeclared, Declared
  <2>5. TheVerdictNamesTheCause'
    <3>1. Misdeclared' = Misdeclared
      BY <1>1 DEF Misdeclared
    <3> QED BY <2>1, <2>4, <3>1 DEF TheVerdictNamesTheCause
  <2> QED BY <1>7, <1>8, <2>2, <2>3, <2>5
<1> QED BY <1>11, <1>12

\* Decryption leaves the reader alone.
LEMMA DecryptsKeeps == StreamInv /\ Decrypts => StreamInv'
<1> SUFFICES ASSUME StreamInv, Decrypts PROVE StreamInv'
  OBVIOUS
<1> USE DEF StreamInv
<1>1. StreamTypeOK' /\ CipherInv'
  BY DeliverKeeps, FlushKeeps, AbortKeeps DEF Decrypts
<1>2. /\ UNCHANGED <<bundle, wire, aborts, password, occupied, taken, entry, left, count>>
      /\ UNCHANGED <<imported, stagedBlobs, verdict>>
  BY DEF Decrypts, Deliver, Flush, Abort, input, cursor, stagingArea
<1>3. CellsUpTo(entry)' = CellsUpTo(entry)
  BY <1>2 DEF CellsUpTo, EntryCells
<1>4. CursorInv'
  BY <1>2, <1>3 DEF CursorInv, Reading
<1>5. StagedInv'
  BY <1>2 DEF StagedInv, Reading
<1>6. StagingStaysBounded'
  BY <1>2 DEF StagingStaysBounded, Bytes
<1>7. OnlyTheWholeBundleIsStaged'
  BY <1>2 DEF OnlyTheWholeBundleIsStaged, Intact
<1>8. TheVerdictNamesTheCause'
  <2>1. Misdeclared' = Misdeclared /\ Intact' = Intact /\ PreambleAltered' = PreambleAltered
    BY <1>2 DEF Misdeclared, Intact, PreambleAltered
  <2> QED BY <1>2, <2>1 DEF TheVerdictNamesTheCause
<1> QED BY <1>1, <1>4, <1>5, <1>6, <1>7, <1>8

\* Every step.
LEMMA StreamStepKeeps == StreamInv /\ [StreamNext]_streamVars => StreamInv'
<1> SUFFICES ASSUME StreamInv, [StreamNext]_streamVars PROVE StreamInv'
  OBVIOUS
<1>1. CASE Decrypts
  BY <1>1, DecryptsKeeps
<1>2. CASE Stages
  BY <1>2, BeginManifestKeeps, ReadManifestKeeps, BeginRowsKeeps, ReadRowsKeeps, BeginBlobKeeps,
     ReadBlobKeeps, ReadEndKeeps, FinishKeeps, FailKeeps DEF Stages
<1>3. CASE UNCHANGED streamVars
  <2>1. /\ UNCHANGED <<bundle, wire, aborts, password, occupied, taken, entry, left, count>>
        /\ UNCHANGED <<imported, stagedBlobs, verdict, input, cipher>>
        /\ UNCHANGED <<arrived, opened, pulls, plain, verified, failure>>
    BY <1>3 DEF streamVars, input, cipher, cursor, stagingArea
  <2>2. CipherInv'
    BY <2>1, CipherStands DEF StreamInv
  <2>3. StreamTypeOK'
    BY <2>1 DEF StreamInv, StreamTypeOK
  <2>4. CursorInv'
    <3>1. CellsUpTo(entry)' = CellsUpTo(entry)
      BY <2>1 DEF CellsUpTo, EntryCells
    <3> QED BY <2>1, <3>1 DEF StreamInv, CursorInv, Reading
  <2>5. StagedInv' /\ StagingStaysBounded' /\ OnlyTheWholeBundleIsStaged'
    BY <2>1 DEF StreamInv, StagedInv, Reading, StagingStaysBounded, Bytes,
                OnlyTheWholeBundleIsStaged, Intact
  <2>6. TheVerdictNamesTheCause'
    <3>1. Misdeclared' = Misdeclared /\ Intact' = Intact /\ PreambleAltered' = PreambleAltered
      BY <2>1 DEF Misdeclared, Intact, PreambleAltered
    <3> QED BY <2>1, <3>1 DEF StreamInv, TheVerdictNamesTheCause
  <2> QED BY <2>2, <2>3, <2>4, <2>5, <2>6 DEF StreamInv
<1> QED BY <1>1, <1>2, <1>3 DEF StreamNext

\* Decryption and staging keep their inductive invariant.
THEOREM StreamInvariant == StreamSpec => []StreamInv
<1>1. StreamInit => StreamInv
  BY StreamInitHolds
<1>2. StreamInv /\ [StreamNext]_streamVars => StreamInv'
  BY StreamStepKeeps
<1> QED BY <1>1, <1>2, PTL DEF StreamSpec

\* For every set of bundles, chunk cells and limit: what is staged of a bundle is
\* what its exporter packed, in order and complete once staging succeeds
\* (OnlyTheWholeBundleIsStaged); the tar reader sees nothing but a beginning of
\* the plaintext that was sealed (OnlyAuthenticPlaintext); and what a bundle makes
\* the server write stays under its limit (StagingStaysBounded).
THEOREM StagingIsAlwaysSound == StreamSpec => []StagingIsSound
<1>1. StreamInv => StagingIsSound
  <2> SUFFICES ASSUME StreamInv PROVE OnlyAuthenticPlaintext
    BY DEF StreamInv, StagingIsSound
  <2>1. /\ bundle \in Bundles /\ plain \in Seq(PlainCell)
        /\ plain = SubSeq(Tar(bundle), 1, Len(plain)) /\ Len(plain) <= Len(Tar(bundle))
        /\ ~password => plain = <<>>
        /\ pulls \in Nat
    BY DEF StreamInv, StreamTypeOK, CipherInv
  <2> QED BY <2>1 DEF OnlyAuthenticPlaintext, IsPrefix
<1> QED BY <1>1, StreamInvariant, PTL

\* A bundle is refused only for what is wrong with it: damage is reported as some other
\* error only where it lies in the half of the header the key is derived from.
THEOREM TheVerdictAlwaysNamesTheCause == StreamSpec => []TheVerdictNamesTheCause
<1>1. StreamInv => TheVerdictNamesTheCause
  BY DEF StreamInv
<1> QED BY <1>1, StreamInvariant, PTL

=============================================================================
