--------------------------- MODULE BackupExport ---------------------------
(***************************************************************************)
(* The export of a backup (src/backup/export-service.ts, the writing half  *)
(* of src/backup/bundle.ts) from an instance that keeps serving requests:  *)
(* documents are uploaded and deleted, firearms created and deleted, and   *)
(* the promotion of a restore may pass.                                    *)
(*                                                                         *)
(* The export takes neither the restore lock nor the maintenance flag.  It *)
(* reads the rows in one repeatable-read transaction and, at the same      *)
(* time, lists the upload directory and asks each file for its size; from  *)
(* these it declares the manifest and then streams the files one by one,   *)
(* long after.  One action is one statement or one file-system call.       *)
(*                                                                         *)
(* The 21 tables are two, a parent and a child with a foreign key to it    *)
(* (firearm, firearm_document).  The blob of a document has its name, and  *)
(* is 2 bytes long, of which a write that is under way has put down 1.     *)
(***************************************************************************)
EXTENDS Naturals, FiniteSets, Functions

CONSTANTS
  Firearms, Documents,
  Of,            \* Of[d]: the firearm a document belongs to
  Kept, Stored,  \* the rows at first
  RFirearms, RDocuments \* the rows a restore brings in

ASSUME ExportAssumption ==
  /\ Of \in [Documents -> Firearms]
  /\ Kept \subseteq Firearms /\ Stored \subseteq Documents
  /\ RFirearms \subseteq Firearms /\ RDocuments \subseteq Documents \ Stored
  /\ \A d \in Stored : Of[d] \in Kept
  /\ \A d \in RDocuments : Of[d] \in RFirearms

VARIABLES
  firearms, documents,  \* the rows
  upload,     \* the documents with a file in the upload directory
  call,       \* call[d]: how far the upload, later the deletion, of d is
  created,    \* firearms that are or were
  promote,    \* where the restore is
  exp,        \* where the export is
  read,       \* how many tables are read
  snap,       \* the snapshot of its transaction
  got,        \* the rows read so far
  listed,     \* whether the directory is read
  names,      \* the entries it had
  size,       \* size[d]: what stat said, 0 before
  file,       \* the document being packed, if any, and its size at the open
  packed,     \* packed[d]: the bytes of d's entry in the bundle, 0 without one
  disturbed,  \* history: documents whose file came or went between the readings
  raced       \* history: documents being uploaded when a restore moved the files

rows     == <<firearms, documents>>
instance == <<rows, upload, call, created, promote>>
reading  == <<read, snap, got, listed, names, size>>
packing  == <<file, packed>>
history  == <<disturbed, raced>>
vars == <<instance, exp, reading, packing, history>>

None == "none"
NoFile == [doc |-> None, at |-> 0]
Live == [firearms |-> firearms, documents |-> documents]

\* The length of the file of d, if it has one.
Length(d) == IF call[d] = "saving" THEN 1 ELSE 2

\* The files of S come or go; what counts is whether the export is between its
\* two readings.
Disturb(S) == disturbed' = IF exp = "reading" THEN disturbed \union S ELSE disturbed

-----------------------------------------------------------------------------
(* Requests.  None starts while a restore holds the flag.                  *)

Serving == promote \in {"idle", "done"}

CreateFirearm(f) ==
  /\ Serving
  /\ f \notin created
  /\ created' = created \union {f}
  /\ firearms' = firearms \union {f}
  /\ UNCHANGED <<documents, upload, call, promote, exp, reading, packing, history>>

\* writeFile creates the file and then fills it ...
BeginSave(d) ==
  /\ Serving
  /\ call[d] = "new"
  /\ Of[d] \in firearms
  /\ call' = [call EXCEPT ![d] = "saving"]
  /\ upload' = upload \union {d}
  /\ Disturb({d})
  /\ UNCHANGED <<rows, created, promote, exp, reading, packing, raced>>

\* ... wherever its directory has been moved since.
EndSave(d) ==
  /\ call[d] = "saving"
  /\ call' = [call EXCEPT ![d] = "saved"]
  /\ UNCHANGED <<rows, upload, created, promote, exp, reading, packing, history>>

\* The row follows the blob; without its firearm the blob is reclaimed.
InsertRow(d) ==
  /\ call[d] = "saved"
  /\ IF Of[d] \in firearms
       THEN /\ documents' = documents \union {d}
            /\ call' = [call EXCEPT ![d] = "stored"]
       ELSE /\ call' = [call EXCEPT ![d] = "deleted"]
            /\ UNCHANGED documents
  /\ UNCHANGED <<firearms, upload, created, promote, exp, reading, packing, history>>

DeleteRow(d) ==
  /\ Serving
  /\ call[d] = "stored"
  /\ documents' = documents \ {d}
  /\ call' = [call EXCEPT ![d] = "deleted"]
  /\ UNCHANGED <<firearms, upload, created, promote, exp, reading, packing, history>>

\* The documents go with the firearm, by the foreign key.
DeleteFirearm(f) ==
  /\ Serving
  /\ f \in firearms
  /\ firearms' = firearms \ {f}
  /\ documents' = {d \in documents : Of[d] # f}
  /\ call' = [d \in Documents |-> IF Of[d] = f /\ call[d] = "stored" THEN "deleted"
                                  ELSE call[d]]
  /\ UNCHANGED <<upload, created, promote, exp, reading, packing, history>>

\* Best effort: a blob that cannot be deleted stays, without a row.
DeleteBlob(d) ==
  /\ call[d] = "deleted"
  /\ call' = [call EXCEPT ![d] = "gone"]
  /\ \/ upload' = upload \ {d} /\ Disturb({d})
     \/ UNCHANGED <<upload, disturbed>>
  /\ UNCHANGED <<rows, created, promote, exp, reading, packing, raced>>

-----------------------------------------------------------------------------
(* The promotion of a restore, in full in module Restore: the directory is *)
(* moved aside, the rows are replaced, the new directory is moved in.      *)

BeginBlobSwap ==
  /\ promote = "idle"
  /\ promote' = "swapped"
  /\ upload' = {}
  /\ Disturb(Documents)
  /\ raced' = {d \in Documents : call[d] \in {"saving", "saved"}}
  /\ UNCHANGED <<rows, call, created, exp, reading, packing>>

PromoteTransaction ==
  /\ promote = "swapped"
  /\ promote' = "promoted"
  /\ firearms' = RFirearms
  /\ documents' = RDocuments
  /\ call' = [d \in Documents |->
       IF d \in RDocuments THEN "stored"
       ELSE IF call[d] \in {"stored", "new"} THEN "gone" ELSE call[d]]
  /\ UNCHANGED <<upload, created, exp, reading, packing, history>>

FinishBlobSwap ==
  /\ promote = "promoted"
  /\ promote' = "done"
  /\ upload' = RDocuments
  /\ Disturb(Documents)
  /\ UNCHANGED <<rows, call, created, exp, reading, packing, raced>>

-----------------------------------------------------------------------------
(* createBackup: the two readings, side by side.                           *)

StartExport ==
  /\ exp = "idle"
  /\ exp' = "reading"
  /\ disturbed' = IF Serving THEN {} ELSE Documents
  /\ UNCHANGED <<instance, reading, packing, raced>>

\* Mutant: every statement sees what is committed when it runs.
SeenNow == Live

\* A repeatable-read transaction takes its snapshot at its first statement.
Seen == IF read = 0 THEN Live ELSE snap

\* exportDatabase selects the tables one after the other, parents first.
SelectTable ==
  /\ exp = "reading"
  /\ read < 2
  /\ read' = read + 1
  /\ snap' = Seen
  /\ got' = IF read = 0 THEN [got EXCEPT !.firearms = Seen.firearms]
                        ELSE [got EXCEPT !.documents = Seen.documents]
  /\ UNCHANGED <<instance, exp, listed, names, size, packing, history>>

\* readdir; an upload directory that is not there has no entries.
ListDirectory ==
  /\ exp = "reading"
  /\ ~listed
  /\ listed' = TRUE
  /\ names' = upload
  /\ UNCHANGED <<instance, exp, read, snap, got, size, packing, history>>

Unsized == {d \in names : size[d] = 0}

\* A file that is gone fails the whole export.
StatBlob(d) ==
  /\ exp = "reading"
  /\ d \in Unsized
  /\ IF d \in upload
       THEN size' = [size EXCEPT ![d] = Length(d)] /\ UNCHANGED exp
       ELSE exp' = "failed" /\ UNCHANGED size
  /\ UNCHANGED <<instance, read, snap, got, listed, names, packing, history>>

\* The manifest is built once both readings are done, and packed first.
Compose ==
  /\ exp = "reading"
  /\ read = 2 /\ listed /\ Unsized = {}
  /\ exp' = "packing"
  /\ UNCHANGED <<instance, reading, packing, history>>

Manifest == [rows  |-> Cardinality(got.firearms) + Cardinality(got.documents),
             blobs |-> Cardinality(names),
             bytes |-> SumFunction(size)]

-----------------------------------------------------------------------------
(* writeBundle: one file is open at a time.                                *)

Unpacked == {d \in names : packed[d] = 0}

\* Mutant: the error of a source does not reach the sink of its entry.
OpenBlobDeaf(d) ==
  /\ exp = "packing"
  /\ file = NoFile /\ d \in Unpacked
  /\ d \in upload
  /\ file' = [doc |-> d, at |-> Length(d)]
  /\ UNCHANGED <<instance, exp, reading, packed, history>>

\* Mutant: a file that is gone is left out.
OpenBlobLenient(d) ==
  /\ exp = "packing"
  /\ file = NoFile /\ d \in Unpacked
  /\ IF d \in upload
       THEN file' = [doc |-> d, at |-> Length(d)] /\ UNCHANGED exp
       ELSE exp' = (IF Unpacked = {d} THEN "finished" ELSE exp) /\ UNCHANGED file
  /\ UNCHANGED <<instance, reading, packed, history>>

\* A file that is gone destroys the pack, and with it the encrypted stream.
OpenBlob(d) ==
  /\ exp = "packing"
  /\ file = NoFile /\ d \in Unpacked
  /\ IF d \in upload
       THEN file' = [doc |-> d, at |-> Length(d)] /\ UNCHANGED exp
       ELSE exp' = "destroyed" /\ UNCHANGED file
  /\ UNCHANGED <<instance, reading, packed, history>>

\* tar-stream ends an entry only when it got the bytes the header declares.
SizeMatches(d, n) == size[d] = n

\* The open file outlives its name; it is read up to some length it has had.
PackBlob ==
  /\ exp = "packing"
  /\ file # NoFile
  /\ \E n \in file.at .. Length(file.doc) :
       IF SizeMatches(file.doc, n)
         THEN packed' = [packed EXCEPT ![file.doc] = size[file.doc]] /\ UNCHANGED exp
         ELSE exp' = "destroyed" /\ UNCHANGED packed
  /\ file' = NoFile
  /\ UNCHANGED <<instance, reading, history>>

Finalize ==
  /\ exp = "packing"
  /\ Unpacked = {}
  /\ exp' = "finished"
  /\ UNCHANGED <<instance, reading, packing, history>>

\* The download is cancelled.
Cancel ==
  /\ exp = "packing"
  /\ exp' = "destroyed"
  /\ UNCHANGED <<instance, reading, packing, history>>

-----------------------------------------------------------------------------
Init ==
  /\ firearms = Kept /\ documents = Stored
  /\ upload = Stored
  /\ call = [d \in Documents |-> IF d \in Stored THEN "stored"
                                 ELSE IF d \in RDocuments THEN "gone" ELSE "new"]
  /\ created = Kept \union RFirearms
  /\ promote = "idle"
  /\ exp = "idle"
  /\ read = 0
  /\ snap = [firearms |-> {}, documents |-> {}] /\ got = snap
  /\ listed = FALSE /\ names = {} /\ size = [d \in Documents |-> 0]
  /\ file = NoFile /\ packed = [d \in Documents |-> 0]
  /\ disturbed = {} /\ raced = {}

Requests ==
  \/ \E f \in Firearms : CreateFirearm(f) \/ DeleteFirearm(f)
  \/ \E d \in Documents : \/ BeginSave(d) \/ EndSave(d) \/ InsertRow(d)
                          \/ DeleteRow(d) \/ DeleteBlob(d)

Promotes == BeginBlobSwap \/ PromoteTransaction \/ FinishBlobSwap

Exports ==
  \/ SelectTable \/ ListDirectory \/ Compose \/ PackBlob \/ Finalize
  \/ \E d \in Documents : StatBlob(d) \/ OpenBlob(d)

\* Bound: the instance is followed until the export is over.
Over == exp \in {"failed", "destroyed", "finished"}

Next == (~Over /\ (Requests \/ Promotes)) \/ StartExport \/ Exports \/ Cancel

Spec == Init /\ [][Next]_vars

\* The database answers, and so does the disk.
FairSpec == Spec /\ WF_vars(Exports)
-----------------------------------------------------------------------------
(* Properties.                                                             *)

Calls == {"new", "saving", "saved", "stored", "deleted", "gone"}
Tables == [firearms : SUBSET Firearms, documents : SUBSET Documents]

\* The values each variable ranges over.
TypeOK ==
  /\ firearms \subseteq Firearms /\ documents \subseteq Documents
  /\ upload \subseteq Documents
  /\ call \in [Documents -> Calls] /\ created \subseteq Firearms
  /\ promote \in {"idle", "swapped", "promoted", "done"}
  /\ exp \in {"idle", "reading", "failed", "packing", "destroyed", "finished"}
  /\ read \in 0 .. 2 /\ snap \in Tables /\ got \in Tables
  /\ listed \in BOOLEAN /\ names \subseteq Documents
  /\ size \in [Documents -> 0 .. 2] /\ packed \in [Documents -> 0 .. 2]
  /\ file \in [doc : Documents \union {None}, at : 0 .. 2]
  /\ disturbed \subseteq Documents /\ raced \subseteq Documents

Entries == {d \in Documents : packed[d] > 0}

\* Whatever is written while the tables are read, the rows of a bundle can be
\* inserted again: no row refers to one that is not in it.
BundleRowsImport ==
  exp \in {"packing", "finished"} => \A d \in got.documents : Of[d] \in got.firearms

\* A row in a bundle without its blob has one cause: the file came or went between
\* the reading of the rows and the reading of the directory, or a restore swapped
\* the directory then; or the row never had its blob, for its upload ran across the
\* swap of a restore.
MissingBlobHasACause ==
  exp = "finished" => got.documents \ Entries \subseteq disturbed \union raced

\* What a bundle can be relied on for.
ExportIsSound == TypeOK /\ BundleRowsImport /\ MissingBlobHasACause

\* A bundle that is finished holds the entries and the bytes its manifest declares,
\* or the restore would refuse it; and no blob that a row of it names was caught
\* half-written, although sizes are taken while uploads run.
BundleIsWhole ==
  exp = "finished" =>
    /\ Cardinality(Entries) = Manifest.blobs
    /\ SumFunction(packed) = Manifest.bytes
    /\ \A d \in got.documents \intersect Entries : packed[d] = 2

\* Every export ends, with a bundle or with an error that reaches the download.
ExportEnds == (exp # "idle") ~> Over

-----------------------------------------------------------------------------
(* The inductive invariant behind ExportIsSound, proved in                 *)
(* BackupExportProofs.                                                     *)

\* The rows, the uploads and the files, outside and inside the swap of a restore.
InstanceInv ==
  /\ \A d \in documents : Of[d] \in firearms /\ call[d] = "stored"
  /\ promote = "idle" => raced = {}
  /\ \A d \in Documents \ raced :
       /\ call[d] \in {"saving", "saved"} => Serving
       /\ call[d] = "stored" /\ promote = "promoted" => d \in RDocuments
       /\ call[d] \in {"saving", "saved", "stored"} /\ Serving => d \in upload

\* What was read of the tables is one snapshot, in which no row lacks its parent.
ReadInv ==
  /\ exp = "idle" => read = 0 /\ ~listed
  /\ exp \in {"packing", "finished"} => read = 2
  /\ read > 0 => /\ \A d \in snap.documents : Of[d] \in snap.firearms
                  /\ got.firearms = snap.firearms
  /\ read = 2 => got.documents = snap.documents

\* What came or went between the two readings is known.
CauseInv ==
  /\ exp = "reading" =>
       /\ ~Serving => disturbed = Documents
       /\ read > 0 => snap.documents \ (disturbed \union raced) \subseteq upload
       /\ listed => upload \ disturbed \subseteq names
  /\ exp \in {"packing", "finished"} =>
       got.documents \ (disturbed \union raced) \subseteq names
  /\ exp = "finished" => names \subseteq Entries

IInv == TypeOK /\ InstanceInv /\ ReadInv /\ CauseInv

-----------------------------------------------------------------------------
(* What more BundleIsWhole rests on.                                       *)

\* Only entries of the directory have a size, and a blob is packed with the size it
\* was declared with.  A document the snapshot holds is written to the end, so it is
\* packed in full, if its size was not taken too early.
WholeInv ==
  /\ ~listed => names = {}
  /\ \A d \in Documents : d \notin names => size[d] = 0
  /\ \A d \in Documents : packed[d] \in {0, size[d]}
  /\ exp \in {"idle", "reading"} => file = NoFile /\ \A d \in Documents : packed[d] = 0
  /\ read > 0 => \A d \in snap.documents : call[d] \notin {"new", "saving"}
  /\ file # NoFile => /\ file.doc \in Documents
                      /\ file.doc \in got.documents => file.at = 2
  /\ \A d \in got.documents : packed[d] \in {0, 2}
  /\ exp = "finished" => \A d \in names : packed[d] # 0
=============================================================================
