--------------------------- MODULE MCBackupExport ---------------------------
(***************************************************************************)
(* Instances of BackupExport for TLC.                                      *)
(***************************************************************************)
EXTENDS BackupExport, TLC

CONSTANTS f1, f2, d1, d2, d3

TwoFirearms == {f1, f2}
ThreeDocuments == {d1, d2, d3}
FirstFirearm == {f1}
NoDocument == {}
RestoredDocument == {d3}

\* The restore brings firearm f1 back with a document.  Before or meanwhile documents
\* can be uploaded to f1 and to a firearm that is created.
OfFirearm == (d1 :> f1) @@ (d2 :> f2) @@ (d3 :> f1)
=============================================================================
