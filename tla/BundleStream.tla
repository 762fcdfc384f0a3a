--------------------------- MODULE BundleStream ---------------------------
(***************************************************************************)
(* A backup bundle on its way from the export to the staging area of a     *)
(* restore: the tar format (src/backup/bundle.ts), the framing and the     *)
(* authenticated encryption (src/backup/crypto.ts), a file that may have   *)
(* been cut short or altered in between, and the restore's reader          *)
(* (stageBundle in src/backup/restore-service.ts).                         *)
(*                                                                         *)
(* Byte counts are scaled down to cells: a tar header is one cell, Chunk   *)
(* cells of plaintext are one chunk, its authentication tag and each half  *)
(* of the stream's header are one cell.  Decryption and the tar reader are *)
(* two processes with a buffer between them, so the reader acts on the     *)
(* first chunks while the last are still to be authenticated.              *)
(***************************************************************************)
EXTENDS Naturals, FiniteSets, Sequences, SequencesExt

CONSTANTS
  Chunk,        \* CHUNK_SIZE
  MaxPiece,     \* the most cells one write delivers
  Bundles,      \* the bundles an export may have written
  Version       \* BACKUP_FORMAT_VERSION of the restoring instance

\* A bundle has a version, the entries of its tar, and the blobs and bytes its
\* manifest declares.  Its rows are never none: the admin who exports is a user.
ASSUME StreamAssumption ==
  /\ Chunk \in Nat \ {0} /\ MaxPiece \in Nat \ {0} /\ Version \in Nat
  /\ \A b \in Bundles :
       /\ b.version \in Nat /\ b.blobs \in Nat /\ b.bytes \in Nat
       /\ b.entries \in Seq([name : {"manifest.json", "db.ndjson", "blob"}, size : Nat])
       /\ Len(b.entries) >= 2
       /\ b.entries[1] = [name |-> "manifest.json", size |-> 1]
       /\ b.entries[2].name = "db.ndjson" /\ b.entries[2].size > 0
       /\ \A e \in 3 .. Len(b.entries) : b.entries[e].name = "blob"

VARIABLES
  bundle,     \* what was packed
  wire,       \* the file as it is uploaded
  aborts,     \* whether the upload breaks off with an error
  password,   \* whether the password is the right one
  occupied,   \* whether the instance holds data, and the restore is not forced
  arrived,    \* cells of the wire that have arrived
  opened,     \* cells of the wire that were decrypted
  pulls,      \* chunks decrypted
  plain,      \* the plaintext pushed downstream
  verified,   \* whether the final chunk was authenticated and the stream ended
  failure,    \* the error of the decrypting stream
  taken,      \* cells of the plaintext the tar reader has taken
  entry,      \* entryCount
  left,       \* cells still to come of the entry being read
  count,      \* blobsSeen
  imported,   \* the import into the staging schema
  stagedBlobs, \* the content of the blobs staged
  verdict

input   == <<bundle, wire, aborts, password, occupied>>
cipher  == <<arrived, opened, pulls, plain, verified, failure>>
cursor  == <<taken, entry, left, count>>
stagingArea == <<imported, stagedBlobs>>
streamVars == <<input, cipher, cursor, stagingArea, verdict>>

-----------------------------------------------------------------------------
(* What the export writes.                                                 *)

\* An entry of a tar: its header, numbered 0, and its content.
EntryCells(b, e) == [i \in 1 .. b.entries[e].size + 1 |-> [e |-> e, i |-> i - 1]]

\* The end of the archive is one more cell.
Tar(b) ==
  FlattenSeq([e \in 1 .. Len(b.entries) |-> EntryCells(b, e)]) \o <<[e |-> 0, i |-> 0]>>

\* The cells of chunk n of a plaintext p.  The flush makes the last chunk final; it
\* is never full, and empty when the plaintext ends at the end of a chunk.
Full(p) == Len(p) \div Chunk
ChunkOf(p, n) == SubSeq(p, (n - 1) * Chunk + 1, IF n <= Full(p) THEN n * Chunk ELSE Len(p))
Sealed(p, n) ==
  LET size == Len(ChunkOf(p, n)) + 1
  IN  [i \in 1 .. size |-> [chunk |-> n, i |-> i, of |-> size]]

Header == <<[chunk |-> 0, i |-> 1, of |-> 2], [chunk |-> 0, i |-> 2, of |-> 2]>>

\* createEncryptStream: the header, the full chunks, and the final one.
Encrypted(p) == Header \o FlattenSeq([n \in 1 .. Full(p) + 1 |-> Sealed(p, n)])

\* A file on its way: cut short, a cell altered, lost or added, two chunks swapped.
Bad == [chunk |-> 0, i |-> 0, of |-> 0]
ChunksSwapped(w, k) ==
  [i \in 1 .. Len(w) |-> CASE i \in k + 1 .. k + Chunk + 1 -> w[i + Chunk + 1]
                           [] i \in k + Chunk + 2 .. k + 2 * (Chunk + 1) -> w[i - Chunk - 1]
                           [] OTHER -> w[i]]
Delivered(w) ==
  {w} \union {SubSeq(w, 1, k) : k \in 0 .. Len(w) - 1}
      \union {[w EXCEPT ![k] = Bad] : k \in 1 .. Len(w)}
      \union {RemoveAt(w, k) : k \in 1 .. Len(w)}
      \union {InsertAt(w, k, Bad) : k \in 1 .. Len(w) + 1}
      \union {ChunksSwapped(w, 2 + (n - 1) * (Chunk + 1)) :
                n \in 1 .. ((Len(w) - 2) \div (Chunk + 1)) - 1}

-----------------------------------------------------------------------------
(* createDecryptStreamFromPassword and createDecryptStream.                *)

\* The header is the one that was written: its first half says what the file is and
\* how the key is derived (magic, version, salt, cost), its second starts the stream.
readHeader == SubSeq(wire, 1, 2) = Header
PreambleAltered == Len(wire) > 0 /\ wire[1] # Header[1]

Decrypting == failure = "none" /\ ~verified

\* libsodium: pull number n gives chunk n of the stream, unaltered, or fails.
Opens(cells, n) ==
  /\ password /\ readHeader
  /\ cells = Sealed(Tar(bundle), n)

\* The plaintext under a chunk that opens.
PlainOf(cells) == ChunkOf(Tar(bundle), cells[1].chunk)

IsFinal(cells) == cells[1].chunk = Full(Tar(bundle)) + 1

\* Mutant: a write drains one chunk, not all.
DrainableOne(from, to) == IF to - from > Chunk THEN 1 ELSE 0

\* How many full chunks the accumulator holds.
Drainable(from, to) == (to - from) \div (Chunk + 1)

Nth(from, n) == SubSeq(wire, from + (n - 1) * (Chunk + 1) + 1, from + n * (Chunk + 1))

\* A write.  Once the header is complete it is parsed and the key derived: an altered
\* first half is refused ("header"), makes libsodium refuse to derive a key, whose cost
\* is only bounded from above here ("kdf"), or makes another key.  Then every full
\* chunk is drained up to the first that does not open.  The final chunk is never full.
Deliver ==
  /\ Decrypting
  /\ \E k \in 1 .. MaxPiece :
       /\ arrived + k <= Len(wire)
       /\ arrived' = arrived + k
       /\ LET from == Max({2, opened})
              full == Drainable(from, arrived + k)
              good == Max({m \in 0 .. full : \A i \in 1 .. m : Opens(Nth(from, i), pulls + i)})
          IN  IF arrived + k < 2
                THEN UNCHANGED <<opened, pulls, plain, failure>>
                ELSE /\ opened' = from + good * (Chunk + 1)
                     /\ pulls' = pulls + good
                     /\ plain' = plain \o FlattenSeq([i \in 1 .. good |-> PlainOf(Nth(from, i))])
                     /\ \/ failure' = IF good < full THEN "auth" ELSE failure
                        \/ /\ arrived < 2 /\ PreambleAltered
                           /\ failure' \in {"header", "kdf"}
  /\ UNCHANGED <<input, verified, cursor, stagingArea, verdict>>

Remainder == SubSeq(wire, opened + 1, Len(wire))

\* Mutant: a stream that ends between two chunks is complete.
FlushTrusting ==
  /\ Decrypting
  /\ arrived = Len(wire) /\ ~aborts
  /\ IF arrived < 2 THEN failure' = "header" /\ UNCHANGED <<verified, plain, opened, pulls>>
     ELSE IF Remainder = <<>> \/ Opens(Remainder, pulls + 1)
       THEN /\ plain' = plain \o (IF Remainder = <<>> THEN <<>> ELSE PlainOf(Remainder))
            /\ opened' = Len(wire) /\ pulls' = pulls + 1
            /\ verified' = TRUE /\ UNCHANGED failure
       ELSE failure' = "auth" /\ UNCHANGED <<verified, plain, opened, pulls>>
  /\ UNCHANGED <<input, arrived, cursor, stagingArea, verdict>>

\* The end of the stream: what is left must be the final chunk.
Flush ==
  /\ Decrypting
  /\ arrived = Len(wire) /\ ~aborts
  /\ IF arrived < 2 THEN failure' = "header" /\ UNCHANGED <<verified, plain, opened, pulls>>
     ELSE IF Remainder # <<>> /\ Opens(Remainder, pulls + 1)
       THEN /\ plain' = plain \o PlainOf(Remainder)
            /\ opened' = Len(wire) /\ pulls' = pulls + 1
            /\ verified' = IsFinal(Remainder)
            /\ failure' = IF IsFinal(Remainder) THEN failure ELSE "auth"
       ELSE failure' = "auth" /\ UNCHANGED <<verified, plain, opened, pulls>>
  /\ UNCHANGED <<input, arrived, cursor, stagingArea, verdict>>

\* The upload breaks off: the error of the request destroys the decrypting stream.
Abort ==
  /\ Decrypting
  /\ arrived = Len(wire) /\ aborts
  /\ failure' = "upload"
  /\ UNCHANGED <<input, arrived, opened, pulls, plain, verified, cursor, stagingArea, verdict>>

-----------------------------------------------------------------------------
(* readBundle and stageBundle.                                             *)

Reading == verdict = "none"
Available == taken < Len(plain)
Cell == plain[taken + 1]
HeaderNext == Available /\ left = 0 /\ Cell.i = 0 /\ Cell.e # 0
ContentNext == Available /\ left > 0

NextEntry == bundle.entries[Cell.e]
Begin == taken' = taken + 1 /\ entry' = entry + 1 /\ left' = NextEntry.size
Advance == taken' = taken + 1 /\ left' = left - 1
Check(ok) == verdict' = IF ok THEN verdict ELSE "error"
Bytes(contents) == Len(FlattenSeq(contents))

BeginManifest ==
  /\ Reading /\ HeaderNext /\ entry = 0
  /\ Begin
  /\ Check(NextEntry.name = "manifest.json")
  /\ UNCHANGED <<input, cipher, count, stagingArea>>

BeginRows ==
  /\ Reading /\ HeaderNext /\ entry = 1
  /\ Begin
  /\ Check(NextEntry.name = "db.ndjson")
  /\ imported' = "open"
  /\ UNCHANGED <<input, cipher, count, stagedBlobs>>

MayStage(size) == count < bundle.blobs /\ size <= bundle.bytes

\* Every further entry is a blob, within the bounds of the manifest.
BeginBlob ==
  /\ Reading /\ HeaderNext /\ entry >= 2
  /\ Begin
  /\ count' = count + 1
  /\ LET ok == NextEntry.name = "blob" /\ MayStage(NextEntry.size)
     IN  Check(ok) /\ stagedBlobs' = IF ok THEN Append(stagedBlobs, <<>>) ELSE stagedBlobs
  /\ UNCHANGED <<input, cipher, imported>>

\* The manifest decides on the version, and whether the instance may be replaced.
ReadManifest ==
  /\ Reading /\ ContentNext /\ entry = 1
  /\ Advance
  /\ verdict' = IF bundle.version # Version THEN "version_mismatch"
                ELSE IF occupied THEN "refused_not_empty" ELSE verdict
  /\ UNCHANGED <<input, cipher, entry, count, stagingArea>>

\* importDatabase commits with the last row.
ReadRows ==
  /\ Reading /\ ContentNext /\ entry = 2
  /\ Advance
  /\ imported' = IF left = 1 THEN "committed" ELSE imported
  /\ UNCHANGED <<input, cipher, entry, count, stagedBlobs, verdict>>

\* Mutant: each blob may take all the bytes.
BudgetOfEach == bundle.bytes - Len(Last(stagedBlobs))

\* What the blobs so far leave of the declared bytes.
Budget == bundle.bytes - Bytes(stagedBlobs)

\* writeEntryToFile stops at the bound.
ReadBlob ==
  /\ Reading /\ ContentNext /\ entry > 2
  /\ Advance
  /\ Check(Budget > 0)
  /\ stagedBlobs' = IF Budget > 0
                    THEN [stagedBlobs EXCEPT ![Len(stagedBlobs)] = Append(@, Cell)]
                    ELSE stagedBlobs
  /\ UNCHANGED <<input, cipher, entry, count, imported>>

\* The end of the archive is skipped.
ReadEnd ==
  /\ Reading /\ Available /\ left = 0 /\ Cell.e = 0
  /\ taken' = taken + 1
  /\ UNCHANGED <<input, cipher, entry, left, count, stagingArea, verdict>>

\* The stream ended: everything declared must have come.
Finish ==
  /\ Reading /\ verified /\ ~Available
  /\ verdict' = IF entry >= 2 /\ left = 0 /\ count = bundle.blobs THEN "staged" ELSE "error"
  /\ UNCHANGED <<input, cipher, cursor, stagingArea>>

\* Mutant: the error of the decrypting stream is not handed to the tar reader.
FailDeaf == FALSE /\ UNCHANGED streamVars

\* The error of the decrypting stream destroys the tar reader, whatever it still
\* holds; the import is rolled back.  Only the two error classes of the decryption are
\* told as a wrong password or tampering, what else it throws is rethrown.
Fail ==
  /\ Reading /\ failure # "none"
  /\ imported' = IF imported = "open" THEN "none" ELSE imported
  /\ verdict' = IF failure \in {"auth", "header"} THEN "wrong_password_or_tampered"
                ELSE "error"
  /\ UNCHANGED <<input, cipher, cursor, stagedBlobs>>

-----------------------------------------------------------------------------
StreamInit ==
  /\ bundle \in Bundles
  /\ wire \in Delivered(Encrypted(Tar(bundle)))
  /\ aborts \in BOOLEAN /\ password \in BOOLEAN /\ occupied \in BOOLEAN
  /\ arrived = 0 /\ opened = 0 /\ pulls = 0 /\ plain = <<>>
  /\ verified = FALSE /\ failure = "none"
  /\ taken = 0 /\ entry = 0 /\ left = 0 /\ count = 0
  /\ imported = "none" /\ stagedBlobs = <<>>
  /\ verdict = "none"

Decrypts == Deliver \/ Flush \/ Abort
Stages ==
  \/ BeginManifest \/ ReadManifest \/ BeginRows \/ ReadRows \/ BeginBlob \/ ReadBlob
  \/ ReadEnd \/ Finish \/ Fail

StreamNext == Decrypts \/ Stages

StreamSpec == StreamInit /\ [][StreamNext]_streamVars

\* Both streams run on the event loop, and the upload ends or breaks off.
FairStreamSpec == StreamSpec /\ WF_streamVars(Decrypts) /\ WF_streamVars(Stages)
-----------------------------------------------------------------------------
(* Properties.                                                             *)

Verdicts == {"none", "version_mismatch", "refused_not_empty",
             "wrong_password_or_tampered", "error", "staged"}
Intact == wire = Encrypted(Tar(bundle))

PlainCell == [e : Nat, i : Nat]
WireCell == [chunk : Nat, i : Nat, of : Nat]

\* The values each variable ranges over.
StreamTypeOK ==
  /\ bundle \in Bundles /\ wire \in Seq(WireCell)
  /\ plain \in Seq(PlainCell) /\ stagedBlobs \in Seq(Seq(PlainCell))
  /\ aborts \in BOOLEAN /\ password \in BOOLEAN /\ occupied \in BOOLEAN
  /\ arrived \in 0 .. Len(wire) /\ opened \in {0} \union 2 .. Len(wire)
  /\ pulls \in 0 .. Full(Tar(bundle)) + 1
  /\ verified \in BOOLEAN /\ failure \in {"none", "header", "kdf", "auth", "upload"}
  /\ taken \in 0 .. Len(plain) /\ entry \in 0 .. Len(bundle.entries)
  /\ left \in Nat /\ count \in 0 .. Len(bundle.entries)
  /\ imported \in {"none", "open", "committed"} /\ verdict \in Verdicts

\* Whatever happens to a file on its way and in whatever pieces it arrives, a restore
\* only goes on to promote rows and blobs that are, all of them, those packed.
OnlyTheWholeBundleIsStaged ==
  verdict = "staged" =>
    /\ password /\ Intact /\ bundle.version = Version
    /\ imported = "committed"
    /\ Len(stagedBlobs) = Len(bundle.entries) - 2
    /\ \A b \in 1 .. Len(stagedBlobs) :
         stagedBlobs[b] = [i \in 1 .. bundle.entries[b + 2].size |-> [e |-> b + 2, i |-> i]]

\* The reader never sees a cell that was not sealed in this place: what the
\* decryption pushes is a beginning of what was packed.
OnlyAuthenticPlaintext ==
  /\ IsPrefix(plain, Tar(bundle))
  /\ ~password => plain = <<>>

\* Also half-way through a bundle that will be refused, the staging area holds no
\* more blobs and bytes than the manifest declares.
StagingStaysBounded == Len(stagedBlobs) <= bundle.blobs /\ Bytes(stagedBlobs) <= bundle.bytes

\* What is staged, how much of it, and what it is staged from.
StagingIsSound ==
  StreamTypeOK /\ OnlyTheWholeBundleIsStaged /\ OnlyAuthenticPlaintext /\ StagingStaysBounded

\* A bundle whose manifest does not fit its entries.
Misdeclared ==
  \/ bundle.blobs # Len(bundle.entries) - 2
  \/ bundle.bytes < Bytes([b \in 1 .. Len(bundle.entries) - 2 |->
                             [i \in 1 .. bundle.entries[b + 2].size |-> b]])

\* The operator is told what is the matter: an intact bundle and the right password
\* are never blamed, damage beyond the first half of the header is never reported as
\* some other error, and a refusal comes before anything is staged.
TheVerdictNamesTheCause ==
  /\ verdict = "wrong_password_or_tampered" => ~(password /\ Intact)
  /\ verdict = "error" => aborts \/ Misdeclared \/ PreambleAltered
  /\ verdict \in {"version_mismatch", "refused_not_empty"} =>
       imported = "none" /\ stagedBlobs = <<>>

\* The reader does not hang on a stream that failed.
StagingEnds == <>(verdict # "none")

-----------------------------------------------------------------------------
(* The inductive invariant, proved in BackupProofs.                        *)

\* What has been decrypted is the first pulls chunks, the wire up to there is what
\* was sealed, and what has arrived beyond is less than a full chunk.
CipherInv ==
  /\ pulls > 0 => password /\ readHeader
  /\ plain = SubSeq(Tar(bundle), 1, Len(plain)) /\ Len(plain) <= Len(Tar(bundle))
  /\ pulls = 0 => plain = <<>>
  /\ Decrypting =>
       /\ pulls <= Full(Tar(bundle)) /\ Len(plain) = pulls * Chunk
       /\ opened = IF arrived < 2 THEN 0 ELSE 2 + pulls * (Chunk + 1)
       /\ opened <= arrived
       /\ arrived < 2 => pulls = 0
       /\ arrived >= 2 =>
            /\ arrived <= opened + Chunk
            /\ password /\ readHeader =>
                 SubSeq(wire, 1, opened) = SubSeq(Encrypted(Tar(bundle)), 1, opened)
  /\ verified => failure = "none" /\ password /\ Intact /\ plain = Tar(bundle)
  /\ failure \in {"auth", "header"} => ~(password /\ Intact)
  /\ failure = "upload" => aborts
  /\ failure = "kdf" => PreambleAltered

\* The cells of the first k entries.
CellsUpTo(k) == Len(FlattenSeq([e \in 1 .. k |-> EntryCells(bundle, e)]))

\* Where the reader is in the plaintext: within its entry, or behind the end.
CursorInv ==
  Reading =>
    /\ left <= IF entry = 0 THEN 0 ELSE bundle.entries[entry].size
    /\ \/ taken = CellsUpTo(entry) - left
       \/ /\ taken = CellsUpTo(entry) + 1
          /\ entry = Len(bundle.entries) /\ left = 0

\* What it has staged of the entries so far.
StagedInv ==
  Reading =>
    /\ count = IF entry < 2 THEN 0 ELSE entry - 2
    /\ Len(stagedBlobs) = count
    /\ \A b \in 1 .. count :
         stagedBlobs[b] =
           [i \in 1 .. bundle.entries[b + 2].size - (IF b = count THEN left ELSE 0) |->
              [e |-> b + 2, i |-> i]]
    /\ imported = IF entry < 2 THEN "none"
                  ELSE IF entry = 2 /\ left > 0 THEN "open" ELSE "committed"
    /\ entry > 1 \/ (entry = 1 /\ left = 0) => bundle.version = Version /\ ~occupied

StreamInv ==
  /\ StreamTypeOK /\ CipherInv /\ CursorInv /\ StagedInv
  /\ StagingStaysBounded /\ OnlyTheWholeBundleIsStaged /\ TheVerdictNamesTheCause
=============================================================================
