--------------------------- MODULE MCBundleStream ---------------------------
(***************************************************************************)
(* Instances of BundleStream for TLC.                                      *)
(***************************************************************************)
EXTENDS BundleStream, TLC

Entry(n, s) == [name |-> n, size |-> s]
Manifest == Entry("manifest.json", 1)

\* Two blobs; the plaintext ends within a chunk.
Two == [version |-> 1, blobs |-> 2, bytes |-> 3,
        entries |-> <<Manifest, Entry("db.ndjson", 1), Entry("blob", 1), Entry("blob", 2)>>]

\* One blob; the plaintext ends with a chunk, so the final chunk is empty.
One == [version |-> 1, blobs |-> 1, bytes |-> 2,
        entries |-> <<Manifest, Entry("db.ndjson", 2), Entry("blob", 2)>>]

\* Manifests that declare a blob too few, a byte too few, a blob too many; another version.
AllBundles == {Two, One, [Two EXCEPT !.blobs = 1], [Two EXCEPT !.bytes = 2],
               [One EXCEPT !.blobs = 2], [One EXCEPT !.version = 2]}
=============================================================================
