----------------------------- MODULE MCBulkAdd -----------------------------
(***************************************************************************)
(* Instances of BulkAdd for TLC: o, who may create for g and not for e.    *)
(***************************************************************************)
EXTENDS BulkAdd, TLC

CONSTANTS o, e, g, a, b, p, k

MCUsers == {o, e, g}
MCCreateFor == {<<o, g>>}
MCSession == {a, b}
MCUser == (a :> o) @@ (b :> o)
Batch(key, owner, prefix, n, link) ==
  [op |-> "bulkAddMagazines", key |-> key, owner |-> owner, prefix |-> prefix, sent |-> prefix,
   n |-> n, link |-> link]
Single(owner, prefix, sent, n, link) ==
  [op |-> "createMagazine", key |-> None, owner |-> owner, prefix |-> prefix, sent |-> sent,
   n |-> n, link |-> link]
\* A keyed batch, one on behalf of somebody who lets nobody, one that is linked; a
\* magazine for g that is linked, and one whose label was typed and no prefix sent.
MCInputs == {Batch(k, o, p, 2, FALSE), Batch(k, e, p, 1, FALSE), Batch(None, g, p, 1, TRUE),
             Batch(None, o, None, 1, TRUE),
             Single(g, p, p, 2, TRUE), Single(o, p, None, 2, FALSE)}
MCRole == (a :> {"bulkAddMagazines", "createMagazine"})
          @@ (b :> {"bulkAddMagazines", "pruneExpiredIdempotencyKeys"})
=============================================================================
