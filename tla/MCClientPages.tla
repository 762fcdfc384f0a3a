--------------------------- MODULE MCClientPages ----------------------------
(* All the pages; three items of two kinds, two of them the viewer's own.   *)
EXTENDS ClientPages, TLC

CONSTANTS c1, c2, i1, i2, i3, k1, k2, r1, r2

MCItems == {i1, i2, i3}
MCMine == {i1, i2}
MCKindOf == (i1 :> k1) @@ (i2 :> k2) @@ (i3 :> k1)
MCNamed == {i1, i3}
MCStale == {i2, i3}
MCInRange == {i1}
MCEntries ==
  {None, Blocked, [kind |-> k1], [query |-> Text, inventory |-> "broken"],
   [grouped |-> TRUE, sorted |-> TRUE]}
MCRows == {r1, r2}
MCRowSymmetry == Permutations(MCRows)
MCNextStart == "US" :> 3
=============================================================================
