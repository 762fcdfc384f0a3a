--------------------------- MODULE MCMagazineLinks ---------------------------
(***************************************************************************)
(* Instances of MagazineLinks for TLC.                                     *)
(***************************************************************************)
EXTENDS MagazineLinks, TLC

CONSTANTS m1, m2, m3, a, b

TwoFirearms == 1 .. 2
ThreeMagazines == {m1, m2, m3}
TwoKept == {m1, m2}
OneLinked == {<<m1, 2>>}
Two == {a, b}
\* The calls are made by the two owners, or both by the owner of firearm 1.
TwoOwners == {(a :> {1, m1, m3}) @@ (b :> {2, m2}),
              (a :> {1, m1, m3}) @@ (b :> {1, m1, m3})}
GuardedRoles ==
  (a :> {"createMagazine", "updateMagazine", "deleteMagazine"})
  @@ (b :> {"updateMagazine", "updateFirearm", "deleteFirearm"})
=============================================================================
