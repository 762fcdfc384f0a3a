----------------------------- MODULE MCGallery -----------------------------
(***************************************************************************)
(* Instances of Gallery for TLC.                                           *)
(***************************************************************************)
EXTENDS Gallery, TLC

CONSTANTS p1, p2, p3, p4, d1, a, b

FourPhotos == {p1, p2, p3, p4}
OneDocument == {d1}
TwoStored == {p1, p2}
Two == {a, b}
OwnerB == {b}

\* A call by a user with an edit grant beside any call by the owner: the last
\* free place of the gallery for the photo of each, and every failure.
NewFiles == (a :> {p3}) @@ (b :> {p4, d1})
Roles == (a :> {"createPhotos", "deletePhoto", "setPrimary", "reorderPhotos"})
         @@ (b :> Operations)

AllFaults == FaultKinds
=============================================================================
