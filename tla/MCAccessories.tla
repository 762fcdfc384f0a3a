---------------------------- MODULE MCAccessories ----------------------------
(***************************************************************************)
(* Instances of Accessories for TLC: firearms f and g of owner o, firearm  *)
(* h of e, who shares some of o's.                                         *)
(***************************************************************************)
EXTENDS Accessories, TLC

CONSTANTS f, g, h, x, y, r1, r2, o, e, a, b

MCFirearms == {f, g, h}
MCOwnerOf == (f :> o) @@ (g :> o) @@ (h :> e)
MCAccessories == {x, y}
MCRangeSessions == {r1, r2}
MCUsers == {o, e}
MCSession == {a, b}
MCUser == (a :> o) @@ (b :> e)

At(host, dated) == x :> [owner |-> o, host |-> host, dated |-> dated]
MCStored == {At(None, FALSE), At(f, TRUE), At(f, FALSE)}
OnlyDated == {At(f, TRUE)}
Edit(i, create) == <<e, i>> :> [perm |-> "edit", create |-> create, owner |-> o]
\* The grantee edits both firearms, one of them and with the right to create, or
\* the accessory alone.
MCShared == {Edit(f, FALSE) @@ Edit(g, FALSE), Edit(f, TRUE), Edit(x, FALSE)}
NoneShared == {Empty}

AllRoles ==
  (a :> {"mountAccessory", "updateAccessory", "deleteAccessory", "deleteFirearm",
         "deleteRangeSession", "createGrant", "revokeGrant"})
  @@ (b :> Operations \ {"deleteFirearm"})
DeleteRoles == (a :> {"deleteFirearm"}) @@ (b :> {"deleteFirearm"})
=============================================================================
