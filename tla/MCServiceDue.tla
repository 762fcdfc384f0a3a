---------------------------- MODULE MCServiceDue ----------------------------
(***************************************************************************)
(* Instances of ServiceDue for TLC: firearm f and accessory x of o,        *)
(* firearm h of e, of the same type as f.                                  *)
(***************************************************************************)
EXTENDS ServiceDue, TLC

CONSTANTS o, e, f, h, x, n1, n2, rifle, optic, s1, s2

MCUsers == {o, e}
MCFirearms == {f, h}
MCAccessories == {x}
MCCategories == {rifle, optic}
MCOwnerOf == (f :> o) @@ (h :> e) @@ (x :> o)
MCCategoryOf == (f :> rifle) @@ (h :> rifle) @@ (x :> optic)
MCOrigin == (f :> -1) @@ (h :> 1) @@ (x :> 0)
After(d, s, r) == [days |-> d, sessions |-> s, rounds |-> r]
MCThresholds == {After(0, 1, 0), After(2, 0, 4)}
\* e has no default for the type of h, which has a rule of its own; x has a
\* default, is mounted on f, and e has been let see it.
MCConfigured ==
  {[defaults |-> (<<o, rifle, n1>> :> After(0, 1, 0)) @@ (<<o, optic, n1>> :> After(2, 0, 4)),
    rules |-> (<<f, n2>> :> [hides |-> FALSE, th |-> After(2, 0, 4)]),
    mounted |-> (x :> f), grants |-> {[who |-> e, item |-> x, perm |-> "view"]}]}
=============================================================================
