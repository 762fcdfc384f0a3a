-------------------------- MODULE MCServiceHistory --------------------------
(***************************************************************************)
(* Instances of ServiceHistory for TLC: items i1 and i2 are on shelf p of  *)
(* owner o, item i3 on a shelf of another owner with a default of the same *)
(* name; i1 is shared to that owner to edit.                               *)
(***************************************************************************)
EXTENDS ServiceHistory, TLC

CONSTANTS d1, d2, d3, r1, r2, r3, e1, e2, e3, e4, e5, i1, i2, i3, p, q, o, u, n1, n2, n3, a, b

MCDefaults == {d1, d2, d3}
MCRules == {r1, r2, r3}
MCEvents == {e1, e2, e3, e4, e5}
MCItems == {i1, i2, i3}
MCShelves == {p, q}
MCNames == {n1, n2, n3}
MCShelfOf == (i1 :> p) @@ (i2 :> p) @@ (i3 :> q)
MCOwner == (i1 :> o) @@ (i2 :> o) @@ (i3 :> u) @@ (p :> o) @@ (q :> u)
MCEditors == (i1 :> {u}) @@ (i2 :> {}) @@ (i3 :> {})
MCSession == {a, b}
MCUser == (a :> o) @@ (b :> o)

Default(x, f, n) == x :> [of |-> f, name |-> n]
Rule(x, f, n) == x :> [of |-> f, name |-> n, hides |-> FALSE]
Event(x, f, n) == x :> [of |-> f, name |-> n, fixed |-> FALSE]

\* i1 overrides the default n1, i2 inherits it; both have history, and so has i3
\* under a default of the same name.
Overridden ==
  Default(d1, p, n1) @@ Default(d2, q, n1) @@ Rule(r1, i1, n1)
  @@ Event(e1, i1, n1) @@ Event(e2, i2, n1) @@ Event(e3, i3, n1)
\* i1 has a rule of its own beside the default.
Beside ==
  Default(d1, p, n1) @@ Rule(r1, i1, n2) @@ Event(e1, i1, n1) @@ Event(e2, i1, n2)
MCStored == {Overridden, Beside}

RenameRoles ==
  (a :> {"updateServiceRuleDefault", "updateItemRule"})
  @@ (b :> Operations)
=============================================================================
