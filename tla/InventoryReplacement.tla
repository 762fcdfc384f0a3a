------------------------- MODULE InventoryReplacement -------------------------
(***************************************************************************)
(* What a restore promises (restore-service.ts, module comment): seen from *)
(* outside, the whole inventory is replaced by the bundle's in one step,   *)
(* or nothing happens, whatever fails in between.                          *)
(*                                                                         *)
(* inventory is the pair of row sets (parents, children) that a client     *)
(* finds once the instance serves requests; trusted becomes FALSE when a   *)
(* restore is begun over the leftovers of an earlier one, and nothing is   *)
(* promised after that.                                                    *)
(***************************************************************************)
EXTENDS Naturals

CONSTANTS Base, Uploaders, Creators, Runs

VARIABLES inventory, trusted

vars == <<inventory, trusted>>

Unknown == <<{}, {}>>

Init == inventory = <<Base, Base>> /\ trusted = TRUE

\* An upload adds a child row, a creation a parent and a child row.
AddChild(w) == inventory' = <<inventory[1], inventory[2] \union {w}>> /\ UNCHANGED trusted
AddBoth(w) ==
  /\ inventory' = <<inventory[1] \union {w}, inventory[2] \union {w}>>
  /\ UNCHANGED trusted

\* Run r of restore takes effect, all of it.
Replace(r) == inventory' = <<{r}, {r}>> /\ UNCHANGED trusted

LoseTrust == trusted' = FALSE /\ inventory' = Unknown

Next ==
  /\ trusted
  /\ \/ \E w \in Uploaders : AddChild(w)
     \/ \E w \in Creators : AddBoth(w)
     \/ \E r \in Runs : Replace(r)
     \/ LoseTrust

Spec == Init /\ [][Next]_vars
=============================================================================
