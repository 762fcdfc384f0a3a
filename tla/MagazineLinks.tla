--------------------------- MODULE MagazineLinks ---------------------------
(***************************************************************************)
(* Which firearms a magazine fits, and the rule that only a magazine-fed   *)
(* firearm takes part (src/domain/magazines, src/domain/compatibility,     *)
(* src/domain/firearms, src/domain/bulkadd).  The rule spans two tables    *)
(* and has no constraint behind it: two guards read one table each under   *)
(* READ COMMITTED, and row locks must make them exclude each other.        *)
(*                                                                         *)
(* A session is one call of a service.  One action is one statement of its *)
(* transaction, or the COMMIT.  tx[s] holds the locks the call has taken   *)
(* and the link rows it has written; everyone else reads what is           *)
(* committed.  Firearms are numbered in the order of their ids.  Ordinals, *)
(* labels and the other columns are left out.                              *)
(***************************************************************************)
EXTENDS Naturals, FiniteSets

CONSTANTS
  Firearms,   \* firearm ids, numbers for their order
  Magazines,  \* magazine ids
  Kept,       \* the magazines there are at first
  Linked,     \* the link rows there are at first, pairs <<magazine, firearm>>
  Session,    \* calls of the services
  Owners,     \* who may own what: functions from calls to firearms and magazines
  Role        \* Role[s]: the operations call s may be

Operations == {"createMagazine", "updateMagazine", "deleteMagazine", "bulkAddMagazines",
               "updateFirearm", "deleteFirearm"}
Link == Magazines \X Firearms

ASSUME LinksAssumption ==
  /\ Firearms \subseteq Nat \ {0} /\ IsFiniteSet(Firearms)
  /\ Kept \subseteq Magazines
  /\ Linked \subseteq Kept \X Firearms
  /\ Owners \subseteq [Session -> SUBSET (Firearms \union Magazines)]
  /\ Role \in [Session -> SUBSET Operations]

VARIABLES
  live,    \* committed firearm rows
  fed,     \* fed[f]: the column is_magazine_fed
  mags,    \* committed magazine rows
  links,   \* committed magazine_firearm rows
  own,     \* own[s]: the firearms and magazines the caller owns
  granted, \* granted[s]: the firearms shared with the caller, to edit
  pc, op,  \* where each call is, and what it does
  mine,    \* the magazines a call creates, or the one it changes
  list,    \* the submitted compatibleFirearmIds, without duplicates
  flag,    \* the isMagazineFed an updateFirearm submits
  saw,     \* the firearms getVisibleIds returned to the call
  gun,     \* the firearm the next statement is about
  todo,    \* the firearms of the list that come after it
  tx       \* the locks and uncommitted link rows of the call

tables == <<live, fed, mags, links>>
inputs == <<op, mine, list, flag>>
vars == <<tables, own, granted, pc, inputs, saw, gun, todo, tx>>

NoOp == "none"
NoGun == 0
NoTx == [upd |-> {},      \* firearms locked FOR UPDATE
         nokey |-> {},    \* firearms updated
         share |-> {},    \* firearms a new link row refers to
         mag |-> {},      \* magazines locked FOR UPDATE or deleted
         add |-> {}, drop |-> {}] \* link rows inserted and deleted

-----------------------------------------------------------------------------
(* Visibility, locks and waiting.                                          *)

Goto(s, l) == pc' = [pc EXCEPT ![s] = l]

\* getVisibleIds: owned or granted.
Visible(s) == live \intersect (own[s] \union granted[s])

\* Mutant: the links to firearms out of sight are not preserved.
ReplacedAll(s) == {l \in links : l[1] \in mine[s]}

\* The links of the magazine that a call replaces: those to firearms it sees.
Replaced(s) == {l \in links : l[1] \in mine[s] /\ l[2] \in saw[s]}

\* The link rows that go with a deleted firearm or magazine.
Cascaded(s) ==
  {l \in links : IF op[s] = "deleteFirearm" THEN l[2] = gun[s] ELSE l[1] \in mine[s]}

\* The link rows the next statement of a call deletes.
Deletes(s) ==
  CASE pc[s] = "unlink" -> Replaced(s)
    [] pc[s] = "cascade" -> Cascaded(s)
    [] OTHER -> {}

\* FOR UPDATE and DELETE wait for every lock on a firearm; an UPDATE and the
\* foreign key of a new link do not wait for each other, nor do two new links.
LockedBy(s, r) ==
  tx[r].upd \union
  (IF pc[s] = "insert" THEN {} ELSE tx[r].nokey) \union
  (IF pc[s] \in {"insert", "update"} THEN {} ELSE tx[r].share)

\* The next statement of call s waits for the transaction of call r.
WaitsFor(s, r) ==
  /\ r # s
  /\ \/ pc[s] \in {"lockFirearms", "insert", "lockFirearm", "update", "cascade"}
        /\ gun[s] \in LockedBy(s, r)
     \/ pc[s] \in {"lockMagazine", "cascade"} /\ mine[s] \intersect tx[r].mag # {}
     \/ Deletes(s) \intersect tx[r].drop # {}

Free(s) == \A r \in Session : ~WaitsFor(s, r)

-----------------------------------------------------------------------------
(* Shapes of a step.                                                       *)

\* A statement changes nothing that others read before the COMMIT.
Unseen == UNCHANGED <<tables, own, granted, inputs>>

\* The transaction is over and the call returns or throws.
EndCall(s) ==
  /\ tx' = [tx EXCEPT ![s] = NoTx]
  /\ gun' = [gun EXCEPT ![s] = NoGun] /\ todo' = [todo EXCEPT ![s] = {}]
  /\ Goto(s, "done")

\* Mutant: ORDER BY firearm.id is missing.
InAnyOrder(S) == S
\* assertAllMagazineFed locks the submitted firearms by id.
InOrder(S) == {f \in S : \A g \in S : f <= g}

\* The next of the firearms S at statement l, or on to statement after.
Loop(s, l, S, first, after) ==
  IF S = {}
  THEN Goto(s, after) /\ gun' = [gun EXCEPT ![s] = NoGun] /\ todo' = [todo EXCEPT ![s] = {}]
  ELSE /\ Goto(s, l)
       /\ \E f \in first : /\ gun' = [gun EXCEPT ![s] = f]
                           /\ todo' = [todo EXCEPT ![s] = S \ {f}]

-----------------------------------------------------------------------------
(* createMagazine, updateMagazine and bulkAddMagazines.                    *)

Unused == Magazines \ (mags \union UNION {mine[s] : s \in Session})

StartMagazine(s) ==
  /\ pc[s] = "idle"
  /\ \E o \in Role[s] \intersect {"createMagazine", "updateMagazine", "bulkAddMagazines"} :
       /\ op' = [op EXCEPT ![s] = o]
       /\ \E m \in IF o = "updateMagazine" THEN mags \intersect own[s] ELSE Unused :
            mine' = [mine EXCEPT ![s] = {m}]
       /\ Goto(s, IF o = "updateMagazine" THEN "lockMagazine" ELSE "visible")
  /\ \E l \in SUBSET Firearms : list' = [list EXCEPT ![s] = l]
  /\ UNCHANGED <<tables, own, granted, flag, saw, gun, todo, tx>>

LockMagazine(s) ==
  /\ pc[s] = "lockMagazine"
  /\ Free(s)
  /\ IF mine[s] \subseteq mags
     THEN /\ tx' = [tx EXCEPT ![s].mag = mine[s]]
          /\ Goto(s, "visible")
          /\ UNCHANGED <<gun, todo>>
     ELSE EndCall(s)
  /\ UNCHANGED saw
  /\ Unseen

\* Every submitted firearm must be visible.  Bulk add inserts at once what the
\* others check, lock and replace.
ReadVisible(s) ==
  /\ pc[s] = "visible"
  /\ saw' = [saw EXCEPT ![s] = Visible(s)]
  /\ IF ~(list[s] \subseteq Visible(s)) THEN EndCall(s)
     ELSE IF op[s] = "bulkAddMagazines"
     THEN Loop(s, "insert", list[s], list[s], "commit") /\ UNCHANGED tx
     ELSE Loop(s, "lockFirearms", list[s], InOrder(list[s]), "unlink") /\ UNCHANGED tx
  /\ Unseen

\* Mutant: SELECT without FOR UPDATE.
CheckFirearms(s) ==
  /\ pc[s] = "lockFirearms"
  /\ IF \E f \in list[s] \intersect live : ~fed[f] THEN EndCall(s)
     ELSE Loop(s, "lockFirearms", {}, {}, "unlink") /\ UNCHANGED tx
  /\ UNCHANGED saw
  /\ Unseen

\* SELECT ... FOR UPDATE, row after row; a row that is gone is not returned.
\* With the last row the flags are looked at.
LockFirearms(s) ==
  /\ pc[s] = "lockFirearms"
  /\ Free(s)
  /\ LET locked == tx[s].upd \union ({gun[s]} \intersect live)
     IN IF todo[s] = {} /\ \E f \in locked : ~fed[f] THEN EndCall(s)
        ELSE /\ tx' = [tx EXCEPT ![s].upd = locked]
             /\ Loop(s, "lockFirearms", todo[s], InOrder(todo[s]), "unlink")
  /\ UNCHANGED saw
  /\ Unseen

Unlink(s) ==
  /\ pc[s] = "unlink"
  /\ Free(s)
  /\ tx' = [tx EXCEPT ![s].drop = Replaced(s)]
  /\ Loop(s, "insert", list[s], list[s], "commit")
  /\ UNCHANGED saw
  /\ Unseen

\* The link rows to one firearm; its foreign key fails when that is gone.
InsertLinks(s) ==
  /\ pc[s] = "insert"
  /\ Free(s)
  /\ IF gun[s] \in live
     THEN /\ tx' = [tx EXCEPT ![s].share = @ \union {gun[s]},
                              ![s].add = @ \union (mine[s] \X {gun[s]})]
          /\ Loop(s, "insert", todo[s], todo[s], "commit")
     ELSE EndCall(s)
  /\ UNCHANGED saw
  /\ Unseen

-----------------------------------------------------------------------------
(* updateFirearm, deleteFirearm and deleteMagazine.                        *)

StartFirearm(s) ==
  /\ pc[s] = "idle"
  /\ \E o \in Role[s] \intersect {"updateFirearm", "deleteFirearm"}, v \in BOOLEAN :
       /\ op' = [op EXCEPT ![s] = o]
       /\ flag' = [flag EXCEPT ![s] = v]
       /\ o = "deleteFirearm" => v
       /\ \E f \in IF o = "deleteFirearm" THEN live \intersect own[s] ELSE Visible(s) :
            gun' = [gun EXCEPT ![s] = f]
       /\ Goto(s, IF o = "deleteFirearm" THEN "cascade"
                  ELSE IF v THEN "update" ELSE "lockFirearm")
  /\ UNCHANGED <<tables, own, granted, mine, list, saw, todo, tx>>

\* assertNoCompatibleMagazines locks the firearm ...
LockFirearm(s) ==
  /\ pc[s] = "lockFirearm"
  /\ Free(s)
  /\ tx' = [tx EXCEPT ![s].upd = {gun[s]} \intersect live]
  /\ Goto(s, "links")
  /\ UNCHANGED <<saw, gun, todo>>
  /\ Unseen

\* ... and then looks for a link to it, whoever may see it.
ReadLinks(s) ==
  /\ pc[s] = "links"
  /\ IF \E l \in links : l[2] = gun[s] THEN EndCall(s)
     ELSE Goto(s, "update") /\ UNCHANGED <<gun, todo, tx>>
  /\ UNCHANGED saw
  /\ Unseen

UpdateFirearm(s) ==
  /\ pc[s] = "update"
  /\ Free(s)
  /\ IF gun[s] \in live
     THEN /\ tx' = [tx EXCEPT ![s].nokey = {gun[s]}]
          /\ Goto(s, "commit")
          /\ UNCHANGED <<gun, todo>>
     ELSE EndCall(s)
  /\ UNCHANGED saw
  /\ Unseen

StartDeleteMagazine(s) ==
  /\ pc[s] = "idle"
  /\ "deleteMagazine" \in Role[s]
  /\ op' = [op EXCEPT ![s] = "deleteMagazine"]
  /\ \E m \in mags \intersect own[s] : mine' = [mine EXCEPT ![s] = {m}]
  /\ Goto(s, "cascade")
  /\ UNCHANGED <<tables, own, granted, list, flag, saw, gun, todo, tx>>

\* DELETE of the row, which takes its link rows with it.
Cascade(s) ==
  /\ pc[s] = "cascade"
  /\ Free(s)
  /\ IF gun[s] \in live \/ mine[s] \intersect mags # {}
     THEN /\ tx' = [tx EXCEPT ![s].drop = Cascaded(s), ![s].mag = mine[s],
                              ![s].upd = {gun[s]} \intersect live]
          /\ Goto(s, "commit")
          /\ UNCHANGED <<gun, todo>>
     ELSE EndCall(s)
  /\ UNCHANGED saw
  /\ Unseen

-----------------------------------------------------------------------------
Commit(s) ==
  /\ pc[s] = "commit"
  /\ links' = (links \ tx[s].drop) \union tx[s].add
  /\ live' = IF op[s] = "deleteFirearm" THEN live \ {gun[s]} ELSE live
  /\ fed' = IF op[s] = "updateFirearm" THEN [fed EXCEPT ![gun[s]] = flag[s]] ELSE fed
  /\ mags' = IF op[s] = "deleteMagazine" THEN mags \ mine[s] ELSE mags \union mine[s]
  /\ EndCall(s)
  /\ UNCHANGED <<own, granted, inputs, saw>>

\* A statement, or the COMMIT, fails.
TxFails(s) ==
  /\ pc[s] \notin {"idle", "done"}
  /\ EndCall(s)
  /\ UNCHANGED saw
  /\ Unseen

\* The owner of a firearm shares it with the caller, or takes it back.
Share(s) ==
  /\ \E f \in Firearms \ own[s] :
       granted' = [granted EXCEPT ![s] = IF f \in @ THEN @ \ {f} ELSE @ \union {f}]
  /\ UNCHANGED <<tables, own, pc, inputs, saw, gun, todo, tx>>

Init ==
  /\ live = Firearms
  /\ fed \in {v \in [Firearms -> BOOLEAN] : \A l \in Linked : v[l[2]]}
  /\ mags = Kept /\ links = Linked
  /\ own \in Owners /\ granted = [s \in Session |-> {}]
  /\ pc = [s \in Session |-> "idle"] /\ op = [s \in Session |-> NoOp]
  /\ mine = [s \in Session |-> {}] /\ list = [s \in Session |-> {}]
  /\ flag = [s \in Session |-> TRUE] /\ saw = [s \in Session |-> {}]
  /\ gun = [s \in Session |-> NoGun] /\ todo = [s \in Session |-> {}]
  /\ tx = [s \in Session |-> NoTx]

Starts(s) == StartMagazine(s) \/ StartFirearm(s) \/ StartDeleteMagazine(s)

Proceeds(s) ==
  \/ LockMagazine(s) \/ ReadVisible(s) \/ LockFirearms(s) \/ Unlink(s) \/ InsertLinks(s)
  \/ LockFirearm(s) \/ ReadLinks(s) \/ UpdateFirearm(s) \/ Cascade(s) \/ Commit(s)

Next == \E s \in Session : Starts(s) \/ Proceeds(s) \/ TxFails(s) \/ Share(s)

Spec == Init /\ [][Next]_vars

\* The event loop drives a call and the database grants a lock that is free.
\* Neither a failure nor the detection of a deadlock is counted on.
FairSpec == Spec /\ \A s \in Session : WF_vars(Proceeds(s))
-----------------------------------------------------------------------------
(* Properties.                                                             *)

TxType == [upd : SUBSET Firearms, nokey : SUBSET Firearms, share : SUBSET Firearms,
           mag : SUBSET Magazines, add : SUBSET Link, drop : SUBSET Link]

States == {"idle", "lockMagazine", "visible", "lockFirearms", "unlink", "insert",
           "lockFirearm", "links", "update", "cascade", "commit", "done"}

\* The values each variable ranges over; a call holds locks only while it runs.
TypeOK ==
  /\ live \in SUBSET Firearms /\ fed \in [Firearms -> BOOLEAN]
  /\ mags \in SUBSET Magazines /\ links \in SUBSET Link
  /\ own \in Owners /\ granted \in [Session -> SUBSET Firearms]
  /\ pc \in [Session -> States] /\ op \in [Session -> Operations \union {NoOp}]
  /\ mine \in [Session -> SUBSET Magazines] /\ list \in [Session -> SUBSET Firearms]
  /\ flag \in [Session -> BOOLEAN] /\ saw \in [Session -> SUBSET Firearms]
  /\ gun \in [Session -> Firearms \union {NoGun}] /\ todo \in [Session -> SUBSET Firearms]
  /\ tx \in [Session -> TxType]
  /\ \A s \in Session : pc[s] \in {"idle", "done"} => tx[s] = NoTx

\* Only a magazine-fed firearm takes part in a compatibility link (CONCEPTS.md,
\* Magazine-fed), whatever the two guards race with.
OnlyMagazineFedLinked == \A l \in links : fed[l[2]]

\* An update replaces the links of its magazine to the firearms its caller saw, and
\* those alone, by the submitted list: what the caller could not see survives,
\* whatever commits in between (compatibility/relation.ts: left exactly as they are).
ReplacementIsExact ==
  [][\A s \in Session : op[s] = "updateMagazine" /\ Commit(s) =>
       \A m \in mine[s], f \in Firearms :
         <<m, f>> \in links' <=> IF f \in saw[s] THEN f \in list[s] ELSE <<m, f>> \in links]_vars

\* Locks are taken in an order that lets every call end; no deadlock needs breaking
\* (compatibility.ts: ordering by id keeps submissions from deadlocking).
CallsEnd == \A s \in Session : (pc[s] # "idle") ~> (pc[s] = "done")

-----------------------------------------------------------------------------
(* The inductive invariant behind OnlyMagazineFedLinked, for calls that    *)
(* are not bulk adds.                                                      *)

\* Each place in a call belongs to the operations that come by it.
PlaceInv(s) ==
  /\ pc[s] \in {"lockMagazine", "visible", "lockFirearms", "unlink", "insert"} =>
       op[s] \in {"createMagazine", "updateMagazine"}
  /\ pc[s] \in {"lockFirearm", "links", "update"} => op[s] = "updateFirearm"
  /\ pc[s] = "cascade" => op[s] \in {"deleteFirearm", "deleteMagazine"}
  /\ op[s] # "bulkAddMagazines"

\* Before its first firearm a call holds none; only an insert makes new links.
FreshInv(s) ==
  /\ pc[s] \in {"idle", "done", "lockMagazine", "visible", "lockFirearm", "cascade"} =>
       tx[s].upd = {}
  /\ tx[s].add # {} => /\ pc[s] \in {"insert", "commit"}
                        /\ op[s] \in {"createMagazine", "updateMagazine"}
  /\ \A l \in tx[s].add : l[2] \in tx[s].upd

\* A call that links has looked at every listed firearm there is under its lock.
LinkInv(s) ==
  /\ pc[s] = "lockFirearms" => list[s] \intersect live \subseteq tx[s].upd \union todo[s] \union {gun[s]}
  /\ (pc[s] \in {"unlink", "insert", "commit"} /\ op[s] \in {"createMagazine", "updateMagazine"}) =>
       /\ list[s] \intersect live \subseteq tx[s].upd
       /\ \A f \in tx[s].upd : fed[f]
  /\ pc[s] = "insert" => gun[s] \in list[s] /\ todo[s] \subseteq list[s]

\* A call that takes the flag away has looked for links under the firearm's lock.
FlagInv(s) ==
  (op[s] = "updateFirearm" /\ ~flag[s]) =>
    /\ (pc[s] \in {"links", "update"} /\ gun[s] \in live) => gun[s] \in tx[s].upd
    /\ pc[s] = "commit" => gun[s] \in tx[s].upd
    /\ (pc[s] = "commit" \/ (pc[s] = "update" /\ gun[s] \in live)) =>
         \A l \in links : l[2] # gun[s]

\* FOR UPDATE: one call at a time.
Exclusive == \A r, s \in Session : r # s => tx[r].upd \intersect tx[s].upd = {}

\* What every step preserves (updateFirearm, assertNoCompatibleMagazines,
\* assertAllMagazineFed): the two guards hold the same lock before they look.
IInv ==
  /\ TypeOK
  /\ Exclusive
  /\ OnlyMagazineFedLinked
  /\ \A s \in Session : PlaceInv(s) /\ FreshInv(s) /\ LinkInv(s) /\ FlagInv(s)

-----------------------------------------------------------------------------
(* The inductive invariant behind ReplacementIsExact, bulk adds included.  *)

Linking == {"createMagazine", "updateMagazine", "bulkAddMagazines"}

\* Only calls that link write new links, each to its own magazine; one that creates
\* it shares it with nobody.
OwnMagazineInv(s) ==
  /\ pc[s] \in {"lockMagazine", "visible", "lockFirearms", "unlink", "insert"} => op[s] \in Linking
  /\ pc[s] \in {"lockFirearm", "links", "update", "cascade"} => op[s] \notin Linking
  /\ \A l \in tx[s].add : op[s] \in Linking /\ l[1] \in mine[s]
  /\ op[s] \in Linking \ {"updateMagazine"} /\ pc[s] \notin {"idle", "done"} =>
       /\ mine[s] \intersect mags = {}
       /\ \A r \in Session \ {s} : mine[r] \intersect mine[s] = {}

\* An update has locked its magazine before it looks at anything.
LockedInv(s) ==
  op[s] = "updateMagazine" =>
    /\ pc[s] \in {"visible", "lockFirearms", "unlink", "insert", "commit"} =>
         tx[s].mag = mine[s]
    /\ pc[s] \in {"lockFirearms", "unlink", "insert", "commit"} => list[s] \subseteq saw[s]
    /\ pc[s] \in {"lockMagazine", "visible", "lockFirearms", "unlink"} => tx[s].add = {}

\* What it deletes are the links of its magazine to the firearms it saw, still all
\* of them, and what it adds is the part of the list it has come to.
ReplaceInv(s) ==
  op[s] = "updateMagazine" /\ pc[s] \in {"insert", "commit"} =>
    /\ tx[s].drop \subseteq mine[s] \X saw[s]
    /\ \A l \in links : l[1] \in mine[s] /\ l[2] \in saw[s] => l \in tx[s].drop
    /\ pc[s] = "insert" =>
         /\ gun[s] \in list[s] /\ gun[s] \notin todo[s] /\ todo[s] \subseteq list[s]
         /\ tx[s].add = mine[s] \X (list[s] \ ({gun[s]} \union todo[s]))
    /\ pc[s] = "commit" => tx[s].add = mine[s] \X list[s]

\* FOR UPDATE and DELETE of a magazine: one call at a time.
OneCallPerMagazine == \A r, s \in Session : r # s => tx[r].mag \intersect tx[s].mag = {}

ExactInv ==
  /\ TypeOK
  /\ OneCallPerMagazine
  /\ \A s \in Session : OwnMagazineInv(s) /\ LockedInv(s) /\ ReplaceInv(s)
=============================================================================
