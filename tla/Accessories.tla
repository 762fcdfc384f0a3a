----------------------------- MODULE Accessories -----------------------------
(***************************************************************************)
(* Accessories, where they are mounted and who may do what to them         *)
(* (src/domain/accessories/service.ts, src/auth/*.ts), with the range      *)
(* sessions that record what was mounted (src/domain/range-sessions) and   *)
(* the deletion of a firearm under them (src/domain/firearms/service.ts).  *)
(*                                                                         *)
(* A session is one call.  One action is the authorization of a call, one  *)
(* of its statements or the COMMIT; the reads of an authorization are one  *)
(* step.  An accessory row keeps its owner, the firearm it is mounted on   *)
(* and whether it has an installed date.  The link rows of compatible      *)
(* firearms, attachments, ammunition and the descriptive columns are left  *)
(* out.                                                                    *)
(***************************************************************************)
EXTENDS Naturals, FiniteSets

CONSTANTS
  Users, Firearms, Accessories, RangeSessions,
  OwnerOf,  \* OwnerOf[f]: the owner of firearm f, which never changes
  Stored,   \* Stored: the accessories there may be at first
  Shared,   \* Shared: the grants there may be at first
  Session,  \* calls
  User,     \* User[s]: who makes call s
  Role      \* Role[s]: the operations call s may be

Operations == {"createAccessory", "updateAccessory", "mountAccessory", "deleteAccessory",
               "createRangeSession", "deleteRangeSession", "deleteFirearm",
               "createGrant", "revokeGrant"}
None == "none"
Row == [owner : Users, host : Firearms \union {None}, dated : BOOLEAN]
\* A grant is the row of its grantee and item; its owner is the owner of the item.
Grant == [perm : {"view", "edit"}, create : BOOLEAN, owner : Users]
Item == Firearms \union Accessories
Key == Users \X Item
RangeRow == [gun : Firearms, used : SUBSET Accessories]
\* A table of rows of R with their keys in K.
IsTable(t, K, R) == DOMAIN t \subseteq K /\ t \in [DOMAIN t -> R]

ASSUME AccessoriesAssumption ==
  /\ OwnerOf \in [Firearms -> Users] /\ Firearms \intersect Accessories = {}
  /\ None \notin Item /\ User \in [Session -> Users]
  /\ \A t \in Stored :
       /\ IsTable(t, Accessories, Row)
       /\ \A x \in DOMAIN t : IF t[x].host = None THEN ~t[x].dated
                              ELSE OwnerOf[t[x].host] = t[x].owner
  /\ \A t \in Shared : IsTable(t, Key, Grant)
  /\ Role \in [Session -> SUBSET Operations]

VARIABLES
  live,   \* committed firearm rows
  acc,    \* committed accessory rows
  grants, \* committed grant rows
  range,  \* committed range sessions, with the accessories recorded for each
  pc,     \* where each call is
  call,   \* what it was asked, see NoCall
  was,    \* the mount an updateAccessory has read
  tx,     \* locks and uncommitted rows
  result  \* how the call ended

tables == <<live, acc, grants, range>>
vars == <<tables, pc, call, was, tx, result>>

NoCall == [op |-> None, x |-> None, gun |-> None, dated |-> FALSE, who |-> None,
           perm |-> "view", create |-> FALSE, session |-> None]
Empty == [x \in {} |-> None]
NoTx == [upd |-> {},       \* rows locked FOR UPDATE or deleted
         nokey |-> {},     \* rows updated
         share |-> {},     \* rows an inserted or updated row refers to
         acc |-> Empty,    \* accessory rows written
         range |-> Empty]  \* range sessions written

-----------------------------------------------------------------------------
(* Permissions: visibility.ts, accessory-visibility.ts, authorize.ts.      *)

\* resolveGrantPermission
Granted(u, i) == IF <<u, i>> \in DOMAIN grants THEN grants[<<u, i>>].perm ELSE None

\* resolvePermission on a firearm.
FirearmPermission(u, f) ==
  IF f \in live /\ OwnerOf[f] = u THEN "owner" ELSE Granted(u, f)

MayEditFirearm(u, f) == FirearmPermission(u, f) \in {"owner", "edit"}

\* resolveAccessoryPermission says "owner" or "edit": by ownership, by a grant of
\* the accessory, or through the firearm it is mounted on.
MayEditAccessory(u, x) ==
  /\ x \in DOMAIN acc
  /\ \/ acc[x].owner = u \/ Granted(u, x) = "edit"
     \/ acc[x].host # None /\ MayEditFirearm(u, acc[x].host)

\* requireAccessoryDelete: a grant of the accessory is not enough.
MayDeleteAccessory(u, x) ==
  /\ x \in DOMAIN acc
  /\ \/ acc[x].owner = u
     \/ acc[x].host # None /\ MayEditFirearm(u, acc[x].host)

\* resolveCreateOwner: for oneself, or for the owner of an item shared to edit
\* with the right to create.
MayCreateFor(u, o) ==
  \/ u = o
  \/ \E k \in DOMAIN grants : /\ k[1] = u /\ grants[k].owner = o
                              /\ grants[k].perm = "edit" /\ grants[k].create

\* Mutant: the firearm need not be the owner's.
MayCreateOnAny(u, o, f) == f # None => MayEditFirearm(u, f) /\ f \in live

\* authorizeCreateMount
MayCreateOn(u, o, f) == f # None => MayEditFirearm(u, f) /\ f \in live /\ OwnerOf[f] = o
\* authorizeMount: the accessory, the firearm it leaves, the firearm it goes to.
MayMount(u, x, f) ==
  /\ MayEditAccessory(u, x)
  /\ acc[x].host \notin {None, f} => MayEditFirearm(u, acc[x].host)
  /\ f # None => MayEditFirearm(u, f) /\ f \in live /\ OwnerOf[f] = acc[x].owner

OwnerOfItem(i) ==
  IF i \in Firearms THEN IF i \in live THEN OwnerOf[i] ELSE None
  ELSE IF i \in DOMAIN acc THEN acc[i].owner ELSE None

-----------------------------------------------------------------------------
(* Locks and the shapes of a step.                                         *)

Goto(s, l) == pc' = [pc EXCEPT ![s] = l]

\* The call is over: committed, refused with a domain error, or failed with an
\* error of the database.  What it held is released.
End(s, r) ==
  /\ Goto(s, "done") /\ result' = [result EXCEPT ![s] = r]
  /\ tx' = [tx EXCEPT ![s] = NoTx]

Others(s) == Session \ {s}
\* Nobody holds row i FOR UPDATE: what a foreign key waits for.
ShareFree(s, i) == \A r \in Others(s) : i \notin tx[r].upd
\* ... nor has updated it: what an UPDATE waits for.
UpdateFree(s, i) == \A r \in Others(s) : i \notin tx[r].upd \union tx[r].nokey
\* ... nor refers to it: what FOR UPDATE and DELETE wait for.
RowFree(s, i) == \A r \in Others(s) : i \notin tx[r].upd \union tx[r].nokey \union tx[r].share

Extend(t, x, row) == [y \in DOMAIN t \union {x} |-> IF y = x THEN row ELSE t[y]]
Restricted(t, S) == [x \in DOMAIN t \intersect S |-> t[x]]
Spare(K, t) == K \ DOMAIN t

-----------------------------------------------------------------------------
(* A call arrives.                                                         *)

Ask(s, c) ==
  /\ pc[s] = "idle" /\ c.op \in Role[s]
  /\ call' = [call EXCEPT ![s] = c]
  /\ Goto(s, "authorize")
  /\ UNCHANGED <<tables, was, tx, result>>

\* The database makes the id of a new row: no row has it and no call has named it.
NewAccessory(x) == x \notin DOMAIN acc /\ \A s \in Session : call[s].x # x
NewSession(r) == r \notin DOMAIN range /\ \A s \in Session : call[s].session # r

AskAccessory(s) ==
  \E x \in Accessories, f \in Firearms \union {None}, d \in BOOLEAN, o \in Users :
    \/ NewAccessory(x)
       /\ Ask(s, [NoCall EXCEPT !.op = "createAccessory", !.x = x, !.gun = f, !.dated = d, !.who = o])
    \/ Ask(s, [NoCall EXCEPT !.op = "updateAccessory", !.x = x, !.dated = d])
    \/ Ask(s, [NoCall EXCEPT !.op = "mountAccessory", !.x = x, !.gun = f])
    \/ Ask(s, [NoCall EXCEPT !.op = "deleteAccessory", !.x = x])

AskFirearm(s) ==
  \E f \in Firearms, r \in RangeSessions :
    \/ Ask(s, [NoCall EXCEPT !.op = "deleteFirearm", !.gun = f])
    \/ NewSession(r)
       /\ Ask(s, [NoCall EXCEPT !.op = "createRangeSession", !.gun = f, !.session = r])
    \/ r \in DOMAIN range /\ Ask(s, [NoCall EXCEPT !.op = "deleteRangeSession", !.session = r])

AskGrant(s) ==
  \E i \in Item, u \in Users \ {User[s]}, p \in {"view", "edit"}, c \in BOOLEAN :
    \/ Ask(s, [NoCall EXCEPT !.op = "createGrant", !.x = i, !.who = u, !.perm = p, !.create = c])
    \/ Ask(s, [NoCall EXCEPT !.op = "revokeGrant", !.x = i, !.who = u])

\* The check each operation makes before it writes.
Allowed(s) ==
  LET c == call[s]
      u == User[s]
  IN CASE c.op = "createAccessory" ->
            MayCreateFor(u, c.who) /\ MayCreateOn(u, c.who, c.gun)
       [] c.op = "updateAccessory" -> MayEditAccessory(u, c.x)
       [] c.op = "mountAccessory" -> MayMount(u, c.x, c.gun)
       [] c.op = "deleteAccessory" -> MayDeleteAccessory(u, c.x)
       [] c.op = "createRangeSession" -> MayEditFirearm(u, c.gun)
       [] c.op = "deleteRangeSession" ->
            c.session \in DOMAIN range /\ MayEditFirearm(u, range[c.session].gun)
       [] c.op = "deleteFirearm" -> FirearmPermission(u, c.gun) = "owner"
       [] OTHER -> OwnerOfItem(c.x) = u

Authorize(s) ==
  /\ pc[s] = "authorize"
  /\ IF Allowed(s)
     THEN /\ Goto(s, IF call[s].op = "updateAccessory" THEN "lock" ELSE "write")
          /\ UNCHANGED <<tx, result>>
     ELSE End(s, "refused")
  /\ UNCHANGED <<tables, call, was>>

-----------------------------------------------------------------------------
(* createAccessory, updateAccessory, mountAccessory, deleteAccessory.      *)

\* The mount is read without a lock (mutant).
ReadRow(s) ==
  /\ pc[s] = "lock"
  /\ IF call[s].x \in DOMAIN acc
     THEN /\ was' = [was EXCEPT ![s] = acc[call[s].x].host]
          /\ Goto(s, "write") /\ UNCHANGED <<tx, result>>
     ELSE End(s, "refused") /\ UNCHANGED was
  /\ UNCHANGED <<tables, call>>

\* The mount is read under a lock, and the date judged against it.
LockRow(s) ==
  /\ pc[s] = "lock" /\ RowFree(s, call[s].x)
  /\ IF call[s].x \in DOMAIN acc
     THEN /\ tx' = [tx EXCEPT ![s].upd = @ \union {call[s].x}]
          /\ was' = [was EXCEPT ![s] = acc[call[s].x].host]
          /\ Goto(s, "write") /\ UNCHANGED result
     ELSE End(s, "refused") /\ UNCHANGED was
  /\ UNCHANGED <<tables, call>>

\* The row an INSERT or UPDATE leaves: persistableFields keeps an installed date
\* only on a mounted accessory; a mount sets the date of the day.
Written(s) ==
  LET c == call[s]
  IN CASE c.op = "createAccessory" ->
            [owner |-> c.who, host |-> c.gun, dated |-> c.dated /\ c.gun # None]
       [] c.op = "updateAccessory" -> [acc[c.x] EXCEPT !.dated = c.dated /\ was[s] # None]
       [] c.op = "mountAccessory" -> [acc[c.x] EXCEPT !.host = c.gun, !.dated = c.gun # None]

\* Mutant: the firearm is locked although the accessory stays on it.
RefersAlways(s) == call[s].gun # None
\* A foreign key is looked up when its column gets a new value.
Refers(s) ==
  /\ call[s].gun # None
  /\ call[s].op = "createAccessory" \/ acc[call[s].x].host # call[s].gun

\* The constraint accessory_installed_date_requires_mount.
Checked(row) == row.dated => row.host # None

WriteAccessory(s) ==
  /\ pc[s] = "write" /\ call[s].op \in {"createAccessory", "updateAccessory", "mountAccessory"}
  /\ UpdateFree(s, call[s].x)
  /\ IF call[s].op # "createAccessory" /\ call[s].x \notin DOMAIN acc
     THEN End(s, "refused")
     ELSE LET row == Written(s)
          IN \/ ~Checked(row) /\ End(s, "error")
             \/ /\ Checked(row)
                /\ tx' = [tx EXCEPT ![s].acc = Extend(@, call[s].x, row),
                                    ![s].nokey = @ \union {call[s].x}]
                /\ Goto(s, IF Refers(s) THEN "refer" ELSE "commit")
                /\ UNCHANGED result
  /\ UNCHANGED <<tables, call, was>>

\* The foreign key of a written row, at the end of its statement.
Refer(s) ==
  /\ pc[s] = "refer" /\ ShareFree(s, call[s].gun)
  /\ IF call[s].gun \in live
     THEN /\ tx' = [tx EXCEPT ![s].share = @ \union {call[s].gun}]
          /\ Goto(s, IF call[s].op = "createRangeSession" THEN "snapshot" ELSE "commit")
          /\ UNCHANGED result
     ELSE End(s, "error")
  /\ UNCHANGED <<tables, call, was>>

DeleteAccessory(s) ==
  /\ pc[s] = "write" /\ call[s].op = "deleteAccessory" /\ RowFree(s, call[s].x)
  /\ IF call[s].x \in DOMAIN acc
     THEN /\ tx' = [tx EXCEPT ![s].upd = @ \union {call[s].x}]
          /\ Goto(s, "commit") /\ UNCHANGED result
     ELSE End(s, "refused")
  /\ UNCHANGED <<tables, call, was>>

-----------------------------------------------------------------------------
(* Range sessions.                                                         *)

WriteSession(s) ==
  /\ pc[s] = "write" /\ call[s].op = "createRangeSession"
  /\ Goto(s, "refer")
  /\ UNCHANGED <<tables, call, was, tx, result>>

Mounted(f) == {x \in DOMAIN acc : acc[x].host = f}

\* snapshotMountedAccessories: what is mounted is read without a lock ...
Snapshot(s) ==
  /\ pc[s] = "snapshot"
  /\ tx' = [tx EXCEPT ![s].range = Extend(Empty, call[s].session,
                         [gun |-> call[s].gun, used |-> Mounted(call[s].gun)])]
  /\ Goto(s, "link")
  /\ UNCHANGED <<tables, call, was, result>>

\* Mutant: the link rows refer to nothing.
LinkUnreferenced(s) ==
  /\ pc[s] = "link" /\ Goto(s, "commit")
  /\ UNCHANGED <<tables, call, was, tx, result>>

\* ... and linked: a foreign key waits for a deletion, and fails after it.
Link(s) ==
  LET used == tx[s].range[call[s].session].used
  IN /\ pc[s] = "link" /\ \A x \in used : ShareFree(s, x)
     /\ IF used \subseteq DOMAIN acc
        THEN /\ tx' = [tx EXCEPT ![s].share = @ \union used]
             /\ Goto(s, "commit") /\ UNCHANGED result
        ELSE End(s, "error")
     /\ UNCHANGED <<tables, call, was>>

DeleteSession(s) ==
  /\ pc[s] = "write" /\ call[s].op = "deleteRangeSession"
  /\ range' = Restricted(range, RangeSessions \ {call[s].session})
  /\ End(s, "ok")
  /\ UNCHANGED <<live, acc, grants, call, was>>

-----------------------------------------------------------------------------
(* deleteFirearm, and the grants.                                          *)

\* DELETE of the firearm row.
DeleteFirearm(s) ==
  /\ pc[s] = "write" /\ call[s].op = "deleteFirearm" /\ RowFree(s, call[s].gun)
  /\ IF call[s].gun \in live
     THEN /\ tx' = [tx EXCEPT ![s].upd = @ \union {call[s].gun}]
          /\ Goto(s, "unmount") /\ UNCHANGED result
     ELSE End(s, "refused")
  /\ UNCHANGED <<tables, call, was>>

\* ON DELETE SET NULL clears the mount of the accessories on it and nothing else:
\* the CHECK refuses a row that keeps its installed date.
Unmounted(s, x) == [acc[x] EXCEPT !.host = None]

Unmount(s) ==
  /\ pc[s] = "unmount"
  /\ LET on == Mounted(call[s].gun)
     IN /\ \A x \in on : UpdateFree(s, x)
        /\ IF \A x \in on : Checked(Unmounted(s, x))
           THEN /\ tx' = [tx EXCEPT ![s].acc = [x \in on |-> Unmounted(s, x)],
                                    ![s].nokey = @ \union on]
                /\ Goto(s, "commit") /\ UNCHANGED result
           ELSE End(s, "error")
  /\ UNCHANGED <<tables, call, was>>

\* The upsert and the deletion of a grant are statements of their own.
WriteGrant(s) ==
  /\ pc[s] = "write" /\ call[s].op \in {"createGrant", "revokeGrant"}
  /\ LET k == <<call[s].who, call[s].x>>
     IN grants' = IF call[s].op = "createGrant"
                  THEN Extend(grants, k, [perm |-> call[s].perm, owner |-> User[s],
                                          create |-> call[s].perm = "edit" /\ call[s].create])
                  ELSE Restricted(grants, Key \ {k})
  /\ End(s, "ok")
  /\ UNCHANGED <<live, acc, range, call, was>>

-----------------------------------------------------------------------------
\* The deletions take the grants and the links of the row with them.
Commit(s) ==
  /\ pc[s] = "commit"
  /\ LET c == call[s]
         gone == IF c.op = "deleteFirearm" THEN {c.gun} ELSE
                 IF c.op = "deleteAccessory" THEN {c.x} ELSE {}
         kept == [r \in {q \in DOMAIN range : range[q].gun \notin gone} |->
                    [range[r] EXCEPT !.used = @ \ gone]]
     IN /\ live' = live \ gone
        /\ acc' = [x \in (DOMAIN acc \union DOMAIN tx[s].acc) \ gone |->
                     IF x \in DOMAIN tx[s].acc THEN tx[s].acc[x] ELSE acc[x]]
        /\ grants' = Restricted(grants, {k \in Key : k[2] \notin gone})
        /\ range' = [r \in DOMAIN kept \union DOMAIN tx[s].range |->
                       IF r \in DOMAIN kept THEN kept[r] ELSE tx[s].range[r]]
  /\ End(s, "ok")
  /\ UNCHANGED <<call, was>>

Init ==
  /\ live = Firearms
  /\ acc \in Stored
  /\ grants \in Shared
  /\ range = Empty
  /\ pc = [s \in Session |-> "idle"]
  /\ call = [s \in Session |-> NoCall]
  /\ was = [s \in Session |-> None]
  /\ tx = [s \in Session |-> NoTx]
  /\ result = [s \in Session |-> None]

Asks(s) == AskAccessory(s) \/ AskFirearm(s) \/ AskGrant(s)
Steps(s) ==
  \/ Authorize(s) \/ LockRow(s) \/ WriteAccessory(s) \/ Refer(s) \/ DeleteAccessory(s)
  \/ WriteSession(s) \/ Snapshot(s) \/ Link(s) \/ DeleteSession(s)
  \/ DeleteFirearm(s) \/ Unmount(s) \/ WriteGrant(s) \/ Commit(s)

Next == \E s \in Session : Asks(s) \/ Steps(s)
Spec == Init /\ [][Next]_vars
\* A call that has begun goes on, and the database wakes whoever waits for a lock.
FairSpec == Spec /\ \A s \in Session : WF_vars(Steps(s))

-----------------------------------------------------------------------------
(* Properties.                                                             *)

Places == {"idle", "authorize", "lock", "write", "refer", "snapshot", "link", "unmount",
           "commit", "done"}
CallType == [op : Operations \union {None}, x : Item \union {None},
             gun : Firearms \union {None}, dated : BOOLEAN, who : Users \union {None},
             perm : {"view", "edit"}, create : BOOLEAN, session : RangeSessions \union {None}]
IsTx(t) ==
  /\ t \in [upd : SUBSET Item, nokey : SUBSET Item, share : SUBSET Item,
            acc : {t.acc}, range : {t.range}]
  /\ IsTable(t.acc, Accessories, Row) /\ IsTable(t.range, RangeSessions, RangeRow)

\* The tables hold rows of their kinds; a call holds locks only while it runs.
TypeOK ==
  /\ live \subseteq Firearms /\ IsTable(acc, Accessories, Row)
  /\ IsTable(grants, Key, Grant) /\ IsTable(range, RangeSessions, RangeRow)
  /\ pc \in [Session -> Places] /\ call \in [Session -> CallType]
  /\ was \in [Session -> Firearms \union {None}]
  /\ result \in [Session -> {None, "ok", "refused", "error"}]
  /\ tx = [s \in Session |-> tx[s]]
  /\ \A s \in Session : IsTx(tx[s]) /\ (pc[s] \in {"idle", "done"} => tx[s] = NoTx)

\* authorizeMount and authorizeCreateMount: whoever mounts it, an accessory is on
\* a firearm that exists and belongs to the accessory's own owner.
HostsAreTheOwners ==
  \A x \in DOMAIN acc : acc[x].host # None =>
    acc[x].host \in live /\ OwnerOf[acc[x].host] = acc[x].owner

\* updateAccessory judges the installed date against the mount its row has when
\* it commits: a mount or an unmount beside it loses no date and keeps none.
DateFitsTheMount ==
  [][\A s \in Session :
       /\ pc[s] = "commit" /\ pc'[s] = "done"
       /\ call[s].op = "updateAccessory" /\ call[s].x \in DOMAIN acc'
       => acc'[call[s].x].dated = (call[s].dated /\ acc'[call[s].x].host # None)]_vars

\* "The reverse order is worse than silent: ... violates
\* accessory_installed_date_requires_mount and surfaces as a 500": an edit never
\* ends with an error of the database.
EditsNeverTripTheCheck ==
  \A s \in Session : call[s].op = "updateAccessory" => result[s] # "error"

\* What holds of the mounts and of those who edit them, all together.
MountsAreSound == TypeOK /\ HostsAreTheOwners /\ EditsNeverTripTheCheck

\* snapshotMountedAccessories: the rounds of a session count for accessories of
\* the firearm's owner only, and for none that is gone, whoever mounts, moves or
\* deletes accessories beside it.
RoundsStayWithTheOwner ==
  \A r \in DOMAIN range : \A x \in range[r].used :
    x \in DOMAIN acc /\ acc[x].owner = OwnerOf[range[r].gun]

\* A call that began ends: no two of them wait for each other.
CallsEnd == \A s \in Session : (pc[s] # "idle") ~> (pc[s] = "done")

\* inventory-schema.ts: "deleting a firearm unmounts its accessories rather than
\* deleting them": the deletion does not fail because of them.
DeletionUnmounts ==
  \A s \in Session : call[s].op = "deleteFirearm" => result[s] # "error"

-----------------------------------------------------------------------------
(* The inductive invariant: what holds of a call at each of its places.    *)

\* Where a call of each kind can be, what it was asked and what it holds there.
PlaceInv(s) ==
  LET c == call[s]
      t == tx[s]
  IN /\ IF pc[s] = "idle" THEN c = NoCall ELSE c.op # None
     /\ pc[s] # "done" => result[s] = None
     /\ c.op \in {"createAccessory", "updateAccessory", "mountAccessory", "deleteAccessory"}
        => c.x \in Accessories
     /\ c.op = "createAccessory" => c.who \in Users
     /\ c.op = "updateAccessory" => c.gun = None
     /\ c.op \in {"createRangeSession", "deleteFirearm"} => c.gun \in Firearms
     /\ c.op = "createRangeSession" => c.session \in RangeSessions
     /\ c.op \in {"createGrant", "revokeGrant"} => c.x \in Item /\ c.who \in Users
     /\ pc[s] \in {"idle", "authorize", "lock", "done"} => t = NoTx
     /\ pc[s] \in {"write", "unmount"} => DOMAIN t.acc = {}
     /\ pc[s] \in {"write", "refer", "snapshot"} => DOMAIN t.range = {}
     /\ pc[s] = "lock" => c.op = "updateAccessory"
     /\ pc[s] = "refer" =>
          c.op \in {"createAccessory", "mountAccessory", "createRangeSession"}
     /\ pc[s] \in {"snapshot", "link"} => c.op = "createRangeSession"
     /\ pc[s] = "unmount" => c.op = "deleteFirearm"
     /\ pc[s] = "commit" => c.op \notin {"deleteRangeSession", "createGrant", "revokeGrant"}
     /\ c.op \in {"createRangeSession", "deleteAccessory"} => DOMAIN t.acc = {}
     /\ c.op # "createRangeSession" => DOMAIN t.range = {}

\* A call authorized to put an accessory on a firearm: both have one owner.
MountInv(s) ==
  LET c == call[s]
  IN pc[s] = "write" /\ c.gun # None =>
       /\ c.op = "createAccessory" => OwnerOf[c.gun] = c.who
       /\ c.op = "mountAccessory" /\ c.x \in DOMAIN acc => OwnerOf[c.gun] = acc[c.x].owner

\* A row written and not committed: it is locked, nobody changed what it was made
\* from, and the firearm it is mounted on is looked up, held or the one it was on.
RowInv(s, x) ==
  LET row == tx[s].acc[x]
  IN /\ x \in tx[s].nokey
     /\ IF call[s].op = "createAccessory" THEN x = call[s].x
        ELSE x \in DOMAIN acc /\ acc[x].owner = row.owner
     /\ row.host # None =>
          /\ OwnerOf[row.host] = row.owner
          /\ \/ pc[s] = "refer" /\ row.host = call[s].gun
             \/ row.host \in tx[s].share
             \/ x \in DOMAIN acc /\ acc[x].host = row.host

\* An edit has its row locked and the mount it judges by is the row's.
EditInv(s) ==
  LET item == call[s].x
  IN call[s].op = "updateAccessory" =>
       /\ pc[s] = "write" => item \in tx[s].upd /\ item \in DOMAIN acc /\ acc[item].host = was[s]
       /\ pc[s] = "commit" =>
            /\ DOMAIN tx[s].acc = {item}
            /\ tx[s].acc[item].dated = (call[s].dated /\ tx[s].acc[item].host # None)

\* A deletion holds its row; that of a firearm has unmounted all that is on it.
DeleteInv(s) ==
  LET c == call[s]
  IN /\ c.op = "deleteAccessory" /\ pc[s] = "commit" => c.x \in tx[s].upd
     /\ c.op = "deleteFirearm" /\ pc[s] \in {"unmount", "commit"} => c.gun \in tx[s].upd
     /\ c.op = "deleteFirearm" /\ pc[s] = "commit" =>
          /\ Mounted(c.gun) \subseteq DOMAIN tx[s].acc
          /\ \A x \in DOMAIN tx[s].acc : tx[s].acc[x].host = None

\* What a session found mounted: an id that named an accessory of the firearm's
\* owner, and still names it, held, when it commits.
RoundsInv(s) ==
  /\ pc[s] = "link" => DOMAIN tx[s].range = {call[s].session}
  /\ \A r \in DOMAIN tx[s].range : \A x \in tx[s].range[r].used :
       /\ x \in DOMAIN acc => acc[x].owner = OwnerOf[tx[s].range[r].gun]
       /\ x \in DOMAIN acc \/ \E q \in Session : call[q].x = x
       /\ pc[s] = "commit" => x \in tx[s].share

\* The id of an accessory being created is new to every other call.
BirthInv(s) ==
  LET item == call[s].x
  IN call[s].op = "createAccessory" /\ pc[s] # "done" =>
       /\ item \notin DOMAIN acc
       /\ \A q \in Session \ {s} :
            /\ call[q].op = "createAccessory" => call[q].x # item
            /\ call[q].op = "mountAccessory" /\ pc[q] = "write" => call[q].x # item
            /\ \A r \in DOMAIN tx[q].range : item \notin tx[q].range[r].used

\* The locks of two calls do not conflict, and what is referred to stays.
LocksInv ==
  \A s \in Session :
    /\ tx[s].share \subseteq live \union DOMAIN acc
    /\ \A q \in Session \ {s} :
         /\ tx[s].upd \intersect (tx[q].upd \union tx[q].nokey \union tx[q].share) = {}
         /\ tx[s].nokey \intersect tx[q].nokey = {}

CallInv(s) ==
  /\ PlaceInv(s) /\ MountInv(s) /\ EditInv(s) /\ DeleteInv(s) /\ RoundsInv(s) /\ BirthInv(s)
  /\ \A x \in DOMAIN tx[s].acc : RowInv(s, x)

IInv ==
  /\ TypeOK /\ HostsAreTheOwners /\ EditsNeverTripTheCheck /\ RoundsStayWithTheOwner
  /\ LocksInv /\ \A s \in Session : CallInv(s)
=============================================================================
