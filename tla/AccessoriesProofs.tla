-------------------------- MODULE AccessoriesProofs --------------------------
(***************************************************************************)
(* Proofs about Accessories, for every set of users, firearms, accessories *)
(* and calls: whoever mounts, edits, creates and deletes beside whom, a    *)
(* mount and what a range session recorded stay with the owner.            *)
(*                                                                         *)
(* A step belongs to one call.  What it must keep of the others is stated  *)
(* once (OthersKeep); each action then says what it does for its own call. *)
(***************************************************************************)
EXTENDS Accessories, TLAPS

SameCall(r) ==
  pc'[r] = pc[r] /\ call'[r] = call[r] /\ was'[r] = was[r] /\ tx'[r] = tx[r] /\ result'[r] = result[r]

\* Only call s moves.
OthersSame(s) == \A r \in Session \ {s} : SameCall(r)

\* What a step of s may do to the tables: take rows it has locked, change rows it
\* holds, add the row it creates, mount on a firearm it refers to.
TableStep(s) ==
  /\ live' \subseteq live /\ \A f \in live \ live' : f \in tx[s].upd
  /\ \A x \in DOMAIN acc \ DOMAIN acc' : x \in tx[s].upd /\ call[s].x = x
  /\ \A x \in DOMAIN acc' \ DOMAIN acc :
       call[s].op = "createAccessory" /\ call[s].x = x /\ pc[s] # "done"
  /\ \A x \in DOMAIN acc \intersect DOMAIN acc' :
       acc'[x].owner = acc[x].owner /\ (acc'[x] # acc[x] => x \in tx[s].nokey)
  /\ \A x \in DOMAIN acc' :
       acc'[x].host # None /\ (x \in DOMAIN acc => acc[x].host # acc'[x].host)
       => acc'[x].host \in tx[s].share

\* The locks t conflicts with none of another call.
Compatible(s, t) ==
  \A q \in Session \ {s} :
    /\ t.upd \intersect (tx[q].upd \union tx[q].nokey \union tx[q].share) = {}
    /\ tx[q].upd \intersect (t.nokey \union t.share) = {}
    /\ t.nokey \intersect tx[q].nokey = {}

\* What s goes on to rely on is a row that is there, or one it relied on before.
ReliesOnRows(s) ==
  /\ call[s].op = "mountAccessory" /\ pc'[s] = "write" => call[s].x \in DOMAIN acc
  /\ \A r \in DOMAIN tx'[s].range : \A x \in tx'[s].range[r].used :
       x \notin DOMAIN acc => r \in DOMAIN tx[s].range /\ x \in tx[s].range[r].used

-----------------------------------------------------------------------------
(* Steps and the calls that do not take them.                              *)

LEMMA HoldApart ==
  ASSUME IInv, NEW s \in Session, NEW r \in Session \ {s}
  PROVE  /\ tx[s].upd \intersect (tx[r].upd \union tx[r].nokey \union tx[r].share) = {}
         /\ tx[r].upd \intersect (tx[s].upd \union tx[s].nokey \union tx[s].share) = {}
         /\ tx[s].nokey \intersect tx[r].nokey = {}
BY DEF IInv, LocksInv

\* A step of s keeps the invariants of every other call.
LEMMA OthersKeep ==
  ASSUME IInv, NEW s \in Session, OthersSame(s), TableStep(s), call' = call, ReliesOnRows(s)
  PROVE  \A r \in Session \ {s} : CallInv(r)'
<1> TAKE r \in Session \ {s}
<1>1. /\ CallInv(r) /\ BirthInv(s)
      /\ pc'[r] = pc[r] /\ call'[r] = call[r] /\ was'[r] = was[r] /\ tx'[r] = tx[r]
      /\ result'[r] = result[r]
  BY DEF OthersSame, SameCall, IInv, CallInv
<1>2. /\ tx[s].upd \intersect (tx[r].upd \union tx[r].nokey \union tx[r].share) = {}
      /\ tx[r].upd \intersect (tx[s].upd \union tx[s].nokey \union tx[s].share) = {}
      /\ tx[s].nokey \intersect tx[r].nokey = {}
  BY HoldApart
<1>3. PlaceInv(r)'
  BY <1>1 DEF CallInv, PlaceInv
<1>4. MountInv(r)'
  <2> SUFFICES ASSUME pc[r] = "write", call[r].gun # None, call[r].op = "mountAccessory",
                      call[r].x \in DOMAIN acc'
               PROVE  OwnerOf[call[r].gun] = acc'[call[r].x].owner
    BY <1>1 DEF CallInv, MountInv
  <2>1. call[r].x \in DOMAIN acc
    BY <1>1 DEF TableStep, BirthInv
  <2> QED BY <1>1, <2>1 DEF TableStep, CallInv, MountInv
<1>5. EditInv(r)'
  <2> SUFFICES ASSUME call[r].op = "updateAccessory" PROVE EditInv(r)'
    BY <1>1 DEF EditInv
  <2>1. ASSUME pc[r] = "write"
        PROVE  call[r].x \in tx[r].upd /\ call[r].x \in DOMAIN acc' /\ acc'[call[r].x].host = was[r]
    <3>1. call[r].x \in tx[r].upd /\ call[r].x \in DOMAIN acc /\ acc[call[r].x].host = was[r]
      BY <1>1, <2>1 DEF CallInv, EditInv
    <3>2. call[r].x \in DOMAIN acc' /\ acc'[call[r].x] = acc[call[r].x]
      BY <1>2, <3>1 DEF TableStep
    <3> QED BY <3>1, <3>2
  <2> QED BY <1>1, <2>1 DEF CallInv, EditInv
<1>6. DeleteInv(r)'
  <2>1. ASSUME call[r].op = "deleteFirearm", pc[r] = "commit"
        PROVE  Mounted(call[r].gun)' \subseteq DOMAIN tx[r].acc
    <3> SUFFICES ASSUME NEW x \in DOMAIN acc', acc'[x].host = call[r].gun
                 PROVE  x \in DOMAIN tx[r].acc
      BY <1>1 DEF Mounted
    <3>1. call[r].gun \in tx[r].upd /\ call[r].gun # None
          /\ Mounted(call[r].gun) \subseteq DOMAIN tx[r].acc
      BY <1>1, <2>1, AccessoriesAssumption DEF CallInv, DeleteInv, PlaceInv, AccessoriesAssumption, Item
    <3>2. call[r].gun \notin tx[s].share
      BY <1>2, <3>1
    <3>3. x \in DOMAIN acc /\ acc[x].host = call[r].gun
      BY <3>1, <3>2 DEF TableStep
    <3> QED BY <3>1, <3>3 DEF Mounted
  <2> QED BY <1>1, <2>1 DEF CallInv, DeleteInv
<1>7. RoundsInv(r)'
  <2> SUFFICES ASSUME NEW k \in DOMAIN tx[r].range, NEW x \in tx[r].range[k].used
               PROVE  /\ x \in DOMAIN acc' => acc'[x].owner = OwnerOf[tx[r].range[k].gun]
                      /\ x \in DOMAIN acc' \/ \E q \in Session : call'[q].x = x
    BY <1>1 DEF CallInv, RoundsInv
  <2>1. ASSUME x \in DOMAIN acc' PROVE acc'[x].owner = OwnerOf[tx[r].range[k].gun]
    <3>1. x \in DOMAIN acc
      BY <1>1, <2>1 DEF TableStep, BirthInv
    <3> QED BY <1>1, <2>1, <3>1 DEF TableStep, CallInv, RoundsInv
  <2>2. x \in DOMAIN acc' \/ \E q \in Session : call'[q].x = x
    BY <1>1 DEF TableStep, CallInv, RoundsInv
  <2> QED BY <2>1, <2>2
<1>8. BirthInv(r)'
  <2> DEFINE x == call[r].x
  <2> SUFFICES ASSUME call[r].op = "createAccessory", pc[r] # "done"
               PROVE  /\ x \notin DOMAIN acc'
                      /\ \A q \in Session \ {r} :
                           /\ call'[q].op = "createAccessory" => call'[q].x # x
                           /\ call'[q].op = "mountAccessory" /\ pc'[q] = "write" => call'[q].x # x
                           /\ \A k \in DOMAIN tx'[q].range : x \notin tx'[q].range[k].used
    BY <1>1 DEF BirthInv
  <2>1. BirthInv(r)
    BY <1>1 DEF CallInv
  <2>2. x \notin DOMAIN acc /\ x \notin DOMAIN acc'
    BY <2>1 DEF BirthInv, TableStep
  <2>3. ASSUME NEW q \in Session \ {r}
        PROVE  /\ call'[q].op = "createAccessory" => call'[q].x # x
               /\ call'[q].op = "mountAccessory" /\ pc'[q] = "write" => call'[q].x # x
               /\ \A k \in DOMAIN tx'[q].range : x \notin tx'[q].range[k].used
    <3>1. CASE q = s
      BY <2>1, <2>2, <3>1 DEF BirthInv, ReliesOnRows
    <3>2. CASE q # s
      <4>1. pc'[q] = pc[q] /\ tx'[q] = tx[q]
        BY <3>2 DEF OthersSame, SameCall
      <4> QED BY <2>1, <4>1 DEF BirthInv
    <3> QED BY <3>1, <3>2
  <2> QED BY <2>2, <2>3
<1>9. \A x \in DOMAIN tx'[r].acc : RowInv(r, x)'
  <2> SUFFICES ASSUME NEW x \in DOMAIN tx[r].acc PROVE RowInv(r, x)'
    BY <1>1
  <2>1. RowInv(r, x) /\ x \in tx[r].nokey
    BY <1>1 DEF CallInv, RowInv
  <2>2. ASSUME x \in DOMAIN acc PROVE x \in DOMAIN acc' /\ acc'[x] = acc[x]
    BY <1>2, <2>1, <2>2 DEF TableStep
  <2> QED BY <1>1, <2>1, <2>2 DEF RowInv
<1> QED BY <1>3, <1>4, <1>5, <1>6, <1>7, <1>8, <1>9 DEF CallInv

LEMMA LocksKept ==
  ASSUME IInv, NEW s \in Session, OthersSame(s), TableStep(s), Compatible(s, tx'[s]),
         tx'[s].share \subseteq live' \union DOMAIN acc'
  PROVE  LocksInv'
<1>1. ASSUME NEW r \in Session PROVE tx'[r].share \subseteq live' \union DOMAIN acc'
  <2>1. CASE r = s BY <2>1
  <2>2. CASE r # s
    <3>1. tx'[r] = tx[r] /\ tx[r].share \subseteq live \union DOMAIN acc
      BY <2>2 DEF OthersSame, SameCall, IInv, LocksInv
    <3>2. tx[s].upd \intersect tx[r].share = {}
      BY <2>2, HoldApart
    <3> QED BY <3>1, <3>2 DEF TableStep
  <2> QED BY <2>1, <2>2
<1>2. ASSUME NEW r \in Session, NEW q \in Session \ {r}
      PROVE  /\ tx'[r].upd \intersect (tx'[q].upd \union tx'[q].nokey \union tx'[q].share) = {}
             /\ tx'[r].nokey \intersect tx'[q].nokey = {}
  <2>1. \A p \in Session \ {s} : tx'[p] = tx[p]
    BY DEF OthersSame, SameCall
  <2>2. CASE r = s BY <2>1, <2>2 DEF Compatible
  <2>3. CASE q = s BY <2>1, <2>3 DEF Compatible
  <2>4. CASE r # s /\ q # s BY <2>1, <2>4, HoldApart
  <2> QED BY <2>2, <2>3, <2>4
<1> QED BY <1>1, <1>2 DEF LocksInv

\* The parts of the invariant put together for a step of s.
LEMMA Together ==
  ASSUME IInv, NEW s \in Session, OthersSame(s), TableStep(s), call' = call, ReliesOnRows(s),
         Compatible(s, tx'[s]), tx'[s].share \subseteq live' \union DOMAIN acc',
         TypeOK', HostsAreTheOwners', RoundsStayWithTheOwner', CallInv(s)',
         call[s].op = "updateAccessory" => result'[s] # "error"
  PROVE  IInv'
<1>1. \A r \in Session : CallInv(r)'
  BY OthersKeep
<1>2. EditsNeverTripTheCheck'
  BY DEF IInv, EditsNeverTripTheCheck, OthersSame, SameCall
<1> QED BY <1>1, <1>2, LocksKept DEF IInv

-----------------------------------------------------------------------------
(* Transactions.                                                           *)

LEMMA NoTxIsTx == IsTx(NoTx) /\ DOMAIN NoTx.acc = {} /\ DOMAIN NoTx.range = {}
                  /\ NoTx.upd = {} /\ NoTx.nokey = {} /\ NoTx.share = {}
BY DEF IsTx, NoTx, Empty, IsTable

\* t with more locks, with rows written, with a range session written.
WithUpd(t, X) == [t EXCEPT !.upd = @ \union X]
WithShare(t, X) == [t EXCEPT !.share = @ \union X]
WithRows(t, a, X) == [t EXCEPT !.acc = a, !.nokey = @ \union X]
WithRange(t, g) == [t EXCEPT !.range = g]

LEMMA AddUpd ==
  ASSUME NEW t, IsTx(t), NEW X \in SUBSET Item, NEW u, u = WithUpd(t, X)
  PROVE  /\ IsTx(u) /\ u.upd = t.upd \union X /\ u.nokey = t.nokey /\ u.share = t.share
         /\ u.acc = t.acc /\ u.range = t.range
BY DEF IsTx, WithUpd

LEMMA AddShare ==
  ASSUME NEW t, IsTx(t), NEW X \in SUBSET Item, NEW u, u = WithShare(t, X)
  PROVE  /\ IsTx(u) /\ u.share = t.share \union X /\ u.nokey = t.nokey /\ u.upd = t.upd
         /\ u.acc = t.acc /\ u.range = t.range
BY DEF IsTx, WithShare

LEMMA PutRows ==
  ASSUME NEW t, IsTx(t), NEW X \in SUBSET Item, NEW a, IsTable(a, Accessories, Row),
         NEW u, u = WithRows(t, a, X)
  PROVE  /\ IsTx(u) /\ u.nokey = t.nokey \union X /\ u.acc = a /\ u.upd = t.upd
         /\ u.share = t.share /\ u.range = t.range
BY DEF IsTx, WithRows

LEMMA PutRange ==
  ASSUME NEW t, IsTx(t), NEW g, IsTable(g, RangeSessions, RangeRow), NEW u, u = WithRange(t, g)
  PROVE  /\ IsTx(u) /\ u.range = g /\ u.upd = t.upd /\ u.nokey = t.nokey
         /\ u.share = t.share /\ u.acc = t.acc
BY DEF IsTx, WithRange

\* A table with one row more.
LEMMA ExtendTable ==
  ASSUME NEW t, NEW K, NEW R, IsTable(t, K, R), NEW x \in K, NEW row \in R,
         NEW u, u = Extend(t, x, row)
  PROVE  /\ IsTable(u, K, R) /\ DOMAIN u = DOMAIN t \union {x} /\ u[x] = row
         /\ \A y \in DOMAIN t \ {x} : u[y] = t[y]
BY DEF IsTable, Extend

LEMMA RestrictedTable ==
  ASSUME NEW t, NEW K, NEW R, IsTable(t, K, R), NEW S, NEW u, u = Restricted(t, S)
  PROVE  /\ IsTable(u, K, R) /\ DOMAIN u = DOMAIN t \intersect S
         /\ \A y \in DOMAIN u : u[y] = t[y]
BY DEF IsTable, Restricted

LEMMA OneRow ==
  ASSUME NEW K, NEW R, NEW x \in K, NEW row \in R, NEW u, u = Extend(Empty, x, row)
  PROVE  IsTable(u, K, R) /\ DOMAIN u = {x} /\ u[x] = row
BY DEF IsTable, Extend, Empty

LEMMA EmptyTable == ASSUME NEW K, NEW R PROVE IsTable(Empty, K, R) /\ DOMAIN Empty = {}
BY DEF IsTable, Empty

-----------------------------------------------------------------------------
(* Shapes of a step of s.                                                  *)

\* s is at place l, has read mount w, holds t and has the result o.
At(s, l, w, t, o) ==
  /\ pc' = [pc EXCEPT ![s] = l] /\ was' = [was EXCEPT ![s] = w]
  /\ tx' = [tx EXCEPT ![s] = t] /\ result' = [result EXCEPT ![s] = o]

Results == {None, "ok", "refused", "error"}

LEMMA Moves ==
  ASSUME TypeOK, NEW s \in Session, call' = call, NEW l \in Places,
         NEW w \in Firearms \union {None}, NEW t, IsTx(t), NEW o \in Results,
         At(s, l, w, t, o), l \in {"idle", "done"} => t = NoTx
  PROVE  /\ OthersSame(s) /\ pc'[s] = l /\ was'[s] = w /\ tx'[s] = t /\ result'[s] = o
         /\ pc' \in [Session -> Places] /\ call' \in [Session -> CallType]
         /\ was' \in [Session -> Firearms \union {None}] /\ result' \in [Session -> Results]
         /\ tx' = [q \in Session |-> tx'[q]]
         /\ \A q \in Session : IsTx(tx'[q]) /\ (pc'[q] \in {"idle", "done"} => tx'[q] = NoTx)
<1>1. pc' \in [Session -> Places] /\ pc'[s] = l /\ \A r \in Session \ {s} : pc'[r] = pc[r]
  BY DEF TypeOK, At
<1>2. /\ was' \in [Session -> Firearms \union {None}] /\ was'[s] = w
      /\ \A r \in Session \ {s} : was'[r] = was[r]
  BY DEF TypeOK, At
<1>3. /\ result' \in [Session -> Results] /\ result'[s] = o
      /\ \A r \in Session \ {s} : result'[r] = result[r]
  BY DEF TypeOK, At, Results
<1>4. tx' = [q \in Session |-> tx'[q]] /\ tx'[s] = t /\ \A r \in Session \ {s} : tx'[r] = tx[r]
  BY DEF TypeOK, At
<1>5. \A q \in Session : IsTx(tx'[q]) /\ (pc'[q] \in {"idle", "done"} => tx'[q] = NoTx)
  BY <1>1, <1>4 DEF TypeOK
<1> QED BY <1>1, <1>2, <1>3, <1>4, <1>5 DEF TypeOK, OthersSame, SameCall

\* A statement leaves the tables as they are.
LEMMA StatementTables ==
  ASSUME IInv, NEW s \in Session, UNCHANGED tables
  PROVE  /\ TableStep(s) /\ HostsAreTheOwners' /\ RoundsStayWithTheOwner'
         /\ live' = live /\ acc' = acc /\ grants' = grants /\ range' = range
BY DEF tables, TableStep, IInv, HostsAreTheOwners, RoundsStayWithTheOwner

LEMMA Same ==
  ASSUME TypeOK, NEW s \in Session
  PROVE  /\ was = [was EXCEPT ![s] = was[s]] /\ tx = [tx EXCEPT ![s] = tx[s]]
         /\ result = [result EXCEPT ![s] = result[s]]
         /\ was[s] \in Firearms \union {None} /\ IsTx(tx[s]) /\ result[s] \in Results
BY DEF TypeOK, Results

\* The places where a call is under way.
Running == Places \ {"idle", "done"}

LEMMA After ==
  ASSUME IInv, NEW s \in Session, UNCHANGED <<tables, call, result>>, NEW l \in Running,
         NEW w \in Firearms \union {None}, NEW t, IsTx(t), At(s, l, w, t, result[s])
  PROVE  /\ TypeOK' /\ OthersSame(s) /\ pc'[s] = l /\ was'[s] = w /\ tx'[s] = t
         /\ result' = result /\ call' = call
         /\ live' = live /\ acc' = acc /\ grants' = grants /\ range' = range
<1>1. TypeOK /\ l \in Places /\ l \notin {"idle", "done"} /\ result[s] \in Results /\ call' = call
  BY Same DEF IInv, Running
<1>2. live' = live /\ acc' = acc /\ grants' = grants /\ range' = range
  BY StatementTables
<1>3. /\ OthersSame(s) /\ pc'[s] = l /\ was'[s] = w /\ tx'[s] = t
      /\ pc' \in [Session -> Places] /\ call' \in [Session -> CallType]
      /\ was' \in [Session -> Firearms \union {None}] /\ result' \in [Session -> Results]
      /\ tx' = [q \in Session |-> tx'[q]]
      /\ \A q \in Session : IsTx(tx'[q]) /\ (pc'[q] \in {"idle", "done"} => tx'[q] = NoTx)
  BY <1>1, Moves
<1>4. TypeOK'
  BY <1>1, <1>2, <1>3 DEF TypeOK, Results
<1> QED BY <1>2, <1>3, <1>4

\* A call goes on, holding what no other call's locks conflict with.
LEMMA GoOn ==
  ASSUME IInv, NEW s \in Session, UNCHANGED <<tables, call, result>>, NEW l \in Running,
         NEW w \in Firearms \union {None}, NEW t, IsTx(t), At(s, l, w, t, result[s]),
         pc[s] # "done", Compatible(s, t), t.share \subseteq live \union DOMAIN acc,
         ReliesOnRows(s), CallInv(s)'
  PROVE  IInv'
<1>1. /\ TypeOK' /\ OthersSame(s) /\ tx'[s] = t /\ result' = result /\ call' = call
      /\ live' = live /\ acc' = acc
  BY After
<1>2. TableStep(s) /\ HostsAreTheOwners' /\ RoundsStayWithTheOwner'
  BY StatementTables
<1>3. call[s].op = "updateAccessory" => result'[s] # "error"
  BY <1>1 DEF IInv, EditsNeverTripTheCheck
<1> QED BY <1>1, <1>2, <1>3, Together

LEMMA OwnLocks ==
  ASSUME IInv, NEW s \in Session
  PROVE  Compatible(s, tx[s]) /\ tx[s].share \subseteq live \union DOMAIN acc
<1>1. Compatible(s, tx[s])
  BY HoldApart DEF Compatible
<1> QED BY <1>1 DEF IInv, LocksInv

\* The place invariant of a call that has ended.
LEMMA Ended ==
  ASSUME NEW s \in Session, CallInv(s), call'[s] = call[s], pc[s] \in Running, pc'[s] = "done",
         tx'[s] = NoTx
  PROVE  CallInv(s)'
<1>1. pc[s] # "idle" /\ pc'[s] = "done" /\ call'[s] = call[s] /\ tx'[s] = NoTx
  BY DEF Running
<1>2. DOMAIN tx'[s].acc = {} /\ DOMAIN tx'[s].range = {}
  BY <1>1, NoTxIsTx
<1>3. PlaceInv(s)'
  BY <1>1, <1>2 DEF CallInv, PlaceInv
<1>4. (MountInv(s) /\ EditInv(s) /\ DeleteInv(s) /\ RoundsInv(s) /\ BirthInv(s))'
  BY <1>1, <1>2 DEF MountInv, EditInv, DeleteInv, RoundsInv, BirthInv
<1> QED BY <1>2, <1>3, <1>4 DEF CallInv

\* A call that ends with nothing committed.
LEMMA EndKeeps ==
  ASSUME IInv, NEW s \in Session, UNCHANGED <<tables, call, was>>, pc[s] \in Running,
         NEW o \in {"ok", "refused", "error"}, End(s, o),
         call[s].op = "updateAccessory" => o # "error"
  PROVE  IInv'
<1>1. TypeOK /\ CallInv(s) /\ call' = call /\ IsTx(NoTx) /\ "done" \in Places /\ o \in Results
  BY NoTxIsTx DEF IInv, Places, Results
<1>2. At(s, "done", was[s], NoTx, o) /\ was[s] \in Firearms \union {None}
  BY <1>1, Same DEF At, End, Goto
<1>3. /\ OthersSame(s) /\ pc'[s] = "done" /\ tx'[s] = NoTx /\ result'[s] = o
      /\ pc' \in [Session -> Places] /\ call' \in [Session -> CallType]
      /\ was' \in [Session -> Firearms \union {None}] /\ result' \in [Session -> Results]
      /\ tx' = [q \in Session |-> tx'[q]]
      /\ \A q \in Session : IsTx(tx'[q]) /\ (pc'[q] \in {"idle", "done"} => tx'[q] = NoTx)
  BY <1>1, <1>2, Moves
<1>4. /\ TableStep(s) /\ HostsAreTheOwners' /\ RoundsStayWithTheOwner'
      /\ live' = live /\ acc' = acc /\ grants' = grants /\ range' = range
  BY StatementTables
<1>5. TypeOK'
  BY <1>1, <1>3, <1>4 DEF TypeOK, Results
<1>6. CallInv(s)'
  BY <1>1, <1>3, Ended
<1>7. ReliesOnRows(s) /\ Compatible(s, tx'[s]) /\ tx'[s].share \subseteq live' \union DOMAIN acc'
  BY <1>3, NoTxIsTx DEF ReliesOnRows, Compatible
<1> QED BY <1>1, <1>3, <1>4, <1>5, <1>6, <1>7, Together

\* A lock that was free conflicts with none.
LEMMA LockFree ==
  ASSUME IInv, NEW s \in Session, NEW t, NEW U, NEW N, NEW S,
         t.upd = tx[s].upd \union U, t.nokey = tx[s].nokey \union N, t.share = tx[s].share \union S,
         \A i \in U : RowFree(s, i), \A i \in N : UpdateFree(s, i), \A i \in S : ShareFree(s, i)
  PROVE  Compatible(s, t)
<1> SUFFICES ASSUME NEW q \in Session \ {s}
             PROVE  /\ t.upd \intersect (tx[q].upd \union tx[q].nokey \union tx[q].share) = {}
                    /\ tx[q].upd \intersect (t.nokey \union t.share) = {}
                    /\ t.nokey \intersect tx[q].nokey = {}
  BY DEF Compatible
<1>1. /\ U \intersect (tx[q].upd \union tx[q].nokey \union tx[q].share) = {}
      /\ N \intersect (tx[q].upd \union tx[q].nokey) = {} /\ S \intersect tx[q].upd = {}
  BY DEF RowFree, UpdateFree, ShareFree, Others
<1> QED BY <1>1, HoldApart

LEMMA LockRows ==
  ASSUME IInv, NEW s \in Session, NEW t, NEW X, \A i \in X : RowFree(s, i),
         t.upd = tx[s].upd \union X, t.nokey = tx[s].nokey, t.share = tx[s].share
  PROVE  Compatible(s, t)
<1> DEFINE none == {}
<1>1. t.nokey = tx[s].nokey \union none /\ t.share = tx[s].share \union none
  OBVIOUS
<1>2. (\A i \in none : UpdateFree(s, i)) /\ (\A i \in none : ShareFree(s, i))
  OBVIOUS
<1> HIDE DEF none
<1> QED BY <1>1, <1>2, LockFree

LEMMA UpdateRows ==
  ASSUME IInv, NEW s \in Session, NEW t, NEW X, \A i \in X : UpdateFree(s, i),
         t.upd = tx[s].upd, t.nokey = tx[s].nokey \union X, t.share = tx[s].share
  PROVE  Compatible(s, t)
<1> DEFINE none == {}
<1>1. t.upd = tx[s].upd \union none /\ t.share = tx[s].share \union none
  OBVIOUS
<1>2. (\A i \in none : RowFree(s, i)) /\ (\A i \in none : ShareFree(s, i))
  OBVIOUS
<1> HIDE DEF none
<1> QED BY <1>1, <1>2, LockFree

LEMMA ReferToRows ==
  ASSUME IInv, NEW s \in Session, NEW t, NEW X, \A i \in X : ShareFree(s, i),
         t.upd = tx[s].upd, t.nokey = tx[s].nokey, t.share = tx[s].share \union X
  PROVE  Compatible(s, t)
<1> DEFINE none == {}
<1>1. t.upd = tx[s].upd \union none /\ t.nokey = tx[s].nokey \union none
  OBVIOUS
<1>2. (\A i \in none : RowFree(s, i)) /\ (\A i \in none : UpdateFree(s, i))
  OBVIOUS
<1> HIDE DEF none
<1> QED BY <1>1, <1>2, LockFree

\* What is new about an accessory stays so while its creation is under way.
LEMMA BirthStays ==
  ASSUME NEW s \in Session, BirthInv(s), OthersSame(s), call' = call, acc' = acc, pc[s] # "done"
  PROVE  BirthInv(s)'
BY DEF BirthInv, OthersSame, SameCall

LEMMA RunningPlaces ==
  /\ {"authorize", "lock", "write", "refer", "snapshot", "link", "unmount", "commit"} \subseteq Running
  /\ "done" \notin Running
BY DEF Running, Places

-----------------------------------------------------------------------------
(* The statements.                                                         *)

LEMMA AuthorizeKeeps ==
  ASSUME IInv, NEW s \in Session, Authorize(s)
  PROVE  IInv'
<1>1. /\ TypeOK /\ CallInv(s) /\ pc[s] = "authorize" /\ pc[s] \in Running
      /\ UNCHANGED <<tables, call, was>>
  BY RunningPlaces DEF IInv, Authorize
<1>2. CASE End(s, "refused")
  BY <1>1, <1>2, EndKeeps
<1>3. ASSUME Allowed(s), Goto(s, IF call[s].op = "updateAccessory" THEN "lock" ELSE "write"),
             UNCHANGED <<tx, result>>
      PROVE  IInv'
  <2> DEFINE l == IF call[s].op = "updateAccessory" THEN "lock" ELSE "write"
  <2>1. l \in Running /\ (call[s].op = "updateAccessory" <=> l = "lock") /\ l \in {"lock", "write"}
    BY RunningPlaces
  <2>2. At(s, l, was[s], tx[s], result[s])
    BY <1>1, <1>3, Same DEF At, Goto
  <2> HIDE DEF l
  <2>3. was[s] \in Firearms \union {None} /\ IsTx(tx[s])
    BY <1>1, Same
  <2>4. /\ OthersSame(s) /\ pc'[s] = l /\ tx'[s] = tx[s] /\ call' = call /\ acc' = acc
        /\ result' = result
    BY <1>1, <1>3, <2>1, <2>2, <2>3, After
  <2>5. tx[s] = NoTx /\ DOMAIN tx[s].acc = {} /\ DOMAIN tx[s].range = {}
    BY <1>1, NoTxIsTx DEF CallInv, PlaceInv
  <2>6. call[s].op = "createAccessory" => MayCreateOn(User[s], call[s].who, call[s].gun)
    BY <1>3 DEF Allowed
  <2>7. call[s].op = "mountAccessory" => MayMount(User[s], call[s].x, call[s].gun)
    BY <1>3 DEF Allowed
  <2>8. MountInv(s)'
    BY <2>4, <2>6, <2>7 DEF MountInv, MayCreateOn, MayMount
  <2>9. PlaceInv(s)'
    BY <1>1, <2>1, <2>4, <2>5 DEF CallInv, PlaceInv
  <2>10. BirthInv(s)'
    BY <1>1, <2>4, BirthStays DEF CallInv
  <2>11. EditInv(s)' /\ DeleteInv(s)' /\ RoundsInv(s)' /\ \A x \in DOMAIN tx'[s].acc : RowInv(s, x)'
    BY <2>1, <2>4, <2>5 DEF EditInv, DeleteInv, RoundsInv
  <2>12. CallInv(s)'
    BY <2>8, <2>9, <2>10, <2>11 DEF CallInv
  <2>13. ReliesOnRows(s)
    BY <2>4, <2>5, <2>7 DEF ReliesOnRows, MayMount, MayEditAccessory
  <2> QED BY <1>1, <1>3, <2>1, <2>2, <2>3, <2>12, <2>13, OwnLocks, GoOn
<1> QED BY <1>2, <1>3 DEF Authorize

LEMMA LockRowKeeps ==
  ASSUME IInv, NEW s \in Session, LockRow(s)
  PROVE  IInv'
<1> DEFINE x == call[s].x
           t == WithUpd(tx[s], {x})
<1>1. /\ TypeOK /\ CallInv(s) /\ pc[s] = "lock" /\ pc[s] \in Running /\ RowFree(s, x)
      /\ UNCHANGED <<tables, call>> /\ call[s].op = "updateAccessory" /\ x \in Accessories
  <2>1. CallInv(s) /\ pc[s] = "lock"
    BY DEF IInv, LockRow
  <2> QED BY <2>1, RunningPlaces DEF IInv, LockRow, CallInv, PlaceInv
<1>2. CASE End(s, "refused") /\ UNCHANGED was
  BY <1>1, <1>2, EndKeeps
<1>3. ASSUME x \in DOMAIN acc, tx' = [tx EXCEPT ![s].upd = @ \union {x}],
             was' = [was EXCEPT ![s] = acc[x].host], Goto(s, "write"), UNCHANGED result
      PROVE  IInv'
  <2>1. acc[x].host \in Firearms \union {None}
    BY <1>1, <1>3 DEF TypeOK, IsTable, Row
  <2>2. IsTx(tx[s]) /\ {x} \in SUBSET Item
    BY <1>1, Same DEF Item
  <2>3. /\ IsTx(t) /\ t.upd = tx[s].upd \union {x} /\ t.nokey = tx[s].nokey /\ t.share = tx[s].share
        /\ t.acc = tx[s].acc /\ t.range = tx[s].range
    BY <2>2, AddUpd
  <2>4. At(s, "write", acc[x].host, t, result[s])
    BY <1>1, <1>3, Same DEF At, Goto, WithUpd
  <2> HIDE DEF t
  <2>5. /\ OthersSame(s) /\ pc'[s] = "write" /\ tx'[s] = t /\ was'[s] = acc[x].host
        /\ call' = call /\ acc' = acc /\ result' = result
    BY <1>1, <1>3, <2>1, <2>3, <2>4, After, RunningPlaces
  <2>6. tx[s] = NoTx /\ DOMAIN t.acc = {} /\ DOMAIN t.range = {} /\ t.share = {}
    BY <1>1, <2>3, NoTxIsTx DEF CallInv, PlaceInv
  <2>7. Compatible(s, t)
    <3>1. \A i \in {x} : RowFree(s, i)
      BY <1>1
    <3> QED BY <2>3, <3>1, LockRows
  <2>8. PlaceInv(s)'
    BY <1>1, <2>5, <2>6 DEF CallInv, PlaceInv
  <2>9. EditInv(s)'
    BY <1>1, <1>3, <2>3, <2>5 DEF EditInv
  <2>10. /\ MountInv(s)' /\ DeleteInv(s)' /\ RoundsInv(s)' /\ BirthInv(s)'
         /\ \A y \in DOMAIN tx'[s].acc : RowInv(s, y)'
    BY <1>1, <2>5, <2>6 DEF MountInv, DeleteInv, RoundsInv, BirthInv
  <2>11. CallInv(s)'
    BY <2>8, <2>9, <2>10 DEF CallInv
  <2>12. ReliesOnRows(s)
    BY <1>1, <2>5, <2>6 DEF ReliesOnRows
  <2> QED BY <1>1, <1>3, <2>1, <2>3, <2>4, <2>6, <2>7, <2>11, <2>12, GoOn, RunningPlaces
<1> QED BY <1>2, <1>3 DEF LockRow

\* The row an INSERT or UPDATE leaves.
LEMMA WrittenRow ==
  ASSUME TypeOK, NEW s \in Session, PlaceInv(s),
         call[s].op \in {"createAccessory", "updateAccessory", "mountAccessory"},
         call[s].op # "createAccessory" => call[s].x \in DOMAIN acc
  PROVE  /\ Written(s) \in Row
         /\ call[s].op = "createAccessory" => Written(s).owner = call[s].who
         /\ call[s].op # "createAccessory" => Written(s).owner = acc[call[s].x].owner
         /\ call[s].op = "updateAccessory" => Written(s).host = acc[call[s].x].host
         /\ call[s].op # "updateAccessory" => Written(s).host = call[s].gun
         /\ call[s].op = "updateAccessory" => Written(s).dated = (call[s].dated /\ was[s] # None)
<1>1. call[s].gun \in Firearms \union {None} /\ call[s].dated \in BOOLEAN
  BY DEF TypeOK, CallType
<1>2. CASE call[s].op = "createAccessory"
  <2>1. Written(s) = [owner |-> call[s].who, host |-> call[s].gun,
                      dated |-> call[s].dated /\ call[s].gun # None]
    BY <1>2 DEF Written
  <2> QED BY <1>1, <1>2, <2>1 DEF PlaceInv, Row
<1>3. CASE call[s].op = "updateAccessory"
  <2>1. Written(s) = [acc[call[s].x] EXCEPT !.dated = call[s].dated /\ was[s] # None]
    BY <1>3 DEF Written
  <2>2. acc[call[s].x] \in Row
    BY <1>3 DEF TypeOK, IsTable
  <2> QED BY <1>1, <1>3, <2>1, <2>2 DEF Row
<1>4. CASE call[s].op = "mountAccessory"
  <2>1. Written(s) = [acc[call[s].x] EXCEPT !.host = call[s].gun, !.dated = call[s].gun # None]
    BY <1>4 DEF Written
  <2>2. acc[call[s].x] \in Row
    BY <1>4 DEF TypeOK, IsTable
  <2> QED BY <1>1, <1>4, <2>1, <2>2 DEF Row
<1> QED BY <1>2, <1>3, <1>4

\* An edit's row has a date only while it has a mount: the two are of one row.
LEMMA WriteAccessoryKeeps ==
  ASSUME IInv, NEW s \in Session, WriteAccessory(s)
  PROVE  IInv'
<1> DEFINE x == call[s].x
           row == Written(s)
           a == Extend(tx[s].acc, x, row)
           t == WithRows(tx[s], a, {x})
           l == IF Refers(s) THEN "refer" ELSE "commit"
<1>1. /\ TypeOK /\ CallInv(s) /\ pc[s] = "write" /\ pc[s] \in Running /\ UpdateFree(s, x)
      /\ UNCHANGED <<tables, call, was>>
      /\ call[s].op \in {"createAccessory", "updateAccessory", "mountAccessory"}
  BY RunningPlaces DEF IInv, WriteAccessory
<1>2. CASE End(s, "refused")
  BY <1>1, <1>2, EndKeeps
<1>3. ASSUME call[s].op # "createAccessory" => x \in DOMAIN acc, ~Checked(row), End(s, "error")
      PROVE  IInv'
  <2>1. call[s].op # "updateAccessory"
    BY <1>1, <1>3, WrittenRow DEF CallInv, EditInv, Checked
  <2> QED BY <1>1, <1>3, <2>1, EndKeeps
<1>4. ASSUME call[s].op # "createAccessory" => x \in DOMAIN acc, Checked(row),
             tx' = [tx EXCEPT ![s].acc = Extend(@, x, row), ![s].nokey = @ \union {x}],
             Goto(s, l), UNCHANGED result
      PROVE  IInv'
  <2>1. /\ row \in Row
        /\ call[s].op = "createAccessory" => row.owner = call[s].who
        /\ call[s].op # "createAccessory" => row.owner = acc[x].owner
        /\ call[s].op = "updateAccessory" => row.host = acc[x].host
        /\ call[s].op # "updateAccessory" => row.host = call[s].gun
        /\ call[s].op = "updateAccessory" => row.dated = (call[s].dated /\ was[s] # None)
    BY <1>1, <1>4, WrittenRow DEF CallInv
  <2>2. /\ x \in Accessories /\ {x} \in SUBSET Item /\ IsTx(tx[s])
        /\ IsTable(tx[s].acc, Accessories, Row)
    BY <1>1, Same DEF CallInv, PlaceInv, Item, IsTx
  <2>3. DOMAIN tx[s].acc = {} /\ DOMAIN tx[s].range = {}
    BY <1>1 DEF CallInv, PlaceInv
  <2>4. IsTable(a, Accessories, Row) /\ DOMAIN a = {x} /\ a[x] = row
    <3> HIDE DEF row
    <3>1. IsTable(a, Accessories, Row) /\ DOMAIN a = DOMAIN tx[s].acc \union {x} /\ a[x] = row
      BY <2>1, <2>2, ExtendTable
    <3> QED BY <2>3, <3>1
  <2> HIDE DEF a
  <2>5. /\ IsTx(t) /\ t.nokey = tx[s].nokey \union {x} /\ t.acc = a /\ t.upd = tx[s].upd
        /\ t.share = tx[s].share /\ t.range = tx[s].range
    BY <2>2, <2>4, PutRows
  <2>6. tx' = [tx EXCEPT ![s] = t] /\ UNCHANGED <<tables, call, result>>
    BY <1>1, <1>4 DEF a, WithRows
  <2>7. At(s, l, was[s], t, result[s]) /\ was[s] \in Firearms \union {None}
    BY <1>1, <1>4, <2>6, Same DEF At, Goto
  <2>8. l \in Running /\ l \in {"refer", "commit"} /\ (l = "refer" <=> Refers(s))
    BY RunningPlaces
  <2> HIDE DEF t, l, row
  <2>9. /\ OthersSame(s) /\ pc'[s] = l /\ tx'[s] = t /\ was'[s] = was[s]
        /\ call' = call /\ acc' = acc /\ result' = result
    BY <1>1, <2>5, <2>6, <2>7, <2>8, After
  <2>10. Compatible(s, t)
    <3>1. \A i \in {x} : UpdateFree(s, i)
      BY <1>1
    <3> QED BY <2>5, <3>1, UpdateRows
  <2>11. PlaceInv(s)'
    <3>1. l = "refer" => call[s].op \in {"createAccessory", "mountAccessory"}
      BY <1>1, <2>8 DEF Refers, CallInv, PlaceInv
    <3> QED BY <1>1, <2>3, <2>5, <2>8, <2>9, <3>1 DEF CallInv, PlaceInv
  <2>12. EditInv(s)'
    BY <1>1, <2>1, <2>4, <2>5, <2>8, <2>9 DEF CallInv, EditInv
  <2>13. /\ MountInv(s)' /\ DeleteInv(s)' /\ RoundsInv(s)'
    BY <1>1, <2>3, <2>5, <2>8, <2>9 DEF MountInv, DeleteInv, RoundsInv
  <2>14. BirthInv(s)'
    BY <1>1, <2>9, BirthStays DEF CallInv
  <2>15. ASSUME NEW y \in DOMAIN tx'[s].acc PROVE RowInv(s, y)'
    <3>1. y = x /\ y \in t.nokey /\ tx'[s].acc[y] = row
      BY <2>4, <2>5, <2>9
    <3>2. IF call[s].op = "createAccessory" THEN y = call[s].x
          ELSE y \in DOMAIN acc /\ acc[y].owner = row.owner
      BY <1>4, <2>1, <3>1
    <3>3. ASSUME row.host # None PROVE OwnerOf[row.host] = row.owner
      BY <1>1, <1>4, <2>1, <3>3 DEF IInv, HostsAreTheOwners, CallInv, MountInv
    <3>4. ASSUME row.host # None
          PROVE  \/ l = "refer" /\ row.host = call[s].gun
                 \/ y \in DOMAIN acc /\ acc[y].host = row.host
      BY <1>1, <1>4, <2>1, <2>8, <3>1, <3>4 DEF Refers
    <3> QED BY <2>9, <3>1, <3>2, <3>3, <3>4 DEF RowInv
  <2>16. CallInv(s)'
    BY <2>11, <2>12, <2>13, <2>14, <2>15 DEF CallInv
  <2>17. ReliesOnRows(s)
    BY <2>3, <2>5, <2>8, <2>9 DEF ReliesOnRows
  <2>18. t.share \subseteq live \union DOMAIN acc
    BY <2>5, OwnLocks
  <2> QED BY <1>1, <2>5, <2>6, <2>7, <2>8, <2>10, <2>16, <2>17, <2>18, GoOn
<1> QED BY <1>2, <1>3, <1>4 DEF WriteAccessory

LEMMA ReferKeeps ==
  ASSUME IInv, NEW s \in Session, Refer(s)
  PROVE  IInv'
<1> DEFINE g == call[s].gun
           t == WithShare(tx[s], {g})
           l == IF call[s].op = "createRangeSession" THEN "snapshot" ELSE "commit"
<1>1. /\ TypeOK /\ CallInv(s) /\ pc[s] = "refer" /\ pc[s] \in Running /\ ShareFree(s, g)
      /\ UNCHANGED <<tables, call, was>>
      /\ call[s].op \in {"createAccessory", "mountAccessory", "createRangeSession"}
  BY RunningPlaces DEF IInv, Refer, CallInv, PlaceInv
<1>2. CASE End(s, "error")
  BY <1>1, <1>2, EndKeeps
<1>3. ASSUME g \in live, tx' = [tx EXCEPT ![s].share = @ \union {g}], Goto(s, l), UNCHANGED result
      PROVE  IInv'
  <2>1. IsTx(tx[s]) /\ {g} \in SUBSET Item
    BY <1>1, <1>3, Same DEF TypeOK, Item
  <2>2. /\ IsTx(t) /\ t.share = tx[s].share \union {g} /\ t.nokey = tx[s].nokey /\ t.upd = tx[s].upd
        /\ t.acc = tx[s].acc /\ t.range = tx[s].range
    BY <2>1, AddShare
  <2>3. /\ At(s, l, was[s], t, result[s]) /\ was[s] \in Firearms \union {None}
        /\ UNCHANGED <<tables, call, result>>
    BY <1>1, <1>3, Same DEF At, Goto, WithShare
  <2>4. /\ l \in Running /\ l \in {"snapshot", "commit"}
        /\ (l = "snapshot" <=> call[s].op = "createRangeSession")
    BY RunningPlaces
  <2> HIDE DEF t, l
  <2>5. /\ OthersSame(s) /\ pc'[s] = l /\ tx'[s] = t /\ call' = call /\ acc' = acc
        /\ result' = result
    BY <2>2, <2>3, <2>4, After
  <2>6. Compatible(s, t)
    <3>1. \A i \in {g} : ShareFree(s, i)
      BY <1>1
    <3> QED BY <2>2, <3>1, ReferToRows
  <2>7. PlaceInv(s)'
    BY <1>1, <2>2, <2>4, <2>5 DEF CallInv, PlaceInv
  <2>8. DOMAIN tx'[s].range = {}
    BY <1>1, <2>2, <2>5 DEF CallInv, PlaceInv
  <2>9. MountInv(s)' /\ EditInv(s)' /\ DeleteInv(s)' /\ RoundsInv(s)'
    BY <1>1, <2>4, <2>5, <2>8 DEF MountInv, EditInv, DeleteInv, RoundsInv
  <2>10. BirthInv(s)'
    BY <1>1, <2>5, BirthStays DEF CallInv
  <2>11. ASSUME NEW y \in DOMAIN tx'[s].acc PROVE RowInv(s, y)'
    <3>1. RowInv(s, y)
      BY <1>1, <2>2, <2>5, <2>11 DEF CallInv
    <3> QED BY <1>1, <2>2, <2>5, <3>1 DEF RowInv
  <2>12. CallInv(s)'
    BY <2>7, <2>9, <2>10, <2>11 DEF CallInv
  <2>13. ReliesOnRows(s) /\ t.share \subseteq live \union DOMAIN acc
    BY <1>3, <2>2, <2>4, <2>5, <2>8, OwnLocks DEF ReliesOnRows
  <2> QED BY <1>1, <2>2, <2>3, <2>4, <2>6, <2>12, <2>13, GoOn
<1> QED BY <1>2, <1>3 DEF Refer

LEMMA DeleteAccessoryKeeps ==
  ASSUME IInv, NEW s \in Session, DeleteAccessory(s)
  PROVE  IInv'
<1> DEFINE x == call[s].x
           t == WithUpd(tx[s], {x})
<1>1. /\ TypeOK /\ CallInv(s) /\ pc[s] = "write" /\ pc[s] \in Running /\ RowFree(s, x)
      /\ UNCHANGED <<tables, call, was>> /\ call[s].op = "deleteAccessory" /\ x \in Accessories
  BY RunningPlaces DEF IInv, DeleteAccessory, CallInv, PlaceInv
<1>2. CASE End(s, "refused")
  BY <1>1, <1>2, EndKeeps
<1>3. ASSUME tx' = [tx EXCEPT ![s].upd = @ \union {x}], Goto(s, "commit"), UNCHANGED result
      PROVE  IInv'
  <2>1. IsTx(tx[s]) /\ {x} \in SUBSET Item
    BY <1>1, Same DEF Item
  <2>2. /\ IsTx(t) /\ t.upd = tx[s].upd \union {x} /\ t.nokey = tx[s].nokey /\ t.share = tx[s].share
        /\ t.acc = tx[s].acc /\ t.range = tx[s].range
    BY <2>1, AddUpd
  <2>3. /\ At(s, "commit", was[s], t, result[s]) /\ was[s] \in Firearms \union {None}
        /\ UNCHANGED <<tables, call, result>>
    BY <1>1, <1>3, Same DEF At, Goto, WithUpd
  <2> HIDE DEF t
  <2>4. /\ OthersSame(s) /\ pc'[s] = "commit" /\ tx'[s] = t /\ call' = call /\ acc' = acc
        /\ result' = result
    BY <2>2, <2>3, After, RunningPlaces
  <2>5. Compatible(s, t)
    <3>1. \A i \in {x} : RowFree(s, i)
      BY <1>1
    <3> QED BY <2>2, <3>1, LockRows
  <2>6. DOMAIN t.acc = {} /\ DOMAIN t.range = {}
    BY <1>1, <2>2 DEF CallInv, PlaceInv
  <2>7. PlaceInv(s)'
    BY <1>1, <2>4, <2>6 DEF CallInv, PlaceInv
  <2>8. MountInv(s)' /\ EditInv(s)' /\ RoundsInv(s)' /\ BirthInv(s)'
    BY <1>1, <2>4, <2>6 DEF MountInv, EditInv, RoundsInv, BirthInv
  <2>9. DeleteInv(s)'
    BY <1>1, <2>2, <2>4 DEF DeleteInv
  <2>10. CallInv(s)'
    BY <2>4, <2>6, <2>7, <2>8, <2>9 DEF CallInv
  <2>11. ReliesOnRows(s) /\ t.share \subseteq live \union DOMAIN acc
    BY <1>1, <2>2, <2>4, <2>6, OwnLocks DEF ReliesOnRows
  <2> QED BY <1>1, <2>2, <2>3, <2>5, <2>10, <2>11, GoOn, RunningPlaces
<1> QED BY <1>2, <1>3 DEF DeleteAccessory

LEMMA WriteSessionKeeps ==
  ASSUME IInv, NEW s \in Session, WriteSession(s)
  PROVE  IInv'
<1>1. /\ TypeOK /\ CallInv(s) /\ pc[s] = "write" /\ call[s].op = "createRangeSession"
      /\ UNCHANGED <<tables, call, result>> /\ IsTx(tx[s]) /\ was[s] \in Firearms \union {None}
  BY Same DEF IInv, WriteSession
<1>2. At(s, "refer", was[s], tx[s], result[s])
  BY <1>1, Same DEF WriteSession, At, Goto
<1>3. /\ OthersSame(s) /\ pc'[s] = "refer" /\ tx'[s] = tx[s] /\ call' = call /\ acc' = acc
      /\ result' = result
  BY <1>1, <1>2, After, RunningPlaces
<1>4. DOMAIN tx[s].acc = {} /\ DOMAIN tx[s].range = {}
  BY <1>1 DEF CallInv, PlaceInv
<1>5. PlaceInv(s)'
  BY <1>1, <1>3, <1>4 DEF CallInv, PlaceInv
<1>6. MountInv(s)' /\ EditInv(s)' /\ DeleteInv(s)' /\ RoundsInv(s)' /\ BirthInv(s)'
  BY <1>1, <1>3, <1>4 DEF MountInv, EditInv, DeleteInv, RoundsInv, BirthInv
<1>7. CallInv(s)'
  BY <1>3, <1>4, <1>5, <1>6 DEF CallInv
<1>8. ReliesOnRows(s)
  BY <1>1, <1>3, <1>4 DEF ReliesOnRows
<1> QED BY <1>1, <1>2, <1>7, <1>8, OwnLocks, GoOn, RunningPlaces

\* What is mounted on a firearm belongs to its owner when it is read.
LEMMA SnapshotKeeps ==
  ASSUME IInv, NEW s \in Session, Snapshot(s)
  PROVE  IInv'
<1> DEFINE row == [gun |-> call[s].gun, used |-> Mounted(call[s].gun)]
           k == call[s].session
           g == Extend(Empty, k, row)
           t == WithRange(tx[s], g)
<1>1. /\ TypeOK /\ CallInv(s) /\ pc[s] = "snapshot" /\ call[s].op = "createRangeSession"
      /\ UNCHANGED <<tables, call, result>> /\ IsTx(tx[s]) /\ was[s] \in Firearms \union {None}
      /\ call[s].gun \in Firearms /\ k \in RangeSessions
  <2>1. TypeOK /\ CallInv(s) /\ pc[s] = "snapshot"
    BY DEF IInv, Snapshot
  <2> QED BY <2>1, Same DEF Snapshot, CallInv, PlaceInv
<1>2. row \in RangeRow
  BY <1>1 DEF RangeRow, Mounted, TypeOK, IsTable
<1>3. IsTable(g, RangeSessions, RangeRow) /\ DOMAIN g = {k} /\ g[k] = row
  <2>1. ASSUME NEW K, NEW R, NEW x \in K, NEW y \in R
        PROVE  LET u == Extend(Empty, x, y)
               IN IsTable(u, K, R) /\ DOMAIN u = {x} /\ u[x] = y
    BY OneRow
  <2>2. k \in RangeSessions /\ row \in RangeRow
    BY <1>1, <1>2
  <2> HIDE DEF row, k
  <2> QED BY <2>1, <2>2
<1> HIDE DEF g
<1>4. /\ IsTx(t) /\ t.range = g /\ t.upd = tx[s].upd /\ t.nokey = tx[s].nokey
      /\ t.share = tx[s].share /\ t.acc = tx[s].acc
  BY <1>1, <1>3, PutRange
<1>5. At(s, "link", was[s], t, result[s])
  BY <1>1, Same DEF Snapshot, At, Goto, WithRange, g
<1> HIDE DEF t
<1>6. /\ OthersSame(s) /\ pc'[s] = "link" /\ tx'[s] = t /\ call' = call /\ acc' = acc
      /\ result' = result
  BY <1>1, <1>4, <1>5, After, RunningPlaces
<1>7. Compatible(s, t) /\ t.share \subseteq live \union DOMAIN acc
  BY <1>4, OwnLocks DEF Compatible
<1>8. DOMAIN t.acc = {}
  BY <1>1, <1>4 DEF CallInv, PlaceInv
<1>9. PlaceInv(s)'
  BY <1>1, <1>6, <1>8 DEF CallInv, PlaceInv
<1>10. \A x \in Mounted(call[s].gun) :
         x \in DOMAIN acc /\ acc[x].owner = OwnerOf[call[s].gun]
  BY <1>1, AccessoriesAssumption DEF IInv, HostsAreTheOwners, Mounted, AccessoriesAssumption, Item
<1>11. ASSUME NEW r \in DOMAIN t.range
       PROVE  t.range[r].gun = call[s].gun /\ t.range[r].used = Mounted(call[s].gun) /\ r = k
  BY <1>3, <1>4
<1>12. RoundsInv(s)'
  BY <1>3, <1>4, <1>6, <1>10, <1>11 DEF RoundsInv
<1>13. MountInv(s)' /\ EditInv(s)' /\ DeleteInv(s)' /\ BirthInv(s)'
  BY <1>1, <1>6 DEF MountInv, EditInv, DeleteInv, BirthInv
<1>14. CallInv(s)'
  BY <1>6, <1>8, <1>9, <1>12, <1>13 DEF CallInv
<1>15. ReliesOnRows(s)
  <2>1. \A r \in DOMAIN tx'[s].range : \A x \in tx'[s].range[r].used : x \in DOMAIN acc
    BY <1>6, <1>10, <1>11
  <2> QED BY <1>6, <2>1 DEF ReliesOnRows
<1> QED BY <1>1, <1>4, <1>5, <1>7, <1>14, <1>15, GoOn, RunningPlaces

LEMMA LinkKeeps ==
  ASSUME IInv, NEW s \in Session, Link(s)
  PROVE  IInv'
<1> DEFINE k == call[s].session
           used == tx[s].range[k].used
           t == WithShare(tx[s], used)
<1>1. /\ TypeOK /\ CallInv(s) /\ pc[s] = "link" /\ pc[s] \in Running
      /\ UNCHANGED <<tables, call, was>> /\ call[s].op = "createRangeSession"
      /\ \A x \in used : ShareFree(s, x)
  BY RunningPlaces DEF IInv, Link, CallInv, PlaceInv
<1>2. CASE End(s, "error")
  BY <1>1, <1>2, EndKeeps
<1>3. ASSUME used \subseteq DOMAIN acc, tx' = [tx EXCEPT ![s].share = @ \union used],
             Goto(s, "commit"), UNCHANGED result
      PROVE  IInv'
  <2>1. IsTx(tx[s]) /\ used \in SUBSET Item
    BY <1>1, <1>3, Same DEF TypeOK, IsTable, Item
  <2>2. /\ IsTx(t) /\ t.share = tx[s].share \union used /\ t.nokey = tx[s].nokey
        /\ t.upd = tx[s].upd /\ t.acc = tx[s].acc /\ t.range = tx[s].range
    BY <2>1, AddShare
  <2>3. /\ At(s, "commit", was[s], t, result[s]) /\ was[s] \in Firearms \union {None}
        /\ UNCHANGED <<tables, call, result>>
    BY <1>1, <1>3, Same DEF At, Goto, WithShare
  <2> HIDE DEF t
  <2>4. /\ OthersSame(s) /\ pc'[s] = "commit" /\ tx'[s] = t /\ call' = call /\ acc' = acc
        /\ result' = result
    BY <2>2, <2>3, After, RunningPlaces
  <2>5. Compatible(s, t)
    <3> HIDE DEF used
    <3> QED BY <1>1, <2>2, ReferToRows
  <2>6. DOMAIN t.acc = {}
    BY <1>1, <2>2 DEF CallInv, PlaceInv
  <2>7. PlaceInv(s)'
    BY <1>1, <2>4, <2>6 DEF CallInv, PlaceInv
  <2>8. RoundsInv(s)'
    BY <1>1, <2>2, <2>4 DEF CallInv, RoundsInv
  <2>9. MountInv(s)' /\ EditInv(s)' /\ DeleteInv(s)' /\ BirthInv(s)'
    BY <1>1, <2>4 DEF MountInv, EditInv, DeleteInv, BirthInv
  <2>10. CallInv(s)'
    BY <2>4, <2>6, <2>7, <2>8, <2>9 DEF CallInv
  <2>11. ReliesOnRows(s) /\ t.share \subseteq live \union DOMAIN acc
    BY <1>1, <1>3, <2>2, <2>4, OwnLocks DEF ReliesOnRows
  <2> QED BY <1>1, <2>2, <2>3, <2>5, <2>10, <2>11, GoOn, RunningPlaces
<1> QED BY <1>1, <1>2, <1>3 DEF Link

LEMMA DeleteFirearmKeeps ==
  ASSUME IInv, NEW s \in Session, DeleteFirearm(s)
  PROVE  IInv'
<1> DEFINE g == call[s].gun
           t == WithUpd(tx[s], {g})
<1>1. /\ TypeOK /\ CallInv(s) /\ pc[s] = "write" /\ pc[s] \in Running /\ RowFree(s, g)
      /\ UNCHANGED <<tables, call, was>> /\ call[s].op = "deleteFirearm" /\ g \in Firearms
  BY RunningPlaces DEF IInv, DeleteFirearm, CallInv, PlaceInv
<1>2. CASE End(s, "refused")
  BY <1>1, <1>2, EndKeeps
<1>3. ASSUME tx' = [tx EXCEPT ![s].upd = @ \union {g}], Goto(s, "unmount"), UNCHANGED result
      PROVE  IInv'
  <2>1. IsTx(tx[s]) /\ {g} \in SUBSET Item
    BY <1>1, Same DEF Item
  <2>2. /\ IsTx(t) /\ t.upd = tx[s].upd \union {g} /\ t.nokey = tx[s].nokey /\ t.share = tx[s].share
        /\ t.acc = tx[s].acc /\ t.range = tx[s].range
    BY <2>1, AddUpd
  <2>3. /\ At(s, "unmount", was[s], t, result[s]) /\ was[s] \in Firearms \union {None}
        /\ UNCHANGED <<tables, call, result>>
    BY <1>1, <1>3, Same DEF At, Goto, WithUpd
  <2> HIDE DEF t
  <2>4. /\ OthersSame(s) /\ pc'[s] = "unmount" /\ tx'[s] = t /\ call' = call /\ acc' = acc
        /\ result' = result
    BY <2>2, <2>3, After, RunningPlaces
  <2>5. Compatible(s, t)
    <3>1. \A i \in {g} : RowFree(s, i)
      BY <1>1
    <3> QED BY <2>2, <3>1, LockRows
  <2>6. DOMAIN t.acc = {} /\ DOMAIN t.range = {}
    BY <1>1, <2>2 DEF CallInv, PlaceInv
  <2>7. PlaceInv(s)'
    BY <1>1, <2>4, <2>6 DEF CallInv, PlaceInv
  <2>8. MountInv(s)' /\ EditInv(s)' /\ RoundsInv(s)' /\ BirthInv(s)'
    BY <1>1, <2>4, <2>6 DEF MountInv, EditInv, RoundsInv, BirthInv
  <2>9. DeleteInv(s)'
    BY <1>1, <2>2, <2>4 DEF DeleteInv
  <2>10. CallInv(s)'
    BY <2>4, <2>6, <2>7, <2>8, <2>9 DEF CallInv
  <2>11. ReliesOnRows(s) /\ t.share \subseteq live \union DOMAIN acc
    BY <1>1, <2>2, <2>4, <2>6, OwnLocks DEF ReliesOnRows
  <2> QED BY <1>1, <2>2, <2>3, <2>5, <2>10, <2>11, GoOn, RunningPlaces
<1> QED BY <1>2, <1>3 DEF DeleteFirearm

\* ON DELETE SET NULL takes the mount of every row it finds, and holds those rows.
LEMMA UnmountKeeps ==
  ASSUME IInv, NEW s \in Session, Unmount(s)
  PROVE  IInv'
<1> DEFINE on == Mounted(call[s].gun)
           a == [x \in on |-> Unmounted(s, x)]
           t == WithRows(tx[s], a, on)
<1>1. /\ TypeOK /\ CallInv(s) /\ pc[s] = "unmount" /\ pc[s] \in Running
      /\ UNCHANGED <<tables, call, was>> /\ call[s].op = "deleteFirearm"
      /\ \A x \in on : UpdateFree(s, x)
  BY RunningPlaces DEF IInv, Unmount, CallInv, PlaceInv
<1>2. CASE End(s, "error")
  BY <1>1, <1>2, EndKeeps
<1>3. ASSUME tx' = [tx EXCEPT ![s].acc = a, ![s].nokey = @ \union on], Goto(s, "commit"),
             UNCHANGED result
      PROVE  IInv'
  <2>1. /\ on \in SUBSET Accessories /\ on \in SUBSET Item /\ on \subseteq DOMAIN acc
        /\ \A x \in on : acc[x] \in Row
    BY <1>1 DEF Mounted, TypeOK, IsTable, Item
  <2>2. \A x \in on : /\ Unmounted(s, x) \in Row /\ Unmounted(s, x).host = None
                      /\ Unmounted(s, x).owner = acc[x].owner
    BY <2>1 DEF Unmounted, Row
  <2>3. /\ IsTable(a, Accessories, Row) /\ DOMAIN a = on
        /\ \A x \in on : a[x].host = None /\ a[x].owner = acc[x].owner
    BY <2>1, <2>2 DEF IsTable
  <2> HIDE DEF a, on
  <2>4. IsTx(tx[s])
    BY <1>1, Same
  <2>5. /\ IsTx(t) /\ t.nokey = tx[s].nokey \union on /\ t.acc = a /\ t.upd = tx[s].upd
        /\ t.share = tx[s].share /\ t.range = tx[s].range
    BY <2>1, <2>3, <2>4, PutRows
  <2>6. /\ At(s, "commit", was[s], t, result[s]) /\ was[s] \in Firearms \union {None}
        /\ UNCHANGED <<tables, call, result>>
    BY <1>1, <1>3, Same DEF At, Goto, WithRows
  <2> HIDE DEF t
  <2>7. /\ OthersSame(s) /\ pc'[s] = "commit" /\ tx'[s] = t /\ call' = call /\ acc' = acc
        /\ result' = result
    BY <2>5, <2>6, After, RunningPlaces
  <2>8. Compatible(s, t)
    BY <1>1, <2>5, UpdateRows
  <2>9. DOMAIN t.range = {}
    BY <1>1, <2>5 DEF CallInv, PlaceInv
  <2>10. PlaceInv(s)'
    BY <1>1, <2>7, <2>9 DEF CallInv, PlaceInv
  <2>11. MountInv(s)' /\ EditInv(s)' /\ RoundsInv(s)' /\ BirthInv(s)'
    BY <1>1, <2>7, <2>9 DEF MountInv, EditInv, RoundsInv, BirthInv
  <2>12. DeleteInv(s)'
    <3>1. Mounted(call[s].gun)' = on
      BY <2>7 DEF on, Mounted
    <3>2. call[s].gun \in t.upd
      BY <1>1, <2>5 DEF CallInv, DeleteInv
    <3> QED BY <1>1, <2>3, <2>5, <2>7, <3>1, <3>2 DEF DeleteInv
  <2>13. ASSUME NEW y \in DOMAIN tx'[s].acc PROVE RowInv(s, y)'
    BY <1>1, <2>1, <2>3, <2>5, <2>7 DEF RowInv
  <2>14. CallInv(s)'
    BY <2>10, <2>11, <2>12, <2>13 DEF CallInv
  <2>15. ReliesOnRows(s) /\ t.share \subseteq live \union DOMAIN acc
    BY <1>1, <2>5, <2>7, <2>9, OwnLocks DEF ReliesOnRows
  <2> QED BY <1>1, <2>5, <2>6, <2>8, <2>14, <2>15, GoOn, RunningPlaces
<1> QED BY <1>1, <1>2, <1>3 DEF Unmount

-----------------------------------------------------------------------------
(* Steps that change the tables.                                           *)

\* A call that ends with something committed.
LEMMA EndCommits ==
  ASSUME IInv, NEW s \in Session, UNCHANGED <<call, was>>, pc[s] \in Running, End(s, "ok"),
         live' \subseteq Firearms, IsTable(acc', Accessories, Row), IsTable(grants', Key, Grant),
         IsTable(range', RangeSessions, RangeRow),
         TableStep(s), HostsAreTheOwners', RoundsStayWithTheOwner'
  PROVE  IInv'
<1>1. TypeOK /\ CallInv(s) /\ call' = call /\ IsTx(NoTx) /\ "done" \in Places /\ "ok" \in Results
  BY NoTxIsTx DEF IInv, Places, Results
<1>2. At(s, "done", was[s], NoTx, "ok") /\ was[s] \in Firearms \union {None}
  BY <1>1, Same DEF At, End, Goto
<1>3. /\ OthersSame(s) /\ pc'[s] = "done" /\ tx'[s] = NoTx /\ result'[s] = "ok"
      /\ pc' \in [Session -> Places] /\ call' \in [Session -> CallType]
      /\ was' \in [Session -> Firearms \union {None}] /\ result' \in [Session -> Results]
      /\ tx' = [q \in Session |-> tx'[q]]
      /\ \A q \in Session : IsTx(tx'[q]) /\ (pc'[q] \in {"idle", "done"} => tx'[q] = NoTx)
  BY <1>1, <1>2, Moves
<1>4. TypeOK'
  BY <1>3 DEF TypeOK, Results
<1>5. CallInv(s)'
  BY <1>1, <1>3, Ended
<1>6. ReliesOnRows(s) /\ Compatible(s, tx'[s]) /\ tx'[s].share \subseteq live' \union DOMAIN acc'
  BY <1>3, NoTxIsTx DEF ReliesOnRows, Compatible
<1> QED BY <1>1, <1>3, <1>4, <1>5, <1>6, Together

\* What a commit takes away.
Gone(s) ==
  IF call[s].op = "deleteFirearm" THEN {call[s].gun}
  ELSE IF call[s].op = "deleteAccessory" THEN {call[s].x} ELSE {}

LEMMA GoneIsLocked ==
  ASSUME IInv, NEW s \in Session, pc[s] = "commit"
  PROVE  /\ Gone(s) \subseteq tx[s].upd
         /\ \A x \in Gone(s) \intersect Accessories :
              call[s].op = "deleteAccessory" /\ x = call[s].x /\ DOMAIN tx[s].acc = {}
         /\ \A f \in Gone(s) \intersect Firearms :
              call[s].op = "deleteFirearm" /\ f = call[s].gun
         /\ call[s].op = "createRangeSession" => Gone(s) = {}
<1>1. PlaceInv(s) /\ DeleteInv(s)
  BY DEF IInv, CallInv
<1> QED BY <1>1, AccessoriesAssumption DEF Gone, PlaceInv, DeleteInv, AccessoriesAssumption

LEMMA CommitKeeps ==
  ASSUME IInv, NEW s \in Session, Commit(s)
  PROVE  IInv'
<1> DEFINE gone == Gone(s)
           new == tx[s].acc
           took == tx[s].range
           still == {q \in DOMAIN range : range[q].gun \notin gone}
           kept == [r \in still |-> [range[r] EXCEPT !.used = @ \ gone]]
<1>1. /\ TypeOK /\ CallInv(s) /\ pc[s] = "commit" /\ pc[s] \in Running
      /\ UNCHANGED <<call, was>> /\ End(s, "ok") /\ IsTx(tx[s])
  BY RunningPlaces DEF IInv, Commit, TypeOK
<1>2. /\ live' = live \ gone
      /\ acc' = [x \in (DOMAIN acc \union DOMAIN new) \ gone |->
                   IF x \in DOMAIN new THEN new[x] ELSE acc[x]]
      /\ grants' = Restricted(grants, {k \in Key : k[2] \notin gone})
      /\ range' = [r \in DOMAIN kept \union DOMAIN took |->
                     IF r \in DOMAIN kept THEN kept[r] ELSE took[r]]
  BY DEF Commit, Gone
<1>3. /\ gone \subseteq tx[s].upd
      /\ \A x \in gone \intersect Accessories :
           call[s].op = "deleteAccessory" /\ x = call[s].x /\ DOMAIN new = {}
      /\ \A f \in gone \intersect Firearms : call[s].op = "deleteFirearm" /\ f = call[s].gun
      /\ call[s].op = "createRangeSession" => gone = {}
  BY <1>1, GoneIsLocked
<1> HIDE DEF gone
<1>4. /\ IsTable(acc, Accessories, Row) /\ IsTable(new, Accessories, Row)
      /\ IsTable(range, RangeSessions, RangeRow) /\ IsTable(took, RangeSessions, RangeRow)
      /\ IsTable(grants, Key, Grant) /\ live \subseteq Firearms
  BY <1>1 DEF TypeOK, IsTx
<1>5. \A x \in DOMAIN new : RowInv(s, x)
  BY <1>1 DEF CallInv
<1>6. /\ DOMAIN acc' = (DOMAIN acc \union DOMAIN new) \ gone
      /\ \A x \in DOMAIN acc' : acc'[x] = IF x \in DOMAIN new THEN new[x] ELSE acc[x]
  BY <1>2
<1>7. IsTable(acc', Accessories, Row)
  BY <1>2, <1>4, <1>6 DEF IsTable
<1>8. IsTable(grants', Key, Grant)
  BY <1>2, <1>4, RestrictedTable
<1>9. \A r \in still : /\ kept[r] \in RangeRow /\ kept[r].gun = range[r].gun
                       /\ kept[r].used = range[r].used \ gone
  BY <1>4 DEF IsTable, RangeRow
<1>10. DOMAIN kept = still
  OBVIOUS
<1> HIDE DEF kept
<1>11. /\ DOMAIN range' = still \union DOMAIN took
       /\ \A r \in still : range'[r] = kept[r]
       /\ \A r \in DOMAIN took \ still : range'[r] = took[r]
  BY <1>2, <1>10
<1>12. IsTable(range', RangeSessions, RangeRow)
  <2>1. \A r \in DOMAIN range' : range'[r] \in RangeRow
    BY <1>4, <1>9, <1>11 DEF IsTable
  <2>2. range' = [r \in DOMAIN range' |-> range'[r]]
    BY <1>2
  <2>3. DOMAIN range' \subseteq RangeSessions
    BY <1>4, <1>11 DEF IsTable
  <2> QED BY <2>1, <2>2, <2>3 DEF IsTable
<1>13. TableStep(s)
  <2>1. ASSUME NEW x \in DOMAIN acc \ DOMAIN acc' PROVE x \in tx[s].upd /\ call[s].x = x
    BY <1>3, <1>4, <1>6, <2>1 DEF IsTable
  <2>2. ASSUME NEW x \in DOMAIN acc' \ DOMAIN acc
        PROVE  call[s].op = "createAccessory" /\ call[s].x = x
    BY <1>5, <1>6, <2>2 DEF RowInv
  <2>3. ASSUME NEW x \in DOMAIN acc \intersect DOMAIN acc'
        PROVE  acc'[x].owner = acc[x].owner /\ (acc'[x] # acc[x] => x \in tx[s].nokey)
    <3>1. CASE x \in DOMAIN new
      <4>1. x \in tx[s].nokey /\ acc'[x] = new[x] /\ RowInv(s, x)
        BY <1>5, <1>6, <2>3, <3>1 DEF RowInv
      <4>2. ~(call[s].op = "createAccessory" /\ x = call[s].x)
        BY <1>1, <2>3 DEF CallInv, BirthInv
      <4> QED BY <4>1, <4>2 DEF RowInv
    <3>2. CASE x \notin DOMAIN new
      BY <1>6, <2>3, <3>2
    <3> QED BY <3>1, <3>2
  <2>4. ASSUME NEW x \in DOMAIN acc', acc'[x].host # None,
               x \in DOMAIN acc => acc[x].host # acc'[x].host
        PROVE  acc'[x].host \in tx[s].share
    <3>1. x \in DOMAIN new /\ acc'[x] = new[x]
      BY <1>6, <2>4
    <3> QED BY <1>1, <1>5, <2>4, <3>1 DEF RowInv
  <2> QED BY <1>1, <1>2, <1>3, <2>1, <2>2, <2>3, <2>4 DEF TableStep
<1>14. HostsAreTheOwners'
  <2> SUFFICES ASSUME NEW x \in DOMAIN acc', acc'[x].host # None
               PROVE  acc'[x].host \in live' /\ OwnerOf[acc'[x].host] = acc'[x].owner
    BY DEF HostsAreTheOwners
  <2>1. acc'[x].host \in Firearms
    BY <1>7 DEF IsTable, Row
  <2>2. CASE x \in DOMAIN new
    <3>1. acc'[x] = new[x] /\ RowInv(s, x)
      BY <1>5, <1>6, <2>2
    <3>2. OwnerOf[acc'[x].host] = acc'[x].owner
      BY <3>1 DEF RowInv
    <3>3. acc'[x].host \in live
      <4>1. CASE acc'[x].host \in tx[s].share
        <5>1. acc'[x].host \in live \union DOMAIN acc
          BY <4>1, OwnLocks
        <5> QED BY <1>4, <2>1, <5>1, AccessoriesAssumption DEF IsTable, AccessoriesAssumption
      <4>2. CASE x \in DOMAIN acc /\ acc[x].host = acc'[x].host
        BY <4>2 DEF IInv, HostsAreTheOwners
      <4> QED BY <1>1, <3>1, <4>1, <4>2 DEF RowInv
    <3>4. acc'[x].host \notin gone
      BY <1>1, <1>3, <2>1, <2>2, <3>1 DEF CallInv, DeleteInv
    <3> QED BY <1>2, <3>2, <3>3, <3>4
  <2>3. CASE x \notin DOMAIN new
    <3>1. x \in DOMAIN acc /\ acc'[x] = acc[x]
      BY <1>6, <2>3
    <3>2. acc'[x].host \in live /\ OwnerOf[acc'[x].host] = acc'[x].owner
      BY <3>1 DEF IInv, HostsAreTheOwners
    <3>3. acc'[x].host \notin gone
      BY <1>1, <1>3, <2>1, <2>3, <3>1 DEF CallInv, DeleteInv, Mounted
    <3> QED BY <1>2, <3>2, <3>3
  <2> QED BY <2>2, <2>3
<1>15. RoundsStayWithTheOwner'
  <2> SUFFICES ASSUME NEW r \in DOMAIN range', NEW x \in range'[r].used
               PROVE  x \in DOMAIN acc' /\ acc'[x].owner = OwnerOf[range'[r].gun]
    BY DEF RoundsStayWithTheOwner
  <2>1. x \in Accessories
    BY <1>12 DEF IsTable, RangeRow
  <2>2. CASE r \in still
    <3>1. x \in range[r].used /\ x \notin gone /\ range'[r].gun = range[r].gun
      BY <1>9, <1>11, <2>2
    <3>2. x \in DOMAIN acc /\ acc[x].owner = OwnerOf[range[r].gun]
      BY <2>2, <3>1 DEF IInv, RoundsStayWithTheOwner
    <3>3. x \in DOMAIN acc'
      BY <1>6, <3>1, <3>2
    <3> QED BY <1>13, <3>1, <3>2, <3>3 DEF TableStep
  <2>3. CASE r \notin still
    <3>1. r \in DOMAIN took /\ range'[r] = took[r] /\ x \in took[r].used
      BY <1>11, <2>3
    <3>2. call[s].op = "createRangeSession" /\ gone = {}
      BY <1>1, <1>3, <3>1 DEF CallInv, PlaceInv
    <3>3. /\ x \in tx[s].share
          /\ x \in DOMAIN acc => acc[x].owner = OwnerOf[took[r].gun]
      BY <1>1, <3>1 DEF CallInv, RoundsInv
    <3>4. x \in DOMAIN acc
      <4>1. x \in live \union DOMAIN acc
        BY <3>3, OwnLocks
      <4> QED BY <1>4, <2>1, <4>1, AccessoriesAssumption DEF AccessoriesAssumption
    <3>5. x \in DOMAIN acc'
      BY <1>6, <3>2, <3>4
    <3> QED BY <1>13, <3>1, <3>3, <3>4, <3>5 DEF TableStep
  <2> QED BY <2>2, <2>3
<1>16. live' \subseteq Firearms
  BY <1>2, <1>4
<1> QED BY <1>1, <1>7, <1>8, <1>12, <1>13, <1>14, <1>15, <1>16, EndCommits

LEMMA DeleteSessionKeeps ==
  ASSUME IInv, NEW s \in Session, DeleteSession(s)
  PROVE  IInv'
<1>1. /\ TypeOK /\ CallInv(s) /\ pc[s] \in Running /\ UNCHANGED <<call, was>> /\ End(s, "ok")
      /\ live' = live /\ acc' = acc /\ grants' = grants
      /\ range' = Restricted(range, RangeSessions \ {call[s].session})
  BY RunningPlaces DEF IInv, DeleteSession
<1>2. /\ live \subseteq Firearms /\ IsTable(acc, Accessories, Row) /\ IsTable(grants, Key, Grant)
      /\ IsTable(range, RangeSessions, RangeRow)
  BY <1>1 DEF TypeOK
<1>3. /\ IsTable(range', RangeSessions, RangeRow) /\ DOMAIN range' \subseteq DOMAIN range
      /\ \A r \in DOMAIN range' : range'[r] = range[r]
  BY <1>1, <1>2 DEF IsTable, Restricted
<1>4. TableStep(s)
  BY <1>1 DEF TableStep
<1>5. HostsAreTheOwners' /\ RoundsStayWithTheOwner'
  <2>1. HostsAreTheOwners'
    BY <1>1 DEF IInv, HostsAreTheOwners
  <2>2. ASSUME NEW r \in DOMAIN range', NEW x \in range'[r].used
        PROVE  x \in DOMAIN acc /\ acc[x].owner = OwnerOf[range'[r].gun]
    BY <1>3 DEF IInv, RoundsStayWithTheOwner
  <2> QED BY <1>1, <2>1, <2>2 DEF RoundsStayWithTheOwner
<1> QED BY <1>1, <1>2, <1>3, <1>4, <1>5, EndCommits

LEMMA WriteGrantKeeps ==
  ASSUME IInv, NEW s \in Session, WriteGrant(s)
  PROVE  IInv'
<1> DEFINE c == call[s]
           k == <<c.who, c.x>>
           row == [perm |-> c.perm, owner |-> User[s],
                   create |-> c.perm = "edit" /\ c.create]
<1>1. /\ TypeOK /\ CallInv(s) /\ pc[s] \in Running /\ UNCHANGED <<call, was>> /\ End(s, "ok")
      /\ live' = live /\ acc' = acc /\ range' = range
      /\ grants' = IF c.op = "createGrant" THEN Extend(grants, k, row)
                   ELSE Restricted(grants, Key \ {k})
      /\ c.op \in {"createGrant", "revokeGrant"}
  BY RunningPlaces DEF IInv, WriteGrant
<1>2. /\ live \subseteq Firearms /\ IsTable(acc, Accessories, Row) /\ IsTable(grants, Key, Grant)
      /\ IsTable(range, RangeSessions, RangeRow)
  BY <1>1 DEF TypeOK
<1>3. k \in Key
  BY <1>1 DEF CallInv, PlaceInv, Key
<1>4. row \in Grant
  BY <1>1, AccessoriesAssumption DEF TypeOK, CallType, Grant, AccessoriesAssumption
<1>5. IsTable(grants', Key, Grant)
  <2> HIDE DEF k, row, c
  <2>1. CASE c.op = "createGrant"
    BY <1>1, <1>2, <1>3, <1>4, <2>1, ExtendTable
  <2>2. CASE c.op # "createGrant"
    BY <1>1, <1>2, <2>2, RestrictedTable
  <2> QED BY <2>1, <2>2
<1>6. TableStep(s)
  BY <1>1 DEF TableStep
<1>7. HostsAreTheOwners' /\ RoundsStayWithTheOwner'
  BY <1>1 DEF IInv, HostsAreTheOwners, RoundsStayWithTheOwner
<1> QED BY <1>1, <1>2, <1>5, <1>6, <1>7, EndCommits

-----------------------------------------------------------------------------
(* A call arrives.                                                         *)

\* What a call may be asked.
Sensible(c) ==
  /\ c \in CallType /\ c.op # None
  /\ c.op \in {"createAccessory", "updateAccessory", "mountAccessory", "deleteAccessory"}
     => c.x \in Accessories
  /\ c.op = "createAccessory" => c.who \in Users /\ NewAccessory(c.x)
  /\ c.op = "updateAccessory" => c.gun = None
  /\ c.op \in {"createRangeSession", "deleteFirearm"} => c.gun \in Firearms
  /\ c.op = "createRangeSession" => c.session \in RangeSessions
  /\ c.op \in {"createGrant", "revokeGrant"} => c.x \in Item /\ c.who \in Users

LEMMA AskKeeps ==
  ASSUME IInv, NEW s \in Session, NEW c, Sensible(c), Ask(s, c)
  PROVE  IInv'
<1>1. /\ TypeOK /\ pc[s] = "idle" /\ CallInv(s) /\ result[s] = None
      /\ pc' = [pc EXCEPT ![s] = "authorize"] /\ call' = [call EXCEPT ![s] = c]
      /\ live' = live /\ acc' = acc /\ grants' = grants /\ range' = range
      /\ was' = was /\ tx' = tx /\ result' = result
  <2>1. CallInv(s) /\ pc[s] = "idle"
    BY DEF IInv, Ask
  <2>2. result[s] = None
    BY <2>1 DEF CallInv, PlaceInv
  <2> QED BY <2>1, <2>2 DEF IInv, Ask, Goto, tables
<1>2. /\ pc' \in [Session -> Places] /\ pc'[s] = "authorize"
      /\ \A r \in Session \ {s} : pc'[r] = pc[r]
  BY <1>1 DEF TypeOK, Places
<1>3. /\ call' \in [Session -> CallType] /\ call'[s] = c
      /\ \A r \in Session \ {s} : call'[r] = call[r]
  BY <1>1 DEF TypeOK, Sensible
<1>4. call[s] = NoCall /\ tx[s] = NoTx /\ c.op # None
  BY <1>1 DEF CallInv, PlaceInv, Sensible
<1>5. TypeOK'
  <2>1. \A r \in Session : IsTx(tx'[r]) /\ (pc'[r] \in {"idle", "done"} => tx'[r] = NoTx)
    BY <1>1, <1>2 DEF TypeOK
  <2> QED BY <1>1, <1>2, <1>3, <2>1 DEF TypeOK
<1>6. HostsAreTheOwners' /\ RoundsStayWithTheOwner' /\ LocksInv'
  BY <1>1 DEF IInv, HostsAreTheOwners, RoundsStayWithTheOwner, LocksInv
<1>7. EditsNeverTripTheCheck'
  BY <1>1, <1>3 DEF IInv, EditsNeverTripTheCheck, None
<1>8. ASSUME NEW r \in Session, NEW k \in DOMAIN tx[r].range, NEW x \in tx[r].range[k].used
      PROVE  /\ x \in Accessories
             /\ x \in DOMAIN acc \/ \E q \in Session : call[q].x = x /\ q # s
  <2>1. x \in Accessories
    BY <1>1 DEF TypeOK, IsTx, IsTable, RangeRow
  <2>2. x \in DOMAIN acc \/ \E q \in Session : call[q].x = x
    BY <1>8 DEF IInv, CallInv, RoundsInv
  <2>3. call[s].x # x
    BY <1>4, <2>1, AccessoriesAssumption DEF NoCall, AccessoriesAssumption, Item
  <2> QED BY <2>1, <2>2, <2>3
<1>9. ASSUME NEW r \in Session \ {s} PROVE CallInv(r)'
  <2>1. /\ CallInv(r) /\ pc'[r] = pc[r] /\ call'[r] = call[r] /\ was'[r] = was[r]
        /\ tx'[r] = tx[r] /\ result'[r] = result[r]
    BY <1>1, <1>2, <1>3 DEF IInv
  <2>2. PlaceInv(r)'
    BY <2>1 DEF CallInv, PlaceInv
  <2>3. MountInv(r)' /\ EditInv(r)'
    BY <1>1, <2>1 DEF CallInv, MountInv, EditInv
  <2>4. DeleteInv(r)'
    BY <1>1, <2>1 DEF CallInv, DeleteInv, Mounted
  <2>5. RoundsInv(r)'
    BY <1>1, <1>3, <1>8, <2>1 DEF CallInv, RoundsInv
  <2>6. BirthInv(r)'
    <3> SUFFICES ASSUME call[r].op = "createAccessory", pc[r] # "done",
                        NEW q \in Session \ {r}
                 PROVE  /\ call'[q].op = "createAccessory" => call'[q].x # call[r].x
                        /\ call'[q].op = "mountAccessory" /\ pc'[q] = "write"
                           => call'[q].x # call[r].x
                        /\ \A k \in DOMAIN tx[q].range : call[r].x \notin tx[q].range[k].used
      BY <1>1, <2>1 DEF CallInv, BirthInv
    <3>1. CASE q = s
      BY <1>2, <1>3, <2>1, <3>1 DEF CallInv, BirthInv, Sensible, NewAccessory
    <3>2. CASE q # s
      BY <1>2, <1>3, <2>1, <3>2 DEF CallInv, BirthInv
    <3> QED BY <3>1, <3>2
  <2>7. \A x \in DOMAIN tx'[r].acc : RowInv(r, x)'
    BY <1>1, <2>1 DEF CallInv, RowInv
  <2> QED BY <2>2, <2>3, <2>4, <2>5, <2>6, <2>7 DEF CallInv
<1>10. CallInv(s)'
  <2>1. DOMAIN tx'[s].acc = {} /\ DOMAIN tx'[s].range = {} /\ tx'[s] = NoTx
    BY <1>1, <1>4, NoTxIsTx
  <2>2. PlaceInv(s)'
    BY <1>1, <1>2, <1>3, <2>1 DEF PlaceInv, Sensible
  <2>3. MountInv(s)' /\ EditInv(s)' /\ DeleteInv(s)' /\ RoundsInv(s)'
    BY <1>2, <2>1 DEF MountInv, EditInv, DeleteInv, RoundsInv
  <2>4. BirthInv(s)'
    <3> SUFFICES ASSUME c.op = "createAccessory", NewAccessory(c.x) PROVE BirthInv(s)'
      BY <1>3 DEF BirthInv, Sensible
    <3>1. \A q \in Session \ {s} : \A k \in DOMAIN tx[q].range : c.x \notin tx[q].range[k].used
      BY <1>8 DEF NewAccessory
    <3> QED BY <1>1, <1>3, <3>1 DEF BirthInv, NewAccessory
  <2> QED BY <2>1, <2>2, <2>3, <2>4 DEF CallInv
<1> QED BY <1>5, <1>6, <1>7, <1>9, <1>10 DEF IInv

LEMMA AsksKeep ==
  ASSUME IInv, NEW s \in Session, Asks(s)
  PROVE  IInv'
<1>1. NoCall \in CallType
  BY DEF NoCall, CallType
<1>2. CASE AskAccessory(s)
  <2>1. PICK x \in Accessories, f \in Firearms \union {None}, d \in BOOLEAN, o \in Users :
          \/ /\ NewAccessory(x)
             /\ Ask(s, [NoCall EXCEPT !.op = "createAccessory", !.x = x, !.gun = f,
                                      !.dated = d, !.who = o])
          \/ Ask(s, [NoCall EXCEPT !.op = "updateAccessory", !.x = x, !.dated = d])
          \/ Ask(s, [NoCall EXCEPT !.op = "mountAccessory", !.x = x, !.gun = f])
          \/ Ask(s, [NoCall EXCEPT !.op = "deleteAccessory", !.x = x])
    BY <1>2 DEF AskAccessory
  <2>2. /\ NewAccessory(x) => Sensible([NoCall EXCEPT !.op = "createAccessory", !.x = x, !.gun = f,
                                                      !.dated = d, !.who = o])
        /\ Sensible([NoCall EXCEPT !.op = "updateAccessory", !.x = x, !.dated = d])
        /\ Sensible([NoCall EXCEPT !.op = "mountAccessory", !.x = x, !.gun = f])
        /\ Sensible([NoCall EXCEPT !.op = "deleteAccessory", !.x = x])
    BY DEF NoCall, CallType, Sensible, Operations, Item, None
  <2> QED BY <2>1, <2>2, AskKeeps
<1>3. CASE AskFirearm(s)
  <2>1. PICK f \in Firearms, r \in RangeSessions :
          \/ Ask(s, [NoCall EXCEPT !.op = "deleteFirearm", !.gun = f])
          \/ Ask(s, [NoCall EXCEPT !.op = "createRangeSession", !.gun = f, !.session = r])
          \/ Ask(s, [NoCall EXCEPT !.op = "deleteRangeSession", !.session = r])
    BY <1>3 DEF AskFirearm
  <2>2. /\ Sensible([NoCall EXCEPT !.op = "deleteFirearm", !.gun = f])
        /\ Sensible([NoCall EXCEPT !.op = "createRangeSession", !.gun = f, !.session = r])
        /\ Sensible([NoCall EXCEPT !.op = "deleteRangeSession", !.session = r])
    BY DEF NoCall, CallType, Sensible, Operations, Item, None
  <2> QED BY <2>1, <2>2, AskKeeps
<1>4. CASE AskGrant(s)
  <2>1. PICK i \in Item, u \in Users \ {User[s]}, p \in {"view", "edit"}, c \in BOOLEAN :
          \/ Ask(s, [NoCall EXCEPT !.op = "createGrant", !.x = i, !.who = u, !.perm = p,
                                   !.create = c])
          \/ Ask(s, [NoCall EXCEPT !.op = "revokeGrant", !.x = i, !.who = u])
    BY <1>4 DEF AskGrant
  <2>2. /\ Sensible([NoCall EXCEPT !.op = "createGrant", !.x = i, !.who = u, !.perm = p,
                                   !.create = c])
        /\ Sensible([NoCall EXCEPT !.op = "revokeGrant", !.x = i, !.who = u])
    BY DEF NoCall, CallType, Sensible, Operations, Item, None
  <2> QED BY <2>1, <2>2, AskKeeps
<1> QED BY <1>2, <1>3, <1>4 DEF Asks

-----------------------------------------------------------------------------
(* Theorems.                                                               *)

LEMMA InitHolds == Init => IInv
<1> SUFFICES ASSUME Init PROVE IInv
  OBVIOUS
<1>1. /\ live = Firearms /\ IsTable(acc, Accessories, Row) /\ IsTable(grants, Key, Grant)
      /\ range = Empty /\ HostsAreTheOwners
  <2>1. acc \in Stored /\ grants \in Shared /\ live = Firearms /\ range = Empty
    BY DEF Init
  <2>2. \A x \in DOMAIN acc : acc[x] \in Row
    BY <2>1, AccessoriesAssumption DEF AccessoriesAssumption, IsTable
  <2> QED BY <2>1, <2>2, AccessoriesAssumption DEF AccessoriesAssumption, HostsAreTheOwners, Row
<1>2. \A s \in Session : /\ pc[s] = "idle" /\ call[s] = NoCall /\ tx[s] = NoTx
                         /\ was[s] = None /\ result[s] = None
  BY DEF Init
<1>3. NoCall \in CallType /\ NoCall.op = None /\ IsTable(range, RangeSessions, RangeRow)
  BY <1>1, EmptyTable DEF NoCall, CallType
<1>4. TypeOK
  BY <1>1, <1>2, <1>3, NoTxIsTx DEF Init, TypeOK, Places
<1>5. EditsNeverTripTheCheck /\ RoundsStayWithTheOwner /\ LocksInv
  BY <1>1, <1>2, NoTxIsTx DEF EditsNeverTripTheCheck, RoundsStayWithTheOwner, LocksInv, None, Empty
<1>6. ASSUME NEW s \in Session PROVE CallInv(s)
  <2>1. DOMAIN tx[s].acc = {} /\ DOMAIN tx[s].range = {}
    BY <1>2, NoTxIsTx
  <2> QED BY <1>2, <1>3, <2>1 DEF CallInv, PlaceInv, MountInv, EditInv, DeleteInv, RoundsInv,
             BirthInv, NoCall, None
<1> QED BY <1>1, <1>4, <1>5, <1>6 DEF IInv

LEMMA StutterKeeps == IInv /\ UNCHANGED vars => IInv'
<1> SUFFICES ASSUME IInv, UNCHANGED vars PROVE IInv'
  OBVIOUS
<1>1. /\ live' = live /\ acc' = acc /\ grants' = grants /\ range' = range /\ pc' = pc
      /\ call' = call /\ was' = was /\ tx' = tx /\ result' = result
  BY DEF vars, tables
<1>2. (TypeOK /\ HostsAreTheOwners /\ EditsNeverTripTheCheck /\ RoundsStayWithTheOwner /\ LocksInv)'
  BY <1>1 DEF IInv, TypeOK, HostsAreTheOwners, EditsNeverTripTheCheck, RoundsStayWithTheOwner,
             LocksInv
<1>3. ASSUME NEW s \in Session PROVE CallInv(s)'
  BY <1>1 DEF IInv, CallInv, PlaceInv, MountInv, EditInv, DeleteInv, RoundsInv, BirthInv, RowInv,
             Mounted
<1> QED BY <1>2, <1>3 DEF IInv

LEMMA StepKeeps == IInv /\ [Next]_vars => IInv'
<1> SUFFICES ASSUME IInv, [Next]_vars PROVE IInv'
  OBVIOUS
<1>1. ASSUME NEW s \in Session, Steps(s) PROVE IInv'
  BY <1>1, AuthorizeKeeps, LockRowKeeps, WriteAccessoryKeeps, ReferKeeps, DeleteAccessoryKeeps,
     WriteSessionKeeps, SnapshotKeeps, LinkKeeps, DeleteSessionKeeps, DeleteFirearmKeeps,
     UnmountKeeps, WriteGrantKeeps, CommitKeeps DEF Steps
<1> QED BY <1>1, AsksKeep, StutterKeeps DEF Next

\* The inductive invariant, for any number of calls, users, firearms and accessories:
\* what each call has locked, read and judged at each of its places.
THEOREM MountsInvariant == Spec => []IInv
BY InitHolds, StepKeeps, PTL DEF Spec

\* authorizeMount, updateAccessory: an accessory is on a live firearm of its own
\* owner, and an edit never runs into the CHECK of the table.
THEOREM MountsAreAlwaysSound == Spec => []MountsAreSound
<1>1. IInv => MountsAreSound
  BY DEF IInv, MountsAreSound
<1> QED BY <1>1, MountsInvariant, PTL

\* snapshotMountedAccessories: a range session counts for accessories of the
\* firearm's owner that are still there.
THEOREM RoundsAreTheOwners == Spec => []RoundsStayWithTheOwner
<1>1. IInv => RoundsStayWithTheOwner
  BY DEF IInv
<1> QED BY <1>1, MountsInvariant, PTL

LEMMA OneCallMoves ==
  ASSUME NEW q \in Session, Asks(q) \/ Steps(q), TypeOK, NEW s \in Session, s # q
  PROVE  pc'[s] = pc[s]
<1>1. \E l : pc' = [pc EXCEPT ![q] = l]
  BY DEF Asks, AskAccessory, AskFirearm, AskGrant, Ask, Steps, Authorize, LockRow, WriteAccessory,
         Refer, DeleteAccessory, WriteSession, Snapshot, Link, DeleteSession, DeleteFirearm,
         Unmount, WriteGrant, Commit, End, Goto
<1> QED BY <1>1 DEF TypeOK

\* updateAccessory: the date an edit commits is judged by the mount the row has then.
THEOREM DatesFitTheMounts == Spec => DateFitsTheMount
<1> DEFINE Fits(s) ==
      /\ pc[s] = "commit" /\ pc'[s] = "done"
      /\ call[s].op = "updateAccessory" /\ call[s].x \in DOMAIN acc'
      => acc'[call[s].x].dated = (call[s].dated /\ acc'[call[s].x].host # None)
<1>1. ASSUME IInv, NEW q \in Session, Asks(q) \/ Steps(q), NEW s \in Session PROVE Fits(s)
  <2> SUFFICES ASSUME pc[s] = "commit", pc'[s] = "done", call[s].op = "updateAccessory",
                      call[s].x \in DOMAIN acc'
               PROVE  acc'[call[s].x].dated = (call[s].dated /\ acc'[call[s].x].host # None)
    OBVIOUS
  <2>1. q = s
    BY <1>1, OneCallMoves DEF IInv
  <2>2. Commit(s)
    BY <1>1, <2>1 DEF Asks, AskAccessory, AskFirearm, AskGrant, Ask, Steps, Authorize, LockRow,
       WriteAccessory, Refer, DeleteAccessory, WriteSession, Snapshot, Link, DeleteSession,
       DeleteFirearm, Unmount, WriteGrant
  <2>3. EditInv(s)
    BY <1>1 DEF IInv, CallInv
  <2>4. acc'[call[s].x] = tx[s].acc[call[s].x]
    BY <2>2, <2>3 DEF Commit, EditInv
  <2> QED BY <2>3, <2>4 DEF EditInv
<1>2. IInv /\ [Next]_vars => [\A s \in Session : Fits(s)]_vars
  BY <1>1 DEF Next
<1> QED BY <1>2, MountsInvariant, PTL DEF Spec, DateFitsTheMount
=============================================================================
