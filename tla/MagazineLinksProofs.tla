------------------------- MODULE MagazineLinksProofs -------------------------
(***************************************************************************)
(* Proofs about MagazineLinks, for every set of firearms, magazines and    *)
(* calls: without bulk adds the two locking guards keep the magazine-fed   *)
(* rule; with them an update still replaces exactly the links it may.      *)
(*                                                                         *)
(* A step belongs to one call.  What it must keep of the others is stated  *)
(* once (OthersKeep; OthersOwn and OthersReplace in the second part); each *)
(* action then says what it does for its own call.                         *)
(***************************************************************************)
EXTENDS MagazineLinks, TLAPS

\* No call is a bulk add: that service has neither guard.
NoBulkAdd == \A s \in Session : "bulkAddMagazines" \notin Role[s]

CallInv(s) == PlaceInv(s) /\ FreshInv(s) /\ LinkInv(s) /\ FlagInv(s)

\* A call other than s is where it was.
SameCall(r) ==
  /\ pc'[r] = pc[r] /\ op'[r] = op[r] /\ list'[r] = list[r] /\ flag'[r] = flag[r]
  /\ gun'[r] = gun[r] /\ todo'[r] = todo[r] /\ tx'[r] = tx[r]

OthersSame(s) == \A r \in Session \ {s} : SameCall(r)

\* What a step of s may do to the tables: delete firearms, take the flag of a firearm
\* it has locked, add the links it has prepared.
TableStep(s) ==
  /\ live' \subseteq live
  /\ \A f \in Firearms : (fed[f] /\ ~fed'[f]) => f \in tx[s].upd
  /\ links' \subseteq links \union tx[s].add

-----------------------------------------------------------------------------
(* Steps and the calls that do not take them.                              *)

LEMMA TxParts ==
  ASSUME NEW x \in TxType
  PROVE  /\ x.upd \in SUBSET Firearms /\ x.nokey \in SUBSET Firearms
         /\ x.share \in SUBSET Firearms /\ x.mag \in SUBSET Magazines
         /\ x.add \in SUBSET Link /\ x.drop \in SUBSET Link
BY DEF TxType

LEMMA NoTxType == NoTx \in TxType /\ NoTx.upd = {} /\ NoTx.add = {}
BY DEF NoTx, TxType

\* A step of s keeps the invariants of every other call.
LEMMA OthersKeep ==
  ASSUME IInv, NEW s \in Session, OthersSame(s), TableStep(s)
  PROVE  \A r \in Session \ {s} : CallInv(r)'
<1> TAKE r \in Session \ {s}
<1>1. SameCall(r) /\ CallInv(r) /\ FreshInv(s)
  BY DEF OthersSame, IInv, CallInv
<1>2. tx[r].upd \intersect tx[s].upd = {} /\ tx[r].upd \in SUBSET Firearms /\ tx[s].add \in SUBSET Link
  BY TxParts DEF IInv, Exclusive, TypeOK
<1>3. PlaceInv(r)'
  BY <1>1 DEF SameCall, CallInv, PlaceInv
<1>4. FreshInv(r)'
  BY <1>1 DEF SameCall, CallInv, FreshInv
<1>5. LinkInv(r)'
  <2>1. \A f \in tx[r].upd : fed[f] => fed'[f]
    BY <1>2 DEF TableStep
  <2> QED BY <1>1, <2>1 DEF SameCall, CallInv, LinkInv, TableStep
<1>6. FlagInv(r)'
  <2>1. ASSUME gun[r] \in tx[r].upd, \A l \in links : l[2] # gun[r]
        PROVE  \A l \in links' : l[2] # gun[r]
    <3> TAKE l \in links'
    <3>1. CASE l \in links BY <2>1, <3>1
    <3>2. CASE l \in tx[s].add
      <4>1. l[2] \in tx[s].upd BY <1>1, <3>2 DEF FreshInv
      <4> QED BY <1>2, <2>1, <4>1
    <3> QED BY <3>1, <3>2 DEF TableStep
  <2> QED BY <1>1, <2>1 DEF SameCall, CallInv, FlagInv, TableStep
<1> QED BY <1>3, <1>4, <1>5, <1>6 DEF CallInv

\* Locks stay exclusive when s adds only what no other call holds.
LEMMA ExclusiveKept ==
  ASSUME IInv, NEW s \in Session, OthersSame(s),
         \A r \in Session \ {s} : tx'[s].upd \intersect tx[r].upd = {}
  PROVE  Exclusive'
<1> SUFFICES ASSUME NEW r \in Session, NEW q \in Session, r # q
             PROVE  tx'[r].upd \intersect tx'[q].upd = {}
  BY DEF Exclusive
<1>1. \A t \in Session \ {s} : tx'[t] = tx[t]
  BY DEF OthersSame, SameCall
<1>2. CASE r = s BY <1>1, <1>2
<1>3. CASE q = s BY <1>1, <1>3
<1>4. CASE r # s /\ q # s BY <1>1, <1>4 DEF IInv, Exclusive
<1> QED BY <1>2, <1>3, <1>4

\* Taking over no lock of its own, s keeps the locks exclusive.
LEMMA ExclusiveSame ==
  ASSUME IInv, NEW s \in Session, OthersSame(s), tx'[s].upd \subseteq tx[s].upd
  PROVE  Exclusive'
<1>1. \A r \in Session \ {s} : tx'[s].upd \intersect tx[r].upd = {}
  BY DEF IInv, Exclusive
<1> QED BY <1>1, ExclusiveKept

\* A firearm free for a lock is nobody else's.
LEMMA FreeGun ==
  ASSUME NEW s \in Session, Free(s), pc[s] \in {"lockFirearms", "lockFirearm", "cascade"}
  PROVE  \A r \in Session \ {s} : gun[s] \notin tx[r].upd
BY DEF Free, WaitsFor, LockedBy

\* A statement leaves the tables as they are.
LEMMA StatementTables ==
  ASSUME Unseen, OnlyMagazineFedLinked, NEW s \in Session
  PROVE  TableStep(s) /\ OnlyMagazineFedLinked'
BY DEF Unseen, tables, TableStep, OnlyMagazineFedLinked

\* The parts of the invariant put together for a step of s.
LEMMA Together ==
  ASSUME IInv, NEW s \in Session, OthersSame(s), TableStep(s), TypeOK', Exclusive',
         OnlyMagazineFedLinked', CallInv(s)'
  PROVE  IInv'
<1>1. \A r \in Session \ {s} : CallInv(r)'
  BY OthersKeep
<1>2. \A r \in Session : CallInv(r)'
  BY <1>1
<1> QED BY <1>2 DEF IInv, CallInv

-----------------------------------------------------------------------------
(* Shapes of a step of s.                                                  *)

\* A function that is given the value it has does not change.
LEMMA SameValue ==
  ASSUME NEW X, NEW f \in [Session -> X], NEW s \in Session
  PROVE  [f EXCEPT ![s] = f[s]] = f
OBVIOUS

\* The next value of a function that changes at s.
LEMMA NewValue ==
  ASSUME NEW X, NEW f \in [Session -> X], NEW s \in Session, NEW x \in X
  PROVE  /\ [f EXCEPT ![s] = x] \in [Session -> X]
         /\ [f EXCEPT ![s] = x][s] = x
         /\ \A r \in Session \ {s} : [f EXCEPT ![s] = x][r] = f[r]
OBVIOUS

\* s is at place l, with firearm g, the rest T and transaction t.
At(s, l, g, T, t) ==
  /\ pc' = [pc EXCEPT ![s] = l] /\ gun' = [gun EXCEPT ![s] = g]
  /\ todo' = [todo EXCEPT ![s] = T] /\ tx' = [tx EXCEPT ![s] = t]

\* A statement: the types, and what s and the others have after it.
LEMMA Statement ==
  ASSUME TypeOK, NEW s \in Session, Unseen, saw' \in [Session -> SUBSET Firearms],
         NEW l \in States, NEW g \in Firearms \union {NoGun}, NEW T \in SUBSET Firearms,
         NEW t \in TxType, At(s, l, g, T, t), l \in {"idle", "done"} => t = NoTx
  PROVE  /\ TypeOK' /\ OthersSame(s)
         /\ pc'[s] = l /\ gun'[s] = g /\ todo'[s] = T /\ tx'[s] = t
         /\ op' = op /\ list' = list /\ flag' = flag
         /\ live' = live /\ fed' = fed /\ links' = links
<1> USE DEF At
<1>1. /\ pc' \in [Session -> States] /\ pc'[s] = l
      /\ \A r \in Session \ {s} : pc'[r] = pc[r]
  BY DEF TypeOK
<1>2. /\ gun' \in [Session -> Firearms \union {NoGun}] /\ gun'[s] = g
      /\ \A r \in Session \ {s} : gun'[r] = gun[r]
  BY DEF TypeOK
<1>3. /\ todo' \in [Session -> SUBSET Firearms] /\ todo'[s] = T
      /\ \A r \in Session \ {s} : todo'[r] = todo[r]
  BY DEF TypeOK
<1>4. /\ tx' \in [Session -> TxType] /\ tx'[s] = t
      /\ \A r \in Session \ {s} : tx'[r] = tx[r]
  BY DEF TypeOK
<1>5. /\ live' = live /\ fed' = fed /\ mags' = mags /\ links' = links /\ own' = own
      /\ granted' = granted /\ op' = op /\ mine' = mine /\ list' = list /\ flag' = flag
  BY DEF Unseen, tables, inputs
<1>6. \A r \in Session : pc'[r] \in {"idle", "done"} => tx'[r] = NoTx
  BY <1>1, <1>4 DEF TypeOK
<1>7. TypeOK'
  BY <1>1, <1>2, <1>3, <1>4, <1>5, <1>6 DEF TypeOK
<1>8. OthersSame(s)
  BY <1>1, <1>2, <1>3, <1>4, <1>5 DEF OthersSame, SameCall
<1> QED BY <1>1, <1>2, <1>3, <1>4, <1>5, <1>7, <1>8

LEMMA OrderType == ASSUME NEW S \in SUBSET Firearms PROVE InOrder(S) \in SUBSET S
BY DEF InOrder

\* A call that ends with nothing committed.
LEMMA EndKeeps ==
  ASSUME IInv, NEW s \in Session, Unseen, saw' \in [Session -> SUBSET Firearms], EndCall(s)
  PROVE  IInv'
<1>1. TypeOK /\ OnlyMagazineFedLinked
  BY DEF IInv
<1>2. At(s, "done", NoGun, {}, NoTx)
  BY DEF EndCall, Goto, At
<1>3. /\ TypeOK' /\ OthersSame(s) /\ pc'[s] = "done" /\ tx'[s] = NoTx /\ op' = op
      /\ flag' = flag
  BY <1>1, <1>2, NoTxType, Statement DEF States
<1>4. TableStep(s) /\ OnlyMagazineFedLinked'
  BY <1>1, StatementTables
<1>5. Exclusive'
  BY <1>3, NoTxType, ExclusiveSame
<1>6. PlaceInv(s)
  BY DEF IInv
<1>7. CallInv(s)'
  BY <1>3, <1>6, NoTxType DEF CallInv, PlaceInv, FreshInv, LinkInv, FlagInv
<1> QED BY <1>3, <1>4, <1>5, <1>7, Together

\* The places where a call is under way.
Running == States \ {"idle", "done"}

LEMMA RunningPlaces ==
  /\ {"lockMagazine", "visible", "lockFirearms", "unlink", "insert", "lockFirearm",
       "links", "update", "cascade", "commit"} \subseteq Running
  /\ Running \subseteq States
BY DEF Running, States

\* What a call that goes on has after the statement.
LEMMA After ==
  ASSUME TypeOK, NEW s \in Session, Unseen, saw' \in [Session -> SUBSET Firearms],
         NEW l \in Running, NEW g \in Firearms \union {NoGun},
         NEW T \in SUBSET Firearms, NEW t \in TxType, At(s, l, g, T, t)
  PROVE  /\ pc'[s] = l /\ gun'[s] = g /\ todo'[s] = T /\ tx'[s] = t
         /\ op' = op /\ list' = list /\ flag' = flag
         /\ live' = live /\ fed' = fed /\ links' = links
<1>1. l \in States /\ l \notin {"idle", "done"}
  BY DEF Running
<1> QED BY <1>1, Statement

\* A call that goes on, holding only firearms no other call holds.
LEMMA GoOn ==
  ASSUME IInv, NEW s \in Session, Unseen, saw' \in [Session -> SUBSET Firearms],
         NEW l \in Running, NEW g \in Firearms \union {NoGun},
         NEW T \in SUBSET Firearms, NEW t \in TxType, At(s, l, g, T, t),
         \A r \in Session \ {s} : t.upd \intersect tx[r].upd = {}, CallInv(s)'
  PROVE  IInv'
<1>1. TypeOK /\ OnlyMagazineFedLinked
  BY DEF IInv
<1>2. TypeOK' /\ OthersSame(s) /\ tx'[s] = t
  <2>1. l \in States /\ l \notin {"idle", "done"}
    BY DEF Running
  <2> QED BY <1>1, <2>1, Statement
<1>3. TableStep(s) /\ OnlyMagazineFedLinked'
  BY <1>1, StatementTables
<1>4. Exclusive'
  BY <1>2, ExclusiveKept
<1> QED BY <1>2, <1>3, <1>4, Together

\* What a call has that a statement leaves alone.
LEMMA Stay ==
  ASSUME TypeOK, NEW s \in Session
  PROVE  /\ gun = [gun EXCEPT ![s] = gun[s]] /\ todo = [todo EXCEPT ![s] = todo[s]]
         /\ tx = [tx EXCEPT ![s] = tx[s]]
         /\ gun[s] \in Firearms \union {NoGun} /\ todo[s] \in SUBSET Firearms
         /\ tx[s] \in TxType
BY DEF TypeOK

\* The locks a call has already are its own.
LEMMA OwnLocks ==
  ASSUME IInv, NEW s \in Session
  PROVE  \A r \in Session \ {s} : tx[s].upd \intersect tx[r].upd = {}
BY DEF IInv, Exclusive

-----------------------------------------------------------------------------
(* The statements.                                                         *)

LEMMA LockMagazineKeeps ==
  ASSUME IInv, NEW s \in Session, LockMagazine(s)
  PROVE  IInv'
<1> DEFINE t == [tx[s] EXCEPT !.mag = mine[s]]
<1>1. Unseen /\ saw' \in [Session -> SUBSET Firearms] /\ TypeOK /\ CallInv(s)
  BY DEF IInv, TypeOK, LockMagazine, CallInv
<1>2. CASE EndCall(s)
  BY <1>1, <1>2, EndKeeps
<1>3. CASE tx' = [tx EXCEPT ![s].mag = mine[s]] /\ Goto(s, "visible") /\ UNCHANGED <<gun, todo>>
  <2>1. mine[s] \in SUBSET Magazines
    BY <1>1 DEF TypeOK
  <2>2. t \in TxType /\ t.upd = tx[s].upd /\ t.add = tx[s].add
    BY <1>1, <2>1, Stay DEF TxType
  <2>3. At(s, "visible", gun[s], todo[s], t)
    BY <1>1, <1>3, Stay DEF At, Goto
  <2> HIDE DEF t
  <2>4. pc'[s] = "visible" /\ tx'[s] = t /\ op' = op /\ flag' = flag
    BY <1>1, <2>2, <2>3, Stay, After, RunningPlaces
  <2>5. CallInv(s)'
    BY <1>1, <2>2, <2>4 DEF LockMagazine, CallInv, PlaceInv, FreshInv, LinkInv, FlagInv
  <2>6. /\ gun[s] \in Firearms \union {NoGun} /\ todo[s] \in SUBSET Firearms
        /\ "visible" \in Running /\ \A r \in Session \ {s} : t.upd \intersect tx[r].upd = {}
    BY <1>1, <2>2, Stay, OwnLocks, RunningPlaces
  <2> QED BY <1>1, <2>2, <2>3, <2>5, <2>6, GoOn
<1> QED BY <1>2, <1>3 DEF LockMagazine

LEMMA ReadVisibleKeeps ==
  ASSUME IInv, NEW s \in Session, ReadVisible(s), op[s] # "bulkAddMagazines"
  PROVE  IInv'
<1>1. Unseen /\ TypeOK /\ CallInv(s) /\ pc[s] = "visible"
  BY DEF IInv, ReadVisible, CallInv
<1>2. saw' \in [Session -> SUBSET Firearms]
  BY <1>1 DEF ReadVisible, TypeOK, Visible
<1>3. CASE EndCall(s)
  BY <1>1, <1>2, <1>3, EndKeeps
<1>4. CASE Loop(s, "lockFirearms", list[s], InOrder(list[s]), "unlink") /\ UNCHANGED tx
  <2>1. list[s] \in SUBSET Firearms /\ op[s] \in {"createMagazine", "updateMagazine"}
        /\ tx[s].upd = {} /\ tx[s].add = {}
    BY <1>1 DEF TypeOK, CallInv, PlaceInv, FreshInv
  <2>2. CASE /\ list[s] = {} /\ pc' = [pc EXCEPT ![s] = "unlink"]
             /\ gun' = [gun EXCEPT ![s] = NoGun] /\ todo' = [todo EXCEPT ![s] = {}]
    <3>1. At(s, "unlink", NoGun, {}, tx[s])
      BY <1>1, <1>4, <2>2, Stay DEF At
    <3>2. pc'[s] = "unlink" /\ tx'[s] = tx[s] /\ op' = op /\ list' = list
      <4>1. tx[s] \in TxType /\ "unlink" \in Running /\ {} \in SUBSET Firearms
        BY <1>1, Stay, RunningPlaces
      <4> QED BY <1>1, <1>2, <3>1, <4>1, After
    <3>3. CallInv(s)'
      BY <2>1, <2>2, <3>2 DEF CallInv, PlaceInv, FreshInv, LinkInv, FlagInv
    <3> QED BY <1>1, <1>2, <3>1, <3>3, Stay, OwnLocks, GoOn, RunningPlaces
  <2>3. ASSUME NEW f \in list[s], pc' = [pc EXCEPT ![s] = "lockFirearms"],
               gun' = [gun EXCEPT ![s] = f], todo' = [todo EXCEPT ![s] = list[s] \ {f}]
        PROVE  IInv'
    <3>1. At(s, "lockFirearms", f, list[s] \ {f}, tx[s])
      BY <1>1, <1>4, <2>3, Stay DEF At
    <3>2. /\ pc'[s] = "lockFirearms" /\ tx'[s] = tx[s] /\ op' = op /\ list' = list
          /\ gun'[s] = f /\ todo'[s] = list[s] \ {f}
      BY <1>1, <1>2, <2>1, <3>1, Stay, After, RunningPlaces
    <3>3. CallInv(s)'
      BY <2>1, <3>2 DEF CallInv, PlaceInv, FreshInv, LinkInv, FlagInv
    <3> QED BY <1>1, <1>2, <2>1, <3>1, <3>3, Stay, OwnLocks, GoOn, RunningPlaces
  <2>4. \/ /\ list[s] = {} /\ pc' = [pc EXCEPT ![s] = "unlink"]
           /\ gun' = [gun EXCEPT ![s] = NoGun] /\ todo' = [todo EXCEPT ![s] = {}]
        \/ \E f \in list[s] : /\ pc' = [pc EXCEPT ![s] = "lockFirearms"]
                               /\ gun' = [gun EXCEPT ![s] = f]
                               /\ todo' = [todo EXCEPT ![s] = list[s] \ {f}]
    <3>1. /\ InOrder(list[s]) \in SUBSET list[s] /\ list[s] \in SUBSET Firearms
          /\ "lockFirearms" \in States /\ "unlink" \in States
      BY <2>1, OrderType DEF States
    <3>2. Loop(s, "lockFirearms", list[s], InOrder(list[s]), "unlink")
      BY <1>4
    <3> QED BY <3>1, <3>2 DEF Loop, Goto
  <2> QED BY <2>2, <2>3, <2>4
<1> QED BY <1>3, <1>4 DEF ReadVisible

LEMMA LockFirearmsKeeps ==
  ASSUME IInv, NEW s \in Session, LockFirearms(s)
  PROVE  IInv'
<1> DEFINE locked == tx[s].upd \union ({gun[s]} \intersect live)
           t == [tx[s] EXCEPT !.upd = locked]
<1>1. /\ Unseen /\ saw' \in [Session -> SUBSET Firearms] /\ TypeOK /\ CallInv(s)
      /\ pc[s] = "lockFirearms" /\ Free(s)
  BY DEF IInv, TypeOK, LockFirearms, CallInv
<1>2. CASE EndCall(s)
  BY <1>1, <1>2, EndKeeps
<1>3. CASE /\ ~(todo[s] = {} /\ \E f \in locked : ~fed[f])
           /\ tx' = [tx EXCEPT ![s].upd = locked]
           /\ Loop(s, "lockFirearms", todo[s], InOrder(todo[s]), "unlink")
  <2>1. /\ op[s] \in {"createMagazine", "updateMagazine"} /\ tx[s].add = {}
        /\ list[s] \intersect live \subseteq tx[s].upd \union todo[s] \union {gun[s]}
    BY <1>1 DEF CallInv, PlaceInv, FreshInv, LinkInv
  <2>2. live \in SUBSET Firearms /\ todo[s] \in SUBSET Firearms
    BY <1>1 DEF TypeOK
  <2>3. t \in TxType /\ t.upd = locked /\ t.add = {}
    BY <1>1, <2>1, <2>2, Stay DEF TxType
  <2>4. \A r \in Session \ {s} : t.upd \intersect tx[r].upd = {}
    BY <1>1, <2>3, OwnLocks, FreeGun
  <2>5. tx' = [tx EXCEPT ![s] = t]
    BY <1>3
  <2> HIDE DEF t
  <2>6. CASE /\ todo[s] = {} /\ pc' = [pc EXCEPT ![s] = "unlink"]
             /\ gun' = [gun EXCEPT ![s] = NoGun] /\ todo' = [todo EXCEPT ![s] = {}]
    <3>1. At(s, "unlink", NoGun, {}, t)
      BY <2>5, <2>6 DEF At
    <3>2. /\ pc'[s] = "unlink" /\ tx'[s] = t /\ op' = op /\ list' = list
          /\ live' = live /\ fed' = fed
      BY <1>1, <2>3, <3>1, After, RunningPlaces
    <3>3. CallInv(s)'
      BY <1>3, <2>1, <2>3, <2>6, <3>2 DEF CallInv, PlaceInv, FreshInv, LinkInv, FlagInv
    <3> QED BY <1>1, <2>3, <2>4, <3>1, <3>3, GoOn, RunningPlaces
  <2>7. ASSUME NEW f \in todo[s], pc' = [pc EXCEPT ![s] = "lockFirearms"],
               gun' = [gun EXCEPT ![s] = f], todo' = [todo EXCEPT ![s] = todo[s] \ {f}]
        PROVE  IInv'
    <3>1. At(s, "lockFirearms", f, todo[s] \ {f}, t)
      BY <2>5, <2>7 DEF At
    <3>2. /\ pc'[s] = "lockFirearms" /\ tx'[s] = t /\ op' = op /\ list' = list
          /\ gun'[s] = f /\ todo'[s] = todo[s] \ {f} /\ live' = live
      BY <1>1, <2>2, <2>3, <3>1, After, RunningPlaces
    <3>3. CallInv(s)'
      BY <2>1, <2>3, <3>2 DEF CallInv, PlaceInv, FreshInv, LinkInv, FlagInv
    <3> QED BY <1>1, <2>2, <2>3, <2>4, <3>1, <3>3, GoOn, RunningPlaces
  <2>8. \/ /\ todo[s] = {} /\ pc' = [pc EXCEPT ![s] = "unlink"]
           /\ gun' = [gun EXCEPT ![s] = NoGun] /\ todo' = [todo EXCEPT ![s] = {}]
        \/ \E f \in todo[s] : /\ pc' = [pc EXCEPT ![s] = "lockFirearms"]
                               /\ gun' = [gun EXCEPT ![s] = f]
                               /\ todo' = [todo EXCEPT ![s] = todo[s] \ {f}]
    <3>1. /\ InOrder(todo[s]) \in SUBSET todo[s] /\ todo[s] \in SUBSET Firearms
          /\ "lockFirearms" \in States /\ "unlink" \in States
      BY <2>2, OrderType DEF States
    <3>2. Loop(s, "lockFirearms", todo[s], InOrder(todo[s]), "unlink")
      BY <1>3
    <3> QED BY <3>1, <3>2 DEF Loop, Goto
  <2> QED BY <2>6, <2>7, <2>8
<1> QED BY <1>1, <1>2, <1>3 DEF LockFirearms

LEMMA UnlinkKeeps ==
  ASSUME IInv, NEW s \in Session, Unlink(s)
  PROVE  IInv'
<1> DEFINE t == [tx[s] EXCEPT !.drop = Replaced(s)]
<1>1. /\ Unseen /\ saw' \in [Session -> SUBSET Firearms] /\ TypeOK /\ CallInv(s)
      /\ pc[s] = "unlink" /\ tx' = [tx EXCEPT ![s] = t]
      /\ Loop(s, "insert", list[s], list[s], "commit")
  BY DEF IInv, TypeOK, Unlink, CallInv
<1>2. /\ op[s] \in {"createMagazine", "updateMagazine"} /\ tx[s].add = {}
      /\ list[s] \intersect live \subseteq tx[s].upd /\ \A f \in tx[s].upd : fed[f]
      /\ list[s] \in SUBSET Firearms /\ links \in SUBSET Link
  BY <1>1 DEF CallInv, PlaceInv, FreshInv, LinkInv, TypeOK
<1>3. Replaced(s) \in SUBSET Link
  BY <1>2 DEF Replaced
<1>4. t \in TxType /\ t.upd = tx[s].upd /\ t.add = {}
  BY <1>1, <1>2, <1>3, Stay DEF TxType
<1>5. \A r \in Session \ {s} : t.upd \intersect tx[r].upd = {}
  BY <1>4, OwnLocks
<1> HIDE DEF t
<1>6. CASE /\ list[s] = {} /\ pc' = [pc EXCEPT ![s] = "commit"]
           /\ gun' = [gun EXCEPT ![s] = NoGun] /\ todo' = [todo EXCEPT ![s] = {}]
  <2>1. At(s, "commit", NoGun, {}, t)
    BY <1>1, <1>6 DEF At
  <2>2. /\ pc'[s] = "commit" /\ tx'[s] = t /\ op' = op /\ list' = list
        /\ live' = live /\ fed' = fed
    BY <1>1, <1>4, <2>1, After, RunningPlaces
  <2>3. CallInv(s)'
    BY <1>2, <1>4, <2>2 DEF CallInv, PlaceInv, FreshInv, LinkInv, FlagInv
  <2> QED BY <1>1, <1>4, <1>5, <2>1, <2>3, GoOn, RunningPlaces
<1>7. ASSUME NEW f \in list[s], pc' = [pc EXCEPT ![s] = "insert"],
             gun' = [gun EXCEPT ![s] = f], todo' = [todo EXCEPT ![s] = list[s] \ {f}]
      PROVE  IInv'
  <2>1. At(s, "insert", f, list[s] \ {f}, t)
    BY <1>1, <1>7 DEF At
  <2>2. /\ pc'[s] = "insert" /\ tx'[s] = t /\ op' = op /\ list' = list
        /\ gun'[s] = f /\ todo'[s] = list[s] \ {f} /\ live' = live /\ fed' = fed
    BY <1>1, <1>2, <1>4, <2>1, After, RunningPlaces
  <2>3. CallInv(s)'
    BY <1>2, <1>4, <2>2 DEF CallInv, PlaceInv, FreshInv, LinkInv, FlagInv
  <2> QED BY <1>1, <1>2, <1>4, <1>5, <2>1, <2>3, GoOn, RunningPlaces
<1> QED BY <1>1, <1>6, <1>7 DEF Loop, Goto

LEMMA InsertLinksKeeps ==
  ASSUME IInv, NEW s \in Session, InsertLinks(s)
  PROVE  IInv'
<1> DEFINE t == [tx[s] EXCEPT !.share = @ \union {gun[s]},
                              !.add = @ \union (mine[s] \X {gun[s]})]
<1>1. /\ Unseen /\ saw' \in [Session -> SUBSET Firearms] /\ TypeOK /\ CallInv(s)
      /\ pc[s] = "insert"
  BY DEF IInv, TypeOK, InsertLinks, CallInv
<1>2. CASE EndCall(s)
  BY <1>1, <1>2, EndKeeps
<1>3. CASE /\ gun[s] \in live
           /\ tx' = [tx EXCEPT ![s].share = @ \union {gun[s]},
                               ![s].add = @ \union (mine[s] \X {gun[s]})]
           /\ Loop(s, "insert", todo[s], todo[s], "commit")
  <2>1. /\ op[s] \in {"createMagazine", "updateMagazine"}
        /\ \A l \in tx[s].add : l[2] \in tx[s].upd
        /\ list[s] \intersect live \subseteq tx[s].upd /\ \A f \in tx[s].upd : fed[f]
        /\ gun[s] \in list[s] /\ todo[s] \subseteq list[s]
    BY <1>1 DEF CallInv, PlaceInv, FreshInv, LinkInv
  <2>2. /\ list[s] \in SUBSET Firearms /\ todo[s] \in SUBSET Firearms
        /\ live \in SUBSET Firearms /\ mine[s] \in SUBSET Magazines /\ tx[s] \in TxType
    BY <1>1 DEF TypeOK
  <2>3. gun[s] \in tx[s].upd /\ gun[s] \in Firearms
    BY <1>3, <2>1, <2>2
  <2>4. /\ t.upd = tx[s].upd /\ t.share = tx[s].share \union {gun[s]} /\ t.nokey = tx[s].nokey
        /\ t.add = tx[s].add \union (mine[s] \X {gun[s]}) /\ t.mag = tx[s].mag
        /\ t.drop = tx[s].drop
    BY <2>2 DEF TxType
  <2>5. mine[s] \X {gun[s]} \in SUBSET Link
    BY <2>2, <2>3 DEF Link
  <2>6. t \in TxType
    BY <2>2, <2>3, <2>5 DEF TxType
  <2>7. \A l \in t.add : l[2] \in t.upd
    BY <2>1, <2>3, <2>4
  <2>8. \A r \in Session \ {s} : t.upd \intersect tx[r].upd = {}
    BY <2>4, OwnLocks
  <2>9. tx' = [tx EXCEPT ![s] = t]
    BY <1>3
  <2> HIDE DEF t
  <2>10. CASE /\ todo[s] = {} /\ pc' = [pc EXCEPT ![s] = "commit"]
              /\ gun' = [gun EXCEPT ![s] = NoGun] /\ todo' = [todo EXCEPT ![s] = {}]
    <3>1. At(s, "commit", NoGun, {}, t)
      BY <2>9, <2>10 DEF At
    <3>2. /\ pc'[s] = "commit" /\ tx'[s] = t /\ op' = op /\ list' = list
          /\ live' = live /\ fed' = fed
      BY <1>1, <2>6, <3>1, After, RunningPlaces
    <3>3. CallInv(s)'
      BY <2>1, <2>4, <2>7, <3>2 DEF CallInv, PlaceInv, FreshInv, LinkInv, FlagInv
    <3> QED BY <1>1, <2>6, <2>8, <3>1, <3>3, GoOn, RunningPlaces
  <2>11. ASSUME NEW f \in todo[s], pc' = [pc EXCEPT ![s] = "insert"],
                gun' = [gun EXCEPT ![s] = f], todo' = [todo EXCEPT ![s] = todo[s] \ {f}]
         PROVE  IInv'
    <3>1. At(s, "insert", f, todo[s] \ {f}, t)
      BY <2>9, <2>11 DEF At
    <3>2. /\ pc'[s] = "insert" /\ tx'[s] = t /\ op' = op /\ list' = list
          /\ gun'[s] = f /\ todo'[s] = todo[s] \ {f} /\ live' = live /\ fed' = fed
      BY <1>1, <2>2, <2>6, <3>1, After, RunningPlaces
    <3>3. CallInv(s)'
      BY <2>1, <2>4, <2>7, <3>2 DEF CallInv, PlaceInv, FreshInv, LinkInv, FlagInv
    <3> QED BY <1>1, <2>2, <2>6, <2>8, <3>1, <3>3, GoOn, RunningPlaces
  <2> QED BY <1>3, <2>10, <2>11 DEF Loop, Goto
<1> QED BY <1>2, <1>3 DEF InsertLinks

LEMMA LockFirearmKeeps ==
  ASSUME IInv, NEW s \in Session, LockFirearm(s)
  PROVE  IInv'
<1> DEFINE t == [tx[s] EXCEPT !.upd = {gun[s]} \intersect live]
<1>1. /\ Unseen /\ saw' \in [Session -> SUBSET Firearms] /\ TypeOK /\ CallInv(s)
      /\ pc[s] = "lockFirearm" /\ Free(s) /\ tx' = [tx EXCEPT ![s] = t]
      /\ Goto(s, "links") /\ UNCHANGED <<gun, todo>>
  BY DEF IInv, TypeOK, LockFirearm, CallInv
<1>2. op[s] = "updateFirearm" /\ tx[s].add = {} /\ live \in SUBSET Firearms
  BY <1>1 DEF CallInv, PlaceInv, FreshInv, TypeOK
<1>3. t \in TxType /\ t.upd = {gun[s]} \intersect live /\ t.add = {}
  BY <1>1, <1>2, Stay DEF TxType
<1>4. \A r \in Session \ {s} : t.upd \intersect tx[r].upd = {}
  BY <1>1, <1>3, FreeGun
<1> HIDE DEF t
<1>5. At(s, "links", gun[s], todo[s], t)
  BY <1>1, Stay DEF At, Goto
<1>6. /\ gun[s] \in Firearms \union {NoGun} /\ todo[s] \in SUBSET Firearms
      /\ "links" \in Running
  BY <1>1, Stay, RunningPlaces
<1>7. /\ pc'[s] = "links" /\ tx'[s] = t /\ op' = op /\ gun'[s] = gun[s]
      /\ flag' = flag /\ live' = live
  BY <1>1, <1>3, <1>5, <1>6, After
<1>8. CallInv(s)'
  BY <1>2, <1>3, <1>7 DEF CallInv, PlaceInv, FreshInv, LinkInv, FlagInv
<1> QED BY <1>1, <1>3, <1>4, <1>5, <1>6, <1>8, GoOn

LEMMA ReadLinksKeeps ==
  ASSUME IInv, NEW s \in Session, ReadLinks(s)
  PROVE  IInv'
<1>1. /\ Unseen /\ saw' \in [Session -> SUBSET Firearms] /\ TypeOK /\ CallInv(s)
      /\ pc[s] = "links"
  BY DEF IInv, TypeOK, ReadLinks, CallInv
<1>2. CASE EndCall(s)
  BY <1>1, <1>2, EndKeeps
<1>3. CASE /\ ~ \E l \in links : l[2] = gun[s]
           /\ Goto(s, "update") /\ UNCHANGED <<gun, todo, tx>>
  <2>1. At(s, "update", gun[s], todo[s], tx[s])
    BY <1>1, <1>3, Stay DEF At, Goto
  <2>2. /\ gun[s] \in Firearms \union {NoGun} /\ todo[s] \in SUBSET Firearms
        /\ tx[s] \in TxType /\ "update" \in Running
    BY <1>1, Stay, RunningPlaces
  <2>3. /\ pc'[s] = "update" /\ tx'[s] = tx[s] /\ op' = op /\ gun'[s] = gun[s]
        /\ flag' = flag /\ live' = live /\ links' = links
    BY <1>1, <2>1, <2>2, After
  <2>4. CallInv(s)'
    BY <1>1, <1>3, <2>3 DEF CallInv, PlaceInv, FreshInv, LinkInv, FlagInv
  <2> QED BY <1>1, <2>1, <2>2, <2>4, OwnLocks, GoOn
<1> QED BY <1>2, <1>3 DEF ReadLinks

LEMMA UpdateFirearmKeeps ==
  ASSUME IInv, NEW s \in Session, UpdateFirearm(s)
  PROVE  IInv'
<1> DEFINE t == [tx[s] EXCEPT !.nokey = {gun[s]}]
<1>1. /\ Unseen /\ saw' \in [Session -> SUBSET Firearms] /\ TypeOK /\ CallInv(s)
      /\ pc[s] = "update"
  BY DEF IInv, TypeOK, UpdateFirearm, CallInv
<1>2. CASE EndCall(s)
  BY <1>1, <1>2, EndKeeps
<1>3. CASE /\ gun[s] \in live /\ tx' = [tx EXCEPT ![s].nokey = {gun[s]}]
           /\ Goto(s, "commit") /\ UNCHANGED <<gun, todo>>
  <2>1. t \in TxType /\ t.upd = tx[s].upd /\ t.add = tx[s].add
    <3>1. tx[s] \in TxType /\ gun[s] \in Firearms
      BY <1>1, <1>3 DEF TypeOK
    <3> QED BY <3>1 DEF TxType
  <2>2. At(s, "commit", gun[s], todo[s], t)
    BY <1>1, <1>3, Stay DEF At, Goto
  <2> HIDE DEF t
  <2>3. /\ gun[s] \in Firearms \union {NoGun} /\ todo[s] \in SUBSET Firearms
        /\ "commit" \in Running /\ \A r \in Session \ {s} : t.upd \intersect tx[r].upd = {}
    BY <1>1, <2>1, Stay, OwnLocks, RunningPlaces
  <2>4. /\ pc'[s] = "commit" /\ tx'[s] = t /\ op' = op /\ gun'[s] = gun[s]
        /\ flag' = flag /\ live' = live /\ links' = links
    BY <1>1, <2>1, <2>2, <2>3, After
  <2>5. CallInv(s)'
    BY <1>1, <1>3, <2>1, <2>4 DEF CallInv, PlaceInv, FreshInv, LinkInv, FlagInv
  <2> QED BY <1>1, <2>1, <2>2, <2>3, <2>5, GoOn
<1> QED BY <1>2, <1>3 DEF UpdateFirearm

LEMMA CascadeKeeps ==
  ASSUME IInv, NEW s \in Session, Cascade(s)
  PROVE  IInv'
<1> DEFINE t == [tx[s] EXCEPT !.drop = Cascaded(s), !.mag = mine[s],
                              !.upd = {gun[s]} \intersect live]
<1>1. /\ Unseen /\ saw' \in [Session -> SUBSET Firearms] /\ TypeOK /\ CallInv(s)
      /\ pc[s] = "cascade" /\ Free(s)
  BY DEF IInv, TypeOK, Cascade, CallInv
<1>2. CASE EndCall(s)
  BY <1>1, <1>2, EndKeeps
<1>3. CASE /\ tx' = [tx EXCEPT ![s].drop = Cascaded(s), ![s].mag = mine[s],
                               ![s].upd = {gun[s]} \intersect live]
           /\ Goto(s, "commit") /\ UNCHANGED <<gun, todo>>
  <2>1. /\ op[s] \in {"deleteFirearm", "deleteMagazine"} /\ tx[s].add = {}
        /\ links \in SUBSET Link /\ live \in SUBSET Firearms /\ mine[s] \in SUBSET Magazines
        /\ tx[s] \in TxType
    BY <1>1 DEF CallInv, PlaceInv, FreshInv, TypeOK
  <2>2. Cascaded(s) \in SUBSET Link
    BY <2>1 DEF Cascaded
  <2>3. t \in TxType /\ t.upd = {gun[s]} \intersect live /\ t.add = {}
    BY <2>1, <2>2 DEF TxType
  <2>4. At(s, "commit", gun[s], todo[s], t)
    BY <1>1, <1>3, Stay DEF At, Goto
  <2> HIDE DEF t
  <2>5. /\ gun[s] \in Firearms \union {NoGun} /\ todo[s] \in SUBSET Firearms
        /\ "commit" \in Running /\ \A r \in Session \ {s} : t.upd \intersect tx[r].upd = {}
    BY <1>1, <2>3, Stay, FreeGun, RunningPlaces
  <2>6. pc'[s] = "commit" /\ tx'[s] = t /\ op' = op
    BY <1>1, <2>3, <2>4, <2>5, After
  <2>7. CallInv(s)'
    BY <2>1, <2>3, <2>6 DEF CallInv, PlaceInv, FreshInv, LinkInv, FlagInv
  <2> QED BY <1>1, <2>3, <2>4, <2>5, <2>7, GoOn
<1> QED BY <1>2, <1>3 DEF Cascade

LEMMA TxFailsKeeps ==
  ASSUME IInv, NEW s \in Session, TxFails(s)
  PROVE  IInv'
<1>1. Unseen /\ saw' \in [Session -> SUBSET Firearms] /\ EndCall(s)
  BY DEF IInv, TypeOK, TxFails
<1> QED BY <1>1, EndKeeps

-----------------------------------------------------------------------------
(* COMMIT, the beginning of a call, sharing.                               *)

\* A commit adds links to firearms its call has locked and found magazine-fed, or
\* takes the flag of a firearm it has locked and found without links.
LEMMA CommitKeeps ==
  ASSUME IInv, NEW s \in Session, Commit(s)
  PROVE  IInv'
<1>1. /\ TypeOK /\ OnlyMagazineFedLinked /\ CallInv(s) /\ pc[s] = "commit"
      /\ links' = (links \ tx[s].drop) \union tx[s].add
      /\ live' = IF op[s] = "deleteFirearm" THEN live \ {gun[s]} ELSE live
      /\ fed' = IF op[s] = "updateFirearm" THEN [fed EXCEPT ![gun[s]] = flag[s]] ELSE fed
      /\ mags' = IF op[s] = "deleteMagazine" THEN mags \ mine[s] ELSE mags \union mine[s]
      /\ At(s, "done", NoGun, {}, NoTx)
      /\ own' = own /\ granted' = granted /\ op' = op /\ mine' = mine /\ list' = list
      /\ flag' = flag /\ saw' = saw
  BY DEF IInv, CallInv, Commit, EndCall, Goto, At, inputs
<1>2. /\ live \in SUBSET Firearms /\ mags \in SUBSET Magazines /\ links \in SUBSET Link
      /\ fed \in [Firearms -> BOOLEAN] /\ mine[s] \in SUBSET Magazines /\ flag[s] \in BOOLEAN
      /\ tx[s] \in TxType /\ tx[s].add \in SUBSET Link
  BY <1>1, TxParts DEF TypeOK
<1>3. /\ live' \in SUBSET Firearms /\ mags' \in SUBSET Magazines /\ links' \in SUBSET Link
      /\ fed' \in [Firearms -> BOOLEAN]
  BY <1>1, <1>2
<1>4. /\ pc' \in [Session -> States] /\ pc'[s] = "done"
      /\ \A r \in Session \ {s} : pc'[r] = pc[r]
  BY <1>1 DEF TypeOK, At, States
<1>5. /\ gun' \in [Session -> Firearms \union {NoGun}] /\ gun'[s] = NoGun
      /\ \A r \in Session \ {s} : gun'[r] = gun[r]
  BY <1>1 DEF TypeOK, At
<1>6. /\ todo' \in [Session -> SUBSET Firearms] /\ todo'[s] = {}
      /\ \A r \in Session \ {s} : todo'[r] = todo[r]
  BY <1>1 DEF TypeOK, At
<1>7. /\ tx' \in [Session -> TxType] /\ tx'[s] = NoTx
      /\ \A r \in Session \ {s} : tx'[r] = tx[r]
  BY <1>1, NoTxType DEF TypeOK, At
<1>8. TypeOK'
  <2>1. \A r \in Session : pc'[r] \in {"idle", "done"} => tx'[r] = NoTx
    BY <1>1, <1>4, <1>7 DEF TypeOK
  <2> QED BY <1>1, <1>3, <1>4, <1>5, <1>6, <1>7, <2>1 DEF TypeOK
<1>9. OthersSame(s)
  BY <1>1, <1>4, <1>5, <1>6, <1>7 DEF OthersSame, SameCall
<1>10. TableStep(s)
  <2>1. ASSUME NEW f \in Firearms, fed[f], ~fed'[f] PROVE f \in tx[s].upd
    <3>1. op[s] = "updateFirearm" /\ f = gun[s] /\ ~flag[s]
      BY <1>1, <1>2, <2>1
    <3> QED BY <1>1, <3>1 DEF CallInv, FlagInv
  <2> QED BY <1>1, <2>1 DEF TableStep
<1>11. OnlyMagazineFedLinked'
  <2> SUFFICES ASSUME NEW l \in links' PROVE fed'[l[2]]
    BY DEF OnlyMagazineFedLinked
  <2>1. l[2] \in Firearms
    BY <1>3 DEF Link
  <2>2. CASE l \in tx[s].add
    <3>1. op[s] \in {"createMagazine", "updateMagazine"} /\ l[2] \in tx[s].upd /\ fed[l[2]]
      BY <1>1, <2>2 DEF CallInv, FreshInv, LinkInv
    <3> QED BY <1>1, <3>1
  <2>3. CASE l \in links
    <3>1. fed[l[2]]
      BY <1>1, <2>3 DEF OnlyMagazineFedLinked
    <3>2. CASE op[s] = "updateFirearm" /\ ~flag[s]
      <4>1. l[2] # gun[s]
        BY <1>1, <2>3, <3>2 DEF CallInv, FlagInv
      <4> QED BY <1>1, <1>2, <2>1, <3>1, <4>1
    <3>3. CASE ~(op[s] = "updateFirearm" /\ ~flag[s])
      BY <1>1, <1>2, <2>1, <3>1, <3>3
    <3> QED BY <3>2, <3>3
  <2> QED BY <1>1, <2>2, <2>3
<1>12. Exclusive'
  BY <1>7, <1>9, NoTxType, ExclusiveSame
<1>13. CallInv(s)'
  BY <1>1, <1>4, <1>7, NoTxType DEF CallInv, PlaceInv, FreshInv, LinkInv, FlagInv
<1> QED BY <1>8, <1>9, <1>10, <1>11, <1>12, <1>13, Together

\* The beginning of a call: the tables and the transaction are as they were.
LEMMA BeginKeeps ==
  ASSUME IInv, NEW s \in Session, pc[s] = "idle", TypeOK', OthersSame(s), UNCHANGED <<tables, tx>>,
         PlaceInv(s)',
         pc'[s] \in {"lockMagazine", "visible", "lockFirearm", "cascade", "update"},
         pc'[s] = "update" => flag'[s]
  PROVE  IInv'
<1>1. /\ OnlyMagazineFedLinked /\ FreshInv(s) /\ tx'[s] = tx[s]
      /\ live' = live /\ fed' = fed /\ links' = links
  BY DEF IInv, tables
<1>2. TableStep(s) /\ OnlyMagazineFedLinked'
  BY <1>1 DEF TableStep, OnlyMagazineFedLinked
<1>3. Exclusive'
  BY <1>1, ExclusiveSame
<1>4. CallInv(s)'
  BY <1>1 DEF CallInv, FreshInv, LinkInv, FlagInv
<1> QED BY <1>2, <1>3, <1>4, Together

LEMMA StartMagazineKeeps ==
  ASSUME IInv, NEW s \in Session, StartMagazine(s), NoBulkAdd
  PROVE  IInv'
<1>1. TypeOK /\ pc[s] = "idle"
  BY DEF IInv, StartMagazine
<1>2. PICK o \in {"createMagazine", "updateMagazine"} :
        /\ op' = [op EXCEPT ![s] = o]
        /\ \E m \in IF o = "updateMagazine" THEN mags \intersect own[s] ELSE Unused :
             mine' = [mine EXCEPT ![s] = {m}]
        /\ Goto(s, IF o = "updateMagazine" THEN "lockMagazine" ELSE "visible")
  BY DEF StartMagazine, NoBulkAdd
<1>3. PICK l \in SUBSET Firearms : list' = [list EXCEPT ![s] = l]
  BY DEF StartMagazine
<1>4. PICK m \in Magazines : mine' = [mine EXCEPT ![s] = {m}]
  BY <1>1, <1>2 DEF TypeOK, Unused
<1>5. PICK p \in {"lockMagazine", "visible"} : pc' = [pc EXCEPT ![s] = p]
  BY <1>2 DEF Goto
<1>6. /\ UNCHANGED <<live, fed, mags, links, own, granted, flag, saw, gun, todo, tx>>
      /\ UNCHANGED <<tables, tx>>
  BY DEF StartMagazine, tables
<1>7. /\ pc' \in [Session -> States] /\ pc'[s] = p /\ \A r \in Session \ {s} : pc'[r] = pc[r]
  BY <1>1, <1>5 DEF TypeOK, States
<1>8. /\ op' \in [Session -> Operations \union {NoOp}] /\ op'[s] = o
      /\ \A r \in Session \ {s} : op'[r] = op[r]
  BY <1>1, <1>2 DEF TypeOK, Operations
<1>9. /\ list' \in [Session -> SUBSET Firearms] /\ \A r \in Session \ {s} : list'[r] = list[r]
  BY <1>1, <1>3 DEF TypeOK
<1>10. mine' \in [Session -> SUBSET Magazines]
  BY <1>1, <1>4 DEF TypeOK
<1>11. TypeOK'
  BY <1>1, <1>6, <1>7, <1>8, <1>9, <1>10 DEF TypeOK
<1>12. OthersSame(s) /\ PlaceInv(s)'
  BY <1>6, <1>7, <1>8, <1>9 DEF OthersSame, SameCall, PlaceInv
<1> QED BY <1>1, <1>6, <1>7, <1>11, <1>12, BeginKeeps

LEMMA StartFirearmKeeps ==
  ASSUME IInv, NEW s \in Session, StartFirearm(s)
  PROVE  IInv'
<1>1. TypeOK /\ pc[s] = "idle"
  BY DEF IInv, StartFirearm
<1>2. PICK o \in {"updateFirearm", "deleteFirearm"}, v \in BOOLEAN :
        /\ op' = [op EXCEPT ![s] = o] /\ flag' = [flag EXCEPT ![s] = v]
        /\ \E f \in IF o = "deleteFirearm" THEN live \intersect own[s] ELSE Visible(s) :
             gun' = [gun EXCEPT ![s] = f]
        /\ Goto(s, IF o = "deleteFirearm" THEN "cascade" ELSE IF v THEN "update" ELSE "lockFirearm")
  BY DEF StartFirearm
<1>3. PICK f \in Firearms : gun' = [gun EXCEPT ![s] = f]
  BY <1>1, <1>2 DEF TypeOK, Visible
<1>4. PICK p \in {"cascade", "update", "lockFirearm"} :
        /\ pc' = [pc EXCEPT ![s] = p]
        /\ p = "update" => v
        /\ p = "cascade" <=> o = "deleteFirearm"
  BY <1>2 DEF Goto
<1>5. /\ UNCHANGED <<live, fed, mags, links, own, granted, mine, list, saw, todo, tx>>
      /\ UNCHANGED <<tables, tx>>
  BY DEF StartFirearm, tables
<1>6. /\ pc' \in [Session -> States] /\ pc'[s] = p /\ \A r \in Session \ {s} : pc'[r] = pc[r]
  <2>1. p \in States /\ pc \in [Session -> States]
    BY <1>1 DEF States, TypeOK
  <2>2. pc' = [pc EXCEPT ![s] = p]
    BY <1>4
  <2> QED BY <2>1, <2>2
<1>7. /\ op' \in [Session -> Operations \union {NoOp}] /\ op'[s] = o
      /\ \A r \in Session \ {s} : op'[r] = op[r]
  BY <1>1, <1>2 DEF TypeOK, Operations
<1>8. /\ flag' \in [Session -> BOOLEAN] /\ flag'[s] = v
      /\ \A r \in Session \ {s} : flag'[r] = flag[r]
  BY <1>1, <1>2 DEF TypeOK
<1>9. /\ gun' \in [Session -> Firearms \union {NoGun}]
      /\ \A r \in Session \ {s} : gun'[r] = gun[r]
  BY <1>1, <1>3 DEF TypeOK
<1>10. TypeOK'
  BY <1>1, <1>4, <1>5, <1>6, <1>7, <1>8, <1>9 DEF TypeOK
<1>11. OthersSame(s) /\ PlaceInv(s)'
  BY <1>4, <1>5, <1>6, <1>7, <1>8, <1>9 DEF OthersSame, SameCall, PlaceInv
<1>12. /\ pc'[s] \in {"lockMagazine", "visible", "lockFirearm", "cascade", "update"}
       /\ pc'[s] = "update" => flag'[s]
  <2>1. pc'[s] = p
    BY <1>6
  <2>2. flag'[s] = v
    BY <1>8
  <2>3. p = "update" => v
    BY <1>4
  <2> QED BY <2>1, <2>2, <2>3
<1> QED BY <1>1, <1>5, <1>10, <1>11, <1>12, BeginKeeps

LEMMA StartDeleteMagazineKeeps ==
  ASSUME IInv, NEW s \in Session, StartDeleteMagazine(s)
  PROVE  IInv'
<1>1. /\ TypeOK /\ pc[s] = "idle" /\ op' = [op EXCEPT ![s] = "deleteMagazine"]
      /\ pc' = [pc EXCEPT ![s] = "cascade"]
  BY DEF IInv, StartDeleteMagazine, Goto
<1>2. PICK m \in Magazines : mine' = [mine EXCEPT ![s] = {m}]
  BY <1>1 DEF StartDeleteMagazine, TypeOK
<1>3. /\ UNCHANGED <<live, fed, mags, links, own, granted, list, flag, saw, gun, todo, tx>>
      /\ UNCHANGED <<tables, tx>>
  BY DEF StartDeleteMagazine, tables
<1>4. /\ pc' \in [Session -> States] /\ pc'[s] = "cascade"
      /\ \A r \in Session \ {s} : pc'[r] = pc[r]
  BY <1>1 DEF TypeOK, States
<1>5. /\ op' \in [Session -> Operations \union {NoOp}] /\ op'[s] = "deleteMagazine"
      /\ \A r \in Session \ {s} : op'[r] = op[r]
  BY <1>1 DEF TypeOK, Operations
<1>6. mine' \in [Session -> SUBSET Magazines]
  BY <1>1, <1>2 DEF TypeOK
<1>7. TypeOK'
  BY <1>1, <1>3, <1>4, <1>5, <1>6 DEF TypeOK
<1>8. OthersSame(s) /\ PlaceInv(s)'
  BY <1>3, <1>4, <1>5 DEF OthersSame, SameCall, PlaceInv
<1> QED BY <1>1, <1>3, <1>4, <1>7, <1>8, BeginKeeps

\* A grant that comes or goes changes nothing the guards rest on.
LEMMA ShareKeeps ==
  ASSUME IInv, NEW s \in Session, Share(s)
  PROVE  IInv'
<1>1. /\ granted' \in [Session -> SUBSET Firearms]
      /\ live' = live /\ fed' = fed /\ mags' = mags /\ links' = links /\ own' = own
      /\ pc' = pc /\ op' = op /\ mine' = mine /\ list' = list /\ flag' = flag
      /\ saw' = saw /\ gun' = gun /\ todo' = todo /\ tx' = tx
  BY DEF IInv, TypeOK, Share, tables, inputs
<1>2. TypeOK'
  BY <1>1 DEF IInv, TypeOK
<1> QED BY <1>1, <1>2 DEF IInv, Exclusive, OnlyMagazineFedLinked, PlaceInv, FreshInv,
                          LinkInv, FlagInv

-----------------------------------------------------------------------------
(* Theorems.                                                               *)

LEMMA InitHolds == Init => IInv
<1> SUFFICES ASSUME Init PROVE IInv
  OBVIOUS
<1>1. \A s \in Session : /\ pc[s] = "idle" /\ op[s] = NoOp /\ tx[s] = NoTx
                         /\ gun[s] = NoGun /\ todo[s] = {}
  BY DEF Init
<1>2. TypeOK
  <2>1. Linked \subseteq Link /\ Kept \subseteq Magazines
    BY LinksAssumption DEF LinksAssumption, Link
  <2> QED BY <1>1, <2>1, NoTxType DEF Init, TypeOK, States
<1>3. Exclusive /\ OnlyMagazineFedLinked
  BY <1>1, NoTxType DEF Init, Exclusive, OnlyMagazineFedLinked
<1>4. \A s \in Session : PlaceInv(s) /\ FreshInv(s) /\ LinkInv(s) /\ FlagInv(s)
  BY <1>1, NoTxType DEF PlaceInv, FreshInv, LinkInv, FlagInv, NoOp
<1> QED BY <1>2, <1>3, <1>4 DEF IInv

LEMMA StepKeeps ==
  ASSUME NoBulkAdd, IInv, [Next]_vars
  PROVE  IInv'
<1>1. CASE UNCHANGED vars
  BY <1>1 DEF vars, tables, inputs, IInv, TypeOK, Exclusive, OnlyMagazineFedLinked, PlaceInv,
             FreshInv, LinkInv, FlagInv
<1>2. ASSUME NEW s \in Session, Starts(s) PROVE IInv'
  BY <1>2, StartMagazineKeeps, StartFirearmKeeps, StartDeleteMagazineKeeps DEF Starts
<1>3. ASSUME NEW s \in Session, Proceeds(s) PROVE IInv'
  <2>1. op[s] # "bulkAddMagazines"
    BY DEF IInv, PlaceInv
  <2> QED BY <1>3, <2>1, LockMagazineKeeps, ReadVisibleKeeps, LockFirearmsKeeps, UnlinkKeeps,
             InsertLinksKeeps, LockFirearmKeeps, ReadLinksKeeps, UpdateFirearmKeeps,
             CascadeKeeps, CommitKeeps DEF Proceeds
<1>4. ASSUME NEW s \in Session, TxFails(s) \/ Share(s) PROVE IInv'
  BY <1>4, TxFailsKeeps, ShareKeeps
<1> QED BY <1>1, <1>2, <1>3, <1>4 DEF Next

\* The inductive invariant of the two guards (assertAllMagazineFed,
\* assertNoCompatibleMagazines), for any number of calls, firearms and magazines.
THEOREM GuardsInvariant == NoBulkAdd => (Spec => []IInv)
<1> SUFFICES ASSUME NoBulkAdd PROVE Spec => []IInv
  OBVIOUS
<1>1. IInv /\ [Next]_vars => IInv'
  BY StepKeeps
<1> QED BY <1>1, InitHolds, PTL DEF Spec

\* Without bulk adds only a magazine-fed firearm is ever linked (CONCEPTS.md,
\* Compatibility), whatever runs beside what.
THEOREM OnlyMagazineFed == NoBulkAdd => (Spec => []OnlyMagazineFedLinked)
<1>1. IInv => OnlyMagazineFedLinked
  BY DEF IInv
<1> QED BY <1>1, GuardsInvariant, PTL

-----------------------------------------------------------------------------
(* Replacing links, with bulk adds.  A step moves one call (Moves); the     *)
(* others stay apart from it.                                               *)

Moves(s) == Starts(s) \/ Proceeds(s) \/ TxFails(s) \/ Share(s)

\* What a call has of its own does not change when another one moves.
Apart(s) ==
  \A r \in Session \ {s} :
    /\ pc'[r] = pc[r] /\ op'[r] = op[r] /\ mine'[r] = mine[r] /\ list'[r] = list[r]
    /\ saw'[r] = saw[r] /\ gun'[r] = gun[r] /\ todo'[r] = todo[r] /\ tx'[r] = tx[r]

LEMMA MovesApart ==
  ASSUME TypeOK, NEW s \in Session, Moves(s)
  PROVE  Apart(s)
<1>1. ASSUME StartMagazine(s) PROVE Apart(s)
  BY <1>1 DEF StartMagazine, Goto, Apart, TypeOK
<1>2. ASSUME StartFirearm(s) PROVE Apart(s)
  BY <1>2 DEF StartFirearm, Goto, Apart, TypeOK
<1>3. ASSUME StartDeleteMagazine(s) PROVE Apart(s)
  BY <1>3 DEF StartDeleteMagazine, Goto, Apart, TypeOK
<1>4. ASSUME LockMagazine(s) PROVE Apart(s)
  BY <1>4 DEF LockMagazine, EndCall, Goto, Unseen, inputs, Apart, TypeOK
<1>5. ASSUME ReadVisible(s) PROVE Apart(s)
  BY <1>5 DEF ReadVisible, EndCall, Goto, Unseen, inputs, Loop, Apart, TypeOK
<1>6. ASSUME LockFirearms(s) PROVE Apart(s)
  BY <1>6 DEF LockFirearms, EndCall, Goto, Unseen, inputs, Loop, Apart, TypeOK
<1>7. ASSUME Unlink(s) PROVE Apart(s)
  BY <1>7 DEF Unlink, Unseen, inputs, Loop, Goto, Apart, TypeOK
<1>8. ASSUME InsertLinks(s) PROVE Apart(s)
  BY <1>8 DEF InsertLinks, EndCall, Goto, Unseen, inputs, Loop, Apart, TypeOK
<1>9. ASSUME LockFirearm(s) PROVE Apart(s)
  BY <1>9 DEF LockFirearm, Unseen, inputs, Goto, Apart, TypeOK
<1>10. ASSUME ReadLinks(s) PROVE Apart(s)
  BY <1>10 DEF ReadLinks, EndCall, Goto, Unseen, inputs, Apart, TypeOK
<1>11. ASSUME UpdateFirearm(s) PROVE Apart(s)
  BY <1>11 DEF UpdateFirearm, EndCall, Goto, Unseen, inputs, Apart, TypeOK
<1>12. ASSUME Cascade(s) PROVE Apart(s)
  BY <1>12 DEF Cascade, EndCall, Goto, Unseen, inputs, Apart, TypeOK
<1>13. ASSUME Commit(s) PROVE Apart(s)
  BY <1>13 DEF Commit, EndCall, Goto, inputs, Apart, TypeOK
<1>14. ASSUME TxFails(s) PROVE Apart(s)
  BY <1>14 DEF TxFails, EndCall, Goto, Unseen, inputs, Apart, TypeOK
<1>15. ASSUME Share(s) PROVE Apart(s)
  BY <1>15 DEF Share, inputs, Apart, TypeOK
<1> QED
  BY <1>1, <1>2, <1>3, <1>4, <1>5, <1>6, <1>7, <1>8, <1>9, <1>10, <1>11, <1>12, <1>13,
     <1>14, <1>15 DEF Moves, Starts, Proceeds

\* Where a statement leaves its call.
Placed(s) ==
  /\ pc' \in [Session -> States] /\ gun' \in [Session -> Firearms \union {NoGun}]
  /\ todo' \in [Session -> SUBSET Firearms] /\ saw' \in [Session -> SUBSET Firearms]
  /\ pc'[s] \in {"idle", "done"} => tx'[s] = NoTx

LEMMA LoopType ==
  ASSUME TypeOK, NEW s \in Session, NEW l \in Running, NEW S \in SUBSET Firearms,
         NEW first \in SUBSET Firearms, NEW after \in Running, Loop(s, l, S, first, after),
         saw' \in [Session -> SUBSET Firearms]
  PROVE  Placed(s)
<1>1. CASE S = {}
  BY <1>1 DEF Loop, Goto, Placed, TypeOK, Running
<1>2. CASE S # {}
  <2>1. PICK f \in first : /\ gun' = [gun EXCEPT ![s] = f]
                           /\ todo' = [todo EXCEPT ![s] = S \ {f}]
    BY <1>2 DEF Loop
  <2>2. pc' = [pc EXCEPT ![s] = l]
    BY <1>2 DEF Loop, Goto
  <2> QED BY <2>1, <2>2 DEF Placed, TypeOK, Running
<1> QED BY <1>1, <1>2

LEMMA EndType ==
  ASSUME TypeOK, NEW s \in Session, EndCall(s), Unseen, saw' \in [Session -> SUBSET Firearms]
  PROVE  TypeOK'
<1>1. At(s, "done", NoGun, {}, NoTx)
  BY DEF EndCall, Goto, At
<1> QED BY <1>1, NoTxType, Statement DEF States

LEMMA StatementType ==
  ASSUME TypeOK, NEW s \in Session, Apart(s), Unseen, Placed(s), NEW t \in TxType,
         tx' = [tx EXCEPT ![s] = t]
  PROVE  TypeOK'
<1>1. /\ tx' \in [Session -> TxType]
      /\ \A r \in Session : pc'[r] \in {"idle", "done"} => tx'[r] = NoTx
  BY DEF TypeOK, Apart, Placed
<1> QED BY <1>1 DEF TypeOK, Placed, Unseen, tables, inputs

\* Every step keeps the types.
LEMMA MovesType ==
  ASSUME TypeOK, NEW s \in Session, Moves(s)
  PROVE  TypeOK'
<1>a. /\ NoTx \in TxType /\ tx[s] \in TxType /\ Apart(s) /\ mine[s] \in SUBSET Magazines
      /\ links \in SUBSET Link /\ list[s] \in SUBSET Firearms /\ live \in SUBSET Firearms
      /\ todo[s] \in SUBSET Firearms /\ gun[s] \in Firearms \union {NoGun}
      /\ tx = [tx EXCEPT ![s] = tx[s]]
  BY NoTxType, MovesApart DEF TypeOK
<1>1. ASSUME StartMagazine(s) PROVE TypeOK'
  BY <1>1, <1>a DEF StartMagazine, Goto, TypeOK, States, Operations, TxType, Unused, tables
<1>2. ASSUME StartFirearm(s) PROVE TypeOK'
  BY <1>2, <1>a DEF StartFirearm, Goto, TypeOK, States, Operations, TxType, Visible, tables
<1>3. ASSUME StartDeleteMagazine(s) PROVE TypeOK'
  BY <1>3, <1>a DEF StartDeleteMagazine, Goto, TypeOK, States, Operations, TxType, tables
<1>4. ASSUME LockMagazine(s) PROVE TypeOK'

  <2>1. Unseen /\ saw' \in [Session -> SUBSET Firearms]
    BY <1>4 DEF LockMagazine, TypeOK, Visible
  <2>2. CASE EndCall(s)
    BY <2>1, <2>2, EndType
  <2>3. ASSUME tx' = [tx EXCEPT ![s].mag = mine[s]], Goto(s, "visible"),
               UNCHANGED <<gun, todo>>
        PROVE  TypeOK'
    <3>1. Placed(s)
      BY <2>1, <2>3 DEF Goto, Placed, TypeOK, States
    <3>2. PICK t \in TxType : tx' = [tx EXCEPT ![s] = t]
      <4> DEFINE t == [tx[s] EXCEPT !.mag = mine[s]]
      <4>1. t \in TxType
        BY <1>a DEF TxType
      <4>2. tx' = [tx EXCEPT ![s] = t]
        BY <1>a, <2>3
      <4> QED BY <4>1, <4>2
    <3> QED BY <1>a, <2>1, <3>1, <3>2, StatementType
  <2> QED BY <1>4, <2>2, <2>3 DEF LockMagazine
<1>5. ASSUME ReadVisible(s) PROVE TypeOK'

  <2>1. Unseen /\ saw' \in [Session -> SUBSET Firearms]
    BY <1>5 DEF ReadVisible, TypeOK, Visible
  <2>2. CASE EndCall(s)
    BY <2>1, <2>2, EndType
  <2>3. ASSUME \/ Loop(s, "insert", list[s], list[s], "commit")
               \/ Loop(s, "lockFirearms", list[s], InOrder(list[s]), "unlink"),
               UNCHANGED tx
        PROVE  TypeOK'
    <3>1. Placed(s)
      <4>1. InOrder(list[s]) \in SUBSET Firearms
        BY <1>a DEF InOrder
      <4> QED BY <1>a, <2>1, <2>3, <4>1, LoopType DEF Running, States
    <3>2. PICK t \in TxType : tx' = [tx EXCEPT ![s] = t]
      BY <1>a, <2>3
    <3> QED BY <1>a, <2>1, <3>1, <3>2, StatementType
  <2> QED BY <1>5, <2>2, <2>3 DEF ReadVisible
<1>6. ASSUME LockFirearms(s) PROVE TypeOK'

  <2>1. Unseen /\ saw' \in [Session -> SUBSET Firearms]
    BY <1>6 DEF LockFirearms, TypeOK, Visible
  <2>2. CASE EndCall(s)
    BY <2>1, <2>2, EndType
  <2>3. ASSUME tx' = [tx EXCEPT ![s].upd = tx[s].upd \union ({gun[s]} \intersect live)],
               Loop(s, "lockFirearms", todo[s], InOrder(todo[s]), "unlink")
        PROVE  TypeOK'
    <3>1. Placed(s)
      <4>1. InOrder(todo[s]) \in SUBSET Firearms
        BY <1>a DEF InOrder
      <4> QED BY <1>a, <2>1, <2>3, <4>1, LoopType DEF Running, States
    <3>2. PICK t \in TxType : tx' = [tx EXCEPT ![s] = t]
      <4> DEFINE t == [tx[s] EXCEPT !.upd = tx[s].upd \union ({gun[s]} \intersect live)]
      <4>1. t \in TxType
        BY <1>a DEF TxType
      <4>2. tx' = [tx EXCEPT ![s] = t]
        BY <1>a, <2>3
      <4> QED BY <4>1, <4>2
    <3> QED BY <1>a, <2>1, <3>1, <3>2, StatementType
  <2> QED BY <1>6, <2>2, <2>3 DEF LockFirearms
<1>7. ASSUME Unlink(s) PROVE TypeOK'

  <2>1. Unseen /\ saw' \in [Session -> SUBSET Firearms]
    BY <1>7 DEF Unlink, TypeOK, Visible
  <2>2. CASE EndCall(s)
    BY <2>1, <2>2, EndType
  <2>3. ASSUME tx' = [tx EXCEPT ![s].drop = Replaced(s)],
               Loop(s, "insert", list[s], list[s], "commit")
        PROVE  TypeOK'
    <3>1. Placed(s)
      BY <1>a, <2>1, <2>3, OrderType, LoopType DEF Running, States
    <3>2. PICK t \in TxType : tx' = [tx EXCEPT ![s] = t]
      <4> DEFINE t == [tx[s] EXCEPT !.drop = Replaced(s)]
      <4>1. t \in TxType
        BY <1>a DEF TxType, Replaced
      <4>2. tx' = [tx EXCEPT ![s] = t]
        BY <1>a, <2>3
      <4> QED BY <4>1, <4>2
    <3> QED BY <1>a, <2>1, <3>1, <3>2, StatementType
  <2> QED BY <1>7, <2>2, <2>3 DEF Unlink
<1>8. ASSUME InsertLinks(s) PROVE TypeOK'

  <2>1. Unseen /\ saw' \in [Session -> SUBSET Firearms]
    BY <1>8 DEF InsertLinks, TypeOK, Visible
  <2>2. CASE EndCall(s)
    BY <2>1, <2>2, EndType
  <2>3. ASSUME gun[s] \in live,
               tx' = [tx EXCEPT ![s].share = @ \union {gun[s]},
                                ![s].add = @ \union (mine[s] \X {gun[s]})],
               Loop(s, "insert", todo[s], todo[s], "commit")
        PROVE  TypeOK'
    <3>1. Placed(s)
      BY <1>a, <2>1, <2>3, OrderType, LoopType DEF Running, States
    <3>2. PICK t \in TxType : tx' = [tx EXCEPT ![s] = t]
      <4> DEFINE t == [tx[s] EXCEPT !.share = @ \union {gun[s]},
                                  !.add = @ \union (mine[s] \X {gun[s]})]
      <4>1. t \in TxType
        <5>1. gun[s] \in Firearms /\ mine[s] \X {gun[s]} \in SUBSET Link
          BY <1>a, <2>3 DEF Link
        <5>2. /\ tx[s].share \union {gun[s]} \in SUBSET Firearms
              /\ tx[s].add \union (mine[s] \X {gun[s]}) \in SUBSET Link
          BY <1>a, <5>1, TxParts
        <5> HIDE DEF Link
        <5> QED BY <1>a, <5>2 DEF TxType
      <4>2. tx' = [tx EXCEPT ![s] = t]
        BY <1>a, <2>3
      <4> QED BY <4>1, <4>2
    <3> QED BY <1>a, <2>1, <3>1, <3>2, StatementType
  <2> QED BY <1>8, <2>2, <2>3 DEF InsertLinks
<1>9. ASSUME LockFirearm(s) PROVE TypeOK'
  BY <1>9, <1>a DEF LockFirearm, Unseen, inputs, Goto, TypeOK, States, Operations, TxType,
     tables
<1>10. ASSUME ReadLinks(s) PROVE TypeOK'

  <2>1. Unseen /\ saw' \in [Session -> SUBSET Firearms]
    BY <1>10 DEF ReadLinks, TypeOK, Visible
  <2>2. CASE EndCall(s)
    BY <2>1, <2>2, EndType
  <2>3. ASSUME Goto(s, "update"), UNCHANGED <<gun, todo, tx>>
        PROVE  TypeOK'
    <3>1. Placed(s)
      BY <2>1, <2>3 DEF Goto, Placed, TypeOK, States
    <3>2. PICK t \in TxType : tx' = [tx EXCEPT ![s] = t]
      BY <1>a, <2>3
    <3> QED BY <1>a, <2>1, <3>1, <3>2, StatementType
  <2> QED BY <1>10, <2>2, <2>3 DEF ReadLinks
<1>11. ASSUME UpdateFirearm(s) PROVE TypeOK'

  <2>1. Unseen /\ saw' \in [Session -> SUBSET Firearms]
    BY <1>11 DEF UpdateFirearm, TypeOK, Visible
  <2>2. CASE EndCall(s)
    BY <2>1, <2>2, EndType
  <2>3. ASSUME gun[s] \in live, tx' = [tx EXCEPT ![s].nokey = {gun[s]}], Goto(s, "commit"),
               UNCHANGED <<gun, todo>>
        PROVE  TypeOK'
    <3>1. Placed(s)
      BY <2>1, <2>3 DEF Goto, Placed, TypeOK, States
    <3>2. PICK t \in TxType : tx' = [tx EXCEPT ![s] = t]
      <4> DEFINE t == [tx[s] EXCEPT !.nokey = {gun[s]}]
      <4>1. t \in TxType
        BY <1>a, <2>3 DEF TxType
      <4>2. tx' = [tx EXCEPT ![s] = t]
        BY <1>a, <2>3
      <4> QED BY <4>1, <4>2
    <3> QED BY <1>a, <2>1, <3>1, <3>2, StatementType
  <2> QED BY <1>11, <2>2, <2>3 DEF UpdateFirearm
<1>12. ASSUME Cascade(s) PROVE TypeOK'

  <2>1. Unseen /\ saw' \in [Session -> SUBSET Firearms]
    BY <1>12 DEF Cascade, TypeOK, Visible
  <2>2. CASE EndCall(s)
    BY <2>1, <2>2, EndType
  <2>3. ASSUME tx' = [tx EXCEPT ![s].drop = Cascaded(s), ![s].mag = mine[s],
                                ![s].upd = {gun[s]} \intersect live], Goto(s, "commit"),
               UNCHANGED <<gun, todo>>
        PROVE  TypeOK'
    <3>1. Placed(s)
      BY <2>1, <2>3 DEF Goto, Placed, TypeOK, States
    <3>2. PICK t \in TxType : tx' = [tx EXCEPT ![s] = t]
      <4> DEFINE t == [tx[s] EXCEPT !.drop = Cascaded(s), !.mag = mine[s],
                                  !.upd = {gun[s]} \intersect live]
      <4>1. t \in TxType
        <5>1. Cascaded(s) \in SUBSET Link
          BY <1>a DEF Cascaded
        <5> QED BY <1>a, <5>1 DEF TxType
      <4>2. tx' = [tx EXCEPT ![s] = t]
        BY <1>a, <2>3
      <4> QED BY <4>1, <4>2
    <3> QED BY <1>a, <2>1, <3>1, <3>2, StatementType
  <2> QED BY <1>12, <2>2, <2>3 DEF Cascade
<1>13. ASSUME Commit(s) PROVE TypeOK'
  BY <1>13, <1>a DEF Commit, EndCall, Goto, inputs, TypeOK, States, Operations, TxType, Link
<1>14. ASSUME TxFails(s) PROVE TypeOK'
  BY <1>14, <1>a DEF TxFails, EndCall, Goto, Unseen, inputs, TypeOK, States, Operations,
     TxType, tables
<1>15. ASSUME Share(s) PROVE TypeOK'
  BY <1>15, <1>a DEF Share, inputs, TypeOK, States, Operations, TxType, tables, inputs
<1> QED
  BY <1>1, <1>2, <1>3, <1>4, <1>5, <1>6, <1>7, <1>8, <1>9, <1>10, <1>11, <1>12, <1>13,
     <1>14, <1>15 DEF Moves, Starts, Proceeds

\* What a step does to the tables: a statement nothing, a commit what its call has
\* prepared.
LEMMA TablesOnlyCommitted ==
  ASSUME NEW s \in Session, Moves(s), ~Commit(s)
  PROVE  links' = links /\ mags' = mags
<1>1. ASSUME StartMagazine(s) PROVE (links' = links /\ mags' = mags) \/ Commit(s)
  BY <1>1 DEF StartMagazine, Goto, tables
<1>2. ASSUME StartFirearm(s) PROVE (links' = links /\ mags' = mags) \/ Commit(s)
  BY <1>2 DEF StartFirearm, Goto, tables
<1>3. ASSUME StartDeleteMagazine(s) PROVE (links' = links /\ mags' = mags) \/ Commit(s)
  BY <1>3 DEF StartDeleteMagazine, Goto, tables
<1>4. ASSUME LockMagazine(s) PROVE (links' = links /\ mags' = mags) \/ Commit(s)
  BY <1>4 DEF LockMagazine, EndCall, Goto, Unseen, inputs, tables
<1>5. ASSUME ReadVisible(s) PROVE (links' = links /\ mags' = mags) \/ Commit(s)
  BY <1>5 DEF ReadVisible, EndCall, Goto, Unseen, inputs, Loop, tables
<1>6. ASSUME LockFirearms(s) PROVE (links' = links /\ mags' = mags) \/ Commit(s)
  BY <1>6 DEF LockFirearms, EndCall, Goto, Unseen, inputs, Loop, tables
<1>7. ASSUME Unlink(s) PROVE (links' = links /\ mags' = mags) \/ Commit(s)
  BY <1>7 DEF Unlink, Unseen, inputs, Loop, Goto, tables
<1>8. ASSUME InsertLinks(s) PROVE (links' = links /\ mags' = mags) \/ Commit(s)
  BY <1>8 DEF InsertLinks, EndCall, Goto, Unseen, inputs, Loop, tables
<1>9. ASSUME LockFirearm(s) PROVE (links' = links /\ mags' = mags) \/ Commit(s)
  BY <1>9 DEF LockFirearm, Unseen, inputs, Goto, tables
<1>10. ASSUME ReadLinks(s) PROVE (links' = links /\ mags' = mags) \/ Commit(s)
  BY <1>10 DEF ReadLinks, EndCall, Goto, Unseen, inputs, tables
<1>11. ASSUME UpdateFirearm(s) PROVE (links' = links /\ mags' = mags) \/ Commit(s)
  BY <1>11 DEF UpdateFirearm, EndCall, Goto, Unseen, inputs, tables
<1>12. ASSUME Cascade(s) PROVE (links' = links /\ mags' = mags) \/ Commit(s)
  BY <1>12 DEF Cascade, EndCall, Goto, Unseen, inputs, tables
<1>13. ASSUME Commit(s) PROVE (links' = links /\ mags' = mags) \/ Commit(s)
  BY <1>13 DEF Commit, EndCall, Goto, inputs, tables
<1>14. ASSUME TxFails(s) PROVE (links' = links /\ mags' = mags) \/ Commit(s)
  BY <1>14 DEF TxFails, EndCall, Goto, Unseen, inputs, tables
<1>15. ASSUME Share(s) PROVE (links' = links /\ mags' = mags) \/ Commit(s)
  BY <1>15 DEF Share, inputs, tables
<1> QED
  BY <1>1, <1>2, <1>3, <1>4, <1>5, <1>6, <1>7, <1>8, <1>9, <1>10, <1>11, <1>12, <1>13,
     <1>14, <1>15 DEF Moves, Starts, Proceeds

\* Of the magazines a call owns, s takes none but its own.
LEMMA OthersOwn ==
  ASSUME ExactInv, NEW s \in Session, Moves(s), Apart(s), NEW r \in Session \ {s},
         OwnMagazineInv(r)
  PROVE  OwnMagazineInv(r)'
<1>1. /\ pc'[r] = pc[r] /\ op'[r] = op[r] /\ mine'[r] = mine[r] /\ tx'[r] = tx[r]
      /\ \A q \in Session \ {s} : mine'[q] = mine[q]
  BY DEF Apart
<1> SUFFICES ASSUME op[r] \in Linking \ {"updateMagazine"}, pc[r] \notin {"idle", "done"}
             PROVE  mine[r] \intersect mags' = {} /\ mine'[s] \intersect mine[r] = {}
  BY <1>1 DEF OwnMagazineInv
<1>2. mine[r] \intersect mags = {} /\ mine[s] \intersect mine[r] = {}
  BY DEF OwnMagazineInv
<1>3. mine[r] \intersect mags' = {}
  <2>1. CASE Commit(s)
    BY <1>2, <2>1 DEF Commit
  <2>2. CASE ~Commit(s)
    BY <1>2, <2>2, TablesOnlyCommitted
  <2> QED BY <2>1, <2>2
<1>4. mine'[s] \intersect mine[r] = {}
  <2>1. CASE mine' = mine
    BY <1>2, <2>1
  <2>2. ASSUME NEW m \in mags \union Unused, mine' = [mine EXCEPT ![s] = {m}]
        PROVE  mine'[s] \intersect mine[r] = {}
    <3>1. m \notin mine[r]
      BY <1>2, <2>2 DEF Unused
    <3> QED BY <2>2, <3>1 DEF ExactInv, TypeOK
  <2>3. \/ mine' = mine \/ \E m \in mags \union Unused : mine' = [mine EXCEPT ![s] = {m}]
    <3>1. CASE StartMagazine(s) BY <3>1 DEF StartMagazine
    <3>2. CASE StartDeleteMagazine(s) BY <3>2 DEF StartDeleteMagazine
    <3>3. CASE StartFirearm(s) \/ Proceeds(s) \/ TxFails(s) \/ Share(s)
      BY <3>3 DEF StartFirearm, Proceeds, LockMagazine, ReadVisible, LockFirearms, Unlink,
                  InsertLinks, LockFirearm, ReadLinks, UpdateFirearm, Cascade, Commit, TxFails,
                  Share, Unseen, inputs
    <3> QED BY <3>1, <3>2, <3>3 DEF Moves, Starts
  <2> QED BY <2>1, <2>2, <2>3
<1> QED BY <1>3, <1>4

\* Only the call that has a magazine to itself commits links of it.
LEMMA OthersReplace ==
  ASSUME ExactInv, NEW s \in Session, Moves(s), Apart(s), NEW r \in Session \ {s}
  PROVE  LockedInv(r)' /\ ReplaceInv(r)'
<1>1. /\ pc'[r] = pc[r] /\ op'[r] = op[r] /\ mine'[r] = mine[r] /\ list'[r] = list[r]
      /\ saw'[r] = saw[r] /\ gun'[r] = gun[r] /\ todo'[r] = todo[r] /\ tx'[r] = tx[r]
  BY DEF Apart
<1>2. LockedInv(r) /\ ReplaceInv(r) /\ OwnMagazineInv(s) /\ LockedInv(s)
  BY DEF ExactInv
<1>3. LockedInv(r)'
  BY <1>1, <1>2 DEF LockedInv
<1>4. ReplaceInv(r)'
  <2> SUFFICES ASSUME op[r] = "updateMagazine", pc[r] \in {"insert", "commit"},
                      NEW l \in links', l[1] \in mine[r], l[2] \in saw[r]
               PROVE  l \in tx[r].drop
    BY <1>1, <1>2 DEF ReplaceInv
  <2>1. CASE l \in links
    BY <1>2, <2>1 DEF ReplaceInv
  <2>2. CASE l \notin links
    <3>1. Commit(s) /\ l \in tx[s].add
      BY <2>2, TablesOnlyCommitted DEF Commit
    <3>2. op[s] \in Linking /\ l[1] \in mine[s] /\ pc[s] = "commit"
      BY <1>2, <3>1 DEF OwnMagazineInv, Commit
    <3>3. CASE op[s] = "updateMagazine"
      <4>1. tx[s].mag = mine[s] /\ tx[r].mag = mine[r]
        BY <1>2, <3>2, <3>3 DEF LockedInv
      <4> QED BY <3>2, <4>1 DEF ExactInv, OneCallPerMagazine
    <3>4. CASE op[s] # "updateMagazine"
      BY <1>2, <3>2, <3>4 DEF OwnMagazineInv
    <3> QED BY <3>3, <3>4
  <2> QED BY <2>1, <2>2
<1> QED BY <1>3, <1>4

\* A magazine is taken by the statement that waits for it, and kept to the end.
TakesMagazine(s) ==
  \/ tx'[s].mag = {}
  \/ tx'[s].mag = tx[s].mag
  \/ tx'[s].mag = mine[s] /\ pc[s] \in {"lockMagazine", "cascade"} /\ Free(s)

LEMMA MagazinesTaken ==
  ASSUME TypeOK, NEW s \in Session, Moves(s)
  PROVE  TakesMagazine(s)
<1>a. TypeOK /\ tx[s] \in TxType
  BY DEF TypeOK
<1>1. ASSUME StartMagazine(s) PROVE TakesMagazine(s)
  BY <1>1, <1>a DEF StartMagazine, Goto, TakesMagazine, TypeOK, NoTx
<1>2. ASSUME StartFirearm(s) PROVE TakesMagazine(s)
  BY <1>2, <1>a DEF StartFirearm, Goto, TakesMagazine, TypeOK, NoTx
<1>3. ASSUME StartDeleteMagazine(s) PROVE TakesMagazine(s)
  BY <1>3, <1>a DEF StartDeleteMagazine, Goto, TakesMagazine, TypeOK, NoTx
<1>4. ASSUME LockMagazine(s) PROVE TakesMagazine(s)

  <2>1. /\ op' = op /\ mine' = mine /\ list' = list /\ saw' = saw /\ mags' = mags
        /\ links' = links
    BY <1>4 DEF LockMagazine, Unseen, inputs, tables
  <2>2. CASE EndCall(s)
    <3>1. pc'[s] = "done" /\ tx'[s] = NoTx
      BY <1>a, <2>2 DEF EndCall, Goto, TypeOK
    <3> QED BY <1>4, <1>a, <2>1, <3>1 DEF LockMagazine, NoTx, TakesMagazine
  <2>3. ASSUME tx' = [tx EXCEPT ![s].mag = mine[s]], Goto(s, "visible")
        PROVE  TakesMagazine(s)
    <3> DEFINE t == [tx[s] EXCEPT !.mag = mine[s]]
    <3>1. t.add = tx[s].add /\ t.drop = tx[s].drop /\ t.mag = mine[s]
      <4>1. tx[s] \in TxType
        BY <1>a DEF TypeOK
      <4> QED BY <4>1 DEF TxType
    <3>2. tx'[s] = t
      BY <1>a, <2>3 DEF TypeOK
    <3> HIDE DEF t
    <3> QED BY <1>4, <1>a, <2>1, <2>3, <3>1, <3>2 DEF LockMagazine, Loop, Goto, TypeOK,
          TakesMagazine
  <2> QED BY <1>4, <2>2, <2>3 DEF LockMagazine
<1>5. ASSUME ReadVisible(s) PROVE TakesMagazine(s)
  BY <1>5, <1>a DEF ReadVisible, EndCall, Goto, Unseen, inputs, Loop, TakesMagazine, TypeOK,
     NoTx
<1>6. ASSUME LockFirearms(s) PROVE TakesMagazine(s)

  <2>1. /\ op' = op /\ mine' = mine /\ list' = list /\ saw' = saw /\ mags' = mags
        /\ links' = links
    BY <1>6 DEF LockFirearms, Unseen, inputs, tables
  <2>2. CASE EndCall(s)
    <3>1. pc'[s] = "done" /\ tx'[s] = NoTx
      BY <1>a, <2>2 DEF EndCall, Goto, TypeOK
    <3> QED BY <1>6, <1>a, <2>1, <3>1 DEF LockFirearms, NoTx, TakesMagazine
  <2>3. ASSUME tx' = [tx EXCEPT ![s].upd = tx[s].upd \union ({gun[s]} \intersect live)],
               Loop(s, "lockFirearms", todo[s], InOrder(todo[s]), "unlink")
        PROVE  TakesMagazine(s)
    <3> DEFINE t == [tx[s] EXCEPT !.upd = tx[s].upd \union ({gun[s]} \intersect live)]
    <3>1. t.add = tx[s].add /\ t.drop = tx[s].drop /\ t.mag = tx[s].mag
      <4>1. tx[s] \in TxType
        BY <1>a DEF TypeOK
      <4> QED BY <4>1 DEF TxType
    <3>2. tx'[s] = t
      BY <1>a, <2>3 DEF TypeOK
    <3> HIDE DEF t
    <3> QED BY <1>6, <1>a, <2>1, <2>3, <3>1, <3>2 DEF LockFirearms, Loop, Goto, TypeOK,
          TakesMagazine
  <2> QED BY <1>6, <2>2, <2>3 DEF LockFirearms
<1>7. ASSUME Unlink(s) PROVE TakesMagazine(s)

  <2>1. /\ op' = op /\ mine' = mine /\ list' = list /\ saw' = saw /\ mags' = mags
        /\ links' = links
    BY <1>7 DEF Unlink, Unseen, inputs, tables
  <2>2. CASE EndCall(s)
    <3>1. pc'[s] = "done" /\ tx'[s] = NoTx
      BY <1>a, <2>2 DEF EndCall, Goto, TypeOK
    <3> QED BY <1>7, <1>a, <2>1, <3>1 DEF Unlink, NoTx, TakesMagazine
  <2>3. ASSUME tx' = [tx EXCEPT ![s].drop = Replaced(s)],
               Loop(s, "insert", list[s], list[s], "commit")
        PROVE  TakesMagazine(s)
    <3> DEFINE t == [tx[s] EXCEPT !.drop = Replaced(s)]
    <3>1. t.add = tx[s].add /\ t.drop = Replaced(s) /\ t.mag = tx[s].mag
      <4>1. tx[s] \in TxType
        BY <1>a DEF TypeOK
      <4> QED BY <4>1 DEF TxType
    <3>2. tx'[s] = t
      BY <1>a, <2>3 DEF TypeOK
    <3> HIDE DEF t
    <3> QED BY <1>7, <1>a, <2>1, <2>3, <3>1, <3>2 DEF Unlink, Loop, Goto, TypeOK,
          TakesMagazine
  <2> QED BY <1>7, <2>2, <2>3 DEF Unlink
<1>8. ASSUME InsertLinks(s) PROVE TakesMagazine(s)

  <2>1. /\ op' = op /\ mine' = mine /\ list' = list /\ saw' = saw /\ mags' = mags
        /\ links' = links
    BY <1>8 DEF InsertLinks, Unseen, inputs, tables
  <2>2. CASE EndCall(s)
    <3>1. pc'[s] = "done" /\ tx'[s] = NoTx
      BY <1>a, <2>2 DEF EndCall, Goto, TypeOK
    <3> QED BY <1>8, <1>a, <2>1, <3>1 DEF InsertLinks, NoTx, TakesMagazine
  <2>3. ASSUME gun[s] \in live,
               tx' = [tx EXCEPT ![s].share = @ \union {gun[s]},
                                ![s].add = @ \union (mine[s] \X {gun[s]})],
               Loop(s, "insert", todo[s], todo[s], "commit")
        PROVE  TakesMagazine(s)
    <3> DEFINE t == [tx[s] EXCEPT !.share = @ \union {gun[s]},
                                  !.add = @ \union (mine[s] \X {gun[s]})]
    <3>1. /\ t.add = tx[s].add \union (mine[s] \X {gun[s]})
          /\ t.drop = tx[s].drop /\ t.mag = tx[s].mag
      <4>1. tx[s] \in TxType
        BY <1>a DEF TypeOK
      <4> QED BY <4>1 DEF TxType
    <3>2. tx'[s] = t
      BY <1>a, <2>3 DEF TypeOK
    <3> HIDE DEF t
    <3> QED BY <1>8, <1>a, <2>1, <2>3, <3>1, <3>2 DEF InsertLinks, Loop, Goto, TypeOK,
          TakesMagazine
  <2> QED BY <1>8, <2>2, <2>3 DEF InsertLinks
<1>9. ASSUME LockFirearm(s) PROVE TakesMagazine(s)
  BY <1>9, <1>a DEF LockFirearm, Unseen, inputs, Goto, TakesMagazine, TypeOK, NoTx
<1>10. ASSUME ReadLinks(s) PROVE TakesMagazine(s)
  BY <1>10, <1>a DEF ReadLinks, EndCall, Goto, Unseen, inputs, TakesMagazine, TypeOK, NoTx
<1>11. ASSUME UpdateFirearm(s) PROVE TakesMagazine(s)

  <2>1. /\ op' = op /\ mine' = mine /\ list' = list /\ saw' = saw /\ mags' = mags
        /\ links' = links
    BY <1>11 DEF UpdateFirearm, Unseen, inputs, tables
  <2>2. CASE EndCall(s)
    <3>1. pc'[s] = "done" /\ tx'[s] = NoTx
      BY <1>a, <2>2 DEF EndCall, Goto, TypeOK
    <3> QED BY <1>11, <1>a, <2>1, <3>1 DEF UpdateFirearm, NoTx, TakesMagazine
  <2>3. ASSUME tx' = [tx EXCEPT ![s].nokey = {gun[s]}], Goto(s, "commit")
        PROVE  TakesMagazine(s)
    <3> DEFINE t == [tx[s] EXCEPT !.nokey = {gun[s]}]
    <3>1. t.add = tx[s].add /\ t.drop = tx[s].drop /\ t.mag = tx[s].mag
      <4>1. tx[s] \in TxType
        BY <1>a DEF TypeOK
      <4> QED BY <4>1 DEF TxType
    <3>2. tx'[s] = t
      BY <1>a, <2>3 DEF TypeOK
    <3> HIDE DEF t
    <3> QED BY <1>11, <1>a, <2>1, <2>3, <3>1, <3>2 DEF UpdateFirearm, Loop, Goto, TypeOK,
          TakesMagazine
  <2> QED BY <1>11, <2>2, <2>3 DEF UpdateFirearm
<1>12. ASSUME Cascade(s) PROVE TakesMagazine(s)

  <2>1. /\ op' = op /\ mine' = mine /\ list' = list /\ saw' = saw /\ mags' = mags
        /\ links' = links
    BY <1>12 DEF Cascade, Unseen, inputs, tables
  <2>2. CASE EndCall(s)
    <3>1. pc'[s] = "done" /\ tx'[s] = NoTx
      BY <1>a, <2>2 DEF EndCall, Goto, TypeOK
    <3> QED BY <1>12, <1>a, <2>1, <3>1 DEF Cascade, NoTx, TakesMagazine
  <2>3. ASSUME tx' = [tx EXCEPT ![s].drop = Cascaded(s), ![s].mag = mine[s],
                                ![s].upd = {gun[s]} \intersect live], Goto(s, "commit")
        PROVE  TakesMagazine(s)
    <3> DEFINE t == [tx[s] EXCEPT !.drop = Cascaded(s), !.mag = mine[s],
                                  !.upd = {gun[s]} \intersect live]
    <3>1. t.add = tx[s].add /\ t.drop = Cascaded(s) /\ t.mag = mine[s]
      <4>1. tx[s] \in TxType
        BY <1>a DEF TypeOK
      <4> QED BY <4>1 DEF TxType
    <3>2. tx'[s] = t
      BY <1>a, <2>3 DEF TypeOK
    <3> HIDE DEF t
    <3> QED BY <1>12, <1>a, <2>1, <2>3, <3>1, <3>2 DEF Cascade, Loop, Goto, TypeOK,
          TakesMagazine
  <2> QED BY <1>12, <2>2, <2>3 DEF Cascade
<1>13. ASSUME Commit(s) PROVE TakesMagazine(s)
  BY <1>13, <1>a DEF Commit, EndCall, Goto, inputs, TakesMagazine, TypeOK, NoTx
<1>14. ASSUME TxFails(s) PROVE TakesMagazine(s)
  BY <1>14, <1>a DEF TxFails, EndCall, Goto, Unseen, inputs, TakesMagazine, TypeOK, NoTx
<1>15. ASSUME Share(s) PROVE TakesMagazine(s)
  BY <1>15, <1>a DEF Share, inputs, TakesMagazine, TypeOK, NoTx
<1> QED
  BY <1>1, <1>2, <1>3, <1>4, <1>5, <1>6, <1>7, <1>8, <1>9, <1>10, <1>11, <1>12, <1>13,
     <1>14, <1>15 DEF Moves, Starts, Proceeds

\* FOR UPDATE and DELETE wait for the call that has the magazine.
LEMMA MagazinesExclude ==
  ASSUME ExactInv, NEW s \in Session, Moves(s), Apart(s)
  PROVE  OneCallPerMagazine'
<1>1. \A r \in Session \ {s} : tx'[r] = tx[r] /\ tx[r].mag \intersect tx[s].mag = {}
  BY DEF Apart, ExactInv, OneCallPerMagazine
<1>2. TakesMagazine(s)
  BY MagazinesTaken DEF ExactInv
<1>3. \A r \in Session \ {s} : tx[r].mag \intersect tx'[s].mag = {}
  <2>1. CASE tx'[s].mag = {} \/ tx'[s].mag = tx[s].mag
    BY <1>1, <2>1
  <2>2. CASE tx'[s].mag = mine[s] /\ pc[s] \in {"lockMagazine", "cascade"} /\ Free(s)
    BY <2>2 DEF Free, WaitsFor
  <2> QED BY <1>2, <2>1, <2>2 DEF TakesMagazine
<1> SUFFICES ASSUME NEW r \in Session, NEW q \in Session, r # q
             PROVE  tx'[r].mag \intersect tx'[q].mag = {}
  BY DEF OneCallPerMagazine
<1>4. CASE r = s BY <1>1, <1>3, <1>4
<1>5. CASE q = s BY <1>1, <1>3, <1>5
<1>6. CASE r # s /\ q # s BY <1>1, <1>6 DEF ExactInv, OneCallPerMagazine
<1> QED BY <1>4, <1>5, <1>6

\* What a step leaves of its own call: the magazine, the lock, the links replaced.
LEMMA OwnKeeps ==
  ASSUME ExactInv, NEW s \in Session, Moves(s), Apart(s), TypeOK'
  PROVE  OwnMagazineInv(s)'
<1>a. /\ TypeOK /\ OwnMagazineInv(s) /\ \A r \in Session \ {s} : OwnMagazineInv(r)
      /\ \A r \in Session \ {s} : mine'[r] = mine[r]
  BY DEF ExactInv, Apart
<1>1. ASSUME StartMagazine(s) PROVE OwnMagazineInv(s)'
  BY <1>1, <1>a DEF StartMagazine, Goto, tables, OwnMagazineInv, TypeOK, Linking, NoTx,
     TxType, Unused
<1>2. ASSUME StartFirearm(s) PROVE OwnMagazineInv(s)'
  BY <1>2, <1>a DEF StartFirearm, Goto, tables, OwnMagazineInv, TypeOK, Linking, NoTx,
     TxType
<1>3. ASSUME StartDeleteMagazine(s) PROVE OwnMagazineInv(s)'
  BY <1>3, <1>a DEF StartDeleteMagazine, Goto, tables, OwnMagazineInv, TypeOK, Linking,
     NoTx, TxType
<1>4. ASSUME LockMagazine(s) PROVE OwnMagazineInv(s)'

  <2>1. /\ op' = op /\ mine' = mine /\ list' = list /\ saw' = saw /\ mags' = mags
        /\ links' = links
    BY <1>4 DEF LockMagazine, Unseen, inputs, tables
  <2>2. CASE EndCall(s)
    <3>1. pc'[s] = "done" /\ tx'[s] = NoTx
      BY <1>a, <2>2 DEF EndCall, Goto, TypeOK
    <3> QED BY <1>4, <1>a, <2>1, <3>1 DEF LockMagazine, NoTx, OwnMagazineInv, Linking
  <2>3. ASSUME tx' = [tx EXCEPT ![s].mag = mine[s]], Goto(s, "visible")
        PROVE  OwnMagazineInv(s)'
    <3> DEFINE t == [tx[s] EXCEPT !.mag = mine[s]]
    <3>1. t.add = tx[s].add /\ t.drop = tx[s].drop /\ t.mag = mine[s]
      <4>1. tx[s] \in TxType
        BY <1>a DEF TypeOK
      <4> QED BY <4>1 DEF TxType
    <3>2. tx'[s] = t
      BY <1>a, <2>3 DEF TypeOK
    <3> HIDE DEF t
    <3> QED BY <1>4, <1>a, <2>1, <2>3, <3>1, <3>2 DEF LockMagazine, Loop, Goto, TypeOK,
          OwnMagazineInv, Linking
  <2> QED BY <1>4, <2>2, <2>3 DEF LockMagazine
<1>5. ASSUME ReadVisible(s) PROVE OwnMagazineInv(s)'
  BY <1>5, <1>a DEF ReadVisible, EndCall, Goto, Unseen, inputs, Loop, tables,
     OwnMagazineInv, TypeOK, Linking, NoTx, TxType
<1>6. ASSUME LockFirearms(s) PROVE OwnMagazineInv(s)'

  <2>1. /\ op' = op /\ mine' = mine /\ list' = list /\ saw' = saw /\ mags' = mags
        /\ links' = links
    BY <1>6 DEF LockFirearms, Unseen, inputs, tables
  <2>2. CASE EndCall(s)
    <3>1. pc'[s] = "done" /\ tx'[s] = NoTx
      BY <1>a, <2>2 DEF EndCall, Goto, TypeOK
    <3> QED BY <1>6, <1>a, <2>1, <3>1 DEF LockFirearms, NoTx, OwnMagazineInv, Linking
  <2>3. ASSUME tx' = [tx EXCEPT ![s].upd = tx[s].upd \union ({gun[s]} \intersect live)],
               Loop(s, "lockFirearms", todo[s], InOrder(todo[s]), "unlink")
        PROVE  OwnMagazineInv(s)'
    <3> DEFINE t == [tx[s] EXCEPT !.upd = tx[s].upd \union ({gun[s]} \intersect live)]
    <3>1. t.add = tx[s].add /\ t.drop = tx[s].drop /\ t.mag = tx[s].mag
      <4>1. tx[s] \in TxType
        BY <1>a DEF TypeOK
      <4> QED BY <4>1 DEF TxType
    <3>2. tx'[s] = t
      BY <1>a, <2>3 DEF TypeOK
    <3> HIDE DEF t
    <3> QED BY <1>6, <1>a, <2>1, <2>3, <3>1, <3>2 DEF LockFirearms, Loop, Goto, TypeOK,
          OwnMagazineInv, Linking
  <2> QED BY <1>6, <2>2, <2>3 DEF LockFirearms
<1>7. ASSUME Unlink(s) PROVE OwnMagazineInv(s)'
  BY <1>7, <1>a DEF Unlink, Unseen, inputs, Loop, Goto, tables, OwnMagazineInv, TypeOK,
     Linking, NoTx, TxType
<1>8. ASSUME InsertLinks(s) PROVE OwnMagazineInv(s)'
  BY <1>8, <1>a DEF InsertLinks, EndCall, Goto, Unseen, inputs, Loop, tables,
     OwnMagazineInv, TypeOK, Linking, NoTx, TxType
<1>9. ASSUME LockFirearm(s) PROVE OwnMagazineInv(s)'
  BY <1>9, <1>a DEF LockFirearm, Unseen, inputs, Goto, tables, OwnMagazineInv, TypeOK,
     Linking, NoTx, TxType
<1>10. ASSUME ReadLinks(s) PROVE OwnMagazineInv(s)'
  BY <1>10, <1>a DEF ReadLinks, EndCall, Goto, Unseen, inputs, tables, OwnMagazineInv,
     TypeOK, Linking, NoTx, TxType
<1>11. ASSUME UpdateFirearm(s) PROVE OwnMagazineInv(s)'

  <2>1. /\ op' = op /\ mine' = mine /\ list' = list /\ saw' = saw /\ mags' = mags
        /\ links' = links
    BY <1>11 DEF UpdateFirearm, Unseen, inputs, tables
  <2>2. CASE EndCall(s)
    <3>1. pc'[s] = "done" /\ tx'[s] = NoTx
      BY <1>a, <2>2 DEF EndCall, Goto, TypeOK
    <3> QED BY <1>11, <1>a, <2>1, <3>1 DEF UpdateFirearm, NoTx, OwnMagazineInv, Linking
  <2>3. ASSUME tx' = [tx EXCEPT ![s].nokey = {gun[s]}], Goto(s, "commit")
        PROVE  OwnMagazineInv(s)'
    <3> DEFINE t == [tx[s] EXCEPT !.nokey = {gun[s]}]
    <3>1. t.add = tx[s].add /\ t.drop = tx[s].drop /\ t.mag = tx[s].mag
      <4>1. tx[s] \in TxType
        BY <1>a DEF TypeOK
      <4> QED BY <4>1 DEF TxType
    <3>2. tx'[s] = t
      BY <1>a, <2>3 DEF TypeOK
    <3> HIDE DEF t
    <3> QED BY <1>11, <1>a, <2>1, <2>3, <3>1, <3>2 DEF UpdateFirearm, Loop, Goto, TypeOK,
          OwnMagazineInv, Linking
  <2> QED BY <1>11, <2>2, <2>3 DEF UpdateFirearm
<1>12. ASSUME Cascade(s) PROVE OwnMagazineInv(s)'

  <2>1. /\ op' = op /\ mine' = mine /\ list' = list /\ saw' = saw /\ mags' = mags
        /\ links' = links
    BY <1>12 DEF Cascade, Unseen, inputs, tables
  <2>2. CASE EndCall(s)
    <3>1. pc'[s] = "done" /\ tx'[s] = NoTx
      BY <1>a, <2>2 DEF EndCall, Goto, TypeOK
    <3> QED BY <1>12, <1>a, <2>1, <3>1 DEF Cascade, NoTx, OwnMagazineInv, Linking
  <2>3. ASSUME tx' = [tx EXCEPT ![s].drop = Cascaded(s), ![s].mag = mine[s],
                                ![s].upd = {gun[s]} \intersect live], Goto(s, "commit")
        PROVE  OwnMagazineInv(s)'
    <3> DEFINE t == [tx[s] EXCEPT !.drop = Cascaded(s), !.mag = mine[s],
                                  !.upd = {gun[s]} \intersect live]
    <3>1. t.add = tx[s].add /\ t.drop = Cascaded(s) /\ t.mag = mine[s]
      <4>1. tx[s] \in TxType
        BY <1>a DEF TypeOK
      <4> QED BY <4>1 DEF TxType
    <3>2. tx'[s] = t
      BY <1>a, <2>3 DEF TypeOK
    <3> HIDE DEF t
    <3> QED BY <1>12, <1>a, <2>1, <2>3, <3>1, <3>2 DEF Cascade, Loop, Goto, TypeOK,
          OwnMagazineInv, Linking
  <2> QED BY <1>12, <2>2, <2>3 DEF Cascade
<1>13. ASSUME Commit(s) PROVE OwnMagazineInv(s)'
  BY <1>13, <1>a DEF Commit, EndCall, Goto, inputs, tables, OwnMagazineInv, TypeOK, Linking,
     NoTx, TxType
<1>14. ASSUME TxFails(s) PROVE OwnMagazineInv(s)'
  BY <1>14, <1>a DEF TxFails, EndCall, Goto, Unseen, inputs, tables, OwnMagazineInv, TypeOK,
     Linking, NoTx, TxType
<1>15. ASSUME Share(s) PROVE OwnMagazineInv(s)'
  BY <1>15, <1>a DEF Share, inputs, tables, OwnMagazineInv, TypeOK, Linking, NoTx, TxType
<1> QED
  BY <1>1, <1>2, <1>3, <1>4, <1>5, <1>6, <1>7, <1>8, <1>9, <1>10, <1>11, <1>12, <1>13,
     <1>14, <1>15 DEF Moves, Starts, Proceeds

LEMMA LockedKeeps ==
  ASSUME ExactInv, NEW s \in Session, Moves(s), Apart(s), TypeOK'
  PROVE  LockedInv(s)'
<1>a. TypeOK /\ OwnMagazineInv(s) /\ LockedInv(s)
  BY DEF ExactInv
<1>1. ASSUME StartMagazine(s) PROVE LockedInv(s)'
  BY <1>1, <1>a DEF StartMagazine, Goto, tables, OwnMagazineInv, LockedInv, TypeOK, Linking,
     NoTx, TxType
<1>2. ASSUME StartFirearm(s) PROVE LockedInv(s)'
  BY <1>2, <1>a DEF StartFirearm, Goto, tables, OwnMagazineInv, LockedInv, TypeOK, Linking,
     NoTx, TxType
<1>3. ASSUME StartDeleteMagazine(s) PROVE LockedInv(s)'
  BY <1>3, <1>a DEF StartDeleteMagazine, Goto, tables, OwnMagazineInv, LockedInv, TypeOK,
     Linking, NoTx, TxType
<1>4. ASSUME LockMagazine(s) PROVE LockedInv(s)'

  <2>1. /\ op' = op /\ mine' = mine /\ list' = list /\ saw' = saw /\ mags' = mags
        /\ links' = links
    BY <1>4 DEF LockMagazine, Unseen, inputs, tables
  <2>2. CASE EndCall(s)
    <3>1. pc'[s] = "done" /\ tx'[s] = NoTx
      BY <1>a, <2>2 DEF EndCall, Goto, TypeOK
    <3> QED BY <1>4, <1>a, <2>1, <3>1 DEF LockMagazine, NoTx, OwnMagazineInv, LockedInv,
          Linking
  <2>3. ASSUME tx' = [tx EXCEPT ![s].mag = mine[s]], Goto(s, "visible")
        PROVE  LockedInv(s)'
    <3> DEFINE t == [tx[s] EXCEPT !.mag = mine[s]]
    <3>1. t.add = tx[s].add /\ t.drop = tx[s].drop /\ t.mag = mine[s]
      <4>1. tx[s] \in TxType
        BY <1>a DEF TypeOK
      <4> QED BY <4>1 DEF TxType
    <3>2. tx'[s] = t
      BY <1>a, <2>3 DEF TypeOK
    <3> HIDE DEF t
    <3> QED BY <1>4, <1>a, <2>1, <2>3, <3>1, <3>2 DEF LockMagazine, Loop, Goto, TypeOK,
          OwnMagazineInv, LockedInv, Linking
  <2> QED BY <1>4, <2>2, <2>3 DEF LockMagazine
<1>5. ASSUME ReadVisible(s) PROVE LockedInv(s)'
  BY <1>5, <1>a DEF ReadVisible, EndCall, Goto, Unseen, inputs, Loop, tables,
     OwnMagazineInv, LockedInv, TypeOK, Linking, NoTx, TxType
<1>6. ASSUME LockFirearms(s) PROVE LockedInv(s)'

  <2>1. /\ op' = op /\ mine' = mine /\ list' = list /\ saw' = saw /\ mags' = mags
        /\ links' = links
    BY <1>6 DEF LockFirearms, Unseen, inputs, tables
  <2>2. CASE EndCall(s)
    <3>1. pc'[s] = "done" /\ tx'[s] = NoTx
      BY <1>a, <2>2 DEF EndCall, Goto, TypeOK
    <3> QED BY <1>6, <1>a, <2>1, <3>1 DEF LockFirearms, NoTx, OwnMagazineInv, LockedInv,
          Linking
  <2>3. ASSUME tx' = [tx EXCEPT ![s].upd = tx[s].upd \union ({gun[s]} \intersect live)],
               Loop(s, "lockFirearms", todo[s], InOrder(todo[s]), "unlink")
        PROVE  LockedInv(s)'
    <3> DEFINE t == [tx[s] EXCEPT !.upd = tx[s].upd \union ({gun[s]} \intersect live)]
    <3>1. t.add = tx[s].add /\ t.drop = tx[s].drop /\ t.mag = tx[s].mag
      <4>1. tx[s] \in TxType
        BY <1>a DEF TypeOK
      <4> QED BY <4>1 DEF TxType
    <3>2. tx'[s] = t
      BY <1>a, <2>3 DEF TypeOK
    <3> HIDE DEF t
    <3> QED BY <1>6, <1>a, <2>1, <2>3, <3>1, <3>2 DEF LockFirearms, Loop, Goto, TypeOK,
          OwnMagazineInv, LockedInv, Linking
  <2> QED BY <1>6, <2>2, <2>3 DEF LockFirearms
<1>7. ASSUME Unlink(s) PROVE LockedInv(s)'
  BY <1>7, <1>a DEF Unlink, Unseen, inputs, Loop, Goto, tables, OwnMagazineInv, LockedInv,
     TypeOK, Linking, NoTx, TxType
<1>8. ASSUME InsertLinks(s) PROVE LockedInv(s)'
  BY <1>8, <1>a DEF InsertLinks, EndCall, Goto, Unseen, inputs, Loop, tables,
     OwnMagazineInv, LockedInv, TypeOK, Linking, NoTx, TxType
<1>9. ASSUME LockFirearm(s) PROVE LockedInv(s)'
  BY <1>9, <1>a DEF LockFirearm, Unseen, inputs, Goto, tables, OwnMagazineInv, LockedInv,
     TypeOK, Linking, NoTx, TxType
<1>10. ASSUME ReadLinks(s) PROVE LockedInv(s)'
  BY <1>10, <1>a DEF ReadLinks, EndCall, Goto, Unseen, inputs, tables, OwnMagazineInv,
     LockedInv, TypeOK, Linking, NoTx, TxType
<1>11. ASSUME UpdateFirearm(s) PROVE LockedInv(s)'
  BY <1>11, <1>a DEF UpdateFirearm, EndCall, Goto, Unseen, inputs, tables, OwnMagazineInv,
     LockedInv, TypeOK, Linking, NoTx, TxType
<1>12. ASSUME Cascade(s) PROVE LockedInv(s)'
  BY <1>12, <1>a DEF Cascade, EndCall, Goto, Unseen, inputs, tables, OwnMagazineInv,
     LockedInv, TypeOK, Linking, NoTx, TxType
<1>13. ASSUME Commit(s) PROVE LockedInv(s)'
  BY <1>13, <1>a DEF Commit, EndCall, Goto, inputs, tables, OwnMagazineInv, LockedInv,
     TypeOK, Linking, NoTx, TxType
<1>14. ASSUME TxFails(s) PROVE LockedInv(s)'
  BY <1>14, <1>a DEF TxFails, EndCall, Goto, Unseen, inputs, tables, OwnMagazineInv,
     LockedInv, TypeOK, Linking, NoTx, TxType
<1>15. ASSUME Share(s) PROVE LockedInv(s)'
  BY <1>15, <1>a DEF Share, inputs, tables, OwnMagazineInv, LockedInv, TypeOK, Linking,
     NoTx, TxType
<1> QED
  BY <1>1, <1>2, <1>3, <1>4, <1>5, <1>6, <1>7, <1>8, <1>9, <1>10, <1>11, <1>12, <1>13,
     <1>14, <1>15 DEF Moves, Starts, Proceeds

LEMMA ReplaceKeeps ==
  ASSUME ExactInv, NEW s \in Session, Moves(s), Apart(s), TypeOK'
  PROVE  ReplaceInv(s)'
<1>a. TypeOK /\ OwnMagazineInv(s) /\ LockedInv(s) /\ ReplaceInv(s)
  BY DEF ExactInv
<1>1. ASSUME StartMagazine(s) PROVE ReplaceInv(s)'
  BY <1>1, <1>a DEF StartMagazine, Goto, tables, OwnMagazineInv, LockedInv, ReplaceInv,
     TypeOK, Linking, NoTx, TxType
<1>2. ASSUME StartFirearm(s) PROVE ReplaceInv(s)'
  BY <1>2, <1>a DEF StartFirearm, Goto, tables, OwnMagazineInv, LockedInv, ReplaceInv,
     TypeOK, Linking, NoTx, TxType
<1>3. ASSUME StartDeleteMagazine(s) PROVE ReplaceInv(s)'
  BY <1>3, <1>a DEF StartDeleteMagazine, Goto, tables, OwnMagazineInv, LockedInv,
     ReplaceInv, TypeOK, Linking, NoTx, TxType
<1>4. ASSUME LockMagazine(s) PROVE ReplaceInv(s)'
  BY <1>4, <1>a DEF LockMagazine, EndCall, Goto, Unseen, inputs, tables, OwnMagazineInv,
     LockedInv, ReplaceInv, TypeOK, Linking, NoTx, TxType
<1>5. ASSUME ReadVisible(s) PROVE ReplaceInv(s)'
  BY <1>5, <1>a DEF ReadVisible, EndCall, Goto, Unseen, inputs, Loop, tables,
     OwnMagazineInv, LockedInv, ReplaceInv, TypeOK, Linking, NoTx, TxType
<1>6. ASSUME LockFirearms(s) PROVE ReplaceInv(s)'
  BY <1>6, <1>a DEF LockFirearms, EndCall, Goto, Unseen, inputs, Loop, tables,
     OwnMagazineInv, LockedInv, ReplaceInv, TypeOK, Linking, NoTx, TxType
<1>7. ASSUME Unlink(s) PROVE ReplaceInv(s)'

  <2>1. /\ op' = op /\ mine' = mine /\ list' = list /\ saw' = saw /\ mags' = mags
        /\ links' = links
    BY <1>7 DEF Unlink, Unseen, inputs, tables
  <2>2. CASE EndCall(s)
    <3>1. pc'[s] = "done" /\ tx'[s] = NoTx
      BY <1>a, <2>2 DEF EndCall, Goto, TypeOK
    <3> QED BY <1>7, <1>a, <2>1, <3>1 DEF Unlink, NoTx, ReplaceInv
  <2>3. ASSUME tx' = [tx EXCEPT ![s].drop = Replaced(s)],
               Loop(s, "insert", list[s], list[s], "commit")
        PROVE  ReplaceInv(s)'
    <3> DEFINE t == [tx[s] EXCEPT !.drop = Replaced(s)]
    <3>1. t.add = tx[s].add /\ t.drop = Replaced(s) /\ t.mag = tx[s].mag
      <4>1. tx[s] \in TxType
        BY <1>a DEF TypeOK
      <4> QED BY <4>1 DEF TxType
    <3>2. tx'[s] = t
      BY <1>a, <2>3 DEF TypeOK
    <3> HIDE DEF t
    <3>3. list'[s] = list[s] /\ pc[s] = "unlink" /\ mine'[s] = mine[s] /\ saw'[s] = saw[s]
      BY <1>7, <2>1 DEF Unlink
    <3>4. op[s] = "updateMagazine" => tx'[s].add = {}
      BY <1>a, <3>1, <3>2, <3>3 DEF LockedInv
    <3>5. tx'[s].drop = Replaced(s)
      BY <3>1, <3>2
    <3>d. /\ tx'[s].drop \subseteq mine'[s] \X saw'[s]
          /\ \A l \in links' : l[1] \in mine'[s] /\ l[2] \in saw'[s] => l \in tx'[s].drop
      <4>1. links \subseteq Link
        BY <1>a DEF TypeOK
      <4> QED BY <2>1, <3>3, <3>5, <4>1 DEF Replaced, Link
    <3>6. CASE list[s] = {}
      <4>1. pc'[s] = "commit"
        BY <1>a, <2>3, <3>6 DEF Loop, Goto, TypeOK
      <4>2. mine[s] \X {} = {}
        OBVIOUS
      <4>3. op[s] = "updateMagazine" => tx'[s].add = mine'[s] \X list'[s]
        BY <3>3, <3>4, <3>6, <4>2
      <4> QED BY <2>1, <3>d, <4>1, <4>3 DEF ReplaceInv
    <3>7. ASSUME NEW g \in list[s], gun' = [gun EXCEPT ![s] = g],
                 todo' = [todo EXCEPT ![s] = list[s] \ {g}], pc' = [pc EXCEPT ![s] = "insert"]
          PROVE  ReplaceInv(s)'
      <4>1. pc'[s] = "insert" /\ gun'[s] = g /\ todo'[s] = list[s] \ {g}
        BY <1>a, <3>7 DEF TypeOK
      <4>2. list[s] \ ({g} \union (list[s] \ {g})) = {}
        OBVIOUS
      <4>3. mine[s] \X {} = {}
        OBVIOUS
      <4>4. /\ gun'[s] \in list'[s] /\ gun'[s] \notin todo'[s] /\ todo'[s] \subseteq list'[s]
            /\ list'[s] \ ({gun'[s]} \union todo'[s]) = {}
        BY <3>3, <4>1, <4>2
      <4>5. op[s] = "updateMagazine" =>
              tx'[s].add = mine'[s] \X (list'[s] \ ({gun'[s]} \union todo'[s]))
        BY <3>3, <3>4, <4>3, <4>4
      <4> QED BY <2>1, <3>d, <4>1, <4>4, <4>5 DEF ReplaceInv
    <3> QED BY <2>3, <3>6, <3>7 DEF Loop, Goto
  <2> QED BY <1>7, <2>2, <2>3 DEF Unlink
<1>8. ASSUME InsertLinks(s) PROVE ReplaceInv(s)'

  <2>1. /\ op' = op /\ mine' = mine /\ list' = list /\ saw' = saw /\ mags' = mags
        /\ links' = links
    BY <1>8 DEF InsertLinks, Unseen, inputs, tables
  <2>2. CASE EndCall(s)
    <3>1. pc'[s] = "done" /\ tx'[s] = NoTx
      BY <1>a, <2>2 DEF EndCall, Goto, TypeOK
    <3> QED BY <1>8, <1>a, <2>1, <3>1 DEF InsertLinks, NoTx, OwnMagazineInv, LockedInv,
          ReplaceInv, Linking
  <2>3. ASSUME gun[s] \in live,
               tx' = [tx EXCEPT ![s].share = @ \union {gun[s]},
                                ![s].add = @ \union (mine[s] \X {gun[s]})],
               Loop(s, "insert", todo[s], todo[s], "commit")
        PROVE  ReplaceInv(s)'
    <3> DEFINE t == [tx[s] EXCEPT !.share = @ \union {gun[s]},
                                  !.add = @ \union (mine[s] \X {gun[s]})]
    <3>1. /\ t.add = tx[s].add \union (mine[s] \X {gun[s]})
          /\ t.drop = tx[s].drop /\ t.mag = tx[s].mag
      <4>1. tx[s] \in TxType
        BY <1>a DEF TypeOK
      <4> QED BY <4>1 DEF TxType
    <3>2. tx'[s] = t
      BY <1>a, <2>3 DEF TypeOK
    <3> HIDE DEF t
    <3> QED BY <1>8, <1>a, <2>1, <2>3, <3>1, <3>2 DEF InsertLinks, Loop, Goto, TypeOK,
          OwnMagazineInv, LockedInv, ReplaceInv, Linking
  <2> QED BY <1>8, <2>2, <2>3 DEF InsertLinks
<1>9. ASSUME LockFirearm(s) PROVE ReplaceInv(s)'
  BY <1>9, <1>a DEF LockFirearm, Unseen, inputs, Goto, tables, OwnMagazineInv, LockedInv,
     ReplaceInv, TypeOK, Linking, NoTx, TxType
<1>10. ASSUME ReadLinks(s) PROVE ReplaceInv(s)'
  BY <1>10, <1>a DEF ReadLinks, EndCall, Goto, Unseen, inputs, tables, OwnMagazineInv,
     LockedInv, ReplaceInv, TypeOK, Linking, NoTx, TxType
<1>11. ASSUME UpdateFirearm(s) PROVE ReplaceInv(s)'
  BY <1>11, <1>a DEF UpdateFirearm, EndCall, Goto, Unseen, inputs, tables, OwnMagazineInv,
     LockedInv, ReplaceInv, TypeOK, Linking, NoTx, TxType
<1>12. ASSUME Cascade(s) PROVE ReplaceInv(s)'
  BY <1>12, <1>a DEF Cascade, EndCall, Goto, Unseen, inputs, tables, OwnMagazineInv,
     LockedInv, ReplaceInv, TypeOK, Linking, NoTx, TxType
<1>13. ASSUME Commit(s) PROVE ReplaceInv(s)'
  BY <1>13, <1>a DEF Commit, EndCall, Goto, inputs, tables, OwnMagazineInv, LockedInv,
     ReplaceInv, TypeOK, Linking, NoTx, TxType
<1>14. ASSUME TxFails(s) PROVE ReplaceInv(s)'
  BY <1>14, <1>a DEF TxFails, EndCall, Goto, Unseen, inputs, tables, OwnMagazineInv,
     LockedInv, ReplaceInv, TypeOK, Linking, NoTx, TxType
<1>15. ASSUME Share(s) PROVE ReplaceInv(s)'
  BY <1>15, <1>a DEF Share, inputs, tables, OwnMagazineInv, LockedInv, ReplaceInv, TypeOK,
     Linking, NoTx, TxType
<1> QED
  BY <1>1, <1>2, <1>3, <1>4, <1>5, <1>6, <1>7, <1>8, <1>9, <1>10, <1>11, <1>12, <1>13,
     <1>14, <1>15 DEF Moves, Starts, Proceeds

LEMMA MovesKeepExact ==
  ASSUME ExactInv, NEW s \in Session, Moves(s)
  PROVE  ExactInv'
<1>1. Apart(s) /\ TypeOK'
  BY MovesApart, MovesType DEF ExactInv
<1>2. ASSUME NEW r \in Session PROVE (OwnMagazineInv(r) /\ LockedInv(r) /\ ReplaceInv(r))'
  <2>1. CASE r = s
    BY <1>1, <2>1, OwnKeeps, LockedKeeps, ReplaceKeeps
  <2>2. CASE r # s
    BY <1>1, <2>2, OthersOwn, OthersReplace DEF ExactInv
  <2> QED BY <2>1, <2>2
<1> QED BY <1>1, <1>2, MagazinesExclude DEF ExactInv

LEMMA StepKeepsExact == ExactInv /\ [Next]_vars => ExactInv'
<1> SUFFICES ASSUME ExactInv, [Next]_vars PROVE ExactInv'
  OBVIOUS
<1>1. CASE UNCHANGED vars
  <2>1. /\ live' = live /\ fed' = fed /\ mags' = mags /\ links' = links /\ own' = own
        /\ granted' = granted /\ pc' = pc /\ op' = op /\ mine' = mine /\ list' = list
        /\ flag' = flag /\ saw' = saw /\ gun' = gun /\ todo' = todo /\ tx' = tx
    BY <1>1 DEF vars, tables, inputs
  <2> QED BY <2>1 DEF ExactInv, TypeOK, OneCallPerMagazine, OwnMagazineInv, LockedInv,
        ReplaceInv
<1>2. ASSUME NEW s \in Session, Starts(s) \/ Proceeds(s) \/ TxFails(s) \/ Share(s)
      PROVE  ExactInv'
  BY <1>2, MovesKeepExact DEF Moves
<1> QED BY <1>1, <1>2 DEF Next

LEMMA InitHoldsExact == Init => ExactInv
<1> SUFFICES ASSUME Init PROVE ExactInv
  OBVIOUS
<1>1. \A s \in Session : pc[s] = "idle" /\ op[s] = NoOp /\ tx[s] = NoTx
  BY DEF Init
<1>2. TypeOK
  <2>1. Linked \subseteq Link /\ Kept \subseteq Magazines
    BY LinksAssumption DEF LinksAssumption, Link
  <2> QED BY <1>1, <2>1, NoTxType DEF Init, TypeOK, States
<1>3. OneCallPerMagazine
  BY <1>1 DEF NoTx, OneCallPerMagazine
<1>4. \A s \in Session : OwnMagazineInv(s) /\ LockedInv(s) /\ ReplaceInv(s)
  BY <1>1 DEF OwnMagazineInv, LockedInv, ReplaceInv, NoTx, NoOp
<1> QED BY <1>2, <1>3, <1>4 DEF ExactInv

\* An update holds its magazine from before it looks until it commits (updateMagazine:
\* the row FOR UPDATE), and so knows all its links; bulk adds included.
THEOREM ExactInvariant == Spec => []ExactInv
<1>1. ExactInv /\ [Next]_vars => ExactInv'
  BY StepKeepsExact
<1> QED BY <1>1, InitHoldsExact, PTL DEF Spec

LEMMA CommitIsExact ==
  ASSUME ExactInv, NEW s \in Session, op[s] = "updateMagazine", Commit(s),
         NEW m \in mine[s], NEW f \in Firearms
  PROVE  <<m, f>> \in links' <=> IF f \in saw[s] THEN f \in list[s] ELSE <<m, f>> \in links
<1>1. /\ tx[s].drop \subseteq mine[s] \X saw[s] /\ tx[s].add = mine[s] \X list[s]
      /\ \A l \in links : l[1] \in mine[s] /\ l[2] \in saw[s] => l \in tx[s].drop
      /\ list[s] \subseteq saw[s] /\ links' = (links \ tx[s].drop) \union tx[s].add
  BY DEF ExactInv, ReplaceInv, LockedInv, Commit
<1>2. /\ <<m, f>> \in tx[s].add <=> f \in list[s]
      /\ <<m, f>> \in tx[s].drop => f \in saw[s]
      /\ <<m, f>> \in links /\ f \in saw[s] => <<m, f>> \in tx[s].drop
  BY <1>1
<1> QED BY <1>1, <1>2

\* A replacement is exact (replaceCompatibleFirearms, compatibility/relation.ts): what
\* the caller saw becomes the submitted list, what it could not see is left as it is at
\* the commit, whatever other calls, bulk adds and grants come in between.
THEOREM ReplacementIsAlwaysExact == Spec => ReplacementIsExact
<1>1. ExactInv /\ [Next]_vars =>
        [\A s \in Session : op[s] = "updateMagazine" /\ Commit(s) =>
           \A m \in mine[s], f \in Firearms :
             <<m, f>> \in links' <=>
               IF f \in saw[s] THEN f \in list[s] ELSE <<m, f>> \in links]_vars
  BY CommitIsExact
<1> QED BY <1>1, ExactInvariant, PTL DEF Spec, ReplacementIsExact
=============================================================================
