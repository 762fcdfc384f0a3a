---------------------------- MODULE BulkAddProofs ----------------------------
(***************************************************************************)
(* Proofs about BulkAdd, for every set of users, keys, prefixes, requests  *)
(* and inputs, every window and every bound: submissions of one key take   *)
(* effect once a window (BulkAdd implements OncePerKey), a batch never     *)
(* uses a label that was there, and the prefixes sent are remembered.      *)
(*                                                                         *)
(* A step belongs to one call.  What it must keep of the others is stated  *)
(* once (OthersKeep); each action then says what it does for its own call. *)
(***************************************************************************)
EXTENDS BulkAdd, WellFoundedInduction, TLAPS

\* The numbers in use have a highest one.
Bounded == \E b \in Nat : \A m \in mags : m.n <= b

Inv == IInv /\ Bounded

\* Only call s moves.
OthersSame(s) ==
  \A r \in Session \ {s} : pc'[r] = pc[r] /\ call'[r] = call[r] /\ tx'[r] = tx[r]

\* What a step of s may do to what the other calls rely on: magazines and prefixes
\* stay, and a row another call is at is not deleted and gets no new run.
WorldStep(s) ==
  /\ clock' \in Nat /\ clock' >= clock
  /\ mags \subseteq mags' /\ prefixes \subseteq prefixes' /\ runs \subseteq runs'
  /\ \A q \in runs' \ runs : q.key \in KeyRow /\ \A r \in Session \ {s} : tx[r].key => q.key # Row(r)
  /\ \A r \in Session \ {s} : tx[r].key /\ Row(r) \in DOMAIN keys => Row(r) \in DOMAIN keys'

-----------------------------------------------------------------------------
(* Numbers.                                                                *)

\* A bounded set of numbers that is not empty has a highest one, and Max is it.
LEMMA MaxIsHighest ==
  ASSUME NEW S \in SUBSET Nat, S # {}, NEW b \in Nat, \A x \in S : x <= b
  PROVE  Max(S) \in S /\ \A x \in S : x <= Max(S)
<1> DEFINE T == {c \in Nat : \A x \in S : x <= c}
           R == OpToRel(<, Nat)
<1>1. T \subseteq Nat /\ T # {}
  OBVIOUS
<1>2. PICK m \in T : \A c \in T : ~ (<<c, m>> \in R)
  <2> HIDE DEF T
  <2> QED BY <1>1, WFMin, NatLessThanWellFounded, Zenon
<1>3. \A c, d \in Nat : c < d => <<c, d>> \in R
  BY Zenon DEF OpToRel
<1>4. m \in S
  <2> HIDE DEF R
  <2> SUFFICES ASSUME m \notin S PROVE FALSE
    OBVIOUS
  <2>1. m \in Nat /\ \A x \in S : x \in Nat /\ x < m
    OBVIOUS
  <2>2. m - 1 \in Nat
    <3>1. PICK x \in S : TRUE
      OBVIOUS
    <3>2. x \in Nat /\ m \in Nat /\ x < m
      BY <2>1
    <3> QED BY <3>2
  <2>3. m - 1 \in T /\ m - 1 < m
    BY <2>1, <2>2
  <2> QED BY <1>2, <1>3, <2>1, <2>3
<1> QED BY <1>4 DEF Max

-----------------------------------------------------------------------------
(* Calls and the steps that are not theirs.                                *)

LEMMA Fields ==
  ASSUME TypeOK, NEW s \in Session
  PROVE  /\ clock \in Nat /\ MaxTime \in Nat /\ Window \in Nat
         /\ pc[s] \in Places /\ call[s] \in CallType /\ tx[s] \in TxType
         /\ User[s] \in Users
BY BulkAddAssumption DEF BulkAddAssumption, TypeOK, Times

\* A call that is over.
LEMMA OverKeeps ==
  ASSUME NEW s \in Session, pc'[s] = "idle", call'[s] = NoCall, tx'[s] = NoTx
  PROVE  CallInv(s)'
BY DEF CallInv, PlaceInv, ClaimInv, LabelInv, PrefixInv, NoCall, NoTx, Wrote, Running, None

LEMMA OthersKeep ==
  ASSUME IInv, NEW s \in Session, OthersSame(s), WorldStep(s)
  PROVE  \A r \in Session \ {s} : CallInv(r)'
<1> TAKE r \in Session \ {s}
<1>1. pc'[r] = pc[r] /\ call'[r] = call[r] /\ tx'[r] = tx[r]
  BY DEF OthersSame
<1>2. CallInv(r) /\ TypeOK
  BY DEF IInv
<1>3. /\ Row(r)' = Row(r) /\ PrefixRow(r)' = PrefixRow(r) /\ Labels(r)' = Labels(r)
      /\ Running(r)' = Running(r) /\ Wrote(r)' = Wrote(r)
  BY <1>1 DEF Row, PrefixRow, Labels, Running, Wrote
<1>4. PlaceInv(r)'
  BY <1>1, <1>2, <1>3, Fields DEF CallInv, PlaceInv, WorldStep, CallType
<1>5. ASSUME Running(r), NEW q \in runs', q.key = Row(r) PROVE q \in runs
  <2>1. CASE call[r].key # None
    BY <1>2, <1>5, <2>1 DEF WorldStep, CallInv, PlaceInv
  <2>2. CASE call[r].key = None
    <3>1. Row(r) \notin KeyRow
      BY <2>2, BulkAddAssumption DEF BulkAddAssumption, Row, KeyRow
    <3> QED BY <1>5, <3>1 DEF WorldStep
  <2> QED BY <2>1, <2>2
<1>6. ClaimInv(r)'
  <2>1. ASSUME pc[r] = "replay" PROVE Row(r) \in DOMAIN keys'
    BY <1>2, <2>1 DEF CallInv, ClaimInv, PlaceInv, WorldStep
  <2>2. ASSUME Running(r), NEW q \in runs', q.key = Row(r) PROVE clock' > q.since + Window
    <3>1. clock > q.since + Window /\ q.since \in Nat
      BY <1>2, <1>5, <2>2 DEF CallInv, ClaimInv, TypeOK, Times
    <3> QED BY <1>2, <3>1, Fields DEF WorldStep
  <2> QED BY <1>1, <1>3, <2>1, <2>2 DEF ClaimInv
<1>7. ASSUME Running(r) PROVE Before(r)' = Before(r)
  <2>1. {x \in runs' : x.key = Row(r)} = {x \in runs : x.key = Row(r)}
    BY <1>5, <1>7 DEF WorldStep
  <2> QED BY <1>1, <1>3, <2>1 DEF Before
<1>8. LabelInv(r)'
  <2>1. pc[r] = "insert" \/ Wrote(r) => Running(r)
    BY DEF Wrote, Running
  <2> QED BY <1>1, <1>2, <1>3, <1>7, <2>1 DEF CallInv, LabelInv, WorldStep
<1>9. PrefixInv(r)'
  BY <1>1, <1>2, <1>3 DEF CallInv, PrefixInv, WorldStep
<1> QED BY <1>4, <1>6, <1>8, <1>9 DEF CallInv

-----------------------------------------------------------------------------
(* Statements: only the call moves, no table changes.                      *)

\* s goes on to l with the call c and the transaction t.
Moves(s, l, c, t) ==
  /\ pc' = [pc EXCEPT ![s] = l] /\ call' = [call EXCEPT ![s] = c] /\ tx' = [tx EXCEPT ![s] = t]
  /\ UNCHANGED <<clock, mags, prefixes, keys, crashes, runs, answers, used>>

LEMMA MovedFields ==
  ASSUME TypeOK, NEW s \in Session, NEW l, NEW c, NEW t, Moves(s, l, c, t)
  PROVE  /\ pc'[s] = l /\ call'[s] = c /\ tx'[s] = t /\ OthersSame(s)
         /\ clock' = clock /\ mags' = mags /\ prefixes' = prefixes /\ keys' = keys /\ runs' = runs
         /\ used' = used
BY DEF TypeOK, Moves, OthersSame

LEMMA MoveKeeps ==
  ASSUME Inv, NEW s \in Session, NEW l \in Places, NEW c \in CallType, NEW t \in TxType,
         Moves(s, l, c, t), calls' \in Nat, CallInv(s)',
         l = "idle" => t = NoTx /\ c = NoCall,
         t.key => \A r \in Session \ {s} : tx[r].key => <<User[s], c.key>> # Row(r)
  PROVE  Inv'
<1>1. TypeOK /\ IInv
  BY DEF Inv, IInv
<1>2. /\ pc'[s] = l /\ call'[s] = c /\ tx'[s] = t /\ OthersSame(s)
      /\ clock' = clock /\ mags' = mags /\ prefixes' = prefixes /\ keys' = keys /\ runs' = runs
      /\ answers' = answers /\ used' = used
  BY <1>1, MovedFields DEF Moves
<1>3. TypeOK'
  <2>1. /\ pc' \in [Session -> Places] /\ call' \in [Session -> CallType]
        /\ tx' \in [Session -> TxType] /\ crashes' \in Nat
    BY <1>1 DEF TypeOK, Moves
  <2>2. \A r \in Session : pc'[r] = "idle" => tx'[r] = NoTx /\ call'[r] = NoCall
    BY <1>1, <1>2 DEF TypeOK, OthersSame
  <2> QED BY <1>1, <1>2, <2>1, <2>2 DEF TypeOK
<1>4. WorldStep(s)
  BY <1>1, <1>2, Fields DEF WorldStep
<1>5. \A r \in Session : CallInv(r)'
  BY <1>1, <1>2, <1>4, OthersKeep
<1>6. KeysHeldOnce'
  <2>1. Row(s)' = <<User[s], c.key>> /\ \A r \in Session \ {s} : Row(r)' = Row(r)
    BY <1>2 DEF Row, OthersSame
  <2> QED BY <1>1, <1>2, <2>1 DEF IInv, KeysHeldOnce, OthersSame
<1>7. RunsAreKept' /\ PrefixesAreRemembered' /\ Bounded'
  BY <1>1, <1>2 DEF Inv, IInv, RunsAreKept, PrefixesAreRemembered, Bounded
<1> QED BY <1>3, <1>5, <1>6, <1>7 DEF Inv, IInv

\* The call s, as it is while a statement of s runs.
LEMMA Current ==
  ASSUME Inv, NEW s \in Session
  PROVE  /\ TypeOK /\ CallInv(s) /\ PlaceInv(s) /\ ClaimInv(s) /\ LabelInv(s) /\ PrefixInv(s)
         /\ tx[s].key => \A r \in Session \ {s} : tx[r].key => Row(s) # Row(r)
BY DEF Inv, IInv, CallInv, KeysHeldOnce

\* A call that ends changes nothing.
LEMMA EndKeeps ==
  ASSUME Inv, NEW s \in Session, End(s), UNCHANGED <<clock, mags, prefixes, keys, calls, crashes, runs, answers, used>>
  PROVE  Inv'
<1>1. TypeOK /\ Moves(s, "idle", NoCall, NoTx)
  BY DEF End, Goto, Moves, Inv, IInv
<1>2. CallInv(s)'
  BY <1>1, MovedFields, OverKeeps
<1>3. "idle" \in Places /\ NoCall \in CallType /\ NoTx \in TxType /\ ~NoTx.key
  BY DEF Places, NoCall, NoTx, CallType, TxType
<1>4. calls' \in Nat
  BY <1>1 DEF TypeOK
<1> HIDE DEF NoCall, NoTx
<1> QED BY <1>1, <1>2, <1>3, <1>4, MoveKeeps

LEMMA AskKeeps ==
  ASSUME Inv, NEW s \in Session, AskAdd(s) \/ AskPrune(s)
  PROVE  Inv'
<1>1. PICK c \in CallType :
        /\ Ask(s, c)
        /\ \/ /\ c.op = "pruneExpiredIdempotencyKeys"
           \/ /\ c.op \in {"bulkAddMagazines", "createMagazine"}
              /\ c.op = "createMagazine" => c.key = None
              /\ c.owner \in Users /\ c.n # 0
  <2>1. CASE AskAdd(s)
    <3>1. PICK i \in Inputs :
            Ask(s, [NoCall EXCEPT !.op = i.op, !.key = i.key, !.owner = i.owner,
                                 !.prefix = i.prefix, !.sent = i.sent, !.n = i.n, !.link = i.link])
      BY <2>1 DEF AskAdd
    <3>2. i \in Input /\ (i.op = "createMagazine" => i.key = None)
      BY BulkAddAssumption DEF BulkAddAssumption
    <3> DEFINE c == [NoCall EXCEPT !.op = i.op, !.key = i.key, !.owner = i.owner,
                                  !.prefix = i.prefix, !.sent = i.sent, !.n = i.n, !.link = i.link]
    <3>3. /\ c \in CallType /\ c.op = i.op /\ c.key = i.key
          /\ c.owner = i.owner /\ c.n = i.n
      BY <3>2 DEF NoCall, CallType, Input, Operations
    <3>4. /\ c.op \in {"bulkAddMagazines", "createMagazine"}
          /\ c.op = "createMagazine" => c.key = None
          /\ c.owner \in Users /\ c.n # 0
      <4> HIDE DEF c
      <4> QED BY <3>2, <3>3 DEF Input
    <3>5. Ask(s, c)
      BY <3>1
    <3> HIDE DEF c
    <3> QED BY <3>3, <3>4, <3>5
  <2>2. CASE AskPrune(s)
    <3> DEFINE c == [NoCall EXCEPT !.op = "pruneExpiredIdempotencyKeys"]
    <3>1. Ask(s, c)
      BY <2>2 DEF AskPrune
    <3>2. c \in CallType /\ c.op = "pruneExpiredIdempotencyKeys"
      BY DEF NoCall, CallType, Operations
    <3> HIDE DEF c
    <3> QED BY <3>1, <3>2
  <2> QED BY <2>1, <2>2
<1> DEFINE d == [c EXCEPT !.now = clock, !.there = mags]
           l == IF c.op = "pruneExpiredIdempotencyKeys" THEN "prune"
                ELSE IF c.key = None THEN "resolveCreateOwner" ELSE "claim"
<1>2. TypeOK /\ pc[s] = "idle" /\ tx[s] = NoTx
  BY <1>1 DEF Inv, IInv, TypeOK, Ask
<1>3. /\ d \in CallType /\ d.op = c.op /\ d.key = c.key /\ d.owner = c.owner /\ d.prefix = c.prefix
      /\ d.n = c.n /\ d.now = clock /\ d.there = mags
  BY <1>2, Fields DEF TypeOK, CallType
<1>4. /\ l \in Places /\ l # "idle" /\ NoTx \in TxType /\ ~NoTx.key /\ NoTx.put = {}
      /\ ~NoTx.prefix
  BY DEF Places, TxType, NoTx
<1>5. Moves(s, l, d, NoTx)
  <2>1. [tx EXCEPT ![s] = NoTx] = tx
    BY <1>2 DEF TypeOK
  <2> QED BY <1>1, <2>1 DEF Ask, Moves, Goto, tables, history
<1>6. calls' \in Nat
  BY <1>1, <1>2 DEF Ask, TypeOK
<1>7. CallInv(s)'
  <2> HIDE DEF d, l
  <2>1. /\ pc'[s] = l /\ call'[s] = d /\ tx'[s] = NoTx
        /\ clock' = clock /\ mags' = mags /\ prefixes' = prefixes /\ keys' = keys /\ runs' = runs
    BY <1>2, <1>5, MovedFields
  <2>2. l \in {"prune", "resolveCreateOwner", "claim"} /\ ~Wrote(s)'
    BY <2>1 DEF l, Wrote
  <2>3. PlaceInv(s)'
    BY <1>1, <1>2, <1>3, <1>4, <2>1, <2>2, Fields DEF PlaceInv, l, Running, CallType, NoTx
  <2>4. ClaimInv(s)'
    <3>1. ASSUME Running(s)', NEW q \in runs', q.key = Row(s)' PROVE FALSE
      <4>1. Row(s)' = <<User[s], None>>
        BY <1>3, <2>1, <3>1 DEF Row, Running, l
      <4> QED BY <1>2, <2>1, <3>1, <4>1, BulkAddAssumption DEF TypeOK, KeyRow, BulkAddAssumption
    <3> QED BY <2>1, <2>2, <3>1 DEF ClaimInv
  <2>5. LabelInv(s)' /\ PrefixInv(s)'
    BY <1>3, <1>4, <2>1, <2>2 DEF LabelInv, PrefixInv
  <2> QED BY <2>3, <2>4, <2>5 DEF CallInv
<1> HIDE DEF d, l, NoTx
<1> QED BY <1>3, <1>4, <1>5, <1>6, <1>7, MoveKeeps

-----------------------------------------------------------------------------
(* The statements of a call, one after the other.                          *)

\* A statement that changes where a call is and what its transaction holds.
\* What is left to say of it: that its own invariant holds again.
LEMMA StatementKeeps ==
  ASSUME Inv, NEW s \in Session, NEW l \in Places, NEW t \in TxType,
         pc' = [pc EXCEPT ![s] = l], tx' = [tx EXCEPT ![s] = t], l # "idle",
         UNCHANGED <<clock, tables, call, calls, crashes, history>>,
         CallInv(s)',
         t.key => tx[s].key \/ \A r \in Session \ {s} : tx[r].key => Row(s) # Row(r)
  PROVE  Inv'
<1> DEFINE c == call[s]
<1>1. TypeOK /\ c \in CallType /\ calls' \in Nat
  BY DEF Inv, IInv, TypeOK
<1>2. Moves(s, l, c, t)
  <2>1. [call EXCEPT ![s] = call[s]] = call
    BY <1>1 DEF TypeOK
  <2> QED BY <2>1 DEF Moves, tables, history
<1>3. t.key => \A r \in Session \ {s} : tx[r].key => <<User[s], c.key>> # Row(r)
  BY Current DEF Row
<1> HIDE DEF c
<1> QED BY <1>1, <1>2, <1>3, MoveKeeps

\* What the invariant of s is about, after a statement that leaves the call alone.
LEMMA SameCallNext ==
  ASSUME TypeOK, NEW s \in Session, NEW l, NEW t,
         pc' = [pc EXCEPT ![s] = l], tx' = [tx EXCEPT ![s] = t],
         UNCHANGED <<clock, tables, call, calls, crashes, history>>
  PROVE  /\ pc'[s] = l /\ tx'[s] = t /\ call' = call /\ clock' = clock /\ mags' = mags
         /\ prefixes' = prefixes /\ keys' = keys /\ runs' = runs
         /\ Row(s)' = Row(s) /\ PrefixRow(s)' = PrefixRow(s) /\ Labels(s)' = Labels(s)
         /\ Before(s)' = Before(s)
BY DEF TypeOK, tables, history, Row, PrefixRow, Labels, Before

LEMMA ClaimKeeps ==
  ASSUME Inv, NEW s \in Session, Claim(s)
  PROVE  Inv'
<1> DEFINE live == Row(s) \in DOMAIN keys /\ ~Expired(keys[Row(s)], call[s].now)
           l == IF live THEN "replay" ELSE "resolveCreateOwner"
           t == [tx[s] EXCEPT !.key = TRUE]
<1>1. /\ TypeOK /\ PlaceInv(s) /\ LabelInv(s) /\ PrefixInv(s) /\ pc[s] = "claim"
      /\ tx[s] \in TxType /\ call[s] \in CallType /\ clock \in Nat
  BY Current, Fields DEF Claim
<1>2. /\ t \in TxType /\ t.put = tx[s].put /\ t.prefix = tx[s].prefix /\ t.key = TRUE
  BY <1>1 DEF TxType
<1>3. pc' = [pc EXCEPT ![s] = l] /\ tx' = [tx EXCEPT ![s] = t]
  BY DEF Claim, Goto
<1>4. UNCHANGED <<clock, tables, call, calls, crashes, history>>
  BY DEF Claim
<1>5. l \in {"replay", "resolveCreateOwner"} /\ l \in Places
  BY DEF Places
<1>6. \A r \in Session \ {s} : tx[r].key => Row(s) # Row(r)
  BY <1>1 DEF Claim, WaitsFor, Others
<1>7. ASSUME ~live, NEW q \in runs, q.key = Row(s) PROVE clock > q.since + Window
  <2>1. \/ clock > q.since + Window
        \/ q.key \in DOMAIN keys /\ keys[q.key].expires >= q.since + Window
    BY DEF Inv, IInv, RunsAreKept
  <2>2. ASSUME Row(s) \in DOMAIN keys, keys[Row(s)].expires < call[s].now,
               keys[Row(s)].expires >= q.since + Window
        PROVE  clock > q.since + Window
    <3>1. call[s].now <= clock /\ call[s].now \in Nat
      BY <1>1 DEF PlaceInv, CallType
    <3>2. keys[Row(s)].expires \in Nat /\ q.since \in Nat /\ Window \in Nat
      BY <1>1, <2>2, BulkAddAssumption DEF TypeOK, Times, BulkAddAssumption
    <3> QED BY <1>1, <2>2, <3>1, <3>2
  <2> QED BY <1>7, <2>1, <2>2 DEF Expired
<1>8. l = "replay" => Row(s) \in DOMAIN keys
  OBVIOUS
<1>9. ASSUME l # "replay", NEW q \in runs, q.key = Row(s) PROVE clock > q.since + Window
  BY <1>7, <1>9
<1> HIDE DEF live, l, t
<1>10. /\ pc'[s] = l /\ tx'[s] = t /\ call' = call /\ clock' = clock /\ mags' = mags
       /\ prefixes' = prefixes /\ keys' = keys /\ runs' = runs /\ Row(s)' = Row(s)
  BY <1>1, <1>3, <1>4, SameCallNext
<1>11. CallInv(s)'
  <2>1. ~Wrote(s)' /\ ~Wrote(s) /\ (l # "replay" => Running(s)')
    BY <1>1, <1>5, <1>10 DEF Wrote, Running
  <2>2. PlaceInv(s)'
    BY <1>1, <1>2, <1>5, <1>10, <2>1, BulkAddAssumption DEF PlaceInv, BulkAddAssumption
  <2>3. ClaimInv(s)'
    BY <1>5, <1>8, <1>9, <1>10 DEF ClaimInv, Running
  <2>4. LabelInv(s)' /\ PrefixInv(s)'
    BY <1>1, <1>2, <1>5, <1>10, <2>1 DEF LabelInv, PrefixInv
  <2> QED BY <2>2, <2>3, <2>4 DEF CallInv
<1> QED BY <1>2, <1>3, <1>4, <1>5, <1>6, <1>11, StatementKeeps

LEMMA ReplayKeeps ==
  ASSUME Inv, NEW s \in Session, Replay(s)
  PROVE  Inv' /\ runs' = runs /\ answers' = answers
<1>1. /\ TypeOK /\ Row(s) \in DOMAIN keys /\ keys[Row(s)].result = answers[Row(s)]
      /\ answers = [k \in KeyRow |-> answers[k]] /\ Row(s) \in KeyRow
  BY Current DEF Replay, ClaimInv, Inv, IInv, RunsAreKept, TypeOK
<1>2. answers' = answers
  BY <1>1 DEF Replay, Answer
<1>3. runs' = runs /\ used' = used
  BY DEF Replay
<1>4. Inv'
  BY <1>2, <1>3, EndKeeps DEF Replay, tables
<1> QED BY <1>2, <1>3, <1>4

LEMMA ResolveKeeps ==
  ASSUME Inv, NEW s \in Session, ResolveCreateOwner(s)
  PROVE  Inv'
<1>1. CASE End(s)
  BY <1>1, EndKeeps DEF ResolveCreateOwner, tables, history
<1>2. CASE ~End(s)
  <2> DEFINE l == IF call[s].op = "createMagazine" THEN "insert" ELSE "nextLabelStart"
  <2>1. /\ TypeOK /\ PlaceInv(s) /\ ClaimInv(s) /\ LabelInv(s) /\ PrefixInv(s)
        /\ pc[s] = "resolveCreateOwner" /\ tx[s] \in TxType
    BY Current, Fields DEF ResolveCreateOwner
  <2>2. pc' = [pc EXCEPT ![s] = l] /\ UNCHANGED <<clock, tables, call, calls, crashes, history>>
        /\ tx' = [tx EXCEPT ![s] = tx[s]]
    BY <1>2, <2>1 DEF ResolveCreateOwner, Goto, TypeOK
  <2>3. l \in {"insert", "nextLabelStart"} /\ l \in Places
        /\ (l = "insert" => call[s].op = "createMagazine")
        /\ (l # "insert" => call[s].op # "createMagazine")
    BY DEF Places
  <2> HIDE DEF l
  <2>4. /\ pc'[s] = l /\ tx'[s] = tx[s] /\ call' = call /\ clock' = clock /\ mags' = mags
        /\ prefixes' = prefixes /\ keys' = keys /\ runs' = runs /\ Row(s)' = Row(s)
    BY <2>1, <2>2, SameCallNext
  <2>5. CallInv(s)'
    <3>1. ~Wrote(s)' /\ ~Wrote(s) /\ Running(s)' /\ Running(s)
      BY <2>1, <2>3, <2>4 DEF Wrote, Running
    <3>2. PlaceInv(s)'
      BY <2>1, <2>3, <2>4, <3>1 DEF PlaceInv
    <3>3. ClaimInv(s)'
      BY <2>1, <2>3, <2>4, <3>1 DEF ClaimInv
    <3>4. LabelInv(s)' /\ PrefixInv(s)'
      BY <2>1, <2>3, <2>4, <3>1 DEF LabelInv, PrefixInv
    <3> QED BY <3>2, <3>3, <3>4 DEF CallInv
  <2> QED BY <2>1, <2>2, <2>3, <2>5, StatementKeeps
<1> QED BY <1>1, <1>2

\* The highest number there is, and the start of the next batch.
LEMMA StartIsPast ==
  ASSUME Inv, NEW s \in Session
  PROVE  /\ StartOf(s) \in Nat
         /\ \A m \in mags : m.owner = call[s].owner /\ m.prefix = call[s].prefix => m.n < StartOf(s)
<1> DEFINE S == Numbers(s) \union {0}
<1>1. /\ S \in SUBSET Nat /\ S # {}
      /\ \A m \in mags : m.owner = call[s].owner /\ m.prefix = call[s].prefix => m.n \in S
  BY DEF Inv, IInv, TypeOK, Label, Numbers
<1>2. PICK b \in Nat : \A m \in mags : m.n <= b
  BY DEF Inv, Bounded
<1>3. \A x \in S : x <= b
  BY <1>2 DEF Numbers
<1> HIDE DEF S
<1>4. Max(S) \in S /\ \A x \in S : x <= Max(S)
  BY <1>1, <1>2, <1>3, MaxIsHighest
<1> DEFINE h == Max(S)
<1>5. StartOf(s) = h + 1
  BY DEF StartOf, S
<1>6. h \in Nat /\ \A x \in S : x \in Nat /\ x <= h
  BY <1>1, <1>4
<1> HIDE DEF h
<1>7. ASSUME NEW m \in mags, m.owner = call[s].owner, m.prefix = call[s].prefix
      PROVE  m.n < StartOf(s)
  <2>1. m.n \in S
    BY <1>1, <1>7
  <2>2. m.n \in Nat /\ m.n <= h
    BY <1>6, <2>1
  <2> QED BY <1>5, <1>6, <2>2
<1>8. StartOf(s) \in Nat
  BY <1>5, <1>6
<1> QED BY <1>7, <1>8

\* What an earlier run of a key made is among the magazines.
LEMMA BeforeIsThere ==
  ASSUME TypeOK, NEW s \in Session, call[s].there \subseteq mags
  PROVE  Before(s) \subseteq mags
BY DEF Before, TypeOK

LEMMA NextStartKeeps ==
  ASSUME Inv, NEW s \in Session, NextLabelStart(s)
  PROVE  Inv'
<1> DEFINE c == [call[s] EXCEPT !.start = StartOf(s)]
<1>1. /\ TypeOK /\ PlaceInv(s) /\ ClaimInv(s) /\ LabelInv(s) /\ PrefixInv(s)
      /\ pc[s] = "nextLabelStart"
      /\ tx[s] \in TxType /\ call[s] \in CallType /\ call[s].op = "bulkAddMagazines"
  BY Current, Fields DEF NextLabelStart, PlaceInv
<1>2. /\ c \in CallType /\ c.op = call[s].op /\ c.key = call[s].key /\ c.owner = call[s].owner
      /\ c.prefix = call[s].prefix /\ c.n = call[s].n /\ c.now = call[s].now
      /\ c.there = call[s].there /\ c.start = StartOf(s)
  BY <1>1, StartIsPast DEF CallType
<1>3. Moves(s, "insert", c, tx[s])
  <2>1. [tx EXCEPT ![s] = tx[s]] = tx /\ call' = [call EXCEPT ![s] = c]
    BY <1>1 DEF TypeOK, NextLabelStart
  <2> QED BY <2>1 DEF NextLabelStart, Moves, Goto, tables, history
<1>4. "insert" \in Places /\ calls' \in Nat
  BY <1>1 DEF Places, NextLabelStart, TypeOK
<1> HIDE DEF c
<1>5. /\ pc'[s] = "insert" /\ call'[s] = c /\ tx'[s] = tx[s] /\ clock' = clock /\ mags' = mags
      /\ prefixes' = prefixes /\ keys' = keys /\ runs' = runs
  BY <1>1, <1>3, MovedFields
<1>6. Row(s)' = Row(s) /\ Before(s)' = Before(s) /\ Before(s) \subseteq mags
  BY <1>1, <1>2, <1>5, BeforeIsThere DEF Row, Before, LabelInv
<1>7. CallInv(s)'
  <2>1. ~Wrote(s)' /\ ~Wrote(s) /\ Running(s)' /\ Running(s)
    BY <1>1, <1>5 DEF Wrote, Running
  <2>2. PlaceInv(s)'
    BY <1>1, <1>2, <1>5, <2>1 DEF PlaceInv
  <2>3. ClaimInv(s)'
    BY <1>1, <1>5, <1>6, <2>1 DEF ClaimInv
  <2>4. LabelInv(s)' /\ PrefixInv(s)'
    BY <1>1, <1>2, <1>5, <1>6, <2>1, StartIsPast DEF LabelInv, PrefixInv
  <2> QED BY <2>2, <2>3, <2>4 DEF CallInv
<1>8. tx[s].key => \A r \in Session \ {s} : tx[r].key => <<User[s], c.key>> # Row(r)
  BY <1>2, Current DEF Row
<1> QED BY <1>1, <1>2, <1>3, <1>4, <1>7, <1>8, MoveKeeps

\* The labels a call makes are numbers of its prefix, past the start of a batch.
LEMMA LabelsAre ==
  ASSUME Inv, NEW s \in Session, pc[s] = "insert" \/ Wrote(s)
  PROVE  /\ Labels(s) \subseteq Label /\ Labels(s) # {}
         /\ \A m \in Labels(s) : /\ m.owner = call[s].owner /\ m.prefix = call[s].prefix
                                 /\ m.n <= call[s].start + call[s].n
                                 /\ call[s].op = "bulkAddMagazines" => m.n >= call[s].start
<1>1. /\ call[s] \in CallType /\ call[s].owner \in Users
      /\ call[s].prefix \in Prefixes \union {None}
      /\ call[s].n # 0 /\ call[s].op \in {"bulkAddMagazines", "createMagazine"}
  BY Current, Fields DEF PlaceInv, Wrote, CallType
<1>2. call[s].n \in Nat /\ call[s].start \in Nat
  BY <1>1 DEF CallType
<1> DEFINE a == call[s].start
           n == call[s].n
           ow == call[s].owner
           pr == call[s].prefix
           I == IF call[s].op = "createMagazine" THEN {n} ELSE a..(a + n - 1)
<1>3. /\ I \subseteq Nat /\ I # {}
      /\ \A i \in I : i <= a + n /\ (call[s].op = "bulkAddMagazines" => i >= a)
  <2>1. CASE call[s].op = "createMagazine"
    <3>1. I = {n} /\ a \in Nat /\ n \in Nat
      BY <1>2, <2>1
    <3>2. n <= a + n
      BY <3>1
    <3>3. call[s].op # "bulkAddMagazines"
      BY <2>1
    <3> HIDE DEF I, a, n
    <3> QED BY <3>1, <3>2, <3>3
  <2>2. CASE call[s].op # "createMagazine"
    <3>1. I = a..(a + n - 1) /\ a \in Nat /\ n \in Nat /\ n # 0
      BY <1>1, <1>2, <2>2
    <3> HIDE DEF I, a, n
    <3>2. a \in I
      BY <3>1
    <3>3. ASSUME NEW i \in I PROVE i \in Nat /\ i <= a + n /\ i >= a
      BY <3>1
    <3>4. I \subseteq Nat /\ \A i \in I : i <= a + n /\ i >= a
      BY <3>3
    <3> QED BY <3>2, <3>4
  <2> HIDE DEF I, a, n
  <2> QED BY <2>1, <2>2
<1>4. Labels(s) = {[owner |-> ow, prefix |-> pr, n |-> i] : i \in I}
  BY DEF Labels
<1> HIDE DEF I, a, n, ow, pr
<1>5. ow \in Users /\ pr \in Prefixes \union {None}
  BY <1>1 DEF ow, pr
<1>6. /\ Labels(s) \subseteq Label
      /\ \A m \in Labels(s) : m.owner = ow /\ m.prefix = pr /\ m.n \in I
  BY <1>3, <1>4, <1>5 DEF Label
<1>7. Labels(s) # {}
  <2>1. PICK i \in I : TRUE
    BY <1>3
  <2>2. [owner |-> ow, prefix |-> pr, n |-> i] \in Labels(s)
    BY <1>4
  <2> QED BY <2>2
<1> QED BY <1>3, <1>6, <1>7 DEF a, n, ow, pr

LEMMA InsertKeeps ==
  ASSUME Inv, NEW s \in Session, InsertMagazines(s)
  PROVE  Inv'
<1> DEFINE t == [tx[s] EXCEPT !.put = Labels(s)]
           l == IF call[s].op = "createMagazine" /\ call[s].link THEN "lockFirearm"
                ELSE AfterLink(s)
<1>1. /\ TypeOK /\ PlaceInv(s) /\ ClaimInv(s) /\ LabelInv(s) /\ PrefixInv(s)
      /\ pc[s] = "insert" /\ tx[s] \in TxType
  BY Current, Fields DEF InsertMagazines
<1>2. /\ t \in TxType /\ t.put = Labels(s) /\ t.key = tx[s].key /\ t.prefix = tx[s].prefix
  BY <1>1, LabelsAre DEF TxType
<1>3. /\ pc' = [pc EXCEPT ![s] = l] /\ tx' = [tx EXCEPT ![s] = t]
      /\ UNCHANGED <<clock, tables, call, calls, crashes, history>>
  BY DEF InsertMagazines, Goto
<1>4. /\ l \in {"lockFirearm", "recordPrefix", "link", "commit"} /\ l \in Places
      /\ l \in {"link", "commit"} <=> call[s].sent = None /\ l # "lockFirearm"
  BY DEF Places, AfterLink, AfterPrefix
<1> HIDE DEF t, l
<1>5. /\ pc'[s] = l /\ tx'[s] = t /\ call' = call /\ clock' = clock /\ mags' = mags
      /\ prefixes' = prefixes /\ keys' = keys /\ runs' = runs /\ Row(s)' = Row(s)
      /\ Labels(s)' = Labels(s) /\ Before(s)' = Before(s)
  BY <1>1, <1>3, SameCallNext
<1>6. CallInv(s)'
  <2>1. Wrote(s)' /\ Running(s)' /\ Running(s)
    BY <1>1, <1>4, <1>5 DEF Wrote, Running
  <2>2. PlaceInv(s)'
    BY <1>1, <1>2, <1>4, <1>5, <2>1 DEF PlaceInv
  <2>3. ClaimInv(s)'
    BY <1>1, <1>4, <1>5, <2>1 DEF ClaimInv
  <2>4. ASSUME call[s].op = "bulkAddMagazines", NEW m \in Labels(s), m \in Before(s) PROVE FALSE
    <3>1. m.owner = call[s].owner /\ m.prefix = call[s].prefix /\ m.n >= call[s].start
      BY <1>1, <2>4, LabelsAre
    <3>2. m.n < call[s].start
      BY <1>1, <2>4, <3>1 DEF LabelInv
    <3>3. m.n \in Nat /\ call[s].start \in Nat
      BY <1>1, LabelsAre, Fields DEF Label, CallType
    <3> QED BY <3>1, <3>2, <3>3
  <2>5. LabelInv(s)'
    BY <1>1, <1>2, <1>4, <1>5, <2>1, <2>4 DEF LabelInv
  <2>6. PrefixInv(s)'
    BY <1>1, <1>2, <1>4, <1>5 DEF PrefixInv
  <2> QED BY <2>2, <2>3, <2>5, <2>6 DEF CallInv
<1> QED BY <1>1, <1>2, <1>3, <1>4, <1>6, StatementKeeps

\* The statements after the INSERT: they lock a firearm or record the prefix.
LEMMA LaterKeeps ==
  ASSUME Inv, NEW s \in Session, Wrote(s), NEW l \in {"recordPrefix", "link", "commit"},
         NEW t \in TxType, t.put = tx[s].put, t.key = tx[s].key,
         l = "recordPrefix" => call[s].sent # None,
         l \in {"link", "commit"} /\ call[s].sent # None => t.prefix \/ PrefixRow(s) \in prefixes,
         t.prefix => l \in {"link", "commit"} /\ call[s].sent # None,
         pc' = [pc EXCEPT ![s] = l], tx' = [tx EXCEPT ![s] = t],
         UNCHANGED <<clock, tables, call, calls, crashes, history>>
  PROVE  Inv'
<1>1. /\ TypeOK /\ PlaceInv(s) /\ ClaimInv(s) /\ LabelInv(s)
  BY Current
<1>2. /\ pc'[s] = l /\ tx'[s] = t /\ call' = call /\ clock' = clock /\ mags' = mags
      /\ prefixes' = prefixes /\ keys' = keys /\ runs' = runs /\ Row(s)' = Row(s)
      /\ Labels(s)' = Labels(s) /\ Before(s)' = Before(s) /\ PrefixRow(s)' = PrefixRow(s)
  BY <1>1, SameCallNext
<1>3. CallInv(s)'
  <2>1. Wrote(s)' /\ Running(s)' /\ Running(s) /\ pc[s] \notin {"idle", "prune", "claim", "replay"}
        /\ pc[s] # "insert"
    BY <1>2 DEF Wrote, Running
  <2>2. PlaceInv(s)'
    BY <1>1, <1>2, <2>1 DEF PlaceInv
  <2>3. ClaimInv(s)'
    BY <1>1, <1>2, <2>1 DEF ClaimInv
  <2>4. LabelInv(s)'
    BY <1>1, <1>2, <2>1 DEF LabelInv
  <2>5. PrefixInv(s)'
    BY <1>2 DEF PrefixInv
  <2> QED BY <2>2, <2>3, <2>4, <2>5 DEF CallInv
<1>4. l \in Places /\ l # "idle"
  BY DEF Places
<1> QED BY <1>3, <1>4, StatementKeeps

LEMMA LockKeeps ==
  ASSUME Inv, NEW s \in Session, LockFirearm(s)
  PROVE  Inv'
<1> DEFINE t == [tx[s] EXCEPT !.firearm = "update"]
<1>1. Wrote(s) /\ tx[s] \in TxType /\ ~tx[s].prefix
  BY Current, Fields DEF LockFirearm, Wrote, PrefixInv
<1>2. t \in TxType /\ t.put = tx[s].put /\ t.key = tx[s].key /\ ~t.prefix
  BY <1>1 DEF TxType
<1>3. /\ pc' = [pc EXCEPT ![s] = AfterLink(s)] /\ tx' = [tx EXCEPT ![s] = t]
      /\ UNCHANGED <<clock, tables, call, calls, crashes, history>>
  BY DEF LockFirearm, Goto
<1>4. /\ AfterLink(s) \in {"recordPrefix", "link", "commit"}
      /\ AfterLink(s) \in {"link", "commit"} <=> call[s].sent = None
  BY DEF AfterLink, AfterPrefix
<1> HIDE DEF t
<1> QED BY <1>1, <1>2, <1>3, <1>4, LaterKeeps

LEMMA RecordKeeps ==
  ASSUME Inv, NEW s \in Session, RecordPrefix(s)
  PROVE  Inv'
<1> DEFINE new == PrefixRow(s) \notin prefixes
           t == [tx[s] EXCEPT !.prefix = new]
           l == AfterPrefix(s)
<1>1. Wrote(s) /\ tx[s] \in TxType /\ call[s].sent # None
  BY Current, Fields DEF RecordPrefix, Wrote, PlaceInv
<1>2. t \in TxType /\ t.put = tx[s].put /\ t.key = tx[s].key /\ t.prefix = new
  <2> HIDE DEF new
  <2>1. new \in BOOLEAN
    BY DEF new
  <2> QED BY <1>1, <2>1 DEF TxType
<1>3. /\ pc' = [pc EXCEPT ![s] = l] /\ tx' = [tx EXCEPT ![s] = t]
      /\ UNCHANGED <<clock, tables, call, calls, crashes, history>>
  BY DEF RecordPrefix, Goto
<1>4. l \in {"link", "commit"} /\ (t.prefix \/ PrefixRow(s) \in prefixes)
  BY <1>2 DEF AfterPrefix
<1> HIDE DEF t, l
<1> QED BY <1>1, <1>2, <1>3, <1>4, LaterKeeps

LEMMA LinkKeeps ==
  ASSUME Inv, NEW s \in Session, LinkBatch(s)
  PROVE  Inv'
<1> DEFINE t == [tx[s] EXCEPT !.firearm = "share"]
<1>1. /\ Wrote(s) /\ tx[s] \in TxType
      /\ call[s].sent # None => tx[s].prefix \/ PrefixRow(s) \in prefixes
      /\ tx[s].prefix => call[s].sent # None
  BY Current, Fields DEF LinkBatch, Wrote, PrefixInv
<1>2. t \in TxType /\ t.put = tx[s].put /\ t.key = tx[s].key /\ t.prefix = tx[s].prefix
  BY <1>1 DEF TxType
<1>3. /\ pc' = [pc EXCEPT ![s] = "commit"] /\ tx' = [tx EXCEPT ![s] = t]
      /\ UNCHANGED <<clock, tables, call, calls, crashes, history>>
  BY DEF LinkBatch, Goto
<1> HIDE DEF t
<1> QED BY <1>1, <1>2, <1>3, LaterKeeps

-----------------------------------------------------------------------------
(* What changes the tables.                                                *)

\* A row whose window is open, or that another call is at, is not deleted.
LEMMA PruneKeeps ==
  ASSUME Inv, NEW s \in Session, Prune(s)
  PROVE  Inv'
<1> DEFINE gone == {k \in DOMAIN keys : Expired(keys[k], call[s].now)}
<1>1. /\ TypeOK /\ PlaceInv(s) /\ pc[s] = "prune" /\ call[s] \in CallType /\ clock \in Nat
      /\ Window \in Nat
  BY Current, Fields DEF Prune
<1>2. /\ keys' = [k \in DOMAIN keys \ gone |-> keys[k]]
      /\ \A r \in Session \ {s} : tx[r].key => Row(r) \notin gone
      /\ \A k \in gone : k \in DOMAIN keys /\ keys[k].expires < call[s].now
  BY DEF Prune, Others, Expired
<1> HIDE DEF gone
<1>3. /\ pc'[s] = "idle" /\ call'[s] = NoCall /\ tx'[s] = NoTx /\ OthersSame(s)
      /\ pc' = [pc EXCEPT ![s] = "idle"] /\ call' = [call EXCEPT ![s] = NoCall]
      /\ tx' = [tx EXCEPT ![s] = NoTx]
      /\ clock' = clock /\ mags' = mags /\ prefixes' = prefixes /\ runs' = runs
      /\ answers' = answers /\ used' = used /\ calls' = calls /\ crashes' = crashes
  BY <1>1 DEF Prune, End, Goto, OthersSame, history, TypeOK
<1>4. NoCall \in CallType /\ NoTx \in TxType /\ ~NoTx.key /\ "idle" \in Places
  BY DEF NoCall, CallType, NoTx, TxType, Places
<1>5. /\ DOMAIN keys' = DOMAIN keys \ gone /\ \A k \in DOMAIN keys' : keys'[k] = keys[k]
  BY <1>2
<1> HIDE DEF NoCall, NoTx
<1>6. TypeOK'
  <2>1. /\ pc' \in [Session -> Places] /\ call' \in [Session -> CallType]
        /\ tx' \in [Session -> TxType]
    BY <1>1, <1>3, <1>4 DEF TypeOK
  <2>2. \A r \in Session : pc'[r] = "idle" => tx'[r] = NoTx /\ call'[r] = NoCall
    BY <1>1, <1>3 DEF TypeOK, OthersSame
  <2>3. /\ DOMAIN keys' \subseteq KeyRow
        /\ \A k \in DOMAIN keys' : keys'[k].expires \in Nat /\ keys'[k].result \subseteq Label
    BY <1>1, <1>5 DEF TypeOK
  <2> QED BY <1>1, <1>3, <2>1, <2>2, <2>3 DEF TypeOK
<1>7. WorldStep(s)
  BY <1>1, <1>2, <1>3, <1>5 DEF WorldStep
<1>8. \A r \in Session : CallInv(r)'
  BY <1>3, <1>7, OthersKeep, OverKeeps DEF Inv
<1>9. KeysHeldOnce'
  <2>1. \A r \in Session \ {s} : Row(r)' = Row(r)
    BY <1>3 DEF Row, OthersSame
  <2> QED BY <1>3, <1>4, <2>1 DEF Inv, IInv, KeysHeldOnce, OthersSame
<1>10. RunsAreKept'
  <2>1. ASSUME NEW q \in runs
        PROVE  \/ clock > q.since + Window
               \/ q.key \in DOMAIN keys' /\ keys'[q.key].expires >= q.since + Window
    <3>1. \/ clock > q.since + Window
          \/ q.key \in DOMAIN keys /\ keys[q.key].expires >= q.since + Window
      BY DEF Inv, IInv, RunsAreKept
    <3>2. ASSUME q.key \in gone, keys[q.key].expires >= q.since + Window
          PROVE  clock > q.since + Window
      <4>1. call[s].now <= clock /\ call[s].now \in Nat
        BY <1>1 DEF PlaceInv, CallType
      <4>2. keys[q.key].expires \in Nat /\ q.since \in Nat /\ keys[q.key].expires < call[s].now
        BY <1>1, <1>2, <3>2 DEF TypeOK, Times
      <4> QED BY <1>1, <3>2, <4>1, <4>2
    <3> QED BY <1>5, <3>1, <3>2
  <2> QED BY <1>3, <1>5, <2>1 DEF Inv, IInv, RunsAreKept
<1>11. PrefixesAreRemembered' /\ Bounded'
  BY <1>3 DEF Inv, IInv, PrefixesAreRemembered, Bounded
<1> QED BY <1>6, <1>8, <1>9, <1>10, <1>11 DEF Inv, IInv

\* What a commit does to the tables: its row gets the result, the history its run.
NewRun(s) == [key |-> Row(s), since |-> call[s].now, at |-> clock, made |-> tx[s].put]
NewRow(s) == [expires |-> call[s].now + Window, result |-> tx[s].put]

CommitStep(s) ==
  /\ pc[s] = "commit" /\ Wrote(s) /\ Running(s) /\ OthersSame(s)
  /\ pc' = [pc EXCEPT ![s] = "idle"] /\ call' = [call EXCEPT ![s] = NoCall]
  /\ tx' = [tx EXCEPT ![s] = NoTx]
  /\ pc'[s] = "idle" /\ call'[s] = NoCall /\ tx'[s] = NoTx
  /\ clock' = clock /\ calls' = calls /\ crashes' = crashes
  /\ mags' = mags \union Labels(s)
  /\ prefixes \subseteq prefixes'
  /\ call[s].sent = None => prefixes' = prefixes /\ used' = used
  /\ call[s].sent # None => /\ prefixes' = prefixes \union {PrefixRow(s)}
                            /\ used' = used \union {PrefixRow(s)}
  /\ call[s].key = None => keys' = keys /\ runs' = runs /\ answers' = answers
  /\ call[s].key # None =>
       /\ Row(s) \in KeyRow /\ tx[s].key
       /\ DOMAIN keys' = DOMAIN keys \union {Row(s)}
       /\ keys'[Row(s)] = NewRow(s)
       /\ \A k \in DOMAIN keys : k # Row(s) => keys'[k] = keys[k]
       /\ runs' = runs \union {NewRun(s)}
       /\ answers' = [answers EXCEPT ![Row(s)] = tx[s].put]

LEMMA CommitEffects ==
  ASSUME Inv, NEW s \in Session, Commit(s)
  PROVE  CommitStep(s)
<1>1. /\ TypeOK /\ PlaceInv(s) /\ PrefixInv(s) /\ pc[s] = "commit" /\ tx[s].put = Labels(s)
      /\ Wrote(s) /\ Running(s)
  BY Current DEF Commit, PlaceInv, Wrote, Running
<1>2. /\ OthersSame(s) /\ pc'[s] = "idle" /\ call'[s] = NoCall /\ tx'[s] = NoTx
      /\ pc' = [pc EXCEPT ![s] = "idle"] /\ call' = [call EXCEPT ![s] = NoCall]
      /\ tx' = [tx EXCEPT ![s] = NoTx]
      /\ clock' = clock /\ calls' = calls /\ crashes' = crashes
  BY <1>1 DEF Commit, End, Goto, OthersSame, TypeOK
<1>3. /\ mags' = mags \union Labels(s)
      /\ prefixes \subseteq prefixes'
      /\ call[s].sent = None => prefixes' = prefixes /\ used' = used
      /\ call[s].sent # None => /\ prefixes' = prefixes \union {PrefixRow(s)}
                                /\ used' = used \union {PrefixRow(s)}
  BY <1>1 DEF Commit, PrefixInv
<1>4. ASSUME call[s].key = None PROVE keys' = keys /\ runs' = runs /\ answers' = answers
  BY <1>4 DEF Commit
<1>5. ASSUME call[s].key # None
      PROVE  /\ Row(s) \in KeyRow /\ tx[s].key
             /\ DOMAIN keys' = DOMAIN keys \union {Row(s)}
             /\ keys'[Row(s)] = NewRow(s)
             /\ \A k \in DOMAIN keys : k # Row(s) => keys'[k] = keys[k]
             /\ runs' = runs \union {NewRun(s)}
             /\ answers' = [answers EXCEPT ![Row(s)] = tx[s].put]
  <2>1. Row(s) \in KeyRow /\ tx[s].key
    BY <1>1, <1>5, Fields DEF PlaceInv, CallType, Row, KeyRow
  <2>2. keys' = [k \in DOMAIN keys \union {Row(s)} |-> IF k = Row(s) THEN NewRow(s) ELSE keys[k]]
    BY <1>5 DEF Commit, NewRow
  <2>3. runs' = runs \union {NewRun(s)} /\ answers' = [answers EXCEPT ![Row(s)] = tx[s].put]
    BY <1>5 DEF Commit, NewRun, Answer
  <2> HIDE DEF NewRow, NewRun
  <2> QED BY <2>1, <2>2, <2>3
<1> QED BY <1>1, <1>2, <1>3, <1>4, <1>5 DEF CommitStep

LEMMA CommitKeeps ==
  ASSUME Inv, NEW s \in Session, Commit(s)
  PROVE  Inv'
<1>0. CommitStep(s)
  BY CommitEffects
<1>1. /\ TypeOK /\ PlaceInv(s) /\ ClaimInv(s) /\ call[s] \in CallType /\ tx[s] \in TxType
      /\ tx[s].put = Labels(s) /\ clock \in Nat /\ Window \in Nat /\ MaxTime \in Nat
      /\ call[s].now \in Nat /\ call[s].now <= clock
      /\ call[s].owner \in Users /\ call[s].sent \in Prefixes \union {None}
      /\ \A r \in Session \ {s} : tx[s].key /\ tx[r].key => Row(s) # Row(r)
  BY <1>0, Current, Fields DEF PlaceInv, CallType, CommitStep
<1>2. /\ NewRun(s).key = Row(s) /\ NewRun(s).since = call[s].now /\ NewRun(s).at = clock
      /\ NewRun(s).made = Labels(s)
      /\ NewRow(s).expires = call[s].now + Window /\ NewRow(s).result = Labels(s)
  BY <1>1 DEF NewRun, NewRow
<1>3. Labels(s) \subseteq Label
  BY <1>0, LabelsAre DEF CommitStep
<1>4. NoCall \in CallType /\ NoTx \in TxType /\ ~NoTx.key /\ "idle" \in Places
  BY DEF NoCall, CallType, NoTx, TxType, Places
<1>5. clock \in Times /\ call[s].now \in Times
  BY <1>1 DEF TypeOK, Times
<1>6. TypeOK'
  <2>1. /\ pc' \in [Session -> Places] /\ call' \in [Session -> CallType]
        /\ tx' \in [Session -> TxType]
    <3> HIDE DEF NoCall, NoTx
    <3> QED BY <1>0, <1>1, <1>4 DEF TypeOK, CommitStep
  <2>2. \A r \in Session : pc'[r] = "idle" => tx'[r] = NoTx /\ call'[r] = NoCall
    BY <1>0, <1>1 DEF TypeOK, OthersSame, CommitStep
  <2>3. mags' \subseteq Label /\ prefixes' \subseteq Users \X Prefixes
    BY <1>0, <1>1, <1>3 DEF TypeOK, PrefixRow, CommitStep
  <2>4. /\ DOMAIN keys' \subseteq KeyRow
        /\ \A k \in DOMAIN keys' : keys'[k].expires \in Nat /\ keys'[k].result \subseteq Label
        /\ \A r \in runs' : r.key \in KeyRow /\ r.since \in Times /\ r.at \in Times /\ r.made \subseteq mags'
        /\ answers' = [k \in KeyRow |-> answers'[k]]
    <3>1. CASE call[s].key = None
      BY <1>0, <1>1, <3>1 DEF TypeOK, CommitStep
    <3>2. CASE call[s].key # None
      <4>1. /\ DOMAIN keys' \subseteq KeyRow
            /\ \A k \in DOMAIN keys' : keys'[k].expires \in Nat /\ keys'[k].result \subseteq Label
        BY <1>0, <1>1, <1>2, <1>3, <3>2 DEF TypeOK, CommitStep
      <4>2. \A r \in runs' : r.key \in KeyRow /\ r.since \in Times /\ r.at \in Times /\ r.made \subseteq mags'
        BY <1>0, <1>1, <1>2, <1>5, <3>2 DEF TypeOK, CommitStep
      <4>3. answers' = [k \in KeyRow |-> answers'[k]]
        BY <1>0, <1>1, <3>2 DEF TypeOK, CommitStep
      <4> QED BY <4>1, <4>2, <4>3
    <3> QED BY <3>1, <3>2
  <2> QED BY <1>0, <1>1, <2>1, <2>2, <2>3, <2>4 DEF TypeOK, CommitStep
<1>7. WorldStep(s)
  BY <1>0, <1>1, <1>2 DEF WorldStep, CommitStep
<1>8. \A r \in Session : CallInv(r)'
  BY <1>0, <1>7, OthersKeep, OverKeeps DEF Inv, CommitStep
<1>9. KeysHeldOnce'
  <2>1. \A r \in Session \ {s} : Row(r)' = Row(r)
    BY <1>0, CommitEffects DEF Row, OthersSame, CommitStep
  <2>2. ~tx'[s].key
    BY <1>0, <1>4 DEF CommitStep
  <2> QED BY <1>0, <2>1, <2>2 DEF Inv, IInv, KeysHeldOnce, OthersSame, CommitStep
<1>10. RunsAreKept'
  <2>1. RunsAreKept /\ Running(s)
    BY <1>0, CommitEffects DEF Inv, IInv, CommitStep
  <2>2. CASE call[s].key = None
    BY <1>0, <2>1, <2>2 DEF RunsAreKept, CommitStep
  <2>3. CASE call[s].key # None
    <3>1. ASSUME NEW q \in runs'
          PROVE  \/ clock > q.since + Window
                 \/ q.key \in DOMAIN keys' /\ keys'[q.key].expires >= q.since + Window
      <4>1. CASE q \in runs /\ q.key = Row(s)
        BY <1>1, <2>1, <4>1 DEF ClaimInv
      <4>2. CASE q \in runs /\ q.key # Row(s)
        BY <1>0, <2>1, <2>3, <4>2 DEF RunsAreKept, CommitStep
      <4>3. CASE q = NewRun(s)
        BY <1>0, <1>1, <1>2, <2>3, <4>3 DEF CommitStep
      <4> QED BY <1>0, <2>3, <4>1, <4>2, <4>3 DEF CommitStep
    <3>2. ASSUME NEW k \in DOMAIN keys' PROVE keys'[k].result = answers'[k]
      <4>1. k \in KeyRow /\ DOMAIN answers = KeyRow
        BY <1>1, <1>6 DEF TypeOK
      <4>2. CASE k = Row(s)
        BY <1>0, <1>1, <1>2, <2>3, <4>1, <4>2 DEF CommitStep
      <4>3. CASE k # Row(s)
        BY <1>0, <2>1, <2>3, <4>1, <4>3 DEF RunsAreKept, CommitStep
      <4> QED BY <4>2, <4>3
    <3> QED BY <1>0, <3>1, <3>2 DEF RunsAreKept, CommitStep
  <2> QED BY <2>2, <2>3
<1>11. PrefixesAreRemembered'
  BY <1>0 DEF Inv, IInv, PrefixesAreRemembered, CommitStep
<1>12. Bounded'
  <2>1. PICK b \in Nat : \A m \in mags : m.n <= b
    BY DEF Inv, Bounded
  <2> DEFINE d == call[s].start + call[s].n
  <2>2. d \in Nat /\ \A m \in Labels(s) : m.n <= d
    BY <1>0, <1>1, LabelsAre DEF CallType, CommitStep
  <2> HIDE DEF d
  <2>3. b + d \in Nat
    BY <2>1, <2>2
  <2>4. ASSUME NEW m \in mags' PROVE m.n <= b + d
    <3>1. m \in mags \/ m \in Labels(s)
      BY <1>0 DEF CommitStep
    <3>2. m.n \in Nat
      BY <1>6 DEF TypeOK, Label
    <3> QED BY <2>1, <2>2, <3>1, <3>2
  <2> QED BY <2>3, <2>4 DEF Bounded
<1> QED BY <1>6, <1>8, <1>9, <1>10, <1>11, <1>12 DEF Inv, IInv

-----------------------------------------------------------------------------
(* Every step.                                                             *)

LEMMA InitHolds == Init => Inv
<1> SUFFICES ASSUME Init PROVE Inv
  OBVIOUS
<1>1. NoCall \in CallType /\ NoTx \in TxType /\ ~NoTx.key /\ "idle" \in Places
  BY DEF NoCall, CallType, NoTx, TxType, Places
<1>2. TypeOK
  <2>1. 0 \in Times
    BY BulkAddAssumption DEF BulkAddAssumption, Times
  <2> HIDE DEF NoCall, NoTx
  <2> QED BY <1>1, <2>1 DEF Init, TypeOK
<1>3. \A s \in Session : CallInv(s)
  BY DEF Init, CallInv, PlaceInv, ClaimInv, LabelInv, PrefixInv, NoCall, NoTx, Wrote, Running, None
<1>4. KeysHeldOnce /\ RunsAreKept /\ PrefixesAreRemembered
  BY <1>1 DEF Init, KeysHeldOnce, RunsAreKept, PrefixesAreRemembered
<1>5. Bounded
  BY DEF Init, Bounded
<1> QED BY <1>2, <1>3, <1>4, <1>5 DEF Inv, IInv

LEMMA CrashKeeps ==
  ASSUME Inv, Crash
  PROVE  Inv'
<1>1. NoCall \in CallType /\ NoTx \in TxType /\ ~NoTx.key /\ "idle" \in Places
  BY DEF NoCall, CallType, NoTx, TxType, Places
<1>2. /\ \A s \in Session : pc'[s] = "idle" /\ call'[s] = NoCall /\ tx'[s] = NoTx
      /\ UNCHANGED <<clock, mags, prefixes, keys, runs, answers, used, calls>>
  BY DEF Crash, tables, history
<1>3. TypeOK /\ RunsAreKept /\ PrefixesAreRemembered /\ Bounded
  BY DEF Inv, IInv
<1>4. TypeOK'
  <2> HIDE DEF NoCall, NoTx
  <2>1. /\ pc' \in [Session -> Places] /\ call' \in [Session -> CallType]
        /\ tx' \in [Session -> TxType] /\ crashes' \in Nat
    BY <1>1, <1>3 DEF Crash, TypeOK
  <2> QED BY <1>2, <1>3, <2>1 DEF TypeOK
<1>5. \A s \in Session : CallInv(s)'
  BY <1>2, OverKeeps
<1>6. KeysHeldOnce' /\ RunsAreKept' /\ PrefixesAreRemembered' /\ Bounded'
  BY <1>1, <1>2, <1>3 DEF KeysHeldOnce, RunsAreKept, PrefixesAreRemembered, Bounded
<1> QED BY <1>4, <1>5, <1>6 DEF Inv, IInv

LEMMA TickKeeps ==
  ASSUME Inv, Tick
  PROVE  Inv'
<1>1. /\ UNCHANGED <<mags, prefixes, keys, pc, call, tx, calls, crashes, runs, answers, used>>
      /\ clock' = clock + 1 /\ clock < MaxTime
  BY DEF Tick, tables, history
<1>2. /\ TypeOK /\ KeysHeldOnce /\ RunsAreKept /\ PrefixesAreRemembered /\ Bounded
      /\ \A s \in Session : CallInv(s)
  BY DEF Inv, IInv
<1>3. clock \in Nat /\ MaxTime \in Nat /\ Window \in Nat
  BY <1>2, BulkAddAssumption DEF TypeOK, Times, BulkAddAssumption
<1>4. \A q \in runs : q.since \in Nat /\ (clock > q.since + Window => clock' > q.since + Window)
  BY <1>1, <1>2, <1>3 DEF TypeOK, Times
<1>5. TypeOK'
  BY <1>1, <1>2, <1>3 DEF TypeOK, Times
<1>6. ASSUME NEW s \in Session PROVE CallInv(s)'
  <2>1. CallInv(s) /\ call[s] \in CallType
    BY <1>2, Fields
  <2>2. /\ Row(s)' = Row(s) /\ PrefixRow(s)' = PrefixRow(s) /\ Labels(s)' = Labels(s)
        /\ Running(s)' = Running(s) /\ Wrote(s)' = Wrote(s) /\ Before(s)' = Before(s)
    BY <1>1 DEF Row, PrefixRow, Labels, Running, Wrote, Before
  <2>3. call[s].now \in Nat /\ (call[s].now <= clock => call[s].now <= clock')
    BY <1>1, <1>3, <2>1 DEF CallType
  <2>4. PlaceInv(s)'
    BY <1>1, <2>1, <2>2, <2>3 DEF CallInv, PlaceInv
  <2>5. ClaimInv(s)'
    BY <1>1, <1>4, <2>1, <2>2 DEF CallInv, ClaimInv
  <2>6. LabelInv(s)' /\ PrefixInv(s)'
    BY <1>1, <2>1, <2>2 DEF CallInv, LabelInv, PrefixInv
  <2> QED BY <2>4, <2>5, <2>6 DEF CallInv
<1>7. RunsAreKept'
  BY <1>1, <1>2, <1>4 DEF RunsAreKept
<1>8. KeysHeldOnce' /\ PrefixesAreRemembered' /\ Bounded'
  BY <1>1, <1>2 DEF KeysHeldOnce, Row, PrefixesAreRemembered, Bounded
<1> QED BY <1>5, <1>6, <1>7, <1>8 DEF Inv, IInv

LEMMA AbortKeeps ==
  ASSUME Inv, NEW s \in Session, Abort(s)
  PROVE  Inv'
BY EndKeeps DEF Abort, tables, history

LEMMA StepKeeps == Inv /\ [Next]_vars => Inv'
<1> SUFFICES ASSUME Inv, [Next]_vars PROVE Inv'
  OBVIOUS
<1>1. ASSUME NEW s \in Session, AskAdd(s) \/ AskPrune(s) PROVE Inv'
  BY <1>1, AskKeeps
<1>2. ASSUME NEW s \in Session, Steps(s) PROVE Inv'
  BY <1>2, ClaimKeeps, ReplayKeeps, PruneKeeps, ResolveKeeps, NextStartKeeps, InsertKeeps,
     LockKeeps, RecordKeeps, LinkKeeps, CommitKeeps, AbortKeeps DEF Steps
<1>3. ASSUME UNCHANGED vars PROVE Inv'
  <2>1. UNCHANGED <<clock, mags, prefixes, keys, pc, call, tx, calls, crashes, runs, answers, used>>
    BY <1>3 DEF vars, tables, history
  <2>2. ASSUME NEW s \in Session
        PROVE  /\ Row(s)' = Row(s) /\ PrefixRow(s)' = PrefixRow(s) /\ Labels(s)' = Labels(s)
               /\ Running(s)' = Running(s) /\ Wrote(s)' = Wrote(s) /\ Before(s)' = Before(s)
    BY <2>1 DEF Row, PrefixRow, Labels, Running, Wrote, Before
  <2>3. ASSUME NEW s \in Session PROVE CallInv(s)'
    BY <2>1, <2>2 DEF Inv, IInv, CallInv, PlaceInv, ClaimInv, LabelInv, PrefixInv
  <2>4. TypeOK'
    BY <2>1 DEF Inv, IInv, TypeOK
  <2>5. KeysHeldOnce' /\ RunsAreKept' /\ PrefixesAreRemembered' /\ Bounded'
    BY <2>1, <2>2 DEF Inv, IInv, KeysHeldOnce, RunsAreKept, PrefixesAreRemembered, Bounded
  <2> QED BY <2>3, <2>4, <2>5 DEF Inv, IInv
<1> QED BY <1>1, <1>2, <1>3, CrashKeeps, TickKeeps DEF Next

\* A commit under a key is a run of OncePerKey: the windows of the runs before are
\* over, and it is none of them, for it makes magazines that were not there.
LEMMA CommitIsARun ==
  ASSUME Inv, NEW s \in Session, Commit(s), call[s].key # None
  PROVE  Once!Runs
<1>1. CommitStep(s)
  BY CommitEffects
<1>2. /\ TypeOK /\ PlaceInv(s) /\ ClaimInv(s) /\ LabelInv(s)
      /\ tx[s].put = Labels(s) /\ call[s].op = "bulkAddMagazines"
  BY <1>1, Current DEF PlaceInv, CommitStep
<1>3. /\ NewRun(s).key = Row(s) /\ NewRun(s).since = call[s].now /\ NewRun(s).at = clock
      /\ NewRun(s).made = tx[s].put
  BY DEF NewRun
<1>4. NewRun(s) \notin runs
  <2> SUFFICES ASSUME NewRun(s) \in runs PROVE FALSE
    OBVIOUS
  <2>1. NewRun(s) \in {x \in runs : x.key = Row(s)}
    BY <1>3
  <2>2. tx[s].put \subseteq Before(s)
    BY <1>3, <2>1 DEF Before
  <2>3. tx[s].put \intersect Before(s) = {}
    BY <1>1, <1>2 DEF LabelInv, CommitStep
  <2>4. tx[s].put # {}
    BY <1>1, <1>2, LabelsAre DEF CommitStep
  <2> QED BY <2>2, <2>3, <2>4
<1>5. runs' = runs \union {NewRun(s)} /\ answers' = [answers EXCEPT ![Row(s)] = tx[s].put]
  BY <1>1 DEF CommitStep
<1>6. \A q \in runs : q.key = Row(s) => clock > q.since + Window
  BY <1>1, <1>2 DEF ClaimInv, CommitStep
<1> HIDE DEF NewRun
<1> QED BY <1>3, <1>4, <1>5, <1>6 DEF Once!Runs

LEMMA StepImplements == Inv /\ [Next]_vars => [Once!Next]_<<runs, answers>>
<1> SUFFICES ASSUME Inv, [Next]_vars PROVE Once!Runs \/ (runs' = runs /\ answers' = answers)
  BY DEF Once!Next
<1>1. ASSUME NEW s \in Session, Commit(s) PROVE Once!Runs \/ (runs' = runs /\ answers' = answers)
  <2>1. CASE call[s].key = None
    BY <1>1, <2>1 DEF Commit
  <2> QED BY <1>1, <2>1, CommitIsARun
<1>2. ASSUME NEW s \in Session, Replay(s) PROVE runs' = runs /\ answers' = answers
  BY <1>2, ReplayKeeps
<1>3. ASSUME NEW s \in Session, AskAdd(s) \/ AskPrune(s) PROVE runs' = runs /\ answers' = answers
  BY <1>3 DEF AskAdd, AskPrune, Ask, history
<1>4. ASSUME NEW s \in Session, Steps(s), ~Commit(s), ~Replay(s)
      PROVE  runs' = runs /\ answers' = answers
  BY <1>4 DEF Steps, Claim, Prune, ResolveCreateOwner, NextLabelStart, InsertMagazines,
     LockFirearm, RecordPrefix, LinkBatch, Abort, history
<1>5. ASSUME Crash \/ Tick \/ UNCHANGED vars PROVE runs' = runs /\ answers' = answers
  BY <1>5 DEF Crash, Tick, vars, history
<1> QED BY <1>1, <1>2, <1>3, <1>4, <1>5 DEF Next

-----------------------------------------------------------------------------
(* The theorems.                                                           *)

\* Between any two statements of any calls the inductive invariant holds.
THEOREM BulkAddInvariant == Spec => []IInv
<1>1. Inv => IInv
  BY DEF Inv
<1> QED BY <1>1, InitHolds, StepKeeps, PTL DEF Spec

\* Whatever calls commit, fail or are cut off, the stored labels, prefixes and keys
\* are well-formed, and an owner's remembered prefixes are those that committed adds to
\* him were sent with: none is lost with the call that was recording it, none is left.
THEOREM RowsAreAlwaysSound == Spec => []RowsAreSound
<1>1. IInv => RowsAreSound
  BY DEF IInv, RowsAreSound
<1> QED BY <1>1, BulkAddInvariant, PTL

\* withIdempotency keeps its promise: under one key the action takes effect at most
\* once a window, and every answer is what its latest run made.
THEOREM RunsAlwaysOncePerKey == Spec => RunsOncePerKey
<1>1. Init => Once!Init
  BY DEF Init, Once!Init
<1> QED BY <1>1, InitHolds, StepKeeps, StepImplements, PTL DEF Spec, RunsOncePerKey, Once!Spec

\* A batch with a prefix commits no label of a magazine that was there when it was
\* asked for.
THEOREM LabelsAlwaysContinue == Spec => LabelsContinue
<1> DEFINE New == \A s \in Session :
                    call[s].op = "bulkAddMagazines" /\ call[s].prefix # None /\ Commits(s)
                    => tx[s].put \intersect call[s].there = {}
<1>1. Inv /\ [Next]_vars => [New]_vars
  <2> SUFFICES ASSUME Inv, NEW s \in Session, call[s].op = "bulkAddMagazines", Commits(s)
               PROVE  tx[s].put \intersect call[s].there = {}
    OBVIOUS
  <2>1. Wrote(s) /\ LabelInv(s)
    BY Current DEF Commits, Wrote
  <2> QED BY <2>1 DEF LabelInv, Before
<1>2. LabelsContinue <=> [][New]_vars
  BY DEF LabelsContinue
<1> QED BY <1>1, <1>2, InitHolds, StepKeeps, PTL DEF Spec

=============================================================================
