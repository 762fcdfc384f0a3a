------------------------------ MODULE BulkAdd ------------------------------
(***************************************************************************)
(* Adding magazines: one at a time or in a batch that continues a label    *)
(* sequence, once per idempotency key                                      *)
(* (src/domain/bulkadd/service.ts, src/db/idempotency.ts,                  *)
(* src/domain/magazines/service.ts and prefixes.ts, src/auth/authorize.ts).*)
(*                                                                         *)
(* A session makes one call after another.  One action is one statement of *)
(* its transaction under READ COMMITTED, or the COMMIT.  A label is a      *)
(* prefix and a number, its padding left out; the magazines whose label is *)
(* none (typed by hand, or blank) have the prefix None, and their n only   *)
(* tells them apart.  One firearm stands for the compatible ones.          *)
(* Capacities, notes, the Magpul mode, the rate limit and the deletion of  *)
(* magazines are left out.                                                 *)
(***************************************************************************)
EXTENDS Integers, FiniteSets, FiniteSetsExt

CONSTANTS
  Users, Prefixes,
  CreateFor,  \* pairs <<grantee, owner>>: may create on the owner's behalf
  Key,        \* idempotency keys
  Session,    \* requests being served
  User,       \* User[s]: who makes the calls of s
  Role,       \* Role[s]: the operations they may be
  Inputs,     \* what a call may be asked to add, see Input
  Window,     \* IDEMPOTENCY_WINDOW_MS
  MaxTime, MaxCalls, MaxCrashes \* bounds

None == "none"
Operations == {"bulkAddMagazines", "createMagazine", "pruneExpiredIdempotencyKeys"}
Times == 0..MaxTime
Label == [owner : Users, prefix : Prefixes \union {None}, n : Nat]
KeyRow == Users \X Key

\* n is the size of a batch, or the number on the label of a single magazine; sent
\* is the labelPrefix of the call.  It makes the labels of a batch; the label of a
\* single magazine is what its form says, and a caller may send no prefix with it.
Input == [op : {"bulkAddMagazines", "createMagazine"}, key : Key \union {None}, owner : Users,
          prefix : Prefixes \union {None}, sent : Prefixes \union {None},
          n : Nat \ {0}, link : BOOLEAN]

ASSUME BulkAddAssumption ==
  /\ Inputs \subseteq Input
  /\ \A i \in Inputs : IF i.op = "createMagazine" THEN i.key = None ELSE i.sent = i.prefix
  /\ Window \in Nat /\ MaxTime \in Nat
  /\ Role \in [Session -> SUBSET Operations] /\ User \in [Session -> Users]
  /\ CreateFor \subseteq Users \X Users
  /\ None \notin Key \union Prefixes

VARIABLES
  clock,
  mags,     \* labels of the committed magazines
  prefixes, \* committed magazine_label_prefix rows: pairs <<owner, prefix>>
  keys,     \* committed idempotency rows: [expires, result]
  pc, call, \* where each call is, and its input, see NoCall
  tx,       \* what its transaction has written or locked, see NoTx
  calls, crashes, \* counters
  runs, answers,  \* history: see OncePerKey
  used      \* history: the owners and prefixes that committed calls sent

tables == <<mags, prefixes, keys>>
history == <<runs, answers, used>>
vars == <<clock, tables, pc, call, tx, calls, crashes, history>>

NoCall == [op |-> None, key |-> None, owner |-> None, prefix |-> None, sent |-> None,
           n |-> 0, link |-> FALSE, now |-> 0, start |-> 0, there |-> {}]
NoTx == [key |-> FALSE,     \* the idempotency row: inserted, updated or locked
         put |-> {},        \* labels of the inserted magazines
         prefix |-> FALSE,  \* the row of the prefix is inserted
         firearm |-> None]  \* the firearm's row: "share" or "update"

-----------------------------------------------------------------------------
Goto(s, l) == pc' = [pc EXCEPT ![s] = l]
Others(s) == Session \ {s}
Row(s) == <<User[s], call[s].key>>
PrefixRow(s) == <<call[s].owner, call[s].sent>>

\* Mutant: a call that throws leaves its transaction open.
EndHolding(s) == Goto(s, "idle") /\ call' = [call EXCEPT ![s] = NoCall] /\ UNCHANGED tx
\* The call is over and its transaction committed or rolled back.
End(s) ==
  /\ Goto(s, "idle")
  /\ call' = [call EXCEPT ![s] = NoCall] /\ tx' = [tx EXCEPT ![s] = NoTx]

\* Whom the next statement of s waits for.
WaitsFor(s) ==
  CASE pc[s] = "claim" -> {r \in Others(s) : tx[r].key /\ Row(r) = Row(s)}
    [] pc[s] = "recordPrefix" -> {r \in Others(s) : tx[r].prefix /\ PrefixRow(r) = PrefixRow(s)}
    [] pc[s] = "link" -> {r \in Others(s) : tx[r].firearm = "update"}
    [] pc[s] = "lockFirearm" -> {r \in Others(s) : tx[r].firearm # None}
    [] OTHER -> {}

-----------------------------------------------------------------------------
(* A call arrives.                                                         *)

Ask(s, c) ==
  /\ pc[s] = "idle" /\ c.op \in Role[s] /\ calls < MaxCalls
  /\ calls' = calls + 1
  /\ call' = [call EXCEPT ![s] = [c EXCEPT !.now = clock, !.there = mags]]
  /\ Goto(s, IF c.op = "pruneExpiredIdempotencyKeys" THEN "prune"
             ELSE IF c.key = None THEN "resolveCreateOwner" ELSE "claim")
  /\ UNCHANGED <<clock, tables, tx, crashes, history>>

AskAdd(s) ==
  \E i \in Inputs : Ask(s, [NoCall EXCEPT !.op = i.op, !.key = i.key, !.owner = i.owner,
                           !.prefix = i.prefix, !.sent = i.sent, !.n = i.n, !.link = i.link])
AskPrune(s) == Ask(s, [NoCall EXCEPT !.op = "pruneExpiredIdempotencyKeys"])

-----------------------------------------------------------------------------
(* withIdempotency.                                                        *)

Expired(row, now) == row.expires < now

\* INSERT ... ON CONFLICT DO UPDATE ... WHERE expired: waits for whoever is at
\* this key, and locks the row that is there, whether or not it takes it over.
\* Mutant: DO NOTHING, and the row that is there is not locked.
ClaimUnlocked(s) ==
  /\ pc[s] = "claim" /\ WaitsFor(s) = {}
  /\ LET live == Row(s) \in DOMAIN keys /\ ~Expired(keys[Row(s)], call[s].now)
     IN /\ tx' = [tx EXCEPT ![s].key = ~live]
        /\ Goto(s, IF live THEN "replay" ELSE "resolveCreateOwner")
  /\ UNCHANGED <<clock, tables, call, calls, crashes, history>>
Claim(s) ==
  /\ pc[s] = "claim" /\ WaitsFor(s) = {}
  /\ LET live == Row(s) \in DOMAIN keys /\ ~Expired(keys[Row(s)], call[s].now)
     IN Goto(s, IF live THEN "replay" ELSE "resolveCreateOwner")
  /\ tx' = [tx EXCEPT ![s].key = TRUE]
  /\ UNCHANGED <<clock, tables, call, calls, crashes, history>>

Answer(s, a) == answers' = [answers EXCEPT ![Row(s)] = a]

\* The stored result; "undefined" if the row is gone or holds none.
Replay(s) ==
  /\ pc[s] = "replay"
  /\ Answer(s, IF Row(s) \in DOMAIN keys THEN keys[Row(s)].result ELSE {})
  /\ End(s)
  /\ UNCHANGED <<clock, tables, calls, crashes, runs, used>>

\* pruneExpiredIdempotencyKeys; a row somebody is at waits, and is judged anew.
Prune(s) ==
  /\ pc[s] = "prune"
  /\ LET expired == {k \in DOMAIN keys : Expired(keys[k], call[s].now)}
     IN /\ \A k \in expired, r \in Others(s) : ~(tx[r].key /\ Row(r) = k)
        /\ keys' = [k \in DOMAIN keys \ expired |-> keys[k]]
  /\ End(s)
  /\ UNCHANGED <<clock, mags, prefixes, calls, crashes, history>>

-----------------------------------------------------------------------------
(* The transaction of bulkAddMagazines and createMagazine.                 *)

\* The caller, or an owner who lets the caller create; no grant changes here.
ResolveCreateOwner(s) ==
  /\ pc[s] = "resolveCreateOwner"
  /\ IF call[s].owner = User[s] \/ <<User[s], call[s].owner>> \in CreateFor
     THEN Goto(s, IF call[s].op = "createMagazine" THEN "insert" ELSE "nextLabelStart")
          /\ UNCHANGED <<call, tx>>
     ELSE End(s)
  /\ UNCHANGED <<clock, tables, calls, crashes, history>>

Numbers(s) == {m.n : m \in {x \in mags : x.owner = call[s].owner /\ x.prefix = call[s].prefix}}

\* Mutant: the sequence continues past the number of labels.
StartAfterCount(s) == Cardinality(Numbers(s)) + 1
\* nextLabelStart: past the highest label there is.
StartOf(s) == Max(Numbers(s) \union {0}) + 1

\* The labels of the owner are read, and not locked.
NextLabelStart(s) ==
  /\ pc[s] = "nextLabelStart"
  /\ call' = [call EXCEPT ![s].start = StartOf(s)]
  /\ Goto(s, "insert")
  /\ UNCHANGED <<clock, tables, tx, calls, crashes, history>>

\* generateLabels, or the one label of the form.
Labels(s) ==
  {[owner |-> call[s].owner, prefix |-> call[s].prefix, n |-> i] :
     i \in IF call[s].op = "createMagazine" THEN {call[s].n}
           ELSE call[s].start..(call[s].start + call[s].n - 1)}

\* Only a prefix that was sent, and is not blank, is recorded.  A single magazine is
\* linked, under a lock of its firearms, before that; a batch is linked after it.
AfterPrefix(s) == IF call[s].op = "bulkAddMagazines" /\ call[s].link THEN "link" ELSE "commit"
AfterLink(s) == IF call[s].sent = None THEN AfterPrefix(s) ELSE "recordPrefix"

InsertMagazines(s) ==
  /\ pc[s] = "insert"
  /\ tx' = [tx EXCEPT ![s].put = Labels(s)]
  /\ Goto(s, IF call[s].op = "createMagazine" /\ call[s].link THEN "lockFirearm" ELSE AfterLink(s))
  /\ UNCHANGED <<clock, tables, call, calls, crashes, history>>

LockFirearm(s) ==
  /\ pc[s] = "lockFirearm" /\ WaitsFor(s) = {}
  /\ tx' = [tx EXCEPT ![s].firearm = "update"]
  /\ Goto(s, AfterLink(s))
  /\ UNCHANGED <<clock, tables, call, calls, crashes, history>>

\* Mutant: a prefix somebody else is about to record is taken as recorded.
RecordPrefixNoWait(s) ==
  /\ pc[s] = "recordPrefix"
  /\ tx' = [tx EXCEPT ![s].prefix = PrefixRow(s) \notin prefixes /\ WaitsFor(s) = {}]
  /\ Goto(s, AfterPrefix(s))
  /\ UNCHANGED <<clock, tables, call, calls, crashes, history>>
\* ON CONFLICT DO NOTHING: waits for whoever is inserting the same row.
RecordPrefix(s) ==
  /\ pc[s] = "recordPrefix" /\ WaitsFor(s) = {}
  /\ tx' = [tx EXCEPT ![s].prefix = PrefixRow(s) \notin prefixes]
  /\ Goto(s, AfterPrefix(s))
  /\ UNCHANGED <<clock, tables, call, calls, crashes, history>>

\* The foreign keys of the link rows.
LinkBatch(s) ==
  /\ pc[s] = "link" /\ WaitsFor(s) = {}
  /\ tx' = [tx EXCEPT ![s].firearm = "share"]
  /\ Goto(s, "commit")
  /\ UNCHANGED <<clock, tables, call, calls, crashes, history>>

\* The result is kept under the key, and all of it becomes visible.
Commit(s) ==
  /\ pc[s] = "commit"
  /\ mags' = mags \union tx[s].put
  /\ prefixes' = IF tx[s].prefix THEN prefixes \union {PrefixRow(s)} ELSE prefixes
  /\ used' = IF call[s].sent = None THEN used ELSE used \union {PrefixRow(s)}
  /\ IF call[s].key = None THEN UNCHANGED <<keys, runs, answers>>
     ELSE /\ keys' = [k \in DOMAIN keys \union {Row(s)} |->
                        IF k = Row(s) THEN [expires |-> call[s].now + Window, result |-> tx[s].put]
                        ELSE keys[k]]
          /\ runs' = runs \union {[key |-> Row(s), since |-> call[s].now, at |-> clock, made |-> tx[s].put]}
          /\ Answer(s, tx[s].put)
  /\ End(s)
  /\ UNCHANGED <<clock, calls, crashes>>

-----------------------------------------------------------------------------
(* The surroundings.                                                       *)

\* Two calls that wait for each other: the database ends one of them.
Abort(s) ==
  /\ \E r \in WaitsFor(s) : s \in WaitsFor(r)
  /\ End(s)
  /\ UNCHANGED <<clock, tables, calls, crashes, history>>

\* The server stops: open transactions are rolled back.
Crash ==
  /\ crashes < MaxCrashes /\ crashes' = crashes + 1
  /\ pc' = [s \in Session |-> "idle"]
  /\ call' = [s \in Session |-> NoCall] /\ tx' = [s \in Session |-> NoTx]
  /\ UNCHANGED <<clock, tables, calls, history>>

Tick == clock < MaxTime /\ clock' = clock + 1
        /\ UNCHANGED <<tables, pc, call, tx, calls, crashes, history>>

Init ==
  /\ clock = 0
  /\ mags = {} /\ prefixes = {} /\ keys = [k \in {} |-> None]
  /\ pc = [s \in Session |-> "idle"]
  /\ call = [s \in Session |-> NoCall] /\ tx = [s \in Session |-> NoTx]
  /\ calls = 0 /\ crashes = 0
  /\ runs = {} /\ answers = [k \in KeyRow |-> None] /\ used = {}

Steps(s) ==
  \/ Claim(s) \/ Replay(s) \/ Prune(s)
  \/ ResolveCreateOwner(s) \/ NextLabelStart(s) \/ InsertMagazines(s)
  \/ LockFirearm(s) \/ RecordPrefix(s) \/ LinkBatch(s) \/ Commit(s)
  \/ Abort(s)

Next == Crash \/ Tick \/ \E s \in Session : AskAdd(s) \/ AskPrune(s) \/ Steps(s)
Spec == Init /\ [][Next]_vars
\* A call goes on once nobody is in its way, and the database ends one of two
\* calls that wait for each other.
FairSpec == Spec /\ \A s \in Session : WF_vars(Steps(s))

-----------------------------------------------------------------------------
(* Properties.                                                             *)

Places == {"idle", "claim", "replay", "prune", "resolveCreateOwner", "nextLabelStart",
           "insert", "lockFirearm", "recordPrefix", "link", "commit"}
CallType == [op : Operations \union {None}, key : Key \union {None}, owner : Users \union {None},
             prefix : Prefixes \union {None}, sent : Prefixes \union {None},
             n : Nat, link : BOOLEAN, now : Nat, start : Nat, there : SUBSET Label]
TxType == [key : BOOLEAN, put : SUBSET Label, prefix : BOOLEAN, firearm : {None, "share", "update"}]

\* The values each variable ranges over; a call that is over holds nothing.
TypeOK ==
  /\ clock \in Times /\ mags \subseteq Label /\ prefixes \subseteq Users \X Prefixes
  /\ DOMAIN keys \subseteq KeyRow
  /\ \A k \in DOMAIN keys : keys[k].expires \in Nat /\ keys[k].result \subseteq Label
  /\ pc \in [Session -> Places] /\ call \in [Session -> CallType] /\ tx \in [Session -> TxType]
  /\ calls \in Nat /\ crashes \in Nat
  /\ \A r \in runs : r.key \in KeyRow /\ r.since \in Times /\ r.at \in Times /\ r.made \subseteq mags
  /\ answers = [k \in KeyRow |-> answers[k]]
  /\ \A s \in Session : pc[s] = "idle" => tx[s] = NoTx /\ call[s] = NoCall

Commits(s) == pc[s] = "commit" /\ pc'[s] = "idle" /\ crashes' = crashes

Once == INSTANCE OncePerKey WITH Keys <- KeyRow, NoAnswer <- None
\* "Exactly one action ever runs": whatever submissions of a key run together,
\* are retried, fail, come late, are pruned or cut off by a restart, its action
\* takes effect once a window, and every answer is what that run made.
RunsOncePerKey == Once!Spec

\* recordPrefix: the prefix an add was sent with is remembered for the owner it added
\* to, also when the call that was recording it first is rolled back; and no prefix
\* outlives an add that was rolled back (KTD-5).
PrefixesAreRemembered == prefixes = used

\* What every commit leaves.
RowsAreSound == TypeOK /\ PrefixesAreRemembered

\* R55: a batch with a prefix uses no label of a magazine that was there when it was
\* asked for.
LabelsContinue ==
  [][\A s \in Session :
       call[s].op = "bulkAddMagazines" /\ call[s].prefix # None /\ Commits(s)
       => tx[s].put \intersect call[s].there = {}]_vars

\* Every call ends.
CallsEnd == \A s \in Session : (pc[s] # "idle") ~> (pc[s] = "idle")

-----------------------------------------------------------------------------
(* Why they hold: what is true between the statements of the calls.        *)

\* Past the claim of its key; past the INSERT of its magazines.
Running(s) == pc[s] \in {"resolveCreateOwner", "nextLabelStart", "insert", "lockFirearm",
                      "recordPrefix", "link", "commit"}
Wrote(s) == pc[s] \in {"lockFirearm", "recordPrefix", "link", "commit"}

\* What a call has where: the input it came with, its key, its rows.
PlaceInv(s) ==
  /\ pc[s] = "prune" => tx[s] = NoTx
  /\ pc[s] # "idle" => call[s].now <= clock
  /\ pc[s] \notin {"idle", "prune"} =>
       /\ call[s].op \in {"bulkAddMagazines", "createMagazine"}
       /\ call[s].op = "createMagazine" => call[s].key = None
       /\ call[s].owner \in Users /\ call[s].n # 0
  /\ pc[s] \in {"claim", "replay"} => call[s].key \in Key
  /\ pc[s] = "nextLabelStart" => call[s].op = "bulkAddMagazines"
  /\ pc[s] = "recordPrefix" => call[s].sent # None
  /\ ~Wrote(s) => tx[s].put = {}
  /\ Wrote(s) => tx[s].put = Labels(s)
  /\ tx[s].key <=> pc[s] = "replay" \/ (Running(s) /\ call[s].key # None)

\* Whoever replays finds the row; whoever runs is past the windows of the runs before.
ClaimInv(s) ==
  /\ pc[s] = "replay" => Row(s) \in DOMAIN keys
  /\ Running(s) => \A q \in runs : q.key = Row(s) => clock > q.since + Window

\* The magazines a batch must not repeat: those there when it was asked for, and
\* those an earlier run of its key made.
Before(s) == call[s].there \union UNION {q.made : q \in {x \in runs : x.key = Row(s)}}
LabelInv(s) == call[s].op = "bulkAddMagazines" =>
  /\ call[s].there \subseteq mags
  /\ pc[s] = "insert" => \A m \in Before(s) :
       m.owner = call[s].owner /\ m.prefix = call[s].prefix => m.n < call[s].start
  /\ Wrote(s) => tx[s].put \intersect Before(s) = {}

PrefixInv(s) ==
  /\ pc[s] \in {"link", "commit"} /\ call[s].sent # None
     => tx[s].prefix \/ PrefixRow(s) \in prefixes
  /\ tx[s].prefix => pc[s] \in {"link", "commit"} /\ call[s].sent # None

CallInv(s) == PlaceInv(s) /\ ClaimInv(s) /\ LabelInv(s) /\ PrefixInv(s)

\* No two calls are at one idempotency row.
KeysHeldOnce == \A s, r \in Session : s # r /\ tx[s].key /\ tx[r].key => Row(s) # Row(r)

\* A run whose window is open has its row, and a row the answer of the latest run.
RunsAreKept ==
  /\ \A q \in runs : \/ clock > q.since + Window
                     \/ q.key \in DOMAIN keys /\ keys[q.key].expires >= q.since + Window
  /\ \A k \in DOMAIN keys : keys[k].result = answers[k]

\* The inductive invariant.
IInv ==
  /\ TypeOK /\ KeysHeldOnce /\ RunsAreKept /\ PrefixesAreRemembered
  /\ \A s \in Session : CallInv(s)
=============================================================================
