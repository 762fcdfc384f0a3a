--------------------------- MODULE ServiceHistory ---------------------------
(***************************************************************************)
(* Service rules and the service history kept under their names            *)
(* (src/domain/service-intervals/rules-service.ts, events-service.ts and   *)
(* the actions of app/(app)/firearms/service-actions.ts).                  *)
(*                                                                         *)
(* A default rule belongs to a shelf: an owner's items of one family and   *)
(* category.  An item rule overrides or hides the default of its name, or  *)
(* stands alone.  An event belongs to an item and names a rule; nothing    *)
(* but the name ties them, so a rename must move rules and events along.   *)
(*                                                                         *)
(* A session is one call.  One action is one statement of its transaction  *)
(* under READ COMMITTED, one row of an UPDATE that meets many, or the      *)
(* COMMIT.  tx[s] holds what the call has locked and written; everyone     *)
(* else reads what is committed.  Items keep their owner and category      *)
(* here; thresholds, dates other than "corrected or not", and notes are    *)
(* left out.                                                               *)
(***************************************************************************)
EXTENDS Naturals, FiniteSets

CONSTANTS
  Defaults, Rules, Events, \* row ids
  ServicedItems, Shelves, RuleNames,
  ShelfOf,   \* ShelfOf[i]: the shelf of item i
  Owner,     \* Owner[x]: who owns item or shelf x
  Editors,   \* Editors[i]: to whom item i is shared to edit (firearms only)
  Stored,    \* the tables there may be at first
  Session,   \* calls
  User,      \* User[s]: who makes call s
  Role       \* Role[s]: the operations call s may be

Operations == {"createServiceRuleDefault", "updateServiceRuleDefault", "deleteServiceRuleDefault",
               "createItemRule", "updateItemRule", "deleteItemRule", "overrideServiceRuleAction",
               "deleteItemRuleByName", "logServiceEventsBulk", "updateServiceEvent",
               "deleteServiceEvent"}
Id == Defaults \union Rules \union Events
DefaultRow == [of : Shelves, name : RuleNames]
RuleRow == [of : ServicedItems, name : RuleNames, hides : BOOLEAN]
EventRow == [of : ServicedItems, name : RuleNames, fixed : BOOLEAN]

\* A table is a function from the ids that exist to their rows.
IsTables(t) ==
  /\ DOMAIN t \subseteq Id /\ t = [x \in DOMAIN t |-> t[x]]
  /\ \A x \in DOMAIN t : /\ x \in Defaults => t[x] \in DefaultRow
                         /\ x \in Rules => t[x] \in RuleRow
                         /\ x \in Events => t[x] \in EventRow

\* The unique indexes: one default of a name per shelf, one rule per item.
UniqueNames(t) ==
  \A K \in {Defaults, Rules} : \A x, y \in K \intersect DOMAIN t :
    t[x].of = t[y].of /\ t[x].name = t[y].name => x = y

ASSUME ServiceAssumption ==
  /\ Defaults \intersect Rules = {} /\ Defaults \intersect Events = {}
  /\ Rules \intersect Events = {}
  /\ ShelfOf \in [ServicedItems -> Shelves]
  /\ \A t \in Stored : IsTables(t) /\ UniqueNames(t)
  /\ Role \in [Session -> SUBSET Operations]

VARIABLES
  db,    \* the committed rows
  pc,    \* where each call is
  call,  \* what it was asked and what it has read, see NoCall
  tx     \* [lock, put, del]: locked rows, uncommitted rows, deleted rows

historyVars == <<db, pc, call, tx>>

Absent == "none"
NoTx == [lock |-> {}, put |-> [x \in {} |-> Absent], del |-> {}]
NoCall == [op |-> Absent, id |-> Absent, of |-> Absent, name |-> Absent, hides |-> FALSE, list |-> {},
           was |-> Absent, \* existing.name, read under the lock of the row
           found |-> {}, \* the names a log has resolved: pairs <<item, name>>
           todo |-> {},  \* what is left of a statement on many rows; defaults' names
           seen |-> {}]  \* history: the rows there when an update locked its row

-----------------------------------------------------------------------------
(* Rows, locks and the unique constraints.                                 *)

Rows(K) == K \intersect DOMAIN db
\* The rows of kind K with parent p and name n.
Matching(K, p, n) == {x \in Rows(K) : db[x].of = p /\ db[x].name = n}

Written(r) == DOMAIN tx[r].put \union tx[r].del
Held(r) == tx[r].lock \union Written(r)

\* An UPDATE, DELETE or FOR UPDATE of row x waits for whoever holds it.
RowFree(s, x) == \A r \in Session \ {s} : x \notin Held(r)

\* Mutant: no unique constraint on the names.
NameAlwaysFree(s, K, p, n) == TRUE
\* The name <<p, n>> is about to be taken or left by another transaction: the
\* unique index makes the statement wait for its end.
NameFree(s, K, p, n) ==
  \A r \in Session \ {s} : \A x \in Written(r) \intersect K :
    /\ x \in DOMAIN tx[r].put => tx[r].put[x].of # p \/ tx[r].put[x].name # n
    /\ x \in DOMAIN db => db[x].of # p \/ db[x].name # n

Goto(s, l) == pc' = [pc EXCEPT ![s] = l]
Put(s, x, row) ==
  tx' = [tx EXCEPT ![s].put = [y \in DOMAIN @ \union {x} |-> IF y = x THEN row ELSE @[y]]]

\* Mutant: the transaction is neither committed nor rolled back.
KeepHolding(s) == UNCHANGED tx
\* The end of a transaction.
Release(s) == tx' = [tx EXCEPT ![s] = NoTx]
\* The call is over; if it throws, the transaction is rolled back.
End(s) == Goto(s, "done") /\ Release(s) /\ call' = [call EXCEPT ![s] = NoCall]

\* Mutant: the row is read without FOR UPDATE.
NoLock(s, x) == UNCHANGED tx
Lock(s, x) == tx' = [tx EXCEPT ![s].lock = @ \union {x}]
\* What the owner of the items sees of its rules: defaults, then item rules that
\* override them, hide them or stand alone (resolveEffectiveRules).
NamesInForce(defaults, rules) ==
  {n \in defaults : \A x \in rules : db[x].name = n => ~db[x].hides}
  \union {db[x].name : x \in {y \in rules : ~db[y].hides}}

-----------------------------------------------------------------------------
(* The beginning of a call: its input, and the authorization that depends  *)
(* on nothing a call changes.                                              *)

MayConfigure(s, i) == Owner[i] = User[s]
MayLogFor(s, i) == Owner[i] = User[s] \/ User[s] \in Editors[i]

Ask(s, c, label) ==
  /\ pc[s] = "idle" /\ c.op \in Role[s]
  /\ IF label = "done" THEN End(s)
     ELSE call' = [call EXCEPT ![s] = c] /\ Goto(s, label) /\ UNCHANGED tx
  /\ UNCHANGED db

AskDefault(s) ==
  \/ \E p \in Shelves, n \in RuleNames :
       /\ Owner[p] = User[s]
       /\ Ask(s, [NoCall EXCEPT !.op = "createServiceRuleDefault", !.of = p, !.name = n], "siblings")
  \/ \E d \in Defaults, n \in RuleNames :
       Ask(s, [NoCall EXCEPT !.op = "updateServiceRuleDefault", !.id = d, !.name = n], "lock")
  \/ \E d \in Defaults :
       Ask(s, [NoCall EXCEPT !.op = "deleteServiceRuleDefault", !.id = d], "find")

\* authorizeItemRuleWrite: anyone but the owner is refused.
AskRule(s) ==
  \E i \in ServicedItems :
    LET first(l) == IF MayConfigure(s, i) THEN l ELSE "done"
    IN \/ \E n \in RuleNames, h \in BOOLEAN :
            Ask(s, [NoCall EXCEPT !.op = "createItemRule", !.of = i, !.name = n, !.hides = h],
                first("siblings"))
       \/ \E x \in Rules, n \in RuleNames, h \in BOOLEAN :
            Ask(s, [NoCall EXCEPT !.op = "updateItemRule", !.id = x, !.of = i, !.name = n, !.hides = h],
                first("lock"))
       \/ \E x \in Rules :
            Ask(s, [NoCall EXCEPT !.op = "deleteItemRule", !.id = x, !.of = i], first("find"))
       \/ \E n \in RuleNames, h \in BOOLEAN :
            Ask(s, [NoCall EXCEPT !.op = "overrideServiceRuleAction", !.of = i, !.name = n, !.hides = h],
                "resolve")
       \/ \E n \in RuleNames :
            Ask(s, [NoCall EXCEPT !.op = "deleteItemRuleByName", !.of = i, !.name = n], "resolve")

\* logServiceEvent is the list of one pair.
AskEvent(s) ==
  \/ \E l \in SUBSET (ServicedItems \X RuleNames) :
       /\ l # {} /\ Cardinality(l) <= 2
       /\ Ask(s, [NoCall EXCEPT !.op = "logServiceEventsBulk", !.list = l],
              IF \A e \in l : MayLogFor(s, e[1]) THEN "list" ELSE "done")
  \/ \E e \in Events : Ask(s, [NoCall EXCEPT !.op = "updateServiceEvent", !.id = e], "find")
  \/ \E e \in Events : Ask(s, [NoCall EXCEPT !.op = "deleteServiceEvent", !.id = e], "find")

-----------------------------------------------------------------------------
(* Defaults and item rules.                                                *)

Kind(s) == IF call[s].op \in {"createServiceRuleDefault", "updateServiceRuleDefault",
                              "deleteServiceRuleDefault"}
           THEN Defaults
           ELSE IF call[s].op \in {"updateServiceEvent", "deleteServiceEvent"} THEN Events ELSE Rules
Creates(s) == call[s].op \in {"createServiceRuleDefault", "createItemRule"}

\* findItemRuleByName: the name is resolved to a row, or to none, before the
\* transaction that writes; the rows read then serve as the siblings.
Resolve(s) ==
  /\ pc[s] = "resolve"
  /\ LET rows == Matching(Rules, call[s].of, call[s].name)
         deletes == call[s].op = "deleteItemRuleByName"
     IN IF ~MayConfigure(s, call[s].of) \/ (deletes /\ rows = {})
        THEN End(s)
        ELSE /\ UNCHANGED tx
             /\ IF rows = {}
                THEN Goto(s, "write") /\ call' = [call EXCEPT ![s].op = "createItemRule"]
                ELSE \E x \in rows :
                  /\ call' = [call EXCEPT ![s].id = x,
                       ![s].op = IF deletes THEN "deleteItemRule" ELSE "updateItemRule"]
                  /\ Goto(s, IF deletes THEN "find" ELSE "lockPreloaded")
  /\ UNCHANGED db

\* The row belongs to the caller (a default) or to the item the call is about.
Belongs(s, x) ==
  IF x \in Defaults THEN Owner[db[x].of] = User[s]
  ELSE IF x \in Rules THEN db[x].of = call[s].of
  ELSE MayLogFor(s, db[x].of)

\* SELECT ... FOR UPDATE of the rule that changes.
LockRow(s) ==
  /\ pc[s] \in {"lock", "lockPreloaded"} /\ RowFree(s, call[s].id)
  /\ LET x == call[s].id
     IN IF x \in Rows(Kind(s)) /\ Belongs(s, x)
        THEN /\ Lock(s, x)
             /\ call' = [call EXCEPT ![s].was = db[x].name, ![s].of = db[x].of,
                                   ![s].seen = DOMAIN db]
             /\ Goto(s, IF pc[s] = "lock" THEN "siblings" ELSE "write")
        ELSE End(s)
  /\ UNCHANGED db

\* assertNameAvailable on rows read without a lock.
Siblings(s) ==
  /\ pc[s] = "siblings"
  /\ IF Matching(Kind(s), call[s].of, call[s].name) \subseteq {call[s].id}
     THEN Goto(s, "write") /\ UNCHANGED <<call, tx>>
     ELSE End(s)
  /\ UNCHANGED db

NewRow(s) ==
  IF Kind(s) = Defaults THEN [of |-> call[s].of, name |-> call[s].name]
  ELSE [of |-> call[s].of, name |-> call[s].name, hides |-> call[s].hides]

Spare(K) == K \ (DOMAIN db \union UNION {DOMAIN tx[r].put : r \in Session})

\* INSERT: waits for whoever takes or leaves the name; a duplicate is refused.
Insert(s) ==
  /\ pc[s] = "write" /\ Creates(s) /\ NameFree(s, Kind(s), call[s].of, call[s].name)
  /\ IF Matching(Kind(s), call[s].of, call[s].name) # {}
     THEN End(s)
     ELSE /\ \E x \in Spare(Kind(s)) : Put(s, x, NewRow(s))
          /\ Goto(s, "commit") /\ UNCHANGED call
  /\ UNCHANGED db

\* Mutant: the overrides of a default are forgotten.
FollowersEventsOnly(s) == "pickEvents"
\* repointDefaultRename: rules, then events; an item rule takes its events along.
Followers(s) == IF Kind(s) = Defaults THEN "pickRules" ELSE "pickEvents"

\* UPDATE of the locked row; if it has another name now, what carries the old
\* name is to follow.
Update(s) ==
  /\ pc[s] = "write" /\ call[s].op \in {"updateServiceRuleDefault", "updateItemRule"}
  /\ RowFree(s, call[s].id)
  /\ NameFree(s, Kind(s), call[s].of, call[s].name)
  /\ IF ~(Matching(Kind(s), call[s].of, call[s].name) \subseteq {call[s].id})
     THEN End(s)
     ELSE /\ Put(s, call[s].id, NewRow(s)) /\ UNCHANGED call
          /\ Goto(s, IF call[s].name = call[s].was THEN "commit"
                     ELSE Followers(s))
  /\ UNCHANGED db

\* loadCategoryItemIds, or the one item of an item rule.
ItemsOf(s) ==
  IF Kind(s) = Defaults THEN {i \in ServicedItems : ShelfOf[i] = call[s].of} ELSE {call[s].of}
\* The WHERE of those UPDATEs: a row of the items, under the old name.
Left(s, x) == db[x].of \in ItemsOf(s) /\ db[x].name = call[s].was
\* The rows an UPDATE finds when it starts.
PickRows(s) ==
  /\ pc[s] \in {"pickRules", "pickEvents"}
  /\ LET K == IF pc[s] = "pickRules" THEN Rules ELSE Events
     IN call' = [call EXCEPT ![s].todo = {x \in Rows(K) : Left(s, x)}]
  /\ Goto(s, IF pc[s] = "pickRules" THEN "repointRules" ELSE "repointEvents")
  /\ UNCHANGED <<db, tx>>

\* One row of the UPDATE: once the row is free it is read again, and moves to the
\* new name if the WHERE still holds.  A rule may find the name taken.
RepointRow(s) ==
  /\ pc[s] \in {"repointRules", "repointEvents"}
  /\ \E x \in call[s].todo :
       LET row == [db[x] EXCEPT !.name = call[s].name]
           still == x \in DOMAIN db /\ Left(s, x)
       IN /\ RowFree(s, x)
          /\ still /\ x \in Rules => NameFree(s, Rules, row.of, row.name)
          /\ IF still /\ x \in Rules /\ Matching(Rules, row.of, row.name) # {}
             THEN End(s)
             ELSE /\ call' = [call EXCEPT ![s].todo = @ \ {x}]
                  /\ IF still THEN Put(s, x, row) ELSE UNCHANGED tx
                  /\ UNCHANGED pc
  /\ UNCHANGED db

Repointed(s) ==
  /\ pc[s] \in {"repointRules", "repointEvents"} /\ call[s].todo = {}
  /\ Goto(s, IF pc[s] = "repointRules" THEN "pickEvents" ELSE "commit")
  /\ UNCHANGED <<db, call, tx>>

-----------------------------------------------------------------------------
(* Deletions, and the events.                                              *)

\* The row is read, without a lock, to see whether the caller may change it.
Find(s) ==
  /\ pc[s] = "find"
  /\ IF call[s].id \in Rows(Kind(s)) /\ Belongs(s, call[s].id)
     THEN Goto(s, "change") /\ UNCHANGED <<call, tx>>
     ELSE End(s)
  /\ UNCHANGED db

\* DELETE: a row that has gone meanwhile is no error.
DeleteRow(s) ==
  /\ pc[s] = "change" /\ call[s].op # "updateServiceEvent" /\ RowFree(s, call[s].id)
  /\ tx' = [tx EXCEPT ![s].del = @ \union ({call[s].id} \intersect DOMAIN db)]
  /\ Goto(s, "commit")
  /\ UNCHANGED <<db, call>>

\* The columns an edit of an event sets: never the name.
Corrected(s, row) == [row EXCEPT !.fixed = TRUE]
UpdateEvent(s) ==
  /\ pc[s] = "change" /\ call[s].op = "updateServiceEvent" /\ RowFree(s, call[s].id)
  /\ IF call[s].id \in DOMAIN db
     THEN Put(s, call[s].id, Corrected(s, db[call[s].id])) /\ Goto(s, "commit") /\ UNCHANGED call
     ELSE End(s)
  /\ UNCHANGED db

\* loadEffectiveRuleNames, an item at a time: loadDefaults, then loadItemRules.
NextItem(s) ==
  /\ pc[s] = "list"
  /\ \E i \in {e[1] : e \in call[s].list} \ {f[1] : f \in call[s].found} :
       /\ call' = [call EXCEPT ![s].of = i, ![s].todo =
                      {db[x].name : x \in {y \in Rows(Defaults) : db[y].of = ShelfOf[i]}}]
       /\ Goto(s, "itemRules")
  /\ UNCHANGED <<db, tx>>

ReadItemRules(s) ==
  /\ pc[s] = "itemRules"
  /\ call' = [call EXCEPT ![s].todo = {}, ![s].found = @ \union
       ({call[s].of} \X ({Absent} \union
          NamesInForce(call[s].todo, {x \in Rows(Rules) : db[x].of = call[s].of})))]
  /\ Goto(s, "list")
  /\ UNCHANGED <<db, tx>>

\* Every pair of the list names an effective rule: assertRuleExists.
Resolved(s) == call[s].list \subseteq call[s].found
\* A row for each pair, all of them or none.
LogEvents(s) ==
  /\ pc[s] = "list" /\ {e[1] : e \in call[s].list} \subseteq {f[1] : f \in call[s].found}
  /\ IF Resolved(s)
     THEN \E place \in {g \in [call[s].list -> Spare(Events)] :
                          \A a, b \in call[s].list : g[a] = g[b] => a = b} :
            /\ tx' = [tx EXCEPT ![s].put =
                 [x \in {place[e] : e \in call[s].list} |->
                    LET e == CHOOSE e \in call[s].list : place[e] = x
                    IN [of |-> e[1], name |-> e[2], fixed |-> FALSE]]]
            /\ Goto(s, "commit") /\ UNCHANGED call
     ELSE End(s)
  /\ UNCHANGED db

\* Due state finds event e under rule or default x.
Bears(x, e) ==
  /\ x \in Rules => db[x].of = db[e].of
  /\ x \in Defaults => db[x].of = ShelfOf[db[e].of]
  /\ db[x].name = db[e].name
Bearers(e) == {x \in Rows(Rules \union Defaults) : Bears(x, e)}

\* What another call can no longer answer for: what is deleted, the events filed
\* under it, and the rules that have another name now.
Taken(t) ==
  t.del \union {e \in Rows(Events) : Bearers(e) \intersect t.del # {}}
  \union {x \in Rows(Rules) \intersect DOMAIN t.put : t.put[x].name # db[x].name}

Commit(s) ==
  /\ pc[s] = "commit"
  /\ db' = [x \in (DOMAIN db \union DOMAIN tx[s].put) \ tx[s].del |->
              IF x \in DOMAIN tx[s].put THEN tx[s].put[x] ELSE db[x]]
  /\ Goto(s, "done") /\ Release(s)
  /\ call' = [r \in Session |-> IF r = s THEN NoCall
                                ELSE [call[r] EXCEPT !.seen = @ \ Taken(tx[s])]]

-----------------------------------------------------------------------------
HistoryInit ==
  /\ db \in Stored
  /\ pc = [s \in Session |-> "idle"]
  /\ call = [s \in Session |-> NoCall]
  /\ tx = [s \in Session |-> NoTx]

Asks(s) == AskDefault(s) \/ AskRule(s) \/ AskEvent(s)
Steps(s) ==
  \/ Resolve(s) \/ LockRow(s) \/ Siblings(s) \/ Insert(s) \/ Update(s)
  \/ PickRows(s) \/ RepointRow(s) \/ Repointed(s)
  \/ Find(s) \/ DeleteRow(s) \/ UpdateEvent(s)
  \/ NextItem(s) \/ ReadItemRules(s) \/ LogEvents(s)
  \/ Commit(s)

HistoryNext == \E s \in Session : Asks(s) \/ Steps(s)
HistorySpec == HistoryInit /\ [][HistoryNext]_historyVars
\* A call that has begun goes on: the server runs its handlers, and the database
\* wakes whoever waits for a lock once it is free.
FairSpec == HistorySpec /\ \A s \in Session : WF_historyVars(Steps(s))

-----------------------------------------------------------------------------
(* Properties.                                                             *)

Places == {"idle", "siblings", "lock", "lockPreloaded", "resolve", "write", "pickRules",
           "repointRules", "pickEvents", "repointEvents", "find", "change", "list", "itemRules",
           "commit", "done"}
CallType == [op : Operations \union {Absent}, id : Id \union {Absent},
             of : ServicedItems \union Shelves \union {Absent},
              name : RuleNames \union {Absent}, hides : BOOLEAN,
             list : SUBSET (ServicedItems \X RuleNames), was : RuleNames \union {Absent},
             found : SUBSET (ServicedItems \X (RuleNames \union {Absent})),
              todo : SUBSET (RuleNames \union Id),
             seen : SUBSET Id]
IsTx(t) ==
  /\ t = [lock |-> t.lock, put |-> t.put, del |-> t.del]
  /\ t.lock \subseteq Id /\ t.del \subseteq Id /\ IsTables(t.put)

\* The tables hold rows of their kinds; a call's lists stay within the instance;
\* a call that is not under way holds nothing.
HistoryTypeOK ==
  /\ IsTables(db)
  /\ pc \in [Session -> Places] /\ call \in [Session -> CallType]
  /\ tx = [s \in Session |-> tx[s]]
  /\ \A s \in Session : IsTx(tx[s]) /\ (pc[s] \in {"idle", "done"} => tx[s] = NoTx)

\* No two defaults of a shelf and no two rules of an item have one name, whatever
\* calls read their siblings together.
NamesAreUnique == UniqueNames(db)

\* What every commit leaves.
TablesAreSound == HistoryTypeOK /\ NamesAreUnique

Commits(s) == pc[s] = "commit" /\ pc'[s] = "done"
Renaming == {"updateServiceRuleDefault", "updateItemRule"}

NewName(s) == call[s].op \in Renaming /\ call[s].name # call[s].was
Alive(e) == Bearers(e) # {}

\* "No item's service history is silently stranded" (rules-service.ts): when an
\* update of a default or of a rule, or the correction of an event, commits, the
\* events that could be found still can be, whatever ran beside it.  After a
\* rename that goes for the events that were there when it locked its row, unless
\* what they are filed under was deleted in the meantime.
HistoryFollowsRenames ==
  [][\A s \in Session :
       Commits(s) /\ call[s].op \in Renaming \union {"updateServiceEvent"} =>
         \A e \in Rows(Events) \intersect DOMAIN db' :
           /\ NewName(s) => e \in call[s].seen
           /\ Alive(e)
           => Alive(e)']_historyVars

\* The rules there when its rename locked a default, and that override or hide it
\* still, do so under its new name, unless another call has renamed them.
OverridesFollowDefault ==
  [][\A s \in Session :
       Commits(s) /\ call[s].op = "updateServiceRuleDefault" =>
         \A x \in Rows(Rules) \intersect call[s].seen \intersect DOMAIN db' :
           /\ ShelfOf[db[x].of] = call[s].of
           /\ db[x].name = call[s].was
           => db'[x].name = call[s].name]_historyVars

\* A rename takes along everything that was filed under the old name.
RenamesCarryThrough == HistoryFollowsRenames /\ OverridesFollowDefault

\* A call that began ends: no two of them wait for each other.
CallsEnd == \A s \in Session : (pc[s] # "idle") ~> (pc[s] = "done")

-----------------------------------------------------------------------------
(* The invariant behind the properties: what each call has read and written *)
(* at each of its places, beside every other call.                          *)

Deleting == {"deleteServiceRuleDefault", "deleteItemRule", "deleteServiceEvent"}
Renames(s) == call[s].op \in Renaming
\* The row of a rename is written; what carried the old name is being moved.
Moving == {"pickRules", "repointRules", "pickEvents", "repointEvents"}

\* Where a call of each operation is, and what it was asked.
PlaceInv(s) ==
  /\ pc[s] \in {"idle", "done"} => call[s] = NoCall
  /\ pc[s] = "resolve" => call[s].op \in {"overrideServiceRuleAction", "deleteItemRuleByName"}
  /\ pc[s] \in {"siblings", "write"} => Creates(s) \/ Renames(s)
  /\ pc[s] \in {"lock"} \union Moving => Renames(s)
  /\ pc[s] = "lockPreloaded" => call[s].op = "updateItemRule"
  /\ pc[s] \in {"pickRules", "repointRules"} => Kind(s) = Defaults
  /\ pc[s] \in {"find", "change"} => call[s].op \in Deleting \union {"updateServiceEvent"}
  /\ pc[s] \in {"list", "itemRules"} => call[s].op = "logServiceEventsBulk"
  /\ pc[s] \in Moving => call[s].name # call[s].was
AskedInv(s) ==
  /\ Creates(s) \/ Renames(s) => call[s].name \in RuleNames
  /\ call[s].op = "createServiceRuleDefault" => call[s].of \in Shelves
  /\ call[s].op \in {"createItemRule", "updateItemRule", "overrideServiceRuleAction",
                     "deleteItemRule", "deleteItemRuleByName"} => call[s].of \in ServicedItems
  /\ pc[s] = "resolve" => call[s].name \in RuleNames
  /\ call[s].op \in {"updateServiceEvent", "deleteServiceEvent"} => call[s].id \in Events
  /\ pc[s] = "itemRules" => call[s].of \in ServicedItems /\ call[s].todo \subseteq RuleNames
  /\ pc[s] = "repointRules" => call[s].todo \subseteq Rules
  /\ pc[s] = "repointEvents" => call[s].todo \subseteq Events

\* Up to its first write a call has written nothing.
WroteInv(s) ==
  /\ pc[s] \notin Moving \union {"commit"} => DOMAIN tx[s].put = {} /\ tx[s].del = {}
  /\ Renames(s) \/ call[s].op = "updateServiceEvent" => tx[s].del = {}

\* The row of a rename is locked, and is as it was read.
LockedInv(s) ==
  Renames(s) /\ pc[s] \in {"siblings", "write", "commit"} \union Moving =>
    /\ call[s].id \in tx[s].lock \intersect DOMAIN db \intersect Kind(s)
    /\ db[call[s].id].of = call[s].of /\ db[call[s].id].name = call[s].was

\* What a rename writes: its row, and rows of its items moved from the old name
\* to the new one.
MovedInv(s) ==
  Renames(s) /\ pc[s] \in {"commit"} \union Moving =>
    /\ call[s].id \in DOMAIN tx[s].put /\ tx[s].put[call[s].id] = NewRow(s)
    /\ \A x \in DOMAIN tx[s].put \ {call[s].id} :
         /\ x \in DOMAIN db /\ (x \in Events \/ (x \in Rules /\ Kind(s) = Defaults))
         /\ db[x].of \in ItemsOf(s) /\ db[x].name = call[s].was
         /\ tx[s].put[x] = [db[x] EXCEPT !.name = call[s].name]

\* A rename moves the rules it has found under the old name, or is yet to.
InHand(s, x, place) == x \in DOMAIN tx[s].put \/ (pc[s] = place /\ x \in call[s].todo)
RulesFollow(s) ==
  /\ NewName(s) /\ Kind(s) = Defaults
  /\ pc[s] \in {"repointRules", "pickEvents", "repointEvents", "commit"}
  => \A x \in Rows(Rules) \intersect call[s].seen :
       Left(s, x) => InHand(s, x, "repointRules")

\* It moves the events it has found, or is yet to, or they have come to the old
\* name since: then what brought them bears them, and whoever renames that in turn
\* has found them.
Found(s) == NewName(s) /\ pc[s] \in {"repointEvents", "commit"}
KeptBy(b, e) ==
  \A r \in Session : Found(r) /\ b \in DOMAIN tx[r].put => InHand(r, e, "repointEvents")
EventsFollow(s) ==
  Found(s) => \A e \in Rows(Events) \intersect call[s].seen :
    Left(s, e) => \/ InHand(s, e, "repointEvents")
                  \/ \E b \in Bearers(e) \ DOMAIN tx[s].put : KeptBy(b, e)

\* A correction keeps the item and the name of its event.
CorrectInv(s) ==
  call[s].op = "updateServiceEvent" => \A x \in DOMAIN tx[s].put :
    /\ x \in Events \intersect DOMAIN db
    /\ tx[s].put[x].of = db[x].of /\ tx[s].put[x].name = db[x].name

\* Whoever neither renames nor corrects writes new rows only.
NewInv(s) ==
  call[s].op \notin Renaming \union {"updateServiceEvent"} =>
    DOMAIN tx[s].put \intersect DOMAIN db = {}

\* A row to be is the only one of its name: beside what is committed, beside the
\* others the call writes, and beside what any other call writes.
SameName(r, t) == r.of = t.of /\ r.name = t.name
AloneInv(s) ==
  \A K \in {Defaults, Rules} : \A x \in DOMAIN tx[s].put \intersect K :
    /\ \A y \in Rows(K) \ {x} : ~SameName(tx[s].put[x], db[y])
    /\ \A r \in Session : \A y \in DOMAIN tx[r].put \intersect K :
         SameName(tx[s].put[x], tx[r].put[y]) => x = y

CallInv(s) ==
  /\ PlaceInv(s) /\ AskedInv(s) /\ WroteInv(s) /\ LockedInv(s) /\ MovedInv(s) /\ RulesFollow(s)
  /\ EventsFollow(s) /\ CorrectInv(s) /\ NewInv(s) /\ AloneInv(s)
  /\ call[s].seen \subseteq DOMAIN db

\* Two calls never hold one row; what is locked or deleted is there.
HeldInv ==
  \A s \in Session :
    /\ tx[s].lock \union tx[s].del \subseteq DOMAIN db
    /\ \A r \in Session \ {s} : Held(s) \intersect Held(r) = {}

IInv == HistoryTypeOK /\ NamesAreUnique /\ HeldInv /\ \A s \in Session : CallInv(s)
=============================================================================
