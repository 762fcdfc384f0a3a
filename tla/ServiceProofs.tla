---------------------------- MODULE ServiceProofs ----------------------------
(***************************************************************************)
(* Proofs about ServiceDue and ServiceHistory.                             *)
(*                                                                         *)
(* What is due, for every set of users, items, rule names, thresholds and  *)
(* starting tables: the lists and the page of an item always agree,        *)
(* marking the backlog always clears it, and what somebody is shown        *)
(* changes for a reason he can see.  It is derived from the tables, so one *)
(* invariant of the tables (TableInv) carries all of it; the rest is about *)
(* the operators that derive it.                                           *)
(*                                                                         *)
(* The history, for every set of shelves, items, names and calls: names    *)
(* stay unique, and a rename takes along what was filed under the old one. *)
(* A statement changes what one call holds and nothing else; what it must  *)
(* keep of the other calls is one lemma (StatementKeeps).  A commit is the *)
(* only step that changes the tables (CommitKeeps).                        *)
(***************************************************************************)
EXTENDS ServiceDue, ServiceHistory, FiniteSetTheorems, WellFoundedInduction, TLAPS

-----------------------------------------------------------------------------
(* Tables.                                                                 *)

\* Taking a row out of a table, and putting one in.
LEMMA TableRemove ==
  ASSUME NEW f, NEW K, NEW V, IsTable(f, K, V), NEW D \in SUBSET DOMAIN f
  PROVE  IsTable([k \in D |-> f[k]], K, V)
BY DEF IsTable

LEMMA TableInsert ==
  ASSUME NEW f, NEW K, NEW V, IsTable(f, K, V), NEW x \in K, NEW v \in V
  PROVE  IsTable([k \in DOMAIN f \union {x} |-> IF k = x THEN v ELSE f[k]], K, V)
BY DEF IsTable

\* The names an item has rules under are names.
LEMMA EffectiveNamesAreNames ==
  ASSUME NEW i,
         NEW r \in ResolveEffectiveRules(LoadDefaults(OwnerOf[i], CategoryOf[i]), LoadItemRules(i))
  PROVE  r.name \in Names
<1> DEFINE ds == LoadDefaults(OwnerOf[i], CategoryOf[i])
           rs == LoadItemRules(i)
<1>1. DOMAIN ds \subseteq Names /\ DOMAIN rs \subseteq Names
  BY DEF LoadDefaults, LoadItemRules
<1> HIDE DEF ds, rs
<1>2. \/ \E n \in DOMAIN ds : r = [name |-> n, state |-> "inherited", th |-> ds[n]]
      \/ \E n \in DOMAIN rs : r =
           [name |-> n, state |-> IF n \in DOMAIN ds THEN "overridden" ELSE "item-only",
                                   th |-> rs[n].th]
  BY DEF ResolveEffectiveRules, ds, rs
<1> QED BY <1>1, <1>2

-----------------------------------------------------------------------------
(* The lists and the page of an item.                                      *)

\* The rows of one owner and category.
LEMMA DefaultsAgree ==
  ASSUME TableInv, NEW fs \in SUBSET Items, NEW xs \in SUBSET Items, NEW i \in fs \union xs
  PROVE  GetOr(BatchedDueData(fs, xs).defaults, DefaultsKey(OwnerOf[i], CategoryOf[i]), Nothing)
           = LoadDefaults(OwnerOf[i], CategoryOf[i])
<1> DEFINE o == OwnerOf[i]
           c == CategoryOf[i]
           rows == {d \in DOMAIN defaults : d[1] \in {OwnerOf[j] : j \in fs \union xs}}
           keys == {DefaultsKey(d[1], d[2]) : d \in rows}
           group(k) == {d \in rows : DefaultsKey(d[1], d[2]) = k}
           of(k) == [n \in {d[3] : d \in group(k)} |->
                       defaults[CHOOSE d \in group(k) : d[3] = n]]
<1>1. BatchedDueData(fs, xs).defaults = [k \in keys |-> of(k)]
  BY DEF BatchedDueData
<1>2. DOMAIN defaults \subseteq Users \X Categories \X Names
        /\ o \in {OwnerOf[j] : j \in fs \union xs}
  BY DEF TableInv, IsTable
<1>3. \A d \in group(<<o, c>>) : d = <<o, c, d[3]>> /\ d[3] \in Names /\ d \in DOMAIN defaults
  BY <1>2 DEF DefaultsKey
<1>4. \A n \in Names : <<o, c, n>> \in DOMAIN defaults => <<o, c, n>> \in group(<<o, c>>)
  BY <1>2 DEF DefaultsKey
<1>5. {d[3] : d \in group(<<o, c>>)} = {n \in Names : <<o, c, n>> \in DOMAIN defaults}
  <2>1. ASSUME NEW n \in Names, <<o, c, n>> \in DOMAIN defaults
        PROVE  n \in {d[3] : d \in group(<<o, c>>)}
    <3>1. <<o, c, n>> \in group(<<o, c>>) /\ <<o, c, n>>[3] = n
      BY <1>4, <2>1
    <3> HIDE DEF group
    <3> QED BY <3>1
  <2> QED BY <1>3, <2>1
<1>6. \A n \in Names : <<o, c, n>> \in DOMAIN defaults =>
        (CHOOSE d \in group(<<o, c>>) : d[3] = n) = <<o, c, n>>
  <2> SUFFICES ASSUME NEW n \in Names, <<o, c, n>> \in DOMAIN defaults
               PROVE  (CHOOSE d \in group(<<o, c>>) : d[3] = n) = <<o, c, n>>
    OBVIOUS
  <2>1. <<o, c, n>> \in group(<<o, c>>) /\ <<o, c, n>>[3] = n
    BY <1>4
  <2>2. \A d \in group(<<o, c>>) : d[3] = n => d = <<o, c, n>>
    BY <1>3
  <2> HIDE DEF group
  <2> QED BY <2>1, <2>2
<1>7. of(<<o, c>>) = LoadDefaults(o, c)
  <2>1. LoadDefaults(o, c) = [n \in {m \in Names : <<o, c, m>> \in DOMAIN defaults} |->
                                defaults[<<o, c, n>>]]
    BY DEF LoadDefaults
  <2>2. DOMAIN of(<<o, c>>) = {n \in Names : <<o, c, n>> \in DOMAIN defaults}
    BY <1>5
  <2>3. \A n \in Names : <<o, c, n>> \in DOMAIN defaults =>
          of(<<o, c>>)[n] = defaults[<<o, c, n>>]
    BY <1>5, <1>6
  <2>4. of(<<o, c>>) = [n \in DOMAIN of(<<o, c>>) |-> of(<<o, c>>)[n]]
    OBVIOUS
  <2> HIDE DEF of
  <2> QED BY <2>1, <2>2, <2>3, <2>4
<1>8. CASE <<o, c>> \in keys
  <2> HIDE DEF of, keys
  <2> QED BY <1>1, <1>7, <1>8 DEF GetOr, DefaultsKey
<1>9. CASE <<o, c>> \notin keys
  <2>1. \A n \in Names : <<o, c, n>> \notin DOMAIN defaults
    <3> SUFFICES ASSUME NEW n \in Names, <<o, c, n>> \in DOMAIN defaults PROVE FALSE
      OBVIOUS
    <3>1. <<o, c, n>> \in rows /\ DefaultsKey(<<o, c, n>>[1], <<o, c, n>>[2]) = <<o, c>>
      BY <1>2 DEF DefaultsKey
    <3> HIDE DEF rows
    <3> QED BY <1>9, <3>1
  <2>2. LoadDefaults(o, c) = Nothing
    BY <2>1 DEF LoadDefaults, Nothing
  <2> HIDE DEF of, keys
  <2> QED BY <1>1, <1>9, <2>2 DEF GetOr, DefaultsKey
<1> QED BY <1>8, <1>9

LEMMA ItemRulesAgree ==
  ASSUME TableInv, NEW fs \in SUBSET Items, NEW xs \in SUBSET Items, NEW i \in fs \union xs
  PROVE  GetOr(BatchedDueData(fs, xs).rules, i, Nothing) = LoadItemRules(i)
<1> DEFINE with == {r[1] : r \in DOMAIN rules} \intersect (fs \union xs)
<1>1. BatchedDueData(fs, xs).rules = [j \in with |-> LoadItemRules(j)]
  BY DEF BatchedDueData
<1>2. CASE i \in with
  BY <1>1, <1>2 DEF GetOr
<1>3. CASE i \notin with
  <2>1. \A n \in Names : <<i, n>> \notin DOMAIN rules
    <3> SUFFICES ASSUME NEW n \in Names, <<i, n>> \in DOMAIN rules PROVE FALSE
      OBVIOUS
    <3>1. <<i, n>>[1] = i
      OBVIOUS
    <3> QED BY <1>3, <3>1
  <2>2. LoadItemRules(i) = Nothing
    BY <2>1 DEF LoadItemRules, Nothing
  <2> HIDE DEF with
  <2> QED BY <1>1, <1>3, <2>2 DEF GetOr
<1> QED BY <1>2, <1>3

LEMMA LastServiceAgrees ==
  ASSUME NEW fs, NEW xs, NEW i, NEW n
  PROVE  GetOr(BatchedDueData(fs, xs).last, <<i, n>>, {}) = LastServicePoint(i, n)
<1> DEFINE with == {<<e.item, e.name>> : e \in events}
<1>1. BatchedDueData(fs, xs).last = [p \in with |-> LastServicePoint(p[1], p[2])]
  BY DEF BatchedDueData
<1>2. CASE <<i, n>> \in with
  <2> HIDE DEF with
  <2> QED BY <1>1, <1>2 DEF GetOr
<1>3. CASE <<i, n>> \notin with
  <2>1. \A e \in events : ~(e.item = i /\ e.name = n)
    BY <1>3
  <2>2. {e.on : e \in {x \in events : x.item = i /\ x.name = n}} = {}
    BY <2>1
  <2>3. LastServicePoint(i, n) = {}
    BY <2>2 DEF LastServicePoint
  <2> HIDE DEF with
  <2> QED BY <1>1, <1>3, <2>3 DEF GetOr
<1> QED BY <1>2, <1>3

\* What the lists show of an item is what its page shows.
LEMMA EntryIsTheItemPage ==
  ASSUME TableInv, NEW u \in Users, NEW i \in Answered(u)
  PROVE  BuildEntry(BatchedDueData(VisibleFirearms(u), OwnAccessories(u)), i)
           = [item |-> i, rules |-> ItemDueState(u, i)]
<1> DEFINE fs == VisibleFirearms(u)
           xs == OwnAccessories(u)
           data == BatchedDueData(fs, xs)
<1>1. fs \in SUBSET Items /\ xs \in SUBSET Items /\ i \in fs \union xs
  BY DEF VisibleFirearms, OwnAccessories, Items, Answered
<1>2. data.sessions[i] = IF i \in Firearms THEN FirearmSessions(i) ELSE AccessorySessions(i, fs)
  <2>1. i \in fs <=> i \in Firearms
    BY <1>1 DEF VisibleFirearms, OwnAccessories, Permission, None
  <2>2. data.sessions = [j \in fs \union xs |-> IF j \in fs THEN FirearmSessions(j)
                                                            ELSE AccessorySessions(j, fs)]
    BY DEF BatchedDueData
  <2> HIDE DEF data
  <2> QED BY <1>1, <2>1, <2>2
<1>3. /\ GetOr(data.defaults, DefaultsKey(OwnerOf[i], CategoryOf[i]), Nothing)
           = LoadDefaults(OwnerOf[i], CategoryOf[i])
      /\ GetOr(data.rules, i, Nothing) = LoadItemRules(i)
  BY <1>1, DefaultsAgree, ItemRulesAgree
<1>a. ASSUME NEW n PROVE GetOr(data.last, <<i, n>>, {}) = LastServicePoint(i, n)
  BY LastServiceAgrees
<1> HIDE DEF data
<1>4. BuildEntry(data, i).rules = ItemDueState(u, i)
  <2> DEFINE rs == ResolveEffectiveRules(LoadDefaults(OwnerOf[i], CategoryOf[i]), LoadItemRules(i))
  <2>1. BuildEntry(data, i).rules =
          {ApplyDue(i, r, GetOr(data.last, <<i, r.name>>, {}), data.sessions[i]) : r \in rs}
    BY <1>3 DEF BuildEntry
  <2>2. ItemDueState(u, i) =
          {ApplyDue(i, r, LastServicePoint(i, r.name), data.sessions[i]) : r \in rs}
    BY <1>2 DEF ItemDueState
  <2>3. \A r \in rs : GetOr(data.last, <<i, r.name>>, {}) = LastServicePoint(i, r.name)
    BY <1>a
  <2> HIDE DEF rs
  <2> QED BY <2>1, <2>2, <2>3
<1>5. \E x : BuildEntry(data, i) = [item |-> i, rules |-> x]
  <2> DEFINE R == {ApplyDue(i, r, GetOr(data.last, <<i, r.name>>, {}), data.sessions[i]) :
                     r \in ResolveEffectiveRules(
                            GetOr(data.defaults, DefaultsKey(OwnerOf[i], CategoryOf[i]), Nothing),
                            GetOr(data.rules, i, Nothing))}
  <2>1. BuildEntry(data, i) = [item |-> i, rules |-> R]
    BY DEF BuildEntry
  <2> HIDE DEF R
  <2> QED BY <2>1
<1>6. BuildEntry(data, i) = [item |-> i, rules |-> ItemDueState(u, i)]
  BY <1>4, <1>5
<1> QED BY <1>6 DEF data

LEMMA ListsAgree == TableInv => CollectionAgrees
<1> SUFFICES ASSUME TableInv, NEW u \in Users
             PROVE  Collection(u) = {[item |-> i, rules |-> ItemDueState(u, i)] :
                                       i \in {j \in Answered(u) : ItemDueState(u, j) # {}}}
  BY DEF CollectionAgrees
<1> DEFINE E(i) == BuildEntry(BatchedDueData(VisibleFirearms(u), OwnAccessories(u)), i)
<1>1. Collection(u) = {en \in {E(i) : i \in Answered(u)} : en.rules # {}}
  BY DEF Collection, Answered
<1>2. \A i \in Answered(u) : E(i) = [item |-> i, rules |-> ItemDueState(u, i)]
  BY EntryIsTheItemPage
<1> HIDE DEF E
<1> QED BY <1>1, <1>2

-----------------------------------------------------------------------------
(* The backlog.                                                            *)

\* A rule of the due state of i is due since the last service of that rule of i.
LEMMA DueStateRules ==
  ASSUME NEW u, NEW i, NEW r \in ItemDueState(u, i)
  PROVE  /\ r.rule \in ResolveEffectiveRules(LoadDefaults(OwnerOf[i], CategoryOf[i]),
              LoadItemRules(i))
         /\ r.rule.name \in Names /\ r.rule.name \in EffectiveNames(i)
<1> DEFINE rs == ResolveEffectiveRules(LoadDefaults(OwnerOf[i], CategoryOf[i]), LoadItemRules(i))
           ids == IF i \in Firearms THEN FirearmSessions(i)
                  ELSE AccessorySessions(i, VisibleFirearms(u))
<1>1. PICK q \in rs : r = ApplyDue(i, q, LastServicePoint(i, q.name), ids)
  BY DEF ItemDueState
<1>2. r.rule = q
  BY <1>1 DEF ApplyDue
<1> QED BY <1>2, EffectiveNamesAreNames DEF EffectiveNames

LEMMA BacklogPairs ==
  ASSUME TableInv, NEW u \in Users
  PROVE  \A p : p \in Backlog(u) <=>
           \E i \in Answered(u) : Actionable(u, i) /\
             \E r \in ItemDueState(u, i) : r.axis # None /\ p = <<i, r.rule.name>>
<1> DEFINE due(en) == {<<en.item, r.rule.name>> : r \in {x \in en.rules : x.axis # None}}
           E(i) == [item |-> i, rules |-> ItemDueState(u, i)]
<1>1. Collection(u) = {E(i) : i \in {j \in Answered(u) : ItemDueState(u, j) # {}}}
  BY ListsAgree DEF CollectionAgrees
<1>2. Backlog(u) = UNION {due(en) : en \in {x \in Collection(u) : Actionable(u, x.item)}}
  BY DEF Backlog
<1> SUFFICES ASSUME NEW p
             PROVE  p \in Backlog(u) <=>
                      \E i \in Answered(u) : Actionable(u, i) /\
                        \E r \in ItemDueState(u, i) : r.axis # None /\ p = <<i, r.rule.name>>
  OBVIOUS
<1>3. ASSUME p \in Backlog(u)
      PROVE  \E i \in Answered(u) : Actionable(u, i) /\
               \E r \in ItemDueState(u, i) : r.axis # None /\ p = <<i, r.rule.name>>
  <2>1. PICK en \in Collection(u) : Actionable(u, en.item) /\ p \in due(en)
    BY <1>2, <1>3
  <2>2. PICK i \in Answered(u) : en = E(i)
    BY <1>1, <2>1
  <2>3. PICK r \in en.rules : r.axis # None /\ p = <<en.item, r.rule.name>>
    BY <2>1
  <2> QED BY <2>1, <2>2, <2>3
<1>4. ASSUME NEW i \in Answered(u), Actionable(u, i), NEW r \in ItemDueState(u, i), r.axis # None,
             p = <<i, r.rule.name>>
      PROVE  p \in Backlog(u)
  <2>1. E(i) \in Collection(u) /\ E(i).item = i
    BY <1>1, <1>4
  <2>2. p \in due(E(i))
    BY <1>4
  <2> HIDE DEF due, E
  <2> QED BY <1>2, <1>4, <2>1, <2>2
<1> QED BY <1>3, <1>4

LEMMA BacklogTypes ==
  ASSUME TableInv, NEW u \in Users, NEW p \in Backlog(u)
  PROVE  p[1] \in Items /\ p[2] \in Names
<1>1. PICK i \in Answered(u) : \E r \in ItemDueState(u, i) : p = <<i, r.rule.name>>
  BY BacklogPairs
<1>2. i \in Items
  BY DEF Answered, VisibleFirearms, OwnAccessories, Items
<1> QED BY <1>1, <1>2, DueStateRules

\* Everything the backlog offers may be written.
LEMMA BacklogMayBeWritten ==
  ASSUME TableInv, NEW u \in Users, NEW p \in Backlog(u)
  PROVE  MayLog(u, p[1]) /\ p[2] \in EffectiveNames(p[1])
<1>1. PICK i \in Answered(u) : /\ Actionable(u, i)
                               /\ \E r \in ItemDueState(u, i) : p = <<i, r.rule.name>>
  BY BacklogPairs
<1>2. p[1] = i /\ p[2] \in EffectiveNames(i)
  BY <1>1, DueStateRules
<1>3. MayLog(u, i)
  BY <1>1 DEF Actionable, MayLog, Answered, OwnAccessories, VisibleFirearms
<1> QED BY <1>2, <1>3

-----------------------------------------------------------------------------
(* Every step keeps the tables.                                            *)

LEMMA NextDayKeeps == ASSUME TableInv, NextDay PROVE TableInv'
BY ServiceDueAssumption DEF NextDay, ServiceDueAssumption, TableInv, TypeOK

LEMMA LogServiceEventKeeps ==
  ASSUME TableInv, NEW u \in Users, NEW i \in Items, NEW n \in Names, NEW on \in Days,
         LogServiceEvent(u, i, n, on)
  PROVE  TableInv'
BY DEF LogServiceEvent, TableInv, TypeOK

LEMMA MarkBacklogKeeps ==
  ASSUME TableInv, NEW u \in Users, MarkBacklog(u)
  PROVE  TableInv'
<1>1. day \in Days
  BY ServiceDueAssumption
     DEF ServiceDueAssumption, TableInv, TypeOK, Days, FUTURE_DATE_TOLERANCE_DAYS
<1>2. \A p \in Backlog(u) : [item |-> p[1], name |-> p[2], on |-> day]
        \in [item : Items, name : Names, on : Days]
  BY <1>1, BacklogTypes
<1>3. events' \subseteq [item : Items, name : Names, on : Days]
  <2>1. PICK ticked \in SUBSET Backlog(u) :
          \/ events' = events
          \/ events' = events \union {[item |-> p[1], name |-> p[2], on |-> day] : p \in ticked}
    BY DEF MarkBacklog
  <2> QED BY <1>2, <2>1 DEF TableInv
<1>4. UNCHANGED <<day, grants, mounted, sessions, defaults, rules>>
  BY DEF MarkBacklog
<1> QED BY <1>3, <1>4 DEF TableInv, TypeOK

LEMMA ChangeEventKeeps ==
  ASSUME TableInv, NEW u \in Users, ChangeEvent(u)
  PROVE  TableInv'
<1>1. events' \subseteq [item : Items, name : Names, on : Days]
  BY DEF ChangeEvent, TableInv
<1>2. UNCHANGED <<day, grants, mounted, sessions, defaults, rules>>
  BY DEF ChangeEvent
<1> QED BY <1>1, <1>2 DEF TableInv, TypeOK

LEMMA CreateRangeSessionKeeps ==
  ASSUME TableInv, NEW u \in Users, NEW f \in Firearms, NEW on \in Days, NEW n \in Rounds,
         CreateRangeSession(u, f, on, n)
  PROVE  TableInv'
<1> DEFINE s == CHOOSE s \in SessionIds : s \notin DOMAIN sessions
           row == [gun |-> f, on |-> on, rounds |-> n,
                    used |-> {x \in Accessories : mounted[x] = f}]
<1>1. IsTable(sessions, SessionIds, SessionRow) /\ DOMAIN sessions # SessionIds
  BY DEF TableInv, CreateRangeSession
<1>2. s \in SessionIds /\ s \notin DOMAIN sessions
  BY <1>1 DEF IsTable
<1>3. sessions' = [t \in DOMAIN sessions \union {s} |-> IF t = s THEN row ELSE sessions[t]]
  BY DEF CreateRangeSession
<1> HIDE DEF s
<1>4. row \in SessionRow
  BY DEF SessionRow
<1>5. \A x \in row.used : OwnerOf[x] = OwnerOf[row.gun]
  BY ServiceDueAssumption DEF ServiceDueAssumption, TableInv
<1> HIDE DEF row
<1>6. IsTable(sessions', SessionIds, SessionRow)
  BY <1>1, <1>2, <1>3, <1>4, TableInsert
<1>7. IsFiniteSet(DOMAIN sessions')
  <2>1. DOMAIN sessions' = DOMAIN sessions \union {s}
    BY <1>3
  <2> QED BY <2>1, FS_AddElement DEF TableInv
<1>8. \A t \in DOMAIN sessions' : \A x \in sessions'[t].used :
        OwnerOf[x] = OwnerOf[sessions'[t].gun]
  BY <1>3, <1>5 DEF TableInv, TypeOK
<1>9. UNCHANGED <<day, grants, mounted, events, defaults, rules>>
  BY DEF CreateRangeSession
<1> QED BY <1>6, <1>7, <1>8, <1>9 DEF TableInv, TypeOK

LEMMA ChangeRangeSessionKeeps ==
  ASSUME TableInv, NEW u \in Users, ChangeRangeSession(u)
  PROVE  TableInv'
<1>1. PICK s \in DOMAIN sessions :
        \/ sessions' = [t \in DOMAIN sessions \ {s} |-> sessions[t]]
        \/ \E on \in Days, n \in Rounds :
             sessions' = [sessions EXCEPT ![s].on = on, ![s].rounds = n]
  BY DEF ChangeRangeSession
<1>2. /\ IsTable(sessions, SessionIds, SessionRow) /\ IsFiniteSet(DOMAIN sessions)
      /\ \A t \in DOMAIN sessions : \A x \in sessions[t].used :
           OwnerOf[x] = OwnerOf[sessions[t].gun]
  BY DEF TableInv, TypeOK
<1>3. UNCHANGED <<day, grants, mounted, events, defaults, rules>>
  BY DEF ChangeRangeSession
<1>4. CASE sessions' = [t \in DOMAIN sessions \ {s} |-> sessions[t]]
  <2>1. IsTable(sessions', SessionIds, SessionRow)
    BY <1>2, <1>4, TableRemove
  <2>2. IsFiniteSet(DOMAIN sessions')
    BY <1>2, <1>4, FS_Subset
  <2>3. \A t \in DOMAIN sessions' : \A x \in sessions'[t].used :
          OwnerOf[x] = OwnerOf[sessions'[t].gun]
    BY <1>2, <1>4
  <2> QED BY <1>3, <2>1, <2>2, <2>3 DEF TableInv, TypeOK
<1>5. ASSUME NEW on \in Days, NEW n \in Rounds,
             sessions' = [sessions EXCEPT ![s].on = on, ![s].rounds = n]
      PROVE  TableInv'
  <2> DEFINE row == [sessions[s] EXCEPT !.on = on, !.rounds = n]
  <2>1. sessions[s] \in SessionRow
    BY <1>2 DEF IsTable
  <2>2. row \in SessionRow /\ row.gun = sessions[s].gun /\ row.used = sessions[s].used
    BY <2>1 DEF SessionRow
  <2>3. sessions' = [sessions EXCEPT ![s] = row]
    BY <1>2, <1>5 DEF IsTable
  <2> HIDE DEF row
  <2>4. DOMAIN sessions' = DOMAIN sessions /\ IsTable(sessions', SessionIds, SessionRow)
    BY <1>2, <2>2, <2>3 DEF IsTable
  <2>5. \A t \in DOMAIN sessions' : \A x \in sessions'[t].used :
          OwnerOf[x] = OwnerOf[sessions'[t].gun]
    BY <1>2, <2>2, <2>3 DEF IsTable
  <2> QED BY <1>2, <1>3, <2>4, <2>5 DEF TableInv, TypeOK
<1> QED BY <1>1, <1>4, <1>5

LEMMA MountKeeps ==
  ASSUME TableInv, NEW x \in Accessories, NEW f \in Firearms \union {None}, Mount(x, f)
  PROVE  TableInv'
<1>1. /\ mounted' = [mounted EXCEPT ![x] = f]
      /\ f # None => OwnerOf[f] = OwnerOf[x]
      /\ UNCHANGED <<day, grants, events, sessions, defaults, rules>>
  BY DEF Mount
<1>2. /\ mounted' \in [Accessories -> Firearms \union {None}]
      /\ \A y \in Accessories : mounted'[y] = IF y = x THEN f ELSE mounted[y]
  BY <1>1 DEF TableInv, TypeOK
<1>3. \A y \in Accessories : mounted'[y] # None => OwnerOf[mounted'[y]] = OwnerOf[y]
  BY <1>1, <1>2 DEF TableInv
<1> QED BY <1>1, <1>2, <1>3 DEF TableInv, TypeOK

LEMMA ShareKeeps ==
  ASSUME TableInv, NEW u \in Users, NEW i \in Items, Share(u, i)
  PROVE  TableInv'
<1>1. /\ \/ grants' \subseteq grants
         \/ \E p \in {"view", "edit"} :
              grants' \subseteq grants \union {[who |-> u, item |-> i, perm |-> p]}
      /\ UNCHANGED <<day, mounted, events, sessions, defaults, rules>> /\ OwnerOf[i] # u
  BY DEF Share
<1> QED BY <1>1 DEF TableInv, TypeOK

LEMMA ConfigureItemKeeps ==
  ASSUME TableInv, NEW i \in Items, NEW n \in Names, ConfigureItem(i, n)
  PROVE  TableInv'
<1> DEFINE others == [k \in DOMAIN rules \ {<<i, n>>} |-> rules[k]]
           with(r) == [k \in DOMAIN others \union {<<i, n>>} |-> IF k = <<i, n>> THEN r
                        ELSE others[k]]
<1>1. /\ IsTable(rules, Items \X Names, ItemRule)
      /\ \A k \in DOMAIN rules : rules[k].hides <=> rules[k].th = Unset
      /\ UNCHANGED <<day, grants, mounted, events, sessions, defaults>>
  BY DEF TableInv, TypeOK, ConfigureItem
<1>2. /\ IsTable(others, Items \X Names, ItemRule)
      /\ \A k \in DOMAIN others : others[k].hides <=> others[k].th = Unset
  BY <1>1, TableRemove
<1>3. \/ rules' = others
      \/ rules' = with([hides |-> TRUE, th |-> Unset])
      \/ \E th \in Thresholds : rules' = with([hides |-> FALSE, th |-> th])
  BY DEF ConfigureItem
<1> HIDE DEF others
<1>4. ASSUME NEW r \in ItemRule, r.hides <=> r.th = Unset, rules' = with(r)
      PROVE  /\ IsTable(rules', Items \X Names, ItemRule)
             /\ \A k \in DOMAIN rules' : rules'[k].hides <=> rules'[k].th = Unset
  <2>1. <<i, n>> \in Items \X Names
    OBVIOUS
  <2>2. IsTable(with(r), Items \X Names, ItemRule)
    BY <1>2, <2>1, TableInsert
  <2> QED BY <1>2, <1>4, <2>2
<1>5. \A th \in Thresholds : th \in Threshold /\ th # Unset
  BY ServiceDueAssumption DEF ServiceDueAssumption
<1>6. /\ [hides |-> TRUE, th |-> Unset] \in ItemRule
      /\ \A th \in Thresholds : [hides |-> FALSE, th |-> th] \in ItemRule
  BY <1>5 DEF ItemRule, Unset, Threshold
<1>7. /\ IsTable(rules', Items \X Names, ItemRule)
      /\ \A k \in DOMAIN rules' : rules'[k].hides <=> rules'[k].th = Unset
  BY <1>2, <1>3, <1>4, <1>5, <1>6
<1>8. \A k \in DOMAIN rules' : rules'[k] \in ItemRule
  BY <1>7 DEF IsTable
<1> QED BY <1>1, <1>7, <1>8 DEF TableInv, TypeOK

LEMMA ConfigureDefaultKeeps ==
  ASSUME TableInv, NEW o \in Users, NEW c \in Categories, NEW n \in Names,
         ConfigureDefault(o, c, n)
  PROVE  TableInv'
<1> DEFINE others == [k \in DOMAIN defaults \ {<<o, c, n>>} |-> defaults[k]]
<1>1. /\ IsTable(defaults, Users \X Categories \X Names, Thresholds)
      /\ UNCHANGED <<day, grants, mounted, events, sessions, rules>>
  BY DEF TableInv, ConfigureDefault
<1>2. IsTable(others, Users \X Categories \X Names, Thresholds)
  BY <1>1, TableRemove
<1>3. \/ defaults' = others
      \/ \E th \in Thresholds :
           defaults' = [k \in DOMAIN others \union {<<o, c, n>>} |->
                          IF k = <<o, c, n>> THEN th ELSE others[k]]
  BY DEF ConfigureDefault
<1> HIDE DEF others
<1>4. IsTable(defaults', Users \X Categories \X Names, Thresholds)
  <2>1. ASSUME NEW th \in Thresholds
        PROVE  IsTable([k \in DOMAIN others \union {<<o, c, n>>} |->
                          IF k = <<o, c, n>> THEN th ELSE others[k]],
                       Users \X Categories \X Names, Thresholds)
    <3>1. <<o, c, n>> \in Users \X Categories \X Names
      OBVIOUS
    <3> QED BY <1>2, <3>1, TableInsert
  <2> QED BY <1>2, <1>3, <2>1
<1> QED BY <1>1, <1>4 DEF TableInv, TypeOK

LEMMA InitHolds == Init => TableInv
<1> SUFFICES ASSUME Init PROVE TableInv
  OBVIOUS
<1>1. PICK c \in Configured : /\ defaults = c.defaults /\ rules = c.rules
                              /\ mounted = c.mounted /\ grants = c.grants
  BY DEF Init
<1>2. /\ IsTable(defaults, Users \X Categories \X Names, Thresholds)
      /\ IsTable(rules, Items \X Names, ItemRule)
      /\ \A k \in DOMAIN rules : rules[k].hides <=> rules[k].th = Unset
      /\ mounted \in [Accessories -> Firearms \union {None}]
      /\ \A x \in Accessories : mounted[x] # None => OwnerOf[mounted[x]] = OwnerOf[x]
      /\ grants \subseteq [who : Users, item : Items, perm : {"view", "edit"}]
      /\ \A g \in grants : g.who # OwnerOf[g.item]
  <2>1. /\ IsTable(c.defaults, Users \X Categories \X Names, Thresholds)
        /\ IsTable(c.rules, Items \X Names, ItemRule)
        /\ \A k \in DOMAIN c.rules : c.rules[k].hides <=> c.rules[k].th = Unset
        /\ c.mounted \in [Accessories -> Firearms \union {None}]
        /\ \A x \in Accessories : c.mounted[x] # None => OwnerOf[c.mounted[x]] = OwnerOf[x]
        /\ c.grants \subseteq [who : Users, item : Items, perm : {"view", "edit"}]
        /\ \A g \in c.grants : g.who # OwnerOf[g.item]
    BY ServiceDueAssumption, Zenon DEF ServiceDueAssumption
  <2> QED BY <1>1, <2>1, Zenon
<1>3. DOMAIN sessions = {} /\ sessions \in [{} -> SessionRow] /\ IsFiniteSet({})
  BY FS_EmptySet DEF Init, Nothing
<1>4. \A k \in DOMAIN rules : rules[k] \in ItemRule
  BY <1>2 DEF IsTable
<1>5. day \in 0 .. MaxDay /\ events = {}
  BY ServiceDueAssumption DEF ServiceDueAssumption, Init
<1> QED BY <1>2, <1>3, <1>4, <1>5 DEF TableInv, TypeOK, IsTable

LEMMA StepKeeps == TableInv /\ [Next]_vars => TableInv'
<1> SUFFICES ASSUME TableInv, [Next]_vars PROVE TableInv'
  OBVIOUS
<1>1. CASE UNCHANGED vars
  BY <1>1 DEF vars, TableInv, TypeOK
<1>2. CASE Next
  BY <1>2, NextDayKeeps, LogServiceEventKeeps, MarkBacklogKeeps, ChangeEventKeeps,
     CreateRangeSessionKeeps, ChangeRangeSessionKeeps, MountKeeps, ShareKeeps, ConfigureItemKeeps,
     ConfigureDefaultKeeps DEF Next
<1> QED BY <1>1, <1>2

\* The tables, for any number of users, items, rules and sessions: every writer keeps them
\* (service-intervals, range-sessions, accessories, sharing).
THEOREM TableInvariant == Spec => []TableInv
<1> QED BY InitHolds, StepKeeps, PTL DEF Spec

\* The lists, which are built from one query for each source, show of every item what
\* its own page shows (listDueForVisibleCollection, getItemDueState).
THEOREM ListsAreAlwaysSound == Spec => []ListsAreSound
<1>1. TableInv => ListsAreSound
  BY ListsAgree DEF ListsAreSound, TableInv
<1> QED BY <1>1, TableInvariant, PTL

-----------------------------------------------------------------------------
(* Marking the backlog.                                                    *)

\* A bounded set of numbers that is not empty has a highest one, and Max is it.
LEMMA MaxIsHighest ==
  ASSUME NEW S \in SUBSET Nat, S # {}, NEW b \in Nat, \A x \in S : x <= b
  PROVE  Max(S) \in S /\ \A x \in S : x <= Max(S)
<1> DEFINE T == {c \in Nat : \A x \in S : x <= c}
           R == OpToRel(<, Nat)
<1>1. T \subseteq Nat /\ T # {}
  OBVIOUS
<1>2. PICK m \in T : \A c \in T : ~ (<<c, m>> \in R)
  <2> HIDE DEF T
  <2> QED BY <1>1, WFMin, NatLessThanWellFounded, Zenon
<1>3. \A c, d \in Nat : c < d => <<c, d>> \in R
  BY Zenon DEF OpToRel
<1>4. m \in S
  <2> HIDE DEF R
  <2> SUFFICES ASSUME m \notin S PROVE FALSE
    OBVIOUS
  <2>1. m \in Nat /\ \A x \in S : x \in Nat /\ x < m
    OBVIOUS
  <2>2. m - 1 \in Nat
    <3>1. PICK x \in S : TRUE
      OBVIOUS
    <3>2. x \in Nat /\ m \in Nat /\ x < m
      BY <2>1
    <3> QED BY <3>2
  <2>3. m - 1 \in T /\ m - 1 < m
    BY <2>1, <2>2
  <2> QED BY <1>2, <1>3, <2>1, <2>3
<1> QED BY <1>4 DEF Max

\* The latest of some days.
LEMMA LatestDay ==
  ASSUME NEW S \in SUBSET Days, S # {}
  PROVE  Max(S) \in S /\ \A x \in S : x <= Max(S)
<1>1. MaxDay + FUTURE_DATE_TOLERANCE_DAYS \in Nat
  BY ServiceDueAssumption DEF ServiceDueAssumption, FUTURE_DATE_TOLERANCE_DAYS
<1>2. S \in SUBSET Nat /\ \A x \in S : x <= MaxDay + FUTURE_DATE_TOLERANCE_DAYS
  BY <1>1 DEF Days
<1> HIDE DEF Days
<1> QED BY <1>1, <1>2, MaxIsHighest

\* What has elapsed, as a function of the sessions there are.
ElapsedIn(ss, from, ids, asOf) ==
  LET fired == {s \in ids : Counted(ss[s], from, asOf)}
  IN [days |-> Max({0, asOf - from}), sessions |-> Cardinality(fired),
      rounds |-> MapThenSumSet(LAMBDA s : ss[s].rounds, fired)]
DueIn(ss, i, rule, last, ids, today) ==
  LET from == MeasureFrom(i, last)
      counts == ElapsedIn(ss, from, ids, today)
  IN [rule |-> rule, from |-> from, counts |-> counts, axis |-> IsDue(rule.th, counts)]

\* The page of every item, in these terms.
PagesShowDue ==
  \A u, i : ItemDueState(u, i) =
    {DueIn(sessions, i, q, LastServicePoint(i, q.name),
           IF i \in Firearms THEN FirearmSessions(i)
           ELSE AccessorySessions(i, VisibleFirearms(u)), day) :
       q \in ResolveEffectiveRules(LoadDefaults(OwnerOf[i], CategoryOf[i]), LoadItemRules(i))}
LEMMA PagesAlwaysShowDue == PagesShowDue
<1>1. \A i, q, last, ids : ApplyDue(i, q, last, ids) = DueIn(sessions, i, q, last, ids, day)
  BY DEF ApplyDue, ElapsedCounts, DueIn, ElapsedIn
<1> QED BY <1>1 DEF PagesShowDue, ItemDueState

\* Nothing fired adds up to nothing.
LEMMA NoRounds == MapThenSumSet(LAMBDA s : sessions[s].rounds, {}) = 0
BY DEF MapThenSumSet, MapThenFoldSet

\* Measured from today or later nothing has elapsed.
LEMMA NothingElapsed ==
  ASSUME TableInv, NEW from \in Int, from >= day, NEW ids \in SUBSET DOMAIN sessions
  PROVE  ElapsedCounts(from, ids, day) = [days |-> 0, sessions |-> 0, rounds |-> 0]
<1>1. day \in Int
  BY ServiceDueAssumption DEF ServiceDueAssumption, TableInv, TypeOK
<1>2. \A s \in ids : sessions[s].on \in Int
  BY ServiceDueAssumption DEF ServiceDueAssumption, TableInv, IsTable, SessionRow, Days,
     FUTURE_DATE_TOLERANCE_DAYS
<1>3. {s \in ids : Counted(sessions[s], from, day)} = {}
  BY <1>1, <1>2 DEF Counted
<1>4. Max({0, day - from}) = 0
  <2>1. day - from \in Int /\ day - from <= 0
    BY <1>1
  <2>2. \A d \in Int : d <= 0 => Max({0, d}) = 0
    BY DEF Max
  <2> QED BY <2>1, <2>2
<1>5. Cardinality({}) = 0
  BY FS_EmptySet
<1> QED BY <1>3, <1>4, <1>5, NoRounds DEF ElapsedCounts

LEMMA RuleThresholds ==
  ASSUME TableInv, NEW i,
         NEW r \in ResolveEffectiveRules(LoadDefaults(OwnerOf[i], CategoryOf[i]), LoadItemRules(i))
  PROVE  r.th \in Threshold
<1> DEFINE ds == LoadDefaults(OwnerOf[i], CategoryOf[i])
           rs == LoadItemRules(i)
<1>1. \A n \in DOMAIN ds : ds[n] \in Threshold
  BY ServiceDueAssumption DEF ServiceDueAssumption, TableInv, IsTable, LoadDefaults
<1>2. \A n \in DOMAIN rs : rs[n].th \in Threshold
  BY DEF TableInv, IsTable, LoadItemRules, ItemRule
<1> HIDE DEF ds, rs
<1>3. \/ \E n \in DOMAIN ds : r = [name |-> n, state |-> "inherited", th |-> ds[n]]
      \/ \E n \in DOMAIN rs : r =
           [name |-> n, state |-> IF n \in DOMAIN ds THEN "overridden" ELSE "item-only",
                                   th |-> rs[n].th]
  BY DEF ResolveEffectiveRules, ds, rs
<1> QED BY <1>1, <1>2, <1>3

\* A rule serviced today is not due.
LEMMA ServicedTodayIsNotDue ==
  ASSUME TableInv, NEW u, NEW i, NEW r \in ItemDueState(u, i),
         [item |-> i, name |-> r.rule.name, on |-> day] \in events
  PROVE  r.axis = None
<1> DEFINE rs == ResolveEffectiveRules(LoadDefaults(OwnerOf[i], CategoryOf[i]), LoadItemRules(i))
           ids == IF i \in Firearms THEN FirearmSessions(i)
                  ELSE AccessorySessions(i, VisibleFirearms(u))
           on(n) == {e.on : e \in {x \in events : x.item = i /\ x.name = n}}
<1>1. PICK q \in rs : r = ApplyDue(i, q, LastServicePoint(i, q.name), ids)
  BY DEF ItemDueState
<1>2. r.rule = q /\ q.th \in Threshold
  BY <1>1, RuleThresholds DEF ApplyDue
<1>3. on(q.name) \in SUBSET Days /\ day \in on(q.name)
  <2>1. [item |-> i, name |-> q.name, on |-> day] \in events
    BY <1>2
  <2>2. \A e \in events : e.on \in Days
    BY DEF TableInv, TypeOK
  <2> QED BY <2>1, <2>2
<1>4. MeasureFrom(i, LastServicePoint(i, q.name)) = Max({Max(on(q.name))})
  <2> HIDE DEF on
  <2>1. on(q.name) # {}
    BY <1>3
  <2>2. LastServicePoint(i, q.name) = {Max(on(q.name))}
    BY <2>1 DEF LastServicePoint, on
  <2> QED BY <2>2 DEF MeasureFrom
<1>5. Max(on(q.name)) \in Int /\ day <= Max(on(q.name))
  <2> HIDE DEF on
  <2>1. Max(on(q.name)) \in on(q.name) /\ \A x \in on(q.name) : x <= Max(on(q.name))
    BY <1>3, LatestDay
  <2>2. Days \subseteq Int
    BY ServiceDueAssumption DEF ServiceDueAssumption, Days, FUTURE_DATE_TOLERANCE_DAYS
  <2> QED BY <1>3, <2>1, <2>2
<1> HIDE DEF on
<1>6. Max({Max(on(q.name))}) = Max(on(q.name))
  BY <1>5 DEF Max
<1>7. ids \in SUBSET DOMAIN sessions
  BY DEF FirearmSessions, AccessorySessions
<1>8. day \in Int
  BY ServiceDueAssumption DEF ServiceDueAssumption, TableInv, TypeOK
<1> HIDE DEF ids
<1>9. ElapsedCounts(MeasureFrom(i, LastServicePoint(i, q.name)), ids, day) =
        [days |-> 0, sessions |-> 0, rounds |-> 0]
  BY <1>4, <1>5, <1>6, <1>7, <1>8, NothingElapsed
<1>10. r.axis = IsDue(q.th, [days |-> 0, sessions |-> 0, rounds |-> 0])
  BY <1>1, <1>9 DEF ApplyDue
<1> QED BY <1>2, <1>10 DEF IsDue, Threshold

\* Where nothing but events of other rules comes or goes, an item's rule is what it was.
LEMMA RuleStays ==
  ASSUME UNCHANGED <<day, grants, mounted, sessions, defaults, rules>>, NEW u, NEW i,
         NEW r \in ItemDueState(u, i)',
         \A e : e.item = i /\ e.name = r.rule.name => (e \in events <=> e \in events')
  PROVE  r \in ItemDueState(u, i)
<1> DEFINE rs == ResolveEffectiveRules(LoadDefaults(OwnerOf[i], CategoryOf[i]), LoadItemRules(i))
           ids == IF i \in Firearms THEN FirearmSessions(i)
                  ELSE AccessorySessions(i, VisibleFirearms(u))
<1>1. rs' = rs /\ ids' = ids
  BY DEF LoadDefaults, LoadItemRules, ResolveEffectiveRules, FirearmSessions, AccessorySessions,
     VisibleFirearms, Permission
<1>2. PICK q \in rs : r = DueIn(sessions, i, q, LastServicePoint(i, q.name)', ids, day)
  <2>1. PagesShowDue'
    BY PagesAlwaysShowDue, PTL
  <2> QED BY <1>1, <2>1 DEF PagesShowDue
<1>3. r.rule = q
  BY <1>2 DEF DueIn
<1>4. LastServicePoint(i, q.name)' = LastServicePoint(i, q.name)
  <2>1. {x \in events' : x.item = i /\ x.name = q.name} =
          {x \in events : x.item = i /\ x.name = q.name}
    BY <1>3
  <2> QED BY <2>1 DEF LastServicePoint
<1> QED BY <1>2, <1>4, PagesAlwaysShowDue DEF PagesShowDue

\* And what it was it still is.
LEMMA RuleStaysOn ==
  ASSUME UNCHANGED <<day, grants, mounted, sessions, defaults, rules>>, NEW u, NEW i,
         NEW r \in ItemDueState(u, i),
         \A e : e.item = i /\ e.name = r.rule.name => (e \in events <=> e \in events')
  PROVE  r \in ItemDueState(u, i)'
<1> DEFINE rs == ResolveEffectiveRules(LoadDefaults(OwnerOf[i], CategoryOf[i]), LoadItemRules(i))
           ids == IF i \in Firearms THEN FirearmSessions(i)
                  ELSE AccessorySessions(i, VisibleFirearms(u))
<1>1. rs' = rs /\ ids' = ids
  BY DEF LoadDefaults, LoadItemRules, ResolveEffectiveRules, FirearmSessions, AccessorySessions,
     VisibleFirearms, Permission
<1>2. PICK q \in rs : r = DueIn(sessions, i, q, LastServicePoint(i, q.name), ids, day)
  BY PagesAlwaysShowDue DEF PagesShowDue
<1>3. r.rule = q
  BY <1>2 DEF DueIn
<1>4. LastServicePoint(i, q.name)' = LastServicePoint(i, q.name)
  <2>1. {x \in events' : x.item = i /\ x.name = q.name} =
          {x \in events : x.item = i /\ x.name = q.name}
    BY <1>3
  <2> QED BY <2>1 DEF LastServicePoint
<1>5. PagesShowDue'
  BY PagesAlwaysShowDue, PTL
<1> QED BY <1>1, <1>2, <1>4, <1>5 DEF PagesShowDue

\* What a backlog lists, for every reader.
BacklogListsWhatIsDue ==
  \A u \in Users : \A p : p \in Backlog(u) <=>
    \E i \in Answered(u) : Actionable(u, i) /\
      \E r \in ItemDueState(u, i) : r.axis # None /\ p = <<i, r.rule.name>>
LEMMA PairsAlways == TableInv => BacklogListsWhatIsDue
BY BacklogPairs DEF BacklogListsWhatIsDue

\* A rule serviced today is not due.
ServicedTodayIsClear ==
  \A u, i : \A r \in ItemDueState(u, i) :
    [item |-> i, name |-> r.rule.name, on |-> day] \in events => r.axis = None
LEMMA ClearAlways == TableInv => ServicedTodayIsClear
BY ServicedTodayIsNotDue DEF ServicedTodayIsClear

LEMMA TableInvStutters == ASSUME TableInv, UNCHANGED vars PROVE TableInv'
BY DEF vars, TableInv, TypeOK

LEMMA MarkingClears ==
  ASSUME TableInv, NEW u \in Users, MarkBacklog(u)
  PROVE  BacklogCanBeCleared'
<1>0. PICK ticked \in SUBSET Backlog(u) :
        LET ok == /\ Cardinality(ticked) <= MAX_BULK_SERVICE_ITEMS
                  /\ \A p \in ticked : MayLog(u, p[1]) /\ p[2] \in EffectiveNames(p[1])
            new == {[item |-> p[1], name |-> p[2], on |-> day] : p \in ticked}
        IN /\ events' = IF ok THEN events \union new ELSE events
           /\ marked' = [by |-> u, ticked |-> ticked, before |-> Backlog(u), ok |-> ok]
  BY DEF MarkBacklog
<1> DEFINE fits == Cardinality(ticked) <= MAX_BULK_SERVICE_ITEMS
           new == IF fits THEN {[item |-> p[1], name |-> p[2], on |-> day] : p \in ticked} ELSE {}
           left == IF fits THEN Backlog(u) \ ticked ELSE Backlog(u)
<1>1. /\ UNCHANGED <<day, grants, mounted, sessions, defaults, rules>>
      /\ events' = events \union new
      /\ marked' = [by |-> u, ticked |-> ticked, before |-> Backlog(u), ok |-> fits]
  <2> DEFINE all == \A p \in ticked : MayLog(u, p[1]) /\ p[2] \in EffectiveNames(p[1])
             ok == fits /\ all
             rows == {[item |-> p[1], name |-> p[2], on |-> day] : p \in ticked}
  <2>1. all
    BY BacklogMayBeWritten
  <2>2. /\ events' = IF ok THEN events \union rows ELSE events
        /\ marked' = [by |-> u, ticked |-> ticked, before |-> Backlog(u), ok |-> ok]
    BY <1>0
  <2>3. UNCHANGED <<day, grants, mounted, sessions, defaults, rules>>
    BY DEF MarkBacklog
  <2>4. new = IF fits THEN rows ELSE {}
    OBVIOUS
  <2> HIDE DEF all, rows, fits, new
  <2>5. ok <=> fits
    BY <2>1
  <2> HIDE DEF ok
  <2>6. ok = fits
    <3>1. ok \in BOOLEAN /\ fits \in BOOLEAN
      BY DEF ok, fits
    <3> QED BY <2>5, <3>1
  <2>7. events' = events \union new
    BY <2>2, <2>4, <2>6
  <2>8. marked' = [by |-> u, ticked |-> ticked, before |-> Backlog(u), ok |-> fits]
    BY <2>2, <2>6
  <2> QED BY <2>3, <2>7, <2>8
<1>2. TableInv'
  BY MarkBacklogKeeps
<1>3. /\ Answered(u)' = Answered(u) /\ \A i : Actionable(u, i)' <=> Actionable(u, i)
  BY <1>1 DEF Answered, VisibleFirearms, OwnAccessories, Permission, Actionable
<1>4. \A p : p \in Backlog(u)' <=>
           \E i \in Answered(u) : Actionable(u, i) /\
             \E r \in ItemDueState(u, i)' : r.axis # None /\ p = <<i, r.rule.name>>
  <2>1. TableInv' => BacklogListsWhatIsDue'
    BY PairsAlways, PTL
  <2> QED BY <1>2, <1>3, <2>1 DEF BacklogListsWhatIsDue
<1>5. \A i : \A r \in ItemDueState(u, i)' :
        [item |-> i, name |-> r.rule.name, on |-> day] \in events' => r.axis = None
  <2>1. TableInv' => ServicedTodayIsClear'
    BY ClearAlways, PTL
  <2> QED BY <1>1, <1>2, <2>1 DEF ServicedTodayIsClear
\* What is still due was due, and was not ticked or the call was refused.
<1>6. ASSUME NEW i \in Answered(u), Actionable(u, i), NEW r \in ItemDueState(u, i)',
             r.axis # None
      PROVE  <<i, r.rule.name>> \in left
  <2>1. \A e \in new : fits /\ \E p \in ticked : e = [item |-> p[1], name |-> p[2], on |-> day]
    OBVIOUS
  <2>2. <<i, r.rule.name>> \in ticked /\ fits => [item |-> i, name |-> r.rule.name, on |-> day] \in new
    OBVIOUS
  <2>3. \A p \in ticked : p = <<p[1], p[2]>>
    BY BacklogPairs
  <2> HIDE DEF new
  <2>4. ~(<<i, r.rule.name>> \in ticked /\ fits)
    BY <1>1, <1>5, <1>6, <2>2
  <2>5. \A e : e.item = i /\ e.name = r.rule.name => (e \in events <=> e \in events')
    <3> SUFFICES ASSUME NEW e \in new, e.item = i, e.name = r.rule.name PROVE FALSE
      BY <1>1
    <3>1. PICK p \in ticked : fits /\ e = [item |-> p[1], name |-> p[2], on |-> day]
      BY <2>1
    <3>2. p = <<i, r.rule.name>>
      BY <2>3, <3>1
    <3> QED BY <2>4, <3>1, <3>2
  <2>6. r \in ItemDueState(u, i)
    BY <1>1, <2>5, RuleStays
  <2>7. <<i, r.rule.name>> \in Backlog(u)
    BY <1>6, <2>6, BacklogPairs
  <2> QED BY <2>4, <2>7
\* What was due and is not ticked, or not taken, still is.
<1>7. ASSUME NEW i \in Answered(u), Actionable(u, i), NEW r \in ItemDueState(u, i),
             r.axis # None, <<i, r.rule.name>> \in left
      PROVE  r \in ItemDueState(u, i)'
  <2>1. \A e \in new : fits /\ \E p \in ticked : e = [item |-> p[1], name |-> p[2], on |-> day]
    OBVIOUS
  <2>2. \A p \in ticked : p = <<p[1], p[2]>>
    BY BacklogPairs
  <2> HIDE DEF new
  <2>3. \A e : e.item = i /\ e.name = r.rule.name => (e \in events <=> e \in events')
    <3> SUFFICES ASSUME NEW e \in new, e.item = i, e.name = r.rule.name PROVE FALSE
      BY <1>1
    <3>1. PICK p \in ticked : fits /\ e = [item |-> p[1], name |-> p[2], on |-> day]
      BY <2>1
    <3>2. p = <<i, r.rule.name>>
      BY <2>2, <3>1
    <3> QED BY <1>7, <3>1, <3>2
  <2> QED BY <1>1, <1>7, <2>3, RuleStaysOn
<1>8. Backlog(u)' = left
  <2>1. ASSUME NEW p \in Backlog(u)' PROVE p \in left
    BY <1>4, <1>6, <2>1
  <2>2. ASSUME NEW p \in left PROVE p \in Backlog(u)'
    <3>1. p \in Backlog(u)
      BY <2>2
    <3>2. PICK i \in Answered(u) : Actionable(u, i) /\
            \E r \in ItemDueState(u, i) : r.axis # None /\ p = <<i, r.rule.name>>
      BY <3>1, BacklogPairs
    <3>3. PICK r \in ItemDueState(u, i) : r.axis # None /\ p = <<i, r.rule.name>>
      BY <3>2
    <3> HIDE DEF left
    <3>4. r \in ItemDueState(u, i)'
      BY <1>7, <2>2, <3>2, <3>3
    <3> QED BY <1>4, <3>2, <3>3, <3>4
  <2> HIDE DEF left
  <2> QED BY <2>1, <2>2
<1>9. /\ marked'.by = u /\ marked'.ok = fits /\ marked'.ticked = ticked
      /\ marked'.before = Backlog(u)
  <2> HIDE DEF fits
  <2> QED BY <1>1
<1> QED BY <1>8, <1>9 DEF BacklogCanBeCleared

\* Only a user marks.
Marker == marked.by \in Users \union {None}

\* Where the tables stay as they are, so does what is due.
LEMMA NothingHappens ==
  ASSUME TableInv, Marker, BacklogCanBeCleared, UNCHANGED vars
  PROVE  BacklogCanBeCleared'
<1>1. /\ UNCHANGED <<day, grants, mounted, sessions, defaults, rules>>
      /\ events' = events /\ marked' = marked
  BY DEF vars
<1>2. TableInv'
  BY TableInvStutters
<1>3. BacklogListsWhatIsDue'
  <2>1. TableInv' => BacklogListsWhatIsDue'
    BY PairsAlways, PTL
  <2> QED BY <1>2, <2>1
<1> SUFFICES ASSUME NEW u \in Users PROVE Backlog(u)' = Backlog(u)
  <2>1. \A u \in Users : Backlog(u)' = Backlog(u)
    OBVIOUS
  <2> QED BY <1>1, <2>1 DEF Marker, BacklogCanBeCleared
<1>4. Answered(u)' = Answered(u) /\ \A i : Actionable(u, i)' <=> Actionable(u, i)
  BY <1>1 DEF Answered, VisibleFirearms, OwnAccessories, Permission, Actionable
<1>5. \A i, r : r \in ItemDueState(u, i) <=> r \in ItemDueState(u, i)'
  BY <1>1, RuleStays, RuleStaysOn
<1>6. \A p : p \in Backlog(u)' <=>
           \E i \in Answered(u) : Actionable(u, i) /\
             \E r \in ItemDueState(u, i)' : r.axis # None /\ p = <<i, r.rule.name>>
  BY <1>3, <1>4 DEF BacklogListsWhatIsDue
<1>7. \A p : p \in Backlog(u) <=>
           \E i \in Answered(u) : Actionable(u, i) /\
             \E r \in ItemDueState(u, i) : r.axis # None /\ p = <<i, r.rule.name>>
  BY BacklogPairs
<1> QED BY <1>5, <1>6, <1>7

\* Whatever is due by whichever axis, the backlog can be cleared in calls within the limit
\* (buildServiceBacklog, logServiceEventsBulk): such a call never fails and takes off just
\* what it was sent; a larger one is refused and changes nothing.
THEOREM BacklogCanAlwaysBeCleared == Spec => []BacklogCanBeCleared
<1>1. Init => Marker /\ BacklogCanBeCleared
  BY DEF Init, NotMarked, Marker, BacklogCanBeCleared
<1>2. TableInv /\ (Marker /\ BacklogCanBeCleared) /\ [Next]_vars => Marker' /\ BacklogCanBeCleared'
  <2> SUFFICES ASSUME TableInv, Marker, BacklogCanBeCleared, [Next]_vars
               PROVE  Marker' /\ BacklogCanBeCleared'
    OBVIOUS
  <2>1. CASE UNCHANGED vars
    BY <2>1, NothingHappens DEF Marker, vars
  <2>2. ASSUME NEW u \in Users, MarkBacklog(u) PROVE Marker' /\ BacklogCanBeCleared'
    <3>1. marked'.by = u
      BY <2>2 DEF MarkBacklog
    <3> QED BY <2>2, <3>1, MarkingClears DEF Marker
  <2>3. CASE Unmarked
    BY <2>3 DEF Unmarked, NotMarked, Marker, BacklogCanBeCleared
  <2>4. Next => Unmarked \/ \E u \in Users : MarkBacklog(u)
    BY DEF Next, NextDay, LogServiceEvent, ChangeEvent, CreateRangeSession, ChangeRangeSession,
       Share, Mount, ConfigureItem, ConfigureDefault
  <2> QED BY <2>1, <2>2, <2>3, <2>4
<1> QED BY <1>1, <1>2, TableInvariant, PTL DEF Spec

-----------------------------------------------------------------------------
(* Sums of rounds.                                                         *)

\* Counting up from 0 reaches every number.
LEMMA CountingUp ==
  ASSUME NEW B, 0 \in B, \A k \in Nat : k \in B => k + 1 \in B
  PROVE  \A k \in Nat : k \in B
<1> DEFINE C == {k \in Nat : k \notin B}
           R == OpToRel(<, Nat)
<1> SUFFICES ASSUME C # {} PROVE FALSE
  OBVIOUS
<1>1. PICK m \in C : \A c \in C : ~ (<<c, m>> \in R)
  <2>1. C \subseteq Nat
    OBVIOUS
  <2> HIDE DEF C
  <2> QED BY <2>1, WFMin, NatLessThanWellFounded, Zenon
<1>2. \A c, d \in Nat : c < d => <<c, d>> \in R
  BY Zenon DEF OpToRel
<1> HIDE DEF R
<1>3. m \in Nat /\ m # 0 /\ m \notin B
  OBVIOUS
<1>4. m - 1 \in Nat /\ m - 1 < m /\ (m - 1) + 1 = m
  BY <1>3
<1>5. m - 1 \in B
  BY <1>1, <1>2, <1>3, <1>4
<1> QED BY <1>3, <1>4, <1>5

\* A sum over T takes one element after the other away from it: sums g over the
\* subsets of S, of the rounds of f.
SumStep(f, T, g) ==
  LET s == CHOOSE x \in T : TRUE IN IF T = {} THEN 0 ELSE f[s].rounds + g[T \ {s}]
SumsOver(f, S, g) == [T \in SUBSET S |-> SumStep(f, T, g)]
Sums(f, S) == CHOOSE g : g = SumsOver(f, S, g)
RoundsOf(f, S) == MapThenSumSet(LAMBDA s : f[s].rounds, S)

LEMMA RoundsAreSums == ASSUME NEW f, NEW S PROVE RoundsOf(f, S) = Sums(f, S)[S]
BY DEF RoundsOf, MapThenSumSet, MapThenFoldSet, Sums, SumsOver, SumStep

\* There are such sums, for the sets of up to k elements and so for all of them.
LEMMA SumsExist ==
  ASSUME NEW f, NEW S, IsFiniteSet(S)
  PROVE  Sums(f, S) = SumsOver(f, S, Sums(f, S))
<1> DEFINE Upto(k) == {T \in SUBSET S : Cardinality(T) <= k}
           Has(k, g) == g = [T \in Upto(k) |-> SumStep(f, T, g)]
           B == {k \in Nat : \E g : Has(k, g)}
<1>1. \A T \in SUBSET S : /\ IsFiniteSet(T) /\ Cardinality(T) \in Nat
                          /\ Cardinality(T) <= Cardinality(S)
                          /\ Cardinality(T) = 0 <=> T = {}
  BY FS_Subset, FS_CardinalityType, FS_EmptySet
<1>2. ASSUME NEW T \in SUBSET S, T # {}
      PROVE  LET s == CHOOSE x \in T : TRUE
             IN s \in T /\ T \ {s} \in SUBSET S /\ Cardinality(T \ {s}) = Cardinality(T) - 1
  BY <1>1, <1>2, FS_RemoveElement
<1>3. 0 \in B
  <2> DEFINE g == [T \in Upto(0) |-> 0]
  <2>1. \A T \in Upto(0) : T = {}
    BY <1>1
  <2>2. Has(0, g)
    BY <2>1 DEF SumStep
  <2> QED BY <2>2
<1>4. ASSUME NEW k \in Nat, k \in B PROVE k + 1 \in B
  <2>1. PICK h : Has(k, h)
    BY <1>4
  <2> DEFINE g == [T \in Upto(k + 1) |-> SumStep(f, T, h)]
  <2>2. \A T \in Upto(k) : T \in Upto(k + 1) /\ h[T] = SumStep(f, T, h) /\ g[T] = h[T]
    BY <1>1, <2>1
  <2>3. ASSUME NEW T \in Upto(k + 1) PROVE SumStep(f, T, h) = SumStep(f, T, g)
    <3>1. CASE T = {}
      BY <3>1 DEF SumStep
    <3>2. CASE T # {}
      <4> DEFINE s == CHOOSE x \in T : TRUE
      <4>1. T \ {s} \in Upto(k)
        BY <1>1, <1>2, <3>2
      <4>2. h[T \ {s}] = g[T \ {s}]
        BY <2>2, <4>1
      <4> HIDE DEF g
      <4> QED BY <4>2, <3>2 DEF SumStep
    <3> QED BY <3>1, <3>2
  <2>4. g = [T \in Upto(k + 1) |-> SumStep(f, T, g)]
    <3>1. g = [T \in Upto(k + 1) |-> SumStep(f, T, h)]
      OBVIOUS
    <3> HIDE DEF g, Upto
    <3> QED BY <2>3, <3>1
  <2> HIDE DEF g
  <2> QED BY <2>4
<1>5. Cardinality(S) \in B
  <2> HIDE DEF B
  <2> QED BY <1>1, <1>3, <1>4, CountingUp
<1>6. PICK g : Has(Cardinality(S), g)
  BY <1>5
<1>7. Upto(Cardinality(S)) = SUBSET S
  BY <1>1
<1>8. g = SumsOver(f, S, g)
  BY <1>6, <1>7 DEF SumsOver
<1> QED BY <1>8 DEF Sums

\* Sums g of whole numbers of rounds.
AreSums(f, S, g) ==
  IsFiniteSet(S) /\ (\A s \in S : f[s].rounds \in Nat) /\ g = SumsOver(f, S, g)

\* Sums over the sets of up to k elements are compared by counting k up.
LEMMA SumsAreNumbers ==
  ASSUME NEW f, NEW S, NEW g, AreSums(f, S, g)
  PROVE  \A T \in SUBSET S : g[T] \in Nat
<1> DEFINE B == {k \in Nat : \A T \in SUBSET S : Cardinality(T) <= k => g[T] \in Nat}
<1>1. \A T \in SUBSET S : Cardinality(T) \in Nat /\ (Cardinality(T) = 0 <=> T = {})
  BY FS_Subset, FS_CardinalityType, FS_EmptySet DEF AreSums
<1>2. \A T \in SUBSET S : g[T] = SumStep(f, T, g)
  BY DEF SumsOver, AreSums
<1>3. 0 \in B
  BY <1>1, <1>2 DEF SumStep
<1>4. ASSUME NEW k \in Nat, k \in B PROVE k + 1 \in B
  <2> SUFFICES ASSUME NEW T \in SUBSET S, Cardinality(T) <= k + 1, T # {} PROVE g[T] \in Nat
    BY <1>2 DEF SumStep
  <2> DEFINE s == CHOOSE x \in T : TRUE
  <2>1. s \in T /\ IsFiniteSet(T)
    BY FS_Subset DEF AreSums
  <2>2. T \ {s} \in SUBSET S /\ Cardinality(T \ {s}) = Cardinality(T) - 1
    BY <2>1, FS_RemoveElement
  <2>3. g[T \ {s}] \in Nat
    BY <1>1, <1>4, <2>2
  <2>4. g[T] = f[s].rounds + g[T \ {s}]
    BY <1>2 DEF SumStep
  <2> QED BY <2>1, <2>3, <2>4 DEF AreSums
<1>5. \A k \in Nat : k \in B
  <2> HIDE DEF B
  <2> QED BY <1>3, <1>4, CountingUp
<1> QED BY <1>1, <1>5

\* Whichever element is taken away.
AnyMayGo(f, S, g) == \A T \in SUBSET S : \A x \in T : g[T] = f[x].rounds + g[T \ {x}]
LEMMA SumRemove ==
  ASSUME NEW f, NEW S, NEW g, AreSums(f, S, g)
  PROVE  AnyMayGo(f, S, g)
<1> DEFINE B == {k \in Nat : \A T \in SUBSET S : Cardinality(T) <= k =>
                   \A x \in T : g[T] = f[x].rounds + g[T \ {x}]}
<1>1. \A T \in SUBSET S : Cardinality(T) \in Nat /\ (Cardinality(T) = 0 <=> T = {})
  BY FS_Subset, FS_CardinalityType, FS_EmptySet DEF AreSums
<1>2. \A T \in SUBSET S : g[T] = SumStep(f, T, g) /\ g[T] \in Nat
  BY SumsAreNumbers DEF SumsOver, AreSums
<1>3. 0 \in B
  BY <1>1
<1>4. ASSUME NEW k \in Nat, k \in B PROVE k + 1 \in B
  <2> SUFFICES ASSUME NEW T \in SUBSET S, Cardinality(T) <= k + 1, NEW x \in T
               PROVE  g[T] = f[x].rounds + g[T \ {x}]
    OBVIOUS
  <2> DEFINE s == CHOOSE y \in T : TRUE
  <2>1. s \in T /\ x \in T /\ IsFiniteSet(T) /\ IsFiniteSet(T \ {x})
    BY FS_Subset DEF AreSums
  <2>2. g[T] = f[s].rounds + g[T \ {s}]
    BY <1>2 DEF SumStep
  <2> HIDE DEF s
  <2>3. CASE x # s
    <3>1. /\ T \ {s} \in SUBSET S /\ x \in T \ {s} /\ Cardinality(T \ {s}) = Cardinality(T) - 1
          /\ T \ {x} \in SUBSET S /\ s \in T \ {x} /\ Cardinality(T \ {x}) = Cardinality(T) - 1
      BY <2>1, <2>3, FS_RemoveElement
    <3>2. Cardinality(T \ {s}) <= k /\ Cardinality(T \ {x}) <= k
      BY <1>1, <3>1
    <3>3. g[T \ {s}] = f[x].rounds + g[(T \ {s}) \ {x}]
      BY <1>4, <3>1, <3>2
    <3>4. g[T \ {x}] = f[s].rounds + g[(T \ {x}) \ {s}]
      BY <1>4, <3>1, <3>2
    <3> DEFINE V == (T \ {s}) \ {x}
    <3>5. V = (T \ {x}) \ {s} /\ V \in SUBSET S
      OBVIOUS
    <3>6. g[T \ {s}] = f[x].rounds + g[V] /\ g[T \ {x}] = f[s].rounds + g[V]
      BY <3>3, <3>4, <3>5
    <3>7. g[V] \in Nat /\ f[x].rounds \in Nat /\ f[s].rounds \in Nat
      BY <1>2, <2>1, <3>5 DEF AreSums
    <3> HIDE DEF V
    <3> QED BY <2>2, <3>6, <3>7
  <2> QED BY <2>2, <2>3
<1>5. \A k \in Nat : k \in B
  <2> HIDE DEF B
  <2> QED BY <1>3, <1>4, CountingUp
<1> SUFFICES ASSUME NEW T \in SUBSET S, NEW x \in T PROVE g[T] = f[x].rounds + g[T \ {x}]
  BY DEF AnyMayGo
<1>6. Cardinality(T) \in B /\ Cardinality(T) <= Cardinality(T)
  BY <1>1, <1>5
<1> QED BY <1>6

\* More sessions do not make fewer rounds.
LEMMA SumsGrow ==
  ASSUME NEW f, NEW S, NEW g, AreSums(f, S, g)
  PROVE  \A U \in SUBSET S : \A T \in SUBSET U : g[T] <= g[U]
<1> DEFINE B == {k \in Nat : \A U \in SUBSET S : Cardinality(U) <= k =>
                   \A T \in SUBSET U : g[T] <= g[U]}
<1>1. \A T \in SUBSET S : /\ Cardinality(T) \in Nat /\ IsFiniteSet(T) /\ g[T] \in Nat
                          /\ Cardinality(T) = 0 <=> T = {}
  BY FS_Subset, FS_CardinalityType, FS_EmptySet, SumsAreNumbers DEF AreSums
<1>2. AnyMayGo(f, S, g)
  BY SumRemove
<1>3. 0 \in B
  <2> SUFFICES ASSUME NEW U \in SUBSET S, Cardinality(U) <= 0, NEW T \in SUBSET U
               PROVE  g[T] <= g[U]
    OBVIOUS
  <2>1. Cardinality(U) = 0
    BY <1>1
  <2>2. U = {}
    BY <1>1, <2>1
  <2>3. T = U
    BY <2>2
  <2> QED BY <1>1, <2>3
<1>4. ASSUME NEW k \in Nat, k \in B PROVE k + 1 \in B
  <2> SUFFICES ASSUME NEW U \in SUBSET S, Cardinality(U) <= k + 1, NEW T \in SUBSET U, T # U
               PROVE  g[T] <= g[U]
    BY <1>1
  <2>1. PICK x \in U : x \notin T
    OBVIOUS
  <2>2. U \ {x} \in SUBSET S /\ T \in SUBSET (U \ {x}) /\ Cardinality(U \ {x}) = Cardinality(U) - 1
    BY <1>1, <2>1, FS_RemoveElement
  <2>3. g[T] <= g[U \ {x}]
    BY <1>1, <1>4, <2>2
  <2>4. g[U] = f[x].rounds + g[U \ {x}]
    BY <1>2 DEF AnyMayGo
  <2>5. g[T] \in Nat /\ g[U] \in Nat /\ g[U \ {x}] \in Nat /\ f[x].rounds \in Nat
    BY <1>1, <2>2 DEF AreSums
  <2> QED BY <2>3, <2>4, <2>5
<1>5. \A k \in Nat : k \in B
  <2> HIDE DEF B
  <2> QED BY <1>3, <1>4, CountingUp
<1> SUFFICES ASSUME NEW U \in SUBSET S, NEW T \in SUBSET U PROVE g[T] <= g[U]
  OBVIOUS
<1>6. Cardinality(U) \in B /\ Cardinality(U) <= Cardinality(U)
  BY <1>1, <1>5
<1> QED BY <1>6

\* Sums of the same rounds over the same sessions are the same.
LEMMA SumsAgree ==
  ASSUME NEW f, NEW S, NEW g, AreSums(f, S, g), NEW h, NEW R, NEW q, AreSums(h, R, q),
         \A s \in S \intersect R : f[s].rounds = h[s].rounds
  PROVE  \A T \in SUBSET (S \intersect R) : g[T] = q[T]
<1> DEFINE B == {k \in Nat : \A T \in SUBSET (S \intersect R) : Cardinality(T) <= k => g[T] = q[T]}
<1>1. \A T \in SUBSET S : /\ Cardinality(T) \in Nat /\ IsFiniteSet(T)
                          /\ Cardinality(T) = 0 <=> T = {}
  BY FS_Subset, FS_CardinalityType, FS_EmptySet DEF AreSums
<1>2. \A T \in SUBSET (S \intersect R) : g[T] = SumStep(f, T, g) /\ q[T] = SumStep(h, T, q)
  <2>1. g = SumsOver(f, S, g) /\ q = SumsOver(h, R, q)
    BY DEF AreSums
  <2> QED BY <2>1 DEF SumsOver
<1>3. 0 \in B
  <2> SUFFICES ASSUME NEW T \in SUBSET (S \intersect R), Cardinality(T) <= 0 PROVE g[T] = q[T]
    OBVIOUS
  <2>1. Cardinality(T) = 0
    BY <1>1
  <2>2. T = {}
    BY <1>1, <2>1
  <2> QED BY <1>2, <2>2 DEF SumStep
<1>4. ASSUME NEW k \in Nat, k \in B PROVE k + 1 \in B
  <2> SUFFICES ASSUME NEW T \in SUBSET (S \intersect R), Cardinality(T) <= k + 1, T # {}
               PROVE  g[T] = q[T]
    BY <1>2 DEF SumStep
  <2> DEFINE s == CHOOSE x \in T : TRUE
  <2>1. s \in T /\ T \ {s} \in SUBSET (S \intersect R) /\ Cardinality(T \ {s}) = Cardinality(T) - 1
    BY <1>1, FS_RemoveElement
  <2>2. g[T] = f[s].rounds + g[T \ {s}] /\ q[T] = h[s].rounds + q[T \ {s}]
    BY <1>2 DEF SumStep
  <2> HIDE DEF s
  <2>3. g[T \ {s}] = q[T \ {s}] /\ f[s].rounds = h[s].rounds
    <3>1. Cardinality(T \ {s}) <= k
      BY <1>1, <2>1
    <3> QED BY <1>4, <2>1, <3>1
  <2> QED BY <2>2, <2>3
<1>5. \A k \in Nat : k \in B
  <2> HIDE DEF B
  <2> QED BY <1>3, <1>4, CountingUp
<1> SUFFICES ASSUME NEW T \in SUBSET (S \intersect R) PROVE g[T] = q[T]
  OBVIOUS
<1>6. Cardinality(T) \in B /\ Cardinality(T) <= Cardinality(T)
  BY <1>1, <1>5
<1> QED BY <1>6

\* Rounds of some sessions, and of more of them.
LEMMA RoundsGrow ==
  ASSUME NEW f, NEW h, NEW U, IsFiniteSet(U), NEW T \in SUBSET U,
         \A s \in U : h[s].rounds \in Nat, \A s \in T : f[s].rounds = h[s].rounds
  PROVE  /\ RoundsOf(f, T) \in Nat /\ RoundsOf(h, U) \in Nat
         /\ RoundsOf(f, T) <= RoundsOf(h, U)
<1>1. AreSums(f, T, Sums(f, T)) /\ AreSums(h, U, Sums(h, U))
  BY SumsExist, FS_Subset DEF AreSums
<1>2. T \in SUBSET (T \intersect U) /\ \A s \in T \intersect U : f[s].rounds = h[s].rounds
  OBVIOUS
<1>3. Sums(f, T)[T] = Sums(h, U)[T]
  BY <1>1, <1>2, SumsAgree
<1>4. Sums(h, U)[T] \in Nat /\ Sums(h, U)[U] \in Nat
  BY <1>1, SumsAreNumbers
<1>5. Sums(h, U)[T] <= Sums(h, U)[U]
  BY <1>1, SumsGrow
<1> QED BY <1>3, <1>4, <1>5, RoundsAreSums

LEMMA RoundsSame ==
  ASSUME NEW f, NEW h, NEW S, \A s \in S : f[s].rounds = h[s].rounds
  PROVE  RoundsOf(f, S) = RoundsOf(h, S)
<1>1. ASSUME NEW g PROVE SumsOver(f, S, g) = SumsOver(h, S, g)
  BY DEF SumsOver, SumStep
<1> QED BY <1>1, RoundsAreSums DEF Sums

-----------------------------------------------------------------------------
(* What somebody is shown changes for a reason he can see.                 *)

\* The totals, as functions of the sessions there are.
TotalsShowRounds ==
  \A u : /\ LifetimeRoundTotals(u) =
              [f \in VisibleFirearms(u) |-> RoundsOf(sessions, FirearmSessions(f))]
         /\ \A x : AccessoryRoundsFired(u, x) =
              IF SeesAccessory(u, x)
              THEN RoundsOf(sessions, AccessorySessions(x, VisibleFirearms(u))) ELSE None
LEMMA TotalsAlwaysShowRounds == TotalsShowRounds
<1>1. \A ids : SumOfRounds(ids) = RoundsOf(sessions, ids)
  BY DEF SumOfRounds, RoundsOf
<1> QED BY <1>1 DEF TotalsShowRounds, LifetimeRoundTotals, AccessoryRoundsFired

\* The same sessions count the same.
LEMMA ElapsedSame ==
  ASSUME NEW f, NEW h, NEW ids, \A s \in ids : f[s] = h[s], NEW from, NEW asOf
  PROVE  ElapsedIn(f, from, ids, asOf) = ElapsedIn(h, from, ids, asOf)
<1> DEFINE fired == {s \in ids : Counted(f[s], from, asOf)}
<1>1. fired = {s \in ids : Counted(h[s], from, asOf)} /\ \A s \in fired : f[s].rounds = h[s].rounds
  OBVIOUS
<1>2. RoundsOf(f, fired) = RoundsOf(h, fired)
  BY <1>1, RoundsSame
<1>3. /\ ElapsedIn(f, from, ids, asOf) =
           [days |-> Max({0, asOf - from}), sessions |-> Cardinality(fired),
             rounds |-> RoundsOf(f, fired)]
      /\ ElapsedIn(h, from, ids, asOf) =
           LET g == {s \in ids : Counted(h[s], from, asOf)}
           IN [days |-> Max({0, asOf - from}), sessions |-> Cardinality(g),
                rounds |-> RoundsOf(h, g)]
  BY DEF ElapsedIn, RoundsOf
<1> QED BY <1>1, <1>2, <1>3

\* Nothing u is shown is about a session of a firearm u cannot see.
LEMMA NothingLeaks ==
  ASSUME NEW u, UNCHANGED <<day, grants, mounted, events, defaults, rules>>,
         \A s \in DOMAIN sessions \union DOMAIN sessions' :
            \/ s \in DOMAIN sessions \intersect DOMAIN sessions' /\ sessions[s] = sessions'[s]
            \/ /\ s \in DOMAIN sessions => sessions[s].gun \notin VisibleFirearms(u)
               /\ s \in DOMAIN sessions' => sessions'[s].gun \notin VisibleFirearms(u)
  PROVE  Seen(u)' = Seen(u)
<1> DEFINE V == VisibleFirearms(u)
           Of(i) == IF i \in Firearms THEN FirearmSessions(i) ELSE AccessorySessions(i, V)
<1>1. /\ V' = V /\ Answered(u)' = Answered(u)
      /\ \A x : SeesAccessory(u, x)' <=> SeesAccessory(u, x)
  BY DEF VisibleFirearms, Answered, OwnAccessories, SeesAccessory, Permission
<1>2. \A f \in V : FirearmSessions(f)' = FirearmSessions(f) /\
                   \A s \in FirearmSessions(f) : sessions'[s] = sessions[s]
  BY DEF FirearmSessions
<1>3. \A x : AccessorySessions(x, V)' = AccessorySessions(x, V) /\
             \A s \in AccessorySessions(x, V) : sessions'[s] = sessions[s]
  BY <1>1 DEF AccessorySessions
<1>4. ASSUME NEW i \in Answered(u) PROVE ItemDueState(u, i)' = ItemDueState(u, i)
  <2>1. Of(i)' = Of(i) /\ \A s \in Of(i) : sessions'[s] = sessions[s]
    <3>1. i \in Firearms => i \in V
      BY <1>4 DEF Answered, VisibleFirearms, OwnAccessories, Permission, None
    <3> QED BY <1>2, <1>3, <3>1
  <2>2. /\ LoadDefaults(OwnerOf[i], CategoryOf[i])' = LoadDefaults(OwnerOf[i], CategoryOf[i])
        /\ LoadItemRules(i)' = LoadItemRules(i)
        /\ \A n : LastServicePoint(i, n)' = LastServicePoint(i, n)
    BY DEF LoadDefaults, LoadItemRules, LastServicePoint
  <2>3. PagesShowDue /\ PagesShowDue'
    BY PagesAlwaysShowDue, PTL
  <2> DEFINE rs == ResolveEffectiveRules(LoadDefaults(OwnerOf[i], CategoryOf[i]), LoadItemRules(i))
  <2>4. \A q : DueIn(sessions', i, q, LastServicePoint(i, q.name), Of(i), day) =
               DueIn(sessions, i, q, LastServicePoint(i, q.name), Of(i), day)
    <3> HIDE DEF Of
    <3> QED BY <2>1, ElapsedSame DEF DueIn
  <2>5. ItemDueState(u, i) =
          {DueIn(sessions, i, q, LastServicePoint(i, q.name), Of(i), day) : q \in rs}
    BY <2>3 DEF PagesShowDue
  <2>6. ItemDueState(u, i)' =
          {DueIn(sessions', i, q, LastServicePoint(i, q.name)', Of(i)', day') : q \in rs'}
    BY <2>3 DEF PagesShowDue
  <2>7. rs' = rs
    BY <2>2 DEF ResolveEffectiveRules
  <2> HIDE DEF Of, rs
  <2> QED BY <2>1, <2>2, <2>4, <2>5, <2>6, <2>7
<1>5. LifetimeRoundTotals(u)' = LifetimeRoundTotals(u)
  <2>1. TotalsShowRounds /\ TotalsShowRounds'
    BY TotalsAlwaysShowRounds, PTL
  <2>2. \A f \in V : RoundsOf(sessions', FirearmSessions(f)) =
          RoundsOf(sessions, FirearmSessions(f))
    BY <1>2, RoundsSame
  <2>3. LifetimeRoundTotals(u) = [f \in V |-> RoundsOf(sessions, FirearmSessions(f))]
    BY <2>1 DEF TotalsShowRounds
  <2>4. LifetimeRoundTotals(u)' = [f \in V' |-> RoundsOf(sessions', FirearmSessions(f)')]
    BY <2>1 DEF TotalsShowRounds
  <2> HIDE DEF V
  <2> QED BY <1>1, <1>2, <2>2, <2>3, <2>4
<1>6. \A x : AccessoryRoundsFired(u, x)' = AccessoryRoundsFired(u, x)
  <2>1. TotalsShowRounds /\ TotalsShowRounds'
    BY TotalsAlwaysShowRounds, PTL
  <2>2. \A x : RoundsOf(sessions', AccessorySessions(x, V)) =
          RoundsOf(sessions, AccessorySessions(x, V))
    BY <1>3, RoundsSame
  <2> TAKE x
  <2>3. AccessoryRoundsFired(u, x) =
          IF SeesAccessory(u, x) THEN RoundsOf(sessions, AccessorySessions(x, V)) ELSE None
    BY <2>1 DEF TotalsShowRounds
  <2>4. AccessoryRoundsFired(u, x)' =
          IF SeesAccessory(u, x)' THEN RoundsOf(sessions', AccessorySessions(x, V)') ELSE None
    BY <2>1 DEF TotalsShowRounds
  <2> QED BY <1>1, <1>3, <2>2, <2>3, <2>4
<1> QED BY <1>1, <1>4, <1>5, <1>6 DEF Seen

\* Only days go by.
LEMMA DaysGoBy == TableInv /\ [Next]_vars => day \in Int /\ day' \in Int /\ day <= day'
<1> SUFFICES ASSUME TableInv, [Next]_vars PROVE day \in Int /\ day' \in Int /\ day <= day'
  OBVIOUS
<1>1. day \in Int
  BY ServiceDueAssumption DEF ServiceDueAssumption, TableInv, TypeOK
<1>2. day' = day \/ day' = day + 1
  BY DEF Next, NextDay, LogServiceEvent, MarkBacklog, ChangeEvent, CreateRangeSession,
     ChangeRangeSession, Share, Mount, ConfigureItem, ConfigureDefault, vars
<1> QED BY <1>1, <1>2

\* What has reached a threshold has reached it when more has elapsed.
LEMMA DueBeyond ==
  ASSUME NEW th \in Threshold, NEW c \in [days : Int, sessions : Int, rounds : Int],
         NEW d \in [days : Int, sessions : Int, rounds : Int],
         c.days <= d.days, c.sessions <= d.sessions, c.rounds <= d.rounds, IsDue(th, c) # None
  PROVE  IsDue(th, d) # None
<1>1. th.days \in Int /\ th.sessions \in Int /\ th.rounds \in Int
  BY DEF Threshold
<1>2. /\ c.days \in Int /\ c.sessions \in Int /\ c.rounds \in Int
      /\ d.days \in Int /\ d.sessions \in Int /\ d.rounds \in Int
  OBVIOUS
<1>3. \/ th.days # 0 /\ c.days >= th.days
      \/ th.sessions # 0 /\ c.sessions >= th.sessions
      \/ th.rounds # 0 /\ c.rounds >= th.rounds
  BY DEF IsDue
<1>4. \/ th.days # 0 /\ d.days >= th.days
      \/ th.sessions # 0 /\ d.sessions >= th.sessions
      \/ th.rounds # 0 /\ d.rounds >= th.rounds
  BY <1>1, <1>2, <1>3
<1> QED BY <1>4 DEF IsDue, None

\* More elapses with more sessions, by a later day.
LEMMA ElapsedGrows ==
  ASSUME NEW f, NEW h, NEW ids, NEW more, IsFiniteSet(more), ids \subseteq more,
         \A s \in ids : f[s] = h[s], \A s \in more : h[s].on \in Int /\ h[s].rounds \in Nat,
         NEW from \in Int, NEW today \in Int, NEW asOf \in Int, today <= asOf
  PROVE  LET c == ElapsedIn(f, from, ids, today)
             d == ElapsedIn(h, from, more, asOf)
         IN /\ c \in [days : Int, sessions : Int, rounds : Int]
            /\ d \in [days : Int, sessions : Int, rounds : Int]
            /\ c.days <= d.days /\ c.sessions <= d.sessions /\ c.rounds <= d.rounds
<1> DEFINE T == {s \in ids : Counted(f[s], from, today)}
           U == {s \in more : Counted(h[s], from, asOf)}
           p == Max({0, today - from})
           q == Max({0, asOf - from})
<1>1. T \subseteq U
  BY DEF Counted
<1>2. IsFiniteSet(U) /\ IsFiniteSet(T)
  BY <1>1, FS_Subset
<1>3. \A s \in U : h[s].rounds \in Nat
  OBVIOUS
<1>4. \A s \in T : f[s].rounds = h[s].rounds
  OBVIOUS
<1>5. /\ ElapsedIn(f, from, ids, today) =
           [days |-> p, sessions |-> Cardinality(T), rounds |-> RoundsOf(f, T)]
      /\ ElapsedIn(h, from, more, asOf) =
           [days |-> q, sessions |-> Cardinality(U), rounds |-> RoundsOf(h, U)]
  BY DEF ElapsedIn, RoundsOf
<1>6. p \in Int /\ q \in Int /\ p <= q
  <2>1. \A e \in Int : Max({0, e}) = IF e >= 0 THEN e ELSE 0
    BY DEF Max
  <2>2. today - from \in Int /\ asOf - from \in Int /\ today - from <= asOf - from
    OBVIOUS
  <2> QED BY <2>1, <2>2
<1> HIDE DEF T, U, p, q
<1>7. Cardinality(T) \in Nat /\ Cardinality(U) \in Nat /\ Cardinality(T) <= Cardinality(U)
  BY <1>1, <1>2, FS_Subset, FS_CardinalityType
<1>8. RoundsOf(f, T) \in Nat /\ RoundsOf(h, U) \in Nat /\ RoundsOf(f, T) <= RoundsOf(h, U)
  BY <1>1, <1>2, <1>3, <1>4, RoundsGrow
<1> QED BY <1>5, <1>6, <1>7, <1>8

\* The firearms their owners' accessories were on are seen by the owners.
LEMMA OwnersSeeTheirs ==
  ASSUME TableInv, NEW i
  PROVE  AccessorySessions(i, VisibleFirearms(OwnerOf[i])) =
           {s \in DOMAIN sessions : i \in sessions[s].used}
<1>1. \A s \in DOMAIN sessions : sessions[s].gun \in Firearms
  BY DEF TableInv, IsTable, SessionRow
<1>2. \A s \in DOMAIN sessions : i \in sessions[s].used => OwnerOf[sessions[s].gun] = OwnerOf[i]
  BY DEF TableInv, TypeOK
<1> QED BY <1>1, <1>2 DEF AccessorySessions, VisibleFirearms, Permission, None

\* A rule is measured from a day.
FromOf(i, n) == MeasureFrom(i, LastServicePoint(i, n))
LEMMA FromADay ==
  ASSUME TableInv, NEW i \in Items, NEW n
  PROVE  FromOf(i, n) \in Int
<1> DEFINE last == LastServicePoint(i, n)
           on == {e.on : e \in {x \in events : x.item = i /\ x.name = n}}
<1>1. on \subseteq Days
  BY DEF TableInv, TypeOK
<1>2. Days \subseteq Int
  BY ServiceDueAssumption DEF ServiceDueAssumption, Days, FUTURE_DATE_TOLERANCE_DAYS
<1>3. CASE on = {}
  <2>1. FromOf(i, n) = Origin[i]
    BY <1>3 DEF LastServicePoint, MeasureFrom, FromOf
  <2> QED BY <2>1, ServiceDueAssumption DEF ServiceDueAssumption
<1>4. CASE on # {}
  <2>1. last = {Max(on)}
    BY <1>4 DEF LastServicePoint
  <2> HIDE DEF on
  <2>2. FromOf(i, n) = Max({Max(on)})
    BY <2>1 DEF MeasureFrom, FromOf
  <2>3. Max(on) \in Int
    BY <1>1, <1>2, <1>4, LatestDay
  <2>4. Max({Max(on)}) = Max(on)
    BY <2>3 DEF Max
  <2> QED BY <2>2, <2>3, <2>4
<1> QED BY <1>3, <1>4

OwnersSee ==
  \A i : AccessorySessions(i, VisibleFirearms(OwnerOf[i])) =
    {s \in DOMAIN sessions : i \in sessions[s].used}
LEMMA OwnersAlwaysSee == TableInv => OwnersSee
BY OwnersSeeTheirs DEF OwnersSee

LEMMA DueStaysDue ==
  ASSUME TableInv, [Next]_vars, UNCHANGED <<defaults, rules>>,
         \A s \in DOMAIN sessions : s \in DOMAIN sessions' /\ sessions'[s] = sessions[s],
         NEW i \in Items, NEW n \in Names, Due(i, n),
         \A e : e.item = i /\ e.name = n => (e \in events <=> e \in events')
  PROVE  Due(i, n)'
<1> DEFINE u == OwnerOf[i]
           Of == IF i \in Firearms THEN FirearmSessions(i)
                 ELSE AccessorySessions(i, VisibleFirearms(u))
           rs == ResolveEffectiveRules(LoadDefaults(u, CategoryOf[i]), LoadItemRules(i))
           last == LastServicePoint(i, n)
           from == MeasureFrom(i, last)
<1>1. TableInv'
  BY StepKeeps
<1>2. /\ ItemDueState(u, i) =
           {DueIn(sessions, i, q, LastServicePoint(i, q.name), Of, day) : q \in rs}
      /\ ItemDueState(u, i)' =
           {DueIn(sessions', i, q, LastServicePoint(i, q.name)', Of', day') : q \in rs'}
  <2>1. PagesShowDue /\ PagesShowDue'
    BY PagesAlwaysShowDue, PTL
  <2> QED BY <2>1 DEF PagesShowDue
<1>3. rs' = rs
  BY DEF ResolveEffectiveRules, LoadDefaults, LoadItemRules
<1>4. last' = last
  <2>1. {x \in events' : x.item = i /\ x.name = n} = {x \in events : x.item = i /\ x.name = n}
    OBVIOUS
  <2> QED BY <2>1 DEF LastServicePoint
<1>5. Of \subseteq Of' /\ Of \subseteq DOMAIN sessions /\ Of' \subseteq DOMAIN sessions'
  <2>1. AccessorySessions(i, VisibleFirearms(u)) = {s \in DOMAIN sessions : i \in sessions[s].used}
    BY OwnersSeeTheirs
  <2>2. AccessorySessions(i, VisibleFirearms(u))' =
          {s \in DOMAIN sessions' : i \in sessions'[s].used}
    <3>1. OwnersSee'
      BY <1>1, OwnersAlwaysSee, PTL
    <3> QED BY <3>1 DEF OwnersSee
  <2> QED BY <2>1, <2>2 DEF FirearmSessions
<1>6. IsFiniteSet(Of') /\ \A s \in Of' : sessions'[s].on \in Int /\ sessions'[s].rounds \in Nat
  <2>1. IsFiniteSet(DOMAIN sessions') /\ \A s \in DOMAIN sessions' : sessions'[s] \in SessionRow
    BY <1>1 DEF TableInv, IsTable
  <2>2. \A r \in SessionRow : r.on \in Int /\ r.rounds \in Nat
    <3>1. Rounds \subseteq Nat /\ Days \subseteq Int
      BY ServiceDueAssumption DEF ServiceDueAssumption, Days, FUTURE_DATE_TOLERANCE_DAYS
    <3>2. \A r \in SessionRow : r.on \in Days /\ r.rounds \in Rounds
      BY DEF SessionRow
    <3> QED BY <3>1, <3>2
  <2> HIDE DEF Of
  <2> QED BY <1>5, <2>1, <2>2, FS_Subset
<1>7. from \in Int
  BY FromADay DEF FromOf
<1>8. PICK r \in ItemDueState(u, i) : r.rule.name = n /\ r.axis # None
  BY DEF Due
<1>9. PICK q \in rs : r = DueIn(sessions, i, q, LastServicePoint(i, q.name), Of, day)
  BY <1>2, <1>8
<1>10. q.name = n /\ q.th \in Threshold
  <2>1. r.rule = q
    BY <1>9 DEF DueIn
  <2> QED BY <1>8, <2>1, RuleThresholds
<1> DEFINE c == ElapsedIn(sessions, from, Of, day)
           d == ElapsedIn(sessions', from, Of', day')
           z == DueIn(sessions', i, q, last, Of', day')
<1>11. IsDue(q.th, c) # None
  BY <1>8, <1>9, <1>10 DEF DueIn
<1>12. day \in Int /\ day' \in Int /\ day <= day'
  BY DaysGoBy
<1>13. IsDue(q.th, d) # None
  <2> HIDE DEF Of, from, c, d
  <2>1. \A s \in Of : sessions[s] = sessions'[s]
    BY <1>5
  <2>2. /\ c \in [days : Int, sessions : Int, rounds : Int]
        /\ d \in [days : Int, sessions : Int, rounds : Int]
        /\ c.days <= d.days /\ c.sessions <= d.sessions /\ c.rounds <= d.rounds
    BY <1>5, <1>6, <1>7, <1>12, <2>1, ElapsedGrows DEF c, d
  <2> QED BY <1>10, <1>11, <2>2, DueBeyond
<1>14. z \in ItemDueState(u, i)'
  <2> HIDE DEF Of, rs
  <2> QED BY <1>2, <1>3, <1>4, <1>9, <1>10
<1>15. z.rule.name = n /\ z.axis # None
  BY <1>10, <1>13 DEF DueIn
<1> HIDE DEF z
<1> QED BY <1>14, <1>15 DEF Due

\* What somebody is shown changes for a reason he can see: a due mark goes away
\* only when the rule is serviced or configured or a session is taken back
\* (derive.ts), and the sessions of a firearm one may not see show in nothing (R9,
\* range-sessions/service.ts).
THEOREM ShownAlwaysChangesForAReason == Spec => ShownChangesForAReason
<1>1. TableInv /\ [Next]_vars =>
        (/\ UNCHANGED <<defaults, rules>>
         /\ \A s \in DOMAIN sessions : s \in DOMAIN sessions' /\ sessions'[s] = sessions[s]
         => \A i \in Items, n \in Names :
              Due(i, n) /\ ~Due(i, n)' =>
                \E e \in events \union events' :
                  e.item = i /\ e.name = n /\ (e \in events <=> e \notin events'))
  BY DueStaysDue
<1>2. \A u \in Users :
       /\ UNCHANGED <<day, grants, mounted, events, defaults, rules>>
       /\ \A s \in DOMAIN sessions \union DOMAIN sessions' :
            \/ s \in DOMAIN sessions \intersect DOMAIN sessions' /\ sessions[s] = sessions'[s]
            \/ /\ s \in DOMAIN sessions => sessions[s].gun \notin VisibleFirearms(u)
               /\ s \in DOMAIN sessions' => sessions'[s].gun \notin VisibleFirearms(u)
       => Seen(u)' = Seen(u)
  BY NothingLeaks
<1> QED BY <1>1, <1>2, TableInvariant, PTL DEF Spec, ShownChangesForAReason, DueStays, NoLeak

-----------------------------------------------------------------------------
(* Due state counts like meters.                                           *)

SessionsOf(i) ==
  IF i \in Firearms THEN FirearmSessions(i) ELSE {s \in DOMAIN sessions : i \in sessions[s].used}
FiredSince(i, from) == {s \in SessionsOf(i) : Counted(sessions[s], from, day)}

\* Every meter in full.
MetersShow ==
  \A i \in Items, n \in Names :
    Meter(i, n) = LET fired == FiredSince(i, FromOf(i, n))
                  IN Odometer!At(day - FromOf(i, n), Cardinality(fired), RoundsOf(sessions, fired))

LEMMA MetersAlwaysShow == TableInv => MetersShow
<1> SUFFICES ASSUME TableInv, NEW i \in Items, NEW n \in Names
             PROVE  Meter(i, n) = LET fired == FiredSince(i, FromOf(i, n))
                                  IN Odometer!At(day - FromOf(i, n), Cardinality(fired),
                                       RoundsOf(sessions, fired))
  BY DEF MetersShow
<1> DEFINE from == FromOf(i, n)
           c == ElapsedCounts(from, SessionsOf(i), day)
           fired == FiredSince(i, from)
<1>1. Meter(i, n) = [days |-> c.days, sessions |-> c.sessions, rounds |-> c.rounds,
        age |-> day - from]
  BY OwnersSeeTheirs DEF Meter, SessionsOf, FromOf
<1>2. c = [days |-> Max({0, day - from}), sessions |-> Cardinality(fired),
        rounds |-> RoundsOf(sessions, fired)]
  BY DEF ElapsedCounts, FiredSince, RoundsOf
<1>3. Max({0, day - from}) = IF day - from > 0 THEN day - from ELSE 0
  <2>1. \A e \in Int : Max({0, e}) = IF e > 0 THEN e ELSE 0
    BY DEF Max
  <2>2. day - from \in Int
    BY FromADay, ServiceDueAssumption DEF ServiceDueAssumption, TableInv, TypeOK
  <2> HIDE DEF from
  <2> QED BY <2>1, <2>2
<1> HIDE DEF from, c, fired
<1> QED BY <1>1, <1>2, <1>3 DEF Odometer!At, fired, from

\* Nothing counts from today.
LEMMA NothingSinceToday ==
  ASSUME TableInv, NEW i, NEW from \in Int, from >= day
  PROVE  FiredSince(i, from) = {}
<1>1. day \in Int
  BY ServiceDueAssumption DEF ServiceDueAssumption, TableInv, TypeOK
<1>2. \A s \in DOMAIN sessions : sessions[s].on \in Int
  BY ServiceDueAssumption DEF ServiceDueAssumption, TableInv, IsTable, SessionRow, Days,
     FUTURE_DATE_TOLERANCE_DAYS
<1>3. SessionsOf(i) \subseteq DOMAIN sessions
  BY DEF SessionsOf, FirearmSessions
<1> QED BY <1>1, <1>2, <1>3 DEF FiredSince, Counted

LEMMA AtFields ==
  \A age, s, r : LET m == Odometer!At(age, s, r) IN m.age = age /\ m.sessions = s /\ m.rounds = r
BY DEF Odometer!At

\* A day goes by: every meter runs.
LEMMA MetersRun ==
  ASSUME TableInv, OnTimeInv, ~late, NextDay, NEW i \in Items, NEW n \in Names
  PROVE  LET m == Meter(i, n) IN Meter(i, n)' = Odometer!At(m.age + 1, m.sessions, m.rounds)
<1> DEFINE from == FromOf(i, n)
           fired == FiredSince(i, from)
<1>1. TableInv' /\ day \in Int /\ day' = day + 1 /\ from \in Int
      /\ UNCHANGED <<events, sessions>>
  BY NextDayKeeps, FromADay, ServiceDueAssumption
     DEF ServiceDueAssumption, TableInv, TypeOK, NextDay
<1>2. MetersShow /\ MetersShow'
  <2>1. TableInv' => MetersShow'
    BY MetersAlwaysShow, PTL
  <2> QED BY <1>1, <2>1, MetersAlwaysShow
<1>3. from' = from /\ SessionsOf(i)' = SessionsOf(i)
  BY <1>1 DEF FromOf, LastServicePoint, SessionsOf, FirearmSessions
<1>4. FiredSince(i, from)' = fired
  <2>1. \A s \in SessionsOf(i) : sessions[s].on \in Int /\ sessions[s].on <= day
    <3>1. SessionsOf(i) \subseteq DOMAIN sessions
      BY DEF SessionsOf, FirearmSessions
    <3>2. \A s \in DOMAIN sessions : sessions[s].on \in Int
      BY ServiceDueAssumption DEF ServiceDueAssumption, TableInv, IsTable, SessionRow, Days,
         FUTURE_DATE_TOLERANCE_DAYS
    <3> QED BY <3>1, <3>2 DEF OnTimeInv
  <2> HIDE DEF from
  <2>2. FiredSince(i, from)' = {s \in SessionsOf(i) : Counted(sessions[s], from, day + 1)}
    BY <1>1, <1>3 DEF FiredSince, Counted
  <2>3. \A s \in SessionsOf(i) : Counted(sessions[s], from, day + 1) <=>
          Counted(sessions[s], from, day)
    BY <1>1, <2>1 DEF Counted
  <2> QED BY <2>2, <2>3 DEF FiredSince, fired
<1>5. Meter(i, n) = Odometer!At(day - from, Cardinality(fired), RoundsOf(sessions, fired))
  BY <1>2 DEF MetersShow
<1>6. Meter(i, n)' = Odometer!At(day' - from', Cardinality(FiredSince(i, from)'),
                               RoundsOf(sessions', FiredSince(i, from)'))
  BY <1>2 DEF MetersShow
<1>7. Meter(i, n)' = Odometer!At((day - from) + 1, Cardinality(fired), RoundsOf(sessions, fired))
  <2> HIDE DEF from, fired
  <2>1. (day + 1) - from = (day - from) + 1
    BY <1>1
  <2> QED BY <1>1, <1>3, <1>4, <1>6, <2>1
<1> HIDE DEF from, fired
<1> QED BY <1>5, <1>7, AtFields

\* Entries of today, and none other: what is serviced starts anew.
LEMMA MetersAreSetBack ==
  ASSUME TableInv, TableInv', OnTimeInv, ~late, UNCHANGED <<day, sessions>>,
         events \subseteq events',
         \A e \in events' \ events : e.on = day,
         NEW i \in Items, NEW n \in Names
  PROVE  Meter(i, n)' \in {Meter(i, n), Odometer!Zero}
<1> DEFINE on == {e.on : e \in {x \in events : x.item = i /\ x.name = n}}
           now == {e.on : e \in {x \in events' : x.item = i /\ x.name = n}}
<1>1. MetersShow /\ MetersShow'
  <2>1. TableInv' => MetersShow'
    BY MetersAlwaysShow, PTL
  <2> QED BY <2>1, MetersAlwaysShow
<1>2. SessionsOf(i)' = SessionsOf(i) /\ \A from : FiredSince(i, from)' = FiredSince(i, from)
  BY DEF SessionsOf, FirearmSessions, FiredSince
<1>3. /\ Meter(i, n) = LET fired == FiredSince(i, FromOf(i, n))
         IN Odometer!At(day - FromOf(i, n), Cardinality(fired), RoundsOf(sessions, fired))
      /\ Meter(i, n)' = LET fired == FiredSince(i, FromOf(i, n)')
         IN Odometer!At(day - FromOf(i, n)', Cardinality(fired), RoundsOf(sessions, fired))
  <2>1. Meter(i, n)' = LET fired == FiredSince(i, FromOf(i, n))'
         IN Odometer!At(day' - FromOf(i, n)', Cardinality(fired), RoundsOf(sessions', fired))
    BY <1>1 DEF MetersShow
  <2>2. FiredSince(i, FromOf(i, n))' = FiredSince(i, FromOf(i, n)')
    BY <1>2 DEF FiredSince
  <2> QED BY <1>1, <2>1, <2>2 DEF MetersShow
<1>4. CASE now = on
  <2>1. LastServicePoint(i, n)' = LastServicePoint(i, n)
    BY <1>4 DEF LastServicePoint
  <2>2. FromOf(i, n)' = FromOf(i, n)
    BY <2>1 DEF FromOf
  <2> QED BY <1>3, <2>2
<1>5. CASE now # on
  <2>1. day \in Int /\ now \in SUBSET Days /\ on \subseteq now
    BY ServiceDueAssumption DEF ServiceDueAssumption, TableInv, TypeOK
  <2>2. day \in now /\ \A d \in now : d <= day
    <3>1. PICK d \in now : d \notin on
      BY <1>5, <2>1
    <3>2. PICK e \in events' : e.item = i /\ e.name = n /\ e.on = d
      OBVIOUS
    <3>3. e \notin events
      BY <3>1, <3>2
    <3>4. d = day
      BY <3>2, <3>3
    <3>5. \A x \in events' : x.on <= day
      BY <2>1 DEF OnTimeInv
    <3> QED BY <3>4, <3>5
  <2>3. FromOf(i, n)' = Max({Max(now)})
    <3>1. LastServicePoint(i, n)' = {Max(now)}
      BY <2>2 DEF LastServicePoint
    <3> HIDE DEF now
    <3> QED BY <3>1 DEF FromOf, MeasureFrom
  <2> HIDE DEF now
  <2>4. Max(now) = day
    <3>1. Max(now) \in now /\ \A d \in now : d <= Max(now)
      BY <2>1, <2>2, LatestDay
    <3>2. Days \subseteq Int
      BY ServiceDueAssumption DEF ServiceDueAssumption, Days, FUTURE_DATE_TOLERANCE_DAYS
    <3>3. Max(now) \in Int /\ Max(now) <= day /\ day <= Max(now)
      BY <2>1, <2>2, <3>1, <3>2
    <3> QED BY <2>1, <3>3
  <2>5. FromOf(i, n)' = day
    <3>1. Max({day}) = day
      BY <2>1 DEF Max
    <3> QED BY <2>3, <2>4, <3>1
  <2>6. FiredSince(i, day) = {}
    BY <2>1, NothingSinceToday
  <2>7. Cardinality({}) = 0 /\ RoundsOf(sessions, {}) = 0
    BY FS_EmptySet, NoRounds DEF RoundsOf
  <2>8. Meter(i, n)' = Odometer!At(day - day, 0, 0)
    BY <1>3, <2>5, <2>6, <2>7
  <2> QED BY <2>1, <2>8 DEF Odometer!Zero
<1> QED BY <1>4, <1>5

\* The rounds of one more session.
LEMMA RoundsAdd ==
  ASSUME NEW f, NEW T, IsFiniteSet(T), NEW s, s \notin T,
         \A t \in T \union {s} : f[t].rounds \in Nat
  PROVE  RoundsOf(f, T \union {s}) = RoundsOf(f, T) + f[s].rounds
<1> DEFINE U == T \union {s}
           g == Sums(f, U)
<1>1. AreSums(f, T, Sums(f, T)) /\ AreSums(f, U, g)
  BY SumsExist, FS_AddElement DEF AreSums
<1>2. U \ {s} = T /\ s \in U /\ T \in SUBSET U
  OBVIOUS
<1> HIDE DEF U, g
<1>3. g[U] = f[s].rounds + g[T]
  BY <1>1, <1>2, SumRemove DEF AnyMayGo
<1>4. T \in SUBSET (T \intersect U)
  BY <1>2
<1>5. Sums(f, T)[T] = g[T]
  BY <1>1, <1>4, SumsAgree
<1>6. g[T] \in Nat /\ f[s].rounds \in Nat
  BY <1>1, <1>2, SumsAreNumbers DEF U
<1> QED BY <1>3, <1>5, <1>6, RoundsAreSums DEF U, g

\* A session of today: the meters of the items it was with run on.
LEMMA MetersCount ==
  ASSUME TableInv, TableInv', NEW u, NEW f \in Firearms, NEW r \in Rounds,
         CreateRangeSession(u, f, day, r), NEW i \in Items
  PROVE  \/ \A n \in Names : Meter(i, n)' = Meter(i, n)
         \/ \A n \in Names : LET m == Meter(i, n) IN
              Meter(i, n)' = IF m.age > 0
                THEN Odometer!At(m.age, m.sessions + 1, m.rounds + r) ELSE m
<1> DEFINE s == CHOOSE x \in SessionIds : x \notin DOMAIN sessions
           row == [gun |-> f, on |-> day, rounds |-> r,
                    used |-> {x \in Accessories : mounted[x] = f}]
           with == i = f \/ (i \notin Firearms /\ i \in row.used)
<1>1. s \notin DOMAIN sessions
  BY DEF CreateRangeSession, TableInv, IsTable
<1>2. /\ DOMAIN sessions' = DOMAIN sessions \union {s} /\ sessions'[s] = row
      /\ \A t \in DOMAIN sessions : sessions'[t] = sessions[t]
      /\ UNCHANGED <<day, events>>
  BY <1>1 DEF CreateRangeSession
<1> HIDE DEF s
<1>3. row.gun = f /\ row.on = day /\ row.rounds = r
  OBVIOUS
<1>4. SessionsOf(i)' = IF with THEN SessionsOf(i) \union {s} ELSE SessionsOf(i)
  BY <1>1, <1>2, <1>3 DEF SessionsOf, FirearmSessions
<1> HIDE DEF row, with
<1>5. SessionsOf(i) \subseteq DOMAIN sessions
  BY DEF SessionsOf, FirearmSessions
<1>6. MetersShow /\ MetersShow'
  <2>1. TableInv' => MetersShow'
    BY MetersAlwaysShow, PTL
  <2> QED BY <2>1, MetersAlwaysShow
<1>7. ASSUME NEW n \in Names
      PROVE  LET fired == FiredSince(i, FromOf(i, n))
                 now == FiredSince(i, FromOf(i, n))'
             IN /\ FromOf(i, n)' = FromOf(i, n) /\ FromOf(i, n) \in Int /\ day \in Int
                /\ now = IF with /\ FromOf(i, n) < day THEN fired \union {s} ELSE fired
                /\ Meter(i, n) = Odometer!At(day - FromOf(i, n), Cardinality(fired),
                     RoundsOf(sessions, fired))
                /\ Meter(i, n)' = Odometer!At(day - FromOf(i, n), Cardinality(now),
                     RoundsOf(sessions', now))
                /\ fired \subseteq DOMAIN sessions
  <2>1. FromOf(i, n)' = FromOf(i, n) /\ FromOf(i, n) \in Int /\ day \in Int
    <3>1. FromOf(i, n)' = FromOf(i, n)
      BY <1>2 DEF FromOf, LastServicePoint
    <3>2. day \in Int
      BY ServiceDueAssumption DEF ServiceDueAssumption, TableInv, TypeOK
    <3> QED BY <3>1, <3>2, FromADay
  <2>2. Counted(sessions'[s], FromOf(i, n), day) <=> FromOf(i, n) < day
    BY <1>2, <1>3, <2>1 DEF Counted
  <2>3. FiredSince(i, FromOf(i, n))' =
          {t \in SessionsOf(i)' : Counted(sessions'[t], FromOf(i, n), day)}
    BY <1>2, <2>1 DEF FiredSince, Counted
  <2>4. \A t \in SessionsOf(i) : Counted(sessions'[t], FromOf(i, n), day) <=>
                                  Counted(sessions[t], FromOf(i, n), day)
    BY <1>2, <1>5
  <2>5. FiredSince(i, FromOf(i, n))' =
          IF with /\ FromOf(i, n) < day THEN FiredSince(i, FromOf(i, n)) \union {s}
          ELSE FiredSince(i, FromOf(i, n))
    BY <1>4, <2>2, <2>3, <2>4 DEF FiredSince
  <2>6. FiredSince(i, FromOf(i, n)) \subseteq DOMAIN sessions
    BY <1>5 DEF FiredSince
  <2> QED BY <1>2, <1>6, <2>1, <2>5, <2>6 DEF MetersShow
<1>8. CASE ~with
  <2>1. ASSUME NEW n \in Names PROVE Meter(i, n)' = Meter(i, n)
    <3> DEFINE fired == FiredSince(i, FromOf(i, n))
    <3>1. fired \subseteq DOMAIN sessions /\ FiredSince(i, FromOf(i, n))' = fired
      BY <1>7, <1>8
    <3>2. RoundsOf(sessions', fired) = RoundsOf(sessions, fired)
      BY <1>2, <3>1, RoundsSame
    <3> QED BY <1>7, <3>1, <3>2
  <2> QED BY <2>1
<1>9. CASE with
  <2>1. ASSUME NEW n \in Names
        PROVE  LET m == Meter(i, n) IN
                 Meter(i, n)' = IF m.age > 0
                   THEN Odometer!At(m.age, m.sessions + 1, m.rounds + r) ELSE m
    <3> DEFINE from == FromOf(i, n)
               fired == FiredSince(i, from)
    <3>1. /\ from \in Int /\ day \in Int /\ fired \subseteq DOMAIN sessions
          /\ Meter(i, n) = Odometer!At(day - from, Cardinality(fired), RoundsOf(sessions, fired))
      BY <1>7
    <3>2. RoundsOf(sessions', fired) = RoundsOf(sessions, fired)
      BY <1>2, <3>1, RoundsSame
    <3>3. CASE from < day
      <4>1. Meter(i, n)' = Odometer!At(day - from, Cardinality(fired \union {s}),
                                     RoundsOf(sessions', fired \union {s}))
        BY <1>7, <1>9, <3>3
      <4> HIDE DEF from, fired
      <4>2. Cardinality(fired \union {s}) = Cardinality(fired) + 1
        BY <1>1, <3>1, FS_AddElement, FS_Subset DEF TableInv
      <4>3. RoundsOf(sessions', fired \union {s}) = RoundsOf(sessions, fired) + r
        <5>1. IsFiniteSet(fired)
          BY <3>1, FS_Subset DEF TableInv
        <5>2. \A t \in DOMAIN sessions' : sessions'[t].rounds \in Nat
          BY ServiceDueAssumption DEF ServiceDueAssumption, TableInv, IsTable, SessionRow
        <5>3. \A t \in fired \union {s} : sessions'[t].rounds \in Nat
          BY <1>2, <3>1, <5>2
        <5>4. s \notin fired
          BY <1>1, <3>1
        <5> QED BY <1>2, <1>3, <3>2, <5>1, <5>3, <5>4, RoundsAdd
      <4>4. day - from > 0
        BY <3>1, <3>3
      <4> QED BY <3>1, <4>1, <4>2, <4>3, <4>4, AtFields
    <3>4. CASE ~(from < day)
      <4>1. Meter(i, n)' = Odometer!At(day - from, Cardinality(fired), RoundsOf(sessions', fired))
        BY <1>7, <1>9, <3>4
      <4> HIDE DEF from, fired
      <4>2. ~(day - from > 0)
        BY <3>1, <3>4
      <4> QED BY <3>1, <3>2, <4>1, <4>2, AtFields
    <3> QED BY <3>3, <3>4
  <2> QED BY <2>1
<1> QED BY <1>8, <1>9

\* Only entries of today are on time.
LEMMA OnTimeKeeps == TableInv /\ OnTimeInv /\ [Next]_vars => OnTimeInv'
<1> SUFFICES ASSUME TableInv, OnTimeInv, [Next]_vars, ~late' PROVE OnTimeInv'
  BY DEF OnTimeInv
<1> DEFINE Past == /\ \A e \in events' : e.on <= day
                   /\ \A s \in DOMAIN sessions' : sessions'[s].on <= day
<1>1. /\ day \in Int /\ day' \in Int /\ day <= day'
      /\ \A e \in events : e.on \in Int
      /\ \A s \in DOMAIN sessions : sessions[s].on \in Int
  <2>1. Days \subseteq Int
    BY ServiceDueAssumption DEF ServiceDueAssumption, Days, FUTURE_DATE_TOLERANCE_DAYS
  <2>2. \A s \in DOMAIN sessions : sessions[s].on \in Days
    BY DEF TableInv, IsTable, SessionRow
  <2> QED BY <2>1, <2>2, DaysGoBy DEF TableInv, TypeOK
<1>2. ~late
  BY DEF Next, NextDay, LogServiceEvent, MarkBacklog, ChangeEvent, CreateRangeSession,
     ChangeRangeSession, Share, Mount, ConfigureItem, ConfigureDefault, vars
<1>3. CASE events' = events /\ sessions' = sessions
  BY <1>1, <1>2, <1>3 DEF OnTimeInv
<1>4. ASSUME NEW u, NEW i, NEW n, NEW on, LogServiceEvent(u, i, n, on) PROVE OnTimeInv'
  <2>1. /\ on = day /\ day' = day /\ sessions' = sessions
        /\ events' = events \union {[item |-> i, name |-> n, on |-> on]}
    BY <1>2, <1>4 DEF LogServiceEvent
  <2> QED BY <1>1, <1>2, <2>1 DEF OnTimeInv
<1>5. ASSUME NEW u, MarkBacklog(u) PROVE OnTimeInv'
  <2>1. /\ day' = day /\ sessions' = sessions
        /\ events' \subseteq events
             \union {[item |-> p[1], name |-> p[2], on |-> day] : p \in Backlog(u)}
    BY <1>5 DEF MarkBacklog
  <2> QED BY <1>1, <1>2, <2>1 DEF OnTimeInv
<1>6. ASSUME NEW u, NEW f, NEW on, NEW r, CreateRangeSession(u, f, on, r) PROVE OnTimeInv'
  <2> DEFINE s == CHOOSE x \in SessionIds : x \notin DOMAIN sessions
  <2>1. /\ on = day /\ day' = day /\ events' = events
        /\ sessions' = [t \in DOMAIN sessions \union {s} |->
             IF t = s THEN [gun |-> f, on |-> on, rounds |-> r,
                            used |-> {x \in Accessories : mounted[x] = f}]
             ELSE sessions[t]]
    BY <1>2, <1>6 DEF CreateRangeSession
  <2> HIDE DEF s
  <2>2. \A t \in DOMAIN sessions' :
          sessions'[t].on = day \/ (t \in DOMAIN sessions /\ sessions'[t] = sessions[t])
    BY <2>1
  <2> QED BY <1>1, <1>2, <2>1, <2>2 DEF OnTimeInv
<1>7. \/ events' = events /\ sessions' = sessions
      \/ \E u, i, n, on : LogServiceEvent(u, i, n, on)
      \/ \E u : MarkBacklog(u)
      \/ \E u, f, on, r : CreateRangeSession(u, f, on, r)
  BY DEF Next, NextDay, ChangeEvent, ChangeRangeSession, Share, Mount, ConfigureItem,
     ConfigureDefault, vars
<1> QED BY <1>3, <1>4, <1>5, <1>6, <1>7

LEMMA OnTimeInit == Init => OnTimeInv
BY DEF Init, OnTimeInv, Nothing

\* Meters at first.
LEMMA MetersStart ==
  ASSUME Init, NEW i \in Items, NEW n \in Names
  PROVE  Meter(i, n) = Odometer!At(Meter(i, n).age, 0, 0)
<1> DEFINE fired == FiredSince(i, FromOf(i, n))
<1>1. TableInv
  BY InitHolds
<1>2. Meter(i, n) = Odometer!At(day - FromOf(i, n), Cardinality(fired), RoundsOf(sessions, fired))
  BY <1>1, MetersAlwaysShow DEF MetersShow
<1>3. fired = {}
  BY DEF Init, Nothing, FiredSince, SessionsOf, FirearmSessions
<1>4. Cardinality({}) = 0 /\ RoundsOf(sessions, {}) = 0
  BY FS_EmptySet, NoRounds DEF RoundsOf
<1> QED BY <1>2, <1>3, <1>4, AtFields

\* The steps of the meters: a day, a service or a session of today.
LEMMA MetersStep ==
  ASSUME TableInv, OnTimeInv, [Next]_vars, ~late'
  PROVE  ~late /\ (Odometer!NextDay \/ Odometer!Serviced \/ Odometer!Fired)
<1>1. ~late
  BY DEF Next, NextDay, LogServiceEvent, MarkBacklog, ChangeEvent, CreateRangeSession,
     ChangeRangeSession, Share, Mount, ConfigureItem, ConfigureDefault, vars
<1>2. TableInv'
  BY StepKeeps
<1>3. CASE NextDay
  <2>1. \A i \in Items, n \in Names :
          LET m == Meter(i, n) IN Meter(i, n)' = Odometer!At(m.age + 1, m.sessions, m.rounds)
    BY <1>1, <1>3, MetersRun
  <2>2. Odometer!NextDay
    BY <2>1 DEF Odometer!NextDay
  <2> QED BY <1>1, <2>2
<1>4. CASE UNCHANGED <<day, sessions>> /\ events \subseteq events'
           /\ \A e \in events' \ events : e.on = day
  <2>1. \A i \in Items, n \in Names : Meter(i, n)' \in {Meter(i, n), Odometer!Zero}
    BY <1>1, <1>2, <1>4, MetersAreSetBack
  <2>2. Odometer!Serviced
    BY <2>1 DEF Odometer!Serviced
  <2> QED BY <1>1, <2>2
<1>5. ASSUME NEW u, NEW f \in Firearms, NEW r \in Rounds, CreateRangeSession(u, f, day, r)
      PROVE  Odometer!Fired
  <2>1. \A i \in Items :
          \/ \A n \in Names : Meter(i, n)' = Meter(i, n)
          \/ \A n \in Names : LET m == Meter(i, n) IN
               Meter(i, n)' = IF m.age > 0
                 THEN Odometer!At(m.age, m.sessions + 1, m.rounds + r) ELSE m
    BY <1>2, <1>5, MetersCount
  <2> DEFINE M == [i \in Items |-> [n \in Names |-> Meter(i, n)]]
  <2>2. ASSUME NEW i \in Items, \A n \in Names : Meter(i, n)' = Meter(i, n)
        PROVE  M'[i] = M[i]
    BY <2>2
  <2>3. \A i \in Items :
          \/ M'[i] = M[i]
          \/ \A n \in Names : LET m == M[i][n] IN
               M'[i][n] = IF m.age > 0 THEN Odometer!At(m.age, m.sessions + 1, m.rounds + r) ELSE m
    <3> TAKE i \in Items
    <3>1. CASE \A n \in Names : Meter(i, n)' = Meter(i, n)
      BY <2>2, <3>1
    <3>2. CASE \A n \in Names : LET m == Meter(i, n) IN
               Meter(i, n)' = IF m.age > 0
                 THEN Odometer!At(m.age, m.sessions + 1, m.rounds + r) ELSE m
      BY <3>2
    <3> QED BY <2>1, <3>1, <3>2
  <2> QED BY <2>3 DEF Odometer!Fired
<1>6. ASSUME NEW u, NEW i, NEW n, NEW on, LogServiceEvent(u, i, n, on)
      PROVE  UNCHANGED <<day, sessions>> /\ events \subseteq events'
               /\ \A e \in events' \ events : e.on = day
  <2>1. /\ UNCHANGED <<day, sessions>> /\ on = day
        /\ events' = events \union {[item |-> i, name |-> n, on |-> on]}
    BY <1>1, <1>6 DEF LogServiceEvent
  <2> QED BY <2>1
<1>7. ASSUME NEW u, MarkBacklog(u)
      PROVE  UNCHANGED <<day, sessions>> /\ events \subseteq events'
               /\ \A e \in events' \ events : e.on = day
  BY <1>7 DEF MarkBacklog
<1>8. \A u, f, on, r : CreateRangeSession(u, f, on, r) => on = day
  BY DEF CreateRangeSession
<1>9. \/ NextDay
      \/ UNCHANGED <<day, sessions, events>>
      \/ \E u, i, n, on : LogServiceEvent(u, i, n, on)
      \/ \E u : MarkBacklog(u)
      \/ \E u, on : \E f \in Firearms, r \in Rounds : CreateRangeSession(u, f, on, r)
  BY DEF Next, ChangeEvent, ChangeRangeSession, Share, Mount, ConfigureItem, ConfigureDefault, vars
<1> QED BY <1>1, <1>3, <1>4, <1>5, <1>6, <1>7, <1>8, <1>9

\* While every entry is made on its day, due state counts like meters that a service
\* sets back to zero (derive.ts): nothing is lost, counted twice or counted for
\* another item, whoever is let see what, whatever is moved and however rules change.
THEOREM DueStateAlwaysCountsLikeMeters == Spec => CountsLikeMeters
<1>1. Init => Odometer!Init
  <2> SUFFICES ASSUME Init PROVE Odometer!Init
    OBVIOUS
  <2>1. late = FALSE
    BY DEF Init
  <2>2. \A i \in Items, n \in Names : Meter(i, n) = Odometer!At(Meter(i, n).age, 0, 0)
    BY MetersStart
  <2> QED BY <2>1, <2>2 DEF Odometer!Init
<1>2. Init => OnTimeInv
  BY OnTimeInit
<1>3. TableInv /\ OnTimeInv /\ [Next]_vars => OnTimeInv'
  BY OnTimeKeeps
<1>4. TableInv /\ OnTimeInv /\ [Next]_vars =>
        [Odometer!Next]_<<[i \in Items |-> [n \in Names |-> Meter(i, n)]], late>>
  BY MetersStep DEF Odometer!Next
<1> QED BY <1>1, <1>2, <1>3, <1>4, TableInvariant, PTL DEF Spec, CountsLikeMeters, Odometer!Spec

-----------------------------------------------------------------------------
(* The history kept under the names of the rules.                          *)

\* Only call s moves.
OthersSame(s) ==
  \A r \in Session \ {s} : pc'[r] = pc[r] /\ call'[r] = call[r] /\ tx'[r] = tx[r]

\* Once s has looked for events, an event one of its rows bears is in its hand.
KeepsHand(s) ==
  Found(s)' => \A e \in Rows(Events) : \A b \in Bearers(e) \intersect DOMAIN tx'[s].put :
    (Found(s) /\ b \in DOMAIN tx[s].put => InHand(s, e, "repointEvents"))
    => InHand(s, e, "repointEvents")'

\* What s holds, nobody else does, and it is there.
HoldsApart(s) ==
  /\ (tx[s].lock \union tx[s].del \subseteq DOMAIN db)'
  /\ \A r \in Session \ {s} : Held(s)' \intersect Held(r) = {}

-----------------------------------------------------------------------------
(* Steps and the calls that do not take them.                              *)

LEMMA OthersKeep ==
  ASSUME IInv, NEW s \in Session, UNCHANGED db, OthersSame(s), KeepsHand(s), AloneInv(s)'
  PROVE  \A r \in Session \ {s} : CallInv(r)'
<1> TAKE r \in Session \ {s}
<1>1. CallInv(r) /\ pc'[r] = pc[r] /\ call'[r] = call[r] /\ tx'[r] = tx[r] /\ db' = db
  BY DEF IInv, OthersSame
<1>2. PlaceInv(r)' /\ AskedInv(r)' /\ WroteInv(r)'
  BY <1>1 DEF CallInv, PlaceInv, AskedInv, WroteInv, Creates, Renames, Kind
<1>3. LockedInv(r)' /\ MovedInv(r)'
  BY <1>1 DEF CallInv, LockedInv, MovedInv, Renames, Kind, NewRow, ItemsOf
<1>4. RulesFollow(r)' /\ CorrectInv(r)' /\ NewInv(r)'
  BY <1>1 DEF CallInv, RulesFollow, CorrectInv, NewInv, NewName, Kind, Rows, Left, ItemsOf, InHand
<1>5. EventsFollow(r)'
  <2> SUFFICES ASSUME Found(r), NEW e \in Rows(Events) \intersect call[r].seen, Left(r, e)
               PROVE  \/ InHand(r, e, "repointEvents")'
                      \/ \E b \in Bearers(e)' \ DOMAIN tx'[r].put : KeptBy(b, e)'
    BY <1>1 DEF EventsFollow, Found, NewName, Rows, Left, ItemsOf, Kind
  <2>1. CASE InHand(r, e, "repointEvents")
    BY <1>1, <2>1 DEF InHand
  <2>2. CASE \E b \in Bearers(e) \ DOMAIN tx[r].put : KeptBy(b, e)
    <3> PICK b \in Bearers(e) \ DOMAIN tx[r].put : KeptBy(b, e)
      BY <2>2
    <3>1. b \in Bearers(e)'
      BY <1>1 DEF Bearers, Rows, Bears
    <3>2. ASSUME NEW q \in Session, Found(q)', b \in DOMAIN tx'[q].put
          PROVE  InHand(q, e, "repointEvents")'
      <4>1. CASE q = s
        BY <3>2, <4>1 DEF KeepsHand, KeptBy
      <4>2. CASE q # s
        <5>1. pc'[q] = pc[q] /\ call'[q] = call[q] /\ tx'[q] = tx[q]
          BY <4>2 DEF OthersSame
        <5> QED BY <3>2, <5>1 DEF KeptBy, Found, NewName, InHand
      <4> QED BY <4>1, <4>2
    <3>3. KeptBy(b, e)'
      BY <3>2 DEF KeptBy
    <3> QED BY <1>1, <3>1, <3>3
  <2> QED BY <1>1, <2>1, <2>2 DEF CallInv, EventsFollow
<1>6. AloneInv(r)'
  <2> SUFFICES ASSUME NEW K \in {Defaults, Rules}, NEW x \in DOMAIN tx[r].put \intersect K
               PROVE  /\ \A y \in Rows(K) \ {x} : ~SameName(tx[r].put[x], db[y])
                      /\ \A q \in Session : \A y \in DOMAIN tx'[q].put \intersect K :
                           SameName(tx[r].put[x], tx'[q].put[y]) => x = y
    BY <1>1 DEF AloneInv, Rows
  <2>1. /\ \A y \in Rows(K) \ {x} : ~SameName(tx[r].put[x], db[y])
        /\ \A q \in Session : \A y \in DOMAIN tx[q].put \intersect K :
             SameName(tx[r].put[x], tx[q].put[y]) => x = y
    BY <1>1 DEF CallInv, AloneInv
  <2>2. ASSUME NEW q \in Session, NEW y \in DOMAIN tx'[q].put \intersect K,
               SameName(tx[r].put[x], tx'[q].put[y])
        PROVE  x = y
    <3>1. CASE q = s
      <4>1. SameName(tx'[s].put[y], tx'[r].put[x])
        BY <1>1, <2>2, <3>1 DEF SameName
      <4> QED BY <1>1, <3>1, <4>1 DEF AloneInv
    <3>2. CASE q # s
      BY <2>1, <2>2, <3>2 DEF OthersSame
    <3> QED BY <3>1, <3>2
  <2> QED BY <2>1, <2>2
<1> QED BY <1>1, <1>2, <1>3, <1>4, <1>5, <1>6 DEF CallInv

LEMMA StatementKeeps ==
  ASSUME IInv, NEW s \in Session, UNCHANGED db, OthersSame(s), HistoryTypeOK', CallInv(s)',
         KeepsHand(s), HoldsApart(s)
  PROVE  IInv'
<1>1. \A r \in Session \ {s} : CallInv(r)'
  BY OthersKeep DEF CallInv
<1>2. NamesAreUnique'
  BY DEF IInv, NamesAreUnique, UniqueNames, Rows
<1>3. HeldInv'
  <2>1. \A r \in Session \ {s} : tx'[r] = tx[r] /\ Held(r)' = Held(r)
    BY DEF OthersSame, Held, Written
  <2>2. ASSUME NEW q \in Session
        PROVE  /\ tx'[q].lock \union tx'[q].del \subseteq DOMAIN db'
               /\ \A r \in Session \ {q} : Held(q)' \intersect Held(r)' = {}
    <3>1. CASE q = s
      BY <2>1, <3>1 DEF HoldsApart
    <3>2. CASE q # s
      <4>1. /\ tx[q].lock \union tx[q].del \subseteq DOMAIN db
            /\ \A r \in Session \ {q} : Held(q) \intersect Held(r) = {}
        BY DEF IInv, HeldInv
      <4>2. ASSUME NEW r \in Session \ {q} PROVE Held(q)' \intersect Held(r)' = {}
        <5>1. CASE r = s BY <2>1, <3>2, <5>1 DEF HoldsApart
        <5>2. CASE r # s BY <2>1, <3>2, <4>1, <5>2
        <5> QED BY <5>1, <5>2
      <4> QED BY <2>1, <3>2, <4>1, <4>2
    <3> QED BY <3>1, <3>2
  <2> QED BY <2>2 DEF HeldInv
<1> QED BY <1>1, <1>2, <1>3 DEF IInv

-----------------------------------------------------------------------------
(* Transactions and shapes of a step.                                      *)

LEMMA NoTxIsTx ==
  IsTx(NoTx) /\ DOMAIN NoTx.put = {} /\ NoTx.lock = {} /\ NoTx.del = {}
BY DEF IsTx, NoTx, IsTables

WithLock(t, x) == [t EXCEPT !.lock = @ \union {x}]
WithDel(t, X) == [t EXCEPT !.del = @ \union X]
WithPut(t, g) == [t EXCEPT !.put = g]
\* Table g with row x.
WithRow(g, x, row) == [y \in DOMAIN g \union {x} |-> IF y = x THEN row ELSE g[y]]

LEMMA AddLock ==
  ASSUME NEW t, IsTx(t), NEW x \in Id, NEW u, u = WithLock(t, x)
  PROVE  IsTx(u) /\ u.lock = t.lock \union {x} /\ u.put = t.put /\ u.del = t.del
BY DEF IsTx, WithLock

LEMMA AddDel ==
  ASSUME NEW t, IsTx(t), NEW X \in SUBSET Id, NEW u, u = WithDel(t, X)
  PROVE  IsTx(u) /\ u.del = t.del \union X /\ u.put = t.put /\ u.lock = t.lock
BY DEF IsTx, WithDel

LEMMA AddPut ==
  ASSUME NEW t, IsTx(t), NEW g, IsTables(g), NEW u, u = WithPut(t, g)
  PROVE  IsTx(u) /\ u.put = g /\ u.del = t.del /\ u.lock = t.lock
BY DEF IsTx, WithPut

\* A row of the kind its id says.
IsRow(x, row) ==
  /\ x \in Defaults => row \in DefaultRow
  /\ x \in Rules => row \in RuleRow
  /\ x \in Events => row \in EventRow

LEMMA AddRow ==
  ASSUME NEW g, IsTables(g), NEW x \in Id, NEW row, IsRow(x, row), NEW h, h = WithRow(g, x, row)
  PROVE  IsTables(h)
BY DEF IsTables, WithRow, IsRow

\* s is at place l with the locals c and holds t.
At(s, l, c, t) ==
  /\ pc' = [pc EXCEPT ![s] = l] /\ call' = [call EXCEPT ![s] = c] /\ tx' = [tx EXCEPT ![s] = t]

LEMMA Moves ==
  ASSUME HistoryTypeOK, NEW s \in Session, UNCHANGED db, NEW l \in Places, NEW c \in CallType,
         NEW t, IsTx(t), At(s, l, c, t), l \in {"idle", "done"} => t = NoTx
  PROVE  HistoryTypeOK' /\ OthersSame(s) /\ pc'[s] = l /\ call'[s] = c /\ tx'[s] = t
<1>1. pc' \in [Session -> Places] /\ pc'[s] = l /\ \A r \in Session \ {s} : pc'[r] = pc[r]
  BY DEF HistoryTypeOK, At
<1>2. call' \in [Session -> CallType] /\ call'[s] = c /\ \A r \in Session \ {s} : call'[r] = call[r]
  BY DEF HistoryTypeOK, At
<1>3. /\ tx' = [q \in Session |-> tx'[q]] /\ tx'[s] = t
      /\ \A r \in Session \ {s} : tx'[r] = tx[r]
  BY DEF HistoryTypeOK, At
<1>4. \A q \in Session : IsTx(tx'[q]) /\ (pc'[q] \in {"idle", "done"} => tx'[q] = NoTx)
  BY <1>1, <1>3 DEF HistoryTypeOK
<1> QED BY <1>1, <1>2, <1>3, <1>4 DEF HistoryTypeOK, OthersSame

LEMMA Same ==
  ASSUME HistoryTypeOK, NEW s \in Session
  PROVE  /\ tx = [tx EXCEPT ![s] = tx[s]] /\ call = [call EXCEPT ![s] = call[s]]
         /\ pc = [pc EXCEPT ![s] = pc[s]]
         /\ pc[s] \in Places /\ call[s] \in CallType /\ IsTx(tx[s])
BY DEF HistoryTypeOK

LEMMA OwnHolds ==
  ASSUME IInv, NEW s \in Session
  PROVE  /\ tx[s].lock \union tx[s].del \subseteq DOMAIN db
         /\ \A r \in Session \ {s} : Held(s) \intersect Held(r) = {}
BY DEF IInv, HeldInv

\* A call that has written nothing yet.
LEMMA BeforeWrites ==
  ASSUME NEW s \in Session, UNCHANGED db, PlaceInv(s)', AskedInv(s)', LockedInv(s)',
         DOMAIN tx'[s].put = {}, tx'[s].del = {}, pc'[s] \notin Moving \union {"commit"},
         call'[s].seen \subseteq DOMAIN db
  PROVE  CallInv(s)' /\ KeepsHand(s)
<1>1. WroteInv(s)' /\ MovedInv(s)' /\ CorrectInv(s)' /\ NewInv(s)' /\ AloneInv(s)'
  BY DEF WroteInv, MovedInv, CorrectInv, NewInv, AloneInv
<1>2. RulesFollow(s)' /\ EventsFollow(s)' /\ KeepsHand(s)
  BY DEF RulesFollow, EventsFollow, KeepsHand, Found, Moving
<1> QED BY <1>1, <1>2 DEF CallInv

\* Such a call goes on, perhaps with a lock that was free.
LEMMA GoOn ==
  ASSUME IInv, NEW s \in Session, UNCHANGED db, NEW l \in Places, NEW c \in CallType,
         NEW t, IsTx(t), At(s, l, c, t), l \in {"idle", "done"} => t = NoTx,
         NEW X, \A x \in X : RowFree(s, x), X \subseteq DOMAIN db, t.lock \subseteq tx[s].lock \union X,
         DOMAIN t.put = {}, t.del = {}, l \notin Moving \union {"commit"}, c.seen \subseteq DOMAIN db,
         PlaceInv(s)', AskedInv(s)', LockedInv(s)'
  PROVE  IInv'
<1>1. HistoryTypeOK' /\ OthersSame(s) /\ pc'[s] = l /\ call'[s] = c /\ tx'[s] = t
  BY Moves DEF IInv
<1>2. CallInv(s)' /\ KeepsHand(s)
  BY <1>1, BeforeWrites
<1>3. HoldsApart(s)
  <2>1. Held(s)' \subseteq Held(s) \union X
    BY <1>1 DEF Held, Written
  <2>2. \A r \in Session \ {s} : X \intersect Held(r) = {}
    BY DEF RowFree
  <2> QED BY <1>1, <2>1, <2>2, OwnHolds DEF HoldsApart
<1> QED BY <1>1, <1>2, <1>3, StatementKeeps

LEMMA NoCallIsCall == NoCall \in CallType /\ NoCall.seen = {} /\ NoCall.op = Absent
BY DEF NoCall, CallType

\* A call that ends with nothing committed.
LEMMA EndKeeps ==
  ASSUME IInv, NEW s \in Session, UNCHANGED db, End(s)
  PROVE  IInv'
<1>1. At(s, "done", NoCall, NoTx) /\ "done" \in Places /\ NoCall \in CallType /\ IsTx(NoTx)
  BY NoTxIsTx, NoCallIsCall DEF At, End, Release, Goto, Places
<1>2. pc'[s] = "done" /\ call'[s] = NoCall /\ tx'[s] = NoTx
  BY <1>1, Moves DEF IInv
<1>3. PlaceInv(s)' /\ AskedInv(s)' /\ LockedInv(s)'
  BY <1>2, NoCallIsCall
  DEF PlaceInv, AskedInv, LockedInv, Renames, Creates, Renaming, Moving, Absent
<1>4. "done" \notin Moving \union {"commit"}
  BY DEF Moving
<1> DEFINE none == {}
<1>5. (\A x \in none : RowFree(s, x)) /\ none \subseteq DOMAIN db
      /\ NoTx.lock \subseteq tx[s].lock \union none
  BY NoTxIsTx
<1> HIDE DEF none
<1> QED BY <1>1, <1>2, <1>3, <1>4, <1>5, NoTxIsTx, NoCallIsCall, GoOn

-----------------------------------------------------------------------------
(* Steps up to the first write.                                            *)

LEMMA CallFields ==
  ASSUME NEW c \in CallType
  PROVE  /\ c.op \in Operations \union {Absent} /\ c.id \in Id \union {Absent}
         /\ c.of \in ServicedItems \union Shelves \union {Absent}
         /\ c.name \in RuleNames \union {Absent}
         /\ c.hides \in BOOLEAN /\ c.list \subseteq ServicedItems \X RuleNames
         /\ c.was \in RuleNames \union {Absent}
         /\ c.found \subseteq ServicedItems \X (RuleNames \union {Absent})
         /\ c.todo \subseteq RuleNames \union Id
         /\ c.seen \subseteq Id
BY DEF CallType

\* A call goes on without a lock and with nothing written.
LEMMA Continues ==
  ASSUME IInv, NEW s \in Session, UNCHANGED <<db, tx>>, NEW l \in Places, NEW c \in CallType,
         pc' = [pc EXCEPT ![s] = l], call' = [call EXCEPT ![s] = c],
         pc[s] \notin Moving \union {"commit"},
         l \notin Moving \union {"commit", "idle", "done"},
         c.seen \subseteq DOMAIN db, PlaceInv(s)', AskedInv(s)', LockedInv(s)'
  PROVE  IInv'
<1>1. At(s, l, c, tx[s]) /\ IsTx(tx[s])
  BY Same DEF At, IInv
<1>2. DOMAIN tx[s].put = {} /\ tx[s].del = {}
  BY DEF IInv, CallInv, WroteInv
<1> DEFINE none == {}
<1>3. (\A x \in none : RowFree(s, x)) /\ none \subseteq DOMAIN db
      /\ tx[s].lock \subseteq tx[s].lock \union none
  OBVIOUS
<1> HIDE DEF none
<1> QED BY <1>1, <1>2, <1>3, GoOn

\* What a call may be asked.
Sensible(c, l) ==
  /\ c \in CallType /\ c.seen = {}
  /\ l \in {"siblings", "lock", "find", "resolve", "list"}
  /\ l = "siblings" => c.op \in {"createServiceRuleDefault", "createItemRule"}
  /\ l = "lock" => c.op \in Renaming
  /\ l = "resolve" => /\ c.op \in {"overrideServiceRuleAction", "deleteItemRuleByName"}
                      /\ c.name \in RuleNames
  /\ l = "find" => c.op \in Deleting \union {"updateServiceEvent"}
  /\ l = "list" => c.op = "logServiceEventsBulk"
  /\ c.op \in {"createServiceRuleDefault", "createItemRule"} \union Renaming => c.name \in RuleNames
  /\ c.op = "createServiceRuleDefault" => c.of \in Shelves
  /\ c.op \in {"createItemRule", "updateItemRule", "overrideServiceRuleAction", "deleteItemRule",
               "deleteItemRuleByName"} => c.of \in ServicedItems
  /\ c.op \in {"updateServiceEvent", "deleteServiceEvent"} => c.id \in Events

LEMMA AskKeeps ==
  ASSUME IInv, NEW s \in Session, NEW c, NEW l, l # "done" => Sensible(c, l), Ask(s, c, l)
  PROVE  IInv'
<1>1. CASE l = "done"
  BY <1>1, EndKeeps DEF Ask
<1>2. CASE l # "done"
  <2>1. /\ UNCHANGED <<db, tx>> /\ pc' = [pc EXCEPT ![s] = l] /\ call' = [call EXCEPT ![s] = c]
        /\ pc[s] = "idle" /\ Sensible(c, l)
    BY <1>2 DEF Ask, Goto
  <2>2. /\ l \in Places /\ c \in CallType /\ pc[s] \notin Moving \union {"commit"}
        /\ l \notin Moving \union {"commit", "idle", "done"} /\ c.seen \subseteq DOMAIN db
    BY <2>1 DEF Sensible, Places, Moving
  <2>3. pc'[s] = l /\ call'[s] = c
    BY <2>1, Same DEF IInv, HistoryTypeOK
  <2>4. PlaceInv(s)' /\ AskedInv(s)' /\ LockedInv(s)'
    <3>1. PlaceInv(s)'
      BY <2>1, <2>2, <2>3 DEF Sensible, PlaceInv, Creates, Renames, Kind, Moving
    <3>2. AskedInv(s)'
      BY <2>1, <2>2, <2>3 DEF Sensible, AskedInv, Creates, Renames
    <3>3. LockedInv(s)'
      BY <2>1, <2>2, <2>3 DEF Sensible, LockedInv, Renames, Renaming
    <3> QED BY <3>1, <3>2, <3>3
  <2> QED BY <2>1, <2>2, <2>4, Continues
<1> QED BY <1>1, <1>2

LEMMA AsksKeep ==
  ASSUME IInv, NEW s \in Session, Asks(s)
  PROVE  IInv'
<1>1. ASSUME AskDefault(s) PROVE IInv'
  <2>1. ASSUME NEW p \in Shelves, NEW n \in RuleNames,
               Ask(s, [NoCall EXCEPT !.op = "createServiceRuleDefault", !.of = p, !.name = n], "siblings")
        PROVE  IInv'
    <3>1. Sensible([NoCall EXCEPT !.op = "createServiceRuleDefault", !.of = p, !.name = n], "siblings")
      BY DEF Sensible, NoCall, CallType, Operations, Renaming
    <3> QED BY <2>1, <3>1, AskKeeps
  <2>2. ASSUME NEW d \in Defaults, NEW n \in RuleNames,
               Ask(s, [NoCall EXCEPT !.op = "updateServiceRuleDefault", !.id = d, !.name = n], "lock")
        PROVE  IInv'
    <3>1. Sensible([NoCall EXCEPT !.op = "updateServiceRuleDefault", !.id = d, !.name = n], "lock")
      BY DEF Sensible, NoCall, CallType, Operations, Renaming, Id
    <3> QED BY <2>2, <3>1, AskKeeps
  <2>3. ASSUME NEW d \in Defaults,
               Ask(s, [NoCall EXCEPT !.op = "deleteServiceRuleDefault", !.id = d], "find")
        PROVE  IInv'
    <3>1. Sensible([NoCall EXCEPT !.op = "deleteServiceRuleDefault", !.id = d], "find")
      BY DEF Sensible, NoCall, CallType, Operations, Renaming, Deleting, Id
    <3> QED BY <2>3, <3>1, AskKeeps
  <2> QED BY <1>1, <2>1, <2>2, <2>3 DEF AskDefault
<1>2. ASSUME AskRule(s) PROVE IInv'
  <2> PICK i \in ServicedItems :
        LET first(l) == IF MayConfigure(s, i) THEN l ELSE "done"
        IN \/ \E n \in RuleNames, h \in BOOLEAN :
                Ask(s, [NoCall EXCEPT !.op = "createItemRule", !.of = i, !.name = n, !.hides = h],
                    first("siblings"))
           \/ \E x \in Rules, n \in RuleNames, h \in BOOLEAN :
                Ask(s, [NoCall EXCEPT !.op = "updateItemRule", !.id = x, !.of = i, !.name = n,
                                      !.hides = h], first("lock"))
           \/ \E x \in Rules :
                Ask(s, [NoCall EXCEPT !.op = "deleteItemRule", !.id = x, !.of = i], first("find"))
           \/ \E n \in RuleNames, h \in BOOLEAN :
                Ask(s, [NoCall EXCEPT !.op = "overrideServiceRuleAction", !.of = i, !.name = n,
                                      !.hides = h], "resolve")
           \/ \E n \in RuleNames :
                Ask(s, [NoCall EXCEPT !.op = "deleteItemRuleByName", !.of = i, !.name = n], "resolve")
    BY <1>2 DEF AskRule
  <2> DEFINE first(l) == IF MayConfigure(s, i) THEN l ELSE "done"
  <2>1. ASSUME NEW n \in RuleNames, NEW h \in BOOLEAN,
               Ask(s, [NoCall EXCEPT !.op = "createItemRule", !.of = i, !.name = n, !.hides = h],
                   first("siblings"))
        PROVE  IInv'
    <3>1. Sensible([NoCall EXCEPT !.op = "createItemRule", !.of = i, !.name = n, !.hides = h], "siblings")
      BY DEF Sensible, NoCall, CallType, Operations, Renaming
    <3>2. first("siblings") \in {"siblings", "done"}
      OBVIOUS
    <3> HIDE DEF first
    <3> QED BY <2>1, <3>1, <3>2, AskKeeps
  <2>2. ASSUME NEW x \in Rules, NEW n \in RuleNames, NEW h \in BOOLEAN,
               Ask(s, [NoCall EXCEPT !.op = "updateItemRule", !.id = x, !.of = i, !.name = n,
                                     !.hides = h], first("lock"))
        PROVE  IInv'
    <3>1. Sensible([NoCall EXCEPT !.op = "updateItemRule", !.id = x, !.of = i, !.name = n, !.hides = h],
                   "lock")
      BY DEF Sensible, NoCall, CallType, Operations, Renaming, Id
    <3>2. first("lock") \in {"lock", "done"}
      OBVIOUS
    <3> HIDE DEF first
    <3> QED BY <2>2, <3>1, <3>2, AskKeeps
  <2>3. ASSUME NEW x \in Rules,
               Ask(s, [NoCall EXCEPT !.op = "deleteItemRule", !.id = x, !.of = i], first("find"))
        PROVE  IInv'
    <3>1. Sensible([NoCall EXCEPT !.op = "deleteItemRule", !.id = x, !.of = i], "find")
      BY DEF Sensible, NoCall, CallType, Operations, Renaming, Deleting, Id
    <3>2. first("find") \in {"find", "done"}
      OBVIOUS
    <3> HIDE DEF first
    <3> QED BY <2>3, <3>1, <3>2, AskKeeps
  <2>4. ASSUME NEW n \in RuleNames, NEW h \in BOOLEAN,
               Ask(s, [NoCall EXCEPT !.op = "overrideServiceRuleAction", !.of = i, !.name = n,
                                     !.hides = h], "resolve")
        PROVE  IInv'
    <3>1. Sensible([NoCall EXCEPT !.op = "overrideServiceRuleAction", !.of = i, !.name = n,
                                  !.hides = h], "resolve")
      BY DEF Sensible, NoCall, CallType, Operations, Renaming
    <3> QED BY <2>4, <3>1, AskKeeps
  <2>5. ASSUME NEW n \in RuleNames,
               Ask(s, [NoCall EXCEPT !.op = "deleteItemRuleByName", !.of = i, !.name = n], "resolve")
        PROVE  IInv'
    <3>1. Sensible([NoCall EXCEPT !.op = "deleteItemRuleByName", !.of = i, !.name = n], "resolve")
      BY DEF Sensible, NoCall, CallType, Operations, Renaming
    <3> QED BY <2>5, <3>1, AskKeeps
  <2> QED BY <2>1, <2>2, <2>3, <2>4, <2>5
<1>3. ASSUME AskEvent(s) PROVE IInv'
  <2>1. ASSUME NEW l \in SUBSET (ServicedItems \X RuleNames), NEW first, first \in {"list", "done"},
               Ask(s, [NoCall EXCEPT !.op = "logServiceEventsBulk", !.list = l], first)
        PROVE  IInv'
    <3>1. Sensible([NoCall EXCEPT !.op = "logServiceEventsBulk", !.list = l], "list")
      BY DEF Sensible, NoCall, CallType, Operations, Renaming
    <3> QED BY <2>1, <3>1, AskKeeps
  <2>2. ASSUME NEW e \in Events, NEW op \in {"updateServiceEvent", "deleteServiceEvent"},
               Ask(s, [NoCall EXCEPT !.op = op, !.id = e], "find")
        PROVE  IInv'
    <3>1. Sensible([NoCall EXCEPT !.op = op, !.id = e], "find")
      BY DEF Sensible, NoCall, CallType, Operations, Renaming, Deleting, Id
    <3> QED BY <2>2, <3>1, AskKeeps
  <2> QED BY <1>3, <2>1, <2>2 DEF AskEvent
<1> QED BY <1>1, <1>2, <1>3 DEF Asks

LEMMA Fields ==
  ASSUME IInv, NEW s \in Session
  PROVE  /\ HistoryTypeOK /\ CallInv(s) /\ IsTables(db) /\ call[s] \in CallType /\ IsTx(tx[s])
         /\ call[s].of \in ServicedItems \union Shelves \union {Absent}
         /\ call[s].name \in RuleNames \union {Absent}
         /\ call[s].seen \subseteq DOMAIN db /\ call[s].id \in Id \union {Absent}
         /\ call[s].op \in Operations \union {Absent}
         /\ DOMAIN db \subseteq Id
         /\ \A x \in DOMAIN db : IsRow(x, db[x])
<1>1. HistoryTypeOK /\ CallInv(s)
  BY DEF IInv
<1>2. IsTables(db) /\ call[s] \in CallType /\ IsTx(tx[s])
  BY <1>1, Same DEF HistoryTypeOK
<1> QED BY <1>1, <1>2, CallFields DEF IsTables, IsRow, CallInv

LEMMA ResolveKeeps ==
  ASSUME IInv, NEW s \in Session, Resolve(s)
  PROVE  IInv'
<1> DEFINE rows == Matching(Rules, call[s].of, call[s].name)
           deletes == call[s].op = "deleteItemRuleByName"
<1>1. /\ pc[s] = "resolve" /\ UNCHANGED db
      /\ call[s].op \in {"overrideServiceRuleAction", "deleteItemRuleByName"}
      /\ call[s].of \in ServicedItems /\ call[s].name \in RuleNames
      /\ call[s].seen \subseteq DOMAIN db
      /\ call[s] \in CallType
  BY Fields DEF Resolve, CallInv, PlaceInv, AskedInv
<1>2. CASE End(s)
  BY <1>1, <1>2, EndKeeps
<1>3. ASSUME Goto(s, "write"), UNCHANGED tx, call' = [call EXCEPT ![s].op = "createItemRule"]
      PROVE  IInv'
  <2> DEFINE c == [call[s] EXCEPT !.op = "createItemRule"]
  <2>1. /\ c \in CallType /\ c.op = "createItemRule" /\ c.of = call[s].of /\ c.name = call[s].name
        /\ c.seen = call[s].seen /\ c.id = call[s].id
    BY <1>1 DEF CallType, Operations
  <2>2. call' = [call EXCEPT ![s] = c] /\ pc' = [pc EXCEPT ![s] = "write"]
    BY <1>3 DEF Goto
  <2> HIDE DEF c
  <2>3. pc'[s] = "write" /\ call'[s] = c
    BY <2>2, Same DEF IInv, HistoryTypeOK
  <2>4. PlaceInv(s)' /\ AskedInv(s)' /\ LockedInv(s)'
    BY <1>1, <2>1, <2>3
    DEF PlaceInv, AskedInv, LockedInv, Creates, Renames, Renaming, Moving
  <2>5. /\ "write" \in Places /\ pc[s] \notin Moving \union {"commit"}
        /\ "write" \notin Moving \union {"commit", "idle", "done"}
    BY <1>1 DEF Places, Moving
  <2> QED BY <1>1, <1>3, <2>1, <2>2, <2>4, <2>5, Continues
<1>4. ASSUME NEW x \in rows, NEW op, NEW l, UNCHANGED tx, Goto(s, l),
             call' = [call EXCEPT ![s].id = x, ![s].op = op],
             \/ op = "deleteItemRule" /\ l = "find"
             \/ op = "updateItemRule" /\ l = "lockPreloaded"
      PROVE  IInv'
  <2> DEFINE c == [call[s] EXCEPT !.id = x, !.op = op]
  <2>1. x \in Id /\ op \in Operations
    BY <1>4 DEF Matching, Rows, Id, Operations
  <2>2. /\ c \in CallType /\ c.op = op /\ c.of = call[s].of /\ c.name = call[s].name
        /\ c.seen = call[s].seen /\ c.id = x
    BY <1>1, <2>1 DEF CallType
  <2>3. call' = [call EXCEPT ![s] = c] /\ pc' = [pc EXCEPT ![s] = l]
    BY <1>4 DEF Goto
  <2> HIDE DEF c
  <2>4. pc'[s] = l /\ call'[s] = c
    BY <2>3, Same DEF IInv, HistoryTypeOK
  <2>5. PlaceInv(s)' /\ AskedInv(s)' /\ LockedInv(s)'
    BY <1>1, <1>4, <2>2, <2>4
    DEF PlaceInv, AskedInv, LockedInv, Creates, Renames, Renaming, Moving, Deleting
  <2>6. /\ l \in Places /\ pc[s] \notin Moving \union {"commit"}
        /\ l \notin Moving \union {"commit", "idle", "done"}
    BY <1>1, <1>4 DEF Places, Moving
  <2> QED BY <1>1, <1>4, <2>2, <2>3, <2>5, <2>6, Continues
<1>5. \/ End(s)
      \/ /\ UNCHANGED tx /\ Goto(s, "write") /\ call' = [call EXCEPT ![s].op = "createItemRule"]
      \/ /\ UNCHANGED tx
         /\ \E x \in rows :
              /\ call' = [call EXCEPT ![s].id = x,
                            ![s].op = IF deletes THEN "deleteItemRule" ELSE "updateItemRule"]
              /\ Goto(s, IF deletes THEN "find" ELSE "lockPreloaded")
  BY DEF Resolve
<1> HIDE DEF rows, deletes
<1> QED BY <1>2, <1>3, <1>4, <1>5

LEMMA LockRowKeeps ==
  ASSUME IInv, NEW s \in Session, LockRow(s)
  PROVE  IInv'
<1> DEFINE x == call[s].id
<1>1. /\ pc[s] \in {"lock", "lockPreloaded"} /\ UNCHANGED db /\ RowFree(s, x)
      /\ Renames(s) /\ call[s].name \in RuleNames
      /\ call[s].op = "updateItemRule" => call[s].of \in ServicedItems
  BY Fields DEF LockRow, CallInv, PlaceInv, AskedInv, Renames, Renaming
<1>2. CASE End(s)
  BY <1>1, <1>2, EndKeeps
<1>3. CASE ~End(s)
  <2> DEFINE l == IF pc[s] = "lock" THEN "siblings" ELSE "write"
             c == [call[s] EXCEPT !.was = db[x].name, !.of = db[x].of, !.seen = DOMAIN db]
             t == WithLock(tx[s], x)
  <2>1. /\ x \in Rows(Kind(s)) /\ Goto(s, l) /\ Lock(s, x)
        /\ call' = [call EXCEPT ![s].was = db[x].name, ![s].of = db[x].of, ![s].seen = DOMAIN db]
    BY <1>3 DEF LockRow
  <2>2. /\ x \in DOMAIN db /\ x \in Id /\ x \in Kind(s)
        /\ \/ Kind(s) = Defaults /\ call[s].op = "updateServiceRuleDefault"
           \/ Kind(s) = Rules /\ call[s].op = "updateItemRule"
    BY <1>1, <2>1, Fields DEF Rows, Kind, Renames, Renaming
  <2>3. /\ db[x].name \in RuleNames /\ db[x].of \in ServicedItems \union Shelves
        /\ Kind(s) = Defaults => db[x].of \in Shelves
        /\ Kind(s) = Rules => db[x].of \in ServicedItems
    BY <2>2, Fields DEF IsRow, DefaultRow, RuleRow
  <2>4. DOMAIN db \in SUBSET Id
    BY Fields
  <2>5. /\ c \in CallType /\ c.op = call[s].op /\ c.of = db[x].of /\ c.name = call[s].name
        /\ c.was = db[x].name /\ c.seen = DOMAIN db /\ c.id = x
    BY <2>3, <2>4, Fields DEF CallType
  <2>6. IsTx(t) /\ t.lock = tx[s].lock \union {x} /\ t.put = tx[s].put /\ t.del = tx[s].del
    BY <2>2, AddLock, Fields
  <2>7. At(s, l, c, t)
    BY <2>1 DEF At, Goto, Lock, WithLock
  <2>8. l \in {"siblings", "write"} /\ l \in Places /\ l \notin Moving \union {"commit"}
    BY DEF Moving, Places
  <2> HIDE DEF l, c, t
  <2>9. pc'[s] = l /\ call'[s] = c /\ tx'[s] = t
    BY <1>1, <2>5, <2>6, <2>7, <2>8, Moves DEF IInv
  <2>10. DOMAIN t.put = {} /\ t.del = {}
    BY <1>1, <2>6, Fields DEF CallInv, WroteInv, Moving
  <2>11. Kind(s)' = Kind(s)
    BY <2>5, <2>9 DEF Kind
  <2>12. PlaceInv(s)' /\ AskedInv(s)' /\ LockedInv(s)'
    <3>1. PlaceInv(s)'
      BY <1>1, <2>5, <2>8, <2>9 DEF PlaceInv, Creates, Renames, Moving
    <3>2. AskedInv(s)'
      BY <1>1, <2>2, <2>3, <2>5, <2>8, <2>9 DEF AskedInv, Creates, Renames, Renaming
    <3>3. LockedInv(s)'
      BY <1>1, <2>2, <2>5, <2>6, <2>9, <2>11 DEF LockedInv
    <3> QED BY <3>1, <3>2, <3>3
  <2> DEFINE X == {x}
  <2>13. (\A y \in X : RowFree(s, y)) /\ X \subseteq DOMAIN db
         /\ t.lock \subseteq tx[s].lock \union X /\ c.seen \subseteq DOMAIN db
    BY <1>1, <2>2, <2>5, <2>6
  <2> HIDE DEF x, X
  <2> QED BY <1>1, <2>5, <2>6, <2>7, <2>8, <2>10, <2>12, <2>13, GoOn
<1> QED BY <1>2, <1>3

LEMMA SiblingsKeeps ==
  ASSUME IInv, NEW s \in Session, Siblings(s)
  PROVE  IInv'
<1>1. CASE End(s)
  BY <1>1, EndKeeps DEF Siblings
<1>2. CASE ~End(s)
  <2>1. pc[s] = "siblings" /\ UNCHANGED <<db, call, tx>> /\ pc' = [pc EXCEPT ![s] = "write"]
    BY <1>2 DEF Siblings, Goto
  <2>2. call' = [call EXCEPT ![s] = call[s]] /\ call[s] \in CallType /\ call[s].seen \subseteq DOMAIN db
    BY <2>1, Same, Fields
  <2>3. pc'[s] = "write" /\ call'[s] = call[s] /\ tx'[s] = tx[s] /\ db' = db
    BY <2>1, Same DEF IInv, HistoryTypeOK
  <2>4. PlaceInv(s)' /\ AskedInv(s)' /\ LockedInv(s)'
    BY <2>1, <2>3, Fields
    DEF CallInv, PlaceInv, AskedInv, LockedInv, Creates, Renames, Moving, Kind
  <2>5. /\ "write" \in Places /\ pc[s] \notin Moving \union {"commit"}
        /\ "write" \notin Moving \union {"commit", "idle", "done"}
    BY <2>1 DEF Places, Moving
  <2> QED BY <2>1, <2>2, <2>4, <2>5, Continues
<1> QED BY <1>1, <1>2

LEMMA FindKeeps ==
  ASSUME IInv, NEW s \in Session, Find(s)
  PROVE  IInv'
<1>1. CASE End(s)
  BY <1>1, EndKeeps DEF Find
<1>2. CASE ~End(s)
  <2>1. pc[s] = "find" /\ UNCHANGED <<db, call, tx>> /\ pc' = [pc EXCEPT ![s] = "change"]
    BY <1>2 DEF Find, Goto
  <2>2. call' = [call EXCEPT ![s] = call[s]] /\ call[s] \in CallType /\ call[s].seen \subseteq DOMAIN db
    BY <2>1, Same, Fields
  <2>3. pc'[s] = "change" /\ call'[s] = call[s] /\ tx'[s] = tx[s] /\ db' = db
    BY <2>1, Same DEF IInv, HistoryTypeOK
  <2>4. PlaceInv(s)' /\ AskedInv(s)' /\ LockedInv(s)'
    BY <2>1, <2>3, Fields
    DEF CallInv, PlaceInv, AskedInv, LockedInv, Creates, Renames, Moving, Kind
  <2>5. /\ "change" \in Places /\ pc[s] \notin Moving \union {"commit"}
        /\ "change" \notin Moving \union {"commit", "idle", "done"}
    BY <2>1 DEF Places, Moving
  <2> QED BY <2>1, <2>2, <2>4, <2>5, Continues
<1> QED BY <1>1, <1>2

\* A log of events reads one item's rules after another's.
LEMMA ReadingKeeps ==
  ASSUME IInv, NEW s \in Session, UNCHANGED <<db, tx>>, pc[s] \in {"list", "itemRules"},
         NEW l \in {"list", "itemRules"}, Goto(s, l), NEW c \in CallType,
         call' = [call EXCEPT ![s] = c], c.op = call[s].op, c.seen = call[s].seen,
         l = "itemRules" => c.of \in ServicedItems /\ c.todo \subseteq RuleNames
  PROVE  IInv'
<1>1. call[s].op = "logServiceEventsBulk" /\ call[s].seen \subseteq DOMAIN db
  BY Fields DEF CallInv, PlaceInv
<1>2. pc' = [pc EXCEPT ![s] = l] /\ pc'[s] = l /\ call'[s] = c
  BY Same DEF IInv, HistoryTypeOK, Goto
<1>3. PlaceInv(s)' /\ AskedInv(s)' /\ LockedInv(s)'
  BY <1>1, <1>2
  DEF PlaceInv, AskedInv, LockedInv, Creates, Renames, Renaming, Moving
<1>4. /\ l \in Places /\ pc[s] \notin Moving \union {"commit"}
      /\ l \notin Moving \union {"commit", "idle", "done"}
  BY DEF Places, Moving
<1> QED BY <1>1, <1>2, <1>3, <1>4, Continues

LEMMA NextItemKeeps ==
  ASSUME IInv, NEW s \in Session, NextItem(s)
  PROVE  IInv'
<1> PICK i \in {e[1] : e \in call[s].list} \ {f[1] : f \in call[s].found} :
      call' = [call EXCEPT ![s].of = i, ![s].todo =
                 {db[x].name : x \in {y \in Rows(Defaults) : db[y].of = ShelfOf[i]}}]
  BY DEF NextItem
<1> DEFINE names == {db[x].name : x \in {y \in Rows(Defaults) : db[y].of = ShelfOf[i]}}
           c == [call[s] EXCEPT !.of = i, !.todo = names]
<1>1. i \in ServicedItems
  BY Fields, CallFields
<1>2. names \subseteq RuleNames
  BY Fields DEF Rows, IsRow, DefaultRow
<1>3. call' = [call EXCEPT ![s] = c] /\ pc[s] = "list" /\ Goto(s, "itemRules") /\ UNCHANGED <<db, tx>>
  BY DEF NextItem
<1> HIDE DEF names
<1>4. /\ c \in CallType /\ c.op = call[s].op /\ c.seen = call[s].seen
      /\ c.of = i /\ c.todo = names
  BY <1>1, <1>2, Fields DEF CallType
<1> HIDE DEF c
<1> QED BY <1>1, <1>2, <1>3, <1>4, ReadingKeeps

LEMMA ReadItemRulesKeeps ==
  ASSUME IInv, NEW s \in Session, ReadItemRules(s)
  PROVE  IInv'
<1> DEFINE names == NamesInForce(call[s].todo, {x \in Rows(Rules) : db[x].of = call[s].of})
           more == {call[s].of} \X ({Absent} \union names)
           c == [call[s] EXCEPT !.todo = {}, !.found = @ \union more]
<1>1. call' = [call EXCEPT ![s] = c] /\ pc[s] = "itemRules" /\ Goto(s, "list") /\ UNCHANGED <<db, tx>>
  BY DEF ReadItemRules
<1>2. names \subseteq RuleNames
  <2>1. {db[x].name : x \in {y \in Rows(Rules) : db[y].of = call[s].of}} \subseteq RuleNames
    BY Fields DEF Rows, IsRow, RuleRow
  <2>2. call[s].todo \subseteq RuleNames
    BY <1>1, Fields DEF CallInv, PlaceInv, AskedInv
  <2> QED BY <2>1, <2>2 DEF NamesInForce
<1>3. call[s].of \in ServicedItems
  BY <1>1, Fields DEF CallInv, PlaceInv, AskedInv
<1> HIDE DEF names
<1>4. more \subseteq ServicedItems \X (RuleNames \union {Absent})
  BY <1>2, <1>3
<1> HIDE DEF more
<1>5. c \in CallType /\ c.op = call[s].op /\ c.seen = call[s].seen
  BY <1>4, Fields DEF CallType
<1> HIDE DEF c
<1> QED BY <1>1, <1>5, ReadingKeeps

-----------------------------------------------------------------------------
(* The writes.                                                             *)

LEMMA KindsApart ==
  /\ Defaults \intersect Rules = {} /\ Defaults \intersect Events = {} /\ Rules \intersect Events = {}
BY ServiceAssumption DEF ServiceAssumption

\* Rows that were free are no one else's.
LEMMA HoldsMore ==
  ASSUME IInv, NEW s \in Session, UNCHANGED db, NEW X,
         \A x \in X : \A r \in Session \ {s} : x \notin Held(r),
         Held(s)' \subseteq Held(s) \union X, tx'[s].lock = tx[s].lock,
         tx'[s].del \subseteq DOMAIN db
  PROVE  HoldsApart(s)
BY OwnHolds DEF HoldsApart

\* The name of a row to be is free of every other call and of every committed row
\* but its own.
LEMMA FreeName ==
  ASSUME IInv, NEW s \in Session, NEW K \in {Defaults, Rules}, NEW x, NEW row,
         NameFree(s, K, row.of, row.name), Matching(K, row.of, row.name) \subseteq {x}
  PROVE  /\ \A y \in Rows(K) \ {x} : ~SameName(row, db[y])
         /\ \A r \in Session \ {s} : \A y \in DOMAIN tx[r].put \intersect K : ~SameName(row, tx[r].put[y])
BY DEF NameFree, Matching, Rows, SameName, Written

LEMMA InsertKeeps ==
  ASSUME IInv, NEW s \in Session, Insert(s)
  PROVE  IInv'
<1> DEFINE K == Kind(s)
           row == NewRow(s)
<1>1. pc[s] = "write" /\ Creates(s) /\ NameFree(s, K, call[s].of, call[s].name) /\ UNCHANGED db
  BY DEF Insert
<1>2. CASE End(s)
  BY <1>1, <1>2, EndKeeps
<1>3. CASE ~End(s)
  <2>1. PICK x \in Spare(K) : Put(s, x, row)
    BY <1>3 DEF Insert
  <2>2. Matching(K, call[s].of, call[s].name) = {} /\ Goto(s, "commit") /\ UNCHANGED call
    BY <1>3 DEF Insert
  <2> DEFINE g == WithRow(tx[s].put, x, row)
             t == WithPut(tx[s], g)
  <2>3. \/ K = Defaults /\ call[s].of \in Shelves
        \/ K = Rules /\ call[s].of \in ServicedItems
    BY <1>1, Fields DEF CallInv, AskedInv, Creates, Kind
  <2>4. x \in K /\ x \in Id /\ x \notin DOMAIN db /\ \A r \in Session : x \notin DOMAIN tx[r].put
    BY <2>3 DEF Spare, Id
  <2>5. row.of = call[s].of /\ row.name = call[s].name
    BY DEF NewRow
  <2>6. IsRow(x, row)
    BY <1>1, <2>3, <2>4, KindsApart, Fields, CallFields
    DEF IsRow, NewRow, DefaultRow, RuleRow, CallInv, AskedInv
  <2>7. DOMAIN tx[s].put = {} /\ tx[s].del = {}
    BY <1>1, Fields DEF CallInv, WroteInv, Moving
  <2>8. IsTables(g) /\ DOMAIN g = {x} /\ g[x] = row
    <3>1. IsTables(tx[s].put)
      BY Fields DEF IsTx
    <3>2. g = WithRow(tx[s].put, x, row)
      OBVIOUS
    <3> HIDE DEF row, g
    <3>3. IsTables(g)
      BY <2>4, <2>6, <3>1, <3>2, AddRow
    <3>4. DOMAIN g = DOMAIN tx[s].put \union {x} /\ g[x] = row
      BY <3>2 DEF WithRow
    <3> QED BY <2>7, <3>3, <3>4
  <2>9. IsTx(t) /\ t.put = g /\ t.del = {} /\ t.lock = tx[s].lock
    <3> HIDE DEF g
    <3> QED BY <2>7, <2>8, Fields, AddPut
  <2>10. At(s, "commit", call[s], t)
    BY <2>1, <2>2, Same, Fields DEF At, Goto, Put, WithPut, WithRow
  <2> HIDE DEF g, t, row
  <2>11. HistoryTypeOK' /\ OthersSame(s) /\ pc'[s] = "commit" /\ call'[s] = call[s] /\ tx'[s] = t
    BY <1>1, <2>9, <2>10, Fields, Moves DEF Places
  <2>12. /\ call[s].op \in {"createServiceRuleDefault", "createItemRule"}
         /\ ~Renames(s) /\ ~Renames(s)' /\ ~NewName(s)' /\ ~Found(s)'
    BY <1>1, <2>11 DEF Creates, Renames, NewName, Found, Renaming
  <2>13. AloneInv(s)'
    <3> SUFFICES ASSUME NEW L \in {Defaults, Rules}, NEW z \in {x} \intersect L
                 PROVE  /\ \A y \in Rows(L)' \ {z} : ~SameName(tx'[s].put[z], db'[y])
                        /\ \A r \in Session : \A y \in DOMAIN tx'[r].put \intersect L :
                             SameName(tx'[s].put[z], tx'[r].put[y]) => z = y
      BY <2>8, <2>9, <2>11 DEF AloneInv
    <3>1. L = K /\ z = x /\ tx'[s].put[z] = row
      BY <2>3, <2>4, <2>8, <2>9, <2>11, KindsApart
    <3>2. /\ \A y \in Rows(L) \ {x} : ~SameName(row, db[y])
          /\ \A r \in Session \ {s} : \A y \in DOMAIN tx[r].put \intersect L :
               ~SameName(row, tx[r].put[y])
      <4>1. NameFree(s, L, row.of, row.name) /\ Matching(L, row.of, row.name) \subseteq {x}
        BY <1>1, <2>2, <2>5, <3>1
      <4> HIDE DEF K
      <4> QED BY <4>1, FreeName
    <3> QED BY <1>1, <2>8, <2>9, <2>11, <3>1, <3>2 DEF OthersSame, Rows
  <2>14. CallInv(s)'
    <3>1. PlaceInv(s)' /\ AskedInv(s)'
      BY <1>1, <2>11, <2>12, Fields
      DEF CallInv, PlaceInv, AskedInv, Creates, Renames, Moving, Deleting
    <3>2. WroteInv(s)' /\ LockedInv(s)' /\ MovedInv(s)' /\ RulesFollow(s)' /\ EventsFollow(s)'
      BY <2>9, <2>11, <2>12 DEF WroteInv, LockedInv, MovedInv, RulesFollow, EventsFollow
    <3>3. CorrectInv(s)' /\ NewInv(s)'
      BY <1>1, <2>4, <2>8, <2>9, <2>11, <2>12 DEF CorrectInv, NewInv
    <3> QED BY <1>1, <2>11, <2>13, <3>1, <3>2, <3>3, Fields DEF CallInv
  <2>15. HoldsApart(s)
    <3> DEFINE X == {x}
    <3>1. \A z \in X : \A r \in Session \ {s} : z \notin Held(r)
      BY <2>4, OwnHolds DEF Held, Written, IInv, HeldInv
    <3>2. Held(s)' \subseteq Held(s) \union X
      BY <2>8, <2>9, <2>11 DEF Held, Written
    <3>3. tx'[s].lock = tx[s].lock /\ tx'[s].del \subseteq DOMAIN db
      BY <2>9, <2>11
    <3> HIDE DEF X
    <3> QED BY <1>1, <3>1, <3>2, <3>3, HoldsMore
  <2>16. KeepsHand(s)
    BY <2>12 DEF KeepsHand
  <2> QED BY <1>1, <2>11, <2>14, <2>15, <2>16, StatementKeeps
<1> QED BY <1>2, <1>3

LEMMA UpdateKeeps ==
  ASSUME IInv, NEW s \in Session, Update(s)
  PROVE  IInv'
<1> DEFINE K == Kind(s)
           x == call[s].id
           row == NewRow(s)
           l == IF call[s].name = call[s].was THEN "commit" ELSE Followers(s)
<1>1. /\ pc[s] = "write" /\ UNCHANGED db /\ RowFree(s, x)
      /\ call[s].op \in {"updateServiceRuleDefault", "updateItemRule"} /\ Renames(s)
      /\ NameFree(s, K, call[s].of, call[s].name)
  BY DEF Update, Renames, Renaming
<1>2. CASE End(s)
  BY <1>1, <1>2, EndKeeps
<1>3. CASE ~End(s)
  <2>1. /\ Matching(K, call[s].of, call[s].name) \subseteq {x} /\ Put(s, x, row) /\ UNCHANGED call
        /\ Goto(s, l)
    BY <1>3 DEF Update
  <2> DEFINE g == WithRow(tx[s].put, x, row)
             t == WithPut(tx[s], g)
  <2>2. /\ x \in tx[s].lock /\ x \in DOMAIN db /\ x \in K /\ x \in Id
        /\ db[x].of = call[s].of /\ db[x].name = call[s].was
    BY <1>1, Fields DEF CallInv, LockedInv
  <2>3. \/ K = Defaults /\ call[s].op = "updateServiceRuleDefault" /\ call[s].of \in Shelves
        \/ K = Rules /\ call[s].op = "updateItemRule" /\ call[s].of \in ServicedItems
    BY <1>1, <2>2, Fields DEF Kind, IsRow, DefaultRow, RuleRow
  <2>4. row.of = call[s].of /\ row.name = call[s].name
    BY DEF NewRow
  <2>5. call[s].name \in RuleNames /\ call[s].hides \in BOOLEAN
    BY <1>1, Fields, CallFields DEF CallInv, AskedInv
  <2>6. IsRow(x, row)
    BY <2>2, <2>3, <2>5, KindsApart DEF IsRow, NewRow, DefaultRow, RuleRow
  <2>7. DOMAIN tx[s].put = {} /\ tx[s].del = {}
    BY <1>1, Fields DEF CallInv, WroteInv, Moving
  <2>8. IsTables(g) /\ DOMAIN g = {x} /\ g[x] = row
    <3>1. IsTables(tx[s].put)
      BY Fields DEF IsTx
    <3>2. g = WithRow(tx[s].put, x, row)
      OBVIOUS
    <3> HIDE DEF row, g, x
    <3>3. IsTables(g)
      BY <2>2, <2>6, <3>1, <3>2, AddRow
    <3>4. DOMAIN g = DOMAIN tx[s].put \union {x} /\ g[x] = row
      BY <3>2 DEF WithRow
    <3> QED BY <2>7, <3>3, <3>4
  <2>9. IsTx(t) /\ t.put = g /\ t.del = {} /\ t.lock = tx[s].lock
    <3> HIDE DEF g
    <3> QED BY <2>7, <2>8, Fields, AddPut
  <2>10. At(s, l, call[s], t)
    <3> HIDE DEF l
    <3> QED BY <2>1, Same, Fields DEF At, Goto, Put, WithPut, WithRow
  <2>11. /\ l \in Places /\ l \notin {"idle", "done"}
         /\ \/ l = "commit" /\ call[s].name = call[s].was
            \/ l = "pickRules" /\ K = Defaults /\ call[s].name # call[s].was
            \/ l = "pickEvents" /\ K = Rules /\ call[s].name # call[s].was
    BY <2>3, KindsApart DEF Followers, Places, Kind
  <2> HIDE DEF g, t, row, l
  <2>12. HistoryTypeOK' /\ OthersSame(s) /\ pc'[s] = l /\ call'[s] = call[s] /\ tx'[s] = t
    BY <1>1, <2>9, <2>10, <2>11, Fields, Moves
  <2>13. Kind(s)' = K /\ NewRow(s)' = row
    BY <2>12 DEF Kind, NewRow, row
  <2>14. AloneInv(s)'
    <3> SUFFICES ASSUME NEW L \in {Defaults, Rules}, NEW z \in {x} \intersect L
                 PROVE  /\ \A y \in Rows(L)' \ {z} : ~SameName(tx'[s].put[z], db'[y])
                        /\ \A r \in Session : \A y \in DOMAIN tx'[r].put \intersect L :
                             SameName(tx'[s].put[z], tx'[r].put[y]) => z = y
      BY <2>8, <2>9, <2>12 DEF AloneInv
    <3>1. L = K /\ z = x /\ tx'[s].put[z] = row
      BY <2>2, <2>3, <2>8, <2>9, <2>12, KindsApart
    <3>2. /\ \A y \in Rows(L) \ {x} : ~SameName(row, db[y])
          /\ \A r \in Session \ {s} : \A y \in DOMAIN tx[r].put \intersect L :
               ~SameName(row, tx[r].put[y])
      <4>1. NameFree(s, L, row.of, row.name) /\ Matching(L, row.of, row.name) \subseteq {x}
        BY <1>1, <2>1, <2>4, <3>1
      <4> HIDE DEF x, K
      <4> QED BY <4>1, FreeName
    <3> QED BY <1>1, <2>8, <2>9, <2>12, <3>1, <3>2 DEF OthersSame, Rows
  <2>15. CallInv(s)'
    <3>1. PlaceInv(s)' /\ AskedInv(s)'
      BY <1>1, <2>11, <2>12, <2>13, Fields
      DEF CallInv, PlaceInv, AskedInv, Creates, Renames, Moving, Deleting
    <3>2. WroteInv(s)' /\ LockedInv(s)'
      BY <1>1, <2>2, <2>9, <2>11, <2>12, <2>13 DEF WroteInv, LockedInv, Moving
    <3>3. MovedInv(s)'
      BY <2>8, <2>9, <2>12, <2>13 DEF MovedInv
    <3>4. RulesFollow(s)' /\ EventsFollow(s)'
      BY <2>2, <2>11, <2>12, <2>13, KindsApart DEF RulesFollow, EventsFollow, Found, NewName
    <3>5. CorrectInv(s)' /\ NewInv(s)'
      BY <1>1, <2>12 DEF CorrectInv, NewInv, Renaming
    <3> QED BY <1>1, <2>12, <2>14, <3>1, <3>2, <3>3, <3>4, <3>5, Fields DEF CallInv
  <2>16. HoldsApart(s)
    <3> DEFINE X == {x}
    <3>1. \A z \in X : \A r \in Session \ {s} : z \notin Held(r)
      BY <1>1 DEF RowFree
    <3>2. Held(s)' \subseteq Held(s) \union X
      BY <2>8, <2>9, <2>12 DEF Held, Written
    <3>3. tx'[s].lock = tx[s].lock /\ tx'[s].del \subseteq DOMAIN db
      BY <2>9, <2>12
    <3> HIDE DEF X
    <3> QED BY <1>1, <3>1, <3>2, <3>3, HoldsMore
  <2>17. KeepsHand(s)
    BY <2>11, <2>12 DEF KeepsHand, Found, NewName
  <2> QED BY <1>1, <2>12, <2>15, <2>16, <2>17, StatementKeeps
<1> QED BY <1>2, <1>3

-----------------------------------------------------------------------------
(* What follows a rename.                                                  *)

\* What a row of the rename bears is what the rename looks for.
LEMMA BearerLeft ==
  ASSUME IInv, NEW s \in Session, pc[s] \in Moving \union {"commit"}, Renames(s),
         NEW e \in Rows(Events), NEW b \in Bearers(e), b \in DOMAIN tx[s].put
  PROVE  Left(s, e)
<1>1. /\ call[s].id \in DOMAIN db /\ call[s].id \in Kind(s)
      /\ db[call[s].id].of = call[s].of /\ db[call[s].id].name = call[s].was
      /\ Kind(s) \in {Defaults, Rules} /\ LockedInv(s) /\ MovedInv(s)
  BY Fields DEF CallInv, LockedInv, Renames, Renaming, Kind
<1>2. /\ b \in Rules \union Defaults /\ db[b].name = db[e].name
      /\ b \in Rules => db[b].of = db[e].of
      /\ b \in Defaults => db[b].of = ShelfOf[db[e].of]
      /\ db[e].of \in ServicedItems
  BY Fields, KindsApart DEF Bearers, Rows, Bears, IsRow, EventRow
<1>3. CASE b = call[s].id
  <2>1. CASE Kind(s) = Defaults
    BY <1>1, <1>2, <1>3, <2>1 DEF Left, ItemsOf
  <2>2. CASE Kind(s) = Rules /\ Kind(s) # Defaults
    BY <1>1, <1>2, <1>3, <2>2 DEF Left, ItemsOf
  <2> QED BY <1>1, <2>1, <2>2
<1>4. CASE b # call[s].id
  <2>1. b \in Rules /\ db[b].of \in ItemsOf(s) /\ db[b].name = call[s].was
    BY <1>1, <1>2, <1>4, KindsApart DEF MovedInv
  <2> QED BY <1>2, <2>1 DEF Left
<1> QED BY <1>3, <1>4

\* The place of a call that has begun to move rows.
LEMMA MovingCall ==
  ASSUME IInv, NEW s \in Session, pc[s] \in Moving
  PROVE  /\ Renames(s) /\ NewName(s) /\ call[s].name \in RuleNames
         /\ call[s].id \in tx[s].lock \intersect DOMAIN db \intersect Kind(s)
         /\ tx[s].del = {} /\ Kind(s) \in {Defaults, Rules}
         /\ pc[s] \in {"pickRules", "repointRules"} => Kind(s) = Defaults
BY Fields
DEF CallInv, PlaceInv, AskedInv, WroteInv, LockedInv, Renames, NewName, Renaming, Kind

LEMMA PickRowsKeeps ==
  ASSUME IInv, NEW s \in Session, PickRows(s)
  PROVE  IInv'
<1> DEFINE K == IF pc[s] = "pickRules" THEN Rules ELSE Events
           l == IF pc[s] = "pickRules" THEN "repointRules" ELSE "repointEvents"
           rows == {x \in Rows(K) : Left(s, x)}
           c == [call[s] EXCEPT !.todo = rows]
<1>1. /\ pc[s] \in {"pickRules", "pickEvents"} /\ UNCHANGED <<db, tx>> /\ Goto(s, l)
      /\ call' = [call EXCEPT ![s] = c] /\ pc[s] \in Moving
  BY DEF PickRows, Moving
<1>2. rows \subseteq Id /\ rows \subseteq K
  BY Fields DEF Rows
<1>3. \/ pc[s] = "pickRules" /\ l = "repointRules" /\ K = Rules
      \/ pc[s] = "pickEvents" /\ l = "repointEvents" /\ K = Events
  BY <1>1
<1>4. \A x \in K \intersect DOMAIN db : Left(s, x) => x \in rows
  BY DEF Rows
<1> HIDE DEF rows
<1>5. /\ c \in CallType /\ c.todo = rows /\ c.op = call[s].op /\ c.id = call[s].id
      /\ c.of = call[s].of /\ c.name = call[s].name /\ c.hides = call[s].hides
      /\ c.was = call[s].was /\ c.seen = call[s].seen
  BY <1>2, Fields DEF CallType
<1>6. At(s, l, c, tx[s]) /\ l \in Places /\ l \notin {"idle", "done"}
  BY <1>1, Same, Fields DEF At, Goto, Places
<1> HIDE DEF K, l, c
<1>7. HistoryTypeOK' /\ OthersSame(s) /\ pc'[s] = l /\ call'[s] = c /\ tx'[s] = tx[s] /\ tx' = tx
  BY <1>1, <1>5, <1>6, Fields, Moves
<1>8. /\ Renames(s) /\ NewName(s) /\ Renames(s)' /\ NewName(s)' /\ Kind(s)' = Kind(s)
      /\ ItemsOf(s)' = ItemsOf(s) /\ NewRow(s)' = NewRow(s)
      /\ Kind(s) \in {Defaults, Rules} /\ (pc[s] = "pickRules" => Kind(s) = Defaults)
  BY <1>1, <1>5, <1>7, MovingCall DEF Renames, NewName, Kind, ItemsOf, NewRow
<1>9. AloneInv(s)'
  BY <1>1, <1>7, Fields DEF CallInv, AloneInv, Rows
<1>10. CallInv(s)'
  <2>1. PlaceInv(s)' /\ AskedInv(s)'
    BY <1>1, <1>2, <1>3, <1>5, <1>7, <1>8, Fields
    DEF CallInv, PlaceInv, AskedInv, Creates, Renames, Moving, NewName
  <2>2. WroteInv(s)' /\ LockedInv(s)' /\ MovedInv(s)'
    BY <1>1, <1>3, <1>5, <1>7, <1>8, Fields
    DEF CallInv, WroteInv, LockedInv, MovedInv, Moving
  <2>3. RulesFollow(s)'
    <3> SUFFICES ASSUME Kind(s) = Defaults, NEW x \in Rows(Rules) \intersect call[s].seen, Left(s, x)
                 PROVE  InHand(s, x, "repointRules")'
      BY <1>1, <1>5, <1>7, <1>8 DEF RulesFollow, Rows, Left
    <3>1. CASE pc[s] = "pickRules"
      BY <1>3, <1>4, <1>5, <1>7, <3>1 DEF InHand, Rows
    <3>2. CASE pc[s] = "pickEvents"
      <4>1. InHand(s, x, "repointRules")
        BY <1>8, <3>2, Fields DEF CallInv, RulesFollow
      <4> QED BY <1>7, <3>2, <4>1 DEF InHand
    <3> QED BY <1>1, <3>1, <3>2
  <2>4. EventsFollow(s)'
    BY <1>1, <1>3, <1>4, <1>5, <1>7, <1>8 DEF EventsFollow, Found, Rows, Left, InHand
  <2>5. CorrectInv(s)' /\ NewInv(s)'
    BY <1>1, <1>5, <1>7, Fields DEF CallInv, CorrectInv, NewInv
  <2> QED BY <1>1, <1>5, <1>7, <1>9, <2>1, <2>2, <2>3, <2>4, <2>5, Fields DEF CallInv
<1>11. HoldsApart(s)
  BY <1>1, <1>7, OwnHolds DEF HoldsApart, Held, Written
<1>12. KeepsHand(s)
  <2> SUFFICES ASSUME Found(s)', NEW e \in Rows(Events), NEW b \in Bearers(e),
                      b \in DOMAIN tx[s].put
               PROVE  InHand(s, e, "repointEvents")'
    BY <1>7 DEF KeepsHand
  <2>1. Left(s, e) /\ pc'[s] = "repointEvents"
    BY <1>1, <1>3, <1>7, <1>8, BearerLeft DEF Found
  <2> QED BY <1>3, <1>4, <1>5, <1>7, <2>1 DEF InHand, Rows
<1> QED BY <1>1, <1>7, <1>10, <1>11, <1>12, StatementKeeps

LEMMA RepointedKeeps ==
  ASSUME IInv, NEW s \in Session, Repointed(s)
  PROVE  IInv'
<1> DEFINE l == IF pc[s] = "repointRules" THEN "pickEvents" ELSE "commit"
<1>1. /\ pc[s] \in {"repointRules", "repointEvents"} /\ call[s].todo = {}
      /\ UNCHANGED <<db, call, tx>>
      /\ Goto(s, l) /\ pc[s] \in Moving
  BY DEF Repointed, Moving
<1>2. \/ pc[s] = "repointRules" /\ l = "pickEvents"
      \/ pc[s] = "repointEvents" /\ l = "commit"
  BY <1>1
<1>3. At(s, l, call[s], tx[s]) /\ l \in Places /\ l \notin {"idle", "done"}
  BY <1>1, Same, Fields DEF At, Goto, Places
<1> HIDE DEF l
<1>4. HistoryTypeOK' /\ OthersSame(s) /\ pc'[s] = l /\ call' = call /\ tx' = tx
  BY <1>1, <1>3, Fields, Moves
<1>5. Renames(s) /\ NewName(s)
  BY <1>1, MovingCall
<1>6. CallInv(s)'
  <2>1. PlaceInv(s)' /\ AskedInv(s)'
    BY <1>1, <1>2, <1>4, <1>5, Fields
    DEF CallInv, PlaceInv, AskedInv, Creates, Renames, Moving, Kind
  <2>2. WroteInv(s)' /\ LockedInv(s)' /\ MovedInv(s)'
    <3>1. /\ Renames(s)' = Renames(s) /\ Kind(s)' = Kind(s) /\ NewRow(s)' = NewRow(s)
          /\ ItemsOf(s)' = ItemsOf(s) /\ call'[s] = call[s] /\ tx'[s] = tx[s] /\ db' = db
          /\ pc'[s] \in Moving \union {"commit"}
      BY <1>1, <1>2, <1>4 DEF Renames, Kind, NewRow, ItemsOf, Moving
    <3>2. WroteInv(s) /\ LockedInv(s) /\ MovedInv(s)
      BY Fields DEF CallInv
    <3>3. WroteInv(s)'
      BY <3>1, <3>2 DEF WroteInv
    <3>4. LockedInv(s)'
      BY <1>1, <1>5, <3>1, <3>2 DEF LockedInv
    <3>5. MovedInv(s)'
      BY <1>1, <1>5, <3>1, <3>2 DEF MovedInv
    <3> QED BY <3>3, <3>4, <3>5
  <2>3. RulesFollow(s)'
    BY <1>1, <1>2, <1>4, <1>5, Fields
    DEF CallInv, RulesFollow, Rows, Left, InHand, NewName, Kind, ItemsOf
  <2>4. EventsFollow(s)'
    <3> SUFFICES ASSUME Found(s)', NEW e \in Rows(Events) \intersect call[s].seen, Left(s, e)
                 PROVE  \/ InHand(s, e, "repointEvents")'
                        \/ \E b \in Bearers(e)' \ DOMAIN tx[s].put : KeptBy(b, e)'
      BY <1>1, <1>4 DEF EventsFollow, Rows, Left, ItemsOf, Kind
    <3>1. Found(s) /\ pc[s] = "repointEvents" /\ l = "commit"
      BY <1>2, <1>4, <1>5 DEF Found
    <3>2. \/ e \in DOMAIN tx[s].put
          \/ \E b \in Bearers(e) \ DOMAIN tx[s].put : KeptBy(b, e)
      BY <1>1, <3>1, Fields DEF CallInv, EventsFollow, InHand
    <3>3. ASSUME NEW b \in Bearers(e) \ DOMAIN tx[s].put, KeptBy(b, e)
          PROVE  b \in Bearers(e)' /\ KeptBy(b, e)'
      <4>1. b \in Bearers(e)'
        BY <1>1 DEF Bearers, Rows, Bears
      <4>2. ASSUME NEW q \in Session, Found(q)', b \in DOMAIN tx[q].put
            PROVE  InHand(q, e, "repointEvents")'
        BY <1>4, <3>3, <4>2 DEF KeptBy, Found, NewName, InHand, OthersSame
      <4> QED BY <1>4, <4>1, <4>2 DEF KeptBy
    <3> QED BY <1>4, <3>2, <3>3 DEF InHand
  <2>5. CorrectInv(s)' /\ NewInv(s)' /\ AloneInv(s)'
    BY <1>1, <1>4, Fields DEF CallInv, CorrectInv, NewInv, AloneInv, Rows
  <2> QED BY <1>1, <1>4, <2>1, <2>2, <2>3, <2>4, <2>5, Fields DEF CallInv
<1>7. HoldsApart(s)
  BY <1>1, <1>4, OwnHolds DEF HoldsApart, Held, Written
<1>8. KeepsHand(s)
  <2> SUFFICES ASSUME Found(s)', NEW e \in Rows(Events), NEW b \in DOMAIN tx[s].put,
                      Found(s) => InHand(s, e, "repointEvents")
               PROVE  InHand(s, e, "repointEvents")'
    BY <1>4 DEF KeepsHand
  <2>1. Found(s) /\ e \in DOMAIN tx[s].put
    BY <1>1, <1>2, <1>4, <1>5 DEF Found, InHand
  <2> QED BY <1>4, <2>1 DEF InHand
<1> QED BY <1>1, <1>4, <1>6, <1>7, <1>8, StatementKeeps

\* One row of the UPDATE is moved, or no longer is one the WHERE speaks of.
LEMMA RepointKeeps ==
  ASSUME IInv, NEW s \in Session, pc[s] \in {"repointRules", "repointEvents"},
         NEW x \in call[s].todo, RowFree(s, x), UNCHANGED <<db, pc>>,
         call' = [call EXCEPT ![s].todo = @ \ {x}],
         NEW still \in BOOLEAN, still <=> x \in DOMAIN db /\ Left(s, x),
         IF still THEN Put(s, x, [db[x] EXCEPT !.name = call[s].name]) ELSE UNCHANGED tx,
         still /\ x \in Rules => /\ NameFree(s, Rules, db[x].of, call[s].name)
                                 /\ Matching(Rules, db[x].of, call[s].name) = {}
  PROVE  IInv'
<1> DEFINE rest == call[s].todo \ {x}
           c == [call[s] EXCEPT !.todo = rest]
           row == [db[x] EXCEPT !.name = call[s].name]
           g == WithRow(tx[s].put, x, row)
           t == IF still THEN WithPut(tx[s], g) ELSE tx[s]
<1>1. /\ pc[s] \in Moving /\ Renames(s) /\ NewName(s) /\ call[s].name \in RuleNames
      /\ call[s].id \in tx[s].lock \intersect DOMAIN db \intersect Kind(s)
      /\ tx[s].del = {} /\ Kind(s) \in {Defaults, Rules}
      /\ pc[s] = "repointRules" => Kind(s) = Defaults
  BY MovingCall DEF Moving
<1>2. \/ pc[s] = "repointRules" /\ x \in Rules
      \/ pc[s] = "repointEvents" /\ x \in Events
  BY Fields DEF CallInv, AskedInv
<1>3. x \in Id /\ x # call[s].id
  BY <1>1, <1>2, KindsApart DEF Id
<1>4. rest \subseteq RuleNames \union Id /\ rest \subseteq call[s].todo
  BY Fields, CallFields
<1>5. \A y \in call[s].todo : y = x \/ y \in rest
  OBVIOUS
<1> HIDE DEF rest
<1>6. /\ c \in CallType /\ c.todo = rest /\ c.op = call[s].op /\ c.id = call[s].id
      /\ c.of = call[s].of /\ c.name = call[s].name /\ c.hides = call[s].hides
      /\ c.was = call[s].was /\ c.seen = call[s].seen
  BY <1>4, Fields DEF CallType
<1>7. call' = [call EXCEPT ![s] = c]
  BY DEF rest
<1> HIDE DEF c
<1>8. ASSUME still
      PROVE  /\ row.of = db[x].of /\ row.name = call[s].name /\ IsRow(x, row)
             /\ db[x].of \in ItemsOf(s) /\ db[x].name = call[s].was /\ x \in DOMAIN db
  BY <1>1, <1>2, <1>8, KindsApart, Fields DEF IsRow, RuleRow, EventRow, Left
<1>9. ASSUME still
      PROVE  /\ IsTables(g) /\ DOMAIN g = DOMAIN tx[s].put \union {x} /\ g[x] = row
             /\ \A y \in DOMAIN tx[s].put \ {x} : g[y] = tx[s].put[y]
  <2>1. IsTables(tx[s].put)
    BY Fields DEF IsTx
  <2>2. g = WithRow(tx[s].put, x, row)
    OBVIOUS
  <2> HIDE DEF row, g
  <2>3. IsTables(g)
    BY <1>3, <1>8, <1>9, <2>1, <2>2, AddRow
  <2>4. DOMAIN g = DOMAIN tx[s].put \union {x} /\ g[x] = row
        /\ \A y \in DOMAIN tx[s].put \ {x} : g[y] = tx[s].put[y]
    BY <2>2 DEF WithRow
  <2> QED BY <2>3, <2>4
<1> HIDE DEF row
<1>10. /\ IsTx(t) /\ t.del = tx[s].del /\ t.lock = tx[s].lock
       /\ still => t.put = g
       /\ ~still => t.put = tx[s].put
  <2> HIDE DEF g
  <2>1. CASE still
    <3>1. t = WithPut(tx[s], g)
      BY <2>1
    <3> HIDE DEF t
    <3> QED BY <1>9, <2>1, <3>1, Fields, AddPut
  <2>2. CASE ~still
    BY <2>2, Fields
  <2> QED BY <2>1, <2>2
<1>11. tx' = [tx EXCEPT ![s] = t]
  BY Same, Fields DEF Put, WithPut, WithRow, row
<1>12. At(s, pc[s], c, t) /\ pc[s] \in Places /\ pc[s] \notin {"idle", "done"}
  BY <1>1, <1>7, <1>11, Same, Fields DEF At, Moving
<1> HIDE DEF g, t
<1>13. HistoryTypeOK' /\ OthersSame(s) /\ pc' = pc /\ call'[s] = c /\ tx'[s] = t
  BY <1>6, <1>10, <1>12, Fields, Moves
<1>14. /\ Renames(s)' /\ NewName(s)' /\ Kind(s)' = Kind(s) /\ ItemsOf(s)' = ItemsOf(s)
       /\ NewRow(s)' = NewRow(s) /\ \A y : Left(s, y)' <=> Left(s, y)
  BY <1>1, <1>6, <1>13 DEF Renames, NewName, Kind, ItemsOf, NewRow, Left
<1>15. /\ \A y \in DOMAIN tx[s].put : y \in DOMAIN t.put
       /\ \A y \in DOMAIN t.put : y \in DOMAIN tx[s].put \/ (still /\ y = x)
       /\ \A y \in DOMAIN t.put \ {x} : t.put[y] = tx[s].put[y]
       /\ still => x \in DOMAIN t.put /\ t.put[x] = row
       /\ x \in DOMAIN t.put /\ ~still => t.put[x] = tx[s].put[x]
  BY <1>9, <1>10
\* Whatever was in hand is, unless the WHERE no longer speaks of it.
<1>16. ASSUME NEW y, Left(s, y), y \in DOMAIN db, InHand(s, y, pc[s]) PROVE InHand(s, y, pc[s])'
  BY <1>5, <1>6, <1>13, <1>15, <1>16 DEF InHand
<1>17. AloneInv(s)'
  <2> SUFFICES ASSUME NEW K \in {Defaults, Rules}, NEW y \in DOMAIN t.put \intersect K
               PROVE  /\ \A z \in Rows(K) \ {y} : ~SameName(t.put[y], db[z])
                      /\ \A r \in Session : \A z \in DOMAIN tx'[r].put \intersect K :
                           SameName(t.put[y], tx'[r].put[z]) => y = z
    BY <1>13 DEF AloneInv, Rows
  <2>1. /\ \A z \in DOMAIN tx[s].put \intersect K :
             \A v \in Rows(K) \ {z} : ~SameName(tx[s].put[z], db[v])
        /\ \A z \in DOMAIN tx[s].put \intersect K :
             \A r \in Session : \A v \in DOMAIN tx[r].put \intersect K :
               SameName(tx[s].put[z], tx[r].put[v]) => z = v
    BY Fields DEF CallInv, AloneInv
  <2>2. CASE still /\ x \in K
    <3>1. K = Rules /\ x \in Rules /\ Kind(s) = Defaults /\ still
      BY <1>1, <1>2, <2>2, KindsApart
    <3>2. /\ \A z \in Rows(Rules) \ {x} : ~SameName(row, db[z])
          /\ \A r \in Session \ {s} : \A z \in DOMAIN tx[r].put \intersect Rules :
               ~SameName(row, tx[r].put[z])
      <4>1. NameFree(s, Rules, row.of, row.name) /\ Matching(Rules, row.of, row.name) \subseteq {x}
        BY <1>8, <3>1
      <4> QED BY <4>1, FreeName
    \* Two rules of one item that leave the same name are one rule.
    <3>3. ASSUME NEW z \in DOMAIN tx[s].put \intersect Rules, SameName(row, tx[s].put[z])
          PROVE  z = x
      <4>1. z # call[s].id
        BY <1>1, <3>1, KindsApart
      <4>2. /\ z \in DOMAIN db /\ db[z].name = call[s].was
            /\ tx[s].put[z] = [db[z] EXCEPT !.name = call[s].name]
        BY <1>1, <4>1, Fields DEF CallInv, MovedInv
      <4>3. tx[s].put[z].of = db[z].of
        BY <4>2, Fields DEF IsRow, RuleRow
      <4>4. db[z].of = db[x].of /\ db[z].name = db[x].name
        BY <1>8, <3>1, <3>3, <4>2, <4>3 DEF SameName
      <4> QED BY <1>8, <3>1, <4>2, <4>4 DEF IInv, NamesAreUnique, UniqueNames, Rows
    <3>4. \A r \in Session \ {s} : tx'[r] = tx[r]
      BY <1>13 DEF OthersSame
    <3>5. CASE y = x
      <4>1. t.put[y] = row
        BY <1>15, <3>1, <3>5
      <4>2. ASSUME NEW r \in Session, NEW z \in DOMAIN tx'[r].put \intersect K,
                   SameName(t.put[y], tx'[r].put[z])
            PROVE  y = z
        <5>1. CASE r # s
          BY <3>1, <3>2, <3>4, <4>1, <4>2, <5>1
        <5>2. CASE r = s /\ z # x
          <6>1. z \in DOMAIN tx[s].put \intersect Rules /\ SameName(row, tx[s].put[z])
            BY <1>13, <1>15, <3>1, <4>1, <4>2, <5>2
          <6> QED BY <3>3, <3>5, <6>1
        <5> QED BY <3>5, <5>1, <5>2
      <4> QED BY <3>1, <3>2, <3>5, <4>1, <4>2
    <3>6. CASE y # x
      <4>1. y \in DOMAIN tx[s].put \intersect K /\ t.put[y] = tx[s].put[y]
        BY <1>15, <3>6
      <4>2. ASSUME NEW r \in Session, NEW z \in DOMAIN tx'[r].put \intersect K,
                   SameName(t.put[y], tx'[r].put[z])
            PROVE  y = z
        <5>1. CASE r # s
          BY <2>1, <3>4, <4>1, <4>2, <5>1
        <5>2. CASE r = s /\ z # x
          <6>1. z \in DOMAIN tx[s].put \intersect K /\ SameName(tx[s].put[y], tx[s].put[z])
            BY <1>13, <1>15, <4>1, <4>2, <5>2
          <6> QED BY <2>1, <4>1, <6>1
        <5>3. CASE r = s /\ z = x
          <6>1. SameName(row, tx[s].put[y])
            BY <1>13, <1>15, <3>1, <4>1, <4>2, <5>3 DEF SameName
          <6> QED BY <3>1, <3>3, <4>1, <5>3, <6>1
        <5> QED BY <5>1, <5>2, <5>3
      <4> QED BY <2>1, <4>1, <4>2
    <3> QED BY <3>5, <3>6
  <2>3. CASE ~(still /\ x \in K)
    <3>1. /\ \A z \in DOMAIN t.put \intersect K : z \in DOMAIN tx[s].put /\ t.put[z] = tx[s].put[z]
          /\ \A r \in Session \ {s} : tx'[r] = tx[r]
      BY <1>13, <1>15, <2>3 DEF OthersSame
    <3> QED BY <1>13, <2>1, <3>1
  <2> QED BY <2>2, <2>3
<1>18. CallInv(s)'
  <2>1. PlaceInv(s)' /\ AskedInv(s)'
    BY <1>1, <1>4, <1>6, <1>13, <1>14, Fields
    DEF CallInv, PlaceInv, AskedInv, Creates, Renames, Moving, Kind
  <2>2. WroteInv(s)' /\ LockedInv(s)'
    BY <1>1, <1>6, <1>10, <1>13, <1>14, Fields DEF CallInv, WroteInv, LockedInv, Moving
  <2>3. MovedInv(s)'
    <3>1. /\ call[s].id \in DOMAIN tx[s].put /\ tx[s].put[call[s].id] = NewRow(s)
          /\ \A y \in DOMAIN tx[s].put \ {call[s].id} :
               /\ y \in DOMAIN db /\ (y \in Events \/ (y \in Rules /\ Kind(s) = Defaults))
               /\ db[y].of \in ItemsOf(s) /\ db[y].name = call[s].was
               /\ tx[s].put[y] = [db[y] EXCEPT !.name = call[s].name]
      BY <1>1, Fields DEF CallInv, MovedInv
    <3>2. ASSUME NEW y \in DOMAIN t.put \ {call[s].id}
          PROVE  /\ y \in DOMAIN db /\ (y \in Events \/ (y \in Rules /\ Kind(s) = Defaults))
                 /\ db[y].of \in ItemsOf(s) /\ db[y].name = call[s].was
                 /\ t.put[y] = [db[y] EXCEPT !.name = call[s].name]
      <4>1. CASE still /\ y = x
        BY <1>1, <1>2, <1>8, <1>15, <4>1 DEF row
      <4>2. CASE ~(still /\ y = x)
        BY <1>15, <3>1, <3>2, <4>2
      <4> QED BY <4>1, <4>2
    <3>3. call[s].id \in DOMAIN t.put /\ t.put[call[s].id] = NewRow(s)
      BY <1>3, <1>15, <3>1
    <3> QED BY <1>6, <1>13, <1>14, <3>2, <3>3 DEF MovedInv
  <2>4. RulesFollow(s)'
    <3> SUFFICES ASSUME Kind(s) = Defaults, NEW y \in Rows(Rules) \intersect call[s].seen, Left(s, y)
                 PROVE  InHand(s, y, "repointRules")'
      BY <1>6, <1>13, <1>14 DEF RulesFollow, Rows
    <3>1. InHand(s, y, "repointRules") /\ y \in DOMAIN db
      BY <1>1, Fields DEF CallInv, RulesFollow, Rows
    <3>2. CASE pc[s] = "repointRules"
      BY <1>16, <3>1, <3>2
    <3>3. CASE pc[s] # "repointRules"
      BY <1>13, <1>15, <3>1, <3>3 DEF InHand
    <3> QED BY <3>2, <3>3
  <2>5. EventsFollow(s)'
    <3> SUFFICES ASSUME pc[s] = "repointEvents", Found(s),
                        NEW e \in Rows(Events) \intersect call[s].seen, Left(s, e)
                 PROVE  \/ InHand(s, e, "repointEvents")'
                        \/ \E b \in Bearers(e)' \ DOMAIN t.put : KeptBy(b, e)'
      BY <1>1, <1>2, <1>6, <1>13, <1>14 DEF EventsFollow, Found, Rows
    <3>1. CASE InHand(s, e, "repointEvents")
      BY <1>16, <3>1 DEF Rows
    <3>2. CASE \E b \in Bearers(e) \ DOMAIN tx[s].put : KeptBy(b, e)
      <4> PICK b \in Bearers(e) \ DOMAIN tx[s].put : KeptBy(b, e)
        BY <3>2
      <4>1. b \in Bearers(e)' /\ b \notin DOMAIN t.put
        BY <1>2, <1>15, KindsApart DEF Bearers, Rows, Bears
      <4>2. ASSUME NEW q \in Session, Found(q)', b \in DOMAIN tx'[q].put
            PROVE  InHand(q, e, "repointEvents")'
        <5>1. q # s
          BY <1>13, <4>1, <4>2
        <5>2. pc'[q] = pc[q] /\ call'[q] = call[q] /\ tx'[q] = tx[q]
          BY <1>13, <5>1 DEF OthersSame
        <5> QED BY <4>2, <5>2 DEF KeptBy, Found, NewName, InHand
      <4> QED BY <4>1, <4>2 DEF KeptBy
    <3> QED BY <3>1, <3>2, Fields DEF CallInv, EventsFollow
  <2>6. CorrectInv(s)' /\ NewInv(s)'
    BY <1>14 DEF CorrectInv, NewInv, Renames, Renaming
  <2> QED BY <1>6, <1>13, <1>17, <2>1, <2>2, <2>3, <2>4, <2>5, <2>6, Fields DEF CallInv
<1>19. HoldsApart(s)
  <2> DEFINE X == {x}
  <2>1. \A z \in X : \A r \in Session \ {s} : z \notin Held(r)
    BY DEF RowFree
  <2>2. Held(s)' \subseteq Held(s) \union X
    BY <1>10, <1>13, <1>15 DEF Held, Written
  <2>3. tx'[s].lock = tx[s].lock /\ tx'[s].del \subseteq DOMAIN db
    BY <1>1, <1>10, <1>13
  <2> HIDE DEF X
  <2> QED BY <2>1, <2>2, <2>3, HoldsMore
<1>20. KeepsHand(s)
  <2> SUFFICES ASSUME Found(s)', NEW e \in Rows(Events), NEW b \in Bearers(e), b \in DOMAIN t.put,
                      Found(s) /\ b \in DOMAIN tx[s].put => InHand(s, e, "repointEvents")
               PROVE  InHand(s, e, "repointEvents")'
    BY <1>13 DEF KeepsHand
  <2>1. pc[s] = "repointEvents" /\ Found(s) /\ x \in Events
    BY <1>1, <1>2, <1>13 DEF Found
  <2>2. b \in DOMAIN tx[s].put
    BY <1>15, <2>1, KindsApart DEF Bearers, Rows
  <2>3. Left(s, e)
    BY <1>1, <2>2, BearerLeft
  <2> QED BY <1>16, <2>1, <2>2, <2>3 DEF Rows
<1> QED BY <1>13, <1>18, <1>19, <1>20, StatementKeeps

LEMMA RepointRowKeeps ==
  ASSUME IInv, NEW s \in Session, RepointRow(s)
  PROVE  IInv'
<1>1. CASE End(s)
  BY <1>1, EndKeeps DEF RepointRow
<1>2. CASE ~End(s)
  <2> PICK x \in call[s].todo :
        LET row == [db[x] EXCEPT !.name = call[s].name]
            still == x \in DOMAIN db /\ Left(s, x)
        IN /\ RowFree(s, x)
           /\ still /\ x \in Rules => NameFree(s, Rules, row.of, row.name)
           /\ IF still /\ x \in Rules /\ Matching(Rules, row.of, row.name) # {}
              THEN End(s)
              ELSE /\ call' = [call EXCEPT ![s].todo = @ \ {x}]
                   /\ IF still THEN Put(s, x, row) ELSE UNCHANGED tx
                   /\ UNCHANGED pc
    BY <1>2 DEF RepointRow
  <2> DEFINE row == [db[x] EXCEPT !.name = call[s].name]
             still == x \in DOMAIN db /\ Left(s, x)
  <2>1. ASSUME still, x \in Rules PROVE row.of = db[x].of /\ row.name = call[s].name
    BY <2>1, Fields DEF IsRow, RuleRow
  <2>2. pc[s] \in {"repointRules", "repointEvents"} /\ UNCHANGED db
    BY DEF RepointRow
  <2>3. /\ RowFree(s, x) /\ UNCHANGED pc /\ call' = [call EXCEPT ![s].todo = @ \ {x}]
        /\ IF still THEN Put(s, x, row) ELSE UNCHANGED tx
    BY <1>2
  <2>4. still /\ x \in Rules => /\ NameFree(s, Rules, row.of, row.name)
                                /\ Matching(Rules, row.of, row.name) = {}
    BY <1>2
  <2>5. still /\ x \in Rules => /\ NameFree(s, Rules, db[x].of, call[s].name)
                                /\ Matching(Rules, db[x].of, call[s].name) = {}
    <3> HIDE DEF row, still
    <3> QED BY <2>1, <2>4
  <2>6. still \in BOOLEAN /\ (still <=> x \in DOMAIN db /\ Left(s, x))
    OBVIOUS
  <2> HIDE DEF still
  <2> QED BY <2>2, <2>3, <2>5, <2>6, RepointKeeps
<1> QED BY <1>1, <1>2

-----------------------------------------------------------------------------
(* Deletions and events.                                                   *)

\* A call that neither creates nor renames writes rows that are no rules.
LEMMA EventsWritten ==
  ASSUME IInv, NEW s \in Session, UNCHANGED db, pc[s] \in {"change", "list"},
         NEW t, IsTx(t), At(s, "commit", call[s], t),
         t.lock = tx[s].lock, t.del \subseteq DOMAIN db, DOMAIN t.put \subseteq Events,
         \A x \in DOMAIN t.put \union t.del : \A r \in Session \ {s} : x \notin Held(r),
         call[s].op = "updateServiceEvent" =>
           /\ t.del = {}
           /\ \A x \in DOMAIN t.put :
                x \in DOMAIN db /\ t.put[x].of = db[x].of /\ t.put[x].name = db[x].name,
         call[s].op # "updateServiceEvent" => DOMAIN t.put \intersect DOMAIN db = {}
  PROVE  IInv'
<1>1. HistoryTypeOK' /\ OthersSame(s) /\ pc'[s] = "commit" /\ call'[s] = call[s] /\ tx'[s] = t
  BY Fields, Moves DEF Places
<1>2. /\ ~Renames(s) /\ ~Creates(s) /\ ~Renames(s)' /\ ~Creates(s)' /\ ~NewName(s)' /\ ~Found(s)'
  BY <1>1, Fields
  DEF CallInv, PlaceInv, Renames, Creates, NewName, Found, Renaming, Deleting
<1>3. AloneInv(s)'
  BY <1>1, KindsApart DEF AloneInv
<1>4. CallInv(s)'
  <2>1. PlaceInv(s)' /\ AskedInv(s)'
    BY <1>1, <1>2, Fields DEF CallInv, PlaceInv, AskedInv, Moving
  <2>2. WroteInv(s)' /\ LockedInv(s)' /\ MovedInv(s)' /\ RulesFollow(s)' /\ EventsFollow(s)'
    BY <1>1, <1>2 DEF WroteInv, LockedInv, MovedInv, RulesFollow, EventsFollow
  <2>3. CorrectInv(s)' /\ NewInv(s)'
    BY <1>1, <1>2 DEF CorrectInv, NewInv, Renames
  <2> QED BY <1>1, <1>3, <2>1, <2>2, <2>3, Fields DEF CallInv
<1>5. HoldsApart(s)
  <2> DEFINE X == DOMAIN t.put \union t.del
  <2>1. Held(s)' \subseteq Held(s) \union X /\ tx'[s].lock = tx[s].lock /\ tx'[s].del \subseteq DOMAIN db
    BY <1>1 DEF Held, Written
  <2>2. \A x \in X : \A r \in Session \ {s} : x \notin Held(r)
    OBVIOUS
  <2> HIDE DEF X
  <2> QED BY <2>1, <2>2, HoldsMore
<1>6. KeepsHand(s)
  BY <1>2 DEF KeepsHand
<1> QED BY <1>1, <1>4, <1>5, <1>6, StatementKeeps

LEMMA DeleteRowKeeps ==
  ASSUME IInv, NEW s \in Session, DeleteRow(s)
  PROVE  IInv'
<1> DEFINE X == {call[s].id} \intersect DOMAIN db
           t == WithDel(tx[s], X)
<1>1. /\ pc[s] = "change" /\ call[s].op # "updateServiceEvent" /\ RowFree(s, call[s].id)
      /\ UNCHANGED <<db, call>> /\ Goto(s, "commit") /\ tx' = [tx EXCEPT ![s] = t]
  BY DEF DeleteRow, WithDel
<1>2. DOMAIN tx[s].put = {} /\ tx[s].del = {}
  BY <1>1, Fields DEF CallInv, WroteInv, Moving
<1>3. X \in SUBSET Id /\ X \subseteq DOMAIN db /\ \A x \in X : x = call[s].id
  BY Fields
<1> HIDE DEF X
<1>4. IsTx(t) /\ t.put = tx[s].put /\ t.lock = tx[s].lock /\ t.del = X
  <2>1. IsTx(t) /\ t.put = tx[s].put /\ t.lock = tx[s].lock /\ t.del = tx[s].del \union X
    BY <1>3, Fields, AddDel
  <2> QED BY <1>2, <2>1
<1> HIDE DEF t
<1>5. At(s, "commit", call[s], t)
  BY <1>1, Same, Fields DEF At, Goto
<1>6. \A x \in DOMAIN t.put \union t.del : \A r \in Session \ {s} : x \notin Held(r)
  BY <1>1, <1>2, <1>3, <1>4 DEF RowFree
<1>7. DOMAIN t.put \subseteq Events /\ DOMAIN t.put \intersect DOMAIN db = {}
  BY <1>2, <1>4
<1> QED BY <1>1, <1>3, <1>4, <1>5, <1>6, <1>7, EventsWritten

LEMMA UpdateEventKeeps ==
  ASSUME IInv, NEW s \in Session, UpdateEvent(s)
  PROVE  IInv'
<1> DEFINE x == call[s].id
           row == Corrected(s, db[x])
           g == WithRow(tx[s].put, x, row)
           t == WithPut(tx[s], g)
<1>1. /\ pc[s] = "change" /\ call[s].op = "updateServiceEvent" /\ RowFree(s, x) /\ UNCHANGED db
      /\ x \in Events /\ x \in Id
  BY Fields DEF UpdateEvent, CallInv, AskedInv, Id
<1>2. CASE End(s)
  BY <1>1, <1>2, EndKeeps
<1>3. CASE ~End(s)
  <2>1. x \in DOMAIN db /\ Put(s, x, row) /\ Goto(s, "commit") /\ UNCHANGED call
    BY <1>3 DEF UpdateEvent
  <2>2. DOMAIN tx[s].put = {} /\ tx[s].del = {}
    BY <1>1, Fields DEF CallInv, WroteInv, Moving
  <2>3. /\ row.of = db[x].of /\ row.name = db[x].name /\ IsRow(x, row)
    BY <1>1, <2>1, Fields, KindsApart DEF Corrected, IsRow, EventRow
  <2>4. IsTables(g) /\ DOMAIN g = {x} /\ g[x] = row
    <3>1. IsTables(tx[s].put)
      BY Fields DEF IsTx
    <3>2. g = WithRow(tx[s].put, x, row)
      OBVIOUS
    <3> HIDE DEF row, g, x
    <3>3. IsTables(g)
      BY <1>1, <2>3, <3>1, <3>2, AddRow
    <3>4. DOMAIN g = DOMAIN tx[s].put \union {x} /\ g[x] = row
      BY <3>2 DEF WithRow
    <3> QED BY <2>2, <3>3, <3>4
  <2>5. IsTx(t) /\ t.put = g /\ t.del = {} /\ t.lock = tx[s].lock
    <3> HIDE DEF g
    <3> QED BY <2>2, <2>4, Fields, AddPut
  <2>6. At(s, "commit", call[s], t)
    BY <2>1, Same, Fields DEF At, Goto, Put, WithPut, WithRow
  <2> HIDE DEF g, t, row
  <2>7. \A y \in DOMAIN t.put \union t.del : \A r \in Session \ {s} : y \notin Held(r)
    BY <1>1, <2>4, <2>5 DEF RowFree
  <2>8. /\ DOMAIN t.put \subseteq Events /\ t.del \subseteq DOMAIN db
        /\ \A y \in DOMAIN t.put :
             y \in DOMAIN db /\ t.put[y].of = db[y].of /\ t.put[y].name = db[y].name
    BY <1>1, <2>1, <2>3, <2>4, <2>5
  <2> QED BY <1>1, <2>5, <2>6, <2>7, <2>8, EventsWritten
<1> QED BY <1>2, <1>3

LEMMA LogEventsKeeps ==
  ASSUME IInv, NEW s \in Session, LogEvents(s)
  PROVE  IInv'
<1>1. pc[s] = "list" /\ UNCHANGED db /\ call[s].op = "logServiceEventsBulk"
  BY Fields DEF LogEvents, CallInv, PlaceInv
<1>2. CASE End(s)
  BY <1>1, <1>2, EndKeeps
<1>3. CASE ~End(s)
  <2> DEFINE log == call[s].list
             entry(place, x) == CHOOSE e \in log : place[e] = x
  <2>1. PICK place \in [log -> Spare(Events)] :
          tx' = [tx EXCEPT ![s].put =
                   [x \in {place[e] : e \in log} |->
                      LET e == CHOOSE e \in log : place[e] = x
                      IN [of |-> e[1], name |-> e[2], fixed |-> FALSE]]]
    BY <1>3 DEF LogEvents
  <2>2. Goto(s, "commit") /\ UNCHANGED call
    BY <1>3 DEF LogEvents
  <2> DEFINE g == [x \in {place[e] : e \in log} |->
                     [of |-> entry(place, x)[1], name |-> entry(place, x)[2], fixed |-> FALSE]]
             t == WithPut(tx[s], g)
  <2>3. log \subseteq ServicedItems \X RuleNames
    BY Fields, CallFields
  <2>4. \A x \in DOMAIN g : entry(place, x) \in log
    OBVIOUS
  <2>5. \A x \in DOMAIN g :
          /\ x \in Events /\ x \in Id /\ x \notin DOMAIN db
          /\ \A r \in Session : x \notin DOMAIN tx[r].put
    BY DEF Spare, Id
  <2>6. \A x \in DOMAIN g : g[x] \in EventRow
    <3> SUFFICES ASSUME NEW x \in DOMAIN g PROVE g[x] \in EventRow
      OBVIOUS
    <3> DEFINE e == entry(place, x)
    <3>1. e \in ServicedItems \X RuleNames
      BY <2>3, <2>4
    <3>2. g[x] = [of |-> e[1], name |-> e[2], fixed |-> FALSE]
      OBVIOUS
    <3> HIDE DEF g, e
    <3> QED BY <3>1, <3>2 DEF EventRow
  <2>7. g = [x \in DOMAIN g |-> g[x]]
    OBVIOUS
  <2>8. tx' = [tx EXCEPT ![s] = t]
    BY <2>1 DEF WithPut
  <2> HIDE DEF g
  <2>9. IsTables(g)
    BY <2>5, <2>6, <2>7, KindsApart DEF IsTables
  <2>10. DOMAIN tx[s].put = {} /\ tx[s].del = {}
    BY <1>1, Fields DEF CallInv, WroteInv, Moving
  <2>11. IsTx(t) /\ t.put = g /\ t.del = {} /\ t.lock = tx[s].lock
    BY <2>9, <2>10, Fields, AddPut
  <2> HIDE DEF t
  <2>12. At(s, "commit", call[s], t)
    BY <2>2, <2>8, Same, Fields DEF At, Goto
  <2>13. \A x \in DOMAIN t.put \union t.del : \A r \in Session \ {s} : x \notin Held(r)
    BY <2>5, <2>11, OwnHolds DEF Held, Written, IInv, HeldInv
  <2>14. /\ DOMAIN t.put \subseteq Events /\ DOMAIN t.put \intersect DOMAIN db = {}
         /\ t.del \subseteq DOMAIN db
    BY <2>5, <2>11
  <2> QED BY <1>1, <2>11, <2>12, <2>13, <2>14, EventsWritten
<1> QED BY <1>2, <1>3

-----------------------------------------------------------------------------
(* A commit.                                                               *)

\* Whoever writes a row that is there leaves it where it is; only a rename gives
\* it another name, its own for the old one.
LEMMA WrittenRow ==
  ASSUME IInv, NEW s \in Session, NEW x \in DOMAIN tx[s].put \intersect DOMAIN db
  PROVE  /\ tx[s].put[x].of = db[x].of
         /\ \/ tx[s].put[x].name = db[x].name
            \/ /\ NewName(s) /\ Renames(s) /\ db[x].name = call[s].was
               /\ tx[s].put[x].name = call[s].name
<1>1. pc[s] \in Moving \union {"commit"}
  BY Fields DEF CallInv, WroteInv
<1>2. CASE Renames(s)
  <2>1. LockedInv(s) /\ MovedInv(s)
    BY Fields DEF CallInv
  <2>2. CASE x = call[s].id
    <3>1. tx[s].put[x] = NewRow(s) /\ db[x].of = call[s].of /\ db[x].name = call[s].was
      BY <1>1, <1>2, <2>1, <2>2 DEF LockedInv, MovedInv
    <3>2. NewRow(s).of = call[s].of /\ NewRow(s).name = call[s].name
      BY DEF NewRow
    <3> QED BY <1>2, <3>1, <3>2 DEF NewName, Renames
  <2>3. CASE x # call[s].id
    <3>1. /\ tx[s].put[x] = [db[x] EXCEPT !.name = call[s].name] /\ db[x].name = call[s].was
          /\ x \in Events \/ x \in Rules
      BY <1>1, <1>2, <2>1, <2>3 DEF MovedInv
    <3>2. tx[s].put[x].of = db[x].of /\ tx[s].put[x].name = call[s].name
      BY <3>1, Fields DEF IsRow, RuleRow, EventRow
    <3> QED BY <1>2, <3>1, <3>2 DEF NewName, Renames
  <2> QED BY <2>2, <2>3
<1>3. CASE ~Renames(s)
  BY <1>3, Fields DEF CallInv, CorrectInv, NewInv, Renames
<1> QED BY <1>2, <1>3

\* What a commit does to the tables.
LEMMA CommitTables ==
  ASSUME IInv, NEW s \in Session, Commit(s)
  PROVE  /\ pc[s] = "commit" /\ IsTables(db')
         /\ \A x : x \in DOMAIN db' <=>
                    (x \in DOMAIN db \/ x \in DOMAIN tx[s].put) /\ x \notin tx[s].del
         /\ \A x \in DOMAIN db' : x \in DOMAIN tx[s].put => db'[x] = tx[s].put[x]
         /\ \A x \in DOMAIN db' : x \notin DOMAIN tx[s].put => db'[x] = db[x]
<1>1. /\ pc[s] = "commit"
      /\ db' = [x \in (DOMAIN db \union DOMAIN tx[s].put) \ tx[s].del |->
                  IF x \in DOMAIN tx[s].put THEN tx[s].put[x] ELSE db[x]]
  BY DEF Commit
<1>2. IsTables(db) /\ IsTables(tx[s].put)
  BY Fields DEF IsTx
<1> QED BY <1>1, <1>2 DEF IsTables

\* What another call holds stays as it is.
LEMMA HeldStays ==
  ASSUME IInv, NEW s \in Session, Commit(s), NEW r \in Session \ {s}, NEW x \in Held(r)
  PROVE  /\ x \notin DOMAIN tx[s].put /\ x \notin tx[s].del
         /\ x \in DOMAIN db' <=> x \in DOMAIN db
         /\ x \in DOMAIN db => db'[x] = db[x]
<1>1. x \notin Held(s)
  BY OwnHolds
<1> QED BY <1>1, CommitTables DEF Held, Written

LEMMA CommitCalls ==
  ASSUME IInv, NEW s \in Session, Commit(s)
  PROVE  /\ pc'[s] = "done" /\ call'[s] = NoCall /\ tx'[s] = NoTx
         /\ \A r \in Session \ {s} : /\ pc'[r] = pc[r] /\ tx'[r] = tx[r]
              /\ call'[r] = [call[r] EXCEPT !.seen = @ \ Taken(tx[s])]
         /\ HistoryTypeOK'
<1>1. /\ pc' = [pc EXCEPT ![s] = "done"] /\ tx' = [tx EXCEPT ![s] = NoTx]
      /\ call' = [r \in Session |-> IF r = s THEN NoCall
                                    ELSE [call[r] EXCEPT !.seen = @ \ Taken(tx[s])]]
  BY DEF Commit, Goto, Release
<1>2. /\ pc'[s] = "done" /\ pc' \in [Session -> Places]
      /\ \A r \in Session \ {s} : pc'[r] = pc[r]
  BY <1>1, Fields DEF HistoryTypeOK, Places
<1>3. /\ tx'[s] = NoTx /\ tx' = [q \in Session |-> tx'[q]]
      /\ \A r \in Session \ {s} : tx'[r] = tx[r]
  BY <1>1, Fields DEF HistoryTypeOK
<1>4. \A q \in Session : IsTx(tx'[q]) /\ (pc'[q] \in {"idle", "done"} => tx'[q] = NoTx)
  BY <1>2, <1>3, Fields, NoTxIsTx DEF HistoryTypeOK
<1>5. /\ call'[s] = NoCall
      /\ \A r \in Session \ {s} : call'[r] = [call[r] EXCEPT !.seen = @ \ Taken(tx[s])]
  BY <1>1
<1>6. \A q \in Session : call'[q] \in CallType
  <2> TAKE q \in Session
  <2> DEFINE gone == Taken(tx[s])
             rest == call[q].seen \ gone
  <2>1. CASE q = s BY <1>5, <2>1, NoCallIsCall
  <2>2. CASE q # s
    <3>1. call'[q] = [call[q] EXCEPT !.seen = rest]
      BY <1>5, <2>2
    <3>2. rest \subseteq Id
      BY Fields, CallFields
    <3> HIDE DEF rest
    <3> QED BY <3>1, <3>2, Fields DEF CallType
  <2> QED BY <2>1, <2>2
<1>7. call' \in [Session -> CallType]
  BY <1>1, <1>6
<1> QED BY <1>2, <1>3, <1>4, <1>5, <1>7, CommitTables DEF HistoryTypeOK

\* The locals of another call, but for what it has seen.
LEMMA OtherCall ==
  ASSUME IInv, NEW s \in Session, Commit(s), NEW r \in Session \ {s}
  PROVE  /\ pc'[r] = pc[r] /\ tx'[r] = tx[r]
         /\ call'[r].op = call[r].op /\ call'[r].id = call[r].id /\ call'[r].of = call[r].of
         /\ call'[r].name = call[r].name /\ call'[r].hides = call[r].hides
         /\ call'[r].was = call[r].was /\ call'[r].todo = call[r].todo
         /\ call'[r].seen = call[r].seen \ Taken(tx[s])
         /\ Renames(r)' = Renames(r) /\ Creates(r)' = Creates(r) /\ NewName(r)' = NewName(r)
         /\ Kind(r)' = Kind(r) /\ ItemsOf(r)' = ItemsOf(r) /\ NewRow(r)' = NewRow(r)
         /\ Found(r)' = Found(r)
<1>1. /\ pc'[r] = pc[r] /\ tx'[r] = tx[r]
      /\ call'[r] = [call[r] EXCEPT !.seen = @ \ Taken(tx[s])]
  BY CommitCalls
<1> DEFINE gone == Taken(tx[s])
<1>2. call'[r] = [call[r] EXCEPT !.seen = @ \ gone] /\ call[r] \in CallType
  BY <1>1, Fields
<1> HIDE DEF gone
<1>3. /\ call'[r].op = call[r].op /\ call'[r].id = call[r].id /\ call'[r].of = call[r].of
      /\ call'[r].name = call[r].name /\ call'[r].hides = call[r].hides
      /\ call'[r].was = call[r].was /\ call'[r].todo = call[r].todo
      /\ call'[r].seen = call[r].seen \ gone
  BY <1>2 DEF CallType
<1>4. /\ Renames(r)' = Renames(r) /\ Creates(r)' = Creates(r) /\ NewName(r)' = NewName(r)
      /\ Kind(r)' = Kind(r)
  BY <1>3 DEF Renames, Creates, NewName, Kind
<1>5. ItemsOf(r)' = ItemsOf(r) /\ NewRow(r)' = NewRow(r) /\ Found(r)' = Found(r)
  BY <1>1, <1>3, <1>4 DEF ItemsOf, NewRow, Found
<1> QED BY <1>1, <1>3, <1>4, <1>5 DEF gone

LEMMA CommitNames ==
  ASSUME IInv, NEW s \in Session, Commit(s)
  PROVE  NamesAreUnique'
<1> SUFFICES ASSUME NEW K \in {Defaults, Rules}, NEW x \in K \intersect DOMAIN db',
                    NEW y \in K \intersect DOMAIN db', SameName(db'[x], db'[y])
             PROVE  x = y
  BY DEF NamesAreUnique, UniqueNames, Rows, SameName
<1>1. /\ \A v \in DOMAIN tx[s].put \intersect K :
           /\ \A w \in Rows(K) \ {v} : ~SameName(tx[s].put[v], db[w])
           /\ \A w \in DOMAIN tx[s].put \intersect K : SameName(tx[s].put[v], tx[s].put[w]) => v = w
  BY Fields DEF CallInv, AloneInv
<1>2. \A v, w \in Rows(K) : SameName(db[v], db[w]) => v = w
  BY DEF IInv, NamesAreUnique, UniqueNames, Rows, SameName
<1>3. SameName(db'[y], db'[x])
  BY DEF SameName
<1> QED BY <1>1, <1>2, <1>3, CommitTables DEF Rows

\* An event that could be found and whose rule or default nobody deletes has one
\* under its name after the commit, and no other call has that one in its hand
\* without the event.
LEMMA BearerAfter ==
  ASSUME IInv, NEW s \in Session, Commit(s), NEW r \in Session \ {s},
         NEW e \in DOMAIN db \intersect DOMAIN db' \intersect Events, e \notin Taken(tx[s]),
         NEW b \in Bearers(e) \ DOMAIN tx[r].put, KeptBy(b, e), db'[e].name = db[e].name
  PROVE  b \in Bearers(e)' /\ KeptBy(b, e)'
<1>1. b \in DOMAIN db /\ b \in Rules \union Defaults /\ db[b].name = db[e].name /\ b \notin tx[s].del
  BY DEF Bearers, Rows, Bears, Taken
<1>2. db'[e].of = db[e].of
  BY CommitTables, WrittenRow
<1>3. b \in DOMAIN db' /\ db'[b].of = db[b].of
  BY <1>1, CommitTables, WrittenRow
<1>4. db'[b].name = db[b].name
  <2>1. CASE b \notin DOMAIN tx[s].put
    BY <1>3, <2>1, CommitTables
  <2>2. CASE b \in DOMAIN tx[s].put
    <3> SUFFICES ASSUME db'[b].name # db[b].name PROVE FALSE
      OBVIOUS
    <3>1. NewName(s) /\ Renames(s) /\ db[b].name = call[s].was
      BY <1>1, <1>3, <2>2, CommitTables, WrittenRow
    <3>2. Found(s) /\ e \in DOMAIN tx[s].put
      BY <2>2, <3>1, CommitTables DEF KeptBy, Found, InHand
    <3>3. MovedInv(s) /\ LockedInv(s) /\ Kind(s) \in {Defaults, Rules} /\ pc[s] = "commit"
      BY <3>1, Fields, CommitTables DEF CallInv, Renames, Renaming, Kind
    <3>4. e # call[s].id
      BY <3>1, <3>3, KindsApart DEF LockedInv
    <3>5. tx[s].put[e] = [db[e] EXCEPT !.name = call[s].name]
      BY <3>1, <3>2, <3>3, <3>4 DEF MovedInv
    <3>6. tx[s].put[e].name = call[s].name
      BY <3>5, Fields DEF IsRow, EventRow
    <3> QED BY <1>1, <3>1, <3>2, <3>6, CommitTables DEF NewName
  <2> QED BY <2>1, <2>2
<1>5. b \in Bearers(e)'
  BY <1>1, <1>2, <1>3, <1>4 DEF Bearers, Rows, Bears
<1>6. ASSUME NEW q \in Session, Found(q)', b \in DOMAIN tx'[q].put
      PROVE  InHand(q, e, "repointEvents")'
  <2>1. q # s
    BY <1>6, CommitCalls DEF Found
  <2>2. /\ pc'[q] = pc[q] /\ tx'[q] = tx[q] /\ call'[q].todo = call[q].todo /\ Found(q)
    BY <1>6, <2>1, OtherCall
  <2> QED BY <1>6, <2>2 DEF KeptBy, InHand
<1> QED BY <1>5, <1>6 DEF KeptBy

\* An event a rename moves is borne by the row the rename was about.
LEMMA MovedEvent ==
  ASSUME IInv, NEW s \in Session, Commit(s), NewName(s), Renames(s),
         NEW e \in DOMAIN db \intersect DOMAIN tx[s].put \intersect Events
  PROVE  /\ call[s].id \in Bearers(e)' /\ call[s].id \in DOMAIN tx[s].put
         /\ db'[e].name = call[s].name /\ db'[e].of = db[e].of
<1>1. /\ MovedInv(s) /\ LockedInv(s) /\ Kind(s) \in {Defaults, Rules} /\ pc[s] = "commit"
      /\ tx[s].del = {}
  BY Fields, CommitTables DEF CallInv, Renames, Renaming, Kind, WroteInv
<1> DEFINE b == call[s].id
<1>2. b \in Kind(s) /\ b \in DOMAIN tx[s].put /\ tx[s].put[b] = NewRow(s) /\ e # b
  BY <1>1, KindsApart DEF LockedInv, MovedInv
<1>3. tx[s].put[e] = [db[e] EXCEPT !.name = call[s].name] /\ db[e].of \in ItemsOf(s)
  BY <1>1, <1>2 DEF MovedInv
<1>4. tx[s].put[e].name = call[s].name /\ tx[s].put[e].of = db[e].of /\ db[e].of \in ServicedItems
  BY <1>3, Fields, KindsApart DEF IsRow, EventRow
<1>5. /\ b \in DOMAIN db' /\ db'[b] = NewRow(s) /\ e \in DOMAIN db' /\ db'[e] = tx[s].put[e]
  BY <1>1, <1>2, CommitTables
<1>6. NewRow(s).of = call[s].of /\ NewRow(s).name = call[s].name
  BY DEF NewRow
<1>7. \/ b \in Defaults /\ ShelfOf[db[e].of] = call[s].of
      \/ b \in Rules /\ b \notin Defaults /\ db[e].of = call[s].of
  BY <1>1, <1>2, <1>3, KindsApart DEF ItemsOf
<1>8. b \in Bearers(e)'
  BY <1>4, <1>5, <1>6, <1>7, KindsApart DEF Bearers, Rows, Bears
<1> QED BY <1>2, <1>4, <1>5, <1>8

LEMMA CommitOthers ==
  ASSUME IInv, NEW s \in Session, Commit(s), NEW r \in Session \ {s}
  PROVE  CallInv(r)'
<1>1. CallInv(r) /\ HeldInv
  BY DEF IInv
<1>2. \A x \in tx[r].lock \union DOMAIN tx[r].put \union tx[r].del :
        /\ x \notin DOMAIN tx[s].put /\ x \notin tx[s].del
        /\ x \in DOMAIN db' <=> x \in DOMAIN db
        /\ x \in DOMAIN db => db'[x] = db[x]
  BY HeldStays DEF Held, Written
<1>3. call'[r].seen \subseteq DOMAIN db'
  BY <1>1, OtherCall, CommitTables DEF CallInv, Taken
<1>4. PlaceInv(r)' /\ AskedInv(r)' /\ WroteInv(r)'
  <2>1. call[r] = NoCall => call'[r] = NoCall
    BY CommitCalls DEF NoCall
  <2> QED BY <1>1, <2>1, OtherCall DEF CallInv, PlaceInv, AskedInv, WroteInv
<1>5. LockedInv(r)'
  BY <1>1, <1>2, OtherCall DEF CallInv, LockedInv
<1>6. MovedInv(r)'
  <2> SUFFICES ASSUME Renames(r), pc[r] \in {"commit"} \union Moving
               PROVE  MovedInv(r)'
    BY OtherCall DEF MovedInv
  <2>1. /\ call[r].id \in DOMAIN tx[r].put /\ tx[r].put[call[r].id] = NewRow(r)
        /\ \A x \in DOMAIN tx[r].put \ {call[r].id} :
             /\ x \in DOMAIN db /\ (x \in Events \/ (x \in Rules /\ Kind(r) = Defaults))
             /\ db[x].of \in ItemsOf(r) /\ db[x].name = call[r].was
             /\ tx[r].put[x] = [db[x] EXCEPT !.name = call[r].name]
    BY <1>1 DEF CallInv, MovedInv
  <2>2. ASSUME NEW x \in DOMAIN tx[r].put \ {call[r].id}
        PROVE  x \in DOMAIN db' /\ db'[x] = db[x]
    BY <1>2, <2>1
  <2>3. \A x \in DOMAIN tx[r].put \ {call[r].id} :
          /\ x \in DOMAIN db' /\ (x \in Events \/ (x \in Rules /\ Kind(r) = Defaults))
          /\ db'[x].of \in ItemsOf(r) /\ db'[x].name = call[r].was
          /\ tx[r].put[x] = [db'[x] EXCEPT !.name = call[r].name]
    BY <2>1, <2>2
  <2>4. /\ tx'[r] = tx[r] /\ call'[r].id = call[r].id /\ call'[r].name = call[r].name
        /\ call'[r].was = call[r].was
        /\ Kind(r)' = Kind(r) /\ ItemsOf(r)' = ItemsOf(r) /\ NewRow(r)' = NewRow(r)
    BY OtherCall
  <2> QED BY <2>1, <2>3, <2>4 DEF MovedInv
<1>7. CorrectInv(r)' /\ NewInv(r)'
  BY <1>1, <1>2, OtherCall DEF CallInv, CorrectInv, NewInv
<1>8. RulesFollow(r)'
  <2> SUFFICES ASSUME NewName(r), Kind(r) = Defaults,
                      pc[r] \in {"repointRules", "pickEvents", "repointEvents", "commit"},
                      NEW x \in Rules \intersect DOMAIN db', x \in call'[r].seen, Left(r, x)'
               PROVE  InHand(r, x, "repointRules")'
    BY OtherCall DEF RulesFollow, Rows
  <2>1. x \in call[r].seen /\ x \in DOMAIN db /\ x \notin Taken(tx[s])
    BY <1>1, OtherCall DEF CallInv
  <2>2. db'[x].of = db[x].of /\ db'[x].name = db[x].name
    BY <2>1, CommitTables, WrittenRow DEF Taken, Rows
  <2>3. Left(r, x)
    BY <2>2, OtherCall DEF Left
  <2>4. InHand(r, x, "repointRules")
    BY <1>1, <2>1, <2>3 DEF CallInv, RulesFollow, Rows
  <2> QED BY <2>4, OtherCall DEF InHand
<1>9. EventsFollow(r)'
  <2> SUFFICES ASSUME Found(r), NEW e \in Events \intersect DOMAIN db', e \in call'[r].seen,
                      Left(r, e)'
               PROVE  \/ InHand(r, e, "repointEvents")'
                      \/ \E b \in Bearers(e)' \ DOMAIN tx[r].put : KeptBy(b, e)'
    BY OtherCall DEF EventsFollow, Rows
  <2>1. e \in call[r].seen /\ e \in DOMAIN db /\ e \notin Taken(tx[s])
    BY <1>1, OtherCall DEF CallInv
  <2>2. CASE db'[e].name = db[e].name
    <3>1. Left(r, e)
      <4>1. db'[e].of = db[e].of
        BY <2>1, CommitTables, WrittenRow
      <4> QED BY <2>2, <4>1, OtherCall DEF Left
    <3>2. CASE InHand(r, e, "repointEvents")
      BY <3>2, OtherCall DEF InHand
    <3>3. CASE \E b \in Bearers(e) \ DOMAIN tx[r].put : KeptBy(b, e)
      BY <2>1, <2>2, <3>3, BearerAfter
    <3> QED BY <1>1, <2>1, <3>1, <3>2, <3>3 DEF CallInv, EventsFollow, Rows
  <2>3. CASE db'[e].name # db[e].name
    <3>1. e \in DOMAIN tx[s].put /\ NewName(s) /\ Renames(s)
      BY <2>1, <2>3, CommitTables, WrittenRow
    <3>2. PICK b : b \in Bearers(e)' /\ b \in DOMAIN tx[s].put
      <4>1. call[s].id \in Bearers(e)' /\ call[s].id \in DOMAIN tx[s].put
        BY <2>1, <3>1, MovedEvent
      <4> QED BY <4>1
    <3>3. \A q \in Session \ {s} : b \notin DOMAIN tx[q].put
      BY <3>2, OwnHolds DEF Held, Written
    <3>4. KeptBy(b, e)'
      BY <3>3, CommitCalls DEF KeptBy, Found
    <3> QED BY <3>2, <3>3, <3>4
  <2> QED BY <2>2, <2>3
<1>10. AloneInv(r)'
  <2> SUFFICES ASSUME NEW K \in {Defaults, Rules}, NEW x \in DOMAIN tx[r].put \intersect K
               PROVE  /\ \A y \in K \intersect DOMAIN db' : y # x => ~SameName(tx[r].put[x], db'[y])
                      /\ \A q \in Session : \A y \in DOMAIN tx'[q].put \intersect K :
                           SameName(tx[r].put[x], tx'[q].put[y]) => x = y
    BY OtherCall DEF AloneInv, Rows
  <2>1. /\ \A y \in Rows(K) \ {x} : ~SameName(tx[r].put[x], db[y])
        /\ \A q \in Session : \A y \in DOMAIN tx[q].put \intersect K :
             SameName(tx[r].put[x], tx[q].put[y]) => x = y
    BY <1>1 DEF CallInv, AloneInv
  <2>2. \A y \in K \intersect DOMAIN db' : y # x => ~SameName(tx[r].put[x], db'[y])
    BY <2>1, CommitTables DEF Rows
  <2>3. \A q \in Session : \A y \in DOMAIN tx'[q].put \intersect K :
          SameName(tx[r].put[x], tx'[q].put[y]) => x = y
    BY <2>1, CommitCalls, NoTxIsTx
  <2> QED BY <2>2, <2>3
<1> QED BY <1>3, <1>4, <1>5, <1>6, <1>7, <1>8, <1>9, <1>10 DEF CallInv

LEMMA CommitKeeps ==
  ASSUME IInv, NEW s \in Session, Commit(s)
  PROVE  IInv'
<1>1. \A r \in Session \ {s} : CallInv(r)'
  BY CommitOthers
<1>2. CallInv(s)'
  <2>1. /\ pc'[s] = "done" /\ call'[s] = NoCall /\ tx'[s] = NoTx
        /\ call'[s].op = Absent /\ call'[s].seen = {} /\ DOMAIN tx'[s].put = {} /\ tx'[s].del = {}
    BY CommitCalls, NoTxIsTx, NoCallIsCall
  <2>2. PlaceInv(s)' /\ AskedInv(s)' /\ LockedInv(s)'
    BY <2>1 DEF PlaceInv, AskedInv, LockedInv, Renames, Creates, Renaming, Moving, Absent
  <2>3. WroteInv(s)' /\ MovedInv(s)' /\ CorrectInv(s)' /\ NewInv(s)' /\ AloneInv(s)'
    BY <2>1 DEF WroteInv, MovedInv, CorrectInv, NewInv, AloneInv, Moving
  <2>4. RulesFollow(s)' /\ EventsFollow(s)'
    BY <2>1 DEF RulesFollow, EventsFollow, Found
  <2> QED BY <2>1, <2>2, <2>3, <2>4 DEF CallInv
<1>3. HeldInv'
  <2>1. ASSUME NEW q \in Session
        PROVE  /\ tx'[q].lock \union tx'[q].del \subseteq DOMAIN db'
               /\ \A r \in Session \ {q} : Held(q)' \intersect Held(r)' = {}
    <3>1. Held(s)' = {} /\ tx'[s].lock \union tx'[s].del = {}
      BY CommitCalls, NoTxIsTx DEF Held, Written
    <3>2. \A r \in Session \ {s} : Held(r)' = Held(r) /\ tx'[r] = tx[r]
      BY CommitCalls DEF Held, Written
    <3>3. CASE q = s BY <3>1, <3>3
    <3>4. CASE q # s
      <4>1. tx[q].lock \union tx[q].del \subseteq DOMAIN db'
        BY <3>4, OwnHolds, HeldStays DEF Held, Written
      <4>2. ASSUME NEW r \in Session \ {q} PROVE Held(q)' \intersect Held(r)' = {}
        <5>1. CASE r = s BY <3>1, <5>1
        <5>2. CASE r # s BY <3>2, <3>4, <5>2, OwnHolds
        <5> QED BY <5>1, <5>2
      <4> QED BY <3>2, <3>4, <4>1, <4>2
    <3> QED BY <3>3, <3>4
  <2> QED BY <2>1 DEF HeldInv
<1> QED BY <1>1, <1>2, <1>3, CommitNames, CommitCalls DEF IInv

-----------------------------------------------------------------------------
(* The invariant.                                                          *)

LEMMA HistoryStarts == HistoryInit => IInv
<1> SUFFICES ASSUME HistoryInit PROVE IInv
  OBVIOUS
<1>1. /\ db \in Stored /\ pc = [s \in Session |-> "idle"] /\ call = [s \in Session |-> NoCall]
      /\ tx = [s \in Session |-> NoTx]
  BY DEF HistoryInit
<1>2. IsTables(db) /\ NamesAreUnique
  BY <1>1, ServiceAssumption DEF ServiceAssumption, NamesAreUnique
<1>3. HistoryTypeOK
  <2>1. pc \in [Session -> Places] /\ call \in [Session -> CallType]
    BY <1>1, NoCallIsCall DEF Places
  <2>2. tx = [s \in Session |-> tx[s]] /\ \A s \in Session : IsTx(tx[s])
    BY <1>1, NoTxIsTx
  <2> QED BY <1>1, <1>2, <2>1, <2>2 DEF HistoryTypeOK
<1>4. HeldInv
  BY <1>1, NoTxIsTx DEF HeldInv, Held, Written
<1>5. ASSUME NEW s \in Session PROVE CallInv(s)
  <2>1. /\ pc[s] = "idle" /\ call[s] = NoCall /\ tx[s] = NoTx
        /\ call[s].op = Absent /\ call[s].seen = {} /\ DOMAIN tx[s].put = {} /\ tx[s].del = {}
    BY <1>1, NoTxIsTx, NoCallIsCall
  <2>2. PlaceInv(s) /\ AskedInv(s) /\ LockedInv(s)
    BY <2>1 DEF PlaceInv, AskedInv, LockedInv, Renames, Creates, Renaming, Moving, Absent
  <2>3. WroteInv(s) /\ MovedInv(s) /\ CorrectInv(s) /\ NewInv(s) /\ AloneInv(s)
    BY <2>1 DEF WroteInv, MovedInv, CorrectInv, NewInv, AloneInv, Moving
  <2>4. RulesFollow(s) /\ EventsFollow(s)
    BY <2>1 DEF RulesFollow, EventsFollow, Found
  <2> QED BY <2>1, <2>2, <2>3, <2>4 DEF CallInv
<1> QED BY <1>2, <1>3, <1>4, <1>5 DEF IInv

LEMMA StutterKeeps == ASSUME IInv, UNCHANGED historyVars PROVE IInv'
<1>1. db' = db /\ pc' = pc /\ call' = call /\ tx' = tx
  BY DEF historyVars
<1>2. HistoryTypeOK' /\ NamesAreUnique'
  BY <1>1 DEF IInv, HistoryTypeOK, NamesAreUnique, UniqueNames
<1>3. HeldInv'
  BY <1>1 DEF IInv, HeldInv, Held, Written
<1>4. ASSUME NEW s \in Session PROVE CallInv(s)'
  <2>1. CallInv(s)
    BY DEF IInv
  <2>2. PlaceInv(s)' /\ AskedInv(s)' /\ WroteInv(s)' /\ LockedInv(s)' /\ MovedInv(s)'
    BY <1>1, <2>1
    DEF CallInv, PlaceInv, AskedInv, WroteInv, LockedInv, MovedInv, Creates, Renames, Kind, NewRow,
        ItemsOf
  <2>3. RulesFollow(s)' /\ CorrectInv(s)' /\ NewInv(s)' /\ AloneInv(s)'
    BY <1>1, <2>1
    DEF CallInv, RulesFollow, CorrectInv, NewInv, AloneInv, NewName, Kind, Rows, Left, ItemsOf, InHand
  <2>4. EventsFollow(s)'
    BY <1>1, <2>1
    DEF CallInv, EventsFollow, Found, NewName, Rows, Left, ItemsOf, Kind, InHand, Bearers, Bears,
        KeptBy
  <2> QED BY <1>1, <2>1, <2>2, <2>3, <2>4 DEF CallInv
<1> QED BY <1>2, <1>3, <1>4 DEF IInv

LEMMA HistoryStepKeeps == ASSUME IInv, [HistoryNext]_historyVars PROVE IInv'
<1>1. CASE UNCHANGED historyVars
  BY <1>1, StutterKeeps
<1>2. ASSUME NEW s \in Session, Asks(s) PROVE IInv'
  BY <1>2, AsksKeep
<1>3. ASSUME NEW s \in Session, Steps(s) PROVE IInv'
  BY <1>3, ResolveKeeps, LockRowKeeps, SiblingsKeeps, InsertKeeps, UpdateKeeps, PickRowsKeeps,
     RepointRowKeeps, RepointedKeeps, FindKeeps, DeleteRowKeeps, UpdateEventKeeps, NextItemKeeps,
     ReadItemRulesKeeps, LogEventsKeeps, CommitKeeps DEF Steps
<1> QED BY <1>1, <1>2, <1>3 DEF HistoryNext

\* What each call has read, locked and written at each of its places fits the
\* tables and what every other call has: the argument behind the two below.
THEOREM ServiceInvariant == HistorySpec => []IInv
<1>1. HistoryInit => IInv
  BY HistoryStarts
<1>2. IInv /\ [HistoryNext]_historyVars => IInv'
  BY HistoryStepKeeps
<1> QED BY <1>1, <1>2, PTL DEF HistorySpec

\* Whatever calls look for siblings, insert, rename and repoint side by side, every
\* commit leaves rows of their kinds, no two defaults of a shelf and no two rules
\* of an item under one name.
THEOREM TablesAreAlwaysSound == HistorySpec => []TablesAreSound
<1>1. IInv => TablesAreSound
  BY DEF IInv, TablesAreSound
<1> QED BY <1>1, ServiceInvariant, PTL

-----------------------------------------------------------------------------
(* A rename carries through.                                               *)

\* Only its COMMIT takes a call from "commit" to "done".
LEMMA OnlyCommitCommits ==
  ASSUME IInv, HistoryNext, NEW s \in Session, Commits(s)
  PROVE  Commit(s)
<1>1. pc[s] = "commit" /\ pc'[s] = "done" /\ pc \in [Session -> Places]
  BY DEF Commits, IInv, HistoryTypeOK
<1>2. PICK r \in Session : Asks(r) \/ Steps(r)
  BY DEF HistoryNext
<1>3. CASE r # s
  <2>1. pc'[s] = pc[s]
    <3>1. ASSUME NEW c, NEW l, Ask(r, c, l) PROVE pc'[s] = pc[s]
      BY <1>1, <1>3, <3>1 DEF Ask, End, Goto
    <3>2. CASE Asks(r)
      BY <3>1, <3>2 DEF Asks, AskDefault, AskRule, AskEvent
    <3>3. CASE Steps(r)
      BY <1>1, <1>3, <3>3
      DEF Steps, Resolve, LockRow, Siblings, Insert, Update, PickRows, RepointRow, Repointed, Find,
          DeleteRow, UpdateEvent, NextItem, ReadItemRules, LogEvents, Commit, End, Goto
    <3> QED BY <1>2, <3>2, <3>3
  <2> QED BY <1>1, <2>1
<1>4. CASE r = s
  <2>1. ~Asks(s)
    BY <1>1 DEF Asks, AskDefault, AskRule, AskEvent, Ask
  <2>2. Steps(s) => Commit(s)
    BY <1>1
    DEF Steps, Resolve, LockRow, Siblings, Insert, Update, PickRows, RepointRow, Repointed, Find,
        DeleteRow, UpdateEvent, NextItem, ReadItemRules, LogEvents
  <2> QED BY <1>2, <1>4, <2>1, <2>2
<1> QED BY <1>3, <1>4

\* A rule or default that keeps its name bears its events on.
LEMMA BearsOn ==
  ASSUME IInv, NEW s \in Session, Commit(s), tx[s].del = {},
         NEW e \in DOMAIN db \intersect DOMAIN db' \intersect Events, NEW b \in Bearers(e),
         db'[e].name = db[e].name, b \in DOMAIN db' => db'[b].name = db[b].name
  PROVE  Alive(e)'
<1>1. b \in DOMAIN db /\ b \in Rules \union Defaults /\ b \in DOMAIN db' /\ db[b].name = db[e].name
  BY CommitTables DEF Bearers, Rows, Bears
<1>2. db'[e].of = db[e].of /\ db'[b].of = db[b].of
  BY <1>1, CommitTables, WrittenRow
<1>3. b \in Bearers(e)'
  BY <1>1, <1>2 DEF Bearers, Rows, Bears
<1> QED BY <1>3 DEF Alive

LEMMA HistoryFollows ==
  ASSUME IInv, NEW s \in Session, Commit(s),
         call[s].op \in Renaming \union {"updateServiceEvent"},
         NEW e \in DOMAIN db \intersect DOMAIN db' \intersect Events,
         NewName(s) => e \in call[s].seen, Alive(e)
  PROVE  Alive(e)'
<1>1. tx[s].del = {} /\ pc[s] = "commit"
  BY Fields, CommitTables DEF CallInv, WroteInv, Renames
<1>2. PICK b \in Bearers(e) : TRUE
  BY DEF Alive
<1>3. CASE ~NewName(s)
  <2>1. \A x \in DOMAIN db \intersect DOMAIN db' : db'[x].name = db[x].name
    BY <1>3, CommitTables, WrittenRow
  <2>2. b \in DOMAIN db
    BY DEF Bearers, Rows
  <2> QED BY <1>1, <2>1, <2>2, BearsOn
<1>4. CASE NewName(s)
  <2>1. Renames(s) /\ Found(s) /\ e \in call[s].seen /\ MovedInv(s) /\ LockedInv(s)
    BY <1>1, <1>4, Fields DEF NewName, Renames, Found, CallInv
  <2>2. CASE e \in DOMAIN tx[s].put
    <3>1. call[s].id \in Bearers(e)'
      BY <1>4, <2>1, <2>2, MovedEvent
    <3> QED BY <3>1 DEF Alive
  <2>3. CASE e \notin DOMAIN tx[s].put
    <3>1. PICK a \in Bearers(e) : a \notin DOMAIN tx[s].put
      <4>1. CASE Left(s, e)
        BY <1>1, <2>1, <2>3, <4>1, Fields DEF CallInv, EventsFollow, InHand, Rows
      <4>2. CASE ~Left(s, e)
        BY <1>1, <1>2, <2>1, <4>2, BearerLeft DEF Rows
      <4> QED BY <4>1, <4>2
    <3>2. a \in DOMAIN db => db'[a] = db[a]
      BY <1>1, <3>1, CommitTables
    <3>3. db'[e].name = db[e].name /\ a \in DOMAIN db
      BY <2>3, CommitTables DEF Bearers, Rows
    <3> QED BY <1>1, <3>2, <3>3, BearsOn
  <2> QED BY <2>2, <2>3
<1> QED BY <1>3, <1>4

LEMMA OverridesFollow ==
  ASSUME IInv, NEW s \in Session, Commit(s), call[s].op = "updateServiceRuleDefault",
         NEW x \in DOMAIN db \intersect DOMAIN db' \intersect Rules, x \in call[s].seen,
         ShelfOf[db[x].of] = call[s].of, db[x].name = call[s].was
  PROVE  db'[x].name = call[s].name
<1>1. pc[s] = "commit" /\ Renames(s) /\ Kind(s) = Defaults /\ MovedInv(s) /\ LockedInv(s)
  BY Fields, CommitTables DEF CallInv, Renames, Renaming, Kind
<1>2. CASE call[s].name = call[s].was
  BY <1>2, CommitTables, WrittenRow
<1>3. CASE call[s].name # call[s].was
  <2>1. db[x].of \in ServicedItems
    BY Fields DEF IsRow, RuleRow
  <2>2. x \in DOMAIN tx[s].put
    BY <1>1, <1>3, <2>1, Fields
    DEF CallInv, RulesFollow, NewName, Renames, Rows, Left, ItemsOf, InHand
  <2>3. x # call[s].id
    BY <1>1, KindsApart DEF LockedInv
  <2>4. tx[s].put[x] = [db[x] EXCEPT !.name = call[s].name]
    BY <1>1, <2>2, <2>3 DEF MovedInv
  <2>5. tx[s].put[x].name = call[s].name
    BY <2>4, Fields DEF IsRow, RuleRow
  <2> QED BY <2>2, <2>5, CommitTables
<1> QED BY <1>2, <1>3

\* Whatever renames, deletions, logs and corrections run side by side, the commit
\* of a rename leaves no event stranded that could be found before, and moves every
\* override of a default along.
THEOREM RenamesAlwaysCarryThrough == HistorySpec => RenamesCarryThrough
<1> DEFINE
      History == \A s \in Session :
        Commits(s) /\ call[s].op \in Renaming \union {"updateServiceEvent"} =>
          \A e \in Rows(Events) \intersect DOMAIN db' :
            /\ NewName(s) => e \in call[s].seen
            /\ Alive(e)
            => Alive(e)'
      Overrides == \A s \in Session :
        Commits(s) /\ call[s].op = "updateServiceRuleDefault" =>
          \A x \in Rows(Rules) \intersect call[s].seen \intersect DOMAIN db' :
            /\ ShelfOf[db[x].of] = call[s].of
            /\ db[x].name = call[s].was
            => db'[x].name = call[s].name
<1>1. IInv /\ [HistoryNext]_historyVars => [History]_historyVars /\ [Overrides]_historyVars
  <2> SUFFICES ASSUME IInv, HistoryNext PROVE History /\ Overrides
    OBVIOUS
  <2>1. History
    <3> SUFFICES ASSUME NEW s \in Session, Commits(s),
                        call[s].op \in Renaming \union {"updateServiceEvent"},
                        NEW e \in Rows(Events) \intersect DOMAIN db',
                        NewName(s) => e \in call[s].seen, Alive(e)
                 PROVE  Alive(e)'
      OBVIOUS
    <3>1. Commit(s) /\ e \in DOMAIN db \intersect DOMAIN db' \intersect Events
      BY OnlyCommitCommits DEF Rows
    <3> QED BY <3>1, HistoryFollows
  <2>2. Overrides
    <3> SUFFICES ASSUME NEW s \in Session, Commits(s), call[s].op = "updateServiceRuleDefault",
                        NEW x \in Rows(Rules) \intersect call[s].seen \intersect DOMAIN db',
                        ShelfOf[db[x].of] = call[s].of, db[x].name = call[s].was
                 PROVE  db'[x].name = call[s].name
      OBVIOUS
    <3>1. Commit(s) /\ x \in DOMAIN db \intersect DOMAIN db' \intersect Rules
      BY OnlyCommitCommits DEF Rows
    <3> QED BY <3>1, OverridesFollow
  <2> QED BY <2>1, <2>2
<1> QED BY <1>1, ServiceInvariant, PTL
    DEF RenamesCarryThrough, HistoryFollowsRenames, OverridesFollowDefault, HistorySpec
=============================================================================
