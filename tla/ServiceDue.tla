----------------------------- MODULE ServiceDue -----------------------------
(***************************************************************************)
(* What is due for service: derived, each time it is asked for, from rules,*)
(* service events and range sessions                                       *)
(* (src/domain/service-intervals/derive.ts, due-service.ts, backlog.ts,    *)
(* src/domain/range-sessions/service.ts).                                  *)
(*                                                                         *)
(* Dates are days from 0.  One action is one call that commits, or the     *)
(* turn of a day; how calls that change rules and events interleave is in  *)
(* ServiceHistory, how mounts and sessions do is in Accessories.  A         *)
(* threshold of 0 stands for an unset one: set ones are at least           *)
(* MIN_THRESHOLD.                                                          *)
(***************************************************************************)
EXTENDS Integers, FiniteSets, FiniteSetsExt

CONSTANTS
  Users, Firearms, Accessories, Names,
  Categories,  \* of firearms and accessories
  OwnerOf, CategoryOf, \* of each item
  Origin,      \* Origin[i]: the day item i was acquired, or else created
  Thresholds,  \* the thresholds a rule may have
  Rounds,      \* rounds fired in a session
  SessionIds,
  MAX_BULK_SERVICE_ITEMS, \* rows one bulk call may mark
  Configured,  \* what there may be at first: [defaults, rules, mounted, grants]
  MaxDay, MaxWrites \* bounds

Items == Firearms \union Accessories
None == "none"
FUTURE_DATE_TOLERANCE_DAYS == 1
Days == 0..(MaxDay + FUTURE_DATE_TOLERANCE_DAYS)
Threshold == [days : Nat, sessions : Nat, rounds : Nat]
Unset == [days |-> 0, sessions |-> 0, rounds |-> 0]
ItemRule == [hides : BOOLEAN, th : Threshold]

\* A table: rows of V under some of the keys K.
IsTable(f, K, V) == DOMAIN f \subseteq K /\ f \in [DOMAIN f -> V]

ASSUME ServiceDueAssumption ==
  /\ OwnerOf \in [Items -> Users] /\ CategoryOf \in [Items -> Categories]
  /\ Origin \in [Items -> Int] /\ MaxDay \in Nat /\ MaxWrites \in Nat
  /\ Thresholds \subseteq Threshold \ {Unset} /\ Rounds \subseteq Nat \ {0}
  /\ MAX_BULK_SERVICE_ITEMS \in Nat \ {0} /\ None \notin Users \union Firearms
  /\ \A c \in Configured :
       /\ IsTable(c.defaults, Users \X Categories \X Names, Thresholds)
       /\ IsTable(c.rules, Items \X Names, ItemRule)
       /\ \A k \in DOMAIN c.rules : c.rules[k].hides <=> c.rules[k].th = Unset
       /\ c.mounted \in [Accessories -> Firearms \union {None}]
       /\ \A x \in Accessories : c.mounted[x] # None => OwnerOf[c.mounted[x]] = OwnerOf[x]
       /\ c.grants \subseteq [who : Users, item : Items, perm : {"view", "edit"}]
       /\ \A g \in c.grants : g.who # OwnerOf[g.item]

VARIABLES
  day,
  grants,   \* rows [who, item, perm]
  mounted,  \* mounted[x]: the firearm accessory x is on, or None
  events,   \* rows [item, name, on]
  sessions, \* rows by id: [gun, on, rounds, used]
  defaults, \* thresholds by <<owner, category, name>>, of the defaults there are
  rules,    \* item rules by <<item, name>>
  writes,   \* counter
  late,     \* history: an entry was made for another day, or changed
  marked    \* history: the bulk call just made, see NotMarked

vars == <<day, grants, mounted, events, sessions, defaults, rules, writes, late, marked>>

\* Whose bulk call it was, the rows it was sent, what was due before, whether it worked.
NotMarked == [by |-> None, ticked |-> {}, before |-> {}, ok |-> TRUE]

-----------------------------------------------------------------------------
(* Who sees and may do what (visibility.ts, events-service.ts).            *)

Permission(u, i) ==
  IF OwnerOf[i] = u THEN "owner"
  ELSE IF \E g \in grants : g.who = u /\ g.item = i /\ g.perm = "edit" THEN "edit"
  ELSE IF \E g \in grants : g.who = u /\ g.item = i THEN "view"
  ELSE None

VisibleFirearms(u) == {f \in Firearms : Permission(u, f) # None}
OwnAccessories(u) == {x \in Accessories : OwnerOf[x] = u}
\* An accessory is seen by its owner, by a grant, or where it is mounted.
SeesAccessory(u, x) == Permission(u, x) # None \/ mounted[x] \in VisibleFirearms(u)
\* Accessories are serviced by their owner only.
MayLog(u, i) ==
  IF i \in Firearms THEN Permission(u, i) \in {"owner", "edit"} ELSE OwnerOf[i] = u

-----------------------------------------------------------------------------
(* derive.ts.                                                              *)

\* Mutant: the day of the service counts.
CountsFromServiceDay(s, from, asOf) == from <= s.on /\ s.on <= asOf
\* After the day of the service, up to today.
Counted(s, from, asOf) == from < s.on /\ s.on <= asOf

ElapsedCounts(from, ids, asOf) ==
  LET fired == {s \in ids : Counted(sessions[s], from, asOf)}
  IN [days |-> Max({0, asOf - from}), sessions |-> Cardinality(fired),
      rounds |-> MapThenSumSet(LAMBDA s : sessions[s].rounds, fired)]

\* isDue: the first axis that has reached its threshold.
IsDue(th, c) ==
  IF th.days # 0 /\ c.days >= th.days THEN "days"
  ELSE IF th.sessions # 0 /\ c.sessions >= th.sessions THEN "sessions"
  ELSE IF th.rounds # 0 /\ c.rounds >= th.rounds THEN "rounds"
  ELSE None

\* ds and rs are functions of names: defaults, then what the item says of them.
ResolveEffectiveRules(ds, rs) ==
  {[name |-> n, state |-> "inherited", th |-> ds[n]] : n \in DOMAIN ds \ DOMAIN rs}
  \union {[name |-> n, state |-> IF n \in DOMAIN ds THEN "overridden" ELSE "item-only",
           th |-> rs[n].th] : n \in {m \in DOMAIN rs : ~rs[m].hides}}

-----------------------------------------------------------------------------
(* due-service.ts: one item.                                               *)

LoadDefaults(o, c) ==
  [n \in {m \in Names : <<o, c, m>> \in DOMAIN defaults} |-> defaults[<<o, c, n>>]]
LoadItemRules(i) == [n \in {m \in Names : <<i, m>> \in DOMAIN rules} |-> rules[<<i, n>>]]

\* Mutant: the last service of the item, whatever the rule.
LastOfItem(i, n) ==
  LET on == {e.on : e \in {x \in events : x.item = i}} IN IF on = {} THEN {} ELSE {Max(on)}
\* The day of the last service of this rule of the item, if it had one (at most
\* one element); otherwise the rule is measured from the origin.
LastServicePoint(i, n) ==
  LET on == {e.on : e \in {x \in events : x.item = i /\ x.name = n}}
  IN IF on = {} THEN {} ELSE {Max(on)}
MeasureFrom(i, last) == IF last = {} THEN Origin[i] ELSE Max(last)

FirearmSessions(f) == {s \in DOMAIN sessions : sessions[s].gun = f}

\* Mutant: every session the accessory was on.
AccessorySessionsOfAll(x, visible) == {s \in DOMAIN sessions : x \in sessions[s].used}
\* The sessions accessory x was on, of firearms that are seen.
AccessorySessions(x, visible) ==
  {s \in DOMAIN sessions : x \in sessions[s].used /\ sessions[s].gun \in visible}

ApplyDue(i, rule, last, ids) ==
  LET from == MeasureFrom(i, last)
      counts == ElapsedCounts(from, ids, day)
  IN [rule |-> rule, from |-> from, counts |-> counts, axis |-> IsDue(rule.th, counts)]

\* getItemDueState
ItemDueState(u, i) ==
  LET ids == IF i \in Firearms THEN FirearmSessions(i)
             ELSE AccessorySessions(i, VisibleFirearms(u))
  IN {ApplyDue(i, r, LastServicePoint(i, r.name), ids) :
        r \in ResolveEffectiveRules(LoadDefaults(OwnerOf[i], CategoryOf[i]), LoadItemRules(i))}

\* Who is answered at all: a firearm's viewers, an accessory's owner.
Answered(u) == VisibleFirearms(u) \union OwnAccessories(u)

-----------------------------------------------------------------------------
(* due-service.ts: the collection, from one query for each source.         *)

\* Mutant: defaults are grouped by category.
DefaultsKeyOfCategory(owner, category) == category
DefaultsKey(owner, category) == <<owner, category>>

\* Everything that is read for the listed items, grouped.
BatchedDueData(fs, xs) ==
  LET owners == {OwnerOf[i] : i \in fs \union xs}
      rows == {d \in DOMAIN defaults : d[1] \in owners}
      keys == {DefaultsKey(d[1], d[2]) : d \in rows}
  IN [defaults |-> [k \in keys |->
         LET group == {d \in rows : DefaultsKey(d[1], d[2]) = k}
         IN [n \in {d[3] : d \in group} |-> defaults[CHOOSE d \in group : d[3] = n]]],
      rules |-> [i \in {r[1] : r \in DOMAIN rules} \intersect (fs \union xs) |-> LoadItemRules(i)],
      last |-> [p \in {<<e.item, e.name>> : e \in events} |-> LastServicePoint(p[1], p[2])],
      sessions |-> [i \in fs \union xs |->
         IF i \in fs THEN FirearmSessions(i) ELSE AccessorySessions(i, fs)]]

GetOr(f, k, otherwise) == IF k \in DOMAIN f THEN f[k] ELSE otherwise
Nothing == [n \in {} |-> None]

BuildEntry(data, i) ==
  LET resolved == ResolveEffectiveRules(
                    GetOr(data.defaults, DefaultsKey(OwnerOf[i], CategoryOf[i]), Nothing),
                    GetOr(data.rules, i, Nothing))
  IN [item |-> i, rules |-> {ApplyDue(i, r, GetOr(data.last, <<i, r.name>>, {}), data.sessions[i]) :
                               r \in resolved}]

\* listDueForVisibleCollection: items without a rule are left out.
Collection(u) ==
  LET fs == VisibleFirearms(u)
      xs == OwnAccessories(u)
      data == BatchedDueData(fs, xs)
  IN {en \in {BuildEntry(data, i) : i \in fs \union xs} : en.rules # {}}

\* Mutant: view-only firearms are offered too.
AnythingActionable(u, i) == TRUE
Actionable(u, i) == i \in Firearms => Permission(u, i) \in {"owner", "edit"}

\* buildServiceBacklog: pairs of an item and a rule that is due.
Backlog(u) ==
  UNION {{<<en.item, r.rule.name>> : r \in {x \in en.rules : x.axis # None}} :
           en \in {x \in Collection(u) : Actionable(u, x.item)}}

\* range-sessions/service.ts
SumOfRounds(ids) == MapThenSumSet(LAMBDA s : sessions[s].rounds, ids)
LifetimeRoundTotals(u) == [f \in VisibleFirearms(u) |-> SumOfRounds(FirearmSessions(f))]
AccessoryRoundsFired(u, x) ==
  IF SeesAccessory(u, x) THEN SumOfRounds(AccessorySessions(x, VisibleFirearms(u))) ELSE None

-----------------------------------------------------------------------------
(* What happens.                                                           *)

Write == writes < MaxWrites /\ writes' = writes + 1
Unmarked == marked' = NotMarked

NextDay ==
  /\ day < MaxDay /\ day' = day + 1
  /\ Unmarked
  /\ UNCHANGED <<grants, mounted, events, sessions, defaults, rules, writes, late>>

\* validateServicedOn: nothing is serviced later than tomorrow.
ServiceDay(on) == on <= day + FUTURE_DATE_TOLERANCE_DAYS

EffectiveNames(i) ==
  {r.name : r \in ResolveEffectiveRules(LoadDefaults(OwnerOf[i], CategoryOf[i]), LoadItemRules(i))}

LogServiceEvent(u, i, n, on) ==
  /\ Write /\ ServiceDay(on)
  /\ MayLog(u, i) /\ n \in EffectiveNames(i)
  /\ events' = events \union {[item |-> i, name |-> n, on |-> on]}
  /\ late' = (late \/ on # day)
  /\ Unmarked
  /\ UNCHANGED <<day, grants, mounted, sessions, defaults, rules>>

\* logServiceEventsBulk, dated today, on rows ticked in the backlog: all of them, or an
\* error and none.  A call with more rows than the limit is refused.
MarkBacklog(u) ==
  /\ Write
  /\ \E ticked \in (SUBSET Backlog(u)) \ {{}} :
       LET ok == /\ Cardinality(ticked) <= MAX_BULK_SERVICE_ITEMS
                 /\ \A p \in ticked : MayLog(u, p[1]) /\ p[2] \in EffectiveNames(p[1])
           new == {[item |-> p[1], name |-> p[2], on |-> day] : p \in ticked}
       IN /\ events' = IF ok THEN events \union new ELSE events
          /\ marked' = [by |-> u, ticked |-> ticked, before |-> Backlog(u), ok |-> ok]
  /\ UNCHANGED <<day, grants, mounted, sessions, defaults, rules, late>>

\* updateServiceEvent and deleteServiceEvent.
ChangeEvent(u) ==
  /\ Write
  /\ \E e \in events :
       /\ MayLog(u, e.item)
       /\ \/ events' = events \ {e}
          \/ \E on \in Days : /\ ServiceDay(on)
                              /\ events' = (events \ {e}) \union {[e EXCEPT !.on = on]}
  /\ late' = TRUE /\ Unmarked
  /\ UNCHANGED <<day, grants, mounted, sessions, defaults, rules>>

\* Any date is accepted; what is mounted now is recorded.
CreateRangeSession(u, f, on, n) ==
  /\ Write /\ Permission(u, f) \in {"owner", "edit"}
  /\ DOMAIN sessions # SessionIds
  /\ LET s == CHOOSE s \in SessionIds : s \notin DOMAIN sessions IN
       sessions' = [t \in DOMAIN sessions \union {s} |->
         IF t = s THEN [gun |-> f, on |-> on, rounds |-> n,
                        used |-> {x \in Accessories : mounted[x] = f}]
         ELSE sessions[t]]
  /\ late' = (late \/ on # day)
  /\ Unmarked
  /\ UNCHANGED <<day, grants, mounted, events, defaults, rules>>

\* updateRangeSession and deleteRangeSession.
ChangeRangeSession(u) ==
  /\ Write
  /\ \E s \in DOMAIN sessions :
       /\ Permission(u, sessions[s].gun) \in {"owner", "edit"}
       /\ \/ sessions' = [t \in DOMAIN sessions \ {s} |-> sessions[t]]
          \/ \E on \in Days, n \in Rounds :
               sessions' = [sessions EXCEPT ![s].on = on, ![s].rounds = n]
  /\ late' = TRUE /\ Unmarked
  /\ UNCHANGED <<day, grants, mounted, events, defaults, rules>>

\* One of the owner's own firearms, or none.
Mount(x, f) ==
  /\ Write /\ mounted[x] # f
  /\ f # None => OwnerOf[f] = OwnerOf[x]
  /\ mounted' = [mounted EXCEPT ![x] = f]
  /\ Unmarked
  /\ UNCHANGED <<day, grants, events, sessions, defaults, rules, late>>

Share(u, i) ==
  /\ Write /\ OwnerOf[i] # u
  /\ LET others == {g \in grants : g.who # u \/ g.item # i}
     IN \/ grants' = others
        \/ \E p \in {"view", "edit"} : grants' = others \union {[who |-> u, item |-> i, perm |-> p]}
  /\ Unmarked
  /\ UNCHANGED <<day, mounted, events, sessions, defaults, rules, late>>

\* An item rule is created, edited, suppressed or deleted under its name.
ConfigureItem(i, n) ==
  /\ Write
  /\ LET others == [k \in DOMAIN rules \ {<<i, n>>} |-> rules[k]]
         with(r) == [k \in DOMAIN others \union {<<i, n>>} |-> IF k = <<i, n>> THEN r ELSE others[k]]
     IN \/ rules' = others
        \/ rules' = with([hides |-> TRUE, th |-> Unset])
        \/ \E th \in Thresholds : rules' = with([hides |-> FALSE, th |-> th])
  /\ Unmarked
  /\ UNCHANGED <<day, grants, mounted, events, sessions, defaults, late>>

ConfigureDefault(o, c, n) ==
  /\ Write
  /\ LET others == [k \in DOMAIN defaults \ {<<o, c, n>>} |-> defaults[k]]
     IN \/ defaults' = others
        \/ \E th \in Thresholds :
             defaults' = [k \in DOMAIN others \union {<<o, c, n>>} |->
                            IF k = <<o, c, n>> THEN th ELSE others[k]]
  /\ Unmarked
  /\ UNCHANGED <<day, grants, mounted, events, sessions, rules, late>>

Init ==
  /\ day = 0 /\ events = {} /\ sessions = Nothing
  /\ \E c \in Configured : /\ defaults = c.defaults /\ rules = c.rules
                           /\ mounted = c.mounted /\ grants = c.grants
  /\ writes = 0 /\ late = FALSE /\ marked = NotMarked

Next ==
  \/ NextDay
  \/ \E u \in Users :
       \/ \E i \in Items, n \in Names, on \in Days : LogServiceEvent(u, i, n, on)
       \/ MarkBacklog(u)
       \/ ChangeEvent(u)
       \/ \E f \in Firearms, on \in Days, n \in Rounds : CreateRangeSession(u, f, on, n)
       \/ ChangeRangeSession(u)
       \/ \E i \in Items : Share(u, i)
  \/ \E x \in Accessories, f \in Firearms \union {None} : Mount(x, f)
  \/ \E i \in Items, n \in Names : ConfigureItem(i, n)
  \/ \E o \in Users, c \in Categories, n \in Names : ConfigureDefault(o, c, n)

Spec == Init /\ [][Next]_vars

-----------------------------------------------------------------------------
(* Properties.                                                             *)

\* Every table holds rows of its kind, as the writers keep it.
TypeOK ==
  /\ day \in 0..MaxDay
  /\ \A g \in grants : g.who # OwnerOf[g.item]
  /\ mounted \in [Accessories -> Firearms \union {None}]
  /\ \A e \in events : e.item \in Items /\ e.name \in Names /\ e.on \in Days
  /\ \A s \in DOMAIN sessions : \A x \in sessions[s].used : OwnerOf[x] = OwnerOf[sessions[s].gun]
  /\ \A k \in DOMAIN rules : rules[k] \in ItemRule /\ (rules[k].hides <=> rules[k].th = Unset)

\* The lists and the summary, which are built from one query for each source, and
\* the page of an item, which asks for that item, show the same rules, counts and
\* due marks to whoever sees both.
CollectionAgrees ==
  \A u \in Users :
    Collection(u) = {[item |-> i, rules |-> ItemDueState(u, i)] :
                       i \in {j \in Answered(u) : ItemDueState(u, j) # {}}}

\* The tables and the lists built from them.
ListsAreSound == TypeOK /\ CollectionAgrees

\* Of item i its owner sees rule n due.
Due(i, n) == \E r \in ItemDueState(OwnerOf[i], i) : r.rule.name = n /\ r.axis # None

\* What is due stays due until that rule of that item is serviced or configured
\* anew, or a session is taken back: not because a day passes, a session is added
\* for any date, another rule is serviced, the accessory moves or grants change.
DueStays ==
  [][/\ UNCHANGED <<defaults, rules>>
     /\ \A s \in DOMAIN sessions : s \in DOMAIN sessions' /\ sessions'[s] = sessions[s]
     => \A i \in Items, n \in Names :
          Due(i, n) /\ ~Due(i, n)' =>
            \E e \in events \union events' :
              e.item = i /\ e.name = n /\ (e \in events <=> e \notin events')]_vars

\* What u is shown: due state, and the totals of rounds.
Seen(u) == <<[i \in Answered(u) |-> ItemDueState(u, i)], LifetimeRoundTotals(u),
             [x \in Accessories |-> AccessoryRoundsFired(u, x)]>>

\* R9: a session of a firearm u cannot see changes nothing u is shown, even if an
\* accessory u sees was on it.
NoLeak ==
  [][\A u \in Users :
       /\ UNCHANGED <<day, grants, mounted, events, defaults, rules>>
       /\ \A s \in DOMAIN sessions \union DOMAIN sessions' :
            \/ s \in DOMAIN sessions \intersect DOMAIN sessions' /\ sessions[s] = sessions'[s]
            \/ /\ s \in DOMAIN sessions => sessions[s].gun \notin VisibleFirearms(u)
               /\ s \in DOMAIN sessions' => sessions'[s].gun \notin VisibleFirearms(u)
       => Seen(u)' = Seen(u)]_vars

\* What somebody is shown changes for a reason he can see.
ShownChangesForAReason == DueStays /\ NoLeak

\* The backlog offers nothing its reader may not write, and he can clear it, in calls of
\* no more rows than the limit: a call fails for its size only, takes off the list all it
\* was sent, the same rule on the same day included, and leaves the rest; one that is
\* refused leaves the list as it was.
BacklogCanBeCleared ==
  marked.by # None =>
    /\ marked.ok <=> Cardinality(marked.ticked) <= MAX_BULK_SERVICE_ITEMS
    /\ Backlog(marked.by) = IF marked.ok THEN marked.before \ marked.ticked ELSE marked.before

\* The meter of rule n of item i, as its owner's due state has it.
Meter(i, n) ==
  LET from == MeasureFrom(i, LastServicePoint(i, n))
      c == ElapsedCounts(from, IF i \in Firearms THEN FirearmSessions(i)
                               ELSE AccessorySessions(i, VisibleFirearms(OwnerOf[i])), day)
  IN [days |-> c.days, sessions |-> c.sessions, rounds |-> c.rounds, age |-> day - from]

Odometer == INSTANCE ServiceOdometer WITH
  meter <- [i \in Items |-> [n \in Names |-> Meter(i, n)]]
\* While every entry is made on its day, due state counts like meters that are set
\* back by a service: nothing is lost, counted twice or counted for another item.
CountsLikeMeters == Odometer!Spec
-----------------------------------------------------------------------------
(* What the proofs rest on: the rows in full.                              *)

SessionRow == [gun : Firearms, on : Days, rounds : Rounds, used : SUBSET Accessories]

\* What the writers keep of every table.
TableInv ==
  /\ TypeOK
  /\ grants \subseteq [who : Users, item : Items, perm : {"view", "edit"}]
  /\ events \subseteq [item : Items, name : Names, on : Days]
  /\ IsTable(defaults, Users \X Categories \X Names, Thresholds)
  /\ IsTable(rules, Items \X Names, ItemRule)
  /\ IsTable(sessions, SessionIds, SessionRow) /\ IsFiniteSet(DOMAIN sessions)
  /\ \A x \in Accessories : mounted[x] # None => OwnerOf[mounted[x]] = OwnerOf[x]

\* While every entry is made on its day, nothing is of a day to come.
OnTimeInv ==
  ~late => /\ \A e \in events : e.on <= day
           /\ \A s \in DOMAIN sessions : sessions[s].on <= day
=============================================================================
