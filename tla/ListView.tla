------------------------------ MODULE ListView ------------------------------
(***************************************************************************)
(* One open list page: the magazines, the firearms, or one of the plain    *)
(* lists (accessories, ammo).  What the user chose (sorting, columns, page *)
(* size, grouping, filters) is one record; every change replaces all of it *)
(* and writes it to the browser's storage (hooks/use-table-view-state.ts). *)
(*                                                                         *)
(* A click's handler was made by the last render: it builds the next       *)
(* record from `seen`, and is rendered at once.  A timer or the answer of a*)
(* server call changes `view` only, and Render shows it later.  A render   *)
(* runs its effects; what they write is again rendered later.              *)
(*                                                                         *)
(* "kind" is the caliber of a magazine (the filter by compatible firearm   *)
(* works the same way) and the type of a firearm.                          *)
(***************************************************************************)
EXTENDS Integers, FiniteSets, FiniteSetsExt

CONSTANTS
  Items, Mine,       \* the items there can be, and the viewer's own ones
  Named, Stale, InRange, \* items whose name holds Text; not inventoried lately; inventoried in the range
  KindOf, Kinds,     \* the kind of each item
  AllKinds, NoText, Text, None,
  Columns, PageSizes, DEFAULT_PAGE_SIZE,
  Blocked,           \* a storage that throws
  Entries,           \* what the storage may hold when the page opens
  Lists,             \* the pages to look at
  MaxClicks, MaxOthers \* bounds: the user's steps, changes by other users

Inventory == {"all", "stale", "range", "inverted", "broken"}
View == [sorted : BOOLEAN, hidden : SUBSET Columns, pageSize : PageSizes,
         grouped : BOOLEAN, query : {NoText, Text}, kind : Kinds \union {AllKinds},
         inventory : Inventory]

Default ==
  [sorted |-> FALSE, hidden |-> {}, pageSize |-> DEFAULT_PAGE_SIZE, grouped |-> FALSE,
   query |-> NoText, kind |-> AllKinds, inventory |-> "all"]

ASSUME ListViewAssumption ==
  /\ KindOf \in [Items -> Kinds] /\ Mine \subseteq Items
  /\ PageSizes \subseteq Nat \ {0} /\ Default \in View
  /\ IsFiniteSet(Items) /\ None \notin {NoText, Text}
  /\ \A e \in Entries \ {None, Blocked} :
       /\ DOMAIN e \subseteq DOMAIN Default
       /\ \A f \in DOMAIN e : \E v \in View : e[f] = v[f]
  /\ MaxClicks \in Nat /\ MaxOthers \in Nat

VARIABLES
  list,       \* "magazines", "firearms" or "plain"
  items,      \* the rows the server would list
  props,      \* the rows of the last render
  view, seen, \* the view record: as set, and as last rendered
  shown,      \* mounted: the stored view was read
  store,      \* what the browser keeps for this list: a partial view, None or Blocked
  box, timer, \* the text in the search box, and the text its timer will commit
  index,      \* the page of the table
  form,       \* of the create form: "closed", "open"
  submitted,  \* the create call under way: [item, base, here]
  target,     \* the item whose deletion is to be confirmed
  deleting,   \* the deletion under way: [item, here]
  refreshing, \* router.refresh() was called and its rows have not come
  clicks, others, \* counters
  overwrote   \* history: a click hit between a background write and its render

listVars == <<list, items, props, view, seen, shown, store, box, timer, index, form,
              submitted, target, deleting, refreshing, clicks, others, overwrote>>
calls == <<form, submitted, target, deleting, refreshing>>

-----------------------------------------------------------------------------
(* What a view shows of the rows.                                          *)

\* calibersForFilter; presentTypes
Offered(p) ==
  CASE list = "magazines" -> {KindOf[i] : i \in p \intersect Mine}
    [] list = "firearms" -> {KindOf[i] : i \in p}
    [] OTHER -> {}

isFilterStale(v, p) == list = "firearms" /\ v.kind # AllKinds /\ v.kind \notin Offered(p)
EffectiveKind(v, p) == IF v.kind \in Offered(p) THEN v.kind ELSE AllKinds

sanitizeInventoryFilter(raw) == IF raw \in {"stale", "range"} THEN raw ELSE "all"

matchesInventoryFilter(i, preset) ==
  /\ preset = "stale" => i \in Stale
  /\ preset = "range" => i \in InRange

Filtered(v, p) ==
  {i \in p :
     /\ EffectiveKind(v, p) # AllKinds => KindOf[i] = EffectiveKind(v, p)
     /\ list = "magazines" =>
          /\ v.query = Text => i \in Named
          /\ matchesInventoryFilter(i, sanitizeInventoryFilter(v.inventory))}

\* The flat table is on the screen: rows, and no grouping.
Flat(v, p) == p # {} /\ ~v.grouped
PageCount(v, p) == Max({1, (Cardinality(Filtered(v, p)) + v.pageSize - 1) \div v.pageSize})

\* The groups of a grouped list, and the flat section under them.
Groups(v, p) == {KindOf[i] : i \in Filtered(v, p) \intersect Mine}
Borrowed(v, p) == Filtered(v, p) \ Mine

-----------------------------------------------------------------------------
(* Rendering.                                                              *)

Save(v) == IF store = Blocked THEN Blocked ELSE v

parseViewState(raw) ==
  IF raw \in {None, Blocked} THEN Default
  ELSE [f \in DOMAIN Default |-> IF f \in DOMAIN raw THEN raw[f] ELSE Default[f]]

\* Mutant: the vanished type is left in the record.
ResetStaleLater(v, p) == v

\* The effect that takes a vanished type out of the view, not just out of the list.
ResetStale(v, p) ==
  IF isFilterStale(v, p) /\ ~isFilterStale(seen, props) THEN [v EXCEPT !.kind = AllKinds] ELSE v

\* Mutant: the page is left where it was.
FitPageNot(i, v, p) == i

\* The effect that goes back to the first page.
FitPage(i, v, p) == IF i > PageCount(v, p) - 1 THEN 0 ELSE i

\* The table library may go back to the first page when its rows change.
AutoReset(i, v, p) ==
  IF Filtered(v, p) # Filtered(seen, props) \/ v.sorted # seen.sorted THEN {0, i} ELSE {i}

\* Render view v of rows p, at page i; `stored` is what the storage holds by then.
Show(v, p, i, stored) ==
  /\ seen' = v /\ props' = p
  /\ view' = ResetStale(v, p)
  /\ store' = IF view' # v THEN Save(view') ELSE stored
  /\ IF Flat(v, p) THEN \E j \in AutoReset(i, v, p) : index' = FitPage(j, v, p)
                   ELSE index' = 0

Render ==
  /\ shown /\ view # seen
  /\ Show(view, props, index, store)
  /\ UNCHANGED <<list, items, shown, box, timer, calls, clicks, others, overwrote>>

\* The rows a refresh asked for come.
Refreshed ==
  /\ shown /\ refreshing
  /\ refreshing' = FALSE
  /\ Show(view, items, index, store)
  /\ UNCHANGED <<list, items, shown, box, timer, form, submitted, target, deleting,
                 clicks, others, overwrote>>

\* Mutant: the box starts empty.
SyncedBoxNot(v) == NoText

\* The search box shows the query that was restored.
SyncedBox(v) == IF list = "magazines" THEN v.query ELSE NoText

\* The effects of the first render: read the storage, then show the list.
Mount ==
  /\ ~shown /\ shown' = TRUE
  /\ LET v == parseViewState(store) IN Show(v, props, 0, store) /\ box' = SyncedBox(v)
  /\ UNCHANGED <<list, items, timer, calls, clicks, others, overwrote>>
-----------------------------------------------------------------------------
(* The user.                                                               *)

\* The controls are on the screen, and no dialog covers them.
Usable == shown /\ props # {} /\ target = None /\ clicks < MaxClicks

\* setViewState from a click: v was built on what was last rendered.
Choose(v, i) ==
  /\ Usable /\ v # seen
  /\ clicks' = clicks + 1
  /\ overwrote' = (overwrote \/ view # seen)
  /\ Show(v, props, i, Save(v))
  /\ UNCHANGED <<list, items, shown, box, timer, calls, others>>

Sort == Choose([seen EXCEPT !.sorted = ~@], index)

\* The menu keeps the last column that is shown.
ToggleColumn(c) ==
  /\ c \in seen.hidden \/ Cardinality(Columns \ seen.hidden) > 1
  /\ Choose([seen EXCEPT !.hidden = IF c \in @ THEN @ \ {c} ELSE @ \union {c}], index)

\* The page that then shows the first row of this one.
SetPageSize(n) ==
  /\ ~seen.grouped
  /\ Choose([seen EXCEPT !.pageSize = n], (index * seen.pageSize) \div n)

PickGrouping == list # "plain" /\ Choose([seen EXCEPT !.grouped = ~@], index)

PickKind(k) == k \in Offered(props) \union {AllKinds} /\ Choose([seen EXCEPT !.kind = k], index)

\* The control shows the raw value: an inverted range stays there to be corrected.
PickInventory(raw) ==
  list = "magazines" /\ raw # "broken" /\ Choose([seen EXCEPT !.inventory = raw], index)

\* Previous and next: the page is not in the view record.
Turn(i) ==
  /\ Usable /\ ~seen.grouped /\ i \in {index - 1, index + 1} \intersect 0..(PageCount(seen, props) - 1)
  /\ clicks' = clicks + 1
  /\ Show(view, props, i, store)
  /\ UNCHANGED <<list, items, shown, box, timer, calls, others, overwrote>>

\* Typing restarts the timer, or stops it when the text is the query again.
Type(text) ==
  /\ Usable /\ list = "magazines" /\ text # box
  /\ clicks' = clicks + 1
  /\ box' = text
  /\ Show(view, props, index, store)
  /\ timer' = IF text = seen'.query THEN None ELSE text
  /\ UNCHANGED <<list, items, shown, calls, others, overwrote>>

\* Mutant: the timer adds its text to what the storage holds.
LatestStored == parseViewState(store)

\* viewStateRef.current
Latest == seen

\* The timer fires.
CommitQuery ==
  /\ timer # None
  /\ view' = [Latest EXCEPT !.query = timer]
  /\ store' = Save(view')
  /\ timer' = None
  /\ UNCHANGED <<list, items, props, seen, shown, box, index, calls, clicks, others, overwrote>>

-----------------------------------------------------------------------------
(* Creating and deleting.                                                  *)

SetForm(to) ==
  /\ shown /\ target = None /\ submitted = None /\ form # to /\ clicks < MaxClicks
  /\ clicks' = clicks + 1 /\ form' = to
  /\ UNCHANGED <<list, items, props, view, seen, shown, store, box, timer, index,
                 submitted, target, deleting, refreshing, others, overwrote>>
OpenForm == SetForm("open")
CancelForm == SetForm("closed")

\* The form's handler holds the page's refresh(), and with it the view of this render.
Submit(i) ==
  /\ form = "open" /\ submitted = None /\ target = None /\ clicks < MaxClicks
  /\ i \in Mine \ items
  /\ clicks' = clicks + 1
  /\ submitted' = [item |-> i, base |-> seen, here |-> TRUE]
  /\ UNCHANGED <<list, items, props, view, seen, shown, store, box, timer, index,
                 form, target, deleting, refreshing, others, overwrote>>

\* The answer: refresh() closes the form; on the firearms page it shows every type.
Created ==
  /\ submitted # None
  /\ \/ /\ items' = items \union {submitted.item}
        /\ form' = IF submitted.here THEN "closed" ELSE form
        /\ refreshing' = TRUE
        /\ LET v == [submitted.base EXCEPT !.kind = AllKinds] IN
             IF list = "firearms" THEN /\ store' = Save(v)
                                       /\ view' = IF submitted.here THEN v ELSE view
                                  ELSE UNCHANGED <<store, view>>
     \/ UNCHANGED <<items, form, refreshing, store, view>>
  /\ submitted' = None
  /\ UNCHANGED <<list, props, seen, shown, box, timer, index, target, deleting, clicks,
                 others, overwrote>>

\* Delete of an own row; the dialog covers the page until it is closed.
RequestDelete(i) ==
  /\ Usable /\ i \in Filtered(seen, props) \intersect Mine
  /\ clicks' = clicks + 1 /\ target' = i
  /\ UNCHANGED <<list, items, props, view, seen, shown, store, box, timer, index, form,
                 submitted, deleting, refreshing, others, overwrote>>

\* Escape closes the dialog even while the deletion runs.
CancelDelete ==
  /\ target # None /\ target' = None
  /\ UNCHANGED <<list, items, props, view, seen, shown, store, box, timer, index, form,
                 submitted, deleting, refreshing, clicks, others, overwrote>>

ConfirmDelete ==
  /\ target # None /\ deleting = None
  /\ deleting' = [item |-> target, here |-> TRUE]
  /\ UNCHANGED <<list, items, props, view, seen, shown, store, box, timer, index, form,
                 submitted, target, refreshing, clicks, others, overwrote>>

\* The answer closes the dialog, whichever item it asks about by now.
Deleted ==
  /\ deleting # None
  /\ \/ items' = items \ {deleting.item} /\ refreshing' = TRUE
     \/ UNCHANGED <<items, refreshing>>
  /\ target' = IF deleting.here THEN None ELSE target
  /\ deleting' = None
  /\ UNCHANGED <<list, props, view, seen, shown, store, box, timer, index, form,
                 submitted, clicks, others, overwrote>>

\* A grant was made from a row (SharePanel): the list is refreshed.
Shared ==
  /\ Usable /\ ~refreshing /\ clicks' = clicks + 1 /\ refreshing' = TRUE
  /\ UNCHANGED <<list, items, props, view, seen, shown, store, box, timer, index, form,
                 submitted, target, deleting, others, overwrote>>

\* Another user shares an item, or takes one back.
Other(i) ==
  /\ others < MaxOthers /\ others' = others + 1
  /\ i \notin Mine
  /\ items' = IF i \in items THEN items \ {i} ELSE items \union {i}
  /\ UNCHANGED <<list, props, view, seen, shown, store, box, timer, index, calls, clicks,
                 overwrote>>

\* The user leaves the page and comes back: only the storage is kept.
Reopen ==
  /\ shown /\ target = None /\ clicks < MaxClicks
  /\ clicks' = clicks + 1
  /\ shown' = FALSE /\ props' = items /\ view' = Default /\ seen' = Default
  /\ box' = NoText /\ timer' = None /\ index' = 0 /\ form' = "closed"
  /\ submitted' = IF submitted = None THEN None ELSE [submitted EXCEPT !.here = FALSE]
  /\ deleting' = IF deleting = None THEN None ELSE [deleting EXCEPT !.here = FALSE]
  /\ refreshing' = FALSE /\ overwrote' = FALSE
  /\ UNCHANGED <<list, items, store, target, others>>

-----------------------------------------------------------------------------
ListInit ==
  /\ list \in Lists /\ items \in SUBSET Items /\ props = items
  /\ view = Default /\ seen = Default /\ shown = FALSE
  /\ store \in Entries
  /\ box = NoText /\ timer = None /\ index = 0
  /\ form = "closed" /\ submitted = None /\ target = None /\ deleting = None
  /\ refreshing = FALSE /\ clicks = 0 /\ others = 0 /\ overwrote = FALSE

ListUser ==
  \/ Sort \/ PickGrouping
  \/ \E c \in Columns : ToggleColumn(c)
  \/ \E n \in PageSizes : SetPageSize(n)
  \/ \E k \in Kinds \union {AllKinds} : PickKind(k)
  \/ \E raw \in Inventory : PickInventory(raw)
  \/ \E i \in {index - 1, index + 1} : Turn(i)
  \/ \E text \in {NoText, Text} : Type(text)
  \/ OpenForm \/ CancelForm \/ CancelDelete \/ ConfirmDelete \/ Shared \/ Reopen
  \/ \E i \in Items : Submit(i) \/ RequestDelete(i)

ListNext ==
  \/ Mount \/ Render \/ Refreshed \/ CommitQuery
  \/ Created \/ Deleted \/ \E i \in Items : Other(i)
  \/ ListUser

ListSpec == ListInit /\ [][ListNext]_listVars

-----------------------------------------------------------------------------
(* Properties.                                                             *)

\* What the user arranged stays as he left it until he changes it: neither the search
\* timer, the effect that drops a vanished type, a refresh, nor another call's answer
\* may bring back another sorting, column set, page size or grouping.  Only the answer
\* of a created firearm does: it restores the view of the moment of its submission.
ArrangementStands ==
  [][ clicks' = clicks /\ shown' = shown /\ ~(list = "firearms" /\ submitted # None /\ submitted' = None)
      => \A f \in {"sorted", "hidden", "pageSize", "grouped"} : view'[f] = view[f] ]_listVars

\* A type that vanished from the firearms list and comes back does not filter the list
\* again on its own (the effect's promise): from "every type" the list narrows only by
\* the user's pick or when the page opens, unless a click hit before a background write
\* was rendered.
NoSnapBack ==
  [][ list = "firearms" /\ shown /\ ~overwrote
      /\ EffectiveKind(seen, props) = AllKinds /\ EffectiveKind(seen', props') # AllKinds
      => clicks' # clicks ]_listVars

\* No answer, timer or effect undoes what the user arranged or filtered.
ViewStands == ArrangementStands /\ NoSnapBack

\* Once no timer is armed and everything is rendered, the search box shows the query
\* the list is filtered by: after a restored view, after typing, after typing back.
BoxIsTheQuery ==
  list = "magazines" /\ shown /\ timer = None /\ view = seen /\ ~overwrote => box = view.query

\* The list is never blank while a row passes the filters: the page exists, or the
\* groups and the borrowed section hold every row once.
NothingIsOutOfReach ==
  shown /\ Filtered(seen, props) # {} =>
    IF seen.grouped THEN Groups(seen, props) # {} \/ Borrowed(seen, props) # {}
                    ELSE index * seen.pageSize < Cardinality(Filtered(seen, props))

ListTypeOK ==
  /\ list \in Lists /\ items \subseteq Items /\ props \subseteq Items
  /\ view \in View /\ seen \in View /\ shown \in BOOLEAN
  /\ box \in {NoText, Text} /\ timer \in {NoText, Text, None}
  /\ index \in Nat /\ form \in {"open", "closed"}
  /\ target \in Items \union {None} /\ refreshing \in BOOLEAN

\* The list shows what its controls say.
ListIsSound == ListTypeOK /\ BoxIsTheQuery /\ NothingIsOutOfReach

-----------------------------------------------------------------------------
(* The inductive invariant, proved in ClientPagesProofs.                   *)

Submission == [item : Items, base : View, here : BOOLEAN]
Deletion == [item : Items, here : BOOLEAN]

ListValuesInv ==
  /\ ListTypeOK /\ store \in Entries \union View \union {Blocked}
  /\ submitted \in Submission \union {None} /\ deleting \in Deletion \union {None}
  /\ clicks \in Nat /\ overwrote \in BOOLEAN

\* The timer runs only where everything is rendered; the box holds what it will commit,
\* or else the query.
BoxInv ==
  /\ timer # None => list = "magazines" /\ shown /\ view = seen
  /\ ~shown => seen = Default
  /\ list = "magazines" /\ shown /\ ~overwrote => box = IF timer = None THEN view.query ELSE timer

\* A type in the record is the one on the screen, and the list offers it.
KindInv ==
  list = "firearms" /\ shown /\ ~overwrote /\ view.kind # AllKinds =>
    view.kind = seen.kind /\ ~isFilterStale(seen, props)

PageInv == Flat(seen, props) => index <= PageCount(seen, props) - 1

ListInv == ListValuesInv /\ BoxInv /\ KindInv /\ PageInv
=============================================================================
