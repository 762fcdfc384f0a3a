------------------------------ MODULE ItemPage ------------------------------
(***************************************************************************)
(* The form of a magazine, firearm, accessory or lot of ammo: on the       *)
(* item's own page, where it edits, and on the list, where it creates; and *)
(* beside it, on the page, the mount control of an accessory and the       *)
(* deletion of the item.                                                   *)
(*                                                                         *)
(* The form takes its values from the page when it opens, and keeps them   *)
(* whatever the page is told later.  Calls of the page are answered in     *)
(* order.  Only the buttons are disabled while the form is saved.          *)
(***************************************************************************)
EXTENDS Integers, Sequences

CONSTANTS
  FormKinds,    \* the kinds of item to look at
  Guns, NoGun,  \* the firearms an accessory can be mounted on
  NextStart,    \* the next number of each prefix the owner has used
  MaxActs, MaxItemOthers \* bounds: the user's steps, changes by others

ASSUME ItemPageAssumption ==
  /\ FormKinds \subseteq {"magazine", "firearm", "accessory", "ammo"}
  /\ NoGun \notin Guns
  /\ DOMAIN NextStart \subseteq {"US", "us", "ZZ"} /\ NextStart \in [DOMAIN NextStart -> Nat]
  /\ MaxActs \in Nat /\ MaxItemOthers \in Nat

VARIABLES
  formKind, detail, \* the kind of item; on its own page, or the create form
  magpulMode,
  itemRow,  \* [version, mount, mounts, date]: the server's row, or Gone
  page,         \* the same as the page last rendered it, or Gone when it was left
  editing,      \* the form is open
  values,       \* what it holds
  messages,     \* [codes, serverError]: what it says
  answered,     \* history: what the last submission came to
  labelEdited,  \* history: the label was typed, or the prefix typed where it fills none
  asking,       \* the dialog that confirms the deletion is open
  itemCalls,  \* calls under way
  control,      \* the mount control was shown so often
  mine,         \* history: the version the user's last successful write made
  crossed,      \* history: a save was sent from a form older than the mount
  acts, itemOthers \* counters

itemVars == <<formKind, detail, magpulMode, itemRow, page, editing, values, messages,
              answered, labelEdited, asking, itemCalls, control, mine, crossed, acts, itemOthers>>
formPart == <<editing, values, messages, answered, labelEdited>>

Gone == [version |-> 0, mount |-> NoGun, mounts |-> 0, date |-> 0]
NoPrefix == [name |-> "", padded |-> FALSE]
NoLabel == [prefix |-> "", n |-> 0]
Typed == [prefix |-> "typed", n |-> 0]
RawPrefixes == {NoPrefix} \union [name : {"US", "us", "ZZ"}, padded : BOOLEAN]

\* DEFAULTS, or the item as the page shows it.  "number" stands for the numeric fields;
\* "invalid" is what is refused in any field, a required one left empty among them.
Blank(from) ==
  [number |-> "some", date |-> IF detail THEN from.date ELSE 0, mount |-> NoGun,
   mode |-> "single", prefix |-> NoPrefix, label |-> NoLabel, base |-> from.mounts]

\* Mutant: the draft of the form before is kept.
Kept(from) == [values EXCEPT !.base = from.mounts]

InitialValues(from) == Blank(from)

Pending(kinds) == \E i \in DOMAIN itemCalls : itemCalls[i].kind \in kinds
ItemFree == page # Gone /\ ~asking /\ acts < MaxActs
Acts == ItemFree /\ acts' = acts + 1
NoMessages == [codes |-> FALSE, serverError |-> FALSE]

-----------------------------------------------------------------------------
(* The form.                                                               *)

\* initialFirearmId: an accessory may be added from the page of a firearm.
PresetHosts ==
  {NoGun} \union (IF formKind = "accessory" /\ ~detail THEN Guns ELSE {})

\* Edit, or Add.
EditItem ==
  /\ Acts /\ ~editing
  /\ editing' = TRUE
  /\ \E gun \in PresetHosts : values' = [InitialValues(page) EXCEPT !.mount = gun]
  /\ messages' = NoMessages /\ answered' = NoMessages /\ labelEdited' = FALSE
  /\ UNCHANGED <<formKind, detail, magpulMode, itemRow, page, asking, itemCalls, control,
                 mine, crossed, itemOthers>>

\* With the form, the control is gone; it comes back as a new one.
CloseItemForm == editing' = FALSE /\ control' = control + 1 /\ UNCHANGED <<values, messages, answered, labelEdited>>

CancelItem ==
  /\ Acts /\ editing /\ ~Pending({"save"})
  /\ CloseItemForm
  /\ UNCHANGED <<formKind, detail, magpulMode, itemRow, page, asking, itemCalls, mine,
                 crossed, itemOthers>>

SetValues(v, edited) ==
  /\ Acts /\ editing /\ v # values
  /\ values' = v /\ labelEdited' = edited
  /\ UNCHANGED <<formKind, detail, magpulMode, itemRow, page, editing, messages, answered,
                 asking, itemCalls, control, mine, crossed, itemOthers>>

\* A firearm has no numeric field, but fields that are required.
TypeField(text) ==
  /\ formKind = "firearm" => text \in {"some", "invalid"}
  /\ SetValues([values EXCEPT !.number = text], labelEdited)

\* The date is asked for while the accessory is mounted, or a mount is picked.
isMounted == IF detail THEN page.mount # NoGun ELSE values.mount # NoGun
TypeDate(date) ==
  formKind = "accessory" /\ isMounted /\ SetValues([values EXCEPT !.date = date], labelEdited)

\* Mutant: the date that is hidden with the mount stays.
PickHostOnly(gun) ==
  formKind = "accessory" /\ ~detail /\ SetValues([values EXCEPT !.mount = gun], labelEdited)

\* Unmounted, the date is hidden and dropped.
PickHost(gun) ==
  /\ formKind = "accessory" /\ ~detail
  /\ SetValues([values EXCEPT !.mount = gun, !.date = IF gun = NoGun THEN 0 ELSE @], labelEdited)

PickMode(mode) ==
  formKind = "magazine" /\ ~detail /\ SetValues([values EXCEPT !.mode = mode], labelEdited)

\* Under Magpul mode the prefix is uppercased, and what the floorplate lacks is dropped.
filterPrefix(raw) ==
  IF magpulMode THEN [name |-> IF raw.name = "us" THEN "US" ELSE raw.name, padded |-> FALSE] ELSE raw

Trim(raw) == raw.name
StartsAt(raw) == IF Trim(raw) \in DOMAIN NextStart THEN NextStart[Trim(raw)] ELSE 1

\* Mutant: the map is asked for what was typed.
prefillLabelUntrimmed(raw) ==
  IF Trim(raw) = "" THEN NoLabel
  ELSE [prefix |-> Trim(raw), n |-> IF raw.padded THEN 1 ELSE StartsAt(raw)]

prefillLabel(raw) ==
  IF Trim(raw) = "" THEN NoLabel ELSE [prefix |-> Trim(raw), n |-> StartsAt(raw)]

\* Adding one, the prefix fills in the label; adding many, only the server numbers.
TypePrefix(raw) ==
  /\ formKind = "magazine" /\ ~detail
  /\ LET prefix == filterPrefix(raw) IN
     IF values.mode = "single"
     THEN SetValues([values EXCEPT !.prefix = prefix, !.label = prefillLabel(prefix)], FALSE)
     ELSE SetValues([values EXCEPT !.prefix = prefix], TRUE)

\* handleLabelChange
TypeLabel ==
  formKind = "magazine" /\ values.mode = "single" /\ SetValues([values EXCEPT !.label = Typed], TRUE)

\* Mutant: an emptied field is zero.
numZero(text) == IF text = "some" THEN 5 ELSE 0

NaN == -1
Null == -2

\* num; the cost of an accessory is parsed by parseCostInputToCents and may be left empty.
num(text) ==
  CASE text = "" -> IF formKind = "accessory" THEN Null ELSE NaN
    [] text = "zero" -> 0
    [] OTHER -> 5

\* The validation of the kind: NaN is no storable count.
Found == values.number = "invalid" \/ num(values.number) = NaN

\* Mutant: the message of the server stays.
MessagesAtSubmitKept == [codes |-> Found, serverError |-> messages.serverError]

MessagesAtSubmit == [codes |-> Found, serverError |-> FALSE]

\* An accessory that is not mounted sends no date.
SubmitItem ==
  /\ Acts /\ editing /\ ~Pending({"save"})
  /\ messages' = MessagesAtSubmit
  /\ answered' = [codes |-> Found, serverError |-> FALSE]
  /\ itemCalls' =
       IF Found THEN itemCalls
       ELSE Append(itemCalls,
              [kind |-> "save", text |-> values.number, number |-> num(values.number),
               gun |-> values.mount, date |-> IF isMounted THEN values.date ELSE 0,
               base |-> values.base, label |-> values.label, prefix |-> values.prefix,
               mode |-> values.mode, edited |-> labelEdited])
  /\ UNCHANGED <<formKind, detail, magpulMode, itemRow, page, editing, values, labelEdited,
                 asking, control, mine, crossed, itemOthers>>

-----------------------------------------------------------------------------
(* The page beside it.                                                     *)

Request(kind, gun, n) ==
  [kind |-> kind, text |-> "some", number |-> n, gun |-> gun, date |-> 0, base |-> 0,
   label |-> NoLabel, prefix |-> NoPrefix, mode |-> "single", edited |-> FALSE]
RefreshItem == <<Request("refresh", NoGun, 0)>>

\* MountControl: on the screen while the form is not, disabled while its own call runs.
MountOn(gun) ==
  /\ Acts /\ formKind = "accessory" /\ detail /\ ~editing /\ gun # page.mount
  /\ \A i \in DOMAIN itemCalls : ~(itemCalls[i].kind = "mount" /\ itemCalls[i].number = control)
  /\ itemCalls' = Append(itemCalls, Request("mount", gun, control))
  /\ UNCHANGED <<formKind, detail, magpulMode, itemRow, page, formPart, asking, control, mine,
                 crossed, itemOthers>>

AskRemove ==
  /\ Acts /\ detail /\ asking' = TRUE
  /\ UNCHANGED <<formKind, detail, magpulMode, itemRow, page, formPart, itemCalls, control,
                 mine, crossed, itemOthers>>

KeepItem ==
  /\ asking /\ asking' = FALSE
  /\ UNCHANGED <<formKind, detail, magpulMode, itemRow, page, formPart, itemCalls, control,
                 mine, crossed, acts, itemOthers>>

RemoveItem ==
  /\ asking /\ ~Pending({"remove"})
  /\ itemCalls' = Append(itemCalls, Request("remove", NoGun, 0))
  /\ UNCHANGED <<formKind, detail, magpulMode, itemRow, page, formPart, asking, control, mine,
                 crossed, acts, itemOthers>>

-----------------------------------------------------------------------------
(* The server, and the answers.                                            *)

\* Mounting sets the date of the day; unmounting clears it.
MountedRow(row, gun) ==
  [row EXCEPT !.version = @ + 1, !.mount = gun, !.mounts = @ + 1,
              !.date = IF gun = NoGun THEN 0 ELSE row.mounts + 1]
SavedRow(row, c) ==
  [row EXCEPT !.version = @ + 1, !.date = IF row.mount = NoGun THEN 0 ELSE c.date]

\* Mutant: the page keeps what it showed.
OnDoneNoRefresh == <<>>

\* The form's onDone, the control's onChanged.
OnDone == RefreshItem

SaveAnswered(c) ==
  \/ /\ itemRow # Gone
     /\ itemRow' = IF detail THEN SavedRow(itemRow, c) ELSE itemRow
     /\ crossed' = (crossed \/ c.base # itemRow.mounts)
     /\ mine' = IF detail THEN itemRow'.version ELSE mine
     /\ CloseItemForm /\ itemCalls' = Tail(itemCalls) \o OnDone
     /\ UNCHANGED <<page, asking>>
  \/ /\ \/ messages' = [messages EXCEPT !.codes = TRUE]
        \/ messages' = [messages EXCEPT !.serverError = TRUE]
     /\ answered' = messages' /\ itemCalls' = Tail(itemCalls)
     /\ UNCHANGED <<itemRow, page, editing, values, labelEdited, asking, control, mine, crossed>>

MountAnswered(c) ==
  \/ /\ itemRow # Gone /\ itemRow' = MountedRow(itemRow, c.gun)
     /\ mine' = itemRow'.version /\ itemCalls' = Tail(itemCalls) \o OnDone
     /\ UNCHANGED <<page, formPart, asking, control, crossed>>
  \/ itemCalls' = Tail(itemCalls)
     /\ UNCHANGED <<itemRow, page, formPart, asking, control, mine, crossed>>

\* The page of a deleted item is left for the list.
RemoveAnswered ==
  \/ /\ itemRow # Gone /\ itemRow' = Gone /\ page' = Gone
     /\ asking' = FALSE /\ editing' = FALSE /\ itemCalls' = <<>>
     /\ UNCHANGED <<values, messages, answered, labelEdited, control, mine, crossed>>
  \/ /\ asking' = FALSE /\ itemCalls' = Tail(itemCalls)
     /\ UNCHANGED <<itemRow, page, formPart, control, mine, crossed>>

\* The rows come; without one the page is not found.
ItemRefreshed ==
  /\ page' = itemRow
  /\ IF itemRow = Gone THEN itemCalls' = <<>> /\ editing' = FALSE /\ asking' = FALSE
                           ELSE itemCalls' = Tail(itemCalls) /\ UNCHANGED <<editing, asking>>
  /\ UNCHANGED <<itemRow, values, messages, answered, labelEdited, control, mine, crossed>>

ItemAnswer ==
  /\ itemCalls # <<>>
  /\ LET c == Head(itemCalls) IN
       \/ c.kind = "save" /\ SaveAnswered(c)
       \/ c.kind = "mount" /\ MountAnswered(c)
       \/ c.kind = "remove" /\ RemoveAnswered
       \/ c.kind = "refresh" /\ ItemRefreshed
  /\ UNCHANGED <<formKind, detail, magpulMode, acts, itemOthers>>

\* Another user edits, moves or deletes it.
ItemOther ==
  /\ itemOthers < MaxItemOthers /\ itemOthers' = itemOthers + 1
  /\ detail /\ itemRow # Gone
  /\ \/ itemRow' = SavedRow(itemRow, itemRow)
     \/ formKind = "accessory" /\ \E gun \in Guns \union {NoGun} : itemRow' = MountedRow(itemRow, gun)
     \/ itemRow' = Gone
  /\ UNCHANGED <<formKind, detail, magpulMode, page, formPart, asking, itemCalls, control, mine,
                 crossed, acts>>

-----------------------------------------------------------------------------
ItemInit ==
  /\ formKind \in FormKinds /\ detail \in BOOLEAN
  /\ magpulMode \in IF formKind = "magazine" THEN BOOLEAN ELSE {FALSE}
  /\ \E gun \in IF formKind = "accessory" /\ detail THEN Guns \union {NoGun} ELSE {NoGun} :
       itemRow = [version |-> 1, mount |-> gun, mounts |-> 1, date |-> IF gun = NoGun THEN 0 ELSE 1]
  /\ page = itemRow /\ editing = FALSE /\ values = Blank(page)
  /\ messages = NoMessages /\ answered = NoMessages /\ labelEdited = FALSE
  /\ asking = FALSE /\ itemCalls = <<>> /\ control = 1 /\ mine = 0 /\ crossed = FALSE
  /\ acts = 0 /\ itemOthers = 0

ItemNext ==
  \/ EditItem \/ CancelItem \/ SubmitItem \/ TypeLabel
  \/ \E text \in {"", "zero", "some", "invalid"} : TypeField(text)
  \/ \E date \in {0, page.mounts} : TypeDate(date)
  \/ \E gun \in Guns \union {NoGun} : PickHost(gun) \/ MountOn(gun)
  \/ \E mode \in {"single", "bulk"} : PickMode(mode)
  \/ \E raw \in RawPrefixes : TypePrefix(raw)
  \/ AskRemove \/ KeepItem \/ RemoveItem \/ ItemAnswer \/ ItemOther

ItemSpec == ItemInit /\ [][ItemNext]_itemVars

-----------------------------------------------------------------------------
\* What the form says is what became of its last submission, and of no earlier one: a
\* corrected form that fails on the server shows the server's answer alone.
MessagesAreOfTheLastSubmit == editing => messages = answered

\* A label nobody typed is the next of its prefix, however the prefix was typed, changed
\* or emptied; only a prefix typed for many and then used for one leaves the old label.
LabelFollowsThePrefix ==
  editing /\ formKind = "magazine" /\ ~labelEdited => values.label = prefillLabel([values.prefix EXCEPT !.padded = FALSE])

\* An emptied number is never sent as a zero, and a date never for an accessory that was
\* not mounted when it was asked for.
SentIsMeant ==
  \A i \in DOMAIN itemCalls :
    LET c == itemCalls[i] IN
      c.kind = "save" => (c.number = 0 => c.text = "zero") /\ (~detail /\ c.date # 0 => c.gun # NoGun)

\* An installed date typed for a mount that was taken back is not there to be saved when
\* another is picked.
HiddenDateIsForgotten ==
  formKind = "accessory" /\ ~detail /\ values.mount = NoGun => values.date = 0

\* Nobody's form gives an accessory the date of an earlier mount, unless it was opened
\* before the last one was known.
DateIsOfItsMount == ~crossed /\ itemRow # Gone => itemRow.date \in {0, itemRow.mounts}

\* When every call is answered the page shows the user's last write, or was left.
PageIsCurrent == itemCalls = <<>> /\ page # Gone => page.version >= mine

ItemPageTypeOK ==
  /\ formKind \in FormKinds /\ values.prefix \in RawPrefixes /\ editing \in BOOLEAN
  /\ itemRow.mount \in Guns \union {NoGun} /\ acts \in 0..MaxActs

\* The form says and sends what its user means.
FormIsTrue ==
  MessagesAreOfTheLastSubmit /\ LabelFollowsThePrefix /\ SentIsMeant /\ HiddenDateIsForgotten

\* The page and its form are as true as their item.
ItemPageIsTrue == ItemPageTypeOK /\ FormIsTrue /\ DateIsOfItsMount /\ PageIsCurrent

-----------------------------------------------------------------------------
(* The inductive invariant, proved in ClientPagesProofs.                   *)

Hosts == Guns \union {NoGun}
ItemRows == [version : Nat, mount : Hosts, mounts : Nat, date : Nat]
Numbers == {"", "zero", "some", "invalid"}
Labels == [prefix : {"", "typed", "US", "us", "ZZ"}, n : Nat]
FormValues ==
  [number : Numbers, date : Nat, mount : Hosts, mode : {"single", "bulk"},
   prefix : RawPrefixes, label : Labels, base : Nat]
ItemCall ==
  [kind : {"save", "mount", "remove", "refresh"}, text : Numbers, number : Int, gun : Hosts,
   date : Nat, base : Nat, label : Labels, prefix : RawPrefixes, mode : {"single", "bulk"},
   edited : BOOLEAN]

ItemValuesInv ==
  /\ ItemPageTypeOK /\ detail \in BOOLEAN /\ magpulMode \in BOOLEAN /\ labelEdited \in BOOLEAN
  /\ itemRow \in ItemRows /\ page \in ItemRows /\ values \in FormValues
  /\ itemCalls \in Seq(ItemCall) /\ control \in Nat /\ mine \in Nat /\ crossed \in BOOLEAN

\* A date belongs to the mount the form was opened with, or the mount has changed since.
DateFits(date, base) == date \in {0, base} \/ base < itemRow.mounts

\* What the page knows of the mounts is what the row had once, and what the form knows
\* is what the page did.
MountsInv ==
  itemRow # Gone =>
    /\ page # Gone /\ values.base <= page.mounts /\ page.mounts <= itemRow.mounts
    /\ ~crossed =>
         /\ itemRow.date \in {0, itemRow.mounts} /\ page.date \in {0, page.mounts}
         /\ DateFits(values.date, values.base)
         /\ \A i \in DOMAIN itemCalls :
              itemCalls[i].kind = "save" => DateFits(itemCalls[i].date, itemCalls[i].base)

\* A refresh is on its way whenever the page has not seen the user's last write.
SeenInv ==
  /\ itemRow = Gone \/ mine <= itemRow.version
  /\ page = Gone \/ page.version >= mine
     \/ \E i \in DOMAIN itemCalls : itemCalls[i].kind = "refresh"

ItemInv == ItemValuesInv /\ messages = answered /\ FormIsTrue /\ MountsInv /\ SeenInv
=============================================================================
