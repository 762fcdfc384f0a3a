----------------------------- MODULE ItemPanels -----------------------------
(***************************************************************************)
(* One panel of an item's page, or the page of the service defaults: rows  *)
(* of the server, an inline form, one-click actions, a delete dialog.      *)
(*                                                                         *)
(* Server actions, the loads of a panel and router.refresh() of one page   *)
(* wait for each other: the framework sends the next when the one before   *)
(* is answered.  Between what the server did and its answer, and while a   *)
(* call waits, the user goes on.  A button's `disabled` is all that stops  *)
(* him; the handlers check nothing again.                                  *)
(*                                                                         *)
(* Rows are names; what a row says is the version of the whole list.       *)
(***************************************************************************)
EXTENDS Integers, Sequences

CONSTANTS
  Panels,     \* the panels to look at
  Rows, NoRow,
  MaxPosts, MaxOpenings, MaxOutside \* bounds: calls, openings of a form, changes by others

ASSUME ItemPanelsAssumption ==
  /\ Panels \subseteq {"photos", "documents", "rules", "history", "sessions", "log",
                       "attachments", "defaults"}
  /\ NoRow \notin Rows
  /\ MaxPosts \in Nat /\ MaxOpenings \in Nat /\ MaxOutside \in Nat

VARIABLES
  panel,   \* which panel this is
  server,  \* [rows, version]: what a list of the item would return
  listed,  \* what the panel shows of it
  ui,      \* [form, target, error, deleting]: the state of the component
  queue,   \* calls under way: [kind, row, n]
  reply,   \* what the server did for the first of them: [ok, seen, wrote], or NoReply
  newest,  \* activeRequestRef: the number of the newest load
  saved,   \* history: the version the user's last successful write made
  good,    \* history: whether the call answered last, a refresh aside, succeeded
  made,    \* history: rows created by each opening of a form
  counts   \* [posts, openings, outside]

panelVars == <<panel, server, listed, ui, queue, reply, newest, saved, good, made, counts>>

NoForm == [kind |-> "none", row |-> NoRow, n |-> 0]
NoReply == [ok |-> FALSE, seen |-> [rows |-> {}, version |-> 0], wrote |-> FALSE, set |-> FALSE]
Call(kind, row, n) == [kind |-> kind, row |-> row, n |-> n]

Open == ui.form # NoForm
On(kind) == ui.form.kind = kind
EditsRow(row) == Open /\ row # NoRow /\ ui.form.row = row
\* The pending flags of a component: one of these calls is under way.
Doing(kinds) == \E i \in DOMAIN queue : queue[i].kind \in kinds
\* The pending flag of the open form, a component of its own.
Submitting == \E i \in DOMAIN queue : queue[i].n = ui.form.n /\ queue[i].kind \in {"create", "edit", "log"}

-----------------------------------------------------------------------------
(* What each panel lets the user do.  "open" has the kind of the form; the *)
(* form's own controls are "submit" and "cancel".                          *)

\* Mutant: only a delete disables the buttons.
PhotoButtonsDeleting(do, row) ==
  ~Doing({"delete"}) /\ ~EditsRow(row) /\ do \in {"edit", "quick", "target"}

\* The buttons of a photo that is not being captioned: rowBusy.
PhotoButtons(do, row) ==
  ~Doing({"quick", "edit", "delete"}) /\ ~EditsRow(row) /\ do \in {"edit", "quick", "target"}

CaptionButtons(do) == do \in {"submit", "cancel"} /\ ~Doing({"quick", "edit"})
PhotoUpload(do) == do = "upload" /\ ~Doing({"upload"})

DocumentUpload(do) == do = "upload" /\ ~Doing({"upload"})
DocumentButtons(do) == do = "target" /\ ~Doing({"delete"})

\* Mutant: the rule form can be submitted again while it is saved.
RuleFormFree(do) == do \in {"submit", "cancel"}

RuleForm(do) == do \in {"submit", "cancel"} /\ ~Submitting
RuleRow(do, row) ==
  \/ do \in {"log", "edit"} /\ ~(On("edit") /\ EditsRow(row))
  \/ do = "quick" /\ ~Doing({"quick"})
RulePanel(do, row) ==
  \/ do = "create" /\ ~On("create")
  \/ RuleRow(do, row) \/ RuleForm(do)
LogServiceForm(do) == On("log") /\ do \in {"submit", "cancel"} /\ ~Submitting

HistoryForm(do) == do \in {"submit", "cancel"} /\ ~Submitting
\* Only the row whose deletion was asked last has its button disabled.
HistoryRow(do, row) ==
  \/ do = "edit"
  \/ do = "quick" /\ ~(Doing({"quick"}) /\ ui.deleting = row)

SessionForm(do) == do \in {"submit", "cancel"} /\ ~Submitting
SessionRow(do) == do \in {"edit", "target"}
SessionPanel(do) == (do = "create" /\ ~Open) \/ SessionRow(do) \/ SessionForm(do)

\* The header's button opens the form and closes it, even while it is saved.
LogPanel(do) ==
  \/ do = "create" /\ ~Open
  \/ do = "cancel"
  \/ do = "quick" /\ ~Doing({"quick"})
LogEntryForm(do) == do = "submit" /\ ~Submitting

\* One flag for the saves and the deletion.
AttachmentForm(do) == do \in {"submit", "cancel"} /\ ~Doing({"create", "edit", "delete"})
AttachmentRow(do) == do \in {"edit", "target"}
AttachmentPanel(do) == (do = "create" /\ ~Open) \/ AttachmentRow(do) \/ AttachmentForm(do)

CategoryCard(do) ==
  \/ do = "create" /\ ~Open
  \/ do \in {"edit", "target"}
AddCategory(do) == do = "quick" /\ ~Doing({"quick"})

May(do, row) ==
  \/ panel = "photos" /\ (PhotoButtons(do, row) \/ CaptionButtons(do) \/ PhotoUpload(do))
  \/ panel = "documents" /\ (DocumentUpload(do) \/ DocumentButtons(do))
  \/ panel = "rules" /\ (RulePanel(do, row) \/ LogServiceForm(do))
  \/ panel = "history" /\ (HistoryForm(do) \/ HistoryRow(do, row))
  \/ panel = "sessions" /\ SessionPanel(do)
  \/ panel = "log" /\ (LogPanel(do) \/ LogEntryForm(do))
  \/ panel = "attachments" /\ AttachmentPanel(do)
  \/ panel = "defaults" /\ (CategoryCard(do) \/ RuleForm(do) \/ AddCategory(do))

-----------------------------------------------------------------------------
(* What the handler of an answer makes of the component, and the calls it  *)
(* sends.                                                                  *)

CloseForm(u) == [u EXCEPT !.form = NoForm]
CloseDialog(u) == [u EXCEPT !.target = NoRow]
Refresh == <<Call("refresh", NoRow, 0)>>
Nothing == <<>>

\* Mutant: the new caption is not fetched.
PhotoSavedNot(u) == [ui |-> CloseForm(u), then |-> Nothing]

PhotoSaved(u) == [ui |-> CloseForm(u), then |-> Refresh]
PhotoChanged(u) == [ui |-> u, then |-> Refresh]
PhotoDeleted(u, ok) == [ui |-> CloseDialog(u), then |-> IF ok THEN Refresh ELSE Nothing]
PhotosUploaded(u) == [ui |-> u, then |-> Refresh]

DocumentsUploaded(u) == [ui |-> u, then |-> Refresh]
DocumentDeleted(u, ok) == [ui |-> CloseDialog(u), then |-> IF ok THEN Refresh ELSE Nothing]

\* Whichever form is open.
RuleMutated(u) == [ui |-> CloseForm(u), then |-> Refresh]
EventMutated(u) == [ui |-> CloseForm(u), then |-> Refresh]
EventDeleted(u, ok) ==
  IF ok THEN EventMutated([u EXCEPT !.deleting = NoRow])
        ELSE [ui |-> [u EXCEPT !.deleting = NoRow], then |-> Nothing]

\* The rows are loaded, and the page is refreshed for what it derives of them.
Load(n) == <<Call("load", NoRow, n), Call("refresh", NoRow, 0)>>
SessionSaved(u) == [ui |-> CloseForm(u), then |-> Load(newest + 1)]
SessionDeleted(u, ok) ==
  [ui |-> CloseDialog(u), then |-> IF ok THEN Load(newest + 1) ELSE Nothing]

EntryLogged(u) == [ui |-> CloseForm(u), then |-> Load(newest + 1)]
Marked(u) == [ui |-> u, then |-> Load(newest + 1)]

AttachmentSaved(u, ok) ==
  IF ok THEN [ui |-> CloseForm(u), then |-> Refresh]
        ELSE [ui |-> [u EXCEPT !.error = TRUE], then |-> Nothing]
AttachmentDeleted(u, ok) ==
  [ui |-> [CloseDialog(u) EXCEPT !.error = @ \/ ~ok], then |-> IF ok THEN Refresh ELSE Nothing]

DefaultSaved(u) == [ui |-> CloseForm(u), then |-> Refresh]
CategoryAdded(u) == [ui |-> u, then |-> Refresh]
DefaultDeleted(u, ok) == [ui |-> CloseDialog(u), then |-> IF ok THEN Refresh ELSE Nothing]

Answered(u, c, ok) ==
  LET failed == [ui |-> u, then |-> Nothing] IN
  CASE c.kind = "delete" /\ panel = "photos" -> PhotoDeleted(u, ok)
    [] c.kind = "delete" /\ panel = "documents" -> DocumentDeleted(u, ok)
    [] c.kind = "delete" /\ panel = "sessions" -> SessionDeleted(u, ok)
    [] c.kind = "delete" /\ panel = "attachments" -> AttachmentDeleted(u, ok)
    [] c.kind = "delete" /\ panel = "defaults" -> DefaultDeleted(u, ok)
    [] c.kind = "quick" /\ panel = "history" -> EventDeleted(u, ok)
    [] c.kind \in {"create", "edit"} /\ panel = "attachments" -> AttachmentSaved(u, ok)
    [] OTHER ->
       IF ~ok THEN failed ELSE
       CASE c.kind = "edit" /\ panel = "photos" -> PhotoSaved(u)
         [] c.kind = "quick" /\ panel = "photos" -> PhotoChanged(u)
         [] c.kind = "upload" /\ panel = "photos" -> PhotosUploaded(u)
         [] panel = "documents" -> DocumentsUploaded(u)
         [] panel = "rules" -> RuleMutated(u)
         [] panel = "history" -> EventMutated(u)
         [] panel = "sessions" -> SessionSaved(u)
         [] c.kind = "create" /\ panel = "log" -> EntryLogged(u)
         [] c.kind = "quick" /\ panel = "log" -> Marked(u)
         [] c.kind = "quick" /\ panel = "defaults" -> CategoryAdded(u)
         [] OTHER -> DefaultSaved(u)

-----------------------------------------------------------------------------
(* The user.                                                               *)

loads == panel \in {"sessions", "log"}
\* load() clears the error of the load before.
Clear(u, calls) == IF calls # <<>> /\ Head(calls).kind = "load" THEN [u EXCEPT !.error = FALSE] ELSE u
Send(calls) ==
  /\ queue' = queue \o calls
  /\ newest' = IF calls # <<>> /\ Head(calls).kind = "load" THEN newest + 1 ELSE newest

\* No dialog covers the panel.
Free == ui.target = NoRow
Post(kind, row, n) ==
  /\ counts.posts < MaxPosts
  /\ counts' = [counts EXCEPT !.posts = @ + 1]
  /\ Send(<<Call(kind, row, n)>>)
  /\ UNCHANGED <<panel, server, listed, reply, saved, good, made>>

\* A loading panel that shows an error has no rows.
Shown(row) == row \in listed.rows /\ ~(loads /\ ui.error)

PanelOpen(kind, row) ==
  /\ Free /\ May(kind, row) /\ counts.openings < MaxOpenings
  /\ kind = "create" <=> row = NoRow
  /\ row = NoRow \/ Shown(row)
  /\ ui' = [ui EXCEPT !.form = [kind |-> kind, row |-> row, n |-> counts.openings + 1],
                      !.error = IF panel = "attachments" THEN FALSE ELSE @]
  /\ counts' = [counts EXCEPT !.openings = @ + 1]
  /\ UNCHANGED <<panel, server, listed, queue, reply, newest, saved, good, made>>

\* The form of a row is on the screen while the row is.
FormShown == Open /\ (ui.form.row # NoRow => Shown(ui.form.row))

PanelCancel ==
  /\ Free /\ FormShown /\ May("cancel", ui.form.row)
  /\ ui' = CloseForm(ui)
  /\ UNCHANGED <<panel, server, listed, queue, reply, newest, saved, good, made, counts>>

PanelSubmit ==
  /\ Free /\ FormShown /\ May("submit", ui.form.row)
  /\ ui' = [ui EXCEPT !.error = IF panel = "attachments" THEN FALSE ELSE @]
  /\ Post(ui.form.kind, ui.form.row, ui.form.n)

\* A button that acts at once: set primary, move, remove the caption; reset, suppress,
\* remove, restore; delete an event; mark inventoried; arm a category.
PanelQuick(row) ==
  /\ Free /\ May("quick", row)
  /\ IF panel \in {"log", "defaults"} THEN row = NoRow ELSE Shown(row)
  /\ ui' = [ui EXCEPT !.deleting = IF panel = "history" THEN row ELSE @]
  /\ Post("quick", row, 0)

PanelUpload == Free /\ May("upload", NoRow) /\ UNCHANGED ui /\ Post("upload", NoRow, 0)

PanelAskDelete(row) ==
  /\ Free /\ May("target", row) /\ Shown(row)
  /\ ui' = [ui EXCEPT !.target = row]
  /\ UNCHANGED <<panel, server, listed, queue, reply, newest, saved, good, made, counts>>

\* Cancel, Escape and a click beside the dialog.
PanelKeep ==
  /\ ui.target # NoRow /\ ui' = CloseDialog(ui)
  /\ UNCHANGED <<panel, server, listed, queue, reply, newest, saved, good, made, counts>>

\* Mutant: the error of the attempt before stays.
ClearsFirstNot == FALSE

\* The attachments clear a failure before they try again.
ClearsFirst == panel = "attachments"

PanelConfirm ==
  /\ ui.target # NoRow
  /\ ~Doing({"delete"}) /\ (panel = "attachments" => ~Doing({"create", "edit"}))
  /\ ui' = [ui EXCEPT !.error = IF ClearsFirst THEN FALSE ELSE @]
  /\ Post("delete", ui.target, 0)

\* Try again.
PanelRetry ==
  /\ Free /\ loads /\ ui.error /\ counts.posts < MaxPosts
  /\ counts' = [counts EXCEPT !.posts = @ + 1]
  /\ ui' = [ui EXCEPT !.error = FALSE]
  /\ Send(<<Call("load", NoRow, newest + 1)>>)
  /\ UNCHANGED <<panel, server, listed, reply, saved, good, made>>

-----------------------------------------------------------------------------
(* The server, and its answers.                                            *)

Change(rows) == [rows |-> rows, version |-> server.version + 1]

\* The rows after a call: a new row, one less, or the same with other contents.
After(c) ==
  CASE c.kind \in {"create", "upload"} \/ (c.kind = "quick" /\ panel = "defaults") ->
         {Change(server.rows \union {r}) : r \in Rows}
    [] c.kind = "delete" \/ (c.kind = "quick" /\ panel = "history") ->
         {Change(server.rows \ {c.row})}
    [] c.kind = "quick" /\ panel = "rules" ->
         {Change(server.rows), Change(server.rows \ {c.row})}
    [] OTHER -> {Change(server.rows)}

\* The server does what the first call asks, or refuses it; a read returns the rows of
\* this moment.
Serve ==
  /\ queue # <<>> /\ ~reply.set
  /\ LET c == Head(queue) IN
       \/ /\ c.kind \in {"load", "refresh"} /\ UNCHANGED server
          /\ reply' = [ok |-> TRUE, seen |-> server, wrote |-> FALSE, set |-> TRUE]
       \/ /\ c.kind \notin {"load", "refresh"} /\ (c.row = NoRow \/ c.row \in server.rows)
          /\ server' \in After(c)
          /\ reply' = [ok |-> TRUE, seen |-> server', wrote |-> TRUE, set |-> TRUE]
       \/ /\ c.kind # "refresh" /\ UNCHANGED server
          /\ reply' = [ok |-> FALSE, seen |-> server, wrote |-> FALSE, set |-> TRUE]
  /\ UNCHANGED <<panel, listed, ui, queue, newest, saved, good, made, counts>>

\* Mutant: the answer of an older load counts.
SupersededNot(c) == FALSE

\* The log drops the answer of a load that is not the newest; the sessions do not.
Superseded(c) == panel = "log" /\ c.n # newest

\* A load shows what it read; one that failed shows an error and no rows.
Loaded(c, r) ==
  IF Superseded(c) THEN UNCHANGED <<listed, ui>>
  ELSE /\ listed' = IF r.ok THEN r.seen ELSE [r.seen EXCEPT !.rows = {}]
       /\ ui' = [ui EXCEPT !.error = @ \/ ~r.ok]

Answer ==
  /\ reply.set /\ reply' = NoReply
  /\ LET c == Head(queue)
         h == Answered(ui, c, reply.ok) IN
       CASE c.kind = "load" ->
              /\ Loaded(c, reply)
              /\ queue' = Tail(queue) /\ good' = reply.ok
              /\ UNCHANGED <<newest, saved, made>>
         [] c.kind = "refresh" ->
              /\ listed' = IF loads THEN listed ELSE reply.seen
              /\ queue' = Tail(queue) /\ UNCHANGED <<ui, newest, saved, good, made>>
         [] OTHER ->
              /\ ui' = Clear(h.ui, h.then)
              /\ queue' = Tail(queue) \o h.then
              /\ newest' = IF h.then # <<>> /\ loads THEN newest + 1 ELSE newest
              /\ good' = reply.ok
              /\ saved' = IF reply.ok THEN reply.seen.version ELSE saved
              /\ made' = IF reply.ok /\ c.kind = "create" THEN [made EXCEPT ![c.n] = @ + 1] ELSE made
              /\ UNCHANGED listed
  /\ UNCHANGED <<panel, server, counts>>

\* Another user, or another tab.
PanelOther(row) ==
  /\ counts.outside < MaxOutside /\ counts' = [counts EXCEPT !.outside = @ + 1]
  /\ \/ server' = Change(server.rows \ {row})
     \/ server' = Change(server.rows \union {row})
  /\ UNCHANGED <<panel, listed, ui, queue, reply, newest, saved, good, made>>

-----------------------------------------------------------------------------
PanelInit ==
  /\ panel \in Panels
  /\ \E rows \in SUBSET Rows : server = [rows |-> rows, version |-> 0]
  /\ listed = IF loads THEN [rows |-> {}, version |-> 0] ELSE server
  /\ ui = [form |-> NoForm, target |-> NoRow, error |-> FALSE, deleting |-> NoRow]
  /\ queue = IF loads THEN <<Call("load", NoRow, 1)>> ELSE <<>>
  /\ newest = IF loads THEN 1 ELSE 0
  /\ reply = NoReply /\ saved = 0 /\ good = TRUE
  /\ made = [n \in 1..MaxOpenings |-> 0]
  /\ counts = [posts |-> 0, openings |-> 0, outside |-> 0]

PanelNext ==
  \/ \E kind \in {"create", "edit", "log"}, row \in Rows \union {NoRow} : PanelOpen(kind, row)
  \/ PanelCancel \/ PanelSubmit \/ PanelUpload
  \/ \E row \in Rows \union {NoRow} : PanelQuick(row)
  \/ \E row \in Rows : PanelAskDelete(row)
  \/ PanelKeep \/ PanelConfirm \/ PanelRetry
  \/ Serve \/ Answer \/ \E row \in Rows : PanelOther(row)

PanelSpec == PanelInit /\ [][PanelNext]_panelVars

-----------------------------------------------------------------------------
(* Properties.                                                             *)

\* When every call is answered and no error is shown, the panel shows the user's last
\* successful write, however its answer, other answers and their reloads were ordered.
QuietPanelIsCurrent == queue = <<>> /\ ~ui.error => listed.version >= saved

\* However fast the user clicks, one opening of a create form makes at most one row.
OneRowPerOpening == \A n \in DOMAIN made : made[n] <= 1

\* An error on the log or the attachments is the one of the last call: a retry that
\* succeeded, or a newer load, took the old one away.
ErrorIsOfTheLastCall == panel \in {"log", "attachments"} /\ queue = <<>> /\ ui.error => ~good

\* The caption being typed is dropped only by its Cancel, by its own save, or when the
\* user starts another one: not by another button's answer, an upload's or a deletion's.
CaptionDraftStands ==
  [][ panel = "photos" /\ ui.form # NoForm /\ ui'.form = NoForm =>
      \/ queue' = queue
      \/ Head(queue).kind = "edit" /\ Head(queue).n = ui.form.n ]_panelVars

PanelTypeOK ==
  /\ panel \in Panels
  /\ server.rows \subseteq Rows /\ listed.rows \subseteq Rows
  /\ ui.target \in Rows \union {NoRow} /\ ui.error \in BOOLEAN
  /\ ui.form.kind \in {"none", "create", "edit", "log"}
  /\ \A i \in DOMAIN queue :
       queue[i].kind \in {"create", "edit", "log", "quick", "upload", "delete", "load", "refresh"}

\* What a panel shows and makes is what its user's calls amount to.
PanelsAreTrue == PanelTypeOK /\ QuietPanelIsCurrent /\ OneRowPerOpening /\ ErrorIsOfTheLastCall

-----------------------------------------------------------------------------
(* The inductive invariant, proved in ClientPagesProofs.                   *)

RowOrNone == Rows \union {NoRow}
Listing == [rows : SUBSET Rows, version : Nat]
PanelForm == [kind : {"none", "create", "edit", "log"}, row : RowOrNone, n : Nat]
PanelUi == [form : PanelForm, target : RowOrNone, error : BOOLEAN, deleting : RowOrNone]
PanelCall ==
  [kind : {"create", "edit", "log", "quick", "upload", "delete", "load", "refresh"},
   row : RowOrNone, n : Nat]
PanelReply == [ok : BOOLEAN, seen : Listing, wrote : BOOLEAN, set : BOOLEAN]
PanelCounts == [posts : Nat, openings : 0 .. MaxOpenings, outside : Nat]

\* A panel asks only what its buttons ask, and a form is one that was opened.
PanelValuesInv ==
  /\ panel \in Panels /\ server \in Listing /\ listed \in Listing /\ ui \in PanelUi
  /\ queue \in Seq(PanelCall) /\ reply \in PanelReply /\ newest \in Nat /\ saved \in Nat
  /\ good \in BOOLEAN /\ made \in [1 .. MaxOpenings -> Nat] /\ counts \in PanelCounts
  /\ reply.set => queue # <<>>

FormInv ==
  /\ ui.form = NoForm \/ (ui.form.kind # "none" /\ ui.form.n \in 1 .. counts.openings)
  /\ panel = "photos" => ui.form.kind \in {"none", "edit"}
  /\ panel = "documents" => ui.form = NoForm
  /\ panel = "log" => ui.form.kind \in {"none", "create"} /\ ui.target = NoRow
  /\ panel = "attachments" => ui.form.kind \in {"none", "create", "edit"}

\* One creation at a time is under way for an opening, none once it has made its row.
CreatesInv ==
  /\ \A i \in DOMAIN queue : queue[i].kind = "create" =>
       /\ queue[i].n \in 1 .. counts.openings /\ made[queue[i].n] = 0
       /\ \A j \in DOMAIN queue : queue[j].kind = "create" /\ queue[j].n = queue[i].n => i = j
  /\ \A n \in 1 .. MaxOpenings :
       made[n] = 0 \/ (made[n] = 1 /\ n <= counts.openings /\ ui.form.n # n)

\* What the panel shows has the user's last write, or a reload is on its way that will.
CurrentInv ==
  /\ saved <= server.version /\ reply.seen.version <= server.version
  /\ reply.set /\ queue[1].kind \in {"load", "refresh"} => saved <= reply.seen.version
  /\ \/ saved <= listed.version
     \/ loads /\ \E i \in DOMAIN queue : queue[i].kind = "load" /\ queue[i].n = newest
     \/ ~loads /\ \E i \in DOMAIN queue : queue[i].kind = "refresh"

\* The caption being saved is the one on the screen.
PhotosInv ==
  panel = "photos" => \A i \in DOMAIN queue :
    /\ queue[i].kind \in {"edit", "quick", "upload", "delete", "refresh"}
    /\ queue[i].kind = "edit" =>
         queue[i].n = ui.form.n /\ \A j \in DOMAIN queue : queue[j].kind = "edit" => i = j

\* An error of the log is its newest load's, and takes the rows with it until the next.
LogInv ==
  panel = "log" =>
    /\ ui.error => ~good
    /\ \A i \in DOMAIN queue :
         /\ queue[i].kind \in {"create", "quick", "load", "refresh"}
         /\ queue[i].kind = "load" =>
              /\ ~ui.error /\ queue[i].n <= newest
              /\ \A j \in DOMAIN queue : queue[j].kind = "load" /\ i < j => queue[i].n < queue[j].n

\* An error of the attachments is the last attempt's: the next clears it, and comes alone.
AttachmentsInv ==
  panel = "attachments" =>
    /\ ui.error => ~good
    /\ \A i \in DOMAIN queue :
         /\ queue[i].kind \in {"create", "edit", "delete", "refresh"}
         /\ queue[i].kind # "refresh" =>
              ~ui.error /\ \A j \in DOMAIN queue : queue[j].kind # "refresh" => i = j

PanelInv ==
  /\ PanelValuesInv /\ FormInv /\ CreatesInv /\ CurrentInv
  /\ PhotosInv /\ LogInv /\ AttachmentsInv
=============================================================================
