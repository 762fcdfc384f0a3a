---------------------------- MODULE DocumentView ----------------------------
(***************************************************************************)
(* The View dialog of a firearm's documents: it fetches the bytes into an  *)
(* object URL of the browser.  The fetch belongs to an effect, which runs  *)
(* after the render that opened or closed the dialog; the user's next      *)
(* click finds it done, an answer of the server may not.                   *)
(***************************************************************************)
EXTENDS Integers, FiniteSets

CONSTANTS Documents, NoDocument, MaxViews \* bound: how often the dialog is opened

ASSUME DocumentViewAssumption == NoDocument \notin Documents /\ MaxViews \in Nat

VARIABLES
  stored,     \* the documents the server still serves to this user
  viewTarget, \* the document of the open dialog, or NoDocument
  viewState,  \* [status, url]: url is the number of the fetch it was made of
  effect,     \* the effect that ran last: [n, doc, url], or NoEffect
  fetches,    \* requests under way: [n, doc]
  live,       \* object URLs not revoked: [n, doc]
  views       \* counter

viewVars == <<stored, viewTarget, viewState, effect, fetches, live, views>>

NoEffect == [n |-> 0, doc |-> NoDocument, url |-> FALSE]
Loading == [status |-> "loading", url |-> 0]
Failed == [status |-> "error", url |-> 0]

\* The effect of the last render ran.
Settled == effect.doc = viewTarget

\* Mutant: the dialog opens on what it showed last.
OpenedAsItWas == viewState

\* openView sets the state itself: the effect comes after the first render.
Opened == Loading

OpenView(d) ==
  /\ viewTarget = NoDocument /\ Settled /\ views < MaxViews
  /\ views' = views + 1
  /\ viewTarget' = d /\ viewState' = Opened
  /\ UNCHANGED <<stored, effect, fetches, live>>

\* The button, Escape, and a click beside the dialog.
CloseView ==
  /\ viewTarget # NoDocument /\ Settled
  /\ viewTarget' = NoDocument
  /\ UNCHANGED <<stored, viewState, effect, fetches, live, views>>

\* The cleanup of the effect before, and the effect of this render.
RunEffect ==
  /\ ~Settled
  /\ live' = {u \in live : ~(effect.url /\ u.n = effect.n)}
  /\ IF viewTarget = NoDocument
     THEN effect' = NoEffect /\ UNCHANGED <<viewState, fetches>>
     ELSE /\ effect' = [n |-> views, doc |-> viewTarget, url |-> FALSE]
          /\ viewState' = Loading
          /\ fetches' = fetches \union {[n |-> views, doc |-> viewTarget]}
  /\ UNCHANGED <<stored, viewTarget, views>>

\* Mutant: an answer counts whatever was opened since.
CancelledNot(f) == FALSE

Cancelled(f) == f.n # effect.n

\* The answer: the bytes, or no document for this user any more, or no answer at all.
Fetched(f) ==
  /\ f \in fetches /\ fetches' = fetches \ {f}
  /\ \/ /\ f.doc \in stored /\ ~Cancelled(f)
        /\ live' = live \union {f}
        /\ effect' = [effect EXCEPT !.url = TRUE]
        /\ viewState' = [status |-> "ready", url |-> f.n]
     \/ ~Cancelled(f) /\ viewState' = Failed /\ UNCHANGED <<effect, live>>
     \/ Cancelled(f) /\ UNCHANGED <<viewState, effect, live>>
  /\ UNCHANGED <<stored, viewTarget, views>>

\* The browser cannot show the image.
ImageFails ==
  /\ viewTarget # NoDocument /\ viewState.status = "ready"
  /\ viewState' = Failed
  /\ UNCHANGED <<stored, viewTarget, effect, fetches, live, views>>

\* Deleted: by another tab, or by the panel's own call, which the user's Escape left
\* running.  Its answer would close the dialog of that document, but it compares with
\* the dialog of the moment of the click, when there was none.
DocumentGone(d) ==
  /\ d \in stored /\ stored' = stored \ {d}
  /\ UNCHANGED <<viewTarget, viewState, effect, fetches, live, views>>

\* The page is left: only the cleanup runs.
LeavePage ==
  /\ Settled
  /\ live' = {u \in live : ~(effect.url /\ u.n = effect.n)}
  /\ viewTarget' = NoDocument /\ effect' = NoEffect /\ viewState' = Loading
  /\ UNCHANGED <<stored, fetches, views>>

ViewInit ==
  /\ stored = Documents /\ viewTarget = NoDocument /\ viewState = Loading
  /\ effect = NoEffect /\ fetches = {} /\ live = {} /\ views = 0

ViewNext ==
  \/ \E d \in Documents : OpenView(d) \/ DocumentGone(d)
  \/ CloseView \/ RunEffect \/ ImageFails \/ LeavePage
  \/ \E f \in fetches : Fetched(f)

ViewSpec == ViewInit /\ [][ViewNext]_viewVars

-----------------------------------------------------------------------------
\* The open dialog shows its own document, from a URL that was not revoked, and no other
\* URL is alive once the effects ran: however fast dialogs are closed and opened, and in
\* whatever order their fetches are answered.
ViewShowsItsTarget ==
  /\ viewTarget # NoDocument /\ viewState.status = "ready" =>
       \E u \in live : u.n = viewState.url /\ u.doc = viewTarget
  /\ \A u \in live : effect.url /\ u.n = effect.n

ViewTypeOK ==
  /\ stored \subseteq Documents /\ viewTarget \in Documents \union {NoDocument}
  /\ viewState.status \in {"loading", "ready", "error"}
  /\ fetches \subseteq [n : 1..MaxViews, doc : Documents] /\ live \subseteq [n : 1..MaxViews, doc : Documents]
  /\ views \in 0..MaxViews

-----------------------------------------------------------------------------
(* The inductive invariant, proved in ClientPagesProofs.                   *)

\* Every fetch is of a run of the effect of its own.  A URL is alive only while the effect
\* that made it has not been cleaned up; a dialog just opened finds none.
Fetch == [n : Nat, doc : Documents]
ViewInv ==
  /\ ViewTypeOK
  /\ viewState \in [status : {"loading", "ready", "error"}, url : Nat]
  /\ effect.n \in Nat /\ effect.doc \in Documents \union {NoDocument} /\ effect.url \in BOOLEAN
  /\ effect = [n |-> effect.n, doc |-> effect.doc, url |-> effect.url]
  /\ effect.n <= views /\ (effect.n = 0 <=> effect.doc = NoDocument)
  /\ effect.doc = NoDocument => ~effect.url
  /\ live = IF effect.url THEN {[n |-> effect.n, doc |-> effect.doc]} ELSE {}
  /\ \A f \in fetches : /\ f.n <= views
                        /\ f.n = effect.n => f.doc = effect.doc /\ ~effect.url
                        /\ ~Settled /\ viewTarget # NoDocument => f.n < views
  /\ ~Settled => effect.doc = NoDocument \/ viewTarget = NoDocument
  /\ ~Settled /\ viewTarget # NoDocument => viewState = Loading /\ views > 0
  /\ viewTarget # NoDocument /\ viewState.status = "ready" =>
       Settled /\ effect.url /\ viewState.url = effect.n
=============================================================================
