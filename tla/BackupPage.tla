----------------------------- MODULE BackupPage -----------------------------
(***************************************************************************)
(* The administrator's backup page and the two routes it calls: the        *)
(* restore panel (one request with the whole bundle, no progress, one      *)
(* answer) and the export panel (a form whose download tells nothing).     *)
(* What a restore does is in module Restore; here it is its outcome.       *)
(***************************************************************************)
EXTENDS Integers, FiniteSets

CONSTANTS MaxRequests, MaxVisits \* bounds: restores sent, times the page is opened

ASSUME BackupPageAssumption == MaxRequests \in Nat /\ MaxVisits \in Nat \ {0}

Refusals == {"refused_not_empty", "wrong_password_or_tampered", "version_mismatch", "rolled_back"}
Outcomes == Refusals \union {"ok"}
Copy == Outcomes \union {"client_error"}

VARIABLES
  empty,       \* the instance has no inventory
  visit, here, \* the page was opened so often; it is on the screen
  chosen,      \* [file, password]: a file is chosen, a password typed
  phase,       \* "idle", "verifying", "applying"
  timer4,      \* the timer that turns "verifying" into "applying" is armed
  outcome,     \* of the last answer, or "none"
  dialog,      \* the force-replace dialog is open
  phrase,      \* its input holds the phrase
  typed,       \* history: the phrase was typed since the dialog was opened
  requests,    \* restores under way: [visit, force, typed, n, password, refused]
  sent,        \* counter
  leaving,     \* a restore succeeded: the session is signed out, then the browser goes
  status,      \* of the export: "idle", "pending", "started"
  ready,       \* its passwords match, are long enough, and the warning is acknowledged
  exports      \* history: exports this view has submitted

backupVars == <<empty, visit, here, chosen, phase, timer4, outcome, dialog, phrase, typed,
                requests, sent, leaving, status, ready, exports>>
restorePart == <<chosen, phase, timer4, outcome, dialog, phrase, typed, requests, sent, leaving>>
exportPart == <<status, ready, exports>>

-----------------------------------------------------------------------------
(* Restore.                                                                *)

Restoring == phase # "idle"
Covered == dialog

\* The fields are disabled while it runs; what is put into them, or taken out again, does
\* not clear the outcome.
FillRestore(file, password) ==
  /\ here /\ ~Covered /\ ~Restoring
  /\ chosen' = [file |-> file, password |-> password] /\ chosen' # chosen
  /\ UNCHANGED <<empty, visit, here, phase, timer4, outcome, dialog, phrase, typed, requests,
                 sent, leaving, exportPart>>

\* Nothing is sent without a file; only the Restore button waits for a password.
runRestore(force) ==
  /\ chosen.file /\ sent < MaxRequests
  /\ sent' = sent + 1
  /\ outcome' = "none" /\ phase' = "verifying" /\ timer4' = TRUE
  /\ requests' = requests \union
       {[visit |-> visit, force |-> force, typed |-> typed, n |-> sent + 1,
         password |-> chosen.password, refused |-> outcome = "refused_not_empty"]}
  /\ UNCHANGED <<empty, visit, here, chosen, dialog, phrase, typed, leaving, exportPart>>

SubmitRestore == here /\ ~Covered /\ chosen.password /\ ~Restoring /\ runRestore(FALSE)

\* The timer fires.
AssumeApplying ==
  /\ timer4 /\ timer4' = FALSE /\ phase' = "applying"
  /\ UNCHANGED <<empty, visit, here, chosen, outcome, dialog, phrase, typed, requests, sent,
                 leaving, exportPart>>

\* Mutant: the dialog opens with what was typed last time.
PhraseKept == phrase

PhraseReset == FALSE

\* "Force replace..." is offered for a refusal only.
OpenForce ==
  /\ here /\ ~Covered /\ outcome = "refused_not_empty" /\ ~Restoring
  /\ dialog' = TRUE /\ phrase' = PhraseReset /\ typed' = FALSE
  /\ UNCHANGED <<empty, visit, here, chosen, phase, timer4, outcome, requests, sent, leaving,
                 exportPart>>

TypePhrase(p) ==
  /\ here /\ dialog /\ ~Restoring /\ phrase # p
  /\ phrase' = p /\ typed' = p
  /\ UNCHANGED <<empty, visit, here, chosen, phase, timer4, outcome, dialog, requests, sent,
                 leaving, exportPart>>

ConfirmForce == here /\ dialog /\ phrase /\ ~Restoring /\ runRestore(TRUE)

\* Also while the restore runs: only the dialog closes.
CancelForce ==
  /\ here /\ dialog /\ dialog' = FALSE
  /\ UNCHANGED <<empty, visit, here, chosen, phase, timer4, outcome, phrase, typed, requests,
                 sent, leaving, exportPart>>

\* The route: what restore() may say, or an outcome the panel does not know (a bad
\* request, such as one without a password, an unexpected failure), or no answer.  Only
\* an unforced restore of a filled instance is refused as not empty; only a forced one
\* is rolled back.
Possible(r) ==
  IF ~r.password THEN {"client_error"} ELSE
  {o \in Copy : /\ o = "refused_not_empty" => ~r.force /\ ~empty
                /\ o = "ok" => r.force \/ empty
                /\ o = "rolled_back" => r.force}

\* Mutant: the timer is left running.
TimerLeft == timer4

TimerCleared == FALSE

\* The answer, to a panel that may be gone.
RestoreAnswered(r) ==
  /\ r \in requests /\ requests' = requests \ {r}
  /\ LET mine == here /\ r.visit = visit IN
     \E o \in Possible(r) :
       /\ empty' \in IF o = "ok" THEN BOOLEAN ELSE {empty}
       /\ leaving' = (leaving \/ o = "ok")
       /\ IF mine THEN /\ phase' = "idle" /\ dialog' = FALSE /\ timer4' = TimerCleared
                       /\ outcome' = IF o = "ok" THEN outcome ELSE o
                  ELSE UNCHANGED <<phase, dialog, timer4, outcome>>
  /\ UNCHANGED <<visit, here, chosen, phrase, typed, sent, exportPart>>

-----------------------------------------------------------------------------
(* Export.                                                                 *)

Prepare(r) ==
  /\ here /\ ~Covered /\ ready # r /\ ready' = r
  /\ UNCHANGED <<empty, visit, here, restorePart, status, exports>>

\* Mutant: only the pending export disables the button.
CanExportPending == ready /\ status # "pending"

CanExport == ready /\ status = "idle"

SubmitExport ==
  /\ here /\ ~Covered /\ CanExport
  /\ status' = "pending" /\ exports' = exports + 1
  /\ UNCHANGED <<empty, visit, here, restorePart, ready>>

AssumeStarted ==
  /\ here /\ status = "pending" /\ status' = "started"
  /\ UNCHANGED <<empty, visit, here, restorePart, ready, exports>>

-----------------------------------------------------------------------------
NothingChosen == [file |-> FALSE, password |-> FALSE]
Fresh ==
  /\ chosen' = NothingChosen /\ phase' = "idle" /\ timer4' = FALSE /\ outcome' = "none"
  /\ dialog' = FALSE /\ phrase' = FALSE /\ typed' = FALSE
  /\ status' = "idle" /\ ready' = FALSE /\ exports' = 0

\* The page is left: its timer is cleared, its request goes on.
LeaveBackup == here /\ here' = FALSE /\ Fresh /\ UNCHANGED <<empty, visit, requests, sent, leaving>>

OpenBackup ==
  /\ ~here /\ visit < MaxVisits /\ visit' = visit + 1 /\ here' = TRUE
  /\ Fresh /\ UNCHANGED <<empty, requests, sent, leaving>>

\* Signed out or not, the browser loads the login page.
Redirect ==
  /\ leaving /\ leaving' = FALSE /\ here' = FALSE
  /\ Fresh /\ UNCHANGED <<empty, visit, requests, sent>>

BackupInit ==
  /\ empty \in BOOLEAN /\ visit = 1 /\ here = TRUE /\ chosen = NothingChosen
  /\ phase = "idle" /\ timer4 = FALSE /\ outcome = "none" /\ dialog = FALSE
  /\ phrase = FALSE /\ typed = FALSE /\ requests = {} /\ sent = 0 /\ leaving = FALSE
  /\ status = "idle" /\ ready = FALSE /\ exports = 0

BackupNext ==
  \/ \E file, password \in BOOLEAN : FillRestore(file, password)
  \/ \E b \in BOOLEAN : TypePhrase(b) \/ Prepare(b)
  \/ SubmitRestore \/ AssumeApplying \/ OpenForce \/ ConfirmForce \/ CancelForce
  \/ \E r \in requests : RestoreAnswered(r)
  \/ SubmitExport \/ AssumeStarted \/ LeaveBackup \/ OpenBackup \/ Redirect

BackupSpec == BackupInit /\ [][BackupNext]_backupVars

-----------------------------------------------------------------------------
\* Every forced restore was asked for on purpose: the phrase typed in the dialog that
\* sent it, which an answer "not empty" of this visit had offered.
ForceIsTypedAnew == \A r \in requests : r.force => r.typed /\ r.refused

\* The panel says that a restore runs exactly while its request does, it never runs two
\* from one view, and a view exports once: a timer that fires late, a closed dialog or a
\* page left in between change nothing.
PanelsTellTheTruth ==
  /\ here => (Restoring <=> \E r \in requests : r.visit = visit)
  /\ timer4 => phase = "verifying"
  /\ \A r, s \in requests : r.visit = s.visit => r = s
  /\ exports <= 1

BackupTypeOK ==
  /\ chosen \in [file : BOOLEAN, password : BOOLEAN]
  /\ phase \in {"idle", "verifying", "applying"} /\ outcome \in (Copy \ {"ok"}) \union {"none"}
  /\ dialog \in BOOLEAN /\ phrase \in BOOLEAN /\ sent \in 0..MaxRequests /\ visit \in 1..MaxVisits
  /\ Cardinality(requests) <= MaxRequests /\ status \in {"idle", "pending", "started"}

-----------------------------------------------------------------------------
(* The inductive invariant, proved in ClientPagesProofs.                   *)

\* The backup page.  A request belongs to a visit; while its visit lasts, the panel says
\* that it runs.  The dialog is open after a refusal, and while a restore it sent runs.
RestoreRequest ==
  [visit : Nat, force : BOOLEAN, typed : BOOLEAN, n : Nat, password : BOOLEAN, refused : BOOLEAN]
BackupInv ==
  /\ BackupTypeOK
  /\ here \in BOOLEAN /\ typed \in BOOLEAN /\ timer4 \in BOOLEAN
  /\ requests \subseteq RestoreRequest /\ IsFiniteSet(requests) /\ Cardinality(requests) <= sent
  /\ \A r \in requests : r.visit <= visit
  /\ ForceIsTypedAnew /\ PanelsTellTheTruth
  /\ ~here => phase = "idle" /\ ~timer4
  /\ dialog /\ ~Restoring => outcome = "refused_not_empty"
  /\ dialog /\ phrase => typed
  /\ exports = IF status = "idle" THEN 0 ELSE 1
=============================================================================
