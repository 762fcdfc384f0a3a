----------------------------- MODULE ClientPages -----------------------------
(***************************************************************************)
(* The pages of the browser, one on the screen at a time.  They share no   *)
(* state but the server's, which each of them models as what it may answer;*)
(* so one behaviour opens one page and leaves the others as they are.      *)
(***************************************************************************)
EXTENDS ListView, ItemPanels, ItemPage, DocumentView, SharePanel, BackupPage, UsersPage,
        BacklogPage, SettingsPage

CONSTANT Screens \* the pages to look at

ASSUME ClientPagesAssumption ==
  Screens \subseteq {"list", "panel", "item", "view", "share", "backup", "users",
                "backlog", "settings"}

VARIABLE screen

summaryPages == <<backlogVars, settingsVars>>
vars == <<screen, listVars, panelVars, itemVars, viewVars, shareVars, backupVars, usersVars,
          summaryPages>>

\* A page that is not on the screen.
ListIdle == ListInit /\ list = (CHOOSE l \in Lists : TRUE) /\ items = {} /\ store = None
PanelIdle == PanelInit /\ panel = (CHOOSE p \in Panels : TRUE) /\ server.rows = {}
ItemIdle == ItemInit /\ formKind = (CHOOSE k \in FormKinds : TRUE) /\ ~detail /\ ~magpulMode
ShareIdle == ShareInit /\ granted = {}
BackupIdle == BackupInit /\ empty
UsersIdle == UsersInit /\ banned = [u \in Accounts |-> FALSE]
BacklogIdle == BacklogInit /\ due = {}
SettingsIdle == SettingsInit /\ ~preference

Init ==
  /\ screen \in Screens
  /\ IF screen = "list" THEN ListInit ELSE ListIdle
  /\ IF screen = "panel" THEN PanelInit ELSE PanelIdle
  /\ IF screen = "item" THEN ItemInit ELSE ItemIdle
  /\ ViewInit
  /\ IF screen = "share" THEN ShareInit ELSE ShareIdle
  /\ IF screen = "backup" THEN BackupInit ELSE BackupIdle
  /\ IF screen = "users" THEN UsersInit ELSE UsersIdle
  /\ IF screen = "backlog" THEN BacklogInit ELSE BacklogIdle
  /\ IF screen = "settings" THEN SettingsInit ELSE SettingsIdle

OnList ==
  /\ screen = "list" /\ ListNext
  /\ UNCHANGED <<screen, panelVars, itemVars, viewVars, shareVars, backupVars, usersVars,
                 summaryPages>>
OnPanel ==
  /\ screen = "panel" /\ PanelNext
  /\ UNCHANGED <<screen, listVars, itemVars, viewVars, shareVars, backupVars, usersVars,
                 summaryPages>>
OnItem ==
  /\ screen = "item" /\ ItemNext
  /\ UNCHANGED <<screen, listVars, panelVars, viewVars, shareVars, backupVars, usersVars,
                 summaryPages>>
OnView ==
  /\ screen = "view" /\ ViewNext
  /\ UNCHANGED <<screen, listVars, panelVars, itemVars, shareVars, backupVars, usersVars,
                 summaryPages>>
OnShare ==
  /\ screen = "share" /\ ShareNext
  /\ UNCHANGED <<screen, listVars, panelVars, itemVars, viewVars, backupVars, usersVars,
                 summaryPages>>
OnBackup ==
  /\ screen = "backup" /\ BackupNext
  /\ UNCHANGED <<screen, listVars, panelVars, itemVars, viewVars, shareVars, usersVars,
                 summaryPages>>
OnUsers ==
  /\ screen = "users" /\ UsersNext
  /\ UNCHANGED <<screen, listVars, panelVars, itemVars, viewVars, shareVars, backupVars,
                 summaryPages>>
OnBacklog ==
  /\ screen = "backlog" /\ BacklogNext
  /\ UNCHANGED <<screen, listVars, panelVars, itemVars, viewVars, shareVars, backupVars,
                 usersVars, settingsVars>>
OnSettings ==
  /\ screen = "settings" /\ SettingsNext
  /\ UNCHANGED <<screen, listVars, panelVars, itemVars, viewVars, shareVars, backupVars,
                 usersVars, backlogVars>>

Next ==
  \/ OnList \/ OnPanel \/ OnItem \/ OnView \/ OnShare \/ OnBackup \/ OnUsers
  \/ OnBacklog \/ OnSettings

Spec == Init /\ [][Next]_vars

-----------------------------------------------------------------------------
\* What the user opened, ticked or switched is what he has before him: a dialog shows what
\* it was opened for and closes one layer at a time, a checklist holds his own ticks, and a
\* switch shows what was saved.
DialogsAreTrue ==
  /\ ViewTypeOK /\ ShareTypeOK /\ BacklogTypeOK
  /\ ViewShowsItsTarget /\ EscapeClosesOneLayer /\ ChecksAreTheUsers /\ SwitchIsTrue

\* The operator's pages: no forced restore by accident, no panel that says something
\* else than its request does, no account left as an earlier click wanted it.
AdminPagesAreTrue ==
  /\ BackupTypeOK
  /\ ForceIsTypedAnew /\ PanelsTellTheTruth /\ LastClickWins

\* An answer takes nothing away that belongs to somebody else: not the caption being
\* typed, not the confirmation whose call was refused.
AnswersTakeOnlyTheirOwn == CaptionDraftStands /\ RefusalIsShown
=============================================================================
