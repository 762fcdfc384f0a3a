---------------------------- MODULE SettingsPage ----------------------------
(***************************************************************************)
(* The Magpul mode switch: it moves at once, is disabled while the call    *)
(* runs, and moves back when the call fails.  A refresh does not move it.  *)
(***************************************************************************)
EXTENDS Integers

CONSTANT MaxSwitches \* bound: the user's steps

ASSUME SettingsPageAssumption == MaxSwitches \in Nat

VARIABLES
  preference,     \* the preference of the account
  initial,    \* as the page was rendered
  switch,     \* as shown
  saving,     \* a call is under way
  settingError,
  elsewhere,  \* history: written by another tab, or by a call whose answer was lost
  switches    \* counter

settingsVars == <<preference, initial, switch, saving, settingError, elsewhere, switches>>

\* handleToggle
SwitchOver ==
  /\ ~saving /\ switches < MaxSwitches /\ switches' = switches + 1
  /\ switch' = ~switch /\ settingError' = FALSE /\ saving' = TRUE
  /\ UNCHANGED <<preference, initial, elsewhere>>

\* Mutant: back to what the page was rendered with.
RolledBackToInitial == initial

RolledBack == ~switch

\* updateMagpulModeAction: refused during a restore or without an account; an answer that
\* does not come is a failure too.
Saved ==
  /\ saving /\ saving' = FALSE
  /\ \/ /\ preference' = switch
        /\ UNCHANGED <<switch, settingError, elsewhere>>
     \/ /\ switch' = RolledBack /\ settingError' = TRUE
        /\ \/ UNCHANGED <<preference, elsewhere>>
           \/ preference' = switch /\ elsewhere' = TRUE
  /\ UNCHANGED <<initial, switches>>

OtherTab ==
  /\ ~elsewhere /\ elsewhere' = TRUE /\ preference' = ~preference
  /\ UNCHANGED <<initial, switch, saving, settingError, switches>>

\* The page is opened again, when its call was answered.
OpenSettings ==
  /\ ~saving /\ switches < MaxSwitches /\ switches' = switches + 1
  /\ initial' = preference /\ switch' = preference /\ settingError' = FALSE /\ elsewhere' = FALSE
  /\ UNCHANGED <<preference, saving>>

SettingsInit ==
  /\ preference \in BOOLEAN /\ initial = preference /\ switch = preference
  /\ saving = FALSE /\ settingError = FALSE /\ elsewhere = FALSE /\ switches = 0

SettingsNext == SwitchOver \/ Saved \/ OtherTab \/ OpenSettings

SettingsSpec == SettingsInit /\ [][SettingsNext]_settingsVars

\* The optimistic switch is never left showing what was not saved: with no call under way
\* it shows the stored preference, unless somebody else wrote it meanwhile.
SwitchIsTrue == ~saving /\ ~elsewhere => switch = preference

-----------------------------------------------------------------------------
(* The inductive invariant, proved in ClientPagesProofs.                   *)

\* The switch: one value, or the call under way makes it so.
SwitchInv ==
  /\ preference \in BOOLEAN /\ switch \in BOOLEAN
  /\ ~elsewhere /\ saving => switch = ~preference
  /\ ~elsewhere /\ ~saving => switch = preference
=============================================================================
