----------------------------- MODULE UsersPage ------------------------------
(***************************************************************************)
(* The administrator's list of accounts.  Its buttons are not disabled     *)
(* while a call runs: each click sends what the row of the last render     *)
(* asks for, and a double click sends the same twice.                      *)
(***************************************************************************)
EXTENDS Integers, Sequences

CONSTANTS Accounts, MaxToggles \* bound: clicks

ASSUME UsersPageAssumption == MaxToggles \in Nat

VARIABLES
  banned,   \* accounts that are disabled
  rowsShown,\* as the last render shows them
  toggles,  \* calls under way: [user, disabled]
  wanted,   \* history: what the last click on an account asked for, if all went well since
  clicked   \* counter

usersVars == <<banned, rowsShown, toggles, wanted, clicked>>

\* Mutant: the call flips what the server has.
Flipped(c) == ~banned[c.user]

Asked(c) == c.disabled

\* onToggleDisabled
Toggle(u) ==
  /\ clicked < MaxToggles /\ clicked' = clicked + 1
  /\ toggles' = Append(toggles, [user |-> u, disabled |-> ~rowsShown[u]])
  /\ wanted' = [wanted EXCEPT ![u] = {~rowsShown[u]}]
  /\ UNCHANGED <<banned, rowsShown>>

\* setAccountDisabledAction: only an administrator, and no write during a restore; its
\* answer brings the list with it.
Toggled ==
  /\ toggles # <<>> /\ toggles' = Tail(toggles)
  /\ LET c == Head(toggles) IN
     \/ /\ banned' = [banned EXCEPT ![c.user] = Asked(c)]
        /\ rowsShown' = banned' /\ UNCHANGED wanted
     \/ wanted' = [wanted EXCEPT ![c.user] = BOOLEAN] /\ UNCHANGED <<banned, rowsShown>>
  /\ UNCHANGED clicked

UsersInit ==
  /\ banned \in [Accounts -> BOOLEAN] /\ rowsShown = banned /\ toggles = <<>>
  /\ wanted = [u \in Accounts |-> BOOLEAN] /\ clicked = 0

UsersNext == Toggled \/ \E u \in Accounts : Toggle(u)

UsersSpec == UsersInit /\ [][UsersNext]_usersVars

\* A double click does not take itself back: when every call is answered, an account is
\* as the last click on it asked, and the list shows it so.
LastClickWins ==
  toggles = <<>> => rowsShown = banned /\ \A u \in Accounts : banned[u] \in wanted[u]

-----------------------------------------------------------------------------
(* The inductive invariant, proved in ClientPagesProofs.                   *)

\* Accounts: what the list shows is what is so, and the last click on an account is in
\* the last call for it, or was answered.
ClicksInv ==
  /\ banned \in [Accounts -> BOOLEAN] /\ rowsShown = banned
  /\ toggles \in Seq([user : Accounts, disabled : BOOLEAN])
  /\ wanted \in [Accounts -> SUBSET BOOLEAN]
  /\ \A u \in Accounts :
       (\A i \in 1 .. Len(toggles) : toggles[i].user # u) => banned[u] \in wanted[u]
  /\ \A i \in 1 .. Len(toggles) :
       (\A j \in 1 .. Len(toggles) : j > i => toggles[j].user # toggles[i].user) =>
         toggles[i].disabled \in wanted[toggles[i].user]
=============================================================================
