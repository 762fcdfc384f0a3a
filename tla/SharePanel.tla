----------------------------- MODULE SharePanel -----------------------------
(***************************************************************************)
(* The Share dialog of an item, and the confirmation of a revocation inside *)
(* it: two components, each with its own state.  The dialog listens for    *)
(* Escape as the confirmation does, and must know whether that one is open.*)
(* Calls of the page are answered in order; a revocation is awaited by the *)
(* confirmation, its outcome kept in `revoking`.                           *)
(***************************************************************************)
EXTENDS Integers, Sequences

CONSTANTS Users, NoUser, MaxShares \* bound: calls the user makes

ASSUME SharePanelAssumption == NoUser \notin Users /\ MaxShares \in Nat

VARIABLES
  granted,     \* the users the server has a grant for
  open,        \* the dialog is open
  state,       \* the grants it loaded; kept when it closes
  granteeId,   \* the user picked in the form
  error,       \* it shows an error
  confirming,  \* the grant whose revocation is to be confirmed (the inner component)
  confirmOpen, \* what the dialog knows of it
  revoking,    \* a revocation is under way
  shareQueue,  \* calls under way: [kind, user, asker]
  opens, shares \* counters

shareVars == <<granted, open, state, granteeId, error, confirming, confirmOpen, revoking,
               shareQueue, opens, shares>>

SharePending == \E i \in DOMAIN shareQueue : shareQueue[i].kind \in {"load", "share"}
ShareCall(kind, user) == [kind |-> kind, user |-> user, asker |-> opens]
Reload == <<ShareCall("load", NoUser)>>

\* The list of grants is a component of its own; it is gone when the dialog is closed.
\* With no grant left it shows no confirmation, but keeps its state.
ConfirmShown == open /\ confirming # NoUser /\ state # {}

OpenShare ==
  /\ ~open /\ shares < MaxShares
  /\ shares' = shares + 1 /\ opens' = opens + 1
  /\ open' = TRUE /\ error' = FALSE
  /\ shareQueue' = Append(shareQueue, [kind |-> "load", user |-> NoUser, asker |-> opens + 1])
  /\ UNCHANGED <<granted, state, granteeId, confirming, confirmOpen, revoking>>

CloseShare ==
  /\ open' = FALSE /\ confirming' = NoUser
  /\ UNCHANGED <<granted, state, granteeId, error, confirmOpen, revoking, shareQueue, opens, shares>>

Done == open /\ ~ConfirmShown /\ CloseShare

Pick(u) ==
  /\ open /\ ~ConfirmShown /\ granteeId # u
  /\ granteeId' = u
  /\ UNCHANGED <<granted, open, state, error, confirming, confirmOpen, revoking, shareQueue, opens, shares>>

onShare ==
  /\ open /\ ~ConfirmShown /\ granteeId # NoUser /\ ~SharePending /\ shares < MaxShares
  /\ shares' = shares + 1
  /\ shareQueue' = Append(shareQueue, ShareCall("share", granteeId))
  /\ UNCHANGED <<granted, open, state, granteeId, error, confirming, confirmOpen, revoking, opens>>

\* Mutant: only the inner component forgets the grant.
ConfirmedAlone(u) == confirming' = u /\ UNCHANGED confirmOpen

\* requestConfirm: both components.
RequestConfirm(u) == confirming' = u /\ confirmOpen' = (u # NoUser)

AskRevoke(u) ==
  /\ open /\ ~ConfirmShown /\ u \in state /\ ~SharePending /\ ~revoking
  /\ RequestConfirm(u)
  /\ UNCHANGED <<granted, open, state, granteeId, error, revoking, shareQueue, opens, shares>>

\* Cancel and a click beside the confirmation, also while the revocation runs.
KeepGrant ==
  /\ ConfirmShown /\ RequestConfirm(NoUser)
  /\ UNCHANGED <<granted, open, state, granteeId, error, revoking, shareQueue, opens, shares>>

\* Both listeners run: the confirmation's cancels it, the dialog's closes the dialog
\* unless it knew of a confirmation.
Escape ==
  /\ open
  /\ IF confirmOpen
     THEN IF ConfirmShown THEN KeepGrant ELSE UNCHANGED shareVars
     ELSE CloseShare

onRevoke ==
  /\ ConfirmShown /\ ~SharePending /\ ~revoking /\ shares < MaxShares
  /\ shares' = shares + 1 /\ revoking' = TRUE
  /\ shareQueue' = Append(shareQueue, ShareCall("revoke", confirming))
  /\ UNCHANGED <<granted, open, state, granteeId, error, confirming, confirmOpen, opens>>

\* Mutant: a revocation that failed closes the confirmation too.
DismissesAlways(ok) == TRUE

Dismisses(ok) == ok

\* The first call is done and answered.  A list of grants that is gone changes nothing,
\* but tells the dialog that its confirmation is closed.
Replied ==
  /\ shareQueue # <<>>
  /\ LET c == Head(shareQueue)
         rest == Tail(shareQueue)
         here == open /\ c.asker = opens IN
     \E ok \in BOOLEAN :
       \/ /\ c.kind = "load" /\ shareQueue' = rest
          /\ state' = IF ok THEN granted ELSE state
          /\ error' = (error \/ ~ok)
          /\ UNCHANGED <<granted, granteeId, confirming, confirmOpen, revoking>>
       \/ /\ c.kind = "share"
          /\ granted' = IF ok THEN granted \union {c.user} ELSE granted
          /\ granteeId' = IF ok THEN NoUser ELSE granteeId
          /\ shareQueue' = IF ok THEN rest \o Reload ELSE rest
          /\ error' = (error \/ ~ok)
          /\ UNCHANGED <<state, confirming, confirmOpen, revoking>>
       \/ /\ c.kind = "revoke" /\ revoking' = FALSE
          /\ granted' = IF ok THEN granted \ {c.user} ELSE granted
          /\ shareQueue' = IF ok THEN rest \o Reload ELSE rest
          /\ error' = (error \/ ~ok)
          /\ confirming' = IF Dismisses(ok) /\ here THEN NoUser ELSE confirming
          /\ confirmOpen' = IF Dismisses(ok) THEN FALSE ELSE confirmOpen
          /\ UNCHANGED <<state, granteeId>>
  /\ UNCHANGED <<open, opens, shares>>

ShareInit ==
  /\ granted \in SUBSET Users /\ open = FALSE /\ state = {} /\ granteeId = NoUser
  /\ error = FALSE /\ confirming = NoUser /\ confirmOpen = FALSE /\ revoking = FALSE
  /\ shareQueue = <<>> /\ opens = 0 /\ shares = 0

ShareNext ==
  \/ OpenShare \/ Done \/ onShare \/ KeepGrant \/ Escape \/ onRevoke \/ Replied
  \/ \E u \in Users : Pick(u) \/ AskRevoke(u)

ShareSpec == ShareInit /\ [][ShareNext]_shareVars

-----------------------------------------------------------------------------
\* Escape always closes one layer: the dialog listens exactly while no confirmation is
\* on the screen.  It is never deaf, and never closes under an open confirmation.
EscapeClosesOneLayer == open => (confirmOpen <=> ConfirmShown)

\* A refused revocation stays in front of the user who asked for it.
RefusalIsShown ==
  [][ revoking /\ ~revoking' /\ Len(shareQueue') < Len(shareQueue) =>
        open' = open /\ confirming' = confirming ]_shareVars

ShareTypeOK ==
  /\ granted \subseteq Users /\ state \subseteq Users
  /\ confirming \in Users \union {NoUser} /\ granteeId \in Users \union {NoUser}
  /\ open \in BOOLEAN /\ confirmOpen \in BOOLEAN /\ revoking \in BOOLEAN

-----------------------------------------------------------------------------
(* The inductive invariant, proved in ClientPagesProofs.                   *)

\* While a grant is to be confirmed the dialog is open on a list of grants, and nothing
\* is under way but its own revocation: no list can arrive that takes it off the screen.
ShareRequest == [kind : {"load", "share", "revoke"}, user : Users \union {NoUser}, asker : Nat]
ShareInv ==
  /\ ShareTypeOK /\ opens \in Nat /\ shareQueue \in Seq(ShareRequest)
  /\ confirmOpen <=> confirming # NoUser
  /\ confirming # NoUser => open /\ state # {}
  /\ \A i \in DOMAIN shareQueue :
       /\ confirming # NoUser => shareQueue[i].kind = "revoke" /\ shareQueue[i].asker = opens
       /\ shareQueue[i].kind = "revoke" => revoking
       /\ shareQueue[i].kind # "load" => shareQueue[i].user \in Users
       /\ \A j \in DOMAIN shareQueue :
            shareQueue[i].kind = "revoke" /\ shareQueue[j].kind = "revoke" => i = j
=============================================================================
