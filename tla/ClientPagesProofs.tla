-------------------------- MODULE ClientPagesProofs -------------------------
(***************************************************************************)
(* The proofs about the pages of the browser (ClientPages): one inductive  *)
(* invariant per page, stated at the end of the module of the page, and    *)
(* with them everything the runs check of the pages, for any items, rows,  *)
(* users, accounts and documents and any bounds.                           *)
(*                                                                         *)
(* A step of the screen is a step of one page and a stutter of the others  *)
(* (EachPageSteps), so the invariants are proved page by page.  Within a   *)
(* page a lemma says what a kind of step leaves alone (a call is sent, a   *)
(* first call is answered, a view is rendered); the lemma of an action then*)
(* only says which kind it is.                                             *)
(***************************************************************************)
EXTENDS ClientPages, SequenceTheorems, FiniteSetTheorems, TLAPS

-----------------------------------------------------------------------------
(* The settings, the users, and the backlog of the service rules.          *)

\* The switch shows what is stored or what is being saved (SettingsPage).
LEMMA SwitchIsKept ==
  (SettingsInit => SwitchInv) /\ (SwitchInv /\ [SettingsNext]_settingsVars => SwitchInv')
<1>1. SettingsInit => SwitchInv
  BY DEF SettingsInit, SwitchInv
<1>2. ASSUME SwitchInv, SwitchOver PROVE SwitchInv'
  <2>1. ~saving /\ saving' = TRUE /\ switch' = ~switch /\ preference' = preference
        /\ elsewhere' = elsewhere
    BY <1>2 DEF SwitchOver
  <2>2. switch' \in BOOLEAN /\ preference' \in BOOLEAN
    BY <1>2, <2>1 DEF SwitchInv
  <2> QED BY <1>2, <2>1, <2>2 DEF SwitchInv
<1>3. SwitchInv /\ Saved => SwitchInv'
  BY Zenon DEF SwitchInv, Saved, RolledBack
<1>4. SwitchInv /\ OtherTab => SwitchInv'
  BY Zenon DEF SwitchInv, OtherTab
<1>5. ASSUME SwitchInv, OpenSettings PROVE SwitchInv'
  <2>1. ~saving /\ saving' = saving /\ switch' = preference /\ preference' = preference
    BY <1>5 DEF OpenSettings
  <2> QED BY <1>5, <2>1 DEF SwitchInv
<1>6. ASSUME SwitchInv, UNCHANGED settingsVars PROVE SwitchInv'
  <2>1. saving' = saving /\ switch' = switch /\ preference' = preference /\ elsewhere' = elsewhere
    BY <1>6 DEF settingsVars
  <2> QED BY <1>6, <2>1 DEF SwitchInv
<1> QED BY <1>1, <1>2, <1>3, <1>4, <1>5, <1>6 DEF SettingsNext

\* Whatever the clicks on a row: its account ends as the last of them wanted it.
LEMMA ClicksAreKept ==
  (UsersInit => ClicksInv) /\ (ClicksInv /\ [UsersNext]_usersVars => ClicksInv')
<1>1. UsersInit => ClicksInv
  BY DEF UsersInit, ClicksInv
<1>2. ASSUME ClicksInv, NEW u \in Accounts, Toggle(u) PROVE ClicksInv'
  <2> DEFINE c == [user |-> u, disabled |-> ~rowsShown[u]]
             n == Len(toggles)
  <2>1. /\ toggles' = Append(toggles, c) /\ c \in [user : Accounts, disabled : BOOLEAN]
        /\ wanted' = [wanted EXCEPT ![u] = {~rowsShown[u]}] /\ banned' = banned
        /\ rowsShown' = rowsShown
    BY <1>2 DEF Toggle, ClicksInv
  <2>2. /\ toggles' \in Seq([user : Accounts, disabled : BOOLEAN]) /\ Len(toggles') = n + 1
        /\ n \in Nat
        /\ toggles'[n + 1] = c /\ \A i \in 1 .. n : toggles'[i] = toggles[i]
    BY <1>2, <2>1 DEF ClicksInv
  <2>3. wanted' \in [Accounts -> SUBSET BOOLEAN] /\ wanted'[u] = {c.disabled}
        /\ \A v \in Accounts : v # u => wanted'[v] = wanted[v]
    BY <1>2, <2>1 DEF ClicksInv
  <2>4. \A i \in 1 .. n : toggles[i].user \in Accounts
    <3>1. \A i \in 1 .. n : toggles[i] \in [user : Accounts, disabled : BOOLEAN]
      BY <1>2, ElementOfSeq DEF ClicksInv
    <3> QED BY <3>1
  <2> HIDE DEF c
  <2>5. c.user = u
    BY DEF c
  <2>6. ASSUME NEW v \in Accounts, \A i \in 1 .. Len(toggles') : toggles'[i].user # v
        PROVE  banned'[v] \in wanted'[v]
    <3>1. v # u /\ \A i \in 1 .. n : toggles[i].user # v
      BY <2>2, <2>5, <2>6
    <3> QED BY <1>2, <2>1, <2>3, <3>1 DEF ClicksInv
  <2>7. ASSUME NEW i \in 1 .. Len(toggles'),
               \A j \in 1 .. Len(toggles') : j > i => toggles'[j].user # toggles'[i].user
        PROVE  toggles'[i].disabled \in wanted'[toggles'[i].user]
    <3>1. CASE i = n + 1
      BY <2>2, <2>3, <2>5, <3>1
    <3>2. CASE i \in 1 .. n
      <4>1. toggles'[i] = toggles[i] /\ toggles[i].user # u
        BY <2>2, <2>5, <2>7, <3>2
      <4>2. \A j \in 1 .. n : j > i => toggles[j].user # toggles[i].user
        BY <2>2, <2>7, <3>2
      <4> QED BY <1>2, <2>3, <2>4, <3>2, <4>1, <4>2 DEF ClicksInv
    <3> QED BY <2>2, <3>1, <3>2
  <2> QED BY <1>2, <2>1, <2>2, <2>3, <2>6, <2>7 DEF ClicksInv
<1>3. ASSUME ClicksInv, Toggled PROVE ClicksInv'
  <2> DEFINE c == toggles[1]
             n == Len(toggles)
  <2>1. /\ toggles # <<>> /\ toggles' = Tail(toggles) /\ c \in [user : Accounts, disabled : BOOLEAN]
        /\ rowsShown' = banned'
        /\ \/ banned' = [banned EXCEPT ![c.user] = c.disabled] /\ wanted' = wanted
           \/ banned' = banned /\ wanted' = [wanted EXCEPT ![c.user] = BOOLEAN]
    <3>1. toggles # <<>> /\ toggles' = Tail(toggles) /\ c = Head(toggles)
      BY <1>3 DEF Toggled, ClicksInv
    <3>2. c \in [user : Accounts, disabled : BOOLEAN]
      <4>1. Len(toggles) \in Nat /\ Len(toggles) # 0
        BY <1>3, <3>1, LenProperties, EmptySeq DEF ClicksInv
      <4>2. 1 \in 1 .. Len(toggles)
        BY <4>1
      <4>3. toggles \in Seq([user : Accounts, disabled : BOOLEAN])
        BY <1>3 DEF ClicksInv
      <4> QED BY <4>2, <4>3, ElementOfSeq
    <3>3. rowsShown = banned
      BY <1>3 DEF ClicksInv
    <3> HIDE DEF c
    <3> QED BY <1>3, <3>1, <3>2, <3>3, Zenon DEF Toggled, Asked
  <2>2. /\ toggles' \in Seq([user : Accounts, disabled : BOOLEAN]) /\ n \in Nat /\ n >= 1
        /\ Len(toggles') = n - 1 /\ \A i \in 1 .. n - 1 : toggles'[i] = toggles[i + 1]
    BY <1>3, <2>1 DEF ClicksInv
  <2>3. \A v \in Accounts : v # c.user => banned'[v] = banned[v] /\ wanted'[v] = wanted[v]
    BY <1>3, <2>1 DEF ClicksInv
  <2>4. banned' \in [Accounts -> BOOLEAN] /\ wanted' \in [Accounts -> SUBSET BOOLEAN]
        /\ \A v \in Accounts : wanted[v] \subseteq wanted'[v]
    <3>1. c.user \in Accounts /\ c.disabled \in BOOLEAN
      BY <2>1
    <3>2. banned \in [Accounts -> BOOLEAN] /\ wanted \in [Accounts -> SUBSET BOOLEAN]
      BY <1>3 DEF ClicksInv
    <3> HIDE DEF c
    <3> QED BY <2>1, <3>1, <3>2
  <2>5. banned'[c.user] \in wanted'[c.user] \/
        (wanted' = wanted /\ banned'[c.user] = c.disabled)
    BY <1>3, <2>1 DEF ClicksInv
  <2>6. ASSUME NEW v \in Accounts, \A i \in 1 .. Len(toggles') : toggles'[i].user # v
        PROVE  banned'[v] \in wanted'[v]
    <3>1. \A i \in 2 .. n : i - 1 \in 1 .. n - 1 /\ (i - 1) + 1 = i
      BY <2>2
    <3>2. ASSUME NEW i \in 2 .. n PROVE toggles[i].user # v
      <4>1. i - 1 \in 1 .. Len(toggles') /\ toggles'[i - 1] = toggles[(i - 1) + 1]
        BY <2>2, <3>1
      <4> QED BY <2>6, <3>1, <4>1
    <3>3. CASE v = c.user
      <4>1. \A j \in 1 .. n : j > 1 => toggles[j].user # toggles[1].user
        BY <2>2, <3>2, <3>3
      <4>2. 1 \in 1 .. Len(toggles)
        BY <2>2
      <4>3. c.disabled \in wanted[c.user]
        BY <1>3, <4>1, <4>2 DEF ClicksInv
      <4> QED BY <2>5, <3>3, <4>3
    <3>4. CASE v # c.user
      <4>1. \A i \in 1 .. n : toggles[i].user # v
        BY <2>2, <3>2, <3>4
      <4> QED BY <1>3, <2>3, <3>4, <4>1 DEF ClicksInv
    <3> QED BY <3>3, <3>4
  <2>7. ASSUME NEW i \in 1 .. Len(toggles'),
               \A j \in 1 .. Len(toggles') : j > i => toggles'[j].user # toggles'[i].user
        PROVE  toggles'[i].disabled \in wanted'[toggles'[i].user]
    <3>1. i + 1 \in 1 .. n /\ toggles'[i] = toggles[i + 1]
      BY <2>2
    <3>2. ASSUME NEW j \in 1 .. n, j > i + 1 PROVE toggles[j].user # toggles[i + 1].user
      <4>1. j - 1 \in 1 .. n - 1 /\ (j - 1) + 1 = j /\ j - 1 > i
        BY <2>2, <3>2
      <4> QED BY <2>2, <2>7, <3>1, <4>1
    <3>3. toggles[i + 1].disabled \in wanted[toggles[i + 1].user]
      BY <1>3, <3>1, <3>2 DEF ClicksInv
    <3>4. toggles[i + 1] \in [user : Accounts, disabled : BOOLEAN]
      BY <1>3, <3>1, ElementOfSeq DEF ClicksInv
    <3> QED BY <2>4, <3>1, <3>3, <3>4
  <2> QED BY <2>1, <2>2, <2>4, <2>6, <2>7 DEF ClicksInv
<1>4. ClicksInv /\ UNCHANGED usersVars => ClicksInv'
  BY DEF ClicksInv, usersVars
<1> QED BY <1>1, <1>2, <1>3, <1>4 DEF UsersNext

LEMMA LastClickHolds == ClicksInv => LastClickWins
BY DEF ClicksInv, LastClickWins

\* The ticks are the user's own, and those of a refused mark come back with it.
LEMMA ChecksAreKept ==
  (BacklogInit => ChecksInv) /\ (ChecksInv /\ [BacklogNext]_backlogVars => ChecksInv')
<1>1. BacklogInit => ChecksInv
  <2> SUFFICES ASSUME BacklogInit PROVE ChecksInv
    OBVIOUS
  <2>1. markCalls = <<>>
    BY DEF BacklogInit
  <2>2. markCalls \in Seq(MarkCall) /\ Len(markCalls) = 0
    BY <2>1, EmptySeq
  <2>3. /\ selected \subseteq DueRows /\ backlog \subseteq DueRows /\ due \subseteq DueRows
        /\ refused \in BOOLEAN /\ meant = Checked
    BY DEF BacklogInit, Checked
  <2> QED BY <2>2, <2>3 DEF ChecksInv
<1>2. ASSUME ChecksInv, NEW row \in DueRows, toggleRow(row) \/ DueChanges(row) PROVE ChecksInv'
  BY <1>2 DEF ChecksInv, Checked, toggleRow, DueChanges, Ticked, UserChecks
<1>3. ASSUME ChecksInv, toggleAll PROVE ChecksInv'
  BY <1>3 DEF ChecksInv, Checked, toggleAll, UserChecks
<1>4. ASSUME ChecksInv, MarkServiced PROVE ChecksInv'
  <2>1. /\ UNCHANGED <<due, backlog, selected, meant>> /\ refused' \in BOOLEAN
        /\ \/ markCalls' = markCalls
           \/ markCalls' = Append(markCalls, [kind |-> "mark", rows |-> Checked])
        /\ \A i \in DOMAIN markCalls : markCalls[i].kind # "mark"
    BY <1>4 DEF MarkServiced, Marking
  <2>2. Checked \subseteq DueRows /\ Checked' = Checked
    BY <1>4, <2>1 DEF ChecksInv, Checked
  <2>3. CASE markCalls' = markCalls
    BY <1>4, <2>1, <2>2, <2>3 DEF ChecksInv
  <2>4. CASE markCalls' = Append(markCalls, [kind |-> "mark", rows |-> Checked])
    <3> DEFINE m == [kind |-> "mark", rows |-> Checked]
               n == Len(markCalls)
    <3>1. m \in MarkCall /\ m.kind = "mark"
      BY <2>2 DEF MarkCall
    <3>2. \A i \in 1 .. n : markCalls[i].kind \in {"mark", "refresh"}
      <4>1. \A i \in 1 .. n : markCalls[i] \in MarkCall
        BY <1>4, ElementOfSeq DEF ChecksInv
      <4> QED BY <4>1 DEF MarkCall
    <3>3. n \in Nat /\ DOMAIN markCalls = 1 .. n /\ n <= 2
      BY <1>4, LenProperties DEF ChecksInv
    <3>4. \A i \in 1 .. n : markCalls[i].kind = "refresh"
      BY <2>1, <3>2, <3>3
    <3>5. n = 2 => markCalls[2].kind = "mark"
      BY <1>4 DEF ChecksInv
    <3>6. n < 2 /\ (n = 1 => markCalls[1].kind = "refresh")
      BY <3>3, <3>4, <3>5
    <3> HIDE DEF m
    <3>7. /\ markCalls' \in Seq(MarkCall) /\ Len(markCalls') = n + 1
          /\ markCalls'[n + 1] = m /\ \A i \in 1 .. n : markCalls'[i] = markCalls[i]
      BY <1>4, <2>4, <3>1, <3>3, AppendProperties DEF ChecksInv, m
    <3>8. n = 0 \/ (n = 1 /\ markCalls'[1] = markCalls[1])
      BY <3>3, <3>6, <3>7
    <3>9. UNCHANGED <<due, backlog, selected, meant>> /\ Checked' = Checked
      BY <2>1, <2>2
    <3> QED BY <1>4, <2>1, <3>1, <3>6, <3>7, <3>8, <3>9 DEF ChecksInv
  <2> QED BY <2>1, <2>3, <2>4
<1>5. ASSUME ChecksInv, MarkAnswered PROVE ChecksInv'
  <2>1. /\ markCalls # <<>> /\ markCalls[1].kind = "mark" /\ UNCHANGED backlog
        /\ \/ /\ due' \in {due, due \ markCalls[1].rows} /\ selected' = {} /\ meant' = {}
              /\ markCalls' = Append(Tail(markCalls), [kind |-> "refresh", rows |-> {}])
              /\ UNCHANGED refused
           \/ refused' = TRUE /\ markCalls' = Tail(markCalls) /\ UNCHANGED <<due, selected, meant>>
    BY <1>5 DEF MarkAnswered, SelectionAfter
  <2>2. Tail(markCalls) = <<>>
    <3> DEFINE n == Len(markCalls)
    <3>1. n \in Nat /\ n # 0 /\ n <= 2
      BY <1>5, <2>1, LenProperties, EmptySeq DEF ChecksInv
    <3>2. n # 2
      BY <1>5, <2>1 DEF ChecksInv
    <3>3. n = 1
      <4> HIDE DEF n
      <4> QED BY <3>1, <3>2
    <3>4. Tail(markCalls) \in Seq(MarkCall) /\ Len(Tail(markCalls)) = 0
      BY <1>5, <2>1, <3>3, HeadTailProperties DEF ChecksInv
    <3> QED BY <3>4, EmptySeq
  <2>3. \/ markCalls' = <<[kind |-> "refresh", rows |-> {}]>>
        \/ markCalls' = <<>>
    <3>1. Append(<<>>, [kind |-> "refresh", rows |-> {}]) = <<[kind |-> "refresh", rows |-> {}]>>
      OBVIOUS
    <3> QED BY <2>1, <2>2, <3>1
  <2>4. markCalls' \in Seq(MarkCall) /\ Len(markCalls') < 2
    <3>1. [kind |-> "refresh", rows |-> {}] \in MarkCall
      BY DEF MarkCall
    <3>2. CASE markCalls' = <<>>
      BY <3>2
    <3>3. CASE markCalls' = <<[kind |-> "refresh", rows |-> {}]>>
      BY <3>1, <3>3
    <3> QED BY <2>3, <3>2, <3>3
  <2>5. CASE selected' = {} /\ meant' = {} /\ refused' = refused /\ due' \in {due,
               due \ markCalls[1].rows}
    BY <1>5, <2>1, <2>4, <2>5 DEF ChecksInv, Checked
  <2>6. CASE markCalls' = <<>> /\ refused' = TRUE /\ UNCHANGED <<due, selected, meant>>
    BY <1>5, <2>1, <2>4, <2>6 DEF ChecksInv, Checked
  <2> QED BY <2>1, <2>2, <2>5, <2>6
<1>6. ASSUME ChecksInv, BacklogShown PROVE ChecksInv'
  <2>1. /\ markCalls # <<>> /\ markCalls[1].kind = "refresh" /\ markCalls' = Tail(markCalls)
        /\ backlog' = due /\ meant' = meant \intersect due /\ UNCHANGED <<due, selected, refused>>
    BY <1>6 DEF BacklogShown
  <2>2. Len(markCalls) \in Nat /\ Len(markCalls) # 0 /\ Len(markCalls) <= 2
    BY <1>6, <2>1, LenProperties, EmptySeq DEF ChecksInv
  <2>3. selected \subseteq backlog /\ meant' = Checked'
    BY <1>6, <2>1, <2>2 DEF ChecksInv, Checked
  <2>4. /\ markCalls' \in Seq(MarkCall) /\ Len(markCalls') = Len(markCalls) - 1
        /\ \A i \in 1 .. Len(markCalls') : markCalls'[i] = markCalls[i + 1]
    BY <1>6, <2>1, HeadTailProperties DEF ChecksInv
  <2>5. Len(markCalls') > 0 => markCalls'[1].kind = "mark"
    <3>1. Len(markCalls') > 0 => Len(markCalls) = 2 /\ markCalls'[1] = markCalls[2]
      BY <2>2, <2>4
    <3> QED BY <1>6, <3>1 DEF ChecksInv
  <2>6. Len(markCalls') <= 2 /\ Len(markCalls') # 2
    <3> DEFINE n == Len(markCalls)
               m == Len(markCalls')
    <3>1. n \in Nat /\ n <= 2 /\ m = n - 1
      BY <2>2, <2>4
    <3> HIDE DEF n, m
    <3>2. m <= 2 /\ m # 2
      BY <3>1
    <3> QED BY <3>2 DEF m
  <2>7. /\ selected' \subseteq DueRows /\ backlog' \subseteq DueRows /\ due' \subseteq DueRows
        /\ refused' \in BOOLEAN
    BY <1>6, <2>1 DEF ChecksInv
  <2>8. Len(markCalls') > 0 => markCalls'[1].kind # "refresh"
    BY <2>5
  <2> QED BY <2>3, <2>4, <2>6, <2>7, <2>8 DEF ChecksInv
<1>7. ChecksInv /\ UNCHANGED backlogVars => ChecksInv'
  BY DEF ChecksInv, backlogVars, Checked
<1> QED BY <1>1, <1>2, <1>3, <1>4, <1>5, <1>6, <1>7 DEF BacklogNext

-----------------------------------------------------------------------------
(* The backup page.                                                        *)

LEMMA BackupStarts == BackupInit => BackupInv
<1> SUFFICES ASSUME BackupInit PROVE BackupInv
  OBVIOUS
<1>1. IsFiniteSet({}) /\ Cardinality({}) = 0
  BY FS_EmptySet
<1>2. /\ requests = {} /\ sent = 0 /\ visit = 1 /\ here = TRUE /\ phase = "idle" /\ timer4 = FALSE
      /\ outcome = "none" /\ dialog = FALSE /\ phrase = FALSE /\ typed = FALSE
      /\ status = "idle" /\ exports = 0
  BY DEF BackupInit
<1>3. IsFiniteSet(requests) /\ Cardinality(requests) = 0
  BY <1>1, <1>2
<1>4. BackupTypeOK
  <2>1. dialog \in BOOLEAN /\ phrase \in BOOLEAN
    BY <1>2
  <2>2. sent \in 0 .. MaxRequests /\ visit \in 1 .. MaxVisits
        /\ Cardinality(requests) <= MaxRequests
    BY <1>2, <1>3, BackupPageAssumption
  <2>3. chosen \in [file : BOOLEAN, password : BOOLEAN]
    BY DEF BackupInit, NothingChosen
  <2> QED BY <1>2, <2>1, <2>2, <2>3 DEF BackupTypeOK
<1>5. ForceIsTypedAnew /\ PanelsTellTheTruth
  BY <1>2 DEF ForceIsTypedAnew, PanelsTellTheTruth, Restoring
<1>6. here \in BOOLEAN /\ typed \in BOOLEAN /\ timer4 \in BOOLEAN
  BY <1>2
<1>7. Cardinality(requests) <= sent
  BY <1>2, <1>3
<1> QED BY <1>2, <1>3, <1>4, <1>5, <1>6, <1>7 DEF BackupInv, Restoring

\* The steps that leave the requests and what is said of them alone.
LEMMA BackupLooks ==
  ASSUME BackupInv,
         \/ \E file \in BOOLEAN, password \in BOOLEAN : FillRestore(file, password)
         \/ \E b \in BOOLEAN : TypePhrase(b) \/ Prepare(b)
         \/ AssumeApplying \/ OpenForce \/ CancelForce \/ SubmitExport \/ AssumeStarted
         \/ UNCHANGED backupVars
  PROVE  BackupInv'
<1> USE DEF BackupInv, BackupTypeOK, ForceIsTypedAnew, PanelsTellTheTruth, Restoring
<1>1. ASSUME NEW b \in BOOLEAN, Prepare(b) PROVE BackupInv'
  BY <1>1 DEF Prepare, Covered, exportPart, restorePart
<1>9. ASSUME NEW file \in BOOLEAN, NEW password \in BOOLEAN, FillRestore(file, password)
      PROVE  BackupInv'
  BY <1>9 DEF FillRestore, Covered, exportPart
<1>2. ASSUME NEW b \in BOOLEAN, TypePhrase(b) PROVE BackupInv'
  BY <1>2 DEF TypePhrase, exportPart
<1>3. CASE AssumeApplying
  BY <1>3 DEF AssumeApplying, exportPart
<1>4. CASE OpenForce
  BY <1>4 DEF OpenForce, Covered, PhraseReset, exportPart
<1>5. CASE CancelForce
  BY <1>5 DEF CancelForce, exportPart
<1>6. CASE SubmitExport
  BY <1>6 DEF SubmitExport, CanExport, Covered, restorePart
<1>7. CASE AssumeStarted
  BY <1>7 DEF AssumeStarted, restorePart
<1>8. CASE UNCHANGED backupVars
  BY <1>8 DEF backupVars
<1> QED BY <1>1, <1>2, <1>3, <1>4, <1>5, <1>6, <1>7, <1>8, <1>9

\* A request leaves: the panel runs, and the request is the newest one.
LEMMA RestoreIsSent ==
  ASSUME BackupInv, NEW force \in BOOLEAN, runRestore(force), here, ~Restoring,
         force => dialog /\ phrase
  PROVE  BackupInv'
<1> DEFINE r == [visit |-> visit, force |-> force, typed |-> typed, n |-> sent + 1,
                 password |-> chosen.password, refused |-> outcome = "refused_not_empty"]
<1>1. /\ requests' = requests \union {r} /\ sent' = sent + 1 /\ sent < MaxRequests
      /\ outcome' = "none" /\ phase' = "verifying" /\ timer4' = TRUE
      /\ UNCHANGED <<visit, here, chosen, dialog, phrase, typed, status, exports>>
  BY DEF runRestore, exportPart
<1>2. r \in RestoreRequest /\ (force => r.typed /\ r.refused)
  BY DEF BackupInv, BackupTypeOK, RestoreRequest
<1>3. r.visit = visit /\ r.force = force
  OBVIOUS
<1>4. \A s \in requests : s.visit # visit
  BY DEF BackupInv, PanelsTellTheTruth
<1> HIDE DEF r
<1>5. r \notin requests
  BY <1>3, <1>4
<1>6. IsFiniteSet(requests') /\ Cardinality(requests') = Cardinality(requests) + 1
  BY <1>1, <1>5, FS_AddElement DEF BackupInv
<1>7. /\ Cardinality(requests') <= sent' /\ Cardinality(requests') <= MaxRequests
      /\ sent' \in 0 .. MaxRequests
  BY <1>1, <1>6, FS_CardinalityType, BackupPageAssumption DEF BackupInv, BackupTypeOK
<1>8. \A s \in requests' : s = r \/ s \in requests
  BY <1>1
<1>9. ForceIsTypedAnew'
  BY <1>2, <1>3, <1>8 DEF ForceIsTypedAnew, BackupInv
<1>10. PanelsTellTheTruth'
  BY <1>1, <1>3, <1>4, <1>8 DEF PanelsTellTheTruth, BackupInv, Restoring
<1> QED BY <1>1, <1>2, <1>3, <1>6, <1>7, <1>8, <1>9, <1>10
        DEF BackupInv, BackupTypeOK, Restoring, Copy

\* The answer of a request changes the panel of its own visit only.
LEMMA RestoreIsAnswered ==
  ASSUME BackupInv, NEW r \in requests, RestoreAnswered(r)
  PROVE  BackupInv'
<1> DEFINE own == here /\ r.visit = visit
<1>1. /\ requests' = requests \ {r} /\ UNCHANGED <<visit, here, chosen, phrase, typed, sent, status,
           exports>>
      /\ own => /\ phase' = "idle" /\ dialog' = FALSE /\ timer4' = FALSE
                /\ outcome' = outcome \/ outcome' \in Copy \ {"ok"}
      /\ ~own => UNCHANGED <<phase, dialog, timer4, outcome>>
  <2>1. Possible(r) \subseteq Copy
    BY DEF Possible, Copy
  <2>2. PICK o \in Possible(r) :
          IF own THEN /\ phase' = "idle" /\ dialog' = FALSE /\ timer4' = TimerCleared
                      /\ outcome' = IF o = "ok" THEN outcome ELSE o
                 ELSE UNCHANGED <<phase, dialog, timer4, outcome>>
    BY DEF RestoreAnswered
  <2>3. own => outcome' = outcome \/ outcome' \in Copy \ {"ok"}
    BY <2>1, <2>2
  <2>4. own => phase' = "idle" /\ dialog' = FALSE /\ timer4' = FALSE
    BY <2>2 DEF TimerCleared
  <2>5. ~own => UNCHANGED <<phase, dialog, timer4, outcome>>
    BY <2>2
  <2>6. /\ requests' = requests \ {r}
        /\ UNCHANGED <<visit, here, chosen, phrase, typed, sent, status, exports>>
    BY DEF RestoreAnswered, exportPart
  <2> QED BY <2>3, <2>4, <2>5, <2>6
<1>2. IsFiniteSet(requests') /\ Cardinality(requests') = Cardinality(requests) - 1
  BY <1>1, FS_RemoveElement DEF BackupInv
<1>3. Cardinality(requests') <= sent' /\ Cardinality(requests') <= MaxRequests
  BY <1>1, <1>2, FS_CardinalityType, BackupPageAssumption DEF BackupInv, BackupTypeOK
<1>4. ForceIsTypedAnew' /\ requests' \subseteq RestoreRequest
        /\ \A s \in requests' : s.visit <= visit'
  BY <1>1 DEF ForceIsTypedAnew, BackupInv
<1>5. PanelsTellTheTruth'
  BY <1>1 DEF PanelsTellTheTruth, BackupInv, Restoring
<1> HIDE DEF own
<1>6. BackupTypeOK'
  BY <1>1, <1>3 DEF BackupInv, BackupTypeOK
<1>7. IsFiniteSet(requests')
  BY <1>2
<1>8. /\ here' \in BOOLEAN /\ typed' \in BOOLEAN /\ timer4' \in BOOLEAN
      /\ ~here' => phase' = "idle" /\ ~timer4'
      /\ exports' = IF status' = "idle" THEN 0 ELSE 1
  <2>1. here' \in BOOLEAN /\ typed' \in BOOLEAN /\ exports' = IF status' = "idle" THEN 0 ELSE 1
    BY <1>1 DEF BackupInv
  <2>2. timer4' = timer4 \/ timer4' = FALSE
    BY <1>1
  <2>3. ~here' => ~own
    BY <1>1 DEF own
  <2>4. ~here' => phase' = "idle" /\ ~timer4'
    BY <1>1, <2>3 DEF BackupInv
  <2> QED BY <2>1, <2>2, <2>4 DEF BackupInv
<1>9. dialog' => UNCHANGED <<phase, dialog, phrase, typed, outcome>>
  BY <1>1
<1>10. (dialog' /\ ~Restoring' => outcome' = "refused_not_empty") /\ (dialog' /\ phrase' => typed')
  BY <1>9 DEF BackupInv, Restoring
<1> QED BY <1>3, <1>4, <1>5, <1>6, <1>7, <1>8, <1>10 DEF BackupInv

\* The page is left, or opened again: what still runs belongs to an older visit.
LEMMA BackupIsLeft ==
  ASSUME BackupInv, LeaveBackup \/ OpenBackup \/ Redirect
  PROVE  BackupInv'
<1>1. /\ chosen' = NothingChosen /\ phase' = "idle" /\ timer4' = FALSE /\ outcome' = "none"
      /\ dialog' = FALSE /\ phrase' = FALSE /\ typed' = FALSE
      /\ status' = "idle" /\ exports' = 0
      /\ UNCHANGED <<requests, sent>>
      /\ \/ here' = FALSE /\ visit' = visit
         \/ here' = TRUE /\ visit' = visit + 1 /\ visit < MaxVisits
  <2>1. /\ Fresh /\ UNCHANGED <<requests, sent>>
        /\ \/ here' = FALSE /\ visit' = visit
           \/ here' = TRUE /\ visit' = visit + 1 /\ visit < MaxVisits
    BY DEF LeaveBackup, OpenBackup, Redirect
  <2> QED BY <2>1 DEF Fresh
<1>2. visit' \in 1 .. MaxVisits /\ visit' >= visit
  BY <1>1, BackupPageAssumption DEF BackupInv, BackupTypeOK
<1>3. \A r \in requests : r.visit \in Nat /\ r.visit <= visit
  BY DEF BackupInv, RestoreRequest
<1>4. \A r \in requests : r.visit <= visit' /\ (here' = TRUE => r.visit # visit')
  BY <1>1, <1>2, <1>3 DEF BackupInv, BackupTypeOK
<1>5. PanelsTellTheTruth'
  BY <1>1, <1>4 DEF PanelsTellTheTruth, BackupInv, Restoring
<1>6. BackupTypeOK'
  <2>1. NothingChosen \in [file : BOOLEAN, password : BOOLEAN]
    BY DEF NothingChosen
  <2> QED BY <1>1, <1>2, <2>1 DEF BackupInv, BackupTypeOK
<1> QED BY <1>1, <1>4, <1>5, <1>6 DEF BackupInv, ForceIsTypedAnew, Restoring

LEMMA BackupKeeps == BackupInv /\ [BackupNext]_backupVars => BackupInv'
<1> SUFFICES ASSUME BackupInv, [BackupNext]_backupVars PROVE BackupInv'
  OBVIOUS
<1>1. CASE SubmitRestore
  BY <1>1, RestoreIsSent DEF SubmitRestore
<1>2. CASE ConfirmForce
  BY <1>2, RestoreIsSent DEF ConfirmForce
<1> QED BY <1>1, <1>2, BackupLooks, RestoreIsAnswered, BackupIsLeft DEF BackupNext

-----------------------------------------------------------------------------
(* The viewer of documents.                                                *)

LEMMA ViewStarts == ViewInit => ViewInv
BY DocumentViewAssumption DEF ViewInit, ViewInv, ViewTypeOK, Loading, Failed, NoEffect, Settled

\* Opening, the effect, and the answers of the fetches: only the one of the target shows.
LEMMA ViewOpens == ASSUME ViewInv, NEW d \in Documents, OpenView(d) PROVE ViewInv'
<1>1. /\ viewTarget = NoDocument /\ effect.doc = viewTarget /\ views < MaxViews
      /\ views' = views + 1
      /\ viewTarget' = d /\ viewState' = Loading /\ UNCHANGED <<stored, effect, fetches, live>>
  BY DEF OpenView, Opened, Settled
<1>2. views \in Nat /\ views' \in 0 .. MaxViews /\ views' > 0 /\ d # NoDocument
  BY <1>1, DocumentViewAssumption DEF ViewInv, ViewTypeOK
<1>3. \A f \in fetches : f \in [n : 1 .. MaxViews, doc : Documents] /\ f.n \in Nat /\ f.n # 0
  BY DEF ViewInv, ViewTypeOK
<1>4. \A f \in fetches : f.n < views' /\ f.n <= views'
  BY <1>1, <1>2, <1>3 DEF ViewInv
<1> QED BY <1>1, <1>2, <1>3, <1>4, DocumentViewAssumption DEF ViewInv, ViewTypeOK, Loading, Settled

LEMMA ViewRuns == ASSUME ViewInv, RunEffect PROVE ViewInv'
<1>1. CASE viewTarget = NoDocument
  <2>1. effect' = NoEffect /\ UNCHANGED <<viewState, fetches, stored, viewTarget, views>>
    BY <1>1 DEF RunEffect
  <2>2. live' = {}
    BY <1>1 DEF RunEffect, ViewInv
  <2> QED BY <1>1, <2>1, <2>2, DocumentViewAssumption DEF ViewInv, ViewTypeOK, NoEffect, Settled
<1>2. CASE viewTarget # NoDocument
  <2> DEFINE f == [n |-> views, doc |-> viewTarget]
  <2>1. /\ effect' = [n |-> views, doc |-> viewTarget, url |-> FALSE]
        /\ viewState' = Loading /\ fetches' = fetches \union {f}
        /\ UNCHANGED <<stored, viewTarget, views>>
    BY <1>2 DEF RunEffect
  <2>2. live' = {} /\ views > 0 /\ viewTarget \in Documents /\ views \in 1 .. MaxViews
    BY <1>2, DocumentViewAssumption DEF RunEffect, ViewInv, ViewTypeOK
  <2>3. f \in [n : 1 .. MaxViews, doc : Documents] /\ f.n = views /\ f.doc = viewTarget
    BY <2>2
  <2>4. \A g \in fetches : g.n < views
    BY <1>2 DEF RunEffect, ViewInv
  <2> HIDE DEF f
  <2>5. ViewTypeOK'
    BY <2>1, <2>2, <2>3 DEF ViewInv, ViewTypeOK, Loading
  <2> QED BY <1>2, <2>1, <2>2, <2>3, <2>4, <2>5 DEF ViewInv, Loading, Settled
<1> QED BY <1>1, <1>2

LEMMA ViewFetches == ASSUME ViewInv, NEW f \in fetches, Fetched(f) PROVE ViewInv'
<1>1. /\ fetches' = fetches \ {f} /\ UNCHANGED <<stored, viewTarget, views>>
      /\ f \in [n : 1 .. MaxViews, doc : Documents]
  BY DEF Fetched, ViewInv, ViewTypeOK
<1>2. CASE Cancelled(f)
  <2>1. UNCHANGED <<viewState, effect, live>>
    BY <1>2 DEF Fetched
  <2> QED BY <1>1, <2>1 DEF ViewInv, ViewTypeOK, Settled
<1>3. CASE ~Cancelled(f) /\ viewState' = Failed /\ UNCHANGED <<effect, live>>
  <2>1. f.n = effect.n /\ f.doc = effect.doc /\ ~effect.url /\ f.n # 0
    BY <1>1, <1>3 DEF Cancelled, ViewInv
  <2>2. viewTarget = NoDocument \/ Settled
    BY <1>1, <2>1 DEF ViewInv
  <2>3. viewState' \in [status : {"loading", "ready", "error"}, url : Nat]
        /\ viewState'.status = "error"
    BY <1>3 DEF Failed
  <2> QED BY <1>1, <1>3, <2>2, <2>3 DEF ViewInv, ViewTypeOK, Settled
<1>4. CASE /\ ~Cancelled(f) /\ live' = live \union {f} /\ effect' = [effect EXCEPT !.url = TRUE]
           /\ viewState' = [status |-> "ready", url |-> f.n]
  <2>1. f.n = effect.n /\ f.doc = effect.doc /\ ~effect.url /\ f.n # 0 /\ f.n \in Nat
    BY <1>1, <1>4 DEF Cancelled, ViewInv
  <2>2. viewTarget = NoDocument \/ Settled
    BY <1>1, <2>1 DEF ViewInv
  <2>3. viewState' \in [status : {"loading", "ready", "error"}, url : Nat]
        /\ viewState'.status = "ready"
        /\ viewState'.url = effect.n
    BY <1>4, <2>1
  <2>4. effect' = [n |-> effect.n, doc |-> effect.doc, url |-> TRUE]
    <3>1. effect = [n |-> effect.n, doc |-> effect.doc, url |-> effect.url]
      BY DEF ViewInv
    <3> QED BY <1>4, <3>1
  <2>5. f = [n |-> effect.n, doc |-> effect.doc] /\ live' = {f}
    BY <1>1, <1>4, <2>1 DEF ViewInv
  <2>6. \A g \in fetches' : g \in fetches /\ g # f /\ g \in [n : 1 .. MaxViews, doc : Documents]
    BY <1>1 DEF ViewInv, ViewTypeOK
  <2>7. \A g \in fetches' : g.n # effect.n
    <3>1. \A g \in fetches' : g.n = effect.n => g.doc = effect.doc
      BY <2>6 DEF ViewInv
    <3>2. \A g \in fetches' : g = [n |-> g.n, doc |-> g.doc]
      BY <2>6
    <3> QED BY <2>5, <2>6, <3>1, <3>2
  <2>8. ViewTypeOK'
    BY <1>1, <2>3, <2>5 DEF ViewInv, ViewTypeOK
  <2>9. Settled' = Settled
    BY <1>1, <2>4 DEF Settled
  <2> QED BY <1>1, <2>1, <2>2, <2>3, <2>4, <2>5, <2>6, <2>7, <2>8, <2>9 DEF ViewInv
<1> QED BY <1>2, <1>3, <1>4 DEF Fetched

LEMMA ViewKeeps == ViewInv /\ [ViewNext]_viewVars => ViewInv'
<1> SUFFICES ASSUME ViewInv, [ViewNext]_viewVars PROVE ViewInv'
  OBVIOUS
<1> USE DocumentViewAssumption DEF ViewInv, ViewTypeOK, Loading, Failed, Settled
<1>1. ASSUME NEW d \in Documents, DocumentGone(d) PROVE ViewInv'
  BY <1>1 DEF DocumentGone
<1>2. CASE CloseView
  BY <1>2 DEF CloseView
<1>3. CASE ImageFails
  BY <1>3 DEF ImageFails
<1>4. CASE LeavePage
  BY <1>4 DEF LeavePage, NoEffect
<1>5. CASE UNCHANGED viewVars
  BY <1>5 DEF viewVars
<1> QED BY <1>1, <1>2, <1>3, <1>4, <1>5, ViewOpens, ViewRuns, ViewFetches DEF ViewNext

LEMMA ViewHolds == ViewInv => ViewShowsItsTarget
<1> SUFFICES ASSUME ViewInv PROVE ViewShowsItsTarget
  OBVIOUS
<1>1. ASSUME viewTarget # NoDocument, viewState.status = "ready"
      PROVE  \E u \in live : u.n = viewState.url /\ u.doc = viewTarget
  <2>1. Settled /\ effect.url /\ viewState.url = effect.n
    BY <1>1 DEF ViewInv
  <2>2. [n |-> effect.n, doc |-> effect.doc] \in live
    BY <2>1 DEF ViewInv
  <2> QED BY <2>1, <2>2 DEF Settled
<1>2. ASSUME NEW u \in live PROVE effect.url /\ u.n = effect.n
  BY DEF ViewInv
<1> QED BY <1>1, <1>2 DEF ViewShowsItsTarget

-----------------------------------------------------------------------------
(* Queues of calls.                                                        *)

\* What a queue is after a call is added at its end, or its first one is taken.
LEMMA Queues ==
  ASSUME NEW S, NEW q \in Seq(S)
  PROVE  /\ Len(q) \in Nat /\ DOMAIN q = 1 .. Len(q) /\ \A i \in DOMAIN q : q[i] \in S
         /\ q # <<>> <=> 1 \in DOMAIN q
<1>1. Len(q) \in Nat /\ DOMAIN q = 1 .. Len(q) /\ \A i \in DOMAIN q : q[i] \in S
  BY LenProperties, ElementOfSeq
<1>2. q = <<>> <=> Len(q) = 0
  BY EmptySeq
<1> QED BY <1>1, <1>2

LEMMA Added ==
  ASSUME NEW S, NEW q \in Seq(S), NEW e \in S
  PROVE  /\ Append(q, e) \in Seq(S) /\ q \o <<e>> = Append(q, e)
         /\ Len(Append(q, e)) = Len(q) + 1 /\ DOMAIN Append(q, e) = 1 .. Len(q) + 1
         /\ DOMAIN Append(q, e) = DOMAIN q \union {Len(q) + 1} /\ Len(q) + 1 \notin DOMAIN q
         /\ Append(q, e)[Len(q) + 1] = e /\ \A i \in DOMAIN q : Append(q, e)[i] = q[i]
<1>1. Len(q) \in Nat /\ DOMAIN q = 1 .. Len(q)
  BY LenProperties
<1>2. Append(q, e) \in Seq(S) /\ Len(Append(q, e)) = Len(q) + 1
  BY AppendProperties
<1>3. DOMAIN Append(q, e) = 1 .. Len(q) + 1
  BY <1>2, LenProperties
<1>4. Append(q, e)[Len(q) + 1] = e /\ \A i \in 1 .. Len(q) : Append(q, e)[i] = q[i]
  BY AppendProperties
<1>5. 1 .. Len(q) + 1 = 1 .. Len(q) \union {Len(q) + 1} /\ Len(q) + 1 \notin 1 .. Len(q)
  BY <1>1
<1>6. q \o <<e>> = Append(q, e)
  OBVIOUS
<1> QED BY <1>1, <1>2, <1>3, <1>4, <1>5, <1>6

LEMMA Taken ==
  ASSUME NEW S, NEW q \in Seq(S), q # <<>>
  PROVE  /\ 1 \in DOMAIN q /\ Head(q) = q[1] /\ Tail(q) \in Seq(S) /\ Len(Tail(q)) = Len(q) - 1
         /\ \A i \in DOMAIN Tail(q) : i \in Nat /\ i + 1 \in DOMAIN q /\ Tail(q)[i] = q[i + 1]
<1>1. Len(q) \in Nat /\ DOMAIN q = 1 .. Len(q) /\ Len(q) # 0
  BY LenProperties, EmptySeq
<1>2. Tail(q) \in Seq(S) /\ Len(Tail(q)) = Len(q) - 1 /\ Head(q) = q[1]
  BY HeadTailProperties
<1>3. DOMAIN Tail(q) = 1 .. Len(q) - 1
  BY <1>2, LenProperties
<1>4. \A i \in 1 .. Len(q) - 1 : Tail(q)[i] = q[i + 1]
  BY HeadTailProperties
<1> QED BY <1>1, <1>2, <1>3, <1>4

-----------------------------------------------------------------------------
(* The Share dialog.                                                       *)

LEMMA ShareStarts == ShareInit => ShareInv
<1> SUFFICES ASSUME ShareInit PROVE ShareInv
  OBVIOUS
<1>1. shareQueue \in Seq(ShareRequest) /\ DOMAIN shareQueue = {}
  BY EmptySeq DEF ShareInit
<1> QED BY <1>1 DEF ShareInit, ShareInv, ShareTypeOK

\* A call joins the queue.
LEMMA ShareAsks ==
  ASSUME ShareInv, NEW c \in ShareRequest, shareQueue' = Append(shareQueue, c),
         UNCHANGED <<granted, state, granteeId, confirming, confirmOpen>>,
         open' \in BOOLEAN /\ opens' \in Nat /\ revoking' \in BOOLEAN,
         confirming # NoUser => /\ open' = open /\ opens' = opens
                                /\ c.kind = "revoke" /\ c.asker = opens,
         c.kind # "load" => c.user \in Users,
         IF c.kind = "revoke" THEN ~revoking /\ revoking' ELSE revoking' = revoking
  PROVE  ShareInv'
<1> DEFINE n == Len(shareQueue) + 1
<1>1. /\ shareQueue' \in Seq(ShareRequest) /\ DOMAIN shareQueue' = DOMAIN shareQueue \union {n}
      /\ n \notin DOMAIN shareQueue /\ shareQueue'[n] = c
      /\ \A i \in DOMAIN shareQueue : shareQueue'[i] = shareQueue[i]
  BY Added DEF ShareInv
<1> HIDE DEF n
<1>2. \A i \in DOMAIN shareQueue' : i = n \/ (i \in DOMAIN shareQueue
        /\ shareQueue'[i] = shareQueue[i])
  BY <1>1
<1>3. c.kind = "revoke" => \A i \in DOMAIN shareQueue : shareQueue[i].kind # "revoke"
  BY DEF ShareInv
<1>4. ASSUME NEW i \in DOMAIN shareQueue'
      PROVE  /\ confirming' # NoUser => shareQueue'[i].kind = "revoke"
                  /\ shareQueue'[i].asker = opens'
             /\ shareQueue'[i].kind = "revoke" => revoking'
             /\ shareQueue'[i].kind # "load" => shareQueue'[i].user \in Users
             /\ \A j \in DOMAIN shareQueue' :
                  shareQueue'[i].kind = "revoke" /\ shareQueue'[j].kind = "revoke" => i = j
  <2>1. CASE i = n
    BY <1>1, <1>2, <1>3, <2>1
  <2>2. CASE i \in DOMAIN shareQueue /\ shareQueue'[i] = shareQueue[i]
    BY <1>1, <1>2, <1>3, <2>2 DEF ShareInv
  <2> QED BY <1>2, <2>1, <2>2
<1>5. /\ ShareTypeOK' /\ (confirmOpen' <=> confirming' # NoUser)
      /\ (confirming' # NoUser => open' /\ state' # {})
  BY DEF ShareInv, ShareTypeOK
<1> QED BY <1>1, <1>4, <1>5 DEF ShareInv

\* The dialog closes: nothing is asked any more.
LEMMA ShareCloses ==
  ASSUME ShareInv, CloseShare, ~ConfirmShown
  PROVE  ShareInv'
<1>1. confirming = NoUser /\ confirming' = NoUser
  BY DEF ShareInv, ConfirmShown, CloseShare
<1>2. UNCHANGED <<granted, state, granteeId, confirmOpen, revoking, shareQueue, opens>>
      /\ open' = FALSE
  BY DEF CloseShare
<1> QED BY <1>1, <1>2 DEF ShareInv, ShareTypeOK

\* Revoking a grant is confirmed first; one revocation runs at a time.
LEMMA GrantIsAsked ==
  ASSUME ShareInv, NEW u \in Users, AskRevoke(u)
  PROVE  ShareInv'
<1>1. /\ open /\ u \in state /\ ~revoking /\ confirming' = u /\ confirmOpen' = (u # NoUser)
      /\ UNCHANGED <<granted, open, state, granteeId, revoking, shareQueue, opens>>
  BY DEF AskRevoke, RequestConfirm
<1>2. \A i \in DOMAIN shareQueue : shareQueue[i].kind \in {"load", "share", "revoke"}
  <2>1. shareQueue \in Seq(ShareRequest)
    BY DEF ShareInv
  <2>2. \A i \in DOMAIN shareQueue : shareQueue[i] \in ShareRequest
    BY <2>1, Queues
  <2> QED BY <2>2 DEF ShareRequest
<1>3. DOMAIN shareQueue = {}
  BY <1>1, <1>2 DEF AskRevoke, SharePending, ShareInv
<1>4. u # NoUser
  BY SharePanelAssumption
<1>5. ShareTypeOK'
  BY <1>1 DEF ShareInv, ShareTypeOK
<1> QED BY <1>1, <1>3, <1>4, <1>5 DEF ShareInv

\* The first call is answered: the dialog changes only if it asked for it.
LEMMA ShareIsAnswered ==
  ASSUME ShareInv, Replied
  PROVE  /\ ShareInv'
         /\ revoking /\ ~revoking' /\ Len(shareQueue') < Len(shareQueue) =>
              open' = open /\ confirming' = confirming
<1> DEFINE c == Head(shareQueue)
           rest == Tail(shareQueue)
           again == [kind |-> "load", user |-> NoUser, asker |-> opens]
           n == Len(rest) + 1
<1>1. /\ shareQueue # <<>> /\ UNCHANGED <<open, opens>>
      /\ shareQueue \in Seq(ShareRequest) /\ opens \in Nat /\ open \in BOOLEAN
  BY DEF Replied, ShareInv, ShareTypeOK
<1>2. /\ 1 \in DOMAIN shareQueue /\ c = shareQueue[1] /\ rest \in Seq(ShareRequest)
      /\ Len(rest) = Len(shareQueue) - 1 /\ Len(shareQueue) \in Nat
      /\ \A i \in DOMAIN rest : i \in Nat /\ i + 1 \in DOMAIN shareQueue
           /\ rest[i] = shareQueue[i + 1]
  BY <1>1, Taken, Queues
<1>3. c \in ShareRequest
  BY <1>1, <1>2, Queues
<1>4. again \in ShareRequest /\ again.kind = "load"
  BY <1>1 DEF ShareRequest
<1>5. PICK ok \in BOOLEAN :
       \/ /\ c.kind = "load" /\ shareQueue' = rest
          /\ state' = IF ok THEN granted ELSE state
          /\ UNCHANGED <<granted, granteeId, confirming, confirmOpen, revoking>>
       \/ /\ c.kind = "share"
          /\ granted' = IF ok THEN granted \union {c.user} ELSE granted
          /\ granteeId' = IF ok THEN NoUser ELSE granteeId
          /\ shareQueue' = IF ok THEN rest \o <<again>> ELSE rest
          /\ UNCHANGED <<state, confirming, confirmOpen, revoking>>
       \/ /\ c.kind = "revoke" /\ revoking' = FALSE
          /\ granted' = IF ok THEN granted \ {c.user} ELSE granted
          /\ shareQueue' = IF ok THEN rest \o <<again>> ELSE rest
          /\ confirming' = IF ok /\ open /\ c.asker = opens THEN NoUser ELSE confirming
          /\ confirmOpen' = IF ok THEN FALSE ELSE confirmOpen
          /\ UNCHANGED <<state, granteeId>>
  BY DEF Replied, Dismisses, Reload, ShareCall
<1>6. /\ c.kind # "load" => c.user \in Users
      /\ confirming # NoUser => /\ c.kind = "revoke" /\ c.asker = opens /\ open
      /\ c.kind = "revoke" => \A i \in DOMAIN rest : rest[i].kind # "revoke"
      /\ \A i \in DOMAIN rest : rest[i].kind = "revoke" => revoking
  <2>1. \A i \in DOMAIN rest : i + 1 # 1
    BY <1>2
  <2> QED BY <1>2, <2>1 DEF ShareInv
<1>7. \A i \in DOMAIN rest :
        /\ confirming # NoUser => rest[i].kind = "revoke" /\ rest[i].asker = opens
        /\ rest[i].kind # "load" => rest[i].user \in Users
        /\ \A j \in DOMAIN rest : rest[i].kind = "revoke" /\ rest[j].kind = "revoke" => i = j
  <2>1. ASSUME NEW i \in DOMAIN rest, NEW j \in DOMAIN rest, rest[i].kind = "revoke",
                 rest[j].kind = "revoke"
        PROVE  i = j
    <3>1. i + 1 = j + 1
      BY <1>2, <2>1 DEF ShareInv
    <3> QED BY <1>2, <3>1
  <2>2. \A i \in DOMAIN rest :
        /\ confirming # NoUser => rest[i].kind = "revoke" /\ rest[i].asker = opens
        /\ rest[i].kind # "load" => rest[i].user \in Users
    BY <1>2 DEF ShareInv
  <2> QED BY <2>1, <2>2
<1>8. /\ rest \o <<again>> \in Seq(ShareRequest) /\ Len(rest \o <<again>>) = Len(shareQueue)
      /\ DOMAIN (rest \o <<again>>) = DOMAIN rest \union {n} /\ (rest \o <<again>>)[n] = again
      /\ n \notin DOMAIN rest /\ \A i \in DOMAIN rest : (rest \o <<again>>)[i] = rest[i]
  BY <1>2, <1>4, Added
<1> HIDE DEF c, rest, again, n
<1>9. /\ shareQueue' \in Seq(ShareRequest)
      /\ shareQueue' = rest \/ Len(shareQueue') = Len(shareQueue)
      /\ \A i \in DOMAIN shareQueue' : \/ i \in DOMAIN rest /\ shareQueue'[i] = rest[i]
                                       \/ i = n /\ shareQueue'[n] = again /\ confirming' = NoUser
  <2>1. \/ shareQueue' = rest
        \/ shareQueue' = rest \o <<again>> /\ ok /\ c.kind \in {"share", "revoke"}
    BY <1>5
  <2>2. CASE shareQueue' = rest
    BY <1>2, <2>2
  <2>3. CASE shareQueue' = rest \o <<again>> /\ ok /\ c.kind \in {"share", "revoke"}
    <3>1. confirming' = NoUser
      BY <1>5, <1>6, <2>3
    <3> QED BY <1>8, <2>3, <3>1
  <2> QED BY <2>1, <2>2, <2>3
<1>10. ShareTypeOK'
  BY <1>1, <1>5, <1>6 DEF ShareInv, ShareTypeOK
<1>11. (confirmOpen' <=> confirming' # NoUser) /\ (confirming' # NoUser => confirming' = confirming)
  BY <1>5, <1>6 DEF ShareInv
<1>12. confirming' # NoUser => open' /\ state' # {}
  BY <1>1, <1>5, <1>6, <1>11 DEF ShareInv
<1>13. \A i \in DOMAIN shareQueue' :
       /\ confirming' # NoUser => shareQueue'[i].kind = "revoke" /\ shareQueue'[i].asker = opens'
       /\ shareQueue'[i].kind = "revoke" => revoking'
       /\ shareQueue'[i].kind # "load" => shareQueue'[i].user \in Users
       /\ \A j \in DOMAIN shareQueue' :
            shareQueue'[i].kind = "revoke" /\ shareQueue'[j].kind = "revoke" => i = j
  <2> SUFFICES ASSUME NEW i \in DOMAIN shareQueue'
               PROVE  /\ confirming' # NoUser =>
                           shareQueue'[i].kind = "revoke" /\ shareQueue'[i].asker = opens'
                      /\ shareQueue'[i].kind = "revoke" => revoking'
                      /\ shareQueue'[i].kind # "load" => shareQueue'[i].user \in Users
                      /\ \A j \in DOMAIN shareQueue' :
                           shareQueue'[i].kind = "revoke" /\ shareQueue'[j].kind = "revoke" => i = j
    OBVIOUS
  <2>1. CASE i \in DOMAIN rest /\ shareQueue'[i] = rest[i]
    <3>1. rest[i].kind = "revoke" => revoking' = revoking /\ revoking
      BY <1>5, <1>6, <2>1
    <3>2. \A j \in DOMAIN shareQueue' : shareQueue'[j].kind = "revoke" => j \in DOMAIN rest
            /\ shareQueue'[j] = rest[j]
      BY <1>4, <1>9
    <3> QED BY <1>1, <1>7, <1>11, <2>1, <3>1, <3>2
  <2>2. CASE i = n /\ shareQueue'[n] = again /\ confirming' = NoUser
    BY <1>4, <2>2
  <2> QED BY <1>9, <2>1, <2>2
<1>14. revoking /\ ~revoking' /\ Len(shareQueue') < Len(shareQueue) =>
         open' = open /\ confirming' = confirming
  <2>1. ASSUME revoking, ~revoking', Len(shareQueue') < Len(shareQueue)
        PROVE  confirming' = confirming
    <3>1. c.kind = "revoke"
      BY <1>5, <2>1
    <3>2. ok => Len(shareQueue') = Len(shareQueue)
      BY <1>5, <1>8, <3>1
    <3>3. ~ok
      BY <1>2, <2>1, <3>2
    <3> QED BY <1>5, <3>1, <3>3
  <2> QED BY <1>1, <2>1
<1> QED BY <1>1, <1>9, <1>10, <1>11, <1>12, <1>13, <1>14 DEF ShareInv

\* Every step of the dialog, with what RefusalIsShown says of it.
LEMMA ShareKeeps ==
  ASSUME ShareInv, [ShareNext]_shareVars
  PROVE  /\ ShareInv'
         /\ revoking /\ ~revoking' /\ Len(shareQueue') < Len(shareQueue) =>
              open' = open /\ confirming' = confirming
<1> SUFFICES ASSUME ~(Replied) PROVE ShareInv' /\ ~(revoking /\ ~revoking')
  BY ShareIsAnswered
<1>1. CASE OpenShare
  <2> DEFINE c == [kind |-> "load", user |-> NoUser, asker |-> opens + 1]
  <2>1. /\ ~open /\ shareQueue' = Append(shareQueue, c) /\ opens' = opens + 1 /\ open' = TRUE
        /\ UNCHANGED <<granted, state, granteeId, confirming, confirmOpen, revoking>>
    BY <1>1 DEF OpenShare
  <2>2. opens \in Nat /\ (confirming # NoUser => open) /\ revoking \in BOOLEAN
    BY DEF ShareInv, ShareTypeOK
  <2>3. c \in ShareRequest /\ c.kind = "load"
    BY <2>2 DEF ShareRequest
  <2>4. open' \in BOOLEAN /\ opens' \in Nat /\ revoking' \in BOOLEAN /\ confirming = NoUser
    BY <2>1, <2>2
  <2> HIDE DEF c
  <2>5. ShareInv'
    BY <2>1, <2>3, <2>4, ShareAsks
  <2> QED BY <2>1, <2>5
<1>2. CASE Done
  BY <1>2, ShareCloses DEF Done, CloseShare
<1>3. CASE onShare
  <2> DEFINE c == [kind |-> "share", user |-> granteeId, asker |-> opens]
  <2>1. /\ open /\ ~ConfirmShown /\ granteeId # NoUser /\ shareQueue' = Append(shareQueue, c)
        /\ UNCHANGED <<granted, open, state, granteeId, confirming, confirmOpen, revoking, opens>>
    BY <1>3 DEF onShare, ShareCall
  <2>2. opens \in Nat /\ confirming = NoUser /\ revoking \in BOOLEAN /\ open \in BOOLEAN
        /\ granteeId \in Users
    BY <2>1 DEF ShareInv, ShareTypeOK, ConfirmShown
  <2>3. c \in ShareRequest /\ c.kind = "share" /\ c.user \in Users
    BY <2>2 DEF ShareRequest
  <2> HIDE DEF c
  <2> QED BY <2>1, <2>2, <2>3, ShareAsks
<1>4. CASE KeepGrant
  BY <1>4 DEF KeepGrant, RequestConfirm, ShareInv, ShareTypeOK
<1>6. CASE onRevoke
  <2> DEFINE c == [kind |-> "revoke", user |-> confirming, asker |-> opens]
  <2>1. /\ ConfirmShown /\ ~revoking /\ revoking' = TRUE /\ shareQueue' = Append(shareQueue, c)
        /\ UNCHANGED <<granted, open, state, granteeId, confirming, confirmOpen, opens>>
    BY <1>6 DEF onRevoke, ShareCall
  <2>2. opens \in Nat /\ open \in BOOLEAN /\ confirming \in Users
    BY <2>1 DEF ShareInv, ShareTypeOK, ConfirmShown
  <2>3. c \in ShareRequest /\ c.kind = "revoke" /\ c.user \in Users /\ c.asker = opens
    BY <2>2 DEF ShareRequest
  <2> HIDE DEF c
  <2> QED BY <2>1, <2>2, <2>3, ShareAsks
<1>7. ASSUME NEW u \in Users, Pick(u) PROVE ShareInv' /\ revoking' = revoking
  BY <1>7 DEF Pick, ShareInv, ShareTypeOK
<1>8. ASSUME NEW u \in Users, AskRevoke(u) PROVE ShareInv' /\ revoking' = revoking
  BY <1>8, GrantIsAsked DEF AskRevoke
<1>9. CASE UNCHANGED shareVars
  BY <1>9 DEF shareVars, ShareInv, ShareTypeOK
<1>10. CASE Escape
  <2>1. CASE confirmOpen
    BY <1>4, <1>10, <1>9, <2>1 DEF Escape
  <2>2. CASE ~confirmOpen
    <3>1. CloseShare /\ ~ConfirmShown /\ revoking' = revoking
      BY <1>10, <2>2 DEF Escape, CloseShare, ShareInv, ConfirmShown
    <3> QED BY <3>1, ShareCloses
  <2> QED BY <2>1, <2>2
<1> QED BY <1>1, <1>2, <1>3, <1>4, <1>6, <1>7, <1>8, <1>9, <1>10 DEF ShareNext

LEMMA ShareHolds == ShareInv => EscapeClosesOneLayer
BY DEF ShareInv, EscapeClosesOneLayer, ConfirmShown

-----------------------------------------------------------------------------
(* The form of an item and its page.                                       *)

\* What the form and the row are made of.
LEMMA GoneIsARow == Gone \in ItemRows
BY DEF Gone, ItemRows, Hosts

LEMMA PrefilledIsALabel == \A raw \in RawPrefixes : prefillLabel(raw) \in Labels
<1> SUFFICES ASSUME NEW raw \in RawPrefixes PROVE prefillLabel(raw) \in Labels
  OBVIOUS
<1>1. Trim(raw) \in {"", "US", "us", "ZZ"}
  <2>1. CASE raw = NoPrefix
    BY <2>1 DEF NoPrefix, Trim
  <2>2. CASE raw \in [name : {"US", "us", "ZZ"}, padded : BOOLEAN]
    BY <2>2 DEF Trim
  <2> QED BY <2>1, <2>2 DEF RawPrefixes
<1>2. StartsAt(raw) \in Nat
  BY ItemPageAssumption DEF StartsAt
<1> QED BY <1>1, <1>2 DEF prefillLabel, Labels, NoLabel

\* The label goes on following the prefix while the form does not change.
LEMMA LabelStays ==
  ASSUME LabelFollowsThePrefix, values' = values, labelEdited' = labelEdited, formKind' = formKind,
         editing' => editing
  PROVE  LabelFollowsThePrefix'
<1> SUFFICES ASSUME editing', formKind' = "magazine", ~labelEdited'
             PROVE  (values.label = prefillLabel([values.prefix EXCEPT !.padded = FALSE]))'
  BY DEF LabelFollowsThePrefix
<1>1. values.label = prefillLabel([values.prefix EXCEPT !.padded = FALSE])
  BY DEF LabelFollowsThePrefix
<1>2. values'.label = prefillLabel([values'.prefix EXCEPT !.padded = FALSE])
  BY <1>1
<1> QED BY <1>2

LEMMA RefreshIsACall == Request("refresh", NoGun, 0) \in ItemCall
<1>1. NoLabel \in Labels /\ NoPrefix \in RawPrefixes /\ NoGun \in Hosts
  BY DEF NoLabel, Labels, NoPrefix, RawPrefixes, Hosts
<1> QED BY <1>1 DEF Request, ItemCall, Numbers

LEMMA BlankIsAForm ==
  ASSUME NEW from \in ItemRows
  PROVE  /\ Blank(from) \in FormValues /\ Blank(from).base = from.mounts
         /\ Blank(from).date \in {0, from.date} /\ (~detail => Blank(from).date = 0)
         /\ Blank(from).label = prefillLabel([Blank(from).prefix EXCEPT !.padded = FALSE])
         /\ Blank(from).prefix \in RawPrefixes
<1>1. NoPrefix \in RawPrefixes /\ NoLabel \in Labels
  BY DEF RawPrefixes, NoPrefix, NoLabel, Labels
<1>2. prefillLabel([NoPrefix EXCEPT !.padded = FALSE]) = NoLabel
  BY DEF NoPrefix, NoLabel, prefillLabel, Trim
<1>3. from.mounts \in Nat /\ from.date \in Nat
  BY DEF ItemRows
<1>4. NoGun \in Hosts
  BY DEF Hosts
<1> QED BY <1>1, <1>2, <1>3, <1>4 DEF Blank, FormValues, Numbers

LEMMA ItemStarts == ItemInit => ItemInv
<1> SUFFICES ASSUME ItemInit PROVE ItemInv
  OBVIOUS
<1>1. PICK gun \in Hosts :
        itemRow = [version |-> 1, mount |-> gun, mounts |-> 1, date
          |-> IF gun = NoGun THEN 0 ELSE 1]
  BY DEF ItemInit, Hosts
<1>2. itemRow \in ItemRows /\ itemRow.mounts = 1 /\ itemRow.date \in {0, 1} /\ itemRow.version = 1
  BY <1>1 DEF ItemRows
<1>3. page = itemRow /\ values = Blank(page)
  BY DEF ItemInit
<1>4. /\ values \in FormValues /\ values.base = page.mounts /\ values.date \in {0, page.date}
      /\ (~detail => values.date = 0)
      /\ values.label = prefillLabel([values.prefix EXCEPT !.padded = FALSE])
      /\ values.prefix \in RawPrefixes
  BY <1>2, <1>3, BlankIsAForm
<1>5. itemCalls \in Seq(ItemCall) /\ DOMAIN itemCalls = {}
  BY EmptySeq DEF ItemInit
<1>6. itemRow # Gone
  BY <1>2 DEF Gone
<1>7. ItemPageTypeOK
  <2>1. formKind \in FormKinds /\ editing = FALSE /\ acts = 0
    BY DEF ItemInit
  <2>2. acts \in 0 .. MaxActs
    BY <2>1, ItemPageAssumption
  <2>3. itemRow.mount \in Guns \union {NoGun}
    BY <1>1 DEF Hosts
  <2> QED BY <1>4, <2>1, <2>2, <2>3 DEF ItemPageTypeOK
<1>8. ItemValuesInv
  BY <1>2, <1>3, <1>4, <1>5, <1>7 DEF ItemInit, ItemValuesInv
<1>9. messages = answered /\ FormIsTrue
  BY <1>4, <1>5 DEF ItemInit, FormIsTrue, MessagesAreOfTheLastSubmit, LabelFollowsThePrefix,
     SentIsMeant, HiddenDateIsForgotten
<1>10. MountsInv
  BY <1>2, <1>3, <1>4, <1>5, <1>6 DEF MountsInv, DateFits
<1>11. SeenInv
  BY <1>2, <1>3 DEF ItemInit, SeenInv
<1> QED BY <1>8, <1>9, <1>10, <1>11 DEF ItemInv

\* The form opens, or one of its fields is changed.
LEMMA FormChanges ==
  ASSUME ItemInv, values' \in FormValues, labelEdited' \in BOOLEAN, editing' \in BOOLEAN,
           acts' \in 0 .. MaxActs,
         messages' = answered',
         UNCHANGED <<formKind, detail, magpulMode, itemRow, page, itemCalls, mine, crossed>>,
         control' \in Nat,
         \/ values'.base = values.base /\ values'.date \in {values.date, 0, page.mounts}
         \/ values'.base = page.mounts /\ values'.date \in {0, page.date},
         HiddenDateIsForgotten',
         editing' /\ formKind = "magazine" /\ ~labelEdited' =>
           values'.label = prefillLabel([values'.prefix EXCEPT !.padded = FALSE])
  PROVE  ItemInv'
<1>1. ItemPageTypeOK' /\ ItemValuesInv'
  BY DEF ItemInv, ItemValuesInv, ItemPageTypeOK, FormValues
<1>2. FormIsTrue'
  BY DEF ItemInv, FormIsTrue, MessagesAreOfTheLastSubmit, LabelFollowsThePrefix, SentIsMeant,
     prefillLabel, Trim, StartsAt
<1>3. SeenInv'
  BY DEF ItemInv, SeenInv
<1>4. MountsInv'
  <2>1. itemRow # Gone => values'.base <= page.mounts
    BY DEF ItemInv, MountsInv, ItemValuesInv, ItemRows
  <2>2. itemRow # Gone /\ ~crossed => values'.date \in {0, values'.base}
          \/ values'.base < itemRow.mounts
    BY DEF ItemInv, MountsInv, DateFits, ItemValuesInv, ItemRows, FormValues
  <2> QED BY <2>1, <2>2 DEF ItemInv, MountsInv, DateFits
<1> QED BY <1>1, <1>2, <1>3, <1>4 DEF ItemInv

\* A call joins the queue, or the row is asked about.
LEMMA CallIsSent ==
  ASSUME ItemInv, NEW c \in ItemCall, itemCalls' = Append(itemCalls, c),
         UNCHANGED <<formKind, detail, magpulMode, itemRow, page, editing, values, labelEdited,
                     control, mine, crossed>>,
         acts' \in 0 .. MaxActs, messages' = answered',
         c.kind = "save" => /\ c.number = 0 => c.text = "zero"
                            /\ ~detail /\ c.date # 0 => c.gun # NoGun
                            /\ c.base = values.base /\ c.date \in {0, values.date}
  PROVE  ItemInv'
<1> DEFINE n == Len(itemCalls) + 1
<1>1. itemCalls \in Seq(ItemCall)
  BY DEF ItemInv, ItemValuesInv
<1>2. /\ itemCalls' \in Seq(ItemCall) /\ DOMAIN itemCalls' = DOMAIN itemCalls \union {n}
      /\ itemCalls'[n] = c /\ \A i \in DOMAIN itemCalls : itemCalls'[i] = itemCalls[i]
  BY <1>1, Added
<1> HIDE DEF n
<1>3. ItemValuesInv'
  BY <1>2 DEF ItemInv, ItemValuesInv, ItemPageTypeOK
<1>4. FormIsTrue'
  <2>1. SentIsMeant'
    <3>1. \A i \in DOMAIN itemCalls' : i = n \/ (i \in DOMAIN itemCalls
            /\ itemCalls'[i] = itemCalls[i])
      BY <1>2
    <3> QED BY <1>2, <3>1 DEF ItemInv, FormIsTrue, SentIsMeant
  <2>2. MessagesAreOfTheLastSubmit'
    BY DEF MessagesAreOfTheLastSubmit
  <2>3. LabelFollowsThePrefix'
    <3>1. LabelFollowsThePrefix
      BY DEF ItemInv, FormIsTrue
    <3>2. values' = values /\ labelEdited' = labelEdited /\ formKind' = formKind
          /\ editing' = editing
      OBVIOUS
    <3> QED BY <3>1, <3>2, LabelStays
  <2>4. HiddenDateIsForgotten'
    BY DEF ItemInv, FormIsTrue, HiddenDateIsForgotten
  <2> QED BY <2>1, <2>2, <2>3, <2>4 DEF FormIsTrue
<1>5. SeenInv'
  BY <1>2 DEF ItemInv, SeenInv
<1>6. MountsInv'
  BY <1>2 DEF ItemInv, MountsInv, DateFits
<1> QED BY <1>3, <1>4, <1>5, <1>6 DEF ItemInv

\* What is left of the queue when its first call was answered.
LEMMA CallsAreLeft ==
  ASSUME itemCalls \in Seq(ItemCall), itemCalls # <<>>
  PROVE  /\ Head(itemCalls) = itemCalls[1] /\ 1 \in DOMAIN itemCalls /\ itemCalls[1] \in ItemCall
         /\ \A q \in {Tail(itemCalls), Tail(itemCalls) \o OnDone} :
              /\ q \in Seq(ItemCall)
              /\ \A i \in DOMAIN q : \/ q[i].kind = "refresh"
                                     \/ \E j \in DOMAIN itemCalls : q[i] = itemCalls[j]
              /\ \/ \E i \in DOMAIN q : q[i].kind = "refresh"
                 \/ /\ q = Tail(itemCalls)
                    /\ itemCalls[1].kind # "refresh" =>
                         \A i \in DOMAIN itemCalls : itemCalls[i].kind # "refresh"
<1> DEFINE rest == Tail(itemCalls)
           c == Request("refresh", NoGun, 0)
           n == Len(rest) + 1
<1>1. /\ 1 \in DOMAIN itemCalls /\ Head(itemCalls) = itemCalls[1] /\ rest \in Seq(ItemCall)
      /\ Len(rest) = Len(itemCalls) - 1
      /\ \A i \in DOMAIN rest : i \in Nat /\ i + 1 \in DOMAIN itemCalls
           /\ rest[i] = itemCalls[i + 1]
  BY Taken
<1>2. Len(itemCalls) \in Nat /\ DOMAIN itemCalls = 1 .. Len(itemCalls)
        /\ \A i \in DOMAIN itemCalls : itemCalls[i] \in ItemCall
  BY Queues
<1>3. DOMAIN rest = 1 .. Len(rest)
  BY <1>1, Queues
<1>4. ASSUME NEW j \in DOMAIN itemCalls, j # 1 PROVE \E i \in DOMAIN rest : rest[i] = itemCalls[j]
  <2>1. j - 1 \in DOMAIN rest /\ (j - 1) + 1 = j
    BY <1>1, <1>2, <1>3, <1>4
  <2> QED BY <1>1, <2>1
<1>5. c \in ItemCall /\ c.kind = "refresh"
  <2>1. c.kind = "refresh"
    BY DEF Request
  <2> QED BY <2>1, RefreshIsACall
<1> HIDE DEF c
<1>6. /\ rest \o <<c>> \in Seq(ItemCall) /\ DOMAIN (rest \o <<c>>) = DOMAIN rest \union {n}
      /\ (rest \o <<c>>)[n] = c /\ \A i \in DOMAIN rest : (rest \o <<c>>)[i] = rest[i]
  BY <1>1, <1>5, Added
<1>7. OnDone = <<c>>
  BY DEF OnDone, RefreshItem, c
<1> HIDE DEF rest, n
<1>8. \A i \in DOMAIN rest : \E j \in DOMAIN itemCalls : rest[i] = itemCalls[j]
  BY <1>1
<1>9. \/ \E i \in DOMAIN rest : rest[i].kind = "refresh"
      \/ itemCalls[1].kind # "refresh" => \A i \in DOMAIN itemCalls : itemCalls[i].kind # "refresh"
  BY <1>4
<1>10. /\ \A i \in DOMAIN (rest \o <<c>>) :
            \/ (rest \o <<c>>)[i].kind = "refresh"
            \/ \E j \in DOMAIN itemCalls : (rest \o <<c>>)[i] = itemCalls[j]
       /\ \E i \in DOMAIN (rest \o <<c>>) : (rest \o <<c>>)[i].kind = "refresh"
  BY <1>5, <1>6, <1>8
<1>11. \A q \in {rest, rest \o OnDone} : q = rest \/ q = rest \o <<c>>
  BY <1>7
<1>12. 1 \in DOMAIN itemCalls /\ itemCalls[1] \in ItemCall /\ Head(itemCalls) = itemCalls[1]
  BY <1>1, <1>2
<1>13. \A q \in {rest, rest \o OnDone} :
         /\ q \in Seq(ItemCall)
         /\ \A i \in DOMAIN q : q[i].kind = "refresh"
              \/ \E j \in DOMAIN itemCalls : q[i] = itemCalls[j]
         /\ \/ \E i \in DOMAIN q : q[i].kind = "refresh"
            \/ /\ q = rest
               /\ itemCalls[1].kind # "refresh"
                    => \A i \in DOMAIN itemCalls : itemCalls[i].kind # "refresh"
  <2> SUFFICES ASSUME NEW q \in {rest, rest \o OnDone}
               PROVE  /\ q \in Seq(ItemCall)
                      /\ \A i \in DOMAIN q : \/ q[i].kind = "refresh"
                                             \/ \E j \in DOMAIN itemCalls : q[i] = itemCalls[j]
                      /\ \/ \E i \in DOMAIN q : q[i].kind = "refresh"
                         \/ /\ q = rest
                            /\ itemCalls[1].kind # "refresh" =>
                                 \A i \in DOMAIN itemCalls : itemCalls[i].kind # "refresh"
    OBVIOUS
  <2>1. CASE q = rest
    BY <1>1, <1>8, <1>9, <2>1
  <2>2. CASE q = rest \o <<c>>
    BY <1>6, <1>10, <2>2
  <2> QED BY <1>11, <2>1, <2>2
<1> QED BY <1>12, <1>13 DEF rest

\* The form and the queue after an answer.
LEMMA AnswerIsMeant ==
  ASSUME ItemInv, itemCalls # <<>>, itemCalls' \in {Tail(itemCalls), Tail(itemCalls) \o OnDone},
         UNCHANGED <<formKind, detail, values, labelEdited>>, editing' => editing,
           messages' = answered'
  PROVE  FormIsTrue'
<1>1. itemCalls \in Seq(ItemCall)
  BY DEF ItemInv, ItemValuesInv
<1>2. \A i \in DOMAIN itemCalls' : \/ itemCalls'[i].kind = "refresh"
                                   \/ \E j \in DOMAIN itemCalls : itemCalls'[i] = itemCalls[j]
  BY <1>1, CallsAreLeft
<1>3. SentIsMeant'
  BY <1>2 DEF ItemInv, FormIsTrue, SentIsMeant
<1>4. MessagesAreOfTheLastSubmit'
  BY DEF MessagesAreOfTheLastSubmit
<1>5. LabelFollowsThePrefix'
  <2>1. LabelFollowsThePrefix
    BY DEF ItemInv, FormIsTrue
  <2>2. values' = values /\ labelEdited' = labelEdited /\ formKind' = formKind /\ (editing'
          => editing)
    OBVIOUS
  <2> QED BY <2>1, <2>2, LabelStays
<1>6. HiddenDateIsForgotten'
  BY DEF ItemInv, FormIsTrue, HiddenDateIsForgotten
<1> QED BY <1>3, <1>4, <1>5, <1>6 DEF FormIsTrue

\* The row and the page after an answer: dates fit the mounts the row has had.
LEMMA MountsStand ==
  ASSUME ItemInv, itemCalls # <<>>, itemCalls' \in {Tail(itemCalls), Tail(itemCalls) \o OnDone,
           itemCalls},
         UNCHANGED values, page' \in {page, itemRow}, itemRow' \in ItemRows, itemRow # Gone,
         itemRow'.mounts >= itemRow.mounts, page' # Gone,
         crossed => crossed', ~crossed' => itemRow'.date \in {0, itemRow'.mounts}
  PROVE  MountsInv'
<1>1. itemCalls \in Seq(ItemCall) /\ itemRow \in ItemRows /\ page \in ItemRows
      /\ values \in FormValues
  BY DEF ItemInv, ItemValuesInv
<1>2. \A i \in DOMAIN itemCalls' : \/ itemCalls'[i].kind = "refresh"
                                   \/ \E j \in DOMAIN itemCalls : itemCalls'[i] = itemCalls[j]
  BY <1>1, CallsAreLeft
<1>3. \A i \in DOMAIN itemCalls : itemCalls[i] \in ItemCall
  BY <1>1, Queues
<1>4. /\ itemRow.mounts \in Nat /\ itemRow'.mounts \in Nat /\ page.mounts \in Nat
      /\ values.base \in Nat
      /\ \A i \in DOMAIN itemCalls : itemCalls[i].base \in Nat
  BY <1>1, <1>3 DEF ItemRows, FormValues, ItemCall
<1>5. page'.mounts \in Nat /\ values'.base <= page'.mounts /\ page'.mounts <= itemRow'.mounts
  BY <1>4 DEF ItemInv, MountsInv
<1>6. ~crossed' => page'.date \in {0, page'.mounts} /\ DateFits(values.date, values.base)'
  BY <1>4 DEF ItemInv, MountsInv, DateFits
<1>7. ASSUME ~crossed', NEW i \in DOMAIN itemCalls', itemCalls'[i].kind = "save"
      PROVE  DateFits(itemCalls[i].date, itemCalls[i].base)'
  <2>1. PICK j \in DOMAIN itemCalls : itemCalls'[i] = itemCalls[j]
    BY <1>2, <1>7
  <2>2. itemCalls[j].date \in {0, itemCalls[j].base} \/ itemCalls[j].base < itemRow.mounts
    BY <1>7, <2>1 DEF ItemInv, MountsInv, DateFits
  <2> QED BY <1>4, <2>1, <2>2 DEF DateFits
<1> QED BY <1>5, <1>6, <1>7 DEF MountsInv

\* The actions.
LEMMA ValuesAreSet ==
  ASSUME ItemInv, NEW v \in FormValues, NEW edited \in BOOLEAN, SetValues(v, edited),
         v.base = values.base, v.date \in {values.date, 0, page.mounts},
         formKind = "accessory" /\ ~detail /\ v.mount = NoGun => v.date = 0,
         formKind = "magazine" /\ ~edited
           => v.label = prefillLabel([v.prefix EXCEPT !.padded = FALSE])
  PROVE  ItemInv'
<1>1. /\ values' = v /\ labelEdited' = edited /\ acts' \in 0 .. MaxActs /\ messages' = answered'
      /\ UNCHANGED <<formKind, detail, magpulMode, itemRow, page, itemCalls, mine, crossed, editing,
           control>>
  BY ItemPageAssumption DEF SetValues, Acts, ItemFree, ItemInv, ItemValuesInv, ItemPageTypeOK
<1>2. editing' \in BOOLEAN /\ control' \in Nat
  BY <1>1 DEF ItemInv, ItemValuesInv, ItemPageTypeOK
<1>3. HiddenDateIsForgotten'
  BY <1>1 DEF HiddenDateIsForgotten
<1> QED BY <1>1, <1>2, <1>3, FormChanges

LEMMA FieldsAreTyped ==
  ASSUME ItemInv,
         \/ \E text \in Numbers : TypeField(text)
         \/ \E date \in {0, page.mounts} : TypeDate(date)
         \/ \E gun \in Hosts : PickHost(gun)
         \/ \E mode \in {"single", "bulk"} : PickMode(mode)
         \/ TypeLabel
  PROVE  ItemInv'
<1>1. /\ values \in FormValues /\ values.base = values.base /\ page.mounts \in Nat
      /\ labelEdited \in BOOLEAN
      /\ values.date \in Nat
  BY DEF ItemInv, ItemValuesInv, ItemRows, FormValues
<1>2. editing /\ formKind = "magazine" /\ ~labelEdited =>
         values.label = prefillLabel([values.prefix EXCEPT !.padded = FALSE])
  BY DEF ItemInv, FormIsTrue, LabelFollowsThePrefix
<1>9. formKind = "accessory" /\ ~detail /\ values.mount = NoGun => values.date = 0
  BY DEF ItemInv, FormIsTrue, HiddenDateIsForgotten
<1>3. ASSUME NEW v, SetValues(v, labelEdited), v \in FormValues, v.base = values.base,
             v.label = values.label, v.prefix = values.prefix,
             formKind = "accessory" /\ ~detail /\ v.mount = NoGun => v.date = 0,
             v.date \in {values.date, 0, page.mounts}
      PROVE  ItemInv'
  <2>1. editing
    BY <1>3 DEF SetValues
  <2> QED BY <1>1, <1>2, <1>3, <2>1, ValuesAreSet
<1>4. ASSUME NEW text \in Numbers, TypeField(text) PROVE ItemInv'
  <2>1. [values EXCEPT !.number = text] \in FormValues
    BY <1>1 DEF FormValues
  <2>2. /\ [values EXCEPT !.number = text].base = values.base
        /\ [values EXCEPT !.number = text].date = values.date
        /\ [values EXCEPT !.number = text].mount = values.mount
        /\ [values EXCEPT !.number = text].label = values.label
        /\ [values EXCEPT !.number = text].prefix = values.prefix
    BY <1>1 DEF FormValues
  <2> QED BY <1>3, <1>4, <1>9, <2>1, <2>2 DEF TypeField
<1>5. ASSUME NEW date \in {0, page.mounts}, TypeDate(date) PROVE ItemInv'
  <2>1. [values EXCEPT !.date = date] \in FormValues
    BY <1>1 DEF FormValues
  <2>2. /\ [values EXCEPT !.date = date].base = values.base
        /\ [values EXCEPT !.date = date].date = date
        /\ [values EXCEPT !.date = date].mount = values.mount
        /\ [values EXCEPT !.date = date].label = values.label
        /\ [values EXCEPT !.date = date].prefix = values.prefix
    BY <1>1 DEF FormValues
  <2> QED BY <1>3, <1>5, <2>1, <2>2 DEF TypeDate, isMounted
<1>6. ASSUME NEW gun \in Hosts, PickHost(gun) PROVE ItemInv'
  <2>1. PICK date \in {0, values.date} : date = (IF gun = NoGun THEN 0 ELSE values.date)
    OBVIOUS
  <2> DEFINE v == [values EXCEPT !.mount = gun, !.date = date]
  <2>2. SetValues(v, labelEdited)
    BY <1>1, <1>6, <2>1 DEF PickHost, FormValues
  <2>3. date \in Nat
    BY <1>1, <2>1
  <2>4. v \in FormValues
    BY <1>1, <2>3 DEF FormValues
  <2>5. v.base = values.base /\ v.date = date /\ v.mount = gun
    BY <1>1 DEF FormValues
  <2>6. v.label = values.label /\ v.prefix = values.prefix
    BY <1>1 DEF FormValues
  <2> HIDE DEF v
  <2> QED BY <1>3, <2>1, <2>2, <2>4, <2>5, <2>6
<1>7. ASSUME NEW mode \in {"single", "bulk"}, PickMode(mode) PROVE ItemInv'
  <2>1. [values EXCEPT !.mode = mode] \in FormValues
    BY <1>1 DEF FormValues
  <2>2. /\ [values EXCEPT !.mode = mode].base = values.base
        /\ [values EXCEPT !.mode = mode].date = values.date
        /\ [values EXCEPT !.mode = mode].mount = values.mount
        /\ [values EXCEPT !.mode = mode].label = values.label
        /\ [values EXCEPT !.mode = mode].prefix = values.prefix
    BY <1>1 DEF FormValues
  <2> QED BY <1>3, <1>7, <1>9, <2>1, <2>2 DEF PickMode
<1>8. CASE TypeLabel
  <2>1. [values EXCEPT !.label = Typed] \in FormValues
    BY <1>1 DEF FormValues, Typed, Labels
  <2>2. /\ [values EXCEPT !.label = Typed].base = values.base
        /\ [values EXCEPT !.label = Typed].date = values.date
        /\ [values EXCEPT !.label = Typed].mount = values.mount
    BY <1>1 DEF FormValues
  <2> QED BY <1>8, <1>9, <2>1, <2>2, ValuesAreSet DEF TypeLabel
<1> QED BY <1>4, <1>5, <1>6, <1>7, <1>8

\* The prefix is typed; the label follows it until the user writes one himself.
LEMMA PrefixIsTyped == ASSUME ItemInv, NEW raw \in RawPrefixes, TypePrefix(raw) PROVE ItemInv'
<1> DEFINE prefix == filterPrefix(raw)
           one == [values EXCEPT !.prefix = prefix, !.label = prefillLabel(prefix)]
           many == [values EXCEPT !.prefix = prefix]
<1>1. prefix \in RawPrefixes
  <2>1. CASE raw = NoPrefix
    BY <2>1 DEF filterPrefix, RawPrefixes, NoPrefix
  <2>2. CASE raw \in [name : {"US", "us", "ZZ"}, padded : BOOLEAN]
    BY <2>2 DEF filterPrefix, RawPrefixes, NoPrefix
  <2> QED BY <2>1, <2>2 DEF RawPrefixes
<1>2. prefillLabel(prefix) \in Labels
  BY <1>1, PrefilledIsALabel
<1>3. prefillLabel([prefix EXCEPT !.padded = FALSE]) = prefillLabel(prefix)
  <2>1. [prefix EXCEPT !.padded = FALSE].name = prefix.name
    BY <1>1 DEF RawPrefixes, NoPrefix
  <2> HIDE DEF prefix
  <2> QED BY <2>1 DEF prefillLabel, Trim, StartsAt
<1>4. values \in FormValues
  BY DEF ItemInv, ItemValuesInv
<1> HIDE DEF prefix
<1>5. /\ one \in FormValues /\ one.base = values.base /\ one.date = values.date
      /\ one.mount = values.mount
      /\ one.prefix = prefix /\ one.label = prefillLabel(prefix)
  BY <1>1, <1>2, <1>4 DEF FormValues
<1>6. many \in FormValues /\ many.base = values.base /\ many.date = values.date
      /\ many.mount = values.mount
  BY <1>1, <1>4 DEF FormValues
<1>7. SetValues(one, FALSE) \/ SetValues(many, TRUE)
  BY DEF TypePrefix, prefix
<1> HIDE DEF one, many
<1>10. formKind = "accessory" /\ ~detail /\ values.mount = NoGun => values.date = 0
  BY DEF ItemInv, FormIsTrue, HiddenDateIsForgotten
<1>8. CASE SetValues(one, FALSE)
  BY <1>3, <1>5, <1>8, <1>10, ValuesAreSet
<1>9. CASE SetValues(many, TRUE)
  BY <1>6, <1>9, <1>10, ValuesAreSet
<1> QED BY <1>7, <1>8, <1>9

LEMMA FormOpens == ASSUME ItemInv, EditItem PROVE ItemInv'
<1>4. PICK gun \in PresetHosts : values' = [Blank(page) EXCEPT !.mount = gun]
  BY DEF EditItem, InitialValues
<1>5. gun \in Hosts
  BY DEF PresetHosts, Hosts
<1>1. /\ page \in ItemRows /\ page # Gone /\ messages' = answered'
      /\ labelEdited' = FALSE
      /\ editing' = TRUE /\ acts' \in 0 .. MaxActs
      /\ UNCHANGED <<formKind, detail, magpulMode, itemRow, page, itemCalls, mine, crossed,
           control>>
  BY ItemPageAssumption DEF EditItem, Acts, ItemFree, ItemInv, ItemValuesInv, ItemPageTypeOK
<1>2. control' \in Nat /\ editing' \in BOOLEAN /\ labelEdited' \in BOOLEAN
  BY <1>1 DEF ItemInv, ItemValuesInv
<1>3. /\ values' \in FormValues /\ values'.base = page.mounts
      /\ values'.date \in {0, page.date} /\ (~detail => values'.date = 0)
      /\ values'.label = prefillLabel([values'.prefix EXCEPT !.padded = FALSE])
  <2>1. /\ Blank(page) \in FormValues /\ Blank(page).base = page.mounts
        /\ Blank(page).date \in {0, page.date} /\ (~detail => Blank(page).date = 0)
        /\ Blank(page).label = prefillLabel([Blank(page).prefix EXCEPT !.padded = FALSE])
    BY <1>1, BlankIsAForm
  <2>2. /\ values' \in FormValues /\ values'.base = Blank(page).base
        /\ values'.date = Blank(page).date /\ values'.label = Blank(page).label
        /\ values'.prefix = Blank(page).prefix
    BY <1>4, <1>5, <2>1 DEF FormValues
  <2> QED BY <2>1, <2>2
<1>6. HiddenDateIsForgotten'
  BY <1>1, <1>3 DEF HiddenDateIsForgotten
<1> QED BY <1>1, <1>2, <1>3, <1>6, FormChanges

\* The dialog of the deletion, and the form that is given up.
LEMMA FormCloses ==
  ASSUME ItemInv, CancelItem \/ AskRemove \/ KeepItem \/ UNCHANGED itemVars
  PROVE  ItemInv'
<1>1. /\ UNCHANGED <<values, messages, answered, labelEdited>> /\ editing' \in {editing, FALSE}
      /\ control' \in {control, control + 1}
      /\ UNCHANGED <<formKind, detail, magpulMode, itemRow, page, itemCalls, mine, crossed>>
  BY DEF CancelItem, CloseItemForm, AskRemove, KeepItem, itemVars, Acts, ItemFree, formPart
<1>5. acts' \in 0 .. MaxActs
  <2>1. acts \in 0 .. MaxActs
    BY DEF ItemInv, ItemValuesInv, ItemPageTypeOK
  <2>2. acts' = acts \/ (acts < MaxActs /\ acts' = acts + 1)
    BY DEF CancelItem, AskRemove, KeepItem, itemVars, Acts, ItemFree
  <2> QED BY <2>1, <2>2, ItemPageAssumption
<1>2. values' \in FormValues /\ labelEdited' \in BOOLEAN /\ editing' \in BOOLEAN /\ control' \in Nat
  <2>1. values \in FormValues /\ labelEdited \in BOOLEAN /\ editing \in BOOLEAN /\ control \in Nat
    BY DEF ItemInv, ItemValuesInv, ItemPageTypeOK
  <2>2. control' \in Nat
    BY <1>1, <2>1
  <2>3. editing' \in BOOLEAN
    BY <1>1, <2>1
  <2> QED BY <1>1, <2>1, <2>2, <2>3
<1>3. editing' /\ formKind = "magazine" /\ ~labelEdited' =>
           values'.label = prefillLabel([values'.prefix EXCEPT !.padded = FALSE])
  BY <1>1 DEF ItemInv, FormIsTrue, LabelFollowsThePrefix, ItemValuesInv, ItemPageTypeOK
<1>4. messages' = answered' /\ HiddenDateIsForgotten'
  BY <1>1 DEF ItemInv, FormIsTrue, HiddenDateIsForgotten
<1> QED BY <1>1, <1>2, <1>3, <1>4, <1>5, FormChanges

\* Save sends what the form holds and forgets the answer before.
LEMMA FormIsSent == ASSUME ItemInv, SubmitItem PROVE ItemInv'
<1> DEFINE c == [kind |-> "save", text |-> values.number, number |-> num(values.number),
                 gun |-> values.mount, date |-> IF isMounted THEN values.date ELSE 0,
                 base |-> values.base, label |-> values.label, prefix |-> values.prefix,
                 mode |-> values.mode, edited |-> labelEdited]
<1>1. /\ itemCalls' = IF Found THEN itemCalls ELSE Append(itemCalls, c)
      /\ messages' = answered' /\ acts' \in 0 .. MaxActs /\ acts \in 0 .. MaxActs
      /\ UNCHANGED <<formKind, detail, magpulMode, itemRow, page, editing, values, labelEdited,
           control,
                     mine, crossed>>
  BY ItemPageAssumption
  DEF SubmitItem, Acts, ItemFree, MessagesAtSubmit, ItemInv, ItemValuesInv, ItemPageTypeOK
<1>2. /\ values \in FormValues /\ labelEdited \in BOOLEAN /\ editing \in BOOLEAN /\ control \in Nat
      /\ formKind \in FormKinds
  BY DEF ItemInv, ItemValuesInv, ItemPageTypeOK
<1>3. CASE Found
  <2>1. itemCalls' = itemCalls
    BY <1>1, <1>3
  <2>2. editing' /\ formKind = "magazine" /\ ~labelEdited' =>
           values'.label = prefillLabel([values'.prefix EXCEPT !.padded = FALSE])
    BY <1>1 DEF ItemInv, FormIsTrue, LabelFollowsThePrefix
  <2>3. HiddenDateIsForgotten'
    BY <1>1 DEF ItemInv, FormIsTrue, HiddenDateIsForgotten
  <2> QED BY <1>1, <1>2, <2>1, <2>2, <2>3, FormChanges
<1>4. CASE ~Found
  <2>1. num(values.number) \in Int /\ (num(values.number) = 0 => values.number = "zero")
    <3>1. values.number \in {"", "zero", "some", "invalid"}
      BY <1>2 DEF FormValues, Numbers
    <3>2. CASE values.number = ""
      <4>1. num(values.number) \in {NaN, Null}
        BY <3>2 DEF num
      <4> QED BY <4>1 DEF NaN, Null
    <3>3. CASE values.number = "zero"
      BY <3>3 DEF num
    <3>4. CASE values.number \in {"some", "invalid"}
      <4>1. num(values.number) = 5
        BY <3>4 DEF num
      <4> QED BY <4>1
    <3> QED BY <3>1, <3>2, <3>3, <3>4
  <2>2. c \in ItemCall
    BY <1>2, <2>1 DEF ItemCall, FormValues
  <2>3. ~detail /\ c.date # 0 => c.gun # NoGun
    BY DEF isMounted
  <2>4. /\ c.number = 0 => c.text = "zero"
        /\ c.base = values.base /\ c.date \in {0, values.date} /\ itemCalls' = Append(itemCalls, c)
    BY <1>1, <1>4, <2>1
  <2> HIDE DEF c
  <2> QED BY <1>1, <2>2, <2>3, <2>4, CallIsSent
<1> QED BY <1>3, <1>4

LEMMA OtherCallsAreSent ==
  ASSUME ItemInv, RemoveItem \/ \E gun \in Hosts : MountOn(gun)
  PROVE  ItemInv'
<1>1. PICK gun \in Hosts, kind \in {"mount", "remove"}, n \in {0, control} :
        itemCalls' = Append(itemCalls, Request(kind, gun, n))
  BY DEF RemoveItem, MountOn, Hosts
<1>2. /\ acts' \in 0 .. MaxActs
      /\ UNCHANGED <<formKind, detail, magpulMode, itemRow, page, editing, values, labelEdited,
           control,
                     mine, crossed, messages, answered>>
  BY ItemPageAssumption
  DEF RemoveItem, MountOn, formPart, Acts, ItemFree, ItemInv, ItemValuesInv, ItemPageTypeOK
<1>3. n \in Nat /\ messages' = answered'
  BY <1>2 DEF ItemInv, ItemValuesInv
<1>4. Request(kind, gun, n) \in ItemCall /\ Request(kind, gun, n).kind # "save"
  <2>1. NoLabel \in Labels /\ NoPrefix \in RawPrefixes
    BY DEF NoLabel, Labels, NoPrefix, RawPrefixes
  <2> QED BY <1>3, <2>1 DEF Request, ItemCall, Numbers
<1> QED BY <1>1, <1>2, <1>3, <1>4, CallIsSent

\* The answers.  A write of the user's is followed by a refresh.
LEMMA AnswerIsTyped ==
  ASSUME ItemInv, itemCalls # <<>>, itemCalls' \in {Tail(itemCalls), Tail(itemCalls) \o OnDone},
         UNCHANGED <<formKind, detail, magpulMode, acts, values, labelEdited>>,
         itemRow' \in ItemRows, page' \in {page, itemRow}, editing' \in {editing, FALSE},
           crossed' \in BOOLEAN,
         control' \in {control, control + 1}, mine' \in Nat
  PROVE  ItemValuesInv'
<1>1. itemCalls \in Seq(ItemCall)
  BY DEF ItemInv, ItemValuesInv
<1>2. itemCalls' \in Seq(ItemCall)
  BY <1>1, CallsAreLeft
<1>5. editing \in BOOLEAN /\ control \in Nat /\ page \in ItemRows /\ itemRow \in ItemRows
  BY DEF ItemInv, ItemValuesInv, ItemPageTypeOK
<1>6. editing' \in BOOLEAN
  BY <1>5
<1>3. editing' \in BOOLEAN /\ control' \in Nat /\ page' \in ItemRows
  BY <1>5, <1>6
<1>4. itemRow'.mount \in Guns \union {NoGun}
  BY DEF ItemRows, Hosts
<1> QED BY <1>2, <1>3, <1>4 DEF ItemInv, ItemValuesInv, ItemPageTypeOK

\* After a write, or with nothing written, the page was shown what it must show or will be.
LEMMA SeenStands ==
  ASSUME ItemInv, itemCalls # <<>>, itemCalls[1].kind # "refresh", page' = page,
         \/ mine' = mine /\ itemRow' = itemRow /\ itemCalls' \in {Tail(itemCalls),
              Tail(itemCalls) \o OnDone}
         \/ mine' <= itemRow'.version /\ itemCalls' = Tail(itemCalls) \o OnDone
  PROVE  SeenInv'
<1>1. itemCalls \in Seq(ItemCall)
  BY DEF ItemInv, ItemValuesInv
<1>2. \/ \E i \in DOMAIN itemCalls' : itemCalls'[i].kind = "refresh"
      \/ /\ itemCalls' = Tail(itemCalls)
         /\ \A i \in DOMAIN itemCalls : itemCalls[i].kind # "refresh"
  BY <1>1, CallsAreLeft
<1>3. Tail(itemCalls) # Tail(itemCalls) \o OnDone
  <2>1. Tail(itemCalls) \in Seq(ItemCall) /\ Tail(itemCalls) \o OnDone \in Seq(ItemCall)
    BY <1>1, CallsAreLeft
  <2>2. Request("refresh", NoGun, 0) \in {Request("refresh", NoGun, 0)} \union ItemCall
    OBVIOUS
  <2>3. Tail(itemCalls) \in Seq({Request("refresh", NoGun, 0)} \union ItemCall)
    BY <2>1
  <2>4. Len(Tail(itemCalls) \o OnDone) = Len(Tail(itemCalls)) + 1 /\ Len(Tail(itemCalls)) \in Nat
    BY <2>2, <2>3, Added, Queues DEF OnDone, RefreshItem
  <2> QED BY <2>4
<1>4. CASE mine' = mine /\ itemRow' = itemRow
  BY <1>2, <1>4 DEF ItemInv, SeenInv
<1>5. CASE mine' <= itemRow'.version /\ itemCalls' = Tail(itemCalls) \o OnDone
  BY <1>2, <1>3, <1>5 DEF SeenInv
<1> QED BY <1>4, <1>5

\* An answer that changes nothing but what the form says.
LEMMA NothingIsWritten ==
  ASSUME ItemInv, itemCalls # <<>>, itemCalls[1].kind # "refresh", itemCalls' = Tail(itemCalls),
         UNCHANGED <<formKind, detail, magpulMode, acts, itemOthers>>,
         UNCHANGED <<itemRow, page, editing, values, labelEdited, control, mine, crossed>>,
         messages' = answered'
  PROVE  ItemInv'
<1>1. /\ itemRow \in ItemRows /\ crossed \in BOOLEAN /\ mine \in Nat /\ editing \in BOOLEAN
      /\ itemRow.mounts \in Nat
  BY DEF ItemInv, ItemValuesInv, ItemPageTypeOK, ItemRows
<1>2. ItemValuesInv' /\ FormIsTrue'
  BY <1>1, AnswerIsTyped, AnswerIsMeant
<1>3. SeenInv'
  BY SeenStands
<1>4. CASE itemRow # Gone
  <2>1. page' # Gone /\ (~crossed' => itemRow'.date \in {0, itemRow'.mounts})
          /\ itemRow'.mounts >= itemRow.mounts
    BY <1>1, <1>4 DEF ItemInv, MountsInv
  <2>2. MountsInv'
    BY <1>1, <1>4, <2>1, MountsStand
  <2> QED BY <1>2, <1>3, <2>2 DEF ItemInv
<1>5. CASE itemRow = Gone
  BY <1>2, <1>3, <1>5 DEF ItemInv, MountsInv, Gone
<1> QED BY <1>4, <1>5
\* What a write makes of a row.
LEMMA RowIsSaved ==
  ASSUME NEW row \in ItemRows, NEW c, c.date \in Nat
  PROVE  /\ SavedRow(row, c) \in ItemRows /\ SavedRow(row, c).version = row.version + 1
         /\ SavedRow(row, c).mounts = row.mounts /\ SavedRow(row, c).date \in {0, c.date}
<1>1. PICK v \in Nat, d \in Nat :
        v = row.version + 1 /\ d = (IF row.mount = NoGun THEN 0 ELSE c.date) /\ d \in {0, c.date}
  BY DEF ItemRows
<1> DEFINE r == [row EXCEPT !.version = v, !.date = d]
<1>2. SavedRow(row, c) = r
  BY <1>1 DEF SavedRow
<1>3. r \in ItemRows /\ r.version = v /\ r.mounts = row.mounts /\ r.date = d
  BY DEF ItemRows
<1> HIDE DEF r
<1> QED BY <1>1, <1>2, <1>3

LEMMA RowIsMounted ==
  ASSUME NEW row \in ItemRows, NEW gun \in Hosts
  PROVE  /\ MountedRow(row, gun) \in ItemRows /\ MountedRow(row, gun).version = row.version + 1
         /\ MountedRow(row, gun).mounts = row.mounts + 1
         /\ MountedRow(row, gun).date \in {0, row.mounts + 1}
<1>1. PICK v \in Nat, k \in Nat, d \in Nat :
        /\ v = row.version + 1 /\ k = row.mounts + 1
        /\ d = (IF gun = NoGun THEN 0 ELSE row.mounts + 1) /\ d \in {0, row.mounts + 1}
  BY DEF ItemRows
<1> DEFINE r == [row EXCEPT !.version = v, !.mount = gun, !.mounts = k, !.date = d]
<1>2. MountedRow(row, gun) = r
  BY <1>1 DEF MountedRow
<1>3. r \in ItemRows /\ r.version = v /\ r.mounts = k /\ r.date = d
  BY DEF ItemRows
<1> HIDE DEF r
<1> QED BY <1>1, <1>2, <1>3

\* The answers, one kind of call each.
LEMMA SaveIsAnswered ==
  ASSUME ItemInv, itemCalls # <<>>, itemCalls[1].kind = "save", SaveAnswered(itemCalls[1]),
         UNCHANGED <<formKind, detail, magpulMode, acts, itemOthers>>
  PROVE  ItemInv'
<1> DEFINE c == itemCalls[1]
<1>1. /\ itemCalls \in Seq(ItemCall) /\ itemRow \in ItemRows /\ page \in ItemRows
      /\ crossed \in BOOLEAN /\ mine \in Nat /\ control \in Nat
  BY DEF ItemInv, ItemValuesInv
<1>2. c \in ItemCall /\ 1 \in DOMAIN itemCalls
  BY <1>1, CallsAreLeft
<1>3. CASE /\ itemRow # Gone /\ itemRow' = IF detail THEN SavedRow(itemRow, c) ELSE itemRow
           /\ crossed' = (crossed \/ c.base # itemRow.mounts)
           /\ mine' = IF detail THEN itemRow'.version ELSE mine
           /\ CloseItemForm /\ itemCalls' = Tail(itemCalls) \o OnDone
           /\ UNCHANGED <<page, asking>>
  <2>1. /\ itemRow' \in ItemRows /\ itemRow'.mounts = itemRow.mounts
        /\ itemRow'.date \in {0, c.date, itemRow.date} /\ (itemRow'.date = c.date
             \/ itemRow'.date \in {0, itemRow.date})
    <3>1. CASE ~detail
      BY <1>1, <1>3, <3>1
    <3>2. CASE detail
      <4>1. itemRow' = SavedRow(itemRow, c) /\ c.date \in Nat
        BY <1>2, <1>3, <3>2 DEF ItemCall
      <4>2. itemRow' \in ItemRows /\ itemRow'.mounts = itemRow.mounts /\ itemRow'.date \in {0,
              c.date}
        BY <1>1, <4>1, RowIsSaved
      <4> QED BY <4>2
    <3> QED BY <3>1, <3>2
  <2>2. mine' \in Nat /\ crossed' \in BOOLEAN
    BY <1>1, <1>3, <2>1 DEF ItemRows
  <2>3. UNCHANGED <<values, messages, answered, labelEdited>> /\ editing' = FALSE
        /\ control' = control + 1
    BY <1>3 DEF CloseItemForm
  <2>4. messages' = answered'
    BY <2>3 DEF ItemInv
  <2>5. ItemValuesInv' /\ FormIsTrue'
    BY <1>3, <2>1, <2>2, <2>3, <2>4, AnswerIsTyped, AnswerIsMeant
  <2>6. ~crossed' => itemRow'.date \in {0, itemRow'.mounts}
    <3>1. ~crossed' => c.base = itemRow.mounts /\ ~crossed
      BY <1>1, <1>3
    <3>2. ~crossed' => itemRow.date \in {0, itemRow.mounts} /\ DateFits(c.date, c.base)
      BY <1>2, <1>3, <3>1 DEF ItemInv, MountsInv
    <3>3. itemRow.mounts \in Nat /\ c.base \in Nat
      BY <1>1, <1>2 DEF ItemRows, ItemCall
    <3> QED BY <2>1, <3>1, <3>2, <3>3 DEF DateFits
  <2>7. MountsInv'
    <3>1. page' # Gone
      BY <1>3 DEF ItemInv, MountsInv
    <3>2. crossed => crossed'
      BY <1>3
    <3>3. itemRow'.mounts >= itemRow.mounts
      BY <1>1, <2>1 DEF ItemRows
    <3> QED BY <1>3, <2>1, <2>3, <2>6, <3>1, <3>2, <3>3, MountsStand
  <2>8. SeenInv'
    <3>1. detail => mine' <= itemRow'.version
      BY <1>3, <2>1 DEF ItemRows
    <3> QED BY <1>3, <3>1, SeenStands
  <2> QED BY <2>4, <2>5, <2>7, <2>8 DEF ItemInv
<1>4. CASE /\ UNCHANGED <<itemRow, page, editing, values, labelEdited, control, mine, crossed>>
           /\ itemCalls' = Tail(itemCalls) /\ messages' = answered'
  BY <1>4, NothingIsWritten
<1> QED BY <1>3, <1>4 DEF SaveAnswered

LEMMA MountIsAnswered ==
  ASSUME ItemInv, itemCalls # <<>>, itemCalls[1].kind = "mount", MountAnswered(itemCalls[1]),
         UNCHANGED <<formKind, detail, magpulMode, acts, itemOthers>>
  PROVE  ItemInv'
<1> DEFINE c == itemCalls[1]
<1>1. /\ itemCalls \in Seq(ItemCall) /\ itemRow \in ItemRows /\ page \in ItemRows
      /\ crossed \in BOOLEAN /\ mine \in Nat
  BY DEF ItemInv, ItemValuesInv
<1>2. c \in ItemCall
  BY <1>1, CallsAreLeft
<1>3. CASE /\ itemRow # Gone /\ itemRow' = MountedRow(itemRow, c.gun)
           /\ mine' = itemRow'.version /\ itemCalls' = Tail(itemCalls) \o OnDone
           /\ UNCHANGED <<page, formPart, asking, control, crossed>>
  <2>1. c.gun \in Hosts
    BY <1>2 DEF ItemCall
  <2>2. /\ itemRow' \in ItemRows /\ itemRow'.mounts = itemRow.mounts + 1 /\ itemRow.mounts \in Nat
        /\ itemRow'.date \in {0, itemRow.mounts + 1}
    <3>1. itemRow.mounts \in Nat
      BY <1>1 DEF ItemRows
    <3> QED BY <1>1, <1>3, <2>1, <3>1, RowIsMounted
  <2>3. /\ UNCHANGED <<values, messages, answered, labelEdited, editing>> /\ mine' \in Nat
        /\ messages' = answered' /\ mine' <= itemRow'.version
    BY <1>3, <2>2 DEF formPart, ItemRows, ItemInv
  <2>4. editing \in BOOLEAN
    BY DEF ItemInv, ItemValuesInv, ItemPageTypeOK
  <2>5. ItemValuesInv' /\ FormIsTrue'
    BY <1>1, <1>3, <2>2, <2>3, <2>4, AnswerIsTyped, AnswerIsMeant
  <2>6. SeenInv'
    BY <1>3, <2>3, SeenStands
  <2>7. MountsInv'
    <3>1. page' # Gone
      BY <1>3 DEF ItemInv, MountsInv
    <3>2. /\ itemRow'.mounts >= itemRow.mounts /\ itemRow'.date \in {0, itemRow'.mounts}
      BY <2>2
    <3> QED BY <1>3, <2>2, <2>3, <3>1, <3>2, MountsStand
  <2> QED BY <2>3, <2>5, <2>6, <2>7 DEF ItemInv
<1>4. CASE itemCalls' = Tail(itemCalls)
           /\ UNCHANGED <<itemRow, page, formPart, asking, control, mine, crossed>>
  <2>1. UNCHANGED <<itemRow, page, editing, values, labelEdited, control, mine, crossed>>
        /\ messages' = answered'
    BY <1>4 DEF formPart, ItemInv
  <2> QED BY <1>4, <2>1, NothingIsWritten
<1> QED BY <1>3, <1>4 DEF MountAnswered

LEMMA RemovalIsAnswered ==
  ASSUME ItemInv, itemCalls # <<>>, itemCalls[1].kind = "remove", RemoveAnswered,
         UNCHANGED <<formKind, detail, magpulMode, acts, itemOthers>>
  PROVE  ItemInv'
<1>1. CASE /\ itemRow' = Gone /\ page' = Gone /\ editing' = FALSE /\ itemCalls' = <<>>
           /\ UNCHANGED <<values, messages, answered, labelEdited, control, mine, crossed>>
  <2>1. itemCalls' \in Seq(ItemCall) /\ DOMAIN itemCalls' = {}
    BY <1>1, EmptySeq
  <2>2. Gone.mount \in Guns \union {NoGun}
    BY DEF Gone
  <2>3. ItemValuesInv'
    BY <1>1, <2>1, <2>2, GoneIsARow DEF ItemInv, ItemValuesInv, ItemPageTypeOK
  <2>4. messages' = answered'
    BY <1>1 DEF ItemInv
  <2>5. FormIsTrue'
    <3>1. HiddenDateIsForgotten'
      BY <1>1 DEF ItemInv, FormIsTrue, HiddenDateIsForgotten
    <3> QED BY <1>1, <2>1, <3>1
            DEF FormIsTrue, MessagesAreOfTheLastSubmit, LabelFollowsThePrefix, SentIsMeant
  <2>6. MountsInv' /\ SeenInv'
    <3>1. itemRow' = Gone' /\ page' = Gone'
      BY <1>1 DEF Gone
    <3> QED BY <3>1 DEF MountsInv, SeenInv
  <2> QED BY <2>3, <2>4, <2>5, <2>6 DEF ItemInv
<1>2. CASE itemCalls' = Tail(itemCalls) /\ UNCHANGED <<itemRow, page, formPart, control, mine,
             crossed>>
  <2>1. UNCHANGED <<itemRow, page, editing, values, labelEdited, control, mine, crossed>>
        /\ messages' = answered'
    BY <1>2 DEF formPart, ItemInv
  <2> QED BY <1>2, <2>1, NothingIsWritten
<1> QED BY <1>1, <1>2 DEF RemoveAnswered

LEMMA RefreshIsAnswered ==
  ASSUME ItemInv, itemCalls # <<>>, itemCalls[1].kind = "refresh", ItemRefreshed,
         UNCHANGED <<formKind, detail, magpulMode, acts, itemOthers>>
  PROVE  ItemInv'
<1>1. /\ page' = itemRow
      /\ UNCHANGED <<itemRow, values, messages, answered, labelEdited, control, mine, crossed>>
      /\ editing' \in {editing, FALSE}
      /\ itemRow # Gone => itemCalls' = Tail(itemCalls)
      /\ itemRow = Gone => itemCalls' = <<>> /\ editing' = FALSE
  BY DEF ItemRefreshed
<1>2. messages' = answered'
  BY <1>1 DEF ItemInv
<1>3. itemRow \in ItemRows /\ crossed \in BOOLEAN /\ mine \in Nat /\ itemRow.mounts \in Nat
      /\ editing \in BOOLEAN
  BY DEF ItemInv, ItemValuesInv, ItemRows, ItemPageTypeOK
<1>4. CASE itemRow = Gone
  <2>1. itemCalls' \in Seq(ItemCall) /\ DOMAIN itemCalls' = {}
    BY <1>1, <1>4, EmptySeq
  <2>2. ItemValuesInv'
    BY <1>1, <1>3, <1>4, <2>1 DEF ItemInv, ItemValuesInv, ItemPageTypeOK
  <2>3. FormIsTrue'
    <3>1. HiddenDateIsForgotten'
      BY <1>1 DEF ItemInv, FormIsTrue, HiddenDateIsForgotten
    <3> QED BY <1>1, <1>4, <2>1, <3>1
            DEF FormIsTrue, MessagesAreOfTheLastSubmit, LabelFollowsThePrefix, SentIsMeant
  <2>4. MountsInv' /\ SeenInv'
    <3>1. itemRow' = Gone' /\ page' = Gone'
      BY <1>1, <1>4 DEF Gone
    <3> QED BY <3>1 DEF MountsInv, SeenInv
  <2> QED BY <1>2, <2>2, <2>3, <2>4 DEF ItemInv
<1>5. CASE itemRow # Gone
  <2>1. itemCalls' = Tail(itemCalls) /\ (editing' => editing)
    BY <1>1, <1>3, <1>5 DEF ItemRefreshed
  <2>2. ItemValuesInv' /\ FormIsTrue'
    BY <1>1, <1>2, <1>3, <2>1, AnswerIsTyped, AnswerIsMeant
  <2>3. MountsInv'
    <3>1. /\ itemRow'.mounts >= itemRow.mounts /\ page' # Gone
          /\ (~crossed' => itemRow'.date \in {0, itemRow'.mounts}) /\ (crossed => crossed')
      BY <1>1, <1>3, <1>5 DEF ItemInv, MountsInv
    <3> QED BY <1>1, <1>3, <1>5, <2>1, <3>1, MountsStand
  <2>4. SeenInv'
    BY <1>1, <1>3, <1>5 DEF ItemInv, SeenInv, ItemRows
  <2> QED BY <1>2, <2>2, <2>3, <2>4 DEF ItemInv
<1> QED BY <1>4, <1>5

\* Another user mounts, edits or deletes the item.
LEMMA OthersWrite == ASSUME ItemInv, ItemOther PROVE ItemInv'
<1>1. /\ UNCHANGED <<formKind, detail, magpulMode, page, itemCalls, control, mine, crossed, acts>>
      /\ UNCHANGED <<editing, values, messages, answered, labelEdited>>
      /\ itemRow # Gone
      /\ \/ itemRow' = SavedRow(itemRow, itemRow)
         \/ \E gun \in Hosts : itemRow' = MountedRow(itemRow, gun)
         \/ itemRow' = Gone
  BY DEF ItemOther, formPart, Hosts
<1>2. itemRow \in ItemRows /\ mine \in Nat /\ itemCalls \in Seq(ItemCall)
  BY DEF ItemInv, ItemValuesInv
<1>3. \/ itemRow' = Gone
      \/ /\ itemRow'.version = itemRow.version + 1 /\ itemRow' \in ItemRows
         /\ \/ itemRow'.mounts = itemRow.mounts /\ itemRow'.date \in {0, itemRow.date}
            \/ itemRow'.mounts = itemRow.mounts + 1 /\ itemRow'.date \in {0, itemRow.mounts + 1}
  <2>1. CASE itemRow' = SavedRow(itemRow, itemRow)
    <3>1. itemRow.date \in Nat
      BY <1>2 DEF ItemRows
    <3> QED BY <1>2, <2>1, <3>1, RowIsSaved
  <2>2. ASSUME NEW gun \in Hosts, itemRow' = MountedRow(itemRow, gun)
        PROVE  /\ itemRow'.version = itemRow.version + 1 /\ itemRow' \in ItemRows
               /\ itemRow'.mounts = itemRow.mounts + 1 /\ itemRow'.date \in {0, itemRow.mounts + 1}
    BY <1>2, <2>2, RowIsMounted
  <2> QED BY <1>1, <2>1, <2>2
<1>4. ItemValuesInv'
  <2>1. itemRow' \in ItemRows /\ itemRow'.mount \in Guns \union {NoGun}
    BY <1>3, GoneIsARow DEF ItemRows, Hosts
  <2> QED BY <1>1, <2>1 DEF ItemInv, ItemValuesInv, ItemPageTypeOK
<1>5. messages' = answered' /\ MessagesAreOfTheLastSubmit' /\ SentIsMeant'
      /\ HiddenDateIsForgotten'
  BY <1>1 DEF ItemInv, FormIsTrue, MessagesAreOfTheLastSubmit, SentIsMeant, HiddenDateIsForgotten
<1>6. LabelFollowsThePrefix'
  <2>1. LabelFollowsThePrefix
    BY DEF ItemInv, FormIsTrue
  <2> QED BY <1>1, <2>1, LabelStays
<1>7. CASE itemRow' = Gone
  <2>1. itemRow' = Gone'
    BY <1>7 DEF Gone
  <2>2. MountsInv'
    BY <2>1 DEF MountsInv
  <2>3. SeenInv'
    <3>1. Gone' = Gone
      BY DEF Gone
    <3> QED BY <1>1, <2>1, <3>1 DEF ItemInv, SeenInv
  <2> QED BY <1>4, <1>5, <1>6, <2>2, <2>3 DEF ItemInv, FormIsTrue
<1>8. CASE itemRow' # Gone
  <2>1. itemRow'.mounts >= itemRow.mounts /\ page' # Gone /\ itemRow.mounts \in Nat
    BY <1>1, <1>2, <1>3, <1>8 DEF ItemInv, MountsInv, ItemRows
  <2>2. ~crossed' => itemRow'.date \in {0, itemRow'.mounts}
    BY <1>1, <1>2, <1>3, <1>8 DEF ItemInv, MountsInv, ItemRows
  <2>3. MountsInv'
    <3>1. /\ page.mounts \in Nat /\ values.base \in Nat /\ itemRow.mounts \in Nat
          /\ itemRow'.mounts \in Nat
          /\ \A i \in DOMAIN itemCalls : itemCalls[i].base \in Nat
      <4>1. \A i \in DOMAIN itemCalls : itemCalls[i] \in ItemCall
        BY <1>2, Queues
      <4> QED BY <1>3, <1>8, <2>1, <4>1 DEF ItemInv, ItemValuesInv, ItemRows, FormValues, ItemCall
    <3>2. itemRow # Gone /\ MountsInv
      BY <1>1 DEF ItemInv
    <3> QED BY <1>1, <2>1, <2>2, <3>1, <3>2 DEF MountsInv, DateFits
  <2>4. SeenInv'
    <3>1. Gone' = Gone
      BY DEF Gone
    <3>2. itemRow.version \in Nat /\ mine <= itemRow.version
      BY <1>1, <1>2 DEF ItemInv, SeenInv, ItemRows
    <3> QED BY <1>1, <1>2, <1>3, <1>8, <3>1, <3>2 DEF ItemInv, SeenInv
  <2> QED BY <1>4, <1>5, <1>6, <2>3, <2>4 DEF ItemInv, FormIsTrue
<1> QED BY <1>7, <1>8

LEMMA ItemKeeps == ASSUME ItemInv, [ItemNext]_itemVars PROVE ItemInv'
<1>1. CASE ItemAnswer
  <2>1. itemCalls # <<>> /\ Head(itemCalls) = itemCalls[1]
    <3>1. itemCalls \in Seq(ItemCall) /\ itemCalls # <<>>
      BY <1>1 DEF ItemAnswer, ItemInv, ItemValuesInv
    <3> QED BY <3>1, CallsAreLeft
  <2> QED BY <1>1, <2>1, SaveIsAnswered, MountIsAnswered, RemovalIsAnswered, RefreshIsAnswered
         DEF ItemAnswer
<1>2. CASE /\ ~ItemAnswer /\ ItemNext
  BY <1>2, FieldsAreTyped, PrefixIsTyped, FormOpens, FormCloses, FormIsSent, OtherCallsAreSent,
     OthersWrite
  DEF ItemNext, Numbers, Hosts
<1> QED BY <1>1, <1>2, FormCloses

LEMMA ItemHolds == ItemInv => ItemPageIsTrue
<1> SUFFICES ASSUME ItemInv PROVE ItemPageIsTrue
  OBVIOUS
<1>1. PageIsCurrent
  <2>1. itemCalls = <<>> => DOMAIN itemCalls = {}
    OBVIOUS
  <2> QED BY <2>1 DEF ItemInv, SeenInv, PageIsCurrent
<1>2. DateIsOfItsMount
  BY DEF ItemInv, MountsInv, DateIsOfItsMount
<1> QED BY <1>1, <1>2 DEF ItemInv, ItemValuesInv, ItemPageIsTrue

-----------------------------------------------------------------------------
(* A panel of an item's page.                                              *)

PanelKinds ==
  {"photos", "documents", "rules", "history", "sessions", "log", "attachments", "defaults"}

LEMMA PanelStarts == PanelInit => PanelInv
<1> SUFFICES ASSUME PanelInit PROVE PanelInv
  OBVIOUS
<1>1. PICK rows \in SUBSET Rows : server = [rows |-> rows, version |-> 0]
  BY DEF PanelInit
<1>2. /\ listed \in Listing /\ server \in Listing /\ server.version = 0
      /\ listed.version = 0
  BY <1>1 DEF PanelInit, Listing
<1>3. /\ ui = [form |-> NoForm, target |-> NoRow, error |-> FALSE, deleting |-> NoRow]
      /\ saved = 0 /\ good = TRUE /\ made = [n \in 1 .. MaxOpenings |-> 0] /\ reply = NoReply
      /\ counts = [posts |-> 0, openings |-> 0, outside |-> 0] /\ panel \in Panels
  BY DEF PanelInit
<1>4. ui \in PanelUi /\ reply \in PanelReply /\ counts \in PanelCounts /\ ~reply.set
  BY <1>3, ItemPanelsAssumption
     DEF PanelUi, PanelForm, RowOrNone, NoForm, PanelReply, NoReply, Listing, PanelCounts
<1>5. \/ queue = <<>> /\ newest = 0
      \/ queue = <<Call("load", NoRow, 1)>> /\ newest = 1
  BY DEF PanelInit
<1>6. /\ queue \in Seq(PanelCall) /\ newest \in Nat
      /\ \A i \in DOMAIN queue : i = 1 /\ queue[i] = Call("load", NoRow, 1) /\ newest = 1 /\ loads
  <2>1. Call("load", NoRow, 1) \in PanelCall
    BY DEF Call, PanelCall, RowOrNone
  <2>2. CASE queue = <<>> /\ newest = 0
    BY <2>2, EmptySeq
  <2>3. CASE queue = <<Call("load", NoRow, 1)>> /\ newest = 1 /\ loads
    BY <2>1, <2>3
  <2> QED BY <1>5, <2>2, <2>3 DEF PanelInit
<1>7. PanelValuesInv
  BY <1>2, <1>3, <1>4, <1>6 DEF PanelValuesInv
<1>8. FormInv /\ CreatesInv
  BY <1>3, <1>6 DEF FormInv, CreatesInv, NoForm, Call
<1>9. CurrentInv
  BY <1>2, <1>3, <1>4 DEF CurrentInv, NoReply
<1>10. PhotosInv /\ LogInv /\ AttachmentsInv
  BY <1>3, <1>6 DEF PhotosInv, LogInv, AttachmentsInv, loads, Call
<1> QED BY <1>7, <1>8, <1>9, <1>10 DEF PanelInv

\* A call joins the queue.
LEMMA PanelPosts ==
  ASSUME PanelInv, NEW c \in PanelCall, queue' = Append(queue, c),
         UNCHANGED <<panel, server, listed, reply, saved, good, made>>,
         counts' \in PanelCounts, counts'.openings = counts.openings,
         ui' \in PanelUi, ui'.form = ui.form, ui'.target = ui.target,
         newest' \in Nat, ui'.error => ui.error,
         c.kind # "load" => newest' = newest,
         c.kind = "load" => newest' = newest + 1 /\ c.n = newest + 1 /\ ~ui'.error /\ loads,
         c.kind = "create" =>
           /\ c.n = ui.form.n /\ ui.form # NoForm
           /\ \A i \in DOMAIN queue : ~(queue[i].kind = "create" /\ queue[i].n = c.n),
         panel = "photos" =>
           /\ c.kind \in {"edit", "quick", "upload", "delete"}
           /\ c.kind = "edit" =>
                c.n = ui.form.n /\ \A i \in DOMAIN queue : queue[i].kind # "edit",
         panel = "log" => c.kind \in {"create", "quick", "load"},
         panel = "attachments" =>
           /\ c.kind \in {"create", "edit", "delete"} /\ ~ui'.error
           /\ \A i \in DOMAIN queue : queue[i].kind = "refresh"
  PROVE  PanelInv'
<1> DEFINE n == Len(queue)
<1>1. queue \in Seq(PanelCall)
  BY DEF PanelInv, PanelValuesInv
<1>2. /\ queue' \in Seq(PanelCall) /\ DOMAIN queue' = DOMAIN queue \union {n + 1}
      /\ n + 1 \notin DOMAIN queue /\ queue'[n + 1] = c
      /\ \A i \in DOMAIN queue : queue'[i] = queue[i] /\ i < n + 1
      /\ queue' # <<>> /\ n \in Nat /\ \A i \in DOMAIN queue' : i \in Nat
  <2>1. DOMAIN queue = 1 .. n /\ n \in Nat
    BY <1>1, Queues
  <2>2. Len(queue') = n + 1 /\ queue' \in Seq(PanelCall)
    BY <1>1, Added
  <2>3. queue' # <<>>
    BY <2>1, <2>2, EmptySeq
  <2> QED BY <1>1, <2>1, <2>2, <2>3, Added
<1>3. queue # <<>> => 1 \in DOMAIN queue /\ queue'[1] = queue[1]
  BY <1>1, <1>2, Queues
<1> HIDE DEF n
<1>4. PanelValuesInv'
  BY <1>2 DEF PanelInv, PanelValuesInv
<1>5. FormInv'
  BY DEF PanelInv, FormInv
<1>6. CreatesInv'
  <2>1. c.kind = "create" => c.n \in 1 .. counts.openings /\ made[c.n] = 0
    <3>1. counts.openings \in 0 .. MaxOpenings /\ MaxOpenings \in Nat
      BY ItemPanelsAssumption DEF PanelInv, PanelValuesInv, PanelCounts
    <3> QED BY <3>1 DEF PanelInv, FormInv, CreatesInv
  <2>2. \A i \in DOMAIN queue' : queue'[i].kind = "create" =>
          queue'[i].n \in 1 .. counts.openings /\ made[queue'[i].n] = 0
    BY <1>2, <2>1 DEF PanelInv, CreatesInv
  <2>3. \A i, j \in DOMAIN queue' :
          queue'[i].kind = "create" /\ queue'[j].kind = "create" /\ queue'[j].n = queue'[i].n
            => i = j
    BY <1>2 DEF PanelInv, CreatesInv
  <2> QED BY <2>2, <2>3 DEF PanelInv, CreatesInv
<1>7. CurrentInv'
  <2>1. reply.set => queue # <<>>
    BY DEF PanelInv, PanelValuesInv
  <2>2. CASE c.kind # "load"
    <3>1. (\E i \in DOMAIN queue : queue[i].kind = "load" /\ queue[i].n = newest) =>
            \E i \in DOMAIN queue' : queue'[i].kind = "load" /\ queue'[i].n = newest'
      BY <1>2, <2>2
    <3>2. (\E i \in DOMAIN queue : queue[i].kind = "refresh") =>
            \E i \in DOMAIN queue' : queue'[i].kind = "refresh"
      BY <1>2
    <3> QED BY <1>3, <2>1, <3>1, <3>2 DEF PanelInv, CurrentInv, loads
  <2>3. CASE c.kind = "load"
    <3>1. \E i \in DOMAIN queue' : queue'[i].kind = "load" /\ queue'[i].n = newest'
      BY <1>2, <2>3
    <3> QED BY <1>3, <2>1, <2>3, <3>1 DEF PanelInv, CurrentInv, loads
  <2> QED BY <2>2, <2>3
<1>8. PhotosInv'
  BY <1>2 DEF PanelInv, PhotosInv
<1>9. LogInv'
  <2> SUFFICES ASSUME panel = "log" PROVE LogInv'
    BY DEF LogInv
  <2>1. /\ ui.error => ~good
        /\ \A i \in DOMAIN queue :
             /\ queue[i].kind \in {"create", "quick", "load", "refresh"}
             /\ queue[i].kind = "load" => ~ui.error /\ queue[i].n <= newest /\ queue[i].n \in Nat
        /\ \A i, j \in DOMAIN queue :
             queue[i].kind = "load" /\ queue[j].kind = "load" /\ i < j => queue[i].n < queue[j].n
    <3>1. \A i \in DOMAIN queue : queue[i].n \in Nat
      <4>1. \A i \in DOMAIN queue : queue[i] \in PanelCall
        BY <1>1, Queues
      <4> QED BY <4>1 DEF PanelCall
    <3> QED BY <3>1 DEF PanelInv, LogInv
  <2>2. newest \in Nat /\ newest' \in {newest, newest + 1}
    BY DEF PanelInv, PanelValuesInv
  <2>3. \A i \in DOMAIN queue' :
          /\ queue'[i].kind \in {"create", "quick", "load", "refresh"}
          /\ queue'[i].kind = "load" => ~ui'.error /\ queue'[i].n <= newest'
    BY <1>2, <2>1, <2>2
  <2>4. \A i, j \in DOMAIN queue' :
          queue'[i].kind = "load" /\ queue'[j].kind = "load" /\ i < j => queue'[i].n < queue'[j].n
    <3> TAKE i, j \in DOMAIN queue'
    <3> HAVE queue'[i].kind = "load" /\ queue'[j].kind = "load" /\ i < j
    <3>1. CASE i \in DOMAIN queue /\ j \in DOMAIN queue
      BY <1>2, <2>1, <3>1
    <3>2. CASE i \in DOMAIN queue /\ j = n + 1
      BY <1>2, <2>1, <2>2, <3>2
    <3>3. i # n + 1
      BY <1>2
    <3> QED BY <1>2, <3>1, <3>2, <3>3
  <2> QED BY <2>1, <2>3, <2>4 DEF LogInv
<1>10. AttachmentsInv'
  BY <1>2 DEF PanelInv, AttachmentsInv
<1> QED BY <1>4, <1>5, <1>6, <1>7, <1>8, <1>9, <1>10 DEF PanelInv

\* What the user's buttons send.
LEMMA PanelSubmits == ASSUME PanelInv, PanelSubmit PROVE PanelInv'
<1> DEFINE c == Call(ui.form.kind, ui.form.row, ui.form.n)
<1>1. /\ ui \in PanelUi /\ ui.form # NoForm /\ ui.form.kind \in {"create", "edit", "log"}
      /\ ui.form.kind # "none" /\ ui.form \in PanelForm /\ ui.target = NoRow
  BY DEF PanelInv, PanelValuesInv, FormInv, PanelSubmit, FormShown, Open, PanelUi, PanelForm, Free
<1>2. c \in PanelCall /\ c.kind = ui.form.kind /\ c.n = ui.form.n /\ c.row = ui.form.row
  BY <1>1 DEF PanelCall, Call, PanelForm
<1>3. /\ queue' = queue \o <<c>> /\ newest' = newest
      /\ UNCHANGED <<panel, server, listed, reply, saved, good, made>>
      /\ counts' = [counts EXCEPT !.posts = @ + 1]
  BY <1>1, <1>2 DEF PanelSubmit, Post, Send
<1>4. queue' = Append(queue, c)
  BY <1>2, <1>3, Added DEF PanelInv, PanelValuesInv
<1>5. counts' \in PanelCounts /\ counts'.openings = counts.openings
  <2>1. counts \in PanelCounts
    BY DEF PanelInv, PanelValuesInv
  <2> QED BY <1>3, <2>1 DEF PanelCounts
<1>6. /\ ui' = [ui EXCEPT !.error = IF panel = "attachments" THEN FALSE ELSE @]
      /\ ui' \in PanelUi /\ ui'.form = ui.form /\ ui'.target = ui.target
      /\ ui'.error => ui.error
      /\ panel = "attachments" => ~ui'.error
  <2>1. ui' = [ui EXCEPT !.error = IF panel = "attachments" THEN FALSE ELSE @]
    BY DEF PanelSubmit
  <2> QED BY <1>1, <2>1 DEF PanelUi
<1>7. May("submit", ui.form.row) /\ newest \in Nat /\ panel \in Panels
  BY DEF PanelSubmit, PanelInv, PanelValuesInv
<1>8. c.kind = "create" => \A i \in DOMAIN queue : ~(queue[i].kind = "create" /\ queue[i].n = c.n)
  <2> SUFFICES ASSUME c.kind = "create", NEW i \in DOMAIN queue, queue[i].kind = "create",
                      queue[i].n = c.n
               PROVE FALSE
    OBVIOUS
  <2>1. Submitting /\ Doing({"create", "edit", "delete"})
    BY <1>2 DEF Submitting, Doing
  <2>2. panel # "photos"
    BY <1>2 DEF PanelInv, FormInv
  <2> HIDE DEF c
  <2> QED BY <1>7, <2>1, <2>2 DEF May, PhotoButtons, CaptionButtons, PhotoUpload, DocumentUpload,
            DocumentButtons, RulePanel, RuleRow, RuleForm, LogServiceForm, HistoryForm, HistoryRow,
            SessionPanel, SessionRow, SessionForm, LogPanel, LogEntryForm, AttachmentPanel,
            AttachmentRow, AttachmentForm, CategoryCard, AddCategory
<1>9. panel = "photos" => /\ c.kind = "edit"
                          /\ \A i \in DOMAIN queue : queue[i].kind # "edit"
  <2> SUFFICES ASSUME panel = "photos"
               PROVE  c.kind = "edit" /\ \A i \in DOMAIN queue : queue[i].kind # "edit"
    OBVIOUS
  <2>1. ~Doing({"quick", "edit"})
    BY <1>7 DEF May, PhotoButtons, CaptionButtons, PhotoUpload
  <2>2. c.kind = "edit"
    BY <1>1, <1>2 DEF PanelInv, FormInv
  <2> QED BY <2>1, <2>2 DEF Doing
<1>10. panel = "log" => c.kind = "create"
  BY <1>1, <1>2 DEF PanelInv, FormInv
<1>11. panel = "attachments" => /\ c.kind \in {"create", "edit", "delete"}
                                /\ \A i \in DOMAIN queue : queue[i].kind = "refresh"
  <2> SUFFICES ASSUME panel = "attachments"
               PROVE  /\ c.kind \in {"create", "edit", "delete"}
                      /\ \A i \in DOMAIN queue : queue[i].kind = "refresh"
    OBVIOUS
  <2>1. ~Doing({"create", "edit", "delete"})
    BY <1>7 DEF May, AttachmentPanel, AttachmentRow, AttachmentForm
  <2>2. c.kind \in {"create", "edit"}
    BY <1>1, <1>2 DEF PanelInv, FormInv
  <2>3. \A i \in DOMAIN queue : queue[i].kind \in {"create", "edit", "delete", "refresh"}
    BY DEF PanelInv, AttachmentsInv
  <2> QED BY <2>1, <2>2, <2>3 DEF Doing
<1> HIDE DEF c
<1> QED BY <1>1, <1>2, <1>3, <1>4, <1>5, <1>6, <1>7, <1>8, <1>9, <1>10, <1>11, PanelPosts

LEMMA PanelQuickens ==
  ASSUME PanelInv, NEW row \in Rows \union {NoRow}, PanelQuick(row)
  PROVE  PanelInv'
<1> DEFINE c == Call("quick", row, 0)
<1>1. c \in PanelCall /\ c.kind = "quick"
  BY DEF PanelCall, Call, RowOrNone
<1>2. /\ queue' = queue \o <<c>> /\ newest' = newest
      /\ UNCHANGED <<panel, server, listed, reply, saved, good, made>>
      /\ counts' = [counts EXCEPT !.posts = @ + 1]
  BY <1>1 DEF PanelQuick, Post, Send
<1>3. queue' = Append(queue, c)
  BY <1>1, <1>2, Added DEF PanelInv, PanelValuesInv
<1>4. counts' \in PanelCounts /\ counts'.openings = counts.openings
  <2>1. counts \in PanelCounts
    BY DEF PanelInv, PanelValuesInv
  <2> QED BY <1>2, <2>1 DEF PanelCounts
<1>5. /\ ui' \in PanelUi /\ ui'.form = ui.form /\ ui'.target = ui.target /\ ui'.error = ui.error
  <2>1. ui' = [ui EXCEPT !.deleting = IF panel = "history" THEN row ELSE @] /\ ui \in PanelUi
    BY DEF PanelQuick, PanelInv, PanelValuesInv
  <2> QED BY <2>1 DEF PanelUi, RowOrNone
<1>6. May("quick", row) /\ newest \in Nat
  BY DEF PanelQuick, PanelInv, PanelValuesInv
<1>7. panel # "attachments"
  BY <1>6 DEF May, AttachmentPanel, AttachmentRow, AttachmentForm
<1> HIDE DEF c
<1> QED BY <1>1, <1>2, <1>3, <1>4, <1>5, <1>6, <1>7, PanelPosts

LEMMA PanelUploads == ASSUME PanelInv, PanelUpload PROVE PanelInv'
<1> DEFINE c == Call("upload", NoRow, 0)
<1>1. c \in PanelCall /\ c.kind = "upload"
  BY DEF PanelCall, Call, RowOrNone
<1>2. /\ queue' = queue \o <<c>> /\ newest' = newest
      /\ UNCHANGED <<panel, server, listed, reply, saved, good, made>> /\ ui' = ui
      /\ counts' = [counts EXCEPT !.posts = @ + 1]
  BY <1>1 DEF PanelUpload, Post, Send
<1>3. queue' = Append(queue, c)
  BY <1>1, <1>2, Added DEF PanelInv, PanelValuesInv
<1>4. counts' \in PanelCounts /\ counts'.openings = counts.openings
  <2>1. counts \in PanelCounts
    BY DEF PanelInv, PanelValuesInv
  <2> QED BY <1>2, <2>1 DEF PanelCounts
<1>5. May("upload", NoRow) /\ newest \in Nat /\ ui \in PanelUi
  BY DEF PanelUpload, PanelInv, PanelValuesInv
<1>6. panel # "attachments" /\ panel # "log"
  BY <1>5 DEF May, AttachmentPanel, AttachmentRow, AttachmentForm, LogPanel, LogEntryForm
<1> HIDE DEF c
<1> QED BY <1>1, <1>2, <1>3, <1>4, <1>5, <1>6, PanelPosts

LEMMA PanelConfirms == ASSUME PanelInv, PanelConfirm PROVE PanelInv'
<1> DEFINE c == Call("delete", ui.target, 0)
<1>1. ui \in PanelUi /\ ui.target # NoRow /\ newest \in Nat
  BY DEF PanelInv, PanelValuesInv, PanelConfirm
<1>2. c \in PanelCall /\ c.kind = "delete"
  BY <1>1 DEF PanelCall, Call, PanelUi
<1>3. /\ queue' = queue \o <<c>> /\ newest' = newest
      /\ UNCHANGED <<panel, server, listed, reply, saved, good, made>>
      /\ counts' = [counts EXCEPT !.posts = @ + 1]
  BY <1>2 DEF PanelConfirm, Post, Send
<1>4. queue' = Append(queue, c)
  BY <1>2, <1>3, Added DEF PanelInv, PanelValuesInv
<1>5. counts' \in PanelCounts /\ counts'.openings = counts.openings
  <2>1. counts \in PanelCounts
    BY DEF PanelInv, PanelValuesInv
  <2> QED BY <1>3, <2>1 DEF PanelCounts
<1>6. /\ ui' \in PanelUi /\ ui'.form = ui.form /\ ui'.target = ui.target
      /\ ui'.error => ui.error
      /\ panel = "attachments" => ~ui'.error
  <2>1. ui' = [ui EXCEPT !.error = IF ClearsFirst THEN FALSE ELSE @]
    BY DEF PanelConfirm
  <2> QED BY <1>1, <2>1 DEF PanelUi, ClearsFirst
<1>7. panel # "log"
  BY <1>1 DEF PanelInv, FormInv
<1>8. panel = "attachments" => \A i \in DOMAIN queue : queue[i].kind = "refresh"
  <2>1. panel = "attachments" => ~Doing({"delete"}) /\ ~Doing({"create", "edit"})
    BY DEF PanelConfirm
  <2>2. panel = "attachments" =>
          \A i \in DOMAIN queue : queue[i].kind \in {"create", "edit", "delete", "refresh"}
    BY DEF PanelInv, AttachmentsInv
  <2> QED BY <2>1, <2>2 DEF Doing
<1> HIDE DEF c
<1> QED BY <1>1, <1>2, <1>3, <1>4, <1>5, <1>6, <1>7, <1>8, PanelPosts

LEMMA PanelRetries == ASSUME PanelInv, PanelRetry PROVE PanelInv'
<1> DEFINE c == Call("load", NoRow, newest + 1)
<1>1. ui \in PanelUi /\ newest \in Nat /\ loads
  BY DEF PanelInv, PanelValuesInv, PanelRetry
<1>2. c \in PanelCall /\ c.kind = "load" /\ c.n = newest + 1
  BY <1>1 DEF PanelCall, Call, RowOrNone
<1>3. /\ queue' = queue \o <<c>> /\ newest' = newest + 1
      /\ UNCHANGED <<panel, server, listed, reply, saved, good, made>>
      /\ counts' = [counts EXCEPT !.posts = @ + 1]
  BY <1>2 DEF PanelRetry, Send
<1>4. queue' = Append(queue, c)
  BY <1>2, <1>3, Added DEF PanelInv, PanelValuesInv
<1>5. counts' \in PanelCounts /\ counts'.openings = counts.openings
  <2>1. counts \in PanelCounts
    BY DEF PanelInv, PanelValuesInv
  <2> QED BY <1>3, <2>1 DEF PanelCounts
<1>6. /\ ui' \in PanelUi /\ ui'.form = ui.form /\ ui'.target = ui.target /\ ~ui'.error
  <2>1. ui' = [ui EXCEPT !.error = FALSE]
    BY DEF PanelRetry
  <2> QED BY <1>1, <2>1 DEF PanelUi
<1>7. panel # "photos" /\ panel # "attachments"
  BY <1>1 DEF loads
<1> HIDE DEF c
<1> QED BY <1>1, <1>2, <1>3, <1>4, <1>5, <1>6, <1>7, PanelPosts

-----------------------------------------------------------------------------
(* The component of a panel without its calls.                             *)

\* What the user does before he sends anything.
LEMMA PanelLooks ==
  ASSUME PanelInv, UNCHANGED <<panel, server, listed, queue, reply, newest, saved, good, made>>,
         counts' \in PanelCounts, ui' \in PanelUi, FormInv',
         counts'.openings >= counts.openings,
         ui'.error => ui.error,
         \/ ui'.form = ui.form \/ ui'.form = NoForm \/ ui'.form.n = counts.openings + 1,
         panel = "photos" /\ (\E i \in DOMAIN queue : queue[i].kind = "edit") => ui'.form = ui.form
  PROVE  PanelInv'
<1>1. counts.openings \in Nat /\ counts'.openings \in Nat
  BY DEF PanelInv, PanelValuesInv, PanelCounts
<1>2. PanelValuesInv'
  BY DEF PanelInv, PanelValuesInv
<1>3. CreatesInv'
  <2>1. \A n \in 1 .. MaxOpenings :
          made[n] = 0 \/ (made[n] = 1 /\ n <= counts'.openings /\ ui'.form.n # n)
    <3> TAKE n \in 1 .. MaxOpenings
    <3>1. n \in Nat /\ n # 0 /\ (made[n] = 0 \/ (made[n] = 1 /\ n <= counts.openings
            /\ ui.form.n # n))
      BY ItemPanelsAssumption DEF PanelInv, CreatesInv
    <3>2. NoForm.n = 0
      BY DEF NoForm
    <3> QED BY <1>1, <3>1, <3>2
  <2>2. \A k \in 1 .. counts.openings : k \in 1 .. counts'.openings
    BY <1>1
  <2> QED BY <2>1, <2>2 DEF PanelInv, CreatesInv
<1>4. CurrentInv'
  BY DEF PanelInv, CurrentInv, loads
<1>5. PhotosInv' /\ LogInv' /\ AttachmentsInv'
  <2>1. PhotosInv'
    BY DEF PanelInv, PhotosInv
  <2>2. LogInv'
    BY DEF PanelInv, LogInv
  <2>3. AttachmentsInv'
    BY DEF PanelInv, AttachmentsInv
  <2> QED BY <2>1, <2>2, <2>3
<1> QED BY <1>2, <1>3, <1>4, <1>5 DEF PanelInv

LEMMA PanelOpens ==
  ASSUME PanelInv, NEW kind \in {"create", "edit", "log"}, NEW row \in Rows \union {NoRow},
         PanelOpen(kind, row)
  PROVE  PanelInv'
<1> DEFINE f == [kind |-> kind, row |-> row, n |-> counts.openings + 1]
<1>1. /\ ui \in PanelUi /\ counts \in PanelCounts /\ MaxOpenings \in Nat
      /\ counts.openings \in Nat /\ counts.openings < MaxOpenings
  BY ItemPanelsAssumption DEF PanelInv, PanelValuesInv, PanelCounts, PanelOpen
<1>2. f \in PanelForm /\ f.n = counts.openings + 1 /\ f.kind = kind
  BY <1>1 DEF PanelForm, RowOrNone
<1>3. /\ ui' = [ui EXCEPT !.form = f, !.error = IF panel = "attachments" THEN FALSE ELSE @]
      /\ UNCHANGED <<panel, server, listed, queue, reply, newest, saved, good, made>>
      /\ counts' = [counts EXCEPT !.openings = @ + 1] /\ May(kind, row) /\ ui.target = NoRow
  BY <1>2 DEF PanelOpen, Free
<1>4. /\ ui' \in PanelUi /\ ui'.form = f /\ ui'.target = ui.target
      /\ ui'.error => ui.error
  BY <1>1, <1>2, <1>3 DEF PanelUi
<1>5. counts' \in PanelCounts /\ counts'.openings = counts.openings + 1
  BY <1>1, <1>3 DEF PanelCounts
<1>6. /\ panel = "photos" => kind = "edit" /\ ~Doing({"quick", "edit", "delete"})
      /\ panel # "documents"
      /\ panel = "log" => kind = "create"
      /\ panel = "attachments" => kind \in {"create", "edit"}
  <2>1. panel = "photos" => kind = "edit" /\ ~Doing({"quick", "edit", "delete"})
    BY <1>3 DEF May, PhotoButtons, CaptionButtons, PhotoUpload
  <2>2. panel # "documents"
    BY <1>3 DEF May, DocumentUpload, DocumentButtons
  <2>3. panel = "log" => kind = "create"
    BY <1>3 DEF May, LogPanel, LogEntryForm
  <2>4. panel = "attachments" => kind \in {"create", "edit"}
    BY <1>3 DEF May, AttachmentPanel, AttachmentRow, AttachmentForm
  <2> QED BY <2>1, <2>2, <2>3, <2>4
<1>7. FormInv'
  BY <1>1, <1>2, <1>3, <1>4, <1>5, <1>6 DEF FormInv
<1>8. panel = "photos" => ~(\E i \in DOMAIN queue : queue[i].kind = "edit")
  BY <1>6 DEF Doing
<1> HIDE DEF f
<1>9. counts'.openings >= counts.openings /\ ui'.form.n = counts.openings + 1
  BY <1>1, <1>2, <1>4, <1>5
<1> QED BY <1>3, <1>4, <1>5, <1>7, <1>8, <1>9, PanelLooks

LEMMA PanelCancels == ASSUME PanelInv, PanelCancel PROVE PanelInv'
<1>1. ui \in PanelUi /\ counts \in PanelCounts /\ counts.openings \in Nat
  BY DEF PanelInv, PanelValuesInv, PanelCounts
<1>2. /\ ui' = [ui EXCEPT !.form = NoForm] /\ May("cancel", ui.form.row)
      /\ UNCHANGED <<panel, server, listed, queue, reply, newest, saved, good, made, counts>>
  BY DEF PanelCancel, CloseForm
<1>3. ui' \in PanelUi /\ ui'.form = NoForm /\ ui'.target = ui.target /\ ui'.error = ui.error
  <2>1. NoForm \in PanelForm
    BY DEF NoForm, PanelForm, RowOrNone
  <2> QED BY <1>1, <1>2, <2>1 DEF PanelUi
<1>4. panel = "photos" => ~Doing({"quick", "edit"})
  BY <1>2 DEF May, PhotoButtons, CaptionButtons, PhotoUpload
<1>5. FormInv'
  BY <1>2, <1>3 DEF PanelInv, FormInv, NoForm
<1>6. panel = "photos" => ~(\E i \in DOMAIN queue : queue[i].kind = "edit")
  BY <1>4 DEF Doing
<1> QED BY <1>1, <1>2, <1>3, <1>5, <1>6, PanelLooks

LEMMA PanelAsks ==
  ASSUME PanelInv, PanelKeep \/ \E row \in Rows : PanelAskDelete(row)
  PROVE  PanelInv'
<1>1. ui \in PanelUi /\ counts \in PanelCounts /\ counts.openings \in Nat
  BY DEF PanelInv, PanelValuesInv, PanelCounts
<1>2. PICK t \in RowOrNone :
        /\ ui' = [ui EXCEPT !.target = t]
        /\ UNCHANGED <<panel, server, listed, queue, reply, newest, saved, good, made, counts>>
        /\ panel = "log" => t = NoRow
  <2>1. CASE PanelKeep
    BY <2>1 DEF PanelKeep, CloseDialog, RowOrNone
  <2>2. ASSUME NEW row \in Rows, PanelAskDelete(row)
        PROVE  /\ ui' = [ui EXCEPT !.target = row] /\ row \in RowOrNone /\ panel # "log"
               /\ UNCHANGED <<panel, server, listed, queue, reply, newest, saved, good, made,
                    counts>>
    <3>1. May("target", row)
      BY <2>2 DEF PanelAskDelete
    <3>2. panel # "log"
      BY <3>1 DEF May, LogPanel, LogEntryForm
    <3> QED BY <2>2, <3>2 DEF PanelAskDelete, RowOrNone
  <2> QED BY <2>1, <2>2
<1>3. ui' \in PanelUi /\ ui'.form = ui.form /\ ui'.target = t /\ ui'.error = ui.error
  BY <1>1, <1>2 DEF PanelUi
<1>4. FormInv'
  BY <1>2, <1>3 DEF PanelInv, FormInv
<1> QED BY <1>1, <1>2, <1>3, <1>4, PanelLooks

-----------------------------------------------------------------------------
(* The server, for this panel and for others.                              *)

\* The rows only get newer.
LEMMA PanelChanges ==
  ASSUME PanelInv, server' \in Listing, server'.version >= server.version,
         UNCHANGED <<panel, listed, ui, queue, newest, saved, good, made>>,
         counts' \in PanelCounts, counts'.openings = counts.openings,
         reply' \in PanelReply, reply'.set => queue # <<>>,
         \/ reply' = reply
         \/ reply'.seen.version <= server'.version /\ reply'.seen.version >= server.version
  PROVE  PanelInv'
<1>1. server.version \in Nat /\ server'.version \in Nat /\ saved \in Nat
  BY DEF PanelInv, PanelValuesInv, Listing
<1>2. reply.seen.version \in Nat /\ reply'.seen.version \in Nat
  BY DEF PanelInv, PanelValuesInv, Listing, PanelReply
<1>3. saved <= server.version /\ reply.seen.version <= server.version
  BY DEF PanelInv, CurrentInv
<1>4. /\ saved <= server'.version /\ reply'.seen.version <= server'.version
      /\ reply' = reply \/ saved <= reply'.seen.version
  BY <1>1, <1>2, <1>3
<1>5. PanelValuesInv'
  BY DEF PanelInv, PanelValuesInv
<1>6. FormInv' /\ CreatesInv'
  BY DEF PanelInv, FormInv, CreatesInv
<1>7. CurrentInv'
  BY <1>4 DEF PanelInv, CurrentInv, loads
<1>8. PhotosInv' /\ LogInv' /\ AttachmentsInv'
  BY DEF PanelInv, PhotosInv, LogInv, AttachmentsInv
<1> QED BY <1>5, <1>6, <1>7, <1>8 DEF PanelInv

LEMMA ChangeIsNewer ==
  ASSUME server \in Listing, NEW rows \in SUBSET Rows
  PROVE  Change(rows) \in Listing /\ Change(rows).version >= server.version
BY DEF Change, Listing

LEMMA PanelIsServed == ASSUME PanelInv, Serve PROVE PanelInv'
<1> DEFINE c == Head(queue)
<1>1. server \in Listing /\ queue \in Seq(PanelCall) /\ queue # <<>> /\ counts \in PanelCounts
  BY DEF PanelInv, PanelValuesInv, Serve
<1>2. c \in PanelCall
  BY <1>1, Taken, Queues
<1>3. UNCHANGED <<panel, listed, ui, queue, newest, saved, good, made, counts>>
  BY DEF Serve
<1>4. server' \in Listing /\ server'.version >= server.version
  <2>1. CASE UNCHANGED server
    BY <1>1, <2>1 DEF Listing
  <2>2. CASE server' \in After(c)
    <3>1. \E rows \in SUBSET Rows : server' = Change(rows)
      <4>1. /\ server.rows \in SUBSET Rows /\ server.rows \ {c.row} \in SUBSET Rows
            /\ \A r \in Rows : server.rows \union {r} \in SUBSET Rows
        BY <1>1 DEF Listing
      <4> HIDE DEF c
      <4> QED BY <2>2, <4>1 DEF After
    <3> QED BY <1>1, <3>1, ChangeIsNewer
  <2> QED BY <2>1, <2>2 DEF Serve
<1>5. \/ reply' = [ok |-> TRUE, seen |-> server, wrote |-> FALSE, set |-> TRUE]
      \/ reply' = [ok |-> TRUE, seen |-> server', wrote |-> TRUE, set |-> TRUE]
      \/ reply' = [ok |-> FALSE, seen |-> server, wrote |-> FALSE, set |-> TRUE]
  BY DEF Serve
<1>6. reply' \in PanelReply
  <2>1. TRUE \in BOOLEAN /\ FALSE \in BOOLEAN
    OBVIOUS
  <2>2. \A ok, w \in BOOLEAN : \A l \in Listing :
          [ok |-> ok, seen |-> l, wrote |-> w, set |-> TRUE] \in PanelReply
    BY DEF PanelReply
  <2> QED BY Zenon, <1>1, <1>4, <1>5, <2>1, <2>2
<1>7. reply'.seen \in {server, server'}
  BY <1>5
<1>8. reply'.seen.version <= server'.version /\ reply'.seen.version >= server.version
  BY <1>1, <1>4, <1>7 DEF Listing
<1> QED BY <1>1, <1>3, <1>4, <1>6, <1>8, PanelChanges

LEMMA OthersChangePanels ==
  ASSUME PanelInv, NEW row \in Rows, PanelOther(row)
  PROVE  PanelInv'
<1>1. server \in Listing /\ counts \in PanelCounts /\ reply \in PanelReply
  BY DEF PanelInv, PanelValuesInv
<1>2. /\ UNCHANGED <<panel, listed, ui, queue, reply, newest, saved, good, made>>
      /\ counts' = [counts EXCEPT !.outside = @ + 1]
  BY DEF PanelOther
<1>3. server' \in Listing /\ server'.version >= server.version
  <2>1. server.rows \ {row} \in SUBSET Rows /\ server.rows \union {row} \in SUBSET Rows
    BY <1>1 DEF Listing
  <2> QED BY <1>1, <2>1, ChangeIsNewer DEF PanelOther
<1>4. counts' \in PanelCounts /\ counts'.openings = counts.openings
  BY <1>1, <1>2 DEF PanelCounts
<1>5. reply'.set => queue # <<>>
  BY <1>2 DEF PanelInv, PanelValuesInv
<1> QED BY <1>1, <1>2, <1>3, <1>4, <1>5, PanelChanges

-----------------------------------------------------------------------------
(* The answers to a panel.                                                 *)

\* What the answer to a write makes of the component, and what it sends.
LEMMA AnsweredMakes ==
  ASSUME panel \in Panels, NEW u \in PanelUi, NEW c \in PanelCall, NEW ok \in BOOLEAN,
         c.kind \notin {"load", "refresh"}, panel = "log" => c.kind \in {"create", "quick"},
         panel = "attachments" => c.kind \in {"create", "edit", "delete"}
  PROVE  LET h == Answered(u, c, ok) IN
         /\ h.ui \in PanelUi /\ h.ui.target \in {u.target, NoRow}
         /\ \/ h.ui.form = NoForm /\ ok
            \/ h.ui.form = u.form /\ ~(ok /\ c.kind = "create" /\ panel # "documents")
         /\ panel = "photos" /\ c.kind \in {"quick", "upload", "delete"} => h.ui.form = u.form
         /\ h.ui.error <=> (u.error \/ (panel = "attachments" /\ ~ok))
         /\ h.then = IF ~ok THEN Nothing ELSE IF loads THEN Load(newest + 1) ELSE Refresh
<1> DEFINE h == Answered(u, c, ok)
           W(g) == /\ g.ui \in PanelUi /\ g.ui.target \in {u.target, NoRow}
                   /\ \/ g.ui.form = NoForm /\ ok
                      \/ g.ui.form = u.form /\ ~(ok /\ c.kind = "create" /\ panel # "documents")
                   /\ panel = "photos" /\ c.kind \in {"quick", "upload", "delete"}
                        => g.ui.form = u.form
                   /\ g.ui.error <=> (u.error \/ (panel = "attachments" /\ ~ok))
                   /\ g.then = IF ~ok THEN Nothing ELSE IF loads THEN Load(newest + 1) ELSE Refresh
           inner == \/ c.kind = "delete" /\ panel \in {"photos", "documents", "sessions",
                         "attachments", "defaults"}
                    \/ c.kind = "quick" /\ panel = "history"
                    \/ c.kind \in {"create", "edit"} /\ panel = "attachments"
<1>1. /\ CloseForm(u) \in PanelUi /\ CloseForm(u).form = NoForm /\ CloseForm(u).target = u.target
      /\ CloseForm(u).error = u.error
  <2>1. NoForm \in PanelForm
    BY DEF NoForm, PanelForm, RowOrNone
  <2> QED BY <2>1 DEF CloseForm, PanelUi
<1>2. /\ CloseDialog(u) \in PanelUi /\ CloseDialog(u).form = u.form /\ CloseDialog(u).target = NoRow
      /\ CloseDialog(u).error = u.error
  BY DEF CloseDialog, PanelUi, RowOrNone
<1>3. panel \in PanelKinds
  BY ItemPanelsAssumption DEF PanelKinds
<1>4. ASSUME c.kind = "delete" /\ panel = "photos" PROVE W(h)
  <2>1. h = [ui |-> CloseDialog(u), then |-> IF ok THEN Refresh ELSE Nothing]
    BY <1>4 DEF Answered, PhotoDeleted
  <2> HIDE DEF h
  <2> QED BY <1>2, <1>4, <2>1 DEF loads, PanelUi
<1>5. ASSUME c.kind = "delete" /\ panel = "documents" PROVE W(h)
  <2>1. h = [ui |-> CloseDialog(u), then |-> IF ok THEN Refresh ELSE Nothing]
    BY <1>5 DEF Answered, DocumentDeleted
  <2> HIDE DEF h
  <2> QED BY <1>2, <1>5, <2>1 DEF loads, PanelUi
<1>6. ASSUME c.kind = "delete" /\ panel = "sessions" PROVE W(h)
  <2>1. h = [ui |-> CloseDialog(u), then |-> IF ok THEN Load(newest + 1) ELSE Nothing]
    BY <1>6 DEF Answered, SessionDeleted
  <2> HIDE DEF h
  <2> QED BY <1>2, <1>6, <2>1 DEF loads, PanelUi
<1>7. ASSUME c.kind = "delete" /\ panel = "attachments" PROVE W(h)
  <2>1. h = [ui |-> [CloseDialog(u) EXCEPT !.error = @ \/ ~ok],
             then |-> IF ok THEN Refresh ELSE Nothing]
    BY <1>7 DEF Answered, AttachmentDeleted
  <2>2. /\ h.ui \in PanelUi /\ h.ui.form = u.form /\ h.ui.target = NoRow
        /\ h.ui.error = (u.error \/ ~ok)
    <3>1. u.error \in BOOLEAN /\ (u.error \/ ~ok) \in BOOLEAN
      BY DEF PanelUi
    <3>2. h.ui = [CloseDialog(u) EXCEPT !.error = u.error \/ ~ok]
      BY <1>2, <2>1
    <3> HIDE DEF h
    <3> QED BY <1>2, <3>1, <3>2 DEF PanelUi
  <2>3. h.then = IF ok THEN Refresh ELSE Nothing
    BY <2>1
  <2> HIDE DEF h
  <2> QED BY <1>7, <2>2, <2>3 DEF loads
<1>8. ASSUME c.kind = "delete" /\ panel = "defaults" PROVE W(h)
  <2>1. h = [ui |-> CloseDialog(u), then |-> IF ok THEN Refresh ELSE Nothing]
    BY <1>8 DEF Answered, DefaultDeleted
  <2> HIDE DEF h
  <2> QED BY <1>2, <1>8, <2>1 DEF loads, PanelUi
<1>9. ASSUME c.kind = "quick" /\ panel = "history" PROVE W(h)
  <2> DEFINE v == [u EXCEPT !.deleting = NoRow]
  <2>1. h = IF ok THEN [ui |-> CloseForm(v), then |-> Refresh] ELSE [ui |-> v, then |-> Nothing]
    BY <1>9 DEF Answered, EventDeleted, EventMutated
  <2>2. /\ v \in PanelUi /\ v.form = u.form /\ v.target = u.target /\ v.error = u.error
        /\ CloseForm(v) \in PanelUi /\ CloseForm(v).form = NoForm /\ CloseForm(v).target = u.target
        /\ CloseForm(v).error = u.error
    <3>1. NoForm \in PanelForm /\ NoRow \in RowOrNone
      BY DEF NoForm, PanelForm, RowOrNone
    <3> QED BY <3>1 DEF CloseForm, PanelUi
  <2> HIDE DEF h, v
  <2> QED BY <1>9, <2>1, <2>2 DEF loads, PanelUi
<1>10. ASSUME c.kind \in {"create", "edit"} /\ panel = "attachments" PROVE W(h)
  <2>1. h = IF ok THEN [ui |-> CloseForm(u), then |-> Refresh]
                  ELSE [ui |-> [u EXCEPT !.error = TRUE], then |-> Nothing]
    BY <1>10 DEF Answered, AttachmentSaved
  <2>2. /\ [u EXCEPT !.error = TRUE] \in PanelUi /\ [u EXCEPT !.error = TRUE].form = u.form
        /\ [u EXCEPT !.error = TRUE].target = u.target /\ [u EXCEPT !.error = TRUE].error = TRUE
    BY DEF PanelUi
  <2>3. u.error \in BOOLEAN
    BY DEF PanelUi
  <2> HIDE DEF h
  <2> QED BY <1>1, <1>10, <2>1, <2>2, <2>3 DEF loads
<1>11. ASSUME ~inner /\ ~ok PROVE W(h)
  <2>1. h = [ui |-> u, then |-> Nothing]
    BY <1>11 DEF Answered
  <2>2. u.error \in BOOLEAN /\ panel # "attachments"
    BY <1>11 DEF PanelUi
  <2> HIDE DEF h
  <2> QED BY <1>11, <2>1, <2>2
<1>12. ASSUME ~inner /\ ok PROVE W(h)
  <2>1. \/ /\ h = [ui |-> CloseForm(u), then |-> IF loads THEN Load(newest + 1) ELSE Refresh]
           /\ ~(panel = "photos" /\ c.kind \in {"quick", "upload", "delete"})
        \/ /\ h = [ui |-> u, then |-> IF loads THEN Load(newest + 1) ELSE Refresh]
           /\ c.kind # "create" \/ panel = "documents"
    <3>1. CASE panel = "photos"
      <4>1. CASE c.kind = "edit"
        BY <1>12, <3>1, <4>1 DEF Answered, PhotoSaved, loads
      <4>2. CASE c.kind = "quick"
        BY <1>12, <3>1, <4>2 DEF Answered, PhotoChanged, loads
      <4>3. CASE c.kind = "upload"
        BY <1>12, <3>1, <4>3 DEF Answered, PhotosUploaded, loads
      <4>4. CASE c.kind \in {"create", "log"}
        BY <1>12, <3>1, <4>4 DEF Answered, DefaultSaved, loads
      <4> QED BY <1>12, <3>1, <4>1, <4>2, <4>3, <4>4 DEF PanelCall
    <3>2. CASE panel = "documents"
      BY <1>12, <3>2 DEF Answered, DocumentsUploaded, loads
    <3>3. CASE panel = "rules"
      BY <1>12, <3>3 DEF Answered, RuleMutated, loads
    <3>4. CASE panel = "history"
      BY <1>12, <3>4 DEF Answered, EventMutated, loads
    <3>5. CASE panel = "sessions"
      BY <1>12, <3>5 DEF Answered, SessionSaved, loads
    <3>6. CASE panel = "log"
      BY <1>12, <3>6 DEF Answered, EntryLogged, Marked, loads
    <3>7. CASE panel = "defaults"
      BY <1>12, <3>7 DEF Answered, CategoryAdded, DefaultSaved, loads
    <3>8. panel # "attachments"
      BY <1>12
    <3> QED BY <1>3, <3>1, <3>2, <3>3, <3>4, <3>5, <3>6, <3>7, <3>8 DEF PanelKinds
  <2>2. u.error \in BOOLEAN /\ panel # "attachments"
    BY <1>12 DEF PanelUi
  <2> HIDE DEF h, inner
  <2> QED BY <1>1, <1>12, <2>1, <2>2
<1>13. W(h)
  <2> HIDE DEF h, W
  <2>1. inner \/ (~inner /\ ok) \/ (~inner /\ ~ok)
    OBVIOUS
  <2> QED BY <1>4, <1>5, <1>6, <1>7, <1>8, <1>9, <1>10, <1>11, <1>12, <2>1 DEF inner
<1> QED BY <1>13

TheRefresh == Call("refresh", NoRow, 0)
TheLoad == Call("load", NoRow, newest + 1)

\* What an answer sends can be told by its length.
LEMMA LoadsAreLonger == \A n : Load(n) # Nothing /\ Load(n) # Refresh
<1> SUFFICES ASSUME NEW n PROVE Load(n) # Nothing /\ Load(n) # Refresh
  OBVIOUS
<1>1. Len(Refresh) = 1 /\ Len(Load(n)) = 2 /\ Len(Nothing) = 0
  BY DEF Refresh, Load, Nothing
<1>2. ASSUME Load(n) = Nothing PROVE FALSE
  BY <1>1, <1>2
<1>3. ASSUME Load(n) = Refresh PROVE FALSE
  BY <1>1, <1>3
<1> QED BY <1>2, <1>3

\* The queue when its first call was answered and the answer sent x.
LEMMA PanelQueueMoves ==
  ASSUME PanelInv, queue # <<>>, NEW x \in {Nothing, Refresh, Load(newest + 1)},
         queue' = Tail(queue) \o x
  PROVE  /\ queue' \in Seq(PanelCall)
         /\ \A i \in DOMAIN queue' :
              \/ i + 1 \in DOMAIN queue /\ queue'[i] = queue[i + 1]
              \/ x # Nothing /\ queue'[i] = TheRefresh
              \/ x = Load(newest + 1) /\ i = Len(queue) /\ queue'[i] = TheLoad
         /\ \A i \in DOMAIN queue : i # 1 => i - 1 \in DOMAIN queue' /\ queue'[i - 1] = queue[i]
         /\ x = Refresh => \E i \in DOMAIN queue' : queue'[i] = TheRefresh
         /\ x = Load(newest + 1) => \E i \in DOMAIN queue' : queue'[i] = TheLoad
<1> DEFINE rest == Tail(queue)
           m == Len(rest)
<1>1. queue \in Seq(PanelCall) /\ newest \in Nat
  BY DEF PanelInv, PanelValuesInv
<1>2. TheRefresh \in PanelCall /\ TheLoad \in PanelCall
  BY <1>1 DEF TheRefresh, TheLoad, Call, PanelCall, RowOrNone
<1>3. /\ rest \in Seq(PanelCall) /\ m = Len(queue) - 1 /\ m \in Nat /\ DOMAIN rest = 1 .. m
      /\ \A i \in 1 .. m : rest[i] = queue[i + 1]
      /\ DOMAIN queue = 1 .. m + 1 /\ Len(queue) = m + 1
  <2>1. rest \in Seq(PanelCall) /\ m = Len(queue) - 1
          /\ \A i \in DOMAIN rest : rest[i] = queue[i + 1]
    BY <1>1, Taken
  <2>2. DOMAIN rest = 1 .. m /\ m \in Nat /\ Len(queue) \in Nat /\ DOMAIN queue = 1 .. Len(queue)
    BY <1>1, <2>1, Queues
  <2>3. Len(queue) = m + 1
    BY <2>1, <2>2
  <2> QED BY <2>1, <2>2, <2>3
<1> HIDE DEF rest, m
<1>4. queue' = rest \o x
  BY DEF rest
<1>5. \A i \in DOMAIN queue : i # 1 => i - 1 \in 1 .. m /\ rest[i - 1] = queue[i]
  <2> TAKE i \in DOMAIN queue
  <2> HAVE i # 1
  <2>1. i - 1 \in 1 .. m /\ (i - 1) + 1 = i
    BY <1>3
  <2> QED BY <1>3, <2>1
<1>6. \A i \in 1 .. m : i + 1 \in DOMAIN queue
  BY <1>3
<1>7. CASE x = Nothing
  <2>1. queue' = rest
    BY <1>3, <1>4, <1>7 DEF Nothing
  <2>2. Nothing # Refresh /\ Nothing # Load(newest + 1)
    BY EmptySeq DEF Nothing, Refresh, Load
  <2> QED BY <1>3, <1>5, <1>6, <1>7, <2>1, <2>2
<1>8. CASE x = Refresh
  <2>1. queue' = Append(rest, TheRefresh)
    <3>1. x = <<TheRefresh>>
      BY <1>8 DEF Refresh, TheRefresh
    <3>2. rest \o <<TheRefresh>> = Append(rest, TheRefresh)
      BY <1>2, <1>3, Added
    <3> QED BY <1>4, <3>1, <3>2
  <2>2. /\ queue' \in Seq(PanelCall) /\ DOMAIN queue' = 1 .. m + 1 /\ queue'[m + 1] = TheRefresh
        /\ \A i \in 1 .. m : queue'[i] = rest[i]
    <3> DEFINE q == Append(rest, TheRefresh)
    <3>1. /\ q \in Seq(PanelCall) /\ DOMAIN q = 1 .. Len(rest) + 1 /\ q[Len(rest) + 1] = TheRefresh
          /\ \A i \in DOMAIN rest : q[i] = rest[i]
      BY <1>2, <1>3, Added
    <3>2. m = Len(rest) /\ DOMAIN rest = 1 .. m
      BY <1>3 DEF m
    <3> HIDE DEF q
    <3>3. queue' = q
      BY <2>1 DEF q
    <3> QED BY <3>1, <3>2, <3>3
  <2>3. \A i \in 1 .. m + 1 : i \in 1 .. m \/ i = m + 1
    BY <1>3
  <2>4. m + 1 \in DOMAIN queue' /\ \A i \in 1 .. m : i \in DOMAIN queue'
    BY <1>3, <2>2
  <2>5. x # Nothing /\ x # Load(newest + 1)
    <3>1. Len(Refresh) = 1 /\ Len(Load(newest + 1)) = 2 /\ Len(Nothing) = 0
      BY DEF Refresh, Load, Nothing
    <3>2. Len(x) = 1
      BY <1>8, <3>1
    <3>3. ASSUME x = Nothing PROVE FALSE
      BY <3>1, <3>2, <3>3
    <3>4. x # Load(newest + 1)
      <4>1. Refresh[1].kind = "refresh" /\ Load(newest + 1)[1].kind = "load"
        BY DEF Refresh, Load, Call
      <4> QED BY <1>8, <4>1
    <3> QED BY <3>3, <3>4
  <2> QED BY <1>3, <1>5, <1>6, <1>8, <2>2, <2>3, <2>4, <2>5
<1>9. CASE x = Load(newest + 1)
  <2> DEFINE q == Append(rest, TheLoad)
  <2>1. queue' = Append(q, TheRefresh)
    <3>1. x = <<TheLoad, TheRefresh>>
      BY <1>9 DEF Load, TheLoad, TheRefresh
    <3>2. rest \o <<TheLoad, TheRefresh>> = (rest \o <<TheLoad>>) \o <<TheRefresh>>
      BY <1>2, <1>3
    <3>3. rest \o <<TheLoad>> = q /\ q \in Seq(PanelCall)
      BY <1>2, <1>3, Added
    <3>4. q \o <<TheRefresh>> = Append(q, TheRefresh)
      BY <1>2, <3>3, Added
    <3> QED BY <1>4, <3>1, <3>2, <3>3, <3>4
  <2>2. /\ q \in Seq(PanelCall) /\ Len(q) = m + 1 /\ q[m + 1] = TheLoad /\ DOMAIN q = 1 .. m + 1
        /\ \A i \in 1 .. m : q[i] = rest[i]
    BY <1>2, <1>3, Added DEF m
  <2> HIDE DEF q
  <2>3. /\ queue' \in Seq(PanelCall) /\ DOMAIN queue' = 1 .. (m + 1) + 1
        /\ queue'[(m + 1) + 1] = TheRefresh /\ \A i \in 1 .. m + 1 : queue'[i] = q[i]
    <3> DEFINE p == Append(q, TheRefresh)
    <3>1. /\ p \in Seq(PanelCall) /\ DOMAIN p = 1 .. Len(q) + 1 /\ p[Len(q) + 1] = TheRefresh
          /\ \A i \in DOMAIN q : p[i] = q[i]
      BY <1>2, <2>2, Added
    <3> HIDE DEF p
    <3>2. queue' = p
      BY <2>1 DEF p
    <3> QED BY <2>2, <3>1, <3>2
  <2>4. \A i \in 1 .. (m + 1) + 1 : i \in 1 .. m \/ i = m + 1 \/ i = (m + 1) + 1
    BY <1>3
  <2>5. m + 1 \in DOMAIN queue' /\ m + 1 \in 1 .. m + 1 /\ \A i \in 1 .. m : i \in DOMAIN queue'
          /\ i \in 1 .. m + 1
    BY <1>3, <2>3
  <2>6. x # Nothing /\ x # Refresh
    BY <1>9, LoadsAreLonger
  <2>7. queue'[m + 1] = TheLoad /\ \A i \in 1 .. m : queue'[i] = rest[i]
    BY <2>2, <2>3, <2>5
  <2>8. \A i \in DOMAIN queue' :
          \/ i + 1 \in DOMAIN queue /\ queue'[i] = queue[i + 1]
          \/ x # Nothing /\ queue'[i] = TheRefresh
          \/ i = Len(queue) /\ queue'[i] = TheLoad
    <3>1. \A i \in 1 .. m : i + 1 \in DOMAIN queue /\ queue'[i] = queue[i + 1]
      BY <1>3, <1>6, <2>7
    <3>2. queue'[m + 1] = TheLoad /\ m + 1 = Len(queue)
      BY <1>3, <2>7
    <3> QED BY <2>3, <2>4, <2>6, <3>1, <3>2
  <2>9. \A i \in DOMAIN queue : i # 1 => i - 1 \in DOMAIN queue' /\ queue'[i - 1] = queue[i]
    <3> SUFFICES ASSUME NEW i \in DOMAIN queue, i # 1
                 PROVE  i - 1 \in DOMAIN queue' /\ queue'[i - 1] = queue[i]
      OBVIOUS
    <3>1. i - 1 \in 1 .. m /\ (i - 1) + 1 = i
      BY <1>3
    <3> QED BY <1>5, <2>5, <2>7, <3>1
  <2> QED BY <1>9, <2>3, <2>5, <2>6, <2>7, <2>8, <2>9
<1> QED BY <1>7, <1>8, <1>9

\* An answer is taken; x is what the page sends then.
LEMMA PanelMovesOn ==
  ASSUME PanelInv, queue # <<>>, NEW x \in {Nothing, Refresh, Load(newest + 1)},
         queue' = Tail(queue) \o x, x = Load(newest + 1) => loads,
         UNCHANGED <<panel, server, counts>>, reply' = NoReply,
         newest' = IF x = Load(newest + 1) THEN newest + 1 ELSE newest,
         ui' \in PanelUi, FormInv', listed' \in Listing, good' \in BOOLEAN,
         saved' \in Nat, saved' <= server.version,
         ui'.form = ui.form \/ ui'.form = NoForm,
         \/ made' = made
         \/ /\ queue[1].kind = "create" /\ ui'.form.n # queue[1].n
            /\ made' = [made EXCEPT ![queue[1].n] = @ + 1],
         \/ saved' <= listed'.version
         \/ loads /\ x = Load(newest + 1)
         \/ ~loads /\ x = Refresh
         \/ loads /\ x = Nothing
            /\ \E i \in DOMAIN queue : i # 1 /\ queue[i].kind = "load" /\ queue[i].n = newest
         \/ ~loads /\ \E i \in DOMAIN queue : i # 1 /\ queue[i].kind = "refresh",
         panel = "photos" => ui'.form = ui.form \/ queue[1].kind = "edit",
         panel = "log" =>
           /\ x # Nothing => x = Load(newest + 1)
           /\ ui'.error =>
                ~good' /\ x = Nothing /\ \A i \in DOMAIN queue : i # 1 => queue[i].kind # "load",
         panel = "attachments" =>
           /\ ui'.error =>
                ~good' /\ \A i \in DOMAIN queue : i # 1 => queue[i].kind = "refresh"
  PROVE  PanelInv'
<1>1. /\ queue \in Seq(PanelCall) /\ newest \in Nat /\ 1 \in DOMAIN queue
      /\ made \in [1 .. MaxOpenings -> Nat] /\ counts \in PanelCounts
  BY Queues DEF PanelInv, PanelValuesInv
<1>2. /\ queue' \in Seq(PanelCall)
      /\ \A i \in DOMAIN queue' :
           \/ i + 1 \in DOMAIN queue /\ queue'[i] = queue[i + 1]
           \/ x # Nothing /\ queue'[i] = TheRefresh
           \/ x = Load(newest + 1) /\ i = Len(queue) /\ queue'[i] = TheLoad
      /\ \A i \in DOMAIN queue : i # 1 => i - 1 \in DOMAIN queue' /\ queue'[i - 1] = queue[i]
      /\ x = Refresh => \E i \in DOMAIN queue' : queue'[i] = TheRefresh
      /\ x = Load(newest + 1) => \E i \in DOMAIN queue' : queue'[i] = TheLoad
  BY PanelQueueMoves
<1>3. /\ DOMAIN queue = 1 .. Len(queue) /\ Len(queue) \in Nat
      /\ \A i \in DOMAIN queue' : i \in Nat /\ i # 0
  BY <1>1, <1>2, Queues
<1>4. /\ TheRefresh.kind = "refresh" /\ TheRefresh.n = 0
      /\ TheLoad.kind = "load" /\ TheLoad.n = newest + 1
  BY DEF TheRefresh, TheLoad, Call
<1>5. newest' \in Nat /\ newest <= newest'
  BY <1>1
<1>6. PanelValuesInv'
  <2>1. made' \in [1 .. MaxOpenings -> Nat]
    <3>1. queue[1].kind = "create" => queue[1].n \in 1 .. MaxOpenings
      <4>1. queue[1].kind = "create" => queue[1].n \in 1 .. counts.openings
        BY <1>1 DEF PanelInv, CreatesInv
      <4>2. counts.openings \in 0 .. MaxOpenings /\ MaxOpenings \in Nat
        BY <1>1, ItemPanelsAssumption DEF PanelCounts
      <4> QED BY <4>1, <4>2
    <3> QED BY <1>1, <3>1
  <2>2. reply' \in PanelReply /\ ~reply'.set
    BY DEF NoReply, PanelReply, Listing
  <2>3. panel \in Panels /\ server \in Listing
    BY DEF PanelInv, PanelValuesInv
  <2> QED BY <1>1, <1>2, <1>5, <2>1, <2>2, <2>3 DEF PanelValuesInv
<1>7. CreatesInv'
  <2>1. \A i \in DOMAIN queue' : queue'[i].kind = "create" =>
          i + 1 \in DOMAIN queue /\ queue'[i] = queue[i + 1] /\ i + 1 # 1
    BY <1>2, <1>3, <1>4
  <2>2. \A i \in DOMAIN queue : queue[i].kind = "create" =>
          /\ queue[i].n \in 1 .. counts.openings /\ made[queue[i].n] = 0
          /\ \A j \in DOMAIN queue : queue[j].kind = "create" /\ queue[j].n = queue[i].n => i = j
    BY DEF PanelInv, CreatesInv
  <2>3. \A k \in 1 .. counts.openings : k \in 1 .. MaxOpenings
    BY <1>1, ItemPanelsAssumption DEF PanelCounts
  <2>4. \A i \in DOMAIN queue' : queue'[i].kind = "create" =>
          queue'[i].n \in 1 .. counts.openings /\ made'[queue'[i].n] = 0
    <3> TAKE i \in DOMAIN queue'
    <3> HAVE queue'[i].kind = "create"
    <3> DEFINE k == queue'[i].n
    <3>1. k \in 1 .. counts.openings /\ made[k] = 0 /\ k \in 1 .. MaxOpenings
      BY <2>1, <2>2, <2>3
    <3>2. queue[1].kind = "create" => k # queue[1].n
      BY <1>1, <2>1, <2>2
    <3> HIDE DEF k
    <3>3. made'[k] = 0
      BY <1>1, <3>1, <3>2
    <3> QED BY <3>1, <3>3 DEF k
  <2>5. \A i, j \in DOMAIN queue' :
          queue'[i].kind = "create" /\ queue'[j].kind = "create" /\ queue'[j].n = queue'[i].n
            => i = j
    BY <1>3, <2>1, <2>2
  <2>6. \A n \in 1 .. MaxOpenings :
          made'[n] = 0 \/ (made'[n] = 1 /\ n <= counts.openings /\ ui'.form.n # n)
    <3> TAKE n \in 1 .. MaxOpenings
    <3>1. n # 0 /\ (made[n] = 0 \/ (made[n] = 1 /\ n <= counts.openings /\ ui.form.n # n))
      BY DEF PanelInv, CreatesInv
    <3>2. NoForm.n = 0
      BY DEF NoForm
    <3>3. CASE made' = made
      BY <3>1, <3>2, <3>3
    <3>4. CASE /\ queue[1].kind = "create" /\ ui'.form.n # queue[1].n
               /\ made' = [made EXCEPT ![queue[1].n] = @ + 1]
      <4>1. queue[1].n \in 1 .. counts.openings /\ made[queue[1].n] = 0
        BY <1>1, <2>2, <3>4
      <4>2. CASE n = queue[1].n
        <5>1. made'[n] = 1 /\ n <= counts.openings
          <6>1. counts.openings \in Nat
            BY <1>1 DEF PanelCounts
          <6> QED BY <1>1, <3>4, <4>1, <4>2, <6>1
        <5> QED BY <3>4, <4>2, <5>1
      <4>3. CASE n # queue[1].n
        <5>1. made'[n] = made[n]
          BY <1>1, <3>4, <4>3
        <5> QED BY <3>1, <3>2, <5>1
      <4> QED BY <4>2, <4>3
    <3> QED BY <3>3, <3>4
  <2> QED BY <2>4, <2>5, <2>6 DEF CreatesInv
<1>8. CurrentInv'
  <2>1. reply'.seen.version <= server'.version /\ ~reply'.set
    <3>1. server.version \in Nat
      BY DEF PanelInv, PanelValuesInv, Listing
    <3> QED BY <3>1 DEF NoReply
  <2>2. x = Load(newest + 1) => \E i \in DOMAIN queue' : queue'[i].kind = "load"
          /\ queue'[i].n = newest'
    BY <1>2, <1>4
  <2>3. x = Refresh => \E i \in DOMAIN queue' : queue'[i].kind = "refresh"
    BY <1>2, <1>4
  <2>4. (\E i \in DOMAIN queue : i # 1 /\ queue[i].kind = "load" /\ queue[i].n = newest) =>
          \E i \in DOMAIN queue' : queue'[i].kind = "load" /\ queue'[i].n = newest
    BY <1>2
  <2>5. (\E i \in DOMAIN queue : i # 1 /\ queue[i].kind = "refresh") =>
          \E i \in DOMAIN queue' : queue'[i].kind = "refresh"
    <3> SUFFICES ASSUME NEW i \in DOMAIN queue, i # 1, queue[i].kind = "refresh"
                 PROVE  \E j \in DOMAIN queue' : queue'[j].kind = "refresh"
      OBVIOUS
    <3>1. i - 1 \in DOMAIN queue' /\ queue'[i - 1] = queue[i]
      BY <1>2
    <3> QED BY <3>1
  <2>6. x \in {Nothing, Refresh} => x # Load(newest + 1)
    <3>1. Refresh[1].kind = "refresh" /\ Load(newest + 1)[1].kind = "load"
      BY DEF Refresh, Load, Call
    <3>2. Nothing # Load(newest + 1)
      BY EmptySeq DEF Nothing, Load
    <3> QED BY <3>1, <3>2
  <2>7. \/ saved' <= listed'.version
        \/ loads /\ \E i \in DOMAIN queue' : queue'[i].kind = "load" /\ queue'[i].n = newest'
        \/ ~loads /\ \E i \in DOMAIN queue' : queue'[i].kind = "refresh"
    BY <2>2, <2>3, <2>4, <2>5, <2>6
  <2> QED BY <2>1, <2>7 DEF CurrentInv, loads
<1>9. PhotosInv'
  <2> SUFFICES ASSUME panel = "photos" PROVE PhotosInv'
    BY DEF PhotosInv
  <2>1. \A i \in DOMAIN queue :
          /\ queue[i].kind \in {"edit", "quick", "upload", "delete", "refresh"}
          /\ queue[i].kind = "edit" =>
               queue[i].n = ui.form.n /\ \A j \in DOMAIN queue : queue[j].kind = "edit" => i = j
    BY DEF PanelInv, PhotosInv
  <2>2. x # Load(newest + 1)
    BY DEF loads
  <2>3. \A i \in DOMAIN queue' :
          /\ queue'[i].kind \in {"edit", "quick", "upload", "delete", "refresh"}
          /\ queue'[i].kind = "edit" => i + 1 \in DOMAIN queue /\ queue'[i] = queue[i + 1]
               /\ i + 1 # 1
    BY <1>2, <1>3, <1>4, <2>1, <2>2
  <2>4. \A i \in DOMAIN queue' : queue'[i].kind = "edit" => queue[1].kind # "edit"
    BY <1>1, <2>1, <2>3
  <2>5. \A i, j \in DOMAIN queue' : queue'[i].kind = "edit" /\ queue'[j].kind = "edit" => i = j
    BY <1>3, <2>1, <2>3
  <2>6. \A i \in DOMAIN queue' : queue'[i].kind = "edit" => queue'[i].n = ui'.form.n
    BY <2>1, <2>3, <2>4
  <2> QED BY <2>3, <2>5, <2>6 DEF PhotosInv
<1>10. LogInv'
  <2> SUFFICES ASSUME panel = "log" PROVE LogInv'
    BY DEF LogInv
  <2>1. \A i \in DOMAIN queue :
          /\ queue[i].kind \in {"create", "quick", "load", "refresh"}
          /\ queue[i].kind = "load" => queue[i].n <= newest
    BY DEF PanelInv, LogInv
  <2>2. \A i, j \in DOMAIN queue :
          queue[i].kind = "load" /\ queue[j].kind = "load" /\ i < j => queue[i].n < queue[j].n
    BY DEF PanelInv, LogInv
  <2>3. \A i \in DOMAIN queue : queue[i].n \in Nat
    <3>1. \A i \in DOMAIN queue : queue[i] \in PanelCall
      BY <1>1, Queues
    <3> QED BY <3>1 DEF PanelCall
  <2>4. \A i \in DOMAIN queue' :
          /\ queue'[i].kind \in {"create", "quick", "load", "refresh"}
          /\ queue'[i].kind = "load" =>
               \/ i + 1 \in DOMAIN queue /\ queue'[i] = queue[i + 1] /\ i + 1 # 1
               \/ x = Load(newest + 1) /\ i = Len(queue) /\ queue'[i] = TheLoad
    BY <1>2, <1>3, <1>4, <2>1
  <2>5. Nothing # Load(newest + 1)
    BY EmptySeq DEF Nothing, Load
  <2>6. \A i \in DOMAIN queue' : queue'[i].kind = "load" => ~ui'.error /\ queue'[i].n <= newest'
    <3> TAKE i \in DOMAIN queue'
    <3> HAVE queue'[i].kind = "load"
    <3>1. CASE i + 1 \in DOMAIN queue /\ queue'[i] = queue[i + 1] /\ i + 1 # 1
      BY <1>1, <1>5, <2>1, <2>3, <3>1
    <3>2. CASE x = Load(newest + 1) /\ queue'[i] = TheLoad
      BY <1>1, <1>4, <2>5, <3>2
    <3> QED BY <2>4, <3>1, <3>2
  <2>7. \A i, j \in DOMAIN queue' :
          queue'[i].kind = "load" /\ queue'[j].kind = "load" /\ i < j => queue'[i].n < queue'[j].n
    <3> TAKE i, j \in DOMAIN queue'
    <3> HAVE queue'[i].kind = "load" /\ queue'[j].kind = "load" /\ i < j
    <3>1. CASE /\ i + 1 \in DOMAIN queue /\ queue'[i] = queue[i + 1]
               /\ j + 1 \in DOMAIN queue /\ queue'[j] = queue[j + 1]
      <4>1. i + 1 < j + 1
        BY <1>3
      <4> QED BY <2>2, <3>1, <4>1
    <3>2. CASE /\ i + 1 \in DOMAIN queue /\ queue'[i] = queue[i + 1] /\ queue'[j] = TheLoad
      BY <1>1, <1>4, <2>1, <2>3, <3>2
    <3>3. ASSUME i = Len(queue) PROVE FALSE
      BY <1>3, <2>4, <3>3
    <3> QED BY <2>4, <3>1, <3>2, <3>3
  <2> QED BY <2>4, <2>6, <2>7 DEF LogInv
<1>11. AttachmentsInv'
  <2> SUFFICES ASSUME panel = "attachments" PROVE AttachmentsInv'
    BY DEF AttachmentsInv
  <2>1. \A i \in DOMAIN queue :
          /\ queue[i].kind \in {"create", "edit", "delete", "refresh"}
          /\ queue[i].kind # "refresh" => \A j \in DOMAIN queue : queue[j].kind # "refresh" => i = j
    BY DEF PanelInv, AttachmentsInv
  <2>2. x # Load(newest + 1)
    BY DEF loads
  <2>3. \A i \in DOMAIN queue' :
          /\ queue'[i].kind \in {"create", "edit", "delete", "refresh"}
          /\ queue'[i].kind # "refresh" =>
               i + 1 \in DOMAIN queue /\ queue'[i] = queue[i + 1] /\ i + 1 # 1
    BY <1>2, <1>3, <1>4, <2>1, <2>2
  <2>4. \A i, j \in DOMAIN queue' :
          queue'[i].kind # "refresh" /\ queue'[j].kind # "refresh" => i = j
    BY <1>3, <2>1, <2>3
  <2>5. \A i \in DOMAIN queue' : queue'[i].kind # "refresh" => ~ui'.error
    BY <2>3
  <2> QED BY <2>3, <2>4, <2>5 DEF AttachmentsInv
<1> QED BY <1>6, <1>7, <1>8, <1>9, <1>10, <1>11 DEF PanelInv

\* A listing comes: it is shown if it is the newest one asked for.
LEMMA PanelReloads ==
  ASSUME PanelInv, Answer, Head(queue).kind \in {"load", "refresh"}
  PROVE  PanelInv' /\ ui'.form = ui.form
<1> DEFINE c == Head(queue)
<1>1. /\ reply.set /\ queue # <<>> /\ queue \in Seq(PanelCall) /\ reply \in PanelReply
      /\ listed \in Listing /\ ui \in PanelUi /\ good \in BOOLEAN /\ saved \in Nat
      /\ newest \in Nat
  BY DEF Answer, PanelInv, PanelValuesInv
<1>2. 1 \in DOMAIN queue /\ c = queue[1] /\ c \in PanelCall
  BY <1>1, Taken, Queues
<1>3. saved <= reply.seen.version /\ saved <= server.version /\ reply.seen \in Listing
  BY <1>1, <1>2 DEF PanelInv, CurrentInv, PanelReply
<1>4. Nothing # Load(newest + 1)
  BY EmptySeq DEF Nothing, Load
<1>5. queue' = Tail(queue) \o Nothing
  <2>1. queue' = Tail(queue)
    BY DEF Answer
  <2>2. Tail(queue) \in Seq(PanelCall)
    BY <1>1, Taken
  <2> QED BY <2>1, <2>2 DEF Nothing
<1>6. /\ UNCHANGED <<panel, server, counts, newest, saved, made>> /\ reply' = NoReply
      /\ c.kind = "load" => Loaded(c, reply) /\ good' = reply.ok
      /\ c.kind = "refresh" =>
           listed' = (IF loads THEN listed ELSE reply.seen) /\ ui' = ui /\ good' = good
  BY DEF Answer
<1> HIDE DEF c
<1>7. listed' \in Listing /\ good' \in BOOLEAN /\ ui' \in PanelUi /\ ui'.form = ui.form
      /\ ui'.target = ui.target
  <2>1. CASE c.kind = "refresh"
    BY <1>1, <1>3, <1>6, <2>1
  <2>2. CASE c.kind = "load"
    <3>1. good' \in BOOLEAN
      BY <1>1, <1>6, <2>2 DEF PanelReply
    <3>2. [reply.seen EXCEPT !.rows = {}] \in Listing
      BY <1>3 DEF Listing
    <3>3. [ui EXCEPT !.error = @ \/ ~reply.ok] \in PanelUi
      <4>1. (ui.error \/ ~reply.ok) \in BOOLEAN
        BY <1>1 DEF PanelUi, PanelReply
      <4> QED BY <1>1, <4>1 DEF PanelUi
    <3>4. /\ [ui EXCEPT !.error = @ \/ ~reply.ok].form = ui.form
          /\ [ui EXCEPT !.error = @ \/ ~reply.ok].target = ui.target
      BY <1>1 DEF PanelUi
    <3> QED BY <1>1, <1>3, <1>6, <2>2, <3>1, <3>2, <3>3, <3>4 DEF Loaded
  <2> QED BY <1>2, <2>1, <2>2 DEF c
<1>8. FormInv'
  BY <1>6, <1>7 DEF PanelInv, FormInv
<1>9. \/ saved' <= listed'.version
      \/ loads /\ \E i \in DOMAIN queue : i # 1 /\ queue[i].kind = "load" /\ queue[i].n = newest
      \/ ~loads /\ \E i \in DOMAIN queue : i # 1 /\ queue[i].kind = "refresh"
  <2>1. \/ saved <= listed.version
        \/ loads /\ \E i \in DOMAIN queue : queue[i].kind = "load" /\ queue[i].n = newest
        \/ ~loads /\ \E i \in DOMAIN queue : queue[i].kind = "refresh"
    BY DEF PanelInv, CurrentInv
  <2>2. CASE c.kind = "refresh"
    <3>1. c.kind # "load"
      BY <2>2
    <3> QED BY <1>2, <1>3, <1>6, <2>1, <2>2, <3>1
  <2>3. CASE c.kind = "load"
    <3>1. CASE Superseded(c)
      <4>1. listed' = listed /\ c.n # newest /\ loads
        BY <1>6, <2>3, <3>1 DEF Loaded, Superseded, loads
      <4> QED BY <1>2, <1>6, <2>1, <2>3, <4>1
    <3>2. CASE ~Superseded(c)
      <4>1. listed'.version = reply.seen.version
        BY <1>3, <1>6, <2>3, <3>2 DEF Loaded, Listing
      <4> QED BY <1>3, <1>6, <4>1
    <3> QED BY <3>1, <3>2
  <2> QED BY <2>2, <2>3 DEF c
<1>10. panel = "log" /\ ui'.error =>
         ~good' /\ \A i \in DOMAIN queue : i # 1 => queue[i].kind # "load"
  <2> SUFFICES ASSUME panel = "log", ui'.error
               PROVE  ~good' /\ \A i \in DOMAIN queue : i # 1 => queue[i].kind # "load"
    OBVIOUS
  <2>1. /\ ui.error => ~good
        /\ \A i \in DOMAIN queue : queue[i].kind = "load" => ~ui.error /\ queue[i].n <= newest
        /\ \A i, j \in DOMAIN queue :
             queue[i].kind = "load" /\ queue[j].kind = "load" /\ i < j => queue[i].n < queue[j].n
    BY DEF PanelInv, LogInv
  <2>2. CASE c.kind = "refresh"
    BY <1>6, <2>1, <2>2
  <2>3. CASE c.kind = "load"
    <3>1. ~ui.error
      BY <1>2, <2>1, <2>3
    <3>2. ~Superseded(c) /\ ~reply.ok
      <4>1. ~Superseded(c)
        BY <1>6, <2>3, <3>1 DEF Loaded
      <4>2. ui' = [ui EXCEPT !.error = @ \/ ~reply.ok]
        BY <1>6, <2>3, <4>1 DEF Loaded
      <4> QED BY <1>1, <3>1, <4>1, <4>2 DEF PanelUi
    <3>3. c.n = newest
      BY <3>2 DEF Superseded
    <3>4. \A i \in DOMAIN queue : i # 1 => queue[i].kind # "load"
      <4> SUFFICES ASSUME NEW i \in DOMAIN queue, i # 1, queue[i].kind = "load" PROVE FALSE
        OBVIOUS
      <4>1. DOMAIN queue = 1 .. Len(queue) /\ Len(queue) \in Nat /\ queue[i] \in PanelCall
        BY <1>1, Queues
      <4>2. 1 < i /\ queue[i].n \in Nat
        BY <4>1 DEF PanelCall
      <4>3. queue[1].n < queue[i].n /\ queue[i].n <= newest
        BY <1>2, <2>1, <2>3, <4>2
      <4> QED BY <1>1, <1>2, <3>3, <4>2, <4>3
    <3> QED BY <1>6, <2>3, <3>2, <3>4
  <2> QED BY <2>2, <2>3 DEF c
<1>11. panel = "attachments" /\ ui'.error =>
         ~good' /\ \A i \in DOMAIN queue : i # 1 => queue[i].kind = "refresh"
  <2> SUFFICES ASSUME panel = "attachments", ui'.error
               PROVE  ~good' /\ \A i \in DOMAIN queue : i # 1 => queue[i].kind = "refresh"
    OBVIOUS
  <2>1. /\ ui.error => ~good
        /\ \A i \in DOMAIN queue : queue[i].kind \in {"create", "edit", "delete", "refresh"}
        /\ \A i \in DOMAIN queue : queue[i].kind # "refresh" => ~ui.error
    BY DEF PanelInv, AttachmentsInv
  <2>2. c.kind = "refresh"
    BY <1>2, <2>1 DEF c
  <2> QED BY <1>6, <2>1, <2>2
<1>12. PanelInv'
  <2> DEFINE x == Nothing
  <2>1. x \in {Nothing, Refresh, Load(newest + 1)} /\ x # Load(newest + 1)
        /\ queue' = Tail(queue) \o x
    BY <1>4, <1>5
  <2>2. x = Nothing
    OBVIOUS
  <2> HIDE DEF x
  <2> QED BY <1>1, <1>3, <1>6, <1>7, <1>8, <1>9, <1>10, <1>11, <2>1, <2>2, PanelMovesOn
<1> QED BY <1>7, <1>12

\* The answer of a write.
LEMMA PanelWrites ==
  ASSUME PanelInv, Answer, Head(queue).kind \notin {"load", "refresh"}
  PROVE  /\ PanelInv'
         /\ panel = "photos" /\ ui'.form # ui.form =>
              Head(queue).kind = "edit" /\ Head(queue).n = ui.form.n
<1> DEFINE c == Head(queue)
           h == Answered(ui, c, reply.ok)
<1>1. /\ reply.set /\ queue # <<>> /\ queue \in Seq(PanelCall) /\ reply \in PanelReply
      /\ listed \in Listing /\ ui \in PanelUi /\ good \in BOOLEAN /\ saved \in Nat
      /\ newest \in Nat /\ panel \in Panels /\ server \in Listing
  BY DEF Answer, PanelInv, PanelValuesInv
<1>2. 1 \in DOMAIN queue /\ c = queue[1] /\ c \in PanelCall
  BY <1>1, Taken, Queues
<1>3. /\ saved <= server.version /\ reply.seen.version <= server.version /\ reply.seen \in Listing
      /\ reply.ok \in BOOLEAN
  BY <1>1 DEF PanelInv, CurrentInv, PanelReply
<1>4. /\ panel = "log" => c.kind \in {"create", "quick"}
      /\ panel = "attachments" => c.kind \in {"create", "edit", "delete"}
      /\ panel = "photos" => c.kind \in {"edit", "quick", "upload", "delete"}
  BY <1>2 DEF PanelInv, LogInv, AttachmentsInv, PhotosInv
<1>5. c.kind \notin {"load", "refresh"}
  OBVIOUS
<1>6. /\ ui' = Clear(h.ui, h.then) /\ queue' = Tail(queue) \o h.then /\ good' = reply.ok
      /\ newest' = IF h.then # <<>> /\ loads THEN newest + 1 ELSE newest
      /\ saved' = IF reply.ok THEN reply.seen.version ELSE saved
      /\ made' = IF reply.ok /\ c.kind = "create" THEN [made EXCEPT ![c.n] = @ + 1] ELSE made
      /\ UNCHANGED <<panel, server, counts, listed>> /\ reply' = NoReply
  BY <1>5 DEF Answer
<1> DEFINE x == h.then
<1> HIDE DEF c
<1>7. /\ h.ui \in PanelUi /\ h.ui.target \in {ui.target, NoRow}
      /\ \/ h.ui.form = NoForm /\ reply.ok
         \/ h.ui.form = ui.form /\ ~(reply.ok /\ c.kind = "create" /\ panel # "documents")
      /\ panel = "photos" /\ c.kind \in {"quick", "upload", "delete"} => h.ui.form = ui.form
      /\ h.ui.error <=> (ui.error \/ (panel = "attachments" /\ ~reply.ok))
      /\ x = IF ~reply.ok THEN Nothing ELSE IF loads THEN Load(newest + 1) ELSE Refresh
  BY <1>1, <1>2, <1>3, <1>4, <1>5, AnsweredMakes
<1> HIDE DEF h
<1>8. /\ x \in {Nothing, Refresh, Load(newest + 1)} /\ Nothing = <<>>
      /\ Nothing # Load(newest + 1) /\ Refresh # Load(newest + 1) /\ Nothing # Refresh
      /\ Head(Load(newest + 1)).kind = "load" /\ Head(Refresh).kind = "refresh"
  <2>1. Nothing = <<>> /\ Nothing # Load(newest + 1) /\ Nothing # Refresh
    BY EmptySeq DEF Nothing, Load, Refresh
  <2>2. Head(Load(newest + 1)).kind = "load" /\ Head(Refresh).kind = "refresh"
    BY DEF Load, Refresh, Call
  <2>3. x \in {Nothing, Refresh, Load(newest + 1)}
    BY <1>7
  <2>4. Refresh # Load(newest + 1)
    BY <2>2
  <2> QED BY <2>1, <2>2, <2>3, <2>4
<1>9. x = Load(newest + 1) <=> reply.ok /\ loads
  BY <1>7, <1>8
<1>10. newest' = IF x = Load(newest + 1) THEN newest + 1 ELSE newest
  BY <1>6, <1>7, <1>8, <1>9
<1>11. /\ ui' \in PanelUi /\ ui'.form = h.ui.form /\ ui'.target = h.ui.target
       /\ ui'.error <=> (h.ui.error /\ x # Load(newest + 1))
  <2>1. CASE x = Load(newest + 1)
    <3>1. ui' = [h.ui EXCEPT !.error = FALSE]
      BY <1>6, <1>8, <2>1 DEF Clear
    <3> QED BY <1>7, <2>1, <3>1 DEF PanelUi
  <2>2. CASE x # Load(newest + 1)
    <3>1. ui' = h.ui
      BY <1>6, <1>8, <2>2 DEF Clear
    <3> QED BY <1>7, <2>2, <3>1
  <2> QED BY <2>1, <2>2
<1>12. good' \in BOOLEAN /\ listed' \in Listing /\ saved' \in Nat /\ saved' <= server.version
  BY <1>1, <1>3, <1>6 DEF Listing
<1>13. FormInv'
  <2>1. NoForm.kind = "none"
    BY DEF NoForm
  <2> QED BY <1>6, <1>7, <1>11, <2>1 DEF PanelInv, FormInv
<1>14. ui'.form = ui.form \/ ui'.form = NoForm
  BY <1>7, <1>11
<1>15. \/ made' = made
       \/ /\ queue[1].kind = "create" /\ ui'.form.n # queue[1].n
          /\ made' = [made EXCEPT ![queue[1].n] = @ + 1]
  <2> SUFFICES ASSUME reply.ok, c.kind = "create"
               PROVE  ui'.form.n # queue[1].n
    BY <1>2, <1>6
  <2>1. queue[1].n \in 1 .. counts.openings
    BY <1>2 DEF PanelInv, CreatesInv
  <2>2. ui'.form = NoForm
    BY <1>7, <1>11 DEF PanelInv, FormInv
  <2>3. counts.openings \in Nat
    BY DEF PanelInv, PanelValuesInv, PanelCounts
  <2> QED BY <2>1, <2>2, <2>3 DEF NoForm
<1>16. \/ saved' <= listed'.version
       \/ loads /\ x = Load(newest + 1)
       \/ ~loads /\ x = Refresh
       \/ loads /\ x = Nothing
          /\ \E i \in DOMAIN queue : i # 1 /\ queue[i].kind = "load" /\ queue[i].n = newest
       \/ ~loads /\ \E i \in DOMAIN queue : i # 1 /\ queue[i].kind = "refresh"
  <2>1. CASE reply.ok
    BY <1>7, <2>1
  <2>2. CASE ~reply.ok
    <3>1. saved' = saved /\ listed' = listed /\ x = Nothing
      BY <1>6, <1>7, <2>2
    <3>2. \A i \in DOMAIN queue : queue[i].kind \in {"load", "refresh"} => i # 1
      BY <1>2, <1>5
    <3>3. \/ saved <= listed.version
          \/ loads /\ \E i \in DOMAIN queue : queue[i].kind = "load" /\ queue[i].n = newest
          \/ ~loads /\ \E i \in DOMAIN queue : queue[i].kind = "refresh"
      BY DEF PanelInv, CurrentInv
    <3> QED BY <3>1, <3>2, <3>3
  <2> QED BY <1>3, <2>1, <2>2
<1>17. panel = "photos" => ui'.form = ui.form \/ queue[1].kind = "edit"
  BY <1>2, <1>4, <1>7, <1>11
<1>18. panel = "log" =>
         /\ x # Nothing => x = Load(newest + 1)
         /\ ui'.error =>
              ~good' /\ x = Nothing /\ \A i \in DOMAIN queue : i # 1 => queue[i].kind # "load"
  <2> SUFFICES ASSUME panel = "log"
               PROVE  /\ x # Nothing => x = Load(newest + 1)
                      /\ ui'.error =>
                           ~good' /\ x = Nothing /\ \A i \in DOMAIN queue : i # 1
                             => queue[i].kind # "load"
    OBVIOUS
  <2>1. loads
    BY DEF loads
  <2>2. ui.error => \A i \in DOMAIN queue : queue[i].kind # "load"
    BY DEF PanelInv, LogInv
  <2> QED BY <1>6, <1>7, <1>9, <1>11, <2>1, <2>2
<1>19. panel = "attachments" /\ ui'.error =>
         ~good' /\ \A i \in DOMAIN queue : i # 1 => queue[i].kind = "refresh"
  <2> SUFFICES ASSUME panel = "attachments", ui'.error
               PROVE  ~good' /\ \A i \in DOMAIN queue : i # 1 => queue[i].kind = "refresh"
    OBVIOUS
  <2>1. \A i \in DOMAIN queue : queue[i].kind # "refresh" =>
          ~ui.error /\ \A j \in DOMAIN queue : queue[j].kind # "refresh" => i = j
    BY DEF PanelInv, AttachmentsInv
  <2>2. ~ui.error /\ \A j \in DOMAIN queue : queue[j].kind # "refresh" => j = 1
    BY <1>2, <1>5, <2>1
  <2> QED BY <1>6, <1>7, <1>11, <2>2
<1> HIDE DEF x
<1>20. queue' = Tail(queue) \o x
  BY <1>6 DEF x
<1>21. PanelInv'
  BY <1>1, <1>6, <1>8, <1>9, <1>10, <1>11, <1>12, <1>13, <1>14, <1>15, <1>16, <1>17, <1>18, <1>19,
     <1>20, PanelMovesOn
<1>22. panel = "photos" /\ ui'.form # ui.form => queue[1].kind = "edit" /\ queue[1].n = ui.form.n
  BY <1>2, <1>17 DEF PanelInv, PhotosInv
<1> QED BY <1>2, <1>21, <1>22 DEF c

\* Every step of a panel, with what CaptionDraftStands says of it.
LEMMA PanelKeeps ==
  ASSUME PanelInv, [PanelNext]_panelVars
  PROVE  /\ PanelInv'
         /\ panel = "photos" /\ ui.form # NoForm /\ ui'.form = NoForm =>
              \/ queue' = queue
              \/ Head(queue).kind = "edit" /\ Head(queue).n = ui.form.n
<1>1. CASE Answer
  BY <1>1, PanelReloads, PanelWrites
<1>2. CASE Serve
  BY <1>2, PanelIsServed DEF Serve
<1>3. CASE \E kind \in {"create", "edit", "log"}, row \in Rows \union {NoRow} : PanelOpen(kind, row)
  BY <1>3, PanelOpens DEF PanelOpen
<1>4. CASE PanelCancel
  BY <1>4, PanelCancels DEF PanelCancel
<1>5. CASE PanelKeep \/ \E row \in Rows : PanelAskDelete(row)
  BY <1>5, PanelAsks DEF PanelKeep, PanelAskDelete
<1>6. CASE \E row \in Rows : PanelOther(row)
  BY <1>6, OthersChangePanels DEF PanelOther
<1>7. ui \in PanelUi
  BY DEF PanelInv, PanelValuesInv
<1>8. CASE PanelSubmit
  <2>1. ui'.form = ui.form
    BY <1>7, <1>8 DEF PanelSubmit, PanelUi
  <2> QED BY <1>8, <2>1, PanelSubmits
<1>9. CASE \E row \in Rows \union {NoRow} : PanelQuick(row)
  <2>1. ui'.form = ui.form
    BY <1>7, <1>9 DEF PanelQuick, PanelUi
  <2> QED BY <1>9, <2>1, PanelQuickens
<1>10. CASE PanelUpload
  BY <1>10, PanelUploads DEF PanelUpload
<1>11. CASE PanelConfirm
  <2>1. ui'.form = ui.form
    BY <1>7, <1>11 DEF PanelConfirm, PanelUi
  <2> QED BY <1>11, <2>1, PanelConfirms
<1>12. CASE PanelRetry
  <2>1. ui'.form = ui.form
    BY <1>7, <1>12 DEF PanelRetry, PanelUi
  <2> QED BY <1>12, <2>1, PanelRetries
<1>13. CASE UNCHANGED panelVars
  <2>1. UNCHANGED <<panel, server, listed, ui, queue, reply, newest, saved, good, made, counts>>
    BY <1>13 DEF panelVars
  <2>2. counts \in PanelCounts /\ server \in Listing
    BY DEF PanelInv, PanelValuesInv
  <2>3. server.version \in Nat
    BY <2>2 DEF Listing
  <2>4. PanelInv'
    BY <2>1, <2>2, <2>3, PanelChanges DEF PanelInv, PanelValuesInv
  <2> QED BY <2>1, <2>4
<1> QED BY <1>1, <1>2, <1>3, <1>4, <1>5, <1>6, <1>8, <1>9, <1>10, <1>11, <1>12, <1>13 DEF PanelNext

\* What the panels promise follows from their invariant.
LEMMA PanelHolds == PanelInv => PanelsAreTrue
<1> SUFFICES ASSUME PanelInv PROVE PanelsAreTrue
  OBVIOUS
<1>1. PanelTypeOK
  <2>1. \A i \in DOMAIN queue : queue[i] \in PanelCall
    BY Queues DEF PanelInv, PanelValuesInv
  <2> QED BY <2>1 DEF PanelInv, PanelValuesInv, PanelTypeOK, Listing, PanelUi, PanelForm, RowOrNone,
             PanelCall
<1>2. QuietPanelIsCurrent
  BY DEF PanelInv, CurrentInv, QuietPanelIsCurrent
<1>3. OneRowPerOpening
  BY DEF PanelInv, CreatesInv, PanelValuesInv, OneRowPerOpening
<1>4. ErrorIsOfTheLastCall
  BY DEF PanelInv, LogInv, AttachmentsInv, ErrorIsOfTheLastCall
<1> QED BY <1>1, <1>2, <1>3, <1>4 DEF PanelsAreTrue

-----------------------------------------------------------------------------
(* A list page.                                                            *)

Storage == Entries \union View \union {Blocked}

\* The first row of a page that is not past the last.
LEMMA PageHasRows ==
  ASSUME NEW n \in Nat \ {0}, NEW size \in Nat \ {0}, NEW i \in Nat,
         i <= (n + size - 1) \div size - 1
  PROVE  i * size < n
<1> DEFINE q == (n + size - 1) \div size
<1>1. q \in Nat /\ q * size <= n + size - 1
  <2>1. n + size - 1 \in Nat
    OBVIOUS
  <2>2. \A m \in Nat : m \div size \in Nat /\ (m \div size) * size <= m
    OBVIOUS
  <2> QED BY <2>1, <2>2
<1> HIDE DEF q
<1>2. i + 1 <= q
  BY <1>1 DEF q
<1>3. (i + 1) * size <= q * size
  BY <1>1, <1>2
<1>4. (i + 1) * size = i * size + size /\ i * size \in Nat
  OBVIOUS
<1>5. i * size + size <= n + size - 1
  BY <1>1, <1>3, <1>4
<1> QED BY <1>4, <1>5

\* A page up to the last one has a first row, when any row passes the filters.
LEMMA PagesAreCounted ==
  ASSUME NEW v \in View, NEW p \in SUBSET Items
  PROVE  /\ PageCount(v, p) \in Nat \ {0}
         /\ Filtered(v, p) # {} =>
              \A i \in Nat : i <= PageCount(v, p) - 1 => i * v.pageSize < Cardinality(Filtered(v,
                p))
<1> DEFINE rows == Filtered(v, p)
           n == Cardinality(rows)
           size == v.pageSize
           q == (n + size - 1) \div size
<1>1. rows \subseteq Items /\ IsFiniteSet(Items)
  BY ListViewAssumption DEF Filtered
<1>2. n \in Nat /\ (rows # {} => n # 0)
  BY <1>1, FS_Subset, FS_CardinalityType, FS_EmptySet
<1>3. size \in Nat \ {0}
  BY ListViewAssumption DEF View
<1>4. PageCount(v, p) = Max({1, q})
  BY DEF PageCount
<1> HIDE DEF rows, n, size
<1>5. q \in Nat /\ (n # 0 => q >= 1)
  <2>1. n + size - 1 \in Nat
    BY <1>2, <1>3
  <2>2. \A m \in Nat : m \div size \in Nat
    BY <1>3
  <2>3. ASSUME n # 0, q = 0 PROVE FALSE
    <3>1. n + size - 1 >= size
      BY <1>2, <1>3, <2>3
    <3>2. \A m \in Nat : m >= size => m \div size # 0
      BY <1>3
    <3> QED BY <2>1, <2>3, <3>1, <3>2
  <2> QED BY <2>1, <2>2, <2>3
<1> HIDE DEF q
<1>6. Max({1, q}) = IF q >= 1 THEN q ELSE 1
  <2>1. \E x \in {1, q} : \A y \in {1, q} : x >= y
    BY <1>5
  <2>2. Max({1, q}) \in {1, q} /\ \A y \in {1, q} : Max({1, q}) >= y
    BY <2>1 DEF Max
  <2> QED BY <1>5, <2>2
<1>7. PageCount(v, p) \in Nat \ {0}
  BY <1>4, <1>5, <1>6
<1>8. ASSUME rows # {}, NEW i \in Nat, i <= PageCount(v, p) - 1 PROVE i * size < n
  <2>1. i <= q - 1 /\ n \in Nat \ {0}
    BY <1>2, <1>4, <1>5, <1>6, <1>8
  <2> QED BY <1>3, <2>1, PageHasRows DEF q
<1> QED BY <1>7, <1>8 DEF rows, n, size

\* Whatever the storage holds, a whole view record is read from it.
LEMMA WhatIsStoredIsAView == ASSUME NEW raw \in Storage PROVE parseViewState(raw) \in View
<1>1. CASE raw \in {None, Blocked}
  BY <1>1, ListViewAssumption DEF parseViewState
<1>2. CASE raw \notin {None, Blocked}
  <2> DEFINE w == [f \in DOMAIN Default |-> IF f \in DOMAIN raw THEN raw[f] ELSE Default[f]]
  <2>1. DOMAIN Default = {"sorted", "hidden", "pageSize", "grouped", "query", "kind", "inventory"}
    BY DEF Default
  <2>2. \A f \in DOMAIN Default : \E v \in View : w[f] = v[f]
    <3> TAKE f \in DOMAIN Default
    <3>1. CASE f \notin DOMAIN raw
      BY <3>1, ListViewAssumption
    <3>2. CASE f \in DOMAIN raw /\ raw \in View
      BY <3>2
    <3>3. CASE f \in DOMAIN raw /\ raw \in Entries
      BY <1>2, <3>3, ListViewAssumption
    <3> QED BY <1>2, <3>1, <3>2, <3>3 DEF Storage
  <2>3. DOMAIN w = DOMAIN Default /\ w = [f \in DOMAIN w |-> w[f]]
    OBVIOUS
  <2> HIDE DEF w
  <2>4. /\ w.sorted \in BOOLEAN /\ w.hidden \in SUBSET Columns /\ w.pageSize \in PageSizes
        /\ w.grouped \in BOOLEAN /\ w.query \in {NoText, Text}
        /\ w.kind \in Kinds \union {AllKinds} /\ w.inventory \in Inventory
    BY <2>1, <2>2 DEF View
  <2>5. w \in View
    BY <2>1, <2>3, <2>4 DEF View
  <2> QED BY <1>2, <2>5 DEF w, parseViewState
<1> QED BY <1>1, <1>2

LEMMA ListStarts == ListInit => ListInv
<1> SUFFICES ASSUME ListInit PROVE ListInv
  OBVIOUS
<1>1. Default \in View /\ Default.kind = AllKinds /\ Default.query = NoText
  BY ListViewAssumption DEF Default
<1>2. ListValuesInv
  BY <1>1 DEF ListInit, ListValuesInv, ListTypeOK
<1>3. BoxInv /\ KindInv
  BY <1>1 DEF ListInit, BoxInv, KindInv
<1>4. PageInv
  <2>1. PageCount(seen, props) \in Nat \ {0}
    BY <1>1, PagesAreCounted DEF ListInit
  <2> QED BY <2>1 DEF ListInit, PageInv
<1> QED BY <1>2, <1>3, <1>4 DEF ListInv

\* The effect changes nothing but a type that has vanished.
LEMMA StaleIsReset ==
  ASSUME NEW v \in View, NEW p \in SUBSET Items
  PROVE  /\ ResetStale(v, p) \in View
         /\ \A f \in {"sorted", "hidden", "pageSize", "grouped", "query", "inventory"} :
              ResetStale(v, p)[f] = v[f]
         /\ ~(isFilterStale(v, p) /\ ~isFilterStale(seen, props)) => ResetStale(v, p) = v
         /\ isFilterStale(v, p) /\ ~isFilterStale(seen, props) => ResetStale(v, p).kind = AllKinds
<1>1. [v EXCEPT !.kind = AllKinds] \in View
  BY DEF View
<1> QED BY <1>1 DEF ResetStale, View

\* What a render leaves: the rows and the view it was given, a page that exists, and the
\* view without a type that has just vanished.
LEMMA ShowKeeps ==
  ASSUME NEW v \in View, NEW p \in SUBSET Items, NEW i \in Nat, NEW kept \in Storage,
         list' = list, Show(v, p, i, kept)
  PROVE  /\ seen' = v /\ props' = p /\ view' = ResetStale(v, p) /\ view' \in View
         /\ store' \in Storage /\ index' \in Nat /\ PageInv'
<1>1. seen' = v /\ props' = p /\ view' = ResetStale(v, p) /\ view' \in View
  BY StaleIsReset DEF Show
<1>2. store' \in Storage
  BY <1>1 DEF Show, Save, Storage
<1>3. PageCount(v, p)' = PageCount(v, p) /\ PageCount(v, p) \in Nat \ {0}
  <2>1. PageCount(v, p) \in Nat \ {0}
    BY PagesAreCounted
  <2> QED BY <2>1 DEF PageCount, Filtered, EffectiveKind, Offered
<1>4. PageCount(seen, props)' = PageCount(v, p) /\ Flat(seen, props)' = Flat(v, p)
  BY <1>1 DEF PageCount, Filtered, EffectiveKind, Offered, Flat
<1>5. CASE Flat(v, p)
  <2>1. PICK j \in AutoReset(i, v, p) : index' = FitPage(j, v, p)
    BY <1>5 DEF Show
  <2>2. j \in Nat
    BY DEF AutoReset
  <2>3. index' \in Nat /\ index' <= PageCount(v, p) - 1
    BY <1>3, <2>1, <2>2 DEF FitPage
  <2> QED BY <1>1, <1>2, <1>4, <2>3 DEF PageInv
<1>6. CASE ~Flat(v, p)
  <2>1. index' = 0
    BY <1>6 DEF Show
  <2> QED BY <1>1, <1>2, <1>4, <1>6, <2>1 DEF PageInv
<1> QED BY <1>5, <1>6

\* A page that exists shows a row.
LEMMA ListHolds == ListInv => ListIsSound
<1> SUFFICES ASSUME ListInv PROVE ListIsSound
  OBVIOUS
<1>1. ListTypeOK /\ BoxIsTheQuery
  BY DEF ListInv, ListValuesInv, BoxInv, BoxIsTheQuery
<1>2. NothingIsOutOfReach
  <2> SUFFICES ASSUME shown, Filtered(seen, props) # {}
               PROVE  IF seen.grouped
                      THEN Groups(seen, props) # {} \/ Borrowed(seen, props) # {}
                      ELSE index * seen.pageSize < Cardinality(Filtered(seen, props))
    BY DEF NothingIsOutOfReach
  <2>1. CASE seen.grouped
    BY <2>1 DEF Groups, Borrowed
  <2>2. CASE ~seen.grouped
    <3>1. index \in Nat /\ seen \in View /\ props \in SUBSET Items
      BY DEF ListInv, ListValuesInv, ListTypeOK
    <3>2. Flat(seen, props)
      BY <2>2 DEF Flat, Filtered
    <3>3. index <= PageCount(seen, props) - 1
      BY <3>2 DEF ListInv, PageInv
    <3> QED BY <2>2, <3>1, <3>3, PagesAreCounted
  <2> QED BY <2>1, <2>2
<1> QED BY <1>1, <1>2 DEF ListIsSound

-----------------------------------------------------------------------------
(* What a render leaves of a list page.                                    *)

\* What ViewStands says of one step.
ArrangementStep ==
  clicks' = clicks /\ shown' = shown
  /\ ~(list = "firearms" /\ submitted # None /\ submitted' = None)
  => \A f \in {"sorted", "hidden", "pageSize", "grouped"} : view'[f] = view[f]

NoSnapStep ==
  list = "firearms" /\ shown /\ ~overwrote
  /\ EffectiveKind(seen, props) = AllKinds /\ EffectiveKind(seen', props') # AllKinds
  => clicks' # clicks

ListStep == ListInv' /\ ArrangementStep /\ NoSnapStep

\* A render of v keeps the invariant, whatever the step does besides, when the box goes with
\* v and no vanished type is left over from the render before.
LEMMA ShowMakes ==
  ASSUME ListInv, NEW v \in View, NEW p \in SUBSET Items, NEW i \in Nat, NEW kept \in Storage,
         Show(v, p, i, kept),
         UNCHANGED <<list, items, form, submitted, target, deleting>>,
         shown' = TRUE, clicks' \in Nat, overwrote' \in BOOLEAN, refreshing' \in BOOLEAN,
         box' \in {NoText, Text}, timer' \in {NoText, Text, None},
         timer' # None => list = "magazines",
         ~overwrote' => ~(isFilterStale(v, p) /\ isFilterStale(seen, props)),
         list = "magazines" /\ ~overwrote' => box' = IF timer' = None THEN v.query ELSE timer'
  PROVE  ListInv' /\ seen' = v /\ props' = p /\ view' = ResetStale(v, p)
<1>1. /\ seen' = v /\ props' = p /\ view' = ResetStale(v, p) /\ view' \in View
      /\ store' \in Storage /\ index' \in Nat /\ PageInv'
  BY ShowKeeps
<1>2. ListValuesInv'
  BY <1>1 DEF ListInv, ListValuesInv, ListTypeOK, Storage
<1>3. list = "magazines" => view' = v
  BY <1>1, StaleIsReset DEF isFilterStale
<1>4. BoxInv'
  BY <1>1, <1>3 DEF BoxInv
<1>5. isFilterStale(seen, props)' = isFilterStale(v, p)
  BY <1>1 DEF isFilterStale, Offered
<1>6. KindInv'
  <2>1. CASE isFilterStale(v, p)
    BY <1>1, <2>1, StaleIsReset DEF KindInv
  <2>2. CASE ~isFilterStale(v, p)
    BY <1>1, <1>5, <2>2, StaleIsReset DEF KindInv
  <2> QED BY <2>1, <2>2
<1> QED BY <1>1, <1>2, <1>4, <1>6 DEF ListInv

\* A render of the view as it is.
LEMMA ShowsTheView ==
  ASSUME ListInv, NEW p \in SUBSET Items, NEW i \in Nat, Show(view, p, i, store),
         UNCHANGED <<list, items, form, submitted, target, deleting, shown, overwrote>>,
         shown, clicks' \in Nat, refreshing' \in BOOLEAN,
         box' \in {NoText, Text}, timer' \in {NoText, Text, None},
         timer' # None => list = "magazines",
         list = "magazines" /\ ~overwrote => box' = IF timer' = None THEN view.query ELSE timer'
  PROVE  ListStep /\ seen' = view
<1>1. view \in View /\ store \in Storage /\ overwrote \in BOOLEAN /\ seen \in View
  BY DEF ListInv, ListValuesInv, ListTypeOK, Storage
<1>2. ~overwrote => ~(isFilterStale(view, p) /\ isFilterStale(seen, props))
  BY DEF ListInv, KindInv, isFilterStale
<1>3. ListInv' /\ seen' = view /\ props' = p /\ view' = ResetStale(view, p)
  BY <1>1, <1>2, ShowMakes
<1>4. ArrangementStep
  BY <1>1, <1>3, StaleIsReset DEF ArrangementStep
<1>5. NoSnapStep
  <2> SUFFICES ASSUME list = "firearms", ~overwrote, EffectiveKind(seen, props) = AllKinds,
                      EffectiveKind(seen', props') # AllKinds
               PROVE  FALSE
    BY DEF NoSnapStep
  <2>1. view.kind # AllKinds
    BY <1>3 DEF EffectiveKind
  <2>2. view.kind = seen.kind /\ ~isFilterStale(seen, props)
    BY <2>1 DEF ListInv, KindInv
  <2> QED BY <2>1, <2>2 DEF isFilterStale, EffectiveKind
<1> QED BY <1>3, <1>4, <1>5 DEF ListStep

\* The renders that no click asked for, turning the page and typing.
LEMMA RenderKeeps == ASSUME ListInv, Render PROVE ListStep
<1>1. timer = None
  BY DEF ListInv, BoxInv, Render
<1> QED BY <1>1, ShowsTheView DEF ListInv, BoxInv, ListValuesInv, ListTypeOK, Render, calls

LEMMA RefreshKeeps == ASSUME ListInv, Refreshed PROVE ListStep
BY ShowsTheView DEF ListInv, BoxInv, ListValuesInv, ListTypeOK, Refreshed

LEMMA TurnKeeps == ASSUME ListInv, NEW i \in {index - 1, index + 1}, Turn(i) PROVE ListStep
<1>1. i \in Nat
  BY DEF ListInv, ListValuesInv, ListTypeOK, Turn
<1> QED BY <1>1, ShowsTheView DEF ListInv, BoxInv, ListValuesInv, ListTypeOK, Turn, Usable, calls

LEMMA TypeKeeps == ASSUME ListInv, NEW text \in {NoText, Text}, Type(text) PROVE ListStep
<1>1. seen' = view /\ text # None
  BY ListViewAssumption DEF Type, Show
<1> QED BY <1>1, ShowsTheView DEF ListInv, BoxInv, ListValuesInv, ListTypeOK, Type, Usable, calls

\* The first render: nothing of the storage is trusted but what it parses to.
LEMMA MountKeeps == ASSUME ListInv, Mount PROVE ListStep
<1> DEFINE v == parseViewState(store)
<1>1. v \in View /\ seen = Default /\ Default.kind = AllKinds /\ timer = None /\ store \in Storage
  BY WhatIsStoredIsAView DEF ListInv, BoxInv, ListValuesInv, Mount, Default, Storage
<1>2. Show(v, props, 0, store) /\ box' = SyncedBox(v)
  BY DEF Mount
<1> HIDE DEF v
<1>3. ~isFilterStale(seen, props)
  BY <1>1 DEF isFilterStale
<1>4. box' \in {NoText, Text} /\ (list = "magazines" => box' = v.query)
  BY <1>1, <1>2 DEF SyncedBox, View
<1>5. ListInv'
  BY <1>1, <1>2, <1>3, <1>4, ShowMakes DEF ListInv, ListValuesInv, ListTypeOK, Mount, calls
<1> QED BY <1>5 DEF ListStep, ArrangementStep, NoSnapStep, Mount

\* A click: a view built on what is on the screen.
LEMMA ChooseKeeps ==
  ASSUME ListInv, NEW v \in View, NEW i \in Nat, v.query = seen.query, Choose(v, i)
  PROVE  ListStep
<1>1. /\ Save(v) \in Storage /\ props \in SUBSET Items /\ clicks \in Nat /\ overwrote \in BOOLEAN
      /\ shown /\ box \in {NoText, Text} /\ timer \in {NoText, Text, None}
  BY DEF ListInv, ListValuesInv, ListTypeOK, Choose, Usable, Save, Storage
<1>2. ~overwrote' => ~(isFilterStale(v, props) /\ isFilterStale(seen, props))
  BY <1>1 DEF ListInv, KindInv, isFilterStale, Choose
<1>3. list = "magazines" /\ ~overwrote' => box' = IF timer' = None THEN v.query ELSE timer'
  BY <1>1 DEF ListInv, BoxInv, Choose
<1>4. timer # None => list = "magazines"
  BY DEF ListInv, BoxInv
<1>5. ListInv'
  <2>1. /\ Show(v, props, i, Save(v)) /\ clicks' \in Nat /\ overwrote' \in BOOLEAN
        /\ UNCHANGED <<list, items, shown, box, timer, form, submitted, target, deleting,
             refreshing>>
    BY <1>1 DEF Choose, calls
  <2>2. refreshing \in BOOLEAN
    BY DEF ListInv, ListValuesInv, ListTypeOK
  <2> QED BY <1>1, <1>2, <1>3, <1>4, <2>1, <2>2, ShowMakes
<1>6. clicks' # clicks
  BY <1>1 DEF Choose
<1> QED BY <1>5, <1>6 DEF ListStep, ArrangementStep, NoSnapStep

\* Every control of the list changes one field of what is on the screen.
LEMMA ControlsKeep ==
  ASSUME ListInv,
         \/ Sort \/ PickGrouping
         \/ \E c \in Columns : ToggleColumn(c)
         \/ \E n \in PageSizes : SetPageSize(n)
         \/ \E k \in Kinds \union {AllKinds} : PickKind(k)
         \/ \E raw \in Inventory : PickInventory(raw)
  PROVE  ListStep
<1>1. seen \in View /\ index \in Nat /\ PageSizes \subseteq Nat \ {0}
  BY ListViewAssumption DEF ListInv, ListValuesInv, ListTypeOK
<1>2. CASE Sort
  <2>1. [seen EXCEPT !.sorted = ~@] \in View /\ [seen EXCEPT !.sorted = ~@].query = seen.query
    BY <1>1 DEF View
  <2> QED BY <1>1, <1>2, <2>1, ChooseKeeps DEF Sort
<1>3. CASE PickGrouping
  <2>1. [seen EXCEPT !.grouped = ~@] \in View /\ [seen EXCEPT !.grouped = ~@].query = seen.query
    BY <1>1 DEF View
  <2> QED BY <1>1, <1>3, <2>1, ChooseKeeps DEF PickGrouping
<1>4. ASSUME NEW c \in Columns, ToggleColumn(c) PROVE ListStep
  <2> DEFINE v == [seen EXCEPT !.hidden = IF c \in @ THEN @ \ {c} ELSE @ \union {c}]
  <2>1. v \in View /\ v.query = seen.query
    BY <1>1 DEF View
  <2>2. Choose(v, index)
    BY <1>4 DEF ToggleColumn
  <2> HIDE DEF v
  <2> QED BY <1>1, <2>1, <2>2, ChooseKeeps
<1>5. ASSUME NEW n \in PageSizes, SetPageSize(n) PROVE ListStep
  <2> DEFINE v == [seen EXCEPT !.pageSize = n]
             i == (index * seen.pageSize) \div n
  <2>1. v \in View /\ v.query = seen.query
    BY <1>1 DEF View
  <2>2. i \in Nat
    <3>1. n \in Nat \ {0} /\ seen.pageSize \in Nat
      BY <1>1 DEF View
    <3>2. index * seen.pageSize \in Nat
      BY <1>1, <3>1
    <3>3. \A m \in Nat : m \div n \in Nat
      BY <3>1
    <3> QED BY <3>2, <3>3
  <2>3. Choose(v, i)
    BY <1>5 DEF SetPageSize
  <2> HIDE DEF v, i
  <2> QED BY <2>1, <2>2, <2>3, ChooseKeeps
<1>6. ASSUME NEW k \in Kinds \union {AllKinds}, PickKind(k) PROVE ListStep
  <2>1. [seen EXCEPT !.kind = k] \in View /\ [seen EXCEPT !.kind = k].query = seen.query
    BY <1>1 DEF View
  <2> QED BY <1>1, <1>6, <2>1, ChooseKeeps DEF PickKind
<1>7. ASSUME NEW raw \in Inventory, PickInventory(raw) PROVE ListStep
  <2>1. /\ [seen EXCEPT !.inventory = raw] \in View
        /\ [seen EXCEPT !.inventory = raw].query = seen.query
    BY <1>1 DEF View
  <2> QED BY <1>1, <1>7, <2>1, ChooseKeeps DEF PickInventory
<1> QED BY <1>2, <1>3, <1>4, <1>5, <1>6, <1>7

-----------------------------------------------------------------------------
(* The other steps of a list page.                                         *)

\* A step that neither renders nor writes the view.
LEMMA LeavesTheView ==
  ASSUME ListInv, ListValuesInv',
         UNCHANGED <<list, props, view, seen, shown, box, timer, index, overwrote>>
  PROVE  ListStep
<1>1. PageInv'
  BY DEF ListInv, PageInv, Flat, PageCount, Filtered, EffectiveKind, Offered
<1>2. BoxInv' /\ KindInv'
  BY DEF ListInv, BoxInv, KindInv, isFilterStale, Offered
<1>3. EffectiveKind(seen', props') = EffectiveKind(seen, props)
  OBVIOUS
<1>4. NoSnapStep
  BY <1>3 DEF NoSnapStep
<1> QED BY <1>1, <1>2, <1>4 DEF ListInv, ListStep, ArrangementStep

\* The timer: it runs only where everything is rendered, so it takes nothing back.
LEMMA CommitKeeps == ASSUME ListInv, CommitQuery PROVE ListStep
<1>1. view = seen /\ list = "magazines" /\ shown /\ timer \in {NoText, Text} /\ seen \in View
  BY DEF ListInv, BoxInv, ListValuesInv, ListTypeOK, CommitQuery
<1> DEFINE v == [seen EXCEPT !.query = timer]
<1>2. /\ v \in View /\ v.query = timer
      /\ \A f \in {"sorted", "hidden", "pageSize", "grouped"} : v[f] = seen[f]
  BY <1>1 DEF View
<1>3. view' = v
  BY DEF CommitQuery, Latest
<1> HIDE DEF v
<1>4. ListValuesInv'
  BY <1>2, <1>3 DEF ListInv, ListValuesInv, ListTypeOK, CommitQuery, calls, Save
<1>5. BoxInv'
  BY <1>1, <1>2, <1>3 DEF ListInv, BoxInv, CommitQuery
<1>6. KindInv'
  BY <1>1 DEF KindInv, CommitQuery
<1>7. PageInv'
  BY DEF ListInv, PageInv, Flat, PageCount, Filtered, EffectiveKind, Offered, CommitQuery
<1>8. ArrangementStep
  BY <1>1, <1>2, <1>3 DEF ArrangementStep
<1>9. NoSnapStep
  BY <1>1 DEF NoSnapStep
<1> QED BY <1>4, <1>5, <1>6, <1>7, <1>8, <1>9 DEF ListInv, ListStep

\* The dialogs, and the calls they send.
LEMMA CreateCallsKeep ==
  ASSUME ListInv, \/ OpenForm \/ CancelForm \/ CancelDelete \/ ConfirmDelete \/ Shared
                  \/ \E i \in Items : Submit(i) \/ RequestDelete(i)
  PROVE  ListStep
<1>1. ListValuesInv /\ Mine \subseteq Items
  BY ListViewAssumption DEF ListInv
<1>2. CASE OpenForm \/ CancelForm
  <2>1. ListValuesInv'
    BY <1>1, <1>2 DEF ListValuesInv, ListTypeOK, OpenForm, CancelForm, SetForm
  <2> QED BY <1>2, <2>1, LeavesTheView DEF OpenForm, CancelForm, SetForm
<1>3. CASE CancelDelete
  <2>1. ListValuesInv'
    BY <1>1, <1>3 DEF ListValuesInv, ListTypeOK, CancelDelete
  <2> QED BY <1>3, <2>1, LeavesTheView DEF CancelDelete
<1>4. CASE ConfirmDelete
  <2>1. target \in Items
    BY <1>1, <1>4 DEF ListValuesInv, ListTypeOK, ConfirmDelete
  <2>2. deleting' \in Deletion
    BY <1>4, <2>1 DEF ConfirmDelete, Deletion
  <2>3. ListValuesInv'
    BY <1>1, <1>4, <2>2 DEF ListValuesInv, ListTypeOK, ConfirmDelete
  <2> QED BY <1>4, <2>3, LeavesTheView DEF ConfirmDelete
<1>5. CASE Shared
  <2>1. ListValuesInv'
    BY <1>1, <1>5 DEF ListValuesInv, ListTypeOK, Shared
  <2> QED BY <1>5, <2>1, LeavesTheView DEF Shared
<1>6. ASSUME NEW i \in Items, Submit(i) PROVE ListStep
  <2>1. ListValuesInv'
    BY <1>1, <1>6 DEF ListValuesInv, ListTypeOK, Submit, Submission
  <2> QED BY <1>6, <2>1, LeavesTheView DEF Submit
<1>7. ASSUME NEW i \in Items, RequestDelete(i) PROVE ListStep
  <2>1. ListValuesInv'
    BY <1>1, <1>7 DEF ListValuesInv, ListTypeOK, RequestDelete
  <2> QED BY <1>7, <2>1, LeavesTheView DEF RequestDelete
<1> QED BY <1>2, <1>3, <1>4, <1>5, <1>6, <1>7

LEMMA AnswersKeep ==
  ASSUME ListInv, Deleted \/ \E i \in Items : Other(i)
  PROVE  ListStep
<1>1. CASE Deleted
  <2>1. ListValuesInv'
    BY <1>1 DEF ListInv, ListValuesInv, ListTypeOK, Deleted, Deletion
  <2> QED BY <1>1, <2>1, LeavesTheView DEF Deleted
<1>2. ASSUME NEW i \in Items, Other(i) PROVE ListStep
  <2>1. ListValuesInv'
    BY <1>2 DEF ListInv, ListValuesInv, ListTypeOK, Other, calls
  <2> QED BY <1>2, <2>1, LeavesTheView DEF Other
<1> QED BY <1>1, <1>2

\* The answer of a create: the firearms page goes back to the view of the submission.
LEMMA CreatedKeeps == ASSUME ListInv, Created PROVE ListStep
<1>1. submitted \in Submission
  BY DEF ListInv, ListValuesInv, Created
<1> DEFINE v == [submitted.base EXCEPT !.kind = AllKinds]
<1>2. v \in View /\ v.kind = AllKinds
  BY <1>1 DEF Submission, View
<1>3. \/ UNCHANGED <<store, view>>
      \/ list = "firearms" /\ store' = Save(v) /\ view' \in {v, view}
  BY DEF Created
<1> HIDE DEF v
<1>4. ListValuesInv'
  <2>1. ListTypeOK'
    BY <1>1, <1>2, <1>3 DEF ListInv, ListValuesInv, ListTypeOK, Created, Submission
  <2>2. store' \in Entries \union View \union {Blocked}
    BY <1>2, <1>3 DEF ListInv, ListValuesInv, Save
  <2> QED BY <2>1, <2>2 DEF ListInv, ListValuesInv, Created
<1>5. CASE UNCHANGED view
  BY <1>4, <1>5, LeavesTheView DEF Created
<1>6. CASE list = "firearms" /\ view' = v
  <2>1. BoxInv' /\ KindInv'
    BY <1>2, <1>6 DEF ListInv, BoxInv, KindInv, Created
  <2>2. PageInv'
    BY DEF ListInv, PageInv, Flat, PageCount, Filtered, EffectiveKind, Offered, Created
  <2>3. EffectiveKind(seen', props') = EffectiveKind(seen, props)
    BY DEF Created, EffectiveKind, Offered
  <2>4. ArrangementStep /\ NoSnapStep
    BY <1>6, <2>3 DEF ArrangementStep, NoSnapStep, Created
  <2> QED BY <1>4, <2>1, <2>2, <2>4 DEF ListInv, ListStep
<1> QED BY <1>3, <1>5, <1>6

\* The page is left and opened again: what is under way no longer answers to it.
LEMMA ReopenKeeps == ASSUME ListInv, Reopen PROVE ListStep
<1>1. Default \in View /\ Default.kind = AllKinds
  BY ListViewAssumption DEF Default
<1>2. submitted' \in Submission \union {None} /\ deleting' \in Deletion \union {None}
  <2>1. submitted # None => [submitted EXCEPT !.here = FALSE] \in Submission
    BY DEF ListInv, ListValuesInv, Submission
  <2>2. deleting # None => [deleting EXCEPT !.here = FALSE] \in Deletion
    BY DEF ListInv, ListValuesInv, Deletion
  <2> QED BY <2>1, <2>2 DEF Reopen
<1>3. ListValuesInv'
  <2>1. ListTypeOK'
    BY <1>1 DEF ListInv, ListValuesInv, ListTypeOK, Reopen
  <2>2. /\ clicks' = clicks + 1 /\ overwrote' = FALSE /\ store' = store
    BY DEF Reopen
  <2>3. store \in Entries \union View \union {Blocked} /\ clicks \in Nat
    BY DEF ListInv, ListValuesInv
  <2>4. clicks' \in Nat
    BY <2>2, <2>3
  <2>5. overwrote' \in BOOLEAN
    BY <2>2, Zenon
  <2>6. store' \in Entries \union View \union {Blocked}
    BY <2>2, <2>3
  <2> QED BY <1>2, <2>1, <2>4, <2>5, <2>6 DEF ListValuesInv
<1>4. BoxInv' /\ KindInv'
  BY <1>1 DEF BoxInv, KindInv, Reopen
<1>5. PageInv'
  <2>1. PageCount(Default, items) \in Nat \ {0} /\ items \in SUBSET Items
    BY <1>1, PagesAreCounted DEF ListInv, ListValuesInv, ListTypeOK
  <2>2. PageCount(seen, props)' = PageCount(Default, items)
    BY DEF PageCount, Filtered, EffectiveKind, Offered, Reopen
  <2> QED BY <2>1, <2>2 DEF PageInv, Reopen
<1>6. clicks' # clicks
  BY DEF ListInv, ListValuesInv, Reopen
<1> QED BY <1>3, <1>4, <1>5, <1>6 DEF ListInv, ListStep, ArrangementStep, NoSnapStep

LEMMA ListKeeps == ASSUME ListInv, [ListNext]_listVars PROVE ListStep
<1>1. CASE UNCHANGED listVars
  <2>1. ListValuesInv'
    BY <1>1 DEF ListInv, ListValuesInv, ListTypeOK, listVars
  <2> QED BY <1>1, <2>1, LeavesTheView DEF listVars
<1>2. CASE ListUser
  BY <1>2, ControlsKeep, TurnKeeps, TypeKeeps, CreateCallsKeep, ReopenKeeps DEF ListUser
<1> QED BY <1>1, <1>2, MountKeeps, RenderKeeps, RefreshKeeps, CommitKeeps, CreatedKeeps,
           AnswersKeep DEF ListNext

-----------------------------------------------------------------------------
(* The screen.                                                             *)

\* The invariant of the pages, whichever of them is on the screen.
PagesInv ==
  /\ ListInv /\ PanelInv /\ ItemInv /\ ViewInv /\ ShareInv /\ BackupInv
  /\ ClicksInv /\ ChecksInv /\ SwitchInv

\* A step of the screen is for each page a step of its own or none.
LEMMA EachPageSteps ==
  ASSUME [Next]_vars
  PROVE  /\ [ListNext]_listVars /\ [PanelNext]_panelVars /\ [ItemNext]_itemVars
         /\ [ViewNext]_viewVars /\ [ShareNext]_shareVars /\ [BackupNext]_backupVars
         /\ [UsersNext]_usersVars /\ [BacklogNext]_backlogVars /\ [SettingsNext]_settingsVars
<1>1. CASE OnList BY <1>1 DEF OnList, summaryPages
<1>2. CASE OnPanel BY <1>2 DEF OnPanel, summaryPages
<1>3. CASE OnItem BY <1>3 DEF OnItem, summaryPages
<1>4. CASE OnView BY <1>4 DEF OnView, summaryPages
<1>5. CASE OnShare BY <1>5 DEF OnShare, summaryPages
<1>6. CASE OnBackup BY <1>6 DEF OnBackup, summaryPages
<1>7. CASE OnUsers BY <1>7 DEF OnUsers, summaryPages
<1>8. CASE OnBacklog BY <1>8 DEF OnBacklog
<1>9. CASE OnSettings BY <1>9 DEF OnSettings
<1>10. CASE UNCHANGED vars BY <1>10 DEF vars, summaryPages
<1> QED BY <1>1, <1>2, <1>3, <1>4, <1>5, <1>6, <1>7, <1>8, <1>9, <1>10 DEF Next

LEMMA PagesStart == Init => PagesInv
<1> SUFFICES ASSUME Init PROVE PagesInv
  OBVIOUS
<1>1. /\ ListInit /\ PanelInit /\ ItemInit /\ ViewInit /\ ShareInit /\ BackupInit
      /\ UsersInit /\ BacklogInit /\ SettingsInit
  BY DEF Init, ListIdle, PanelIdle, ItemIdle, ShareIdle, BackupIdle, UsersIdle, BacklogIdle,
         SettingsIdle
<1> QED BY <1>1, ListStarts, PanelStarts, ItemStarts, ViewStarts, ShareStarts, BackupStarts,
           ClicksAreKept, ChecksAreKept, SwitchIsKept DEF PagesInv

LEMMA PagesKeep == ASSUME PagesInv, [Next]_vars PROVE PagesInv'
<1>1. ListInv' /\ PanelInv'
  BY EachPageSteps, ListKeeps, PanelKeeps DEF PagesInv, ListStep
<1> QED BY <1>1, EachPageSteps, ItemKeeps, ViewKeeps, ShareKeeps, BackupKeeps, ClicksAreKept,
           ChecksAreKept, SwitchIsKept DEF PagesInv

\* THE INVARIANT: whatever page is open, every state satisfies the invariant of each
\* page (ClientPages composes them; a page that is not on the screen does not step).
THEOREM PagesInvariant == Spec => []PagesInv
BY PagesStart, PagesKeep, PTL DEF Spec

\* A list page shows what its controls say: the search box holds the query the list is filtered
\* by, and a page with a row is shown whenever a row passes the filters, whatever was stored,
\* typed or clicked and whichever rows come and go (use-table-view-state.ts, the list views).
THEOREM ListIsAlwaysSound == Spec => []ListIsSound
BY PagesInvariant, ListHolds, PTL DEF PagesInv

\* No timer, effect, refresh or answer brings back another arrangement or a vanished type
\* (setViewState and viewStateRef of use-table-view-state.ts, the reset of firearms-view.tsx).
THEOREM ViewAlwaysStands == Spec => ViewStands
<1>1. ASSUME PagesInv, [Next]_vars PROVE [ArrangementStep]_listVars /\ [NoSnapStep]_listVars
  BY <1>1, EachPageSteps, ListKeeps DEF PagesInv, ListStep
<1>2. ASSUME PagesInv, [Next]_vars
      PROVE  [ clicks' = clicks /\ shown' = shown
               /\ ~(list = "firearms" /\ submitted # None /\ submitted' = None)
               => \A f \in {"sorted", "hidden", "pageSize", "grouped"} :
                    view'[f] = view[f] ]_listVars
  BY <1>1, <1>2 DEF ArrangementStep
<1>3. ASSUME PagesInv, [Next]_vars
      PROVE  [ list = "firearms" /\ shown /\ ~overwrote
               /\ EffectiveKind(seen, props) = AllKinds /\ EffectiveKind(seen', props') # AllKinds
               => clicks' # clicks ]_listVars
  BY <1>1, <1>3 DEF NoSnapStep
<1> QED BY <1>2, <1>3, PagesInvariant, PTL DEF Spec, ViewStands, ArrangementStands, NoSnapBack

\* With every call answered and no error shown a panel shows the user's last write; one opening
\* of a create form makes at most one row; an error that stands is the last call's (the panels
\* of the item pages, activeRequestRef of inventory-log-history.tsx).
THEOREM PanelsAreAlwaysTrue == Spec => []PanelsAreTrue
BY PagesInvariant, PanelHolds, PTL DEF PagesInv

\* An item's form shows the messages of its last submission, its label follows the prefix until
\* one is typed, what it sends is what was meant; the date of an accessory is one of its mount,
\* and the page shows the last write (the forms and detail views of the items).
THEOREM ItemPageIsAlwaysTrue == Spec => []ItemPageIsTrue
BY PagesInvariant, ItemHolds, PTL DEF PagesInv

\* The viewer shows the document it was opened for, Escape closes one layer, what is ticked the
\* user ticked, and the switch shows what was saved (firearm-documents.tsx, share-control.tsx,
\* the backlog of due services, the Magpul setting).
THEOREM DialogsAreAlwaysTrue == Spec => []DialogsAreTrue
<1>1. PagesInv => DialogsAreTrue
  BY ViewHolds, ShareHolds DEF PagesInv, DialogsAreTrue, ViewInv, ShareInv, ChecksInv,
     BacklogTypeOK, ChecksAreTheUsers, SwitchInv, SwitchIsTrue
<1> QED BY <1>1, PagesInvariant, PTL

\* A forced restore was asked for by a phrase typed for it, the panels say what their requests
\* do, and an account ends as the last click wanted it (the backup and users pages).
THEOREM AdminPagesAreAlwaysTrue == Spec => []AdminPagesAreTrue
<1>1. PagesInv => AdminPagesAreTrue
  BY LastClickHolds DEF PagesInv, AdminPagesAreTrue, BackupInv
<1> QED BY <1>1, PagesInvariant, PTL

\* An answer drops neither the caption being typed nor the confirmation of a refused revocation
\* (firearm-photos.tsx, grants-list.tsx).
THEOREM AnswersAlwaysTakeOnlyTheirOwn == Spec => AnswersTakeOnlyTheirOwn
<1>1. ASSUME PagesInv, [Next]_vars
      PROVE  /\ [ panel = "photos" /\ ui.form # NoForm /\ ui'.form = NoForm =>
                    \/ queue' = queue
                    \/ Head(queue).kind = "edit" /\ Head(queue).n = ui.form.n ]_panelVars
             /\ [ revoking /\ ~revoking' /\ Len(shareQueue') < Len(shareQueue) =>
                    open' = open /\ confirming' = confirming ]_shareVars
  BY <1>1, EachPageSteps, PanelKeeps, ShareKeeps DEF PagesInv
<1> QED BY <1>1, PagesInvariant, PTL DEF Spec, AnswersTakeOnlyTheirOwn, CaptionDraftStands,
           RefusalIsShown
=============================================================================
