---------------------------- MODULE BacklogPage -----------------------------
(***************************************************************************)
(* The checklist of due rules on the summary page.  Its selection is kept  *)
(* beside the rows and never pruned: a row that is taken off the list stays*)
(* selected, is not sent, and counts for "select all" and the button.      *)
(***************************************************************************)
EXTENDS Integers, Sequences, FiniteSets

CONSTANTS DueRows, MaxChecks, MaxDueChanges \* bounds: the user's steps; rows that come and go

ASSUME BacklogPageAssumption == MaxChecks \in Nat /\ MaxDueChanges \in Nat

VARIABLES
  due,         \* the rows the server would list
  backlog,     \* the rows of the last render; none, and the control is not there
  selected,    \* the ticked rows
  refused,     \* an error is shown
  markCalls,   \* calls under way, in order: [kind, rows]
  meant,       \* history: rows the user left ticked since they last came on the screen
  checks, dueChanges \* counters

backlogVars == <<due, backlog, selected, refused, markCalls, meant, checks, dueChanges>>

Marking == \E i \in DOMAIN markCalls : markCalls[i].kind = "mark"
\* backlog.filter(...)
Checked == selected \intersect backlog
allSelected == backlog # {} /\ Cardinality(selected) = Cardinality(backlog)

UserChecks == checks < MaxChecks /\ checks' = checks + 1 /\ backlog # {}

Ticked(s, row) == IF row \in s THEN s \ {row} ELSE s \union {row}
toggleRow(row) ==
  /\ UserChecks /\ row \in backlog
  /\ selected' = Ticked(selected, row) /\ meant' = Ticked(meant, row)
  /\ UNCHANGED <<due, backlog, refused, markCalls, dueChanges>>

toggleAll ==
  /\ UserChecks
  /\ selected' = IF allSelected THEN {} ELSE backlog
  /\ meant' = selected'
  /\ UNCHANGED <<due, backlog, refused, markCalls, dueChanges>>

\* A refused date sends nothing, and neither does a selection that left the list.
MarkServiced ==
  /\ UserChecks /\ ~Marking /\ selected # {}
  /\ \/ refused' = TRUE /\ UNCHANGED markCalls
     \/ /\ refused' = FALSE
        /\ markCalls' = IF Checked = {} THEN markCalls
                        ELSE Append(markCalls, [kind |-> "mark", rows |-> Checked])
  /\ UNCHANGED <<due, backlog, selected, meant, dueChanges>>

\* Mutant: only the rows that were sent are unticked.
SelectionAfterSent(rows) == selected \ rows

SelectionAfter(rows) == {}

\* The server writes all or nothing; an older date may leave a rule due.
MarkAnswered ==
  /\ markCalls # <<>> /\ Head(markCalls).kind = "mark"
  /\ LET rows == Head(markCalls).rows IN
     \/ /\ due' \in {due, due \ rows}
        /\ selected' = SelectionAfter(rows) /\ meant' = meant \intersect selected'
        /\ markCalls' = Append(Tail(markCalls), [kind |-> "refresh", rows |-> {}])
        /\ UNCHANGED refused
     \/ refused' = TRUE /\ markCalls' = Tail(markCalls) /\ UNCHANGED <<due, selected, meant>>
  /\ UNCHANGED <<backlog, checks, dueChanges>>

\* The summary is rendered again, with the rows that are due by now.
BacklogShown ==
  /\ markCalls # <<>> /\ Head(markCalls).kind = "refresh" /\ markCalls' = Tail(markCalls)
  /\ backlog' = due /\ meant' = meant \intersect due
  /\ UNCHANGED <<due, selected, refused, checks, dueChanges>>

\* A session, a service or another rule of anybody changes what is due.
DueChanges(row) ==
  /\ dueChanges < MaxDueChanges /\ dueChanges' = dueChanges + 1
  /\ due' = Ticked(due, row)
  /\ UNCHANGED <<backlog, selected, refused, markCalls, meant, checks>>

-----------------------------------------------------------------------------
BacklogInit ==
  /\ due \in SUBSET DueRows /\ backlog = due /\ selected = {} /\ refused = FALSE
  /\ markCalls = <<>> /\ meant = {} /\ checks = 0 /\ dueChanges = 0

BacklogNext ==
  \/ \E row \in DueRows : toggleRow(row) \/ DueChanges(row)
  \/ toggleAll \/ MarkServiced \/ MarkAnswered \/ BacklogShown

BacklogSpec == BacklogInit /\ [][BacklogNext]_backlogVars

\* Every checkbox starts unchecked: a row is ticked, and sent, only if the user ticked it
\* since it came on the screen.  One that was serviced elsewhere while it was ticked, and
\* is due again, does not come back ticked.
ChecksAreTheUsers == Checked \subseteq meant

BacklogTypeOK == selected \subseteq DueRows /\ backlog \subseteq DueRows /\ refused \in BOOLEAN

-----------------------------------------------------------------------------
(* The inductive invariant, proved in ClientPagesProofs.                   *)

\* The checklist: a row is ticked on the screen only by the user, and while a reload is
\* under way that no save comes before, nothing else is ticked.
MarkCall == [kind : {"mark", "refresh"}, rows : SUBSET DueRows]
ChecksInv ==
  /\ selected \subseteq DueRows /\ backlog \subseteq DueRows /\ due \subseteq DueRows
  /\ refused \in BOOLEAN
  /\ markCalls \in Seq(MarkCall)
  /\ meant = Checked
  /\ Len(markCalls) <= 2
  /\ Len(markCalls) = 2 => markCalls[1].kind = "refresh" /\ markCalls[2].kind = "mark"
  /\ Len(markCalls) > 0 /\ markCalls[1].kind = "refresh" => selected \subseteq backlog
=============================================================================
