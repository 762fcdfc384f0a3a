--------------------------- MODULE ServiceOdometer ---------------------------
(***************************************************************************)
(* What due state promises, told without dates: every rule of an item has  *)
(* a meter of days, sessions and rounds that a service sets back to zero.  *)
(* What is fired on the day of a service never counts (KTD10, derive.ts),  *)
(* and a meter that is to start on a day to come shows nothing until then. *)
(* Once somebody has entered or changed something for another day, the     *)
(* meters may show anything.                                               *)
(***************************************************************************)
EXTENDS Integers

CONSTANTS Items, Names, Rounds

VARIABLES
  meter, \* meter[i][n]: [days, sessions, rounds, age: days since it started]
  late   \* an entry was made for another day, or changed

\* A meter of that age, with what was fired on it.
At(age, s, r) == [days |-> IF age > 0 THEN age ELSE 0, sessions |-> s, rounds |-> r, age |-> age]
Zero == At(0, 0, 0)

Init ==
  /\ \A i \in Items, n \in Names : meter[i][n] = At(meter[i][n].age, 0, 0)
  /\ late = FALSE

NextDay ==
  \A i \in Items, n \in Names :
    LET m == meter[i][n] IN meter'[i][n] = At(m.age + 1, m.sessions, m.rounds)

\* Some rules of some items.
Serviced ==
  \A i \in Items, n \in Names : meter'[i][n] \in {meter[i][n], Zero}

\* One session, with some of the items.
Fired ==
  \E r \in Rounds : \A i \in Items :
    \/ meter'[i] = meter[i]
    \/ \A n \in Names :
         LET m == meter[i][n]
         IN meter'[i][n] = IF m.age > 0 THEN At(m.age, m.sessions + 1, m.rounds + r) ELSE m

Next ==
  \/ late'
  \/ ~late' /\ ~late /\ (NextDay \/ Serviced \/ Fired)

Spec == Init /\ [][Next]_<<meter, late>>
=============================================================================
