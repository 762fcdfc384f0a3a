----------------------------- MODULE OncePerKey -----------------------------
(***************************************************************************)
(* What withIdempotency promises (src/db/idempotency.ts): under one key    *)
(* an action takes effect at most once in a window, and whoever submits    *)
(* the key again within it is given what that action made.                 *)
(***************************************************************************)
EXTENDS Naturals

CONSTANTS Keys, Window, NoAnswer

VARIABLES
  runs,   \* the runs that took effect: [key, since, at, made]:
          \* the submission's own time starts the window, the effect comes later
  answers \* the last answer given under each key

Init == runs = {} /\ answers = [k \in Keys |-> NoAnswer]

\* The action runs: every run before it under this key has left its window.
Runs ==
  \E r \in runs' \ runs :
    /\ \A q \in runs : q.key = r.key => r.at > q.since + Window
    /\ runs' = runs \union {r}
    /\ answers' = [answers EXCEPT ![r.key] = r.made]

\* A submission that does not run is answered with what the latest run made: the
\* last answer under its key is given once more, and nothing changes.
Next == Runs
Spec == Init /\ [][Next]_<<runs, answers>>
=============================================================================
