---------------------------- MODULE SolvingRound ----------------------------
(***************************************************************************)
(* What a coordinator promises the leader about a solving round, whatever  *)
(* tree it builds to keep the promise: it owes an answer for the models of *)
(* the formula it was given, except those of the sub-problems it has given *)
(* away, and it answers "unsat" only when it owes nothing more.            *)
(***************************************************************************)
CONSTANT Models

VARIABLES phase,    \* "idle", "solving", "crashed" or "terminated"
          formula,  \* the models of the formula of the round
          owed,     \* those the coordinator still has to answer for
          answer    \* the last answer, "none" during a round

vars == <<phase, formula, owed, answer>>

Init ==
  /\ phase = "idle"
  /\ formula = {}
  /\ owed = {}
  /\ answer = "none"

Start(f) ==
  /\ phase = "idle"
  /\ phase' = "solving"
  /\ formula' = f
  /\ owed' = f
  /\ answer' = "none"

GiveAway(s) ==
  /\ phase = "solving"
  /\ s \subseteq formula
  /\ owed' = owed \ s
  /\ UNCHANGED <<phase, formula, answer>>

Answer(a) ==
  /\ phase = "solving"
  /\ a = "unsat" => owed = {}
  /\ a = "sat" => formula # {}
  /\ phase' = "idle"
  /\ formula' = {}
  /\ owed' = {}
  /\ answer' = a

\* A crashed coordinator answers nothing and waits to be terminated.
Crash ==
  /\ phase = "solving"
  /\ phase' = "crashed"
  /\ UNCHANGED <<formula, owed, answer>>

Terminate ==
  /\ phase # "terminated"
  /\ phase' = "terminated"
  /\ formula' = {}
  /\ owed' = {}
  /\ UNCHANGED answer

Next ==
  \/ \E f \in SUBSET Models : Start(f)
  \/ \E s \in SUBSET Models : GiveAway(s)
  \/ \E a \in {"sat", "unsat"} : Answer(a)
  \/ Crash
  \/ Terminate

Spec == Init /\ [][Next]_vars
=============================================================================
