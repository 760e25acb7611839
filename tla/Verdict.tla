------------------------------ MODULE Verdict -------------------------------
(***************************************************************************)
(* What a run of the program promises its user: at most one verdict, and   *)
(* "sat" or "unsat" only when the formula is.  Any other verdict says that *)
(* the formula was not decided.                                            *)
(***************************************************************************)
CONSTANTS Models,    \* the assignments a formula may have as models
          Undecided  \* the verdicts that decide nothing

VARIABLES formula,   \* the models of the input formula
          verdict    \* what was printed, "none" before

vars == <<formula, verdict>>

Init ==
  /\ formula \in SUBSET Models
  /\ verdict = "none"

Announce(v) ==
  /\ verdict = "none"
  /\ v = "sat" => formula # {}
  /\ v = "unsat" => formula = {}
  /\ verdict' = v
  /\ UNCHANGED formula

Next == \E v \in {"sat", "unsat"} \union Undecided : Announce(v)

Spec == Init /\ [][Next]_vars
=============================================================================
