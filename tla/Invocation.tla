----------------------------- MODULE Invocation -----------------------------
(***************************************************************************)
(* What run_regression.py promises the scripts that start it: exit code 0  *)
(* means the summary is its own and every row met its expectation; any     *)
(* other says nothing about the summary that lies there.                   *)
(***************************************************************************)
VARIABLES
  running,
  report,  \* "met" or "unmet" if the running or last invocation wrote the
           \* summary and it still counts, "other" if it may be any
  exit     \* of the last invocation: "zero", "nonzero", or "none"

vars == <<running, report, exit>>

Init == running = FALSE /\ report = "other" /\ exit = "none"

Begin ==
  /\ ~running
  /\ running' = TRUE
  /\ report' = "other"
  /\ exit' = "none"

Publish ==
  /\ running
  /\ report = "other"
  /\ report' \in {"met", "unmet"}
  /\ UNCHANGED <<running, exit>>

Succeed ==
  /\ running
  /\ report = "met"
  /\ running' = FALSE
  /\ exit' = "zero"
  /\ UNCHANGED report

Fail ==
  /\ running
  /\ running' = FALSE
  /\ report' = "other"
  /\ exit' = "nonzero"

\* The caller has acted on the exit code.
Forget ==
  /\ ~running
  /\ report' = "other"
  /\ exit' = "none"
  /\ UNCHANGED running

Next == Begin \/ Publish \/ Succeed \/ Fail \/ Forget

Spec == Init /\ [][Next]_vars
=============================================================================
