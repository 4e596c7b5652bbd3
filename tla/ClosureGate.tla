---------------------------- MODULE ClosureGate ----------------------------
(***************************************************************************)
(* make closure, uvm-closure and closure-equivalence: the two lanes' runs, *)
(* their own closure checks, and the comparison of what they reported.     *)
(***************************************************************************)
EXTENDS RegressionRun

CONSTANT MAKES  \* bound: makes in a behaviour

VARIABLES
  makes,   \* makes so far
  goal,    \* the make target being made, "none" between makes
  target,  \* how far each lane's recipe has got
  gate     \* closure_equivalence.csv: the mode that wrote it, the checks it failed

vars == <<regressVars, makes, goal, target, gate>>

Goal == {"closure", "uvm-closure", "closure-equivalence"}

Bad == {"failed", "rejected"}

\* The lanes a make target has to bring up to date.
Needs(g) ==
  {l \in Lane : CASE g = "closure" -> l = Plain
                  [] g = "uvm-closure" -> l # Plain
                  [] g = "closure-equivalence" -> TRUE
                  [] OTHER -> FALSE}

-----------------------------------------------------------------------------
(* check_closure_equivalence.py: what a missing report lacks is everything. *)

MissingCoverage(l) == Bin \ coverage[l]

MissingPower(l) == PowerBin \ power[l]

BugMisses(l) == {row \in BugRows(l) : ~Meets(row)}

FailedChecks(l) ==
  {<<l, check>> : check \in
     {c \in {"functional_coverage", "power_coverage", "expected_bug_results"} :
        CASE c = "functional_coverage" -> MissingCoverage(l) # {}
          [] c = "power_coverage" -> MissingPower(l) # {}
          [] OTHER -> BugRows(l) = {} \/ BugMisses(l) # {}}}

FailedComparisons(l) ==
  {<<l, check>> : check \in
     {c \in {"coverage_vector_equivalence", "bug_result_equivalence"} :
        IF c = "coverage_vector_equivalence" THEN coverage[Plain] \ coverage[l] # {}
        ELSE \/ Cardinality(BugRows(Plain)) # Cardinality(BugRows(l))
             \/ BugMisses(Plain) # {} \/ BugMisses(l) # {}}}

\* Every mode writes the same file, with the rows of that mode only.
Check(mode, lanes) ==
  gate' = [mode |-> mode,
           failed |-> UNION {FailedChecks(l) : l \in lanes}
                        \cup IF mode = "equivalence"
                             THEN UNION {FailedComparisons(l) : l \in lanes \ {Plain}}
                             ELSE {}]

-----------------------------------------------------------------------------
Make(g) ==
  /\ goal = "none"
  /\ makes < MAKES
  /\ makes' = makes + 1
  /\ goal' = g
  /\ target' = [l \in Lane |-> IF l \in Needs(g) THEN "todo" ELSE "skip"]
  /\ UNCHANGED <<regressVars, gate>>

\* Once a recipe has failed make starts no other one.
RunSuite(l) ==
  /\ target[l] = "todo"
  /\ \A m \in Lane : target[m] \notin Bad
  /\ target' = [target EXCEPT ![l] = "running"]
  /\ Start(l)
  /\ UNCHANGED <<makes, goal, gate>>

SuiteStep(l) ==
  /\ Simulate(l) \/ ReportStep(l)
  /\ UNCHANGED <<makes, goal, target, gate>>

SuiteAborts(l) ==
  /\ target[l] = "running"
  /\ Abort(l)
  /\ target' = [target EXCEPT ![l] = "failed"]
  /\ UNCHANGED <<makes, goal, gate>>

\* run_uvm_regression.py hands its child's exit code on.
SuiteExits(l) ==
  /\ Finish(l)
  /\ target' = [target EXCEPT ![l] = IF ExitCode(l) = 0 THEN "ran" ELSE "failed"]
  /\ UNCHANGED <<makes, goal, gate>>

CheckLane(l) ==
  /\ target[l] = "ran"
  /\ Check(IF l = Plain THEN "nonuvm" ELSE "uvm", {l})
  /\ target' = [target EXCEPT ![l] = IF gate'.failed = {} THEN "checked" ELSE "rejected"]
  /\ UNCHANGED <<regressVars, makes, goal>>

Compare ==
  /\ goal = "closure-equivalence"
  /\ \A l \in Needs(goal) : target[l] = "checked"
  /\ Check("equivalence", Lane)
  /\ goal' = "none"
  /\ UNCHANGED <<regressVars, makes, target>>

\* make gives up, or has nothing left to do; what already runs ends first.
MakeEnds ==
  /\ goal # "none"
  /\ \A l \in Lane : target[l] \notin {"running", "ran"}
  /\ \/ \E l \in Lane : target[l] \in Bad
     \/ goal # "closure-equivalence" /\ \A l \in Needs(goal) : target[l] = "checked"
  /\ goal' = "none"
  /\ UNCHANGED <<regressVars, makes, target, gate>>

Init ==
  /\ RegressInit
  /\ makes = 0
  /\ goal = "none"
  /\ target = [l \in Lane |-> "skip"]
  /\ gate = [mode |-> "none", failed |-> {}]

LaneStep(l) ==
  RunSuite(l) \/ SuiteStep(l) \/ SuiteExits(l) \/ CheckLane(l)

Next ==
  \/ \E g \in Goal : Make(g)
  \/ \E l \in Lane : LaneStep(l) \/ SuiteAborts(l)
  \/ Compare \/ MakeEnds

Spec == Init /\ [][Next]_vars

-----------------------------------------------------------------------------
(* What whoever starts run_regression.py sees of it.                       *)

Published(l) ==
  job[l].pc \in {"coverage", "power", "failures", "history", "targets", "matrix", "exit"}

OwnAndMet(l) ==
  /\ {row.run : row \in summary[l]} = RunId
  /\ \A row \in summary[l] :
       row.lane = l /\ Meets(row) /\ row.status = NormalizeStatus(log[l][row.run])

Report(l) ==
  CASE target[l] = "running" /\ Published(l) -> IF OwnAndMet(l) THEN "met" ELSE "unmet"
    [] target[l] \in {"ran", "checked"} -> IF OwnAndMet(l) THEN "met" ELSE "unmet"
    [] OTHER -> "other"

Exit(l) ==
  CASE target[l] \in {"ran", "checked"} -> "zero"
    [] target[l] = "failed" -> "nonzero"
    [] OTHER -> "none"

\* The lane's invocations, as the contract sees them.
LaneRun(l) ==
  INSTANCE Invocation
    WITH running <- target[l] = "running", report <- Report(l), exit <- Exit(l)

-----------------------------------------------------------------------------
TypeOK ==
  /\ job \in [Lane -> [pc : {"idle", "run", "open_manifest", "write_manifest", "parse",
                             "coverage", "power", "failures", "history", "targets",
                             "matrix", "exit"},
                       at : RunId, rows : SUBSET ManifestRow]]
  /\ log \in [Lane -> [RunId -> Verdict]]
  /\ cov_csv \in [Lane -> SUBSET RunId]
  /\ power_csv \in [Lane -> SUBSET RunId]
  /\ written \in [Lane -> SUBSET RunId]
  /\ manifest \subseteq ManifestRow
  /\ summary \in [Lane -> SUBSET SummaryRow]
  /\ coverage \in [Lane -> SUBSET Bin]
  /\ power \in [Lane -> SUBSET PowerBin]
  /\ Len(history) <= HISTORY_ROWS
  /\ makes \in 0 .. MAKES
  /\ goal \in Goal \cup {"none"}
  /\ target \in [Lane -> {"skip", "todo", "running", "ran", "checked"} \cup Bad]
  /\ gate.mode \in {"none", "nonuvm", "uvm", "equivalence"}

\* A lane passes its own check only when every test of this very invocation
\* gave the verdict it should, although the check itself looks at the bug
\* tests alone and leaves the others to run_regression's exit code.
CheckedMeansMet ==
  \A l \in Lane : target[l] = "checked" =>
    \A r \in RunId : NormalizeStatus(log[l][r]) = Expected(r)

\* What an accepted lane counts as covered was hit in this invocation, but for
\* what an earlier one left under the name of a bug test that now died
\* without writing anything.
OldCoverageFromSilentBugRunsOnly ==
  \A l \in Lane : target[l] = "checked" =>
    \A b \in Bin : \E r \in RunId :
      /\ b \in Runs[r].hits
      /\ r \in written[l] \/ (Expected(r) = "FAIL" /\ log[l][r] = "NONE")

\* The reports are counted apart, each from the file the one before left: for
\* an accepted lane the failure counts show no unexpected one and every bug
\* found, and when the plain lane ends its trend, its table and its targets
\* are of one invocation.
ReportsAgree ==
  /\ \A l \in Lane : target[l] = "checked" =>
       /\ dashboard[l].unexpected = 0
       /\ dashboard[l].expected_bugs = dashboard[l].bugs
       /\ dashboard[l].covered = Cardinality(Bin)
  /\ At(Plain, "exit") /\ SUITE \in {"stable", "closure"} =>
       /\ matrix.trend = Cardinality(matrix.table)
       /\ matrix.table = coverage[Plain]
       /\ targets = [uncovered |-> Bin \ matrix.table, bugs_met |-> dashboard[Plain].expected_bugs]

\* run_regression.py: each lane's invocation is one of the abstract ones.
\* Whatever the other lane and earlier makes left on disk, exit code 0 comes
\* only after a summary of the lane's own runs, all of them as expected.
\* This is LaneRun(l)!Spec for every lane, with one box for all of them.
LanesKeepTheContract ==
  /\ \A l \in Lane : LaneRun(l)!Init
  /\ [][\A l \in Lane : LaneRun(l)!Next \/ UNCHANGED LaneRun(l)!vars]_vars
=============================================================================
