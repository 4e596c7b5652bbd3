--------------------------- MODULE RegressionRun ---------------------------
(***************************************************************************)
(* run_regression.py: simulate a suite, then chain the report generators   *)
(* over the files the simulations left.  Every file outlives the           *)
(* invocation that wrote it and nothing removes it, and one manifest is    *)
(* shared by all report prefixes.                                          *)
(***************************************************************************)
EXTENDS Naturals, Sequences, FiniteSets

CONSTANTS
  Lane,          \* report prefixes in use
  Plain,         \* the empty prefix
  TEST_SPECS,    \* the tests, in order
  SUITE,         \* the suite every lane runs
  Bin,           \* functional coverage bins
  PowerBin,      \* power bins
  HISTORY_ROWS,  \* snapshots the trend history keeps
  PARALLEL       \* may make run the lanes side by side (make -j)

\* A spec says which suites it is in, what verdict it expects, which bins its
\* simulation hits, and whether the power report counts it by its name.
TestSpec ==
  [suites : SUBSET STRING, default_enabled : BOOLEAN,
   expected_status : {"PASS", "FAIL"}, soc : BOOLEAN,
   power_named : BOOLEAN, hits : SUBSET Bin, power_hits : SUBSET PowerBin]

ASSUME SpecsAssumption ==
  /\ Plain \in Lane
  /\ TEST_SPECS \in Seq(TestSpec)
  /\ HISTORY_ROWS \in Nat \ {0}
  /\ PARALLEL \in BOOLEAN

PickSpec(spec) ==
  \/ SUITE = "closure" /\ "power" \in spec.suites
  \/ /\ SUITE \in {"stable", "closure"}
     /\ spec.default_enabled
     /\ "stable" \in spec.suites
  \/ SUITE \notin {"stable", "closure"} /\ SUITE \in spec.suites

\* One seed a test: more seeds are more runs, with names of their own.
Runs == SelectSeq(TEST_SPECS, PickSpec)

RunId == 1 .. Len(Runs)

Expected(r) == Runs[r].expected_status

\* What is picked are tests, and at least one of them.
ASSUME RunsAssumption == Runs \in Seq(TestSpec) /\ Runs # <<>>

VARIABLES
  job,        \* what each lane's invocation is doing
  log,        \* the DV_RESULT verdict in each run's log, if any
  cov_csv,    \* runs with a coverage CSV on disk
  power_csv,  \* runs with a power CSV on disk
  manifest,   \* the rows of the one manifest file
  summary,    \* regress_summary.csv of each lane
  coverage,   \* bins its coverage_summary.csv reports covered
  power,      \* bins its power_state_summary.csv reports visited
  dashboard,  \* its failure counts
  history,    \* regression_history.csv, plain lane only
  targets,    \* closure_targets.md, plain lane only
  matrix,     \* coverage_closure_matrix.md, plain lane only
  written     \* runs whose CSVs this lane's last invocation wrote itself

files == <<log, cov_csv, power_csv, written>>
reports == <<summary, coverage, power, dashboard>>
trend == <<history, targets, matrix>>
regressVars == <<job, files, manifest, reports, trend>>

Verdict == {"PASS", "FAIL", "NONE"}

\* A manifest row names the files of one run, of whichever lane wrote it.
ManifestRow == [lane : Lane, run : RunId, cov : BOOLEAN, power : BOOLEAN]

SummaryRow ==
  [lane : Lane, run : RunId, cov : BOOLEAN, power : BOOLEAN, status : {"PASS", "FAIL"}]

Idle == [pc |-> "idle", at |-> 1, rows |-> {}]

\* The test bench writes its CSVs before it prints DV_RESULT, so a run with a
\* verdict has written them.  One that dies first, as a run of an injected bug
\* does when an assertion catches it, may have written nothing.
Outcome ==
  [verdict : {"PASS", "FAIL"}, wrote : {TRUE}] \cup [verdict : {"NONE"}, wrote : BOOLEAN]

\* Mutant of NormalizeStatus: a log without a verdict counts as a pass.
SilentMeansPass(verdict) == IF verdict = "FAIL" THEN "FAIL" ELSE "PASS"

NormalizeStatus(verdict) == IF verdict = "PASS" THEN "PASS" ELSE "FAIL"

Meets(row) == row.status = Expected(row.run)

UnmetRows(l) == {row \in summary[l] : ~Meets(row)}

BugRows(l) == {row \in summary[l] : Expected(row.run) = "FAIL"}

-----------------------------------------------------------------------------
At(l, pc) == job[l].pc = pc

GoTo(l, pc) == job' = [job EXCEPT ![l].pc = pc]

\* Mutant of Start: the lanes run side by side.
StartBeside(l) ==
  /\ At(l, "idle")
  /\ job' = [job EXCEPT ![l] = [Idle EXCEPT !.pc = "run"]]
  /\ written' = [written EXCEPT ![l] = {}]
  /\ UNCHANGED <<log, cov_csv, power_csv, manifest, reports, trend>>

Start(l) ==
  /\ At(l, "idle")
  /\ PARALLEL \/ \A m \in Lane : At(m, "idle")
  /\ job' = [job EXCEPT ![l] = [Idle EXCEPT !.pc = "run"]]
  /\ written' = [written EXCEPT ![l] = {}]
  /\ UNCHANGED <<log, cov_csv, power_csv, manifest, reports, trend>>

\* One simulation and its log.  The row lists the CSVs that exist afterwards,
\* whoever wrote them.
Simulate(l) ==
  LET r == job[l].at
  IN /\ At(l, "run")
     /\ \E o \in Outcome :
          /\ log' = [log EXCEPT ![l][r] = o.verdict]
          /\ cov_csv' = [cov_csv EXCEPT ![l] = IF o.wrote THEN @ \cup {r} ELSE @]
          /\ power_csv' =
               [power_csv EXCEPT ![l] = IF o.wrote /\ Runs[r].soc THEN @ \cup {r} ELSE @]
          /\ written' = [written EXCEPT ![l] = IF o.wrote THEN @ \cup {r} ELSE @]
     /\ LET row == [lane |-> l, run |-> r, cov |-> r \in cov_csv'[l],
                    power |-> Runs[r].soc /\ r \in power_csv'[l]]
        IN job' = [job EXCEPT ![l] =
                     [pc |-> IF r = Len(Runs) THEN "open_manifest" ELSE "run",
                      at |-> IF r = Len(Runs) THEN r ELSE r + 1,
                      rows |-> @.rows \cup {row}]]
     /\ UNCHANGED <<manifest, reports, trend>>

\* A compile that fails, a vector or report generator that fails, an
\* interrupt: the exception ends the invocation where it is.
Abort(l) ==
  /\ ~At(l, "idle")
  /\ job' = [job EXCEPT ![l] = Idle]
  /\ UNCHANGED <<files, manifest, reports, trend>>

\* Opening for writing empties the file.
OpenManifest(l) ==
  /\ At(l, "open_manifest")
  /\ manifest' = {}
  /\ GoTo(l, "write_manifest")
  /\ UNCHANGED <<files, reports, trend>>

WriteManifest(l) ==
  /\ At(l, "write_manifest")
  /\ manifest' = job[l].rows
  /\ GoTo(l, "parse")
  /\ UNCHANGED <<files, reports, trend>>

\* parse_regression_results.py.
Parse(l) ==
  /\ At(l, "parse")
  /\ summary' = [summary EXCEPT ![l] =
       {[lane |-> row.lane, run |-> row.run, cov |-> row.cov, power |-> row.power,
         status |-> NormalizeStatus(log[row.lane][row.run])] : row \in manifest}]
  /\ GoTo(l, "coverage")
  /\ UNCHANGED <<files, manifest, coverage, power, dashboard, trend>>

\* gen_coverage_report.py: a bin is covered when any listed CSV hit it.
ReportCoverage(l) ==
  /\ At(l, "coverage")
  /\ coverage' = [coverage EXCEPT ![l] =
       UNION {Runs[row.run].hits :
                row \in {s \in summary[l] : s.cov /\ s.run \in cov_csv[s.lane]}}]
  /\ GoTo(l, "power")
  /\ UNCHANGED <<files, manifest, summary, power, dashboard, trend>>

\* gen_power_report.py: the power tests' CSVs, or-ed together.
ReportPower(l) ==
  /\ At(l, "power")
  /\ power' = [power EXCEPT ![l] =
       UNION {Runs[row.run].power_hits :
                row \in {s \in summary[l] : /\ s.power /\ Runs[s.run].power_named
                                            /\ s.run \in power_csv[s.lane]}}]
  /\ GoTo(l, "failures")
  /\ UNCHANGED <<files, manifest, summary, coverage, dashboard, trend>>

\* gen_failure_summary.py counts for itself.
ReportFailures(l) ==
  /\ At(l, "failures")
  /\ dashboard' = [dashboard EXCEPT ![l] =
       [unexpected |-> Cardinality({row \in summary[l] :
                         row.status = "FAIL" /\ Expected(row.run) = "PASS"}),
        expected_bugs |-> Cardinality({row \in BugRows(l) :
                            row.status = "FAIL" /\ Meets(row)}),
        bugs |-> Cardinality(BugRows(l)),
        covered |-> Cardinality(coverage[l])]]
  /\ GoTo(l, IF l = Plain /\ SUITE \in {"stable", "closure"} THEN "history" ELSE "exit")
  /\ UNCHANGED <<files, manifest, summary, coverage, power, trend>>

\* Mutants of KeepLast: the oldest snapshots are kept, or all of them.
KeepFirst(s, n) == IF Len(s) <= n THEN s ELSE SubSeq(s, 1, n)

KeepAll(s, n) == s

KeepLast(s, n) == IF Len(s) <= n THEN s ELSE SubSeq(s, Len(s) - n + 1, Len(s))

\* An empty summary adds no snapshot.
WriteHistory(l) ==
  /\ At(l, "history")
  /\ history' =
       IF summary[l] = {} THEN history
       ELSE KeepLast(Append(history,
              [total_runs |-> Cardinality(summary[l]),
               meets_expectation |-> Cardinality(summary[l]) - Cardinality(UnmetRows(l)),
               covered |-> Cardinality(coverage[l])]), HISTORY_ROWS)
  /\ GoTo(l, "targets")
  /\ UNCHANGED <<files, manifest, reports, targets, matrix>>

WriteTargets(l) ==
  /\ At(l, "targets")
  /\ targets' = [uncovered |-> Bin \ coverage[l],
                 bugs_met |-> Cardinality({row \in BugRows(l) : Meets(row)})]
  /\ GoTo(l, "matrix")
  /\ UNCHANGED <<files, manifest, reports, history, matrix>>

\* gen_coverage_closure.py takes the trend from the history and the table
\* from the coverage report.
WriteMatrix(l) ==
  /\ At(l, "matrix")
  /\ matrix' =
       [trend |-> IF history = <<>> THEN Cardinality(coverage[l]) ELSE history[Len(history)].covered,
        table |-> coverage[l]]
  /\ GoTo(l, "exit")
  /\ UNCHANGED <<files, manifest, reports, history, targets>>

\* Mutant of ExitCode: only the bug tests decide.
ExitOnBugsOnly(l) == IF \A row \in BugRows(l) : Meets(row) THEN 0 ELSE 1

ExitCode(l) == IF UnmetRows(l) = {} THEN 0 ELSE 1

Finish(l) ==
  /\ At(l, "exit")
  /\ job' = [job EXCEPT ![l] = Idle]
  /\ UNCHANGED <<files, manifest, reports, trend>>

ReportStep(l) ==
  \/ OpenManifest(l) \/ WriteManifest(l) \/ Parse(l)
  \/ ReportCoverage(l) \/ ReportPower(l) \/ ReportFailures(l)
  \/ WriteHistory(l) \/ WriteTargets(l) \/ WriteMatrix(l)

RegressInit ==
  /\ job = [l \in Lane |-> Idle]
  /\ log = [l \in Lane |-> [r \in RunId |-> "NONE"]]
  /\ cov_csv = [l \in Lane |-> {}]
  /\ power_csv = [l \in Lane |-> {}]
  /\ manifest = {}
  /\ summary = [l \in Lane |-> {}]
  /\ coverage = [l \in Lane |-> {}]
  /\ power = [l \in Lane |-> {}]
  /\ dashboard = [l \in Lane |-> [unexpected |-> 0, expected_bugs |-> 0, bugs |-> 0, covered |-> 0]]
  /\ history = <<>>
  /\ targets = [uncovered |-> Bin, bugs_met |-> 0]
  /\ matrix = [trend |-> 0, table |-> {}]
  /\ written = [l \in Lane |-> {}]
=============================================================================
