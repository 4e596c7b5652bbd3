--------------------------- MODULE ProjectMetrics ---------------------------
(***************************************************************************)
(* From checks to published numbers.  Make chains scripts into recipes and *)
(* stops at the first that fails; each script leaves report files, which   *)
(* outlive the recipe; gen_project_metrics.py counts whatever files there  *)
(* are, and update_readme_metrics.py copies some counts into the README.   *)
(* A row of a report is stamped with the recipe and the command that wrote *)
(* it, which no file says: the properties need it.                         *)
(***************************************************************************)
EXTENDS Naturals, Sequences, FiniteSets

CONSTANT MAKES  \* bound: recipes in a behaviour

VARIABLES
  makes,    \* recipes so far
  target,   \* the recipe
  todo,     \* its commands still to run
  report,   \* what each file's rows say, by case
  metrics,  \* project_metrics.csv
  readme,   \* the snapshot in the README
  verdict   \* of the recipe

vars == <<makes, target, todo, report, metrics, readme, verdict>>

-----------------------------------------------------------------------------
(* The Makefile.                                                           *)

Rv32mChecks == <<"rv32m_unit", "rv32m_random", "rv32m_compiler", "rv32m_formal", "rv32m_mutations">>

\* The short recipes.
CommandsOf(t) ==
  CASE t = "rv32m_release_check" -> <<"lint">> \o Rv32mChecks
    [] t = "publish" -> <<"metrics", "readme", "normalize", "docs">>
    [] t = "smoke_ci" -> <<"readme", "docs">>
    [] OTHER -> <<t>>

\* Mutant of Commands: the numbers are taken before the firmware is run.
CommandsPublishEarly(t) ==
  IF t = "project_check"
  THEN <<"closure", "cross", "negative", "negative_summary", "bounded", "inventory", "upf",
         "metrics", "readme", "firmware_soc", "firmware_c_check", "performance", "docs", "normalize">>
  ELSE CommandsOf(t)

Commands(t) ==
  IF t = "project_check"
  THEN <<"closure", "cross", "negative", "negative_summary", "bounded", "inventory", "upf",
         "firmware_soc", "firmware_c_check", "performance", "metrics", "readme", "docs", "normalize">>
  ELSE CommandsOf(t)

\* The recipes of one script.
Single ==
  {"power_regress", "bug_validate", "solver", "axi_lite", "credit_mgr_edges", "async_cdc", "uvm_ci",
   "firmware_c_closure"}

Target == {"project_check", "rv32m_release_check", "publish", "smoke_ci"} \cup Single

Make(t) ==
  /\ verdict # "running" /\ makes < MAKES
  /\ makes' = makes + 1 /\ target' = t /\ todo' = Commands(t) /\ verdict' = "running"
  /\ UNCHANGED <<report, metrics, readme>>

Now(c) == verdict = "running" /\ Head(todo) = c

Ends(ok) ==
  /\ todo' = IF ok THEN Tail(todo) ELSE <<>>
  /\ verdict' = IF ~ok THEN "red" ELSE IF Len(todo) = 1 THEN "green" ELSE "running"
  /\ UNCHANGED <<makes, target>>

-----------------------------------------------------------------------------
(* Report files.                                                           *)

File ==
  {"regress", "coverage", "power", "true_cross", "negative_regress", "negative", "formal", "solver",
   "benches", "axi_lite", "async_cdc", "uvm_ci", "firmware", "firmware_coverage", "firmware_c",
   "firmware_c_directed", "firmware_c_random", "rv32m_directed", "rv32m_coverage", "rv32m_random",
   "rv32m_compiler", "rv32m_formal", "rv32m_mutation"}

\* Verilator seeds a bug in these, and the run must fail.
Expected(case) == IF case = "bug" THEN "FAIL" ELSE "PASS"

Row(status) == [status |-> status, make |-> makes, command |-> Head(todo)]

Rows(statuses) == [c \in DOMAIN statuses |-> Row(statuses[c])]

AllMet(statuses) == \A c \in DOMAIN statuses : statuses[c] = Expected(c)

Judged(cases) == [cases -> {"PASS", "FAIL"}]

\* The script writes these files, and its exit code.
Leaves(written, ok) ==
  /\ report' = [f \in File |-> IF f \in DOMAIN written THEN written[f] ELSE report[f]]
  /\ Ends(ok)
  /\ UNCHANGED <<metrics, readme>>

\* Nothing compiled, or a script that raised: the files of earlier recipes stay.
Dies == Leaves(<<>>, FALSE)

-----------------------------------------------------------------------------
(* run_regression.py, as RegressionRun and ClosureGate have it.  Every     *)
(* suite without a prefix writes the same files.                           *)

SuiteCases(c) ==
  CASE c = "closure" -> {"nominal", "bug"}
    [] c = "bug_validate" -> {"bug"}
    [] OTHER -> {"nominal"}

Regress(c) ==
  /\ Now(c)
  /\ \/ Dies
     \/ \E s \in Judged(SuiteCases(c)), bins \in Judged({"bins"}), low \in Judged({"states"}) :
          IF c = "negative"
          THEN Leaves([negative_regress |-> Rows(s)], AllMet(s))
          ELSE Leaves([regress |-> Rows(s), coverage |-> Rows(bins), power |-> Rows(low)],
                      AllMet(s) /\ (c = "closure" => AllMet(bins) /\ AllMet(low)))

\* gen_negative_test_summary.py: a test without a row has not run.
NegativeStatus(case) ==
  IF case \notin DOMAIN report["negative_regress"] THEN "NOT_RUN"
  ELSE IF report["negative_regress"][case].status = Expected(case) THEN "PASS"
  ELSE "FAIL"

NegativeSummary ==
  /\ Now("negative_summary")
  /\ LET s == [c \in {"nominal"} |-> NegativeStatus(c)]
     IN Leaves([negative |-> Rows(s)], AllMet(s))

\* gen_true_cross_coverage.py: one of the groups may be deferred.
CrossGroup == {"queue_pressure", "crc_retry"}

TrueCross ==
  /\ Now("cross")
  /\ \E s \in [CrossGroup -> {"PASS", "deferred"}] :
       Leaves([true_cross |-> Rows(s)], \E g \in CrossGroup : s[g] = "PASS")

-----------------------------------------------------------------------------
(* run_bounded_properties.py.                                              *)

Simulation == [said : {"PASS", "FAIL", "nothing"}, failed : BOOLEAN]

\* A simulation that dies without a word counts as a failed property.
BoundedStatus(run) ==
  IF run.said # "nothing" THEN run.said ELSE IF run.failed THEN "FAIL" ELSE "PASS"

Bounded ==
  /\ Now("bounded")
  /\ \/ Dies
     \/ \E runs \in [{"nominal", "bug"} -> Simulation] :
          LET s == [c \in DOMAIN runs |-> BoundedStatus(runs[c])]
          IN Leaves([formal |-> Rows(s)], AllMet(s))

\* run_solver_formal.py: without the solver it succeeds and leaves the old report.
Solver ==
  /\ Now("solver")
  /\ \/ Leaves(<<>>, TRUE)
     \/ \E s \in Judged({"prove", "cover", "mutation"}) : Leaves([solver |-> Rows(s)], AllMet(s))

-----------------------------------------------------------------------------
(* run_optional_benches.py.                                                *)

AxiPoint == {"write", "read"}

\* run_bench: a run, which for AXI-Lite must hit every point and break no
\* assertion, or a failed compilation, which leaves the coverage report.
BenchStatus(b, passed, hit, failures) ==
  IF passed /\ (b = "axi_lite" => hit = AxiPoint /\ failures = 0) THEN "PASS" ELSE "FAIL"

AxiReport(hit) ==
  Rows([p \in AxiPoint |-> IF p \in hit THEN "PASS" ELSE "FAIL"])

\* The rows of the other benches stay.
Bench(b) ==
  /\ Now(b)
  /\ \E compiled \in BOOLEAN, passed \in BOOLEAN, hit \in SUBSET AxiPoint, failures \in 0 .. 1 :
       LET status == IF compiled THEN BenchStatus(b, passed, hit, failures) ELSE "FAIL"
           rows == [c \in {b} \cup DOMAIN report["benches"] |->
                      IF c = b THEN Row(status) ELSE report["benches"][c]]
       IN Leaves(IF compiled /\ b = "axi_lite"
                 THEN [benches |-> rows, axi_lite |-> AxiReport(hit)]
                 ELSE [benches |-> rows],
                 status = "PASS")

\* run_async_cdc.py
AsyncCdc ==
  /\ Now("async_cdc")
  /\ \/ Dies
     \/ \E s \in Judged({"5:5", "5:7"}) : Leaves([async_cdc |-> Rows(s)], AllMet(s))

\* run_uvm_regression.py: a test passes if it ends in time, exits with 0 and
\* counts no error.
UvmStatus(timed_out, failed, errors) ==
  IF ~timed_out /\ ~failed /\ errors = 0 THEN "PASS" ELSE "FAIL"

UvmCi ==
  /\ Now("uvm_ci")
  /\ \/ Dies
     \/ \E timed_out, failed \in BOOLEAN, errors \in 0 .. 1, reported \in BOOLEAN :
          LET s == [prbs |-> UvmStatus(timed_out, failed, errors)]
          IN Leaves([uvm_ci |-> Rows(s)], reported /\ AllMet(s))

-----------------------------------------------------------------------------
(* The multiplier's checks.                                                *)

\* run_rv32m_unit.py: the coverage report is written if every directed test
\* has a row that passed; the core is simulated last.
Rv32mUnit ==
  /\ Now("rv32m_unit")
  /\ \/ Dies
     \/ \E printed \in SUBSET {"mul", "div"}, failed \in BOOLEAN, covered, core \in BOOLEAN :
          \E s \in Judged(printed) :
            LET good == ~failed /\ printed = {"mul", "div"} /\ AllMet(s)
                cover == Rows([classes |-> IF covered THEN "PASS" ELSE "MISSING"])
            IN Leaves(IF good THEN [rv32m_directed |-> Rows(s), rv32m_coverage |-> cover]
                      ELSE [rv32m_directed |-> Rows(s)],
                      good /\ covered /\ core)

\* run_rv32m_random.py: a seed passes if its summary says so and exits with 0.
Rv32mRandom ==
  /\ Now("rv32m_random")
  /\ \/ Dies
     \/ \E runs \in [{"seed1", "seed2"} -> Simulation] :
          LET s == [c \in DOMAIN runs |->
                      IF ~runs[c].failed /\ runs[c].said = "PASS" THEN "PASS" ELSE "FAIL"]
          IN Leaves([rv32m_random |-> Rows(s)], AllMet(s))

\* run_rv32m_compiler.py: a kernel built for rv32im must retire a multiplier
\* instruction.
Rv32mCompiler ==
  /\ Now("rv32m_compiler")
  /\ \/ Dies
     \/ \E s \in Judged({"rv32i", "rv32im"}), m_count \in 0 .. 1 :
          LET judged == [s EXCEPT !["rv32im"] = IF m_count = 0 THEN "FAIL" ELSE @]
          IN Leaves([rv32m_compiler |-> Rows(judged)], AllMet(judged))

\* run_rv32m_formal.py: without the solver both rows say SKIP, which is no pass.
Rv32mFormal ==
  /\ Now("rv32m_formal")
  /\ \/ Dies
     \/ \E s \in Judged({"prove", "cover"}) \cup {[c \in {"prove", "cover"} |-> "SKIP"]} :
          Leaves([rv32m_formal |-> Rows(s)], AllMet(s))

\* run_rv32m_mutations.py: a defect is detected if it compiles and its bench
\* fails.
Rv32mMutations ==
  /\ Now("rv32m_mutations")
  /\ \/ Dies
     \/ \E compiled, failed \in [{"div_zero", "rem_sign"} -> BOOLEAN] :
          LET s == [c \in DOMAIN compiled |-> IF compiled[c] /\ failed[c] THEN "PASS" ELSE "FAIL"]
          IN Leaves([rv32m_mutation |-> Rows(s)], AllMet(s))

-----------------------------------------------------------------------------
(* The firmware lanes, as FirmwareLane has them.                           *)

FirmwareSoc ==
  /\ Now("firmware_soc")
  /\ \/ Dies
     \/ \E s \in Judged({"dma_smoke"}), points \in Judged({"points"}) :
          Leaves([firmware |-> Rows(s), firmware_coverage |-> Rows(points)],
                 AllMet(s) /\ AllMet(points))

\* Only the closure writes firmware_c_summary.csv.
FirmwareC(c) ==
  /\ Now(c)
  /\ \/ Dies
     \/ \E s \in Judged({"directed", "seeded"}), covered \in BOOLEAN :
          LET part(case) == Rows([x \in {case} |-> s[x]])
          IN IF c = "firmware_c_closure"
             THEN \/ Leaves([firmware_c |-> Rows(s)], FALSE) /\ ~(AllMet(s) /\ covered)
                  \/ /\ Leaves([firmware_c |-> Rows(s), firmware_c_random |-> part("seeded")], TRUE)
                     /\ AllMet(s) /\ covered
             ELSE Leaves([firmware_c_directed |-> part("directed")], s["directed"] = "PASS")

\* Checks that leave no file that is counted.
Other ==
  /\ \E c \in {"inventory", "upf", "performance", "lint", "normalize"} : Now(c)
  /\ \E ok \in BOOLEAN : Leaves(<<>>, ok)

-----------------------------------------------------------------------------
(* gen_project_metrics.py and update_readme_metrics.py.                    *)

Of(f) == {<<f, case>> : case \in DOMAIN report[f]}

\* Without a closure's rows the random lane's stand in for them.
CompiledScenarios ==
  IF \E x \in Of("firmware_c") : x[2] # "directed"
  THEN Of("firmware_c")
  ELSE Of("firmware_c") \cup Of("firmware_c_random")

Source ==
  [stable_runs |-> Of("regress"),
   expected_bug_failures |-> {x \in Of("regress") : Expected(x[2]) = "FAIL"},
   functional_coverage |-> Of("coverage"),
   low_power_proxy_targets |-> Of("power"),
   true_cross_groups |-> Of("true_cross"),
   bounded_property_checks |-> Of("formal"),
   solver_formal_proofs |-> {x \in Of("solver") : x[2] = "prove"},
   negative_tests |-> Of("negative"),
   axi_lite_protocol_coverage |-> Of("axi_lite"),
   axi_lite_optional_bench |-> {x \in Of("benches") : x[2] = "axi_lite"},
   firmware_soc_scenarios |-> Of("firmware"),
   compiled_firmware_scenarios |-> CompiledScenarios,
   compiled_firmware_directed |->
     IF Of("firmware_c_directed") # {} THEN Of("firmware_c_directed")
     ELSE {x \in Of("firmware_c") : x[2] = "directed"},
   integrated_async_cdc |-> Of("async_cdc"),
   real_uvm_ci |-> Of("uvm_ci")]

\* A count, and where its rows come from; of no rows it reads NA.
Value(rows) ==
  [met |-> Cardinality({x \in rows : report[x[1]][x[2]].status = Expected(x[2])}),
   of |-> Cardinality(rows),
   from |-> {[make |-> report[x[1]][x[2]].make, command |-> report[x[1]][x[2]].command] : x \in rows}]

Table == [m \in DOMAIN Source |-> Value(Source[m])]

Metrics ==
  /\ Now("metrics")
  /\ metrics' = Table
  /\ Ends(TRUE)
  /\ UNCHANGED <<report, readme>>

Selected ==
  {"stable_runs", "functional_coverage", "low_power_proxy_targets", "compiled_firmware_scenarios",
   "real_uvm_ci", "integrated_async_cdc"}

\* It raises if the code-coverage summary lacks a number.
Readme ==
  /\ Now("readme")
  /\ \/ /\ readme' = [m \in Selected |-> metrics[m]]
        /\ Ends(TRUE)
        /\ UNCHANGED <<report, metrics>>
     \/ Dies

\* check_docs.py
Docs ==
  /\ Now("docs")
  /\ \E ok \in BOOLEAN : Leaves(<<>>, ok)

-----------------------------------------------------------------------------
\* The reports that are checked in, as they were when they were.
CheckedIn ==
  [f \in File |->
     CASE f = "regress" -> [c \in {"nominal", "bug"} |-> Row(Expected(c))]
       [] f = "coverage" -> [bins |-> Row("PASS")]
       [] f = "power" -> [states |-> Row("PASS")]
       [] f = "formal" -> [c \in {"nominal", "bug"} |-> Row(Expected(c))]
       [] f = "solver" -> [c \in {"prove", "cover", "mutation"} |-> Row("PASS")]
       [] f = "firmware_c" -> [c \in {"directed", "seeded"} |-> Row("PASS")]
       [] f \in {"negative", "async_cdc", "uvm_ci", "firmware"} -> [case |-> Row("PASS")]
       [] OTHER -> <<>>]

Init ==
  /\ makes = 0 /\ target = "publish" /\ todo = <<"checked_in">> /\ verdict = "green"
  /\ report = CheckedIn
  /\ metrics = Table
  /\ readme = [m \in Selected |-> metrics[m]]

Next ==
  \/ \E t \in Target : Make(t)
  \/ \E c \in {"closure", "power_regress", "bug_validate", "negative"} : Regress(c)
  \/ NegativeSummary \/ TrueCross \/ Bounded \/ Solver
  \/ \E b \in {"axi_lite", "credit_mgr_edges"} : Bench(b)
  \/ AsyncCdc \/ UvmCi
  \/ Rv32mUnit \/ Rv32mRandom \/ Rv32mCompiler \/ Rv32mFormal \/ Rv32mMutations
  \/ FirmwareSoc
  \/ \E c \in {"firmware_c_check", "firmware_c_closure"} : FirmwareC(c)
  \/ Other \/ Metrics \/ Readme \/ Docs

Spec == Init /\ [][Next]_vars

-----------------------------------------------------------------------------
\* The state has its type.
TypeOK ==
  /\ makes \in 0 .. MAKES /\ target \in Target
  /\ verdict \in {"running", "red", "green"} /\ (verdict = "running" => todo # <<>>)
  /\ DOMAIN report = File
  /\ \A f \in File : \A case \in DOMAIN report[f] :
       /\ report[f][case].status \in {"PASS", "FAIL", "SKIP", "MISSING", "NOT_RUN", "deferred"}
       /\ report[f][case].make \in 0 .. makes
  /\ DOMAIN metrics = DOMAIN Source /\ DOMAIN readme = Selected

\* The core evidence set of docs/project_metrics.md, and the negative tests,
\* with the command that should have made each number.
Core ==
  [stable_runs |-> "closure", expected_bug_failures |-> "closure", functional_coverage |-> "closure",
   low_power_proxy_targets |-> "closure", bounded_property_checks |-> "bounded",
   firmware_soc_scenarios |-> "firmware_soc", negative_tests |-> "negative_summary"]

\* Makefile and gen_project_metrics.py: when project-check is green, every
\* number of the core evidence set counts rows that its own command wrote in
\* this very recipe, all as expected, no file it counts was written after, and
\* the README repeats it.  Other numbers may be old.
CorePublished ==
  verdict = "green" /\ target = "project_check" =>
    /\ \A m \in DOMAIN Core :
         /\ metrics[m].from = {[make |-> makes, command |-> Core[m]]}
         /\ metrics[m].met = metrics[m].of
    /\ metrics = Table
    /\ \A m \in Selected : readme[m] = metrics[m]

\* The files of a recipe that only runs checks.
Evidence(t) ==
  CASE t = "rv32m_release_check" ->
         {"rv32m_directed", "rv32m_coverage", "rv32m_random", "rv32m_compiler", "rv32m_formal",
          "rv32m_mutation"}
    [] t \in {"power_regress", "bug_validate"} -> {"regress"}
    [] t \in {"async_cdc", "uvm_ci"} -> {t}
    [] t = "firmware_c_closure" -> {"firmware_c", "firmware_c_random"}
    [] OTHER -> {}

\* The run_rv32m scripts and the other checks: a green recipe's files are its
\* own and show nothing but expected results; only formal-prove may be green
\* on an old file.
ChecksShown ==
  verdict = "green" =>
    \A f \in Evidence(target) :
      /\ report[f] # <<>>
      /\ \A case \in DOMAIN report[f] :
           report[f][case].make = makes /\ report[f][case].status = Expected(case)

PublishedStands == CorePublished /\ ChecksShown
=============================================================================
