---------------------------- MODULE FirmwareLane ----------------------------
(***************************************************************************)
(* The compiled-firmware lane: commands that simulate tests, judge each by *)
(* its bench and by the instruction-set simulator, and write reports, and  *)
(* commands that judge the reports and traces other commands left.  Make   *)
(* chains them into recipes.  Files outlive the recipe that wrote them.    *)
(***************************************************************************)
EXTENDS Naturals, Sequences

CONSTANTS
  DIRECTED,    \* the tests of SCENARIOS, in order
  SEEDED,      \* the generated streams and workloads
  VARIANTS,    \* compiler matrix and generated C
  TIMER,       \* TIMER_WFI_SCENARIOS
  PRIVILEGED,  \* PRIVILEGED_SCENARIOS
  SOC,         \* the assembly lane's tests
  MUTATED,     \* SCENARIOS[8], the one that is run on the defective core
  HITS,        \* what each test's run covers when it goes as it should
  REQUIRED,    \* what each command that requires coverage requires
  MAKES        \* bound: recipes in a behaviour

VARIABLES
  makes,    \* recipes so far
  begun,    \* the commands of the recipe
  recipe,   \* those still to run
  rows,     \* what the running command's simulations came to
  trace,    \* the trace file of each stem
  cover,    \* what each stem's coverage CSV says was hit
  report,   \* the rows and hits of each report
  fresh,    \* the stems and reports this recipe has written
  verdict   \* of the recipe

vars == <<makes, begun, recipe, rows, trace, cover, report, fresh, verdict>>

Elements(s) == {s[i] : i \in 1 .. Len(s)}

Test == Elements(DIRECTED \o SEEDED \o VARIANTS \o TIMER \o PRIVILEGED \o SOC)

\* Runs of a defective core have stems of their own, but for the first one of
\* the mutation check.
MutationIss == "mutation_iss"

RtlMutation == "rtl_mutation"

Stem == Test \cup {MutationIss, RtlMutation}

Job(test, stem, core) == [test |-> test, stem |-> stem, core |-> core]

Sound(tests) == [i \in 1 .. Len(tests) |-> Job(tests[i], tests[i], "sound")]

\* What a command simulates.
Jobs(c) ==
  CASE c = "smoke" -> Sound(<<DIRECTED[1], DIRECTED[2]>>)
    [] c = "directed" -> Sound(DIRECTED)
    [] c = "closure" -> Sound(DIRECTED \o SEEDED)
    [] c = "variants" -> Sound(VARIANTS)
    [] c = "timer" -> Sound(TIMER)
    [] c = "privileged" -> Sound(PRIVILEGED)
    [] c = "soc" -> Sound(SOC)
    [] c = "mutation" -> <<Job(MUTATED, MUTATED, "defective"), Job(MUTATED, MutationIss, "defective")>>
    [] c = "rtl_mutation" -> <<Job(MUTATED, RtlMutation, "defective")>>
    [] OTHER -> <<>>

Summary == {"directed", "closure", "variants", "timer", "privileged", "soc"}

Judge == {"isa", "timer_coverage", "robustness"}

Command == Summary \cup Judge \cup {"smoke", "mutation", "rtl_mutation"}

\* The Makefile's targets, and what the CI workflow and the release chain.
Recipes ==
  {<<"smoke">>, <<"directed">>, <<"closure">>, <<"soc">>, <<"variants">>, <<"mutation">>, <<"privileged">>,
   <<"robustness">>, <<"directed", "isa">>, <<"timer", "timer_coverage">>,
   <<"directed", "isa", "mutation", "timer", "timer_coverage", "variants">>,
   <<"closure", "variants", "timer", "timer_coverage", "privileged", "rtl_mutation", "robustness">>}

None == [core |-> "none", clean |-> FALSE, hits |-> {}]

-----------------------------------------------------------------------------
(* One simulation.                                                         *)

\* The bench opens the trace when it starts, and writes the coverage CSV and
\* then its result when it ends: one that dies leaves the old CSV, and a trace
\* that shows nothing yet.
Outcome == [result : {"PASS", "FAIL", "none"}, clean : BOOLEAN]

\* Mutant of Status: the bench alone decides.
StatusOfBench(result, clean) == result

\* run_one: the test passes if the bench says so and the instruction-set
\* simulator agrees with the whole trace.
Status(result, clean) == IF result = "PASS" /\ clean THEN "PASS" ELSE "FAIL"

\* run_scenario of the assembly lane has no simulator to ask.
SocStatus(result) == IF result = "PASS" THEN "PASS" ELSE "FAIL"

\* decode_points: what the trace shows.
Decoded(test, result) == IF result = "none" THEN {} ELSE HITS[test]

\* What a run is credited with, a failing one as well: the decoded trace and
\* the coverage CSV on disk, whoever wrote it.
Points(c, test, result, csv) == csv \cup (IF c = "soc" THEN {} ELSE Decoded(test, result))

Busy(c) == recipe # <<>> /\ Head(recipe) = c

\* run_one.
Simulate(c) ==
  /\ Busy(c) /\ Len(rows) < Len(Jobs(c))
  /\ \E o \in Outcome, checker \in BOOLEAN :
       LET job == Jobs(c)[Len(rows) + 1]
           shown == Decoded(job.test, o.result)
           status == IF c = "soc" THEN SocStatus(o.result) ELSE Status(o.result, o.clean)
       IN /\ checker => status # "PASS" /\ job.core = "defective"
          /\ trace' = [trace EXCEPT ![job.stem] = [core |-> job.core, clean |-> o.clean, hits |-> shown]]
          /\ cover' = [cover EXCEPT ![job.stem] = IF o.result = "none" THEN @ ELSE shown]
          /\ fresh' = fresh \cup {job.stem}
          /\ rows' = Append(rows,
               [test |-> job.test, status |-> IF status = "PASS" THEN "PASS" ELSE "FAIL",
                hits |-> Points(c, job.test, o.result, cover'[job.stem]),
                dirty |-> ~o.clean, checker |-> checker])
  /\ UNCHANGED <<makes, begun, recipe, report, verdict>>

-----------------------------------------------------------------------------
(* The end of a command.                                                   *)

Passed(set) == {row \in set : row.status = "PASS"}

HitsOf(set) == UNION {row.hits : row \in set}

\* Only the privileged lane counts passing tests alone.
Counted(c, set) == HitsOf(IF c = "privileged" THEN Passed(set) ELSE set)

ExitCode(ok) == IF ok THEN 0 ELSE 1

Ends(ok) ==
  /\ rows' = <<>>
  /\ recipe' = IF ok THEN Tail(recipe) ELSE <<>>
  /\ verdict' = IF ExitCode(ok) = 1 THEN "red" ELSE IF Len(recipe) = 1 THEN "green" ELSE "running"

Done(c) == Busy(c) /\ Len(rows) = Len(Jobs(c))

\* write_reports and its like: the files first, the exit code then.
Report(c) ==
  LET set == Elements(rows)
  IN /\ Done(c)
     /\ report' = [report EXCEPT ![c] = [rows |-> set, hits |-> Counted(c, set)]]
     /\ fresh' = fresh \cup {c}
     /\ Ends(set = Passed(set) /\ REQUIRED[c] \subseteq Counted(c, set))
     /\ UNCHANGED <<makes, begun, trace, cover>>

CompiledReport == Report("directed") \/ Report("closure")

VariantReport == Report("variants")

TimerReport == Report("timer")

PrivilegedReport == Report("privileged")

SocReport == Report("soc")

\* --smoke writes no report.
Smoke ==
  /\ Done("smoke")
  /\ Ends(Elements(rows) = Passed(Elements(rows)))
  /\ UNCHANGED <<makes, begun, trace, cover, report, fresh>>

\* The defective core must be caught by an assertion and, built without
\* assertions, by the simulator.  The self-test on altered rows, which comes
\* after, works on a trace that mismatches already (see RvfiChecker).
Mutation ==
  /\ Done("mutation")
  /\ Ends(/\ rows[1].status = "FAIL" /\ rows[1].checker
          /\ rows[2].status = "FAIL" /\ rows[2].dirty)
  /\ UNCHANGED <<makes, begun, trace, cover, report, fresh>>

RtlMutationCheck ==
  /\ Done("rtl_mutation")
  /\ Ends(rows[1].status = "FAIL" /\ (rows[1].dirty \/ rows[1].checker))
  /\ UNCHANGED <<makes, begun, trace, cover, report, fresh>>

\* The rv32_ points of the closure report, which firmware-c-check does not
\* write.
Isa ==
  /\ Done("isa")
  /\ Ends(REQUIRED["isa"] \subseteq report["closure"].hits)
  /\ UNCHANGED <<makes, begun, trace, cover, report, fresh>>

\* The passing rows of a summary with the traces at the paths they name.
Traced(c) == {row \in Passed(report[c].rows) : trace[row.test] # None}

TraceHits(c) == UNION {trace[row.test].hits : row \in Traced(c)}

TimerCoverage ==
  /\ Done("timer_coverage")
  /\ Ends(Passed(report["timer"].rows) # {} /\ REQUIRED["timer_coverage"] \subseteq TraceHits("timer"))
  /\ UNCHANGED <<makes, begun, trace, cover, report, fresh>>

\* gen_firmware_robustness.py: two tests for every required point.
Contributors(point) ==
  {row.test : row \in {r \in report["closure"].rows : point \in r.hits}}
  \cup {row.test : row \in {r \in Traced("variants") \cup Traced("timer") : point \in trace[r.test].hits}}

TwoOrMore(set) == \E a, b \in set : a # b

Robustness ==
  /\ Done("robustness")
  /\ Ends(report["closure"].rows # {} /\ \A point \in REQUIRED["robustness"] : TwoOrMore(Contributors(point)))
  /\ UNCHANGED <<makes, begun, trace, cover, report, fresh>>

\* A build that fails, a simulation that hangs: nothing is reported.
Raise ==
  /\ recipe # <<>>
  /\ Head(recipe) \notin Judge
  /\ recipe' = <<>>
  /\ rows' = <<>>
  /\ verdict' = "red"
  /\ UNCHANGED <<makes, begun, trace, cover, report, fresh>>

Make ==
  /\ recipe = <<>>
  /\ makes < MAKES
  /\ makes' = makes + 1
  /\ recipe' \in Recipes
  /\ begun' = recipe'
  /\ fresh' = {}
  /\ verdict' = "running"
  /\ UNCHANGED <<rows, trace, cover, report>>

Init ==
  /\ makes = 0
  /\ begun = <<>>
  /\ recipe = <<>>
  /\ rows = <<>>
  /\ trace = [s \in Stem |-> None]
  /\ cover = [s \in Stem |-> {}]
  /\ report = [c \in Summary |-> [rows |-> {}, hits |-> {}]]
  /\ fresh = {}
  /\ verdict = "none"

Next ==
  \/ Make \/ Raise \/ Smoke \/ Mutation \/ RtlMutationCheck
  \/ Isa \/ TimerCoverage \/ Robustness
  \/ \E c \in Command : Simulate(c)
  \/ CompiledReport \/ VariantReport \/ TimerReport \/ PrivilegedReport \/ SocReport

Spec == Init /\ [][Next]_vars

-----------------------------------------------------------------------------
TypeOK ==
  /\ makes \in 0 .. MAKES
  /\ begun \in Recipes \cup {<<>>}
  /\ \A s \in Stem : trace[s].core \in {"none", "sound", "defective"} /\ trace[s].clean \in BOOLEAN
  /\ \A c \in Summary : \A row \in report[c].rows : row.test \in Test /\ row.status \in {"PASS", "FAIL"}
  /\ fresh \subseteq Stem \cup Summary
  /\ verdict \in {"none", "running", "green", "red"}

Began(c) == c \in Elements(begun)

\* The evidence of a green recipe stands: every row it reported passed, and
\* the trace the row names is still of a sound core and without a mismatch,
\* but for the one the mutation check runs over.
EvidenceStands ==
  verdict = "green" =>
    \A c \in fresh \cap Summary : \A row \in report[c].rows :
      /\ row.status = "PASS"
      /\ row.test \in fresh
      /\ \/ trace[row.test].core = "sound" /\ (trace[row.test].clean \/ c = "soc")
         \/ row.test = MUTATED /\ Began("mutation")

\* What a green recipe required of a coverage report was hit by a test that
\* passed in this very recipe, although coverage files of dead and of older
\* runs are read as well.  The exceptions judge a report that none of their
\* commands write: rv32-isa-check, and robustness made on its own.
CoverageIsOfThisRecipe ==
  verdict = "green" =>
    /\ \A c \in fresh \cap Summary : \A point \in REQUIRED[c] :
         \E row \in Passed(report[c].rows) : row.test \in fresh /\ point \in HITS[row.test]
    /\ Began("timer_coverage") => \A point \in REQUIRED["timer_coverage"] :
         \E row \in Passed(report["timer"].rows) : row.test \in fresh /\ point \in HITS[row.test]
    /\ Began("robustness") /\ begun # <<"robustness">> => \A point \in REQUIRED["robustness"] :
         TwoOrMore({t \in Test \cap fresh : point \in HITS[t] /\ trace[t].core = "sound" /\ trace[t].clean})
=============================================================================
