------------------------------ MODULE Evidence ------------------------------
(***************************************************************************)
(* The scripts that turn simulations into accepted evidence.  Each works   *)
(* on files of its own: one of them moves in a behaviour, and the others   *)
(* stay where they start.  The trace checker is instanced with the         *)
(* theorems about it, for the proofs of what it adds up to.                *)
(***************************************************************************)
EXTENDS ClosureGate

-----------------------------------------------------------------------------
(* The random stress matrix.                                                 *)

CONSTANTS
  FAMILIES,    \* the families, in the order of FAMILY_LIMITS
  MATRIX_RUNS  \* bound: matrix runs in a behaviour

VARIABLES
  runs, phase, at, chosen, dma, running, report, exit, file, results, output, code

ASSUME FamiliesAssumption ==
  /\ FAMILIES \in Seq({"random_smoke_25", "stress_retry_50", "power_dma_cross_25"})
  /\ FAMILIES # <<>>

Stress == INSTANCE StressMatrix WITH PROGRAMS <- MATRIX_RUNS, row <- chosen

-----------------------------------------------------------------------------
(* The external oracles.                                                     *)

CONSTANTS
  SPIKE_LOG,   \* what Spike commits for the program, if nothing cuts it short
  RTL_TRACES,  \* what the core may be seen to retire
  TOOLS,       \* the installations considered
  MIN_COUNT,   \* commits that must be compared
  MAX_SUFFIX   \* RTL commits allowed after Spike's last

VARIABLES tools, recipe, oracle_rows, fresh, verdict, mutation_matrix, compared

\* The tools of the lock file.
ASSUME ToolsAssumption ==
  \A installed \in TOOLS : {"spike", "act", "sail", "formal", "sby"} \subseteq DOMAIN installed

Oracles == INSTANCE ExternalOracles WITH rows <- oracle_rows

ASSUME TracesAssumption ==
  /\ RTL_TRACES \subseteq Seq(Oracles!Retirement)
  /\ SPIKE_LOG \in Seq(Oracles!SpikeCommit)
  /\ MAX_SUFFIX \in Nat

-----------------------------------------------------------------------------
(* The checker of the retirement trace.                                      *)

CONSTANTS
  IMAGES,    \* the firmware images: functions from PC to instruction
  MAX_ROWS,  \* bound: retirements
  RESETS     \* bound: resets

VARIABLES program, core, order, epoch, retired, iss, altered

Rvfi == INSTANCE RvfiChecker_proofs WITH PROGRAMS <- IMAGES, rows <- retired

ASSUME ImagesAssumption == Rvfi!ProgramsWellFormed /\ MAX_ROWS \in Nat /\ RESETS \in Nat

-----------------------------------------------------------------------------
(* The compiled-firmware lane.                                               *)

CONSTANTS
  DIRECTED, SEEDED, VARIANTS, TIMER, PRIVILEGED, SOC,  \* the tests of each kind
  MUTATED,   \* the one that is run on the defective core
  HITS,      \* what each test's run covers when it goes as it should
  REQUIRED   \* what each command that requires coverage requires

VARIABLES lane_makes, begun, todo, lane_rows, trace, cover, lane_report, lane_fresh, lane_verdict

Firmware ==
  INSTANCE FirmwareLane
    WITH makes <- lane_makes, recipe <- todo, rows <- lane_rows, report <- lane_report,
         fresh <- lane_fresh, verdict <- lane_verdict

\* A test has a name of its own, and the lanes that share a recipe share no test;
\* --smoke takes the first two.
ASSUME TestsAssumption ==
  /\ {DIRECTED, SEEDED, VARIANTS, TIMER, PRIVILEGED, SOC}
       \subseteq Seq(STRING \ ({Firmware!MutationIss, Firmware!RtlMutation} \cup Firmware!Summary))
  /\ Len(DIRECTED) > 1 /\ MUTATED \in Firmware!Elements(DIRECTED)
  /\ LET lanes == <<Firmware!Elements(DIRECTED) \cup Firmware!Elements(SEEDED), Firmware!Elements(VARIANTS),
                   Firmware!Elements(TIMER), Firmware!Elements(PRIVILEGED)>>
     IN \A i, j \in 1 .. 4 : i # j => lanes[i] \cap lanes[j] = {}

-----------------------------------------------------------------------------
(* The published numbers.                                                  *)

ASSUME MakesAssumption == MAKES \in Nat

VARIABLES pub_makes, pub_target, pub_todo, pub_report, table, snapshot, pub_verdict

Pub ==
  INSTANCE ProjectMetrics
    WITH makes <- pub_makes, target <- pub_target, todo <- pub_todo,
         report <- pub_report, metrics <- table, readme <- snapshot, verdict <- pub_verdict

-----------------------------------------------------------------------------
VARIABLE part  \* which of them moves

gateVars == vars
stressVars == <<runs, phase, at, chosen, dma, running, report, exit, file, results, output, code>>
oracleVars == <<tools, recipe, oracle_rows, fresh, verdict, mutation_matrix, compared>>
rvfiVars == <<program, core, order, epoch, retired, iss, altered>>
laneVars == <<lane_makes, begun, todo, lane_rows, trace, cover, lane_report, lane_fresh, lane_verdict>>
pubVars == <<pub_makes, pub_target, pub_todo, pub_report, table, snapshot, pub_verdict>>

evidenceVars == <<part, gateVars, stressVars, oracleVars, rvfiVars, laneVars, pubVars>>

EvidenceInit ==
  /\ part \in {"gate", "stress", "oracles", "rvfi", "firmware", "metrics"}
  /\ Init /\ Stress!Init /\ Oracles!Init /\ Rvfi!Init /\ Firmware!Init /\ Pub!Init

EvidenceNext ==
  \/ /\ part = "gate" /\ Next
     /\ UNCHANGED <<part, stressVars, oracleVars, rvfiVars, laneVars, pubVars>>
  \/ /\ part = "stress" /\ Stress!Next
     /\ UNCHANGED <<part, gateVars, oracleVars, rvfiVars, laneVars, pubVars>>
  \/ /\ part = "oracles" /\ Oracles!Next
     /\ UNCHANGED <<part, gateVars, stressVars, rvfiVars, laneVars, pubVars>>
  \/ /\ part = "rvfi" /\ Rvfi!Next
     /\ UNCHANGED <<part, gateVars, stressVars, oracleVars, laneVars, pubVars>>
  \/ /\ part = "firmware" /\ Firmware!Next
     /\ UNCHANGED <<part, gateVars, stressVars, oracleVars, rvfiVars, pubVars>>
  \/ /\ part = "metrics" /\ Pub!Next
     /\ UNCHANGED <<part, gateVars, stressVars, oracleVars, rvfiVars, laneVars>>

EvidenceSpec == EvidenceInit /\ [][EvidenceNext]_evidenceVars

-----------------------------------------------------------------------------
\* Every script's state has its type.
EvidenceTypeOK ==
  CASE part = "gate" -> TypeOK
    [] part = "stress" -> Stress!TypeOK
    [] part = "oracles" -> Oracles!TypeOK
    [] part = "rvfi" -> Rvfi!TypeOK
    [] part = "firmware" -> Firmware!TypeOK
    [] part = "metrics" -> Pub!TypeOK

\* gen_seeded_scenarios.py and run_random_stress_matrix.py: the generator and
\* the checker of manifests are written apart, and nothing generated is
\* refused; the descriptors that a row programs share no word and stay in the
\* scratchpads.
ManifestsSound == part = "stress" => Stress!GeneratedIsValid /\ Stress!DescriptorsApart

\* run_external_iss.py: a core it accepts did what Spike did.
AcceptedDidTheSame == part = "oracles" => Oracles!AcceptedDidTheSame

\* Makefile and the oracles' scripts: a green recipe skipped nothing, and the
\* mutation matrix judged reports of its own recipe only.
GreenIsRequired == part = "oracles" => Oracles!GreenIsRequired /\ Oracles!MatrixIsFresh

\* rv32_iss.py: a sound core is called wrong in three known places only.
FalseAlarms == Rvfi!FalseAlarms

\* rv32_iss.py: an altered trace is noticed.
AlterationCaught == part = "rvfi" => Rvfi!AlterationCaught

\* rv32_iss.py: a trace without a complaint was followed to the core's state.
FollowsCore == part = "rvfi" => Rvfi!FollowsCore

\* run_compiled_firmware.py and the Makefile: what a green recipe reported
\* stands on files of its own.
GreenStands == part = "firmware" => Firmware!EvidenceStands /\ Firmware!CoverageIsOfThisRecipe

\* Makefile, gen_project_metrics.py and update_readme_metrics.py: the core
\* numbers that a green project-check publishes are its own and met.
PublishedStands == part = "metrics" => Pub!PublishedStands
=============================================================================
