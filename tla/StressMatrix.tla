---------------------------- MODULE StressMatrix ----------------------------
(***************************************************************************)
(* run_random_stress_matrix.py: take rows of the generated manifests,      *)
(* check them, turn their knobs into plusargs, and run each as a child     *)
(* run_regression.py whose summary is then read from its file.             *)
(***************************************************************************)
EXTENDS Naturals, Sequences, FiniteSets

CONSTANTS
  FAMILIES,   \* the families, in the order of FAMILY_LIMITS
  PROGRAMS    \* bound: matrix runs in a behaviour

VARIABLES
  runs,       \* matrix runs so far
  phase,      \* "idle", "select", "child" or "collect"
  at,         \* the family it is at; one row of each is run
  row,        \* the manifest row being run
  dma,        \* the descriptors its plusargs program
  running, report, exit,  \* the child
  file,       \* each child's summary file: "none", "met" or "unmet"
  results,    \* the matrix rows so far
  output,     \* random_stress_regress_summary.csv
  code        \* the exit code of the last matrix run

child == <<running, report, exit>>
vars == <<runs, phase, at, row, dma, child, file, results, output, code>>

Child == INSTANCE Invocation

-----------------------------------------------------------------------------
(* The knobs that a rule ties to another one or that place a descriptor.   *)
(* The others are each checked against the list they were drawn from.      *)

Bank == {0, 1}

TestOf(family) ==
  CASE family = "random_smoke_25" -> "random_manifest_scenario"
    [] family = "stress_retry_50" -> "prbs_retry_backpressure"
    [] family = "power_dma_cross_25" -> "power_traffic_cross_test"

Knobs ==
  [test : {TestOf(f) : f \in {"random_smoke_25", "stress_retry_50", "power_dma_cross_25"}},
   src_bank : Bank, dst_bank : Bank, dma_len : {1, 2, 4, 8, 12, 16},
   queue_pressure : {"single", "pair", "full_queue"},
   parity_injection : {"none", "src", "dst_maint"}]

\* gen_seeded_scenarios.row_for: what each family pins, and what it draws.
Drawn(family) ==
  CASE family = "random_smoke_25" ->
         [test : {TestOf(family)}, src_bank : Bank, dst_bank : Bank, dma_len : {8, 12, 16},
          queue_pressure : {"single"}, parity_injection : {"none", "src", "dst_maint"}]
    [] family = "stress_retry_50" ->
         [test : {TestOf(family)}, src_bank : Bank, dst_bank : Bank,
          dma_len : {1, 2, 4, 8, 12, 16}, queue_pressure : {"single"},
          parity_injection : {"none"}]
    [] family = "power_dma_cross_25" ->
         [test : {TestOf(family)}, src_bank : Bank, dst_bank : Bank, dma_len : {4},
          queue_pressure : {"pair"}, parity_injection : {"none"}]

\* The integrity-fault rule comes last and overrides the draw.
Generated(family) ==
  {IF k.parity_injection # "none" THEN [k EXCEPT !.queue_pressure = "single"] ELSE k :
     k \in Drawn(family)}

Scratchpad == 256

BaseForBank(bank, base) == base + bank

\* validate_manifest_row: the rules that relate knobs to each other.
Valid(k) ==
  LET words == k.dma_len * (IF k.queue_pressure = "full_queue" THEN 4 ELSE 2)
  IN /\ k \in Knobs
     /\ k.parity_injection # "none" => k.queue_pressure = "single"
     /\ k.test = "random_manifest_scenario" =>
          /\ k.queue_pressure = "single"
          /\ k.parity_injection = "none" => k.dma_len >= 8
     /\ BaseForBank(k.src_bank, 8) + words < Scratchpad
     /\ BaseForBank(k.dst_bank, 128) + words < Scratchpad

\* Mutant of Second: the second descriptor starts where short ones would end.
SecondNear == 8

\* plusargs_for_manifest_row: the ranges the two descriptors cover.  The PRBS
\* family gets no DMA plusargs.
Second == 32

Words(base, k) == base .. base + k.dma_len - 1

Descriptors(k) ==
  LET src == BaseForBank(k.src_bank, 8)
      dst == BaseForBank(k.dst_bank, 128)
  IN IF k.test = "prbs_retry_backpressure" THEN {}
     ELSE {[src |-> Words(src, k), dst |-> Words(dst, k)],
           [src |-> Words(src + Second, k), dst |-> Words(dst + Second, k)]}

-----------------------------------------------------------------------------
Family == FAMILIES[at]

NoRow == [test |-> "none"]

Start ==
  /\ phase = "idle"
  /\ runs < PROGRAMS
  /\ runs' = runs + 1
  /\ phase' = "select"
  /\ at' = 1
  /\ results' = <<>>
  /\ code' = "none"
  /\ UNCHANGED <<row, dma, child, file, output>>

\* Rows that fail the check are passed over.
Select ==
  /\ phase = "select"
  /\ row' \in {k \in Generated(Family) : Valid(k)}
  /\ dma' = Descriptors(row')
  /\ phase' = "child"
  /\ Child!Begin
  /\ UNCHANGED <<runs, at, file, results, output, code>>

\* A manifest that is missing or has too few valid rows is an exception.
TooFewRows ==
  /\ phase = "select"
  /\ phase' = "idle"
  /\ code' = "raised"
  /\ UNCHANGED <<runs, at, row, dma, child, file, results, output>>

\* The child writes the summary file when it publishes.
ChildPublishes ==
  /\ phase = "child"
  /\ Child!Publish
  /\ file' = [file EXCEPT ![Family] = report']
  /\ UNCHANGED <<runs, phase, at, row, dma, results, output, code>>

ChildExits ==
  /\ phase = "child"
  /\ Child!Succeed \/ Child!Fail
  /\ phase' = "collect"
  /\ UNCHANGED <<runs, at, row, dma, file, results, output, code>>

\* The matrix row repeats what the summary file says, whatever the child's
\* exit code; the exit code is only recorded.
Collect ==
  /\ phase = "collect"
  /\ results' = Append(results,
       [family |-> Family, returncode |-> exit, file |-> file[Family],
        meets |-> file[Family] = "met",
        bucket |-> CASE file[Family] = "none" -> "runner_error"
                     [] file[Family] = "met" -> "none"
                     [] OTHER -> "classified"])
  /\ row' = NoRow
  /\ dma' = {}
  /\ IF at < Len(FAMILIES)
     THEN at' = at + 1 /\ phase' = "select" /\ UNCHANGED <<output, code>>
     ELSE /\ phase' = "idle"
          /\ output' = results'
          /\ code' = IF \A i \in 1 .. Len(results') : results'[i].meets THEN "zero" ELSE "one"
          /\ UNCHANGED at
  /\ UNCHANGED <<runs, child, file>>

Init ==
  /\ Child!Init
  /\ runs = 0
  /\ phase = "idle"
  /\ at = 1
  /\ row = NoRow
  /\ dma = {}
  /\ file = [f \in {FAMILIES[i] : i \in 1 .. Len(FAMILIES)} |-> "none"]
  /\ results = <<>>
  /\ output = <<>>
  /\ code = "none"

Next ==
  \/ Start \/ Select \/ TooFewRows \/ ChildPublishes \/ ChildExits \/ Collect

Spec == Init /\ [][Next]_vars

-----------------------------------------------------------------------------
TypeOK ==
  /\ phase \in {"idle", "select", "child", "collect"}
  /\ at \in 1 .. Len(FAMILIES)
  /\ row \in Knobs \cup {NoRow}
  /\ \A f \in DOMAIN file : file[f] \in {"none", "met", "unmet"}
  /\ Len(results) <= Len(FAMILIES)
  /\ code \in {"none", "raised", "zero", "one"}

\* The generator and the checker are written apart: nothing generated is
\* refused, so a manifest always has the rows the matrix wants.
GeneratedIsValid ==
  phase = "select" => \A k \in Generated(Family) : Valid(k)

\* The two descriptors a row programs share no word and stay in the
\* scratchpads, whichever banks they start in.
DescriptorsApart ==
  \A d \in dma :
    /\ d.src \cup d.dst \subseteq 0 .. Scratchpad - 1
    /\ d.src \cap d.dst = {}
    /\ \A e \in dma \ {d} : (d.src \cup d.dst) \cap (e.src \cup e.dst) = {}
=============================================================================
