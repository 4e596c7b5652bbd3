# Verification of the UCIe-style chiplet SoC

TLA+ models, TLC runs and TLAPS proofs for

- the two-die SoC in `chiplet_extension/rtl`: die A with its DMA offload engine and software port,
  die B with its AES-128 service, between them a die-to-die link with credits, CRC and retry, around
  them a power sequencer;
- the verification scripts in `chiplet_extension/scripts` and the recipes of the Makefile that
  chain them: what turns simulations into a green exit code and a published number.

Paths below are relative to `src/`.

The reference is the code. Where a document, an assertion or a test bench says something else of
it, a run shows the difference (*Findings*) or a list names it (*Observed divergences*).

## Conventions

- **In the RTL one step is one clock edge.** All of the modelled blocks are single-clock `always_ff` designs,
  so an action is the whole of what a block does on one edge: every non-blocking assignment, in
  the order in which a later one overrides an earlier one. Concurrency is not interleaving of
  threads here but *coincidence*: software writes a register, the engine launches, a word comes
  back and the power state changes on the same edge. The inputs of every edge are chosen freely.
- **Primed = after the edge; unprimed = what the combinational outputs show during the cycle.**
  An input register (`PowerCtrl!power`, `LinkDie!lane`) holds the wires as the next edge samples
  them.
- **In the scripts one step is one command, or one file written**, whichever a crash, another lane or
  another recipe can come between. Files are variables that nothing resets: a script that dies
  leaves what an earlier one wrote. What a simulation does is chosen freely among what it
  can leave behind, dying silently included.
- **Names** are those of the source without `_q`; each variable's comment names its registers.
- **Mutants** stand next to the definition they change and are named for the bug they plant.

## Inventory

| Component (sources) | State | Operations | What makes it correct | Status |
|---|---|---|---|---|
| DMA offload controller (`die_a/dma_offload_ctrl.sv`) | staged descriptor, submit and completion rings with head/tail/count, active descriptor, engine state and counters, retire registers, interrupt status; two banked memories with parity, validity and retention | CSR writes (stage, doorbell, pop, W1C, soft reset, maintenance), launch, send, receive, timeout, fault, retire, power transitions | descriptors served once and in order; one record each; refused work is refused; nothing legal is lost, nothing stale is run; an accepted descriptor ends; interrupts are not lost | queues, engine, interrupts: modelled; memories: planned |
| Power sequencer (`power/chiplet_power_ctrl.sv`) | last power state, sequencer state/target/count, six switches, six clamps, four pulses | one edge | clamp before off, on before unclamp, save before off, restore between on and unclamp; a state that stays is reached | modelled |
| Die-to-die adapter (`d2d_adapter/*.sv`, training timer in `soc_die_*_top.sv`) | packetizer, credits, transmitter, receiver, depacketizer, retry controller, link FSM, timer | one edge of all of them | credits bounded; replay of the right flit and before new ones; the link comes up; no beat lost | modelled |
| Die B crypto service (`die_b/die_b_system.sv`, `aes128_iterative.sv`) | block under construction, block engine, ciphertext queue | one edge | blocks not mixed, words in order, none lost | modelled (AES abstract) |
| Two-die data path (`soc_chiplet_top.sv`, tops, PHY, channel) | pipelines, fault flags | one edge of everything | what is sent comes back, once, in order, encrypted; what fails CRC does not | modelled with one source; partly |
| Legacy source and stream mux (`die_a/die_a_system.sv`, `soc_die_a_top.sv:151`) | PRBS source, mirror, select | send, compare | the two sources do not mix | planned |
| Clock crossings (`cdc/*.sv`, `soc_chiplet_async_top.sv`) | Gray pointers, toggles | push, pop, sample | conservative full/empty, no pulse lost | planned |
| Bus bridges (`bus/*.sv`) | request latch, response | APB, AXI-Lite transfers | each transfer answered once with its own data | planned |
| Timer, ROM feeder, wake guard (`firmware/*.sv`, `soc_chiplet_rv32_top.sv`) | mtime/mtimecmp, feeder index | tick, write, feed | no wake lost | planned |
| RV32 core, `base_soc` | core registers | instructions | (checked against an ISS by the repository) | not modelled |
| Benches, formal harnesses | — | — | — | not modelled; read for what they promise |
| Regression runner, report generators, closure gate (`run_regression.py`, `check_closure_equivalence.py`, the parser, coverage, power, failure, history and matrix generators) | logs, per-test coverage and power files, manifest, summary, histories, the gate's CSV | simulate, write the manifest, each generator, the lane check, the comparison | an accepted lane is one whose own tests all met their expectation; reports agree with the manifest they came from | modelled, without code coverage and wording |
| Random stress matrix (`gen_seeded_scenarios.py`, `run_random_stress_matrix.py`) | manifests, child summaries, collected rows | generate, validate, program descriptors, run a child, collect | nothing generated is refused; two descriptors of a row share no word | modelled |
| External oracles (`check_external_riscv_tools.py`, `run_external_iss.py`, `run_act4.py`, `run_rv32_formal.py`, `run_rtl_mutations.py`, `run_external_mutation_matrix.py`) | installed tools, one report per command, the matrix | each command; `make` stops at the first that fails | green means nothing was skipped; what is accepted did what Spike did | modelled |
| Trace checker (`rv32_iss.py`) | pc, registers, memory, CSRs, order, epoch, complaints | check and replay a row: instruction, trap, interrupt, reset | a trace without a complaint is followed to the core's state; an altered one is noticed | modelled on small words, partly; opcodes not decoded |
| Compiled-firmware lane (`run_compiled_firmware.py`, `gen_firmware_robustness.py`, ISA and timer coverage) | traces, coverage files, summaries | simulate and judge, report, check reports of others | what a green recipe reports rests on its own files | modelled, without image building |
| Project metrics and publication (`gen_project_metrics.py`, `update_readme_metrics.py`, the multiplier's release check, targets of the Makefile) | report files, `project_metrics.csv`, the README's snapshot | the commands of `project-check` and of the single targets | the core numbers a green `project-check` publishes are of its own runs and met | modelled, without the dashboard |
| Golden model (`dma_golden_model.py`), characterisation, inventory and code-coverage scripts | — | — | — | not modelled |

**How they interact.** Software reaches the DMA controller through `cfg_*` (one write per edge at
most). The engine streams words to die A's packetizer with valid/ready, the adapter turns four
words into a flit of 17 beats, the PHY and the channel delay and possibly corrupt beats, die B's
adapter turns beats into words, the crypto service encrypts pairs of words, and its queue feeds
die B's packetizer on the way back. Nothing on the link names a descriptor: the engine counts
words. The two adapters share no flow control; each one's credits come from its own receiver.
`power_state` is seen by the DMA controller and by the sequencer independently.

The scripts interact through files and exit codes only. `make` runs a recipe's commands in order
and stops at the first nonzero exit code; `run_regression.py` starts simulations and then the
generators over whatever files lie there; the stress matrix starts `run_regression.py` as a child;
gates, matrices and metrics read reports without asking who wrote them. Two lanes of the
regression (`nonuvm` and `uvm`) share one manifest and keep separate reports by their prefix.

**What is hard in the RTL.** Several writers of one register on one edge; rings at their limits; the retire
stall; a timeout racing a late answer; resets and power states in the middle of anything; a
sequencer whose input moves on while it works; replays against new flits; errors in mid flit;
overrun with nobody holding anybody back; liveness of all of it.

**What is hard in the scripts.** A process that dies between two files, so that the next one takes
an old file for a new one; two lanes over one manifest; checks that look at part of the evidence
and lean on an exit code for the rest; an oracle that is missing and counts as agreeing; a log that
ends early; a checker that takes from the trace what it should work out itself. `PROJECT.json` lists every hazard
with its line and the properties that cover it.

## Modules

```
DmaRings ──EXTENDS── DmaQueues ──(refines)── DmaService
    └─────EXTENDS── DmaOffload ──(refines)── DmaQueues
PowerCtrl
LinkAdapter ──EXTENDS── LinkDie
    └──INSTANCE twice── Loopback ──INSTANCE── CryptoService

RegressionRun ──EXTENDS── ClosureGate ──(each lane refines)── Invocation
StressMatrix ──INSTANCE── Invocation      (its child is one)
Lanes ──EXTENDS── ExternalOracles
  └─────EXTENDS── RvfiChecker
FirmwareLane        ProjectMetrics
ClosureGate ──EXTENDS── Evidence      (composes it with instances of the other five)
```

### DMA controller

- **`DmaRings`** — the two rings and the staging registers, shared by the next two. `RingsStep` is
  the rings' share of an edge: it takes the CSR write, the power state, whether the engine launches
  and the record it retires, and it resolves the double assignments as the RTL does (the launch's
  decrement of `submit_count_q` overrides the doorbell's increment; a retirement's push overrides a
  pop's decrement and a reject record's slot).
  Pointers wrap at the depth, counts are registers of their own, so that they can *disagree* with
  the pointers as they do in the RTL. Submission checks are in the RTL's order, the range sum at the
  RTL's width (`SUM_SPAN` = 2^9 there).
- **`DmaQueues`** — the rings with the engine reduced to *what the queues see*: launch the oldest
  slot, keep it for any time, end it with one record, or wait in the retire registers while the ring
  is full. One action for each; `SoftReset` and `DeepSleep` clear everything.
- **`DmaService`** — the abstract promise: a sequence of pending descriptors, at most one current, a
  sequence of records; everything leaves in the order it came, exactly once.
- **`DmaOffload`** — the whole block: engine states, send/receive/timeout counters, source faults,
  retire registers, interrupt status with W1C. The order of the checks in the RTL's engine is
  the order of the guards: a source fault first, then the timer, then the state's own work; a return word taken on the
  edge of a timeout or fault is lost.

Left out: memory contents, parity and maintenance (a fault is an input of the edges on which the
engine looks at a source word), registers only monitors read.

### Power sequencer

**`PowerCtrl`** is `chiplet_power_ctrl` whole, with sets of domains for the six-bit vectors, and
beside it the monitor registers of `formal/tb_power_ctrl_props.sv` (sleep seen, restore seen) and the
transition hold of that harness. `Spec` lets `power_state` change on every edge; `HeldSpec` only
when the hold allows it, as the harness assumes. `orderly` records whether the state has so far been
held and moved only from or to RUN.

### Link

- **`LinkAdapter`** — one die's adapter, one sub-action per block, composed by `AdapterEdge`. A flit
  is its words; a beat is a flit with its slice number; a CRC is sound iff the 17 beats gathered
  are slices 1..17 of one flit, and a word read from anything else is `Corrupt`.
- **`LinkDie`** — one adapter among lanes, source and sink that do what they like.
- **`CryptoService`** — die B's block builder, AES timing and ciphertext queue.
- **`Loopback`** — two adapters, the PHY and channel pipelines, the channel's faults and the crypto
  service with the code's own parameters. The source stands for the engine with one descriptor.

### Scripts

- **`RegressionRun`** — `run_regression.py` and the generators it starts. A test is a record of what
  its simulation hits and what verdict it should give; a simulation ends with a verdict in its log or none, and
  writes its coverage and power files or dies before. `NormalizeStatus` and the manifest are the
  script's; a file that exists is named in the manifest whoever wrote it. One action for each file written, in the
  script's order, and at each of them the invocation may die.
- **`ClosureGate`** — the make targets `closure`, `uvm-closure` and `closure-equivalence` over two
  lanes: run, check, compare. `PARALLEL` says whether make may start one lane beside the other.
- **`Invocation`** — the abstract promise of a suite: exit code 0 comes only after a summary of the
  invocation's own runs, all as expected. Each lane of `ClosureGate` implements it, and
  `StressMatrix` builds on it for its child.
- **`StressMatrix`** — the generator's draws (`Generated`) and the checker's rules (`Valid`) as two
  definitions translated from two scripts, the descriptors that the plusargs program, the child
  runs, and the rows collected from the summaries they leave.
- **`Lanes`** — words of two one-bit bytes: byte, mask and merge, shared by the next two.
- **`ExternalOracles`** — the tool check, the comparison with Spike (`Commits`, `Differs`, the least
  number of commits, the suffix allowed after Spike's last), ACT4, formal, the local mutations and the matrix; each ends
  with a set of rows, from which `ExitCode` follows under `--require` or `--expect-detection`.
- **`RvfiChecker`** — the checker's state beside a core that retires rows. The core's rows
  (`Completed`, `Trapped`, `Interrupted`) are the reference, translated from `rv32_core.sv` without its injected
  bugs; the checker's own definitions are translated from `rv32_iss.py`. What an access shows (`Accessed`) is shown
  as well by the trap of one a device answered with `pslverr` (`Faulted`, `rv32_core.sv:497-541`). A jump or branch has
  a `Target`, and traps when it is taken to one with bit 1 set; an encoding that is none (`bad_jalr`,
  `bad_branch`) is illegal whatever its target, while `CheckTrap` looks at the target only. PCs count halfwords,
  so that bit 1 is the lowest. A row may be altered on the way as the script's self-test
  does; MMIO, interrupts, traps and resets are free choices of the core's environment.
- **`FirmwareLane`** — the commands of `run_compiled_firmware.py` and of the scripts that judge its
  output. A test is judged by its bench and by the trace checker, and credited with the coverage file at its
  path.
- **`ProjectMetrics`** — `project-check`, the multiplier's release check and the single targets as
  sequences of commands; a row of a report is stamped with who wrote it, so that
  properties can say what the CSV cannot.
- **`Evidence`** — composes the six: it extends `ClosureGate` and instances the others. `part` says which of them
  moves in a behaviour: they share no file the models have in common, so interleaving them would only multiply
  states. The assumptions on tests, tools, images and families are its own, so that one run
  evaluates them all; `MCEvidence` only gives the constants their values.

## Runs

| Run | Question | Bounds, and why they suffice | Result |
|---|---|---|---|
| `dma_queues` | what holds of the queues whatever collides | two-slot rings (the least with a wrap and a middle count), 4-word memories with 3-bit sums (the sum can overflow, as at width 9), a descriptor that ends with the memory, one that reaches past it and is refused, one so long that its sums wrap and it is accepted; the two accepted differ in length, so a record that belonged to the other would show; no runtime errors, which `dma_offload` has, and no reject counter, which nothing reads and whose bound is proved | TypeOK, RetireBelongsToActive, ActiveLegal, DriftOnlyByCollision hold |
| `dma_spaced` | is it the ordered service when software avoids the collisions | two legal descriptors with different tags, so that an exchange shows | implements `DmaService` |
| `dma_offload` | does the whole block implement the queues; does everything end | one-slot rings (a full ring after one record, so the stall is common), timeout of 2, one memory error beside the timeout | EngineConsistent, RaisesIrq, ImplementsQueues, Terminates, Serves hold |
| `dma_accounting`, `dma_front` | two documented properties of the rings | as `dma_queues`, one descriptor, timeouts | violated |
| `power_ctrl` | what holds whatever the power state does | 2 cycles per wait and a hold of 3: every wait has a first, middle and last cycle, and the hold is both shorter and longer than a sequence's parts | all hold |
| `power_restore` | the documented restore property under the harness's hold | same | violated |
| `link_die` | one adapter against any lanes | one-word flits of 2 beats (a first and a last beat), credits 0..2 starting at 1 (empty, spending, saturation), one retry with a hold-off, timeouts of 2 equal to the settling time (the tightest the assumption allows) | all hold |
| `loopback` | clean lanes, all offer patterns | the code's own parameters; 4, 8, 12, 16 words | NoBeatLost, InOrder, Returns hold |
| `evidence` | what exit code 0 and a published number are worth | see below | all hold |
| `loopback_burst` | 28 words without gaps | the code's own parameters | NoBeatLost violated |
| `loopback_fault` | one fault | the code's own parameters, 8 words | CrcFailedNotCommitted violated |

`loopback` has `Offers = {TRUE, FALSE}`: the source may or may not offer a word on every edge.
The burst without gaps is among the behaviours. What holds of it holds up to 27 words (`BurstLosesNoBeat`); the overrun
needs 28, when die B's block engine (22 edges per flit) has fallen one flit behind the lanes
(18 edges per flit).

**`evidence`** checks, and is bounded by:

- *closure gate*: three tests (one that must pass and hits power bins, one bug test, one of another suite), two lanes, two makes (the least in which a file
  can be old), one row of history, one recipe at a time.
  `CheckedMeansMet`, `OldCoverageFromSilentBugRunsOnly`, `ReportsAgree`, `LanesKeepTheContract` hold.
- *stress matrix*: every row each of three families can draw; one row of each family is run.
  `ManifestsSound` holds.
- *external oracles*: a Spike log of four commits (register, `mul`, byte store, load) cut short
  anywhere, a core's trace that is right or has one row changed in one field, lost or repeated, or a suffix of
  up to two rows where one is allowed; all tools pinned, or one of another version or missing.
  `AcceptedDidTheSame` and `GreenIsRequired` hold.
- *trace checker*: six programs of up to six instructions (byte and word stores and loads, MMIO, division,
  jumps and branches to aligned and misaligned targets, CSRs, `ebreak`, `ecall`, illegal instructions and encodings of a jump
  and of a branch that are none) with handlers, six retirements, one reset, interrupts at any
  retirement, devices that refuse. `FollowsCore`, `FalseAlarms`, `AlterationCaught` hold. The last two name the exceptions the
  code has, three and four: see *Observed divergences*.
- *firmware lane*: one or two tests of each kind, two recipes of the Makefile's in a row. `GreenStands` holds.
- *metrics*: two recipes in a row. `PublishedStands` holds.

**Deadlock** is checked in every run but `evidence`: a script ends, and a bounded number of makes
is made.

## Fairness

- `DmaOffload!FairSpec`. `SF(Quiet)`: edges in RUN on which software does not write, the link moves no
  word and the source is sound come again and again. An APB write takes at least two cycles, so
  every other edge is free of writes; the power state is assumed to return to RUN again and
  again (nothing moves otherwise, by design). The remaining exclusion is a link that moves a word on *every* such edge; a
  descriptor then ends by counting words. `WF` on the pop: firmware drains a
  completion ring that is not empty (the interrupt handler does). No fairness is assumed of the link,
  which is what the timeout is for.
- `PowerCtrl`: `WF(Edge /\ UNCHANGED power)` and `LinkDie`: `WF(Edge)`: the clock runs.
- `Evidence`: none. Its properties are safety, `LanesKeepTheContract` included; every script may
  die at any step.
- `Loopback`: weak fairness of the offering edges: the clock runs and the source, like the engine
  in SEND, keeps a word it has until it is taken.

## Proofs

All theorems are of the form `Spec => []P`, `Spec => [][A]_vars` or `Spec => AbstractSpec`, but for two
(`Spec /\ []KeepsRoom => []P`), for every value of the constants that satisfies the modules' named assumptions, all
of which TLC evaluates:

- `DepthAssumption`, `ErrorAssumption`, `StagingAssumption`, `TimeoutAssumption` (DMA), `CyclesAssumption`
  (power), `LinkAssumption`, `SettleAssumption` (link), `LoopbackAssumption` (data path): the shapes and sizes of
  the RTL's parameters (a PHY has at least one stage, `phy_behavioral.sv:30`);
- `NothingAssumption`: what stands for no word, flit or beat is none of them;
- `SpecsAssumption`, `RunsAssumption`, `MakesAssumption` (gate and metrics): what a suite's tests are, bounds
  are naturals;
- `FamiliesAssumption`: the stress families are the three of `FAMILY_LIMITS`; `ToolsAssumption`: the tool check looks for
  its five tools; `TestsAssumption`: a compiled test has a name no summary uses, there are at least two directed tests (`--smoke` takes the first two), the defective core runs one
  of the directed, and the lanes that share a recipe share no test;
- `TracesAssumption`: an interrupt's row, the trampoline's jump and a trapping `ebreak` write no register and no
  memory, a row that stores names some lane and is no load's (`rv32_core.sv:468`, `:535`, `:610`, `:795`), and
  Spike logs what a store writes;
- `ImagesAssumption`: an image holds instructions the decoder can give (`RvfiChecker!WellFormed`). Stores,
  branches, `mret`, `ecall` and `ebreak` have no destination. A trap CSR is written and not moved to a register, because
  PCs are wider than the model's two-bit registers: a limit of the model, not of the code.

Three kinds of theorem assume more: the four on the data path `NoFaults`, that the channel raises none, and
`ReadsInTime`, that a flit has no fewer beats than words (17 and 4 in the code); the gate's own
in `Evidence_proofs` that `PARALLEL = FALSE` (make without -j); and the two on retention
`HoldCoversWaits`, that a power state is held for at least one edge and at least as long as either wait. The code waits
1 cycle each and `formal_power` holds 3.

- **`DmaRings_proofs`** — lemmas on the rings: wrap-around stays in range, `RingsStep` preserves the
  types (in particular no count passes its depth or goes below zero although it drifts), a slot is
  written only by an accepted doorbell, and an accepted descriptor is one
  `ERR_ODD_LEN` and `ERR_RANGE` let through (`Legal`).
- **`DmaQueues_proofs`** — `TypeCorrect`, `RetireCorrect`, `CountsDriftOnlyByCollision`,
  `ActiveIsLegal`. `Legal` is the exact condition: a positive even length (whole AES blocks; a flit has two), and both
  ends in the memory, or so far behind it that the 9-bit sum wraps. The retire invariant is inductive with the types (`QueueInv`). `ActiveLegal` is not: because the
  count drifts from the pointers, slots that hold no queued descriptor can be reached. `LegalSlots` says
  that either *every* slot has been written with a legal descriptor, or all slots before the tail have
  and the queued ones, drift or not, end at or before the tail (the ring has not wrapped since reset). `LegalInv` is `QueueInv`, `LegalSlots` and `ActiveLegal`.
  `SpacedQueuesServe` is the refinement `SpacedSpec => OrderedService`: without collisions the counts stay the distance
  from head to tail (`Aligned`), so that a ring read from its head is a sequence which a doorbell or a
  record extends at the end and a launch or a pop shortens at the front (`PendingStep`, `DoneStep`), and each edge
  is one step of `DmaService`.
- **`DmaOffload_proofs`** — `OffloadTypeCorrect`, `EngineIsConsistent`, `IrqNotLost`, and
  `OffloadImplementsQueues`: the engine with its counters maps, by the retire registers, to the
  engine of `DmaQueues`; each engine action is a `Launch`, `Finish`, `Stall`, `Release` or `Hold`.
  That a finished descriptor ends with a record of `Outcome` needs `EngineConsistent` (the words counted are all
  of them exactly on success), which is why the invariant comes first. With it, what is proved of
  the queues holds of the block.
- **`PowerCtrl_proofs`** — `PowerTypeCorrect`, `ClampsCoverSwitches`, `ClampsBracketSwitches`,
  `RestoreIsPowered`, by `SequencerInv`: besides the types and `NoDeisolatedOffDomain` it says that
  switches and recorded target are always vectors the sequencer knows, that before a switch-off nothing
  stays unclamped that the *recorded* target opens, and that while a restore is awaited the target is
  what is switched on (`TargetInv`): the input itself has moved on by then and says nothing.
  `RetentionIsOrderly` and `RestorePrecedesDeisolation` are by `RetentionInv`: while all changes are held and leave or enter
  RUN, a sequence still under way works towards the power state sampled last (`SequenceIsHeld`), so the sequencer is idle
  when the next state is sampled, clamps and switches follow that state (`ClampsFollow`), and the monitor's flags
  say what the last low-power state was (`MonitorFollows`).
- **`LinkDie_proofs`** — `LinkTypeCorrect`, `ResendIsOfLastFlit`, `TrainingNeverTimesOut`,
  `ReplayComesFirst`, by `DieInv`: types, `ResendIsLast`, `NeverDegraded`, and that while the
  link trains link_fsm's timer and the edges already settled together cover the settling time
  (`TrainsInTime`), which is where `SettleAssumption` is needed.

- **`Loopback_proofs`** — the whole way there and back, for every length, every size of flits, blocks
  and queue, and every delay. A way is a stream of words (`Plain` or `Encrypted`) and one
  place in it for each end and each stage of the lanes; what the packetizer, transmitter, lanes,
  receiver and depacketizer hold is the stretch of the stream between the places at their two ends (`Path`).
  One lemma for each end and one for the lanes move the places by an edge
  (`GathersOn`, `FeedsOn`, `CarriesOn`, `GetsOn`, `GivesOn`), and `PathOn` puts them together, once for both directions.
  `Inv` joins the two ways with die B's block builder, engine and queue between them (`Along`), says that nothing
  is ever sent again and that the links come up on the same edge (`Calm`), and that die A is done with a flit before
  the next one's last beat (`KeepsUp`, by the edge of silence behind each flit).
  - `NoBeatLostWithRoom` and `InOrderWithRoom`: for every length, in behaviours in which die B keeps
    room (`KeepsRoom`: its receiver is free when a beat comes, and a block that is done fits its queue). The
    hypothesis cannot be dropped, nothing on the link enforces it, and `loopback_burst` shows it fail. The run
    `loopback` stays within it.
  - `ShortLosesNoBeat` and `ShortReturnsInOrder`: without it, for descriptors of fewer than three flits that fit the
    queue (`ShortEnough`): the first flit is read in the silence behind it, and nothing comes behind the second,
    however slow the engine is. From three flits on the answer depends on the engine's speed against the lanes'.
  - `BurstLosesNoBeat` and `BurstReturnsInOrder`: with the code's sizes of flits, blocks, engine and queue
    (`CodeSizes`), for every descriptor of at most 27 words (`BurstEnough`), any spacing of the words and any delays of
    PHYs and channel. `loopback_burst` shows that 28 words are too many, so the bound is exact. The argument is one
    of timing. `Work` counts the edges that die B's engine still needs for the words it has been given; every edge takes one
    away (`WorkOn`), a flit adds 22 (`WorkOfFlit`), and its last 19 have no word left in the depacketizer
    (`WorkLeft`), which needs that a block is gathered as soon as the one before is started (`Keen`). A flit takes 18 edges
    to come. `OnTime` therefore bounds the work by the words and the beats that have come, `EdgeOnTime` shows that an
    edge keeps it, and `OnTimeHasRoom` reads off that the receiver is free for each beat of the first six flits.
    TLC finds the bound met with equality in the burst without gaps, so no smaller one is an invariant.
- **`RvfiChecker_proofs`** — three arguments about the checker beside the core.
  *`ReplayFollowsCore`* by `CheckerInv`: while the trace is unaltered and the checker silent, its state and
  the core's agree (`Synced`), and so does its expected order. One lemma for each kind of row (instruction, trap, interrupt,
  reset); the property itself speaks of the moments after a row, and is not inductive across a
  reset, which the invariant covers by the epoch. Here the checker's silence does the work.
  *`FalseAlarmsKnown`* is the converse, that a sound core's rows raise no complaint but the three of
  `FalseAlarms`, and therefore needs what a sound row shows (`AnyRow`, `InterruptRow`, `TrapRow`,
  `InstructionRow`), and that the checker's truncated division of magnitudes is the one characterised by quotient
  and remainder (`DivisionIs`, `ResultIsDivision`). `SoundInv` adds to `Synced` the types of both states.
  *`AlterationsCaught`* by `AlterInv`: before an alteration `SoundInv` holds; the altered row is complained about on
  the spot, kind by kind; a dropped row leaves the checker one order behind, which no row but the next
  of that epoch can mend, and that one is refused (`Missed`). `RvfiTyped`: types, from `SoundInv`.
- **`Evidence_proofs`** — the closure gate, the external oracles, the stress matrix, the firmware lane and
  the metrics, and that what is proved of a part holds of the composition.
  - *Composition.* Each part's steps are that part's steps or stutter (`PartSteps`), so that a behaviour of
    `EvidenceSpec` is one of each part's specification (`PartsBehave`), and each part's theorem carries over by temporal logic
    alone. `CheckerFollowsCore`, `AlterationsNoticed` and `AlarmsKnown` cite the module
    above in that way.
  - *External oracles.* `GreenRecipeIsRequired` by `RequiredInv`: a recipe that has not
    turned red has only reports whose exit code was 0, and a report of `act_mutant` that skips holds
    nothing else, so that a skip cannot hide behind a detection. `MatrixReadsFreshReports` by `OrderInv`: in
    what is left of any recipe the five oracles come before the matrix, unless this recipe has run them.
    `GreenOraclesRequired` states both of the composition. `AcceptedCoreDidTheSame`, and `AcceptedCoresBehaved` of the
    composition, are by induction over the core's trace: row by row, the registers and memory it leaves are those Spike's log
    leaves after as many commits (`ReplayedAlike`), because a row that is no commit changes nothing (`QuietRow`)
    and a commit that `compare_commit` lets pass changes both sides alike (`CommitReplaysAlike`, where the lanes
    compared and the width a store's data is cut to enter). The totals `Committed`, `Replayed` and `ReplayedLog` are
    recursive functions; that they are what their recursion says (`CommittedIs`, `ReplayedIs`, `ReplayedLogIs`) and the
    induction itself go by the *set* of positions at which a fact holds (`InductionOnSet`, from the library's well-founded
    order on `Nat`), for which no operator has to be instantiated. `OraclesTyped` by `OraclesInv`: each report holds
    rows its command can write (`IsReport`, one lemma per command), and never none.
  - *Gate.* `CheckedLaneMet`: for every list of tests, a lane that passes its check is one whose tests
    all gave, in that invocation, the verdict they should. The check looks at the bug tests only, so the
    invariant `GateInv` has to carry the rest from the simulations to the exit code: at most one
    lane is at work (`OneAtATime`, where `PARALLEL = FALSE` enters), the manifest and then the summary
    are this lane's own from the step that writes them (`ManifestOwn`, `SummaryOwn`) and have a row for
    every run (`RowsComplete`), and exit code 0 means that the summary's rows are all met (`ExitIsMet`).
    With make -j `OneAtATime` fails, and with it the theorem's property.
    `ReportsOfOneInvocationAgree` and `OldCoverageOfBugTestsOnly` extend it to the generators by `ReportInv`: each
    report holds what the summary at hand said when it was written, and a log with a verdict is from
    a simulation that also wrote its coverage. `LanesRefineInvocation` maps each lane to `Invocation`: starting the
    suite and its exit are the promise's, the parser publishes the summary, and all else, the other lanes included, stutters.
    Because the manifest parsed is the lane's own, what is published is this invocation's.
  - *Stress.* `GeneratedManifestsSound` by `StressInv`: a chosen row is one the generator draws, family by family within
    the limits the checker applies, and the descriptors programmed are those of the row, which
    puts the second a fixed distance after the first and both below the end of the scratchpad.
  - *Metrics.* `GreenPublicationStands` by `PubInv`. A recipe is a sequence of commands, and each
    writes some files and vouches for some (`Writes`, `Vouches`, `Effect`). What a command vouches for `Stands` once
    it has succeeded, and stays so while no later command of the recipe writes those files. That every recipe is
    in such an order (`Orderly`) is a fact about the Makefile alone, proved by evaluating each; that the recipe stops at the
    first failure makes a green one have all its commands behind it. `PublishedStands` reads off the result.
  - *Firmware lane.* `GreenFirmwareStands` by `LaneInv`: the same argument, with the traces and coverage files
    of single tests. `DoneSo` says what each command done in this recipe left, `RowsSo` that the rows being judged
    are of the command at work, `LaneStands` that what a done command reported still rests on the files it names, and
    `LaneOrderly` that no command still to come overwrites them but the mutation check, whose
    one trace the property exempts. `TestsAssumption` enters here: with a test in two lanes it fails.
  - *Types.* `EvidenceTyped` joins the parts'; the gate's own is `GateTyped`.

**Model-checked only**: the liveness properties (`Terminates`, `Serves`, `Reaches`, `Recovers`, `Replays`, `Returns`: fairness
and ENABLED are out of the prover's reach). Of `Loopback` without faults, sizes other than the code's are proved beyond two
flits only where die B keeps room.

## Findings

1. `dma_accounting` — a doorbell accepted on the edge of a launch is not counted: the
   descriptor is stranded behind the tail (`dma_offload_ctrl.sv:946`, `:1174`), against
   `CHIPLET_ASSERT_DMA_ACCEPTED_ACCOUNTING`. `DriftOnlyByCollision` says this is the only way
   `submit_count_q` drifts.
2. `dma_front` — a pop on the edge of a retirement leaves a phantom record, and later a push
   overwrites the record at the front (`:807`, `:336`), against
   `p_completion_front_stable_until_pop`.
3. `power_restore` — a wake through CRYPTO_ONLY de-isolates the DMA domain with no restore
   (`chiplet_power_ctrl.sv:79`), against `p_restore_before_deiso`, whose stimulus never wakes there.
4. `loopback_burst` — credits come from the die's own receiver (`soc_die_a_top.sv:184`), against
   `ucie_rx.sv:2` "returns credits to the sender": 28 words without gaps overrun die B.
5. `loopback_fault` — a flit whose CRC fails is streamed on as data
   (`flit_depacketizer.sv:79`), against `p_crc_failed_packet_not_committed`.

## Observed divergences

Met while modelling the scripts, and recorded here rather than as runs:

- A make that runs both lanes side by side (`make -j`) shares one manifest between them
  (`run_regression.py:433`): with `PARALLEL = TRUE`, `LanesKeepTheContract` is violated. Suites without
  a prefix also overwrite each other's `regress_summary.csv` (`:452`); the order of `project-check` decides what
  the metrics count, and `PublishedStands` holds for that order.
- The stress matrix counts whatever summary lies at the child's prefix: a child that died leaves an
  earlier one's (`run_random_stress_matrix.py:314`). `Collect` models it; no property of the code survives it.
- `run_solver_formal.py:68` returns 0 when `sby` is missing and leaves the old report where it is;
  `run_rv32_formal.py`, with `--require`, does not.
- `rv32-isa-check` (`Makefile:305`) makes `firmware-c-check` first, which does not write the report
  it then judges: that is the last `firmware-c-closure`'s. `GreenStands` speaks of the recipes' own reports.
- The first run of the compiled-firmware mutation check has no suffix and replaces the nominal trace
  (`run_compiled_firmware.py:1094`), which summaries still name. The sentence "Mutation artifacts use distinct
  paths" (`docs/reference/rv32_external_validation.md:48`) holds of the external lane it stands
  under. The self-test on altered rows then works on a trace that mismatches already, so that
  whether it notices the alteration does not show; `AlterationCaught` asks it of sound traces.
- `rv32_iss.py:193` takes an interrupt's cause from the level of the external line alone, and `mip`
  from lines printed a cycle after the core looked: a sound core can be called wrong in two of the three cases
  `FalseAlarms` names.
- `rv32_iss.py:238` tells the cause of a jump's or branch's trap from the target alone. For an encoding that
  is no instruction and whose target would be misaligned it expects cause 0; the core takes cause 2 with the
  instruction in `mtval` (`rv32_core.sv:626`, `:642`, `:907`). The third case of `FalseAlarms`.
- The self-test picks rows by their masks (`run_compiled_firmware.py:787`, `:790`), and the trap row of an
  access that ends with `pslverr` has them (`rv32_core.sv:533`). The trap branch of the checker
  (`rv32_iss.py:218`) reads neither masks nor data, so such an alteration goes unnoticed:
  one of the four exceptions of `AlterationCaught`. The others are the last row of an epoch dropped, a device's word changed
  in a lane no register takes, and the value read from a counter or from `mip`.
- The range check sums base and length in 9 bits (`dma_offload_ctrl.sv:623`): base 200 and length 400 pass. `ActiveLegal` says so;
  where such a transfer goes belongs to `DmaMemory`.
- `compare_commit` (`run_external_iss.py:138`) does not compare whether an access was a load or a store: a load's row that
  names its lanes as written would pass. `rv32_core.sv` cannot show one, which `TracesAssumption` says.
- `rv32_iss.py:370` replays a store from the row and does not compare address and data with the
  registers: a wrong store shows at the next load or not at all. The core modelled is sound, so no property
  speaks of it.
- `compiled_firmware_scenarios` after `project-check` is counted from an older `firmware-c-closure`.

## Abstractions

- AES is an injective function of its block; its timing is exact.
- CRC aliasing (one corrupt pattern in 256) is left out: a gathered flit that is not whole fails.
- The channel's LFSR is replaced by nondeterministic faults, at most `MaxFaults` of them; the PHY's
  own bit errors have probability 0 by default and are left out.
- Memory words are not modelled; the engine counts them.
- In the scripts a file is what its readers tell apart: a status, a set of bins hit, a run it
  belongs to. Wording, Markdown, JSON, timestamps and paths are left out; a path is the name of a variable.
- The trace checker's word has two bytes of one bit: enough for byte lanes, signs, division by
  zero and overflow (-2 / -1). Instructions are classes with register numbers; opcodes are not decoded.
  Its memory map has words and devices, no external memory (whose narrow accesses trap), and `wfi` and `fence` are left out.
- What a compiled test covers is a constant of the test.

## Not modelled, and why

- The RV32 core's RTL and `base_soc`: instructions are data checked by the trace checker, which is
  modelled beside an abstract core; `base_soc` is kept there for history.
- The DMA golden model: it computes expected memories from a descriptor list in one pass.
- Characterisation, inventory and code-coverage scripts, dashboards, waveform renderers, installers and
  tool wrappers: one pass over their input and no state another script decides by.
- In modelled scripts: image building, performance summaries, code coverage (`partly`).
- UPF is declarative.
- In the RTL, the memories, crossings, bridges, timer, legacy source and the engine on the link
  are next in the plan. Hazards they leave without a model: retention on a direct
  wake only (`dma_offload_ctrl.sv:639`), a maintenance write accepted before the launch (`:840`), a word marking a whole bank
  valid (`:900`), returns of one descriptor taken for the next (`:938`, `:966`);
  each die resending its own last flit, and two dies holding each other down with `crc_error`
  (`retry_ctrl.sv:31`); the mux switching between sources with flits under way
  (`soc_die_a_top.sv:151`); Gray pointers (`async_fifo_gray.sv:34`), pulses closer than the crossing
  (`cdc_pulse_sync.sv:22`), a read completing while a write holds the address
  (`axi_lite_csr_bridge.sv:94`).

## Plan

1. **`DmaMemory`**: banks, validity, parity, maintenance port, retention across direct and indirect
   wakes (`dma_offload_ctrl.sv:639`, `:840`, `:900`).
2. **`DmaLoopback`**: `DmaOffload` at die A's end of `Loopback`, with faults: late answers counted
   for the next descriptor, lengths that are not whole flits, the stream mux and the legacy source;
   against a specification of each word once.
3. **`AsyncFifo`**, **`PulseSync`**: two clocks, Gray pointers, sampled bits that may be old or new;
   the FIFO refines a bounded queue. Conservative full and empty are worth proving for every depth.
4. **`ApbBridge`**, **`AxiLiteBridge`**: each transfer answered once; a read that completes while a
   write holds the address (`axi_lite_csr_bridge.sv:94`).
5. **`WakeTimer`**: timer, feeder and wake guard.
6. **Scripts**: wrong store addresses and data as alterations in `RvfiChecker`; code coverage in the firmware lane.
7. **Proofs**: `KeepsRoom` for longer descriptors, when the engine is faster than the lanes: the time a flit
   spends at die B against the time it takes to arrive, which the places of `Path` do not measure. The async FIFO's invariant.
