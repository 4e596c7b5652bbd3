----------------------------- MODULE MCEvidence -----------------------------
(* The evidence scripts, small.                                              *)
EXTENDS Evidence, SequencesExt

-----------------------------------------------------------------------------
(* The closure gate: one power test that must pass, one bug test, and one    *)
(* test of another suite.                                                    *)

CONSTANTS b1, b2, p1

MCSpecs ==
  << [suites |-> {"power"}, default_enabled |-> FALSE, expected_status |-> "PASS",
      soc |-> TRUE, power_named |-> TRUE, hits |-> {b1}, power_hits |-> {p1}],
     [suites |-> {"stress"}, default_enabled |-> TRUE, expected_status |-> "PASS",
      soc |-> FALSE, power_named |-> FALSE, hits |-> {b1, b2}, power_hits |-> {}],
     [suites |-> {"stable"}, default_enabled |-> TRUE, expected_status |-> "FAIL",
      soc |-> FALSE, power_named |-> FALSE, hits |-> {b2}, power_hits |-> {}] >>

-----------------------------------------------------------------------------
(* The random stress matrix.                                                 *)

MCFamilies == <<"random_smoke_25", "stress_retry_50", "power_dma_cross_25">>

-----------------------------------------------------------------------------
(* The external oracles: a program of four instructions, and a core that     *)
(* retires it as it should or with one row changed, lost, repeated or added. *)

MCTool == {"spike", "act", "sail", "formal", "sby"}

\* Everything pinned, or one tool of another version or missing.
MCTools ==
  {[t \in MCTool |-> IF t = u THEN state ELSE "pinned"] :
     u \in MCTool, state \in {"pinned", "other", "missing"}}

MCCommit(pc, insn, reg, addr, data, mask) ==
  [pc |-> pc, insn |-> insn, reg |-> reg, addr |-> addr, data |-> data, mask |-> mask]

MCSpikeLog ==
  << MCCommit(1, "addi", <<1, 1>>, <<>>, <<>>, {}),
     MCCommit(2, "mul", <<2, 3>>, <<>>, <<>>, {}),
     MCCommit(3, "sb", <<>>, <<1>>, <<1>>, {}),
     MCCommit(4, "lw", <<3, 2>>, <<0>>, <<>>, {}) >>

MCRow(pc, insn, rd, value, addr, store, data, mask) ==
  [pc |-> pc, insn |-> insn, intr |-> FALSE, rd |-> rd, value |-> value, addr |-> addr,
   store |-> store, data |-> data, mask |-> mask]

MCGood ==
  << MCRow(0, "addi", 0, 0, 0, FALSE, 0, {}),
     MCRow(1, "addi", 1, 1, 0, FALSE, 0, {}),
     MCRow(2, "mul", 2, 3, 0, FALSE, 0, {}),
     MCRow(3, "sb", 0, 0, 1, TRUE, 3, {1}),
     MCRow(4, "lw", 3, 2, 0, FALSE, 0, {0, 1}),
     [MCRow(5, "addi", 0, 0, 0, FALSE, 0, {}) EXCEPT !.intr = TRUE] >>

MCOther(row) ==
  {[row EXCEPT !.pc = 6], [row EXCEPT !.insn = "addi"], [row EXCEPT !.rd = 3],
   [row EXCEPT !.value = 0], [row EXCEPT !.addr = 2], [row EXCEPT !.data = 0],
   [row EXCEPT !.mask = {0}], [row EXCEPT !.mask = {0, 1}]}

MCTraces ==
  {<<>>, MCGood}
  \cup UNION {{ReplaceAt(MCGood, i, row) : row \in MCOther(MCGood[i])} : i \in 2 .. 5}
  \cup {RemoveAt(MCGood, i) : i \in 1 .. 6}
  \cup {InsertAt(MCGood, i + 1, MCGood[i]) : i \in 1 .. 5}
  \cup {MCGood \o [i \in 1 .. n |-> MCRow(5, "sw", 0, 0, 2, TRUE, 1, {0, 1})] : n \in 1 .. 2}

-----------------------------------------------------------------------------
(* The checker of the retirement trace.                                      *)

MCInsn(op, rd, rs1, rs2, imm) ==
  [op |-> op, rd |-> rd, rs1 |-> rs1, rs2 |-> rs2, imm |-> imm, csr |-> "mscratch"]

MCCsrrw(rd, csr, rs1) ==
  [op |-> "csrrw", rd |-> rd, rs1 |-> rs1, rs2 |-> 0, imm |-> 0, csr |-> csr]

\* The handlers of a direct mtvec, of a vectored timer interrupt and of a
\* vectored external one.
MCWithHandlers(body) ==
  [pc \in {2 * i : i \in 0 .. Len(body) - 1} |-> body[pc \div 2 + 1]]
    @@ (12 :> MCInsn("mret", 0, 0, 0, 0)) @@ (14 :> MCInsn("mret", 0, 0, 0, 0))
    @@ (16 :> MCCsrrw(1, "mip", 0))

MCImages ==
  { MCWithHandlers(<<MCInsn("addi", 1, 0, 0, 3), MCInsn("sb", 0, 0, 1, 1), MCInsn("lb", 2, 0, 0, 1),
                     MCInsn("lw", 1, 0, 0, 0), MCInsn("lw", 2, 2, 0, 0), MCInsn("ecall", 0, 0, 0, 0)>>),
    MCWithHandlers(<<MCInsn("lw", 1, 0, 0, 4), MCInsn("lw", 2, 0, 0, 4), MCInsn("div", 1, 1, 2, 0),
                     MCInsn("beq", 0, 1, 2, 6), MCInsn("rem", 2, 1, 2, 0), MCInsn("lb", 2, 0, 0, 5)>>),
    MCWithHandlers(<<MCInsn("lw", 1, 0, 0, 4), MCCsrrw(0, "mie", 1), MCCsrrw(0, "mtvec", 1),
                     MCCsrrw(2, "mstatus", 1), MCCsrrw(1, "mip", 0), MCCsrrw(2, "mcycle", 0)>>),
    MCWithHandlers(<<MCInsn("lw", 0, 0, 0, 4), MCCsrrw(1, "mcycle", 0), MCInsn("sw", 0, 1, 1, 2),
                     MCInsn("lw", 2, 1, 0, 2), MCInsn("sb", 0, 1, 1, 3), MCInsn("illegal", 0, 0, 0, 1)>>),
    MCWithHandlers(<<MCInsn("lw", 1, 0, 0, 4), MCInsn("jalr", 2, 1, 0, 4), MCInsn("jal", 1, 0, 0, 10),
                     MCInsn("beq", 0, 1, 2, 9), MCInsn("beq", 0, 2, 0, 9), MCInsn("ebreak", 0, 0, 0, 0)>>),
    MCWithHandlers(<<MCInsn("lw", 1, 0, 0, 4), MCInsn("beq", 0, 1, 0, 6), MCInsn("bad_jalr", 1, 1, 0, 4),
                     MCInsn("bad_branch", 0, 0, 0, 9)>>) }

-----------------------------------------------------------------------------
(* The compiled-firmware lane, one or two tests of each kind.                *)

MCDirected == <<"polling_dma", "apb_wait_trap">>
MCSeeded == <<"cpu_seed_00">>
MCVariants == <<"isa_matrix_O2">>
MCTimer == <<"wfi_timer_wake">>
MCPrivileged == <<"mret_state_restore">>
MCSoc == <<"dma_smoke">>

MCHits ==
  [polling_dma |-> {"rv32"}, apb_wait_trap |-> {"apb"}, cpu_seed_00 |-> {},
   isa_matrix_O2 |-> {"rv32", "apb"}, wfi_timer_wake |-> {"timer"},
   mret_state_restore |-> {"privileged"}, dma_smoke |-> {"soc"}]

MCRequired ==
  [smoke |-> {}, directed |-> {}, closure |-> {"rv32", "apb"}, isa |-> {"rv32"}, variants |-> {},
   timer |-> {}, timer_coverage |-> {"timer"}, privileged |-> {"privileged"}, soc |-> {"soc"},
   mutation |-> {}, rtl_mutation |-> {}, robustness |-> {"rv32", "apb"}]

-----------------------------------------------------------------------------
\* One installation and one image are enough where they do not matter.
MCInit ==
  /\ EvidenceInit
  /\ part # "oracles" => recipe = <<"iss">> /\ \A t \in MCTool : tools[t] = "pinned"
  /\ part # "rvfi" => 2 \in DOMAIN program /\ program[2].op = "sb"

MCSpec == MCInit /\ [][EvidenceNext]_evidenceVars
=============================================================================
