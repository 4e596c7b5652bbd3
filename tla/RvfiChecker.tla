---------------------------- MODULE RvfiChecker ----------------------------
(***************************************************************************)
(* rv32_iss.py: the checker that replays the core's retirement trace, row  *)
(* by row, here in step with a core that retires as it should.  One row of *)
(* the trace may be altered on the way, as the checker's own test does.    *)
(***************************************************************************)
EXTENDS Lanes, FiniteSets

CONSTANTS
  PROGRAMS,  \* the images: functions from PC to instruction
  MAX_ROWS,  \* bound: retirements
  RESETS     \* bound: resets

VARIABLES
  program,  \* the image, and the instruction manifest
  core,     \* pc, regs, memory and csrs of the core
  order,    \* of the next retirement
  epoch,    \* resets so far
  rows,     \* retirements so far
  iss,      \* the checker
  altered   \* the alteration made, the row it was made to, and whether the
            \* trace has a later row of that epoch

vars == <<program, core, order, epoch, rows, iss, altered>>

Register == 0 .. 2

SRAM == 0 .. 3

MMIO == 4 .. 5

\* The CSRs each row shows.
Snapshot == {"mstatus", "mie", "mtvec", "mscratch", "mepc", "mcause", "mtval"}

TrapState == {"mepc", "mcause", "mtval"}

Csrs == Snapshot \cup {"mip", "mcycle"}

\* PCs count halfwords: an odd one has bit 1 of its byte address set.
Handler == 12

External == 22

Timer == 21

ResetState ==
  [pc |-> 0, regs |-> [r \in Register |-> 0], memory |-> [w \in {0, 2} |-> 0],
   csrs |-> [c \in Csrs |-> 0]]

\* A bad_jalr and a bad_branch have the opcode of a jump and of a branch, and a
\* funct3 no instruction has.
Op ==
  {"addi", "div", "rem", "jal", "jalr", "beq", "mret", "lw", "lb", "sw", "sb", "csrrw", "ecall",
   "ebreak", "bad_jalr", "bad_branch", "illegal"}

\* An instruction as the decoder gives it: stores, branches and what only
\* returns or traps have no destination.  The "imm" of a jump or branch from its
\* own PC is the target.  A trap CSR holds PCs, which are wider here than a
\* register: it can only be written.
WellFormed(insn) ==
  /\ insn \in [op : Op, rd : Register, rs1 : Register, rs2 : Register, imm : Int, csr : Csrs]
  /\ \/ insn.op \in {"sw", "sb", "beq", "bad_branch", "mret", "ecall", "ebreak"}
     \/ insn.csr \in TrapState
     => insn.rd = 0

ProgramsWellFormed == \A image \in PROGRAMS : \A pc \in DOMAIN image : WellFormed(image[pc])

\* mstatus is MPIE MIE, mie is MEIE MTIE, mip is MEIP MTIP.
Low(word) == word % 2

High(word) == word \div 2

Pair(high, low) == (IF high THEN 2 ELSE 0) + (IF low THEN 1 ELSE 0)

\* CSRs when a trap or an interrupt is taken, and after mret.
Entered(csrs, pc, cause, mtval) ==
  [csrs EXCEPT !.mepc = pc, !.mcause = cause, !.mtval = mtval, !.mstatus = 2 * Low(@)]

Returned(csrs) == [csrs EXCEPT !.mstatus = 2 + High(@)]

\* Direct, or vectored by the cause.
Vector(mtvec, cause) == IF mtvec = 1 THEN Handler + 2 * (cause - 20) ELSE Handler

\* Two of the four modes of mtvec are not there, and mepc is a multiple of four bytes.
Legal(csr, value) ==
  CASE csr = "mtvec" -> IF value = 1 THEN 1 ELSE 0
    [] csr = "mepc" -> value - (value % 2)
    [] OTHER -> value

IsLoad(insn) == insn.op \in {"lw", "lb"}

IsStore(insn) == insn.op \in {"sw", "sb"}

Wide(insn) == insn.op \in {"lw", "sw"}

IsJump(insn) == insn.op \in {"jal", "jalr"}

HasTarget(insn) == IsJump(insn) \/ insn.op \in {"beq", "bad_jalr", "bad_branch"}

\* Where a jump or a branch goes, from the value of its register.
Target(insn, a) == IF insn.op \in {"jalr", "bad_jalr"} THEN a + insn.imm ELSE insn.imm

Taken(insn, a, b) == IsJump(insn) \/ (insn.op = "beq" /\ a = b)

Misaligned(target) == target % 2 = 1

\* What a jump leaves in its register, which is narrower than a PC.
Link(pc) == (pc + 2) % 4

\* The instruction word, as mtval shows it: it is no target, which is even.
Encoding(insn) == 100 + insn.imm

NoTrap == -1

\* What a load leaves in its register.
Loaded(insn, addr, word) ==
  IF Wide(insn) THEN word ELSE 3 * Byte(word, addr % 2)

Signed(word) == IF word > 1 THEN word - 4 ELSE word

Magnitude(n) == IF n < 0 THEN -n ELSE n

-----------------------------------------------------------------------------
(* The core.                                                               *)

\* Quotient and remainder, by what characterises them.
Division(lhs, rhs) ==
  LET z == -3 .. 3
  IN IF rhs = 0 THEN <<3, lhs>>
     ELSE CHOOSE result \in Word \X Word :
            \E q \in z, r \in z :
              /\ Signed(lhs) = q * Signed(rhs) + r
              /\ Magnitude(r) < Magnitude(Signed(rhs)) /\ r * Signed(lhs) >= 0
              /\ result = <<q % 4, r % 4>>

Address(insn) == core.regs[insn.rs1] + insn.imm

\* The cause of the trap an instruction takes, or that it completes.
Cause(insn, fault) ==
  LET a == core.regs[insn.rs1]
      addr == Address(insn)
      bad == addr \notin SRAM \cup MMIO \/ (fault /\ addr \in MMIO)
      misaligned == Wide(insn) /\ addr % 2 = 1
  IN CASE insn.op = "ecall" -> 11
       [] insn.op = "ebreak" -> 3
       [] insn.op \in {"illegal", "bad_jalr", "bad_branch"} -> 2
       [] Taken(insn, a, core.regs[insn.rs2]) /\ Misaligned(Target(insn, a)) -> 0
       [] IsLoad(insn) -> IF misaligned THEN 4 ELSE IF bad THEN 5 ELSE NoTrap
       [] IsStore(insn) -> IF misaligned THEN 6
                           ELSE IF addr \in MMIO /\ ~Wide(insn) THEN 2
                           ELSE IF bad THEN 7 ELSE NoTrap
       [] OTHER -> NoTrap

\* Interrupts are taken between instructions, before the next one.
Enabled(ext, timer) ==
  /\ Low(core.csrs.mstatus) = 1
  /\ (ext /\ High(core.csrs.mie) = 1) \/ (timer /\ Low(core.csrs.mie) = 1)

Row(insn, next) ==
  [order |-> order, epoch |-> epoch, insn |-> insn, pc |-> core.pc, next |-> next,
   trap |-> FALSE, intr |-> FALSE, rs1 |-> core.regs[insn.rs1], rs2 |-> core.regs[insn.rs2],
   rd |-> 0, value |-> 0, addr |-> 0, rmask |-> {}, wmask |-> {}, rdata |-> 0, wdata |-> 0,
   csrs |-> core.csrs, ext |-> FALSE, timer |-> FALSE]

\* A row shows the trap CSRs as they are after the entry, the others as before.
Entry(row, csrs) ==
  [row |-> [row EXCEPT !.csrs = [csrs EXCEPT !.mstatus = core.csrs.mstatus]],
   after |-> [core EXCEPT !.pc = row.next, !.csrs = csrs]]

\* The interrupt instruction of the reset image: add 0 to x0.
Nop == [op |-> "addi", rd |-> 0, rs1 |-> 0, rs2 |-> 0, imm |-> 0, csr |-> "mscratch"]

Interrupted(cause) ==
  Entry([Row(Nop, Vector(core.csrs.mtvec, cause)) EXCEPT !.intr = TRUE],
        Entered(core.csrs, core.pc, cause, 0))

\* What a row shows of an access: "word" is what was read, which a device gives
\* on a store as well.
Accessed(row, insn, word) ==
  LET addr == Address(insn)
      mask == Mask(Wide(insn), addr)
  IN IF IsLoad(insn) THEN [row EXCEPT !.addr = addr, !.rmask = mask, !.rdata = word]
     ELSE [row EXCEPT !.addr = addr, !.wmask = mask, !.wdata = core.regs[insn.rs2],
             !.rdata = IF addr \in MMIO THEN word ELSE 0]

\* An access that a device answered, with an error.
Faulted(insn, cause) == cause \in {5, 7} /\ Address(insn) \in MMIO

\* The row of an access a device refused shows it like any other.
Trapped(insn, cause, read) ==
  LET addr == IF IsLoad(insn) \/ IsStore(insn) THEN Address(insn) ELSE 0
      mtval == CASE cause = 0 -> Target(insn, core.regs[insn.rs1])
                 [] cause = 2 -> Encoding(insn)
                 [] cause \in 4 .. 7 -> addr
                 [] OTHER -> 0
      shown == [Row(insn, Handler) EXCEPT !.trap = TRUE, !.addr = addr]
  IN Entry(IF Faulted(insn, cause) THEN Accessed(shown, insn, read) ELSE shown,
           Entered(core.csrs, core.pc, cause, mtval))

\* An instruction that completes; "read" is what a device or a counter gives.
Completed(insn, read, levels) ==
  LET a == core.regs[insn.rs1]
      b == core.regs[insn.rs2]
      addr == Address(insn)
      word == IF addr \in MMIO THEN read ELSE core.memory[WordOf(addr)]
      old == CASE insn.csr = "mip" -> levels [] insn.csr = "mcycle" -> read [] OTHER -> core.csrs[insn.csr]
      next == CASE Taken(insn, a, b) -> Target(insn, a)
                [] insn.op = "mret" -> core.csrs.mepc
                [] OTHER -> core.pc + 2
      value == CASE insn.op = "addi" -> (a + insn.imm) % 4
                 [] insn.op = "div" -> Division(a, b)[1]
                 [] insn.op = "rem" -> Division(a, b)[2]
                 [] IsJump(insn) -> Link(core.pc)
                 [] IsLoad(insn) -> Loaded(insn, addr, word)
                 [] insn.op = "csrrw" -> old
                 [] OTHER -> 0
      shown == [Row(insn, next) EXCEPT !.rd = insn.rd, !.value = IF insn.rd = 0 THEN 0 ELSE value]
  IN [row |-> IF IsLoad(insn) \/ IsStore(insn) THEN Accessed(shown, insn, word) ELSE shown,
      after |->
        [pc |-> next,
         regs |-> IF insn.rd = 0 THEN core.regs ELSE [core.regs EXCEPT ![insn.rd] = value],
         memory |-> IF IsStore(insn) /\ addr \in SRAM
                    THEN [core.memory EXCEPT ![WordOf(addr)] = Merge(@, addr, Mask(Wide(insn), addr), b)] ELSE core.memory,
         csrs |-> CASE insn.op = "mret" -> Returned(core.csrs)
                    [] insn.op = "csrrw" /\ insn.csr \in Snapshot ->
                         [core.csrs EXCEPT ![insn.csr] = Legal(insn.csr, a)]
                    [] OTHER -> core.csrs]]

-----------------------------------------------------------------------------
(* The checker.                                                            *)

\* Mutant of Rv32mResult: the quotient is rounded down.
Rv32mFloor(op, lhs, rhs) ==
  LET a == Signed(lhs)
      b == Signed(rhs)
      magnitude == Magnitude(a) \div Magnitude(b)
      exact == magnitude * Magnitude(b) = Magnitude(a)
      quotient == IF (a < 0) # (b < 0) THEN -magnitude - (IF exact THEN 0 ELSE 1) ELSE magnitude
  IN CASE rhs = 0 -> IF op = "div" THEN 3 ELSE lhs
       [] rhs # 0 /\ lhs = 2 /\ rhs = 3 -> IF op = "div" THEN 2 ELSE 0
       [] OTHER -> (IF op = "div" THEN quotient ELSE a - quotient * b) % 4

\* rv32m_result: truncated division of magnitudes, and two special cases.
Rv32mResult(op, lhs, rhs) ==
  LET a == Signed(lhs)
      b == Signed(rhs)
      magnitude == Magnitude(a) \div Magnitude(b)
      quotient == IF (a < 0) # (b < 0) THEN -magnitude ELSE magnitude
  IN CASE rhs = 0 -> IF op = "div" THEN 3 ELSE lhs
       [] rhs # 0 /\ lhs = 2 /\ rhs = 3 -> IF op = "div" THEN 2 ELSE 0
       [] OTHER -> (IF op = "div" THEN quotient ELSE a - quotient * b) % 4

\* Mutant of Restarted: the memory outlives a reset.
RestartedWithMemory(c, row) ==
  IF c.previous # <<>> /\ (row.epoch # c.previous[2] \/ row.order < c.previous[1])
  THEN [c EXCEPT !.pc = 0, !.regs = ResetState.regs, !.csrs = ResetState.csrs, !.order = 0]
  ELSE c

\* reset_epoch: on a new epoch, or an order that goes back.
Restarted(c, row) ==
  IF c.previous # <<>> /\ (row.epoch # c.previous[2] \/ row.order < c.previous[1])
  THEN [c EXCEPT !.pc = 0, !.regs = ResetState.regs, !.memory = ResetState.memory,
          !.csrs = ResetState.csrs, !.order = 0]
  ELSE c

\* Mutant of HeadComplaints: the order of the rows is not checked.
HeadComplaintsButOrder(c, row) ==
  {k \in {"pc", "instruction", "csr", "operands"} :
     CASE k = "pc" -> row.pc # c.pc
       [] k = "instruction" -> ~row.intr /\ (row.pc \notin DOMAIN program \/ row.insn # program[row.pc])
       [] k = "csr" -> \E csr \in Snapshot \ (IF row.trap \/ row.intr THEN TrapState ELSE {}) :
                         row.csrs[csr] # c.csrs[csr]
       [] k = "operands" -> row.rs1 # c.regs[row.insn.rs1] \/ row.rs2 # c.regs[row.insn.rs2]}

\* What is checked of every row; an interrupt's is not in the manifest, and
\* the trap CSRs of an entry are looked at later.
HeadComplaints(c, row) ==
  {k \in {"order", "pc", "instruction", "csr", "operands"} :
     CASE k = "order" -> row.order # c.order
       [] k = "pc" -> row.pc # c.pc
       [] k = "instruction" -> ~row.intr /\ (row.pc \notin DOMAIN program \/ row.insn # program[row.pc])
       [] k = "csr" -> \E csr \in Snapshot \ (IF row.trap \/ row.intr THEN TrapState ELSE {}) :
                         row.csrs[csr] # c.csrs[csr]
       [] k = "operands" -> row.rs1 # c.regs[row.insn.rs1] \/ row.rs2 # c.regs[row.insn.rs2]}

\* The level of the external line in the row decides the cause it expects.
CheckInterrupt(c, row) ==
  LET cause == IF row.ext THEN External ELSE Timer
  IN [bad |-> {k \in {"target", "source", "cause", "entry"} :
                 CASE k = "target" -> row.next # Vector(row.csrs.mtvec, cause)
                   [] k = "source" -> ~row.ext /\ ~row.timer
                   [] k = "cause" -> row.csrs.mcause # cause
                   [] k = "entry" -> row.csrs.mepc # row.pc \/ row.csrs.mtval # 0},
      after |-> [c EXCEPT !.csrs = Entered(@, row.pc, cause, 0), !.pc = row.next]]

\* The cause of a jump or a branch is told from its target alone, whether it is
\* taken and an instruction at all or not.
CheckTrap(c, row) ==
  LET insn == row.insn
      target == Target(insn, c.regs[insn.rs1])
      misaligned == Wide(insn) /\ row.addr % 2 = 1
      cause == CASE insn.op = "ecall" -> 11
                 [] insn.op = "ebreak" -> 3
                 [] HasTarget(insn) -> IF Misaligned(target) THEN 0 ELSE 2
                 [] IsLoad(insn) -> IF misaligned THEN 4 ELSE 5
                 [] IsStore(insn) -> IF misaligned THEN 6
                                     ELSE IF row.addr \in MMIO /\ ~Wide(insn) THEN 2 ELSE 7
                 [] OTHER -> 2
      mtval == CASE cause = 0 -> target
                 [] cause = 2 -> Encoding(insn)
                 [] cause \in 4 .. 7 -> row.addr
                 [] OTHER -> 0
  IN [bad |-> {k \in {"target", "destination", "cause", "entry"} :
                 CASE k = "target" -> row.next # Handler
                   [] k = "destination" -> row.rd # 0 \/ row.value # 0
                   [] k = "cause" -> row.csrs.mcause # cause
                   [] k = "entry" -> row.csrs.mepc # row.pc \/ row.csrs.mtval # mtval},
      after |-> [c EXCEPT !.csrs = Entered(@, row.pc, cause, mtval), !.pc = row.next]]

\* A store is replayed from the row, and mip and the counters are what the
\* row says they are.
CheckInstruction(c, row) ==
  LET insn == row.insn
      a == c.regs[insn.rs1]
      b == c.regs[insn.rs2]
      memory == IsLoad(insn) /\ row.addr \in SRAM
      word == IF memory THEN c.memory[WordOf(row.addr)] ELSE row.rdata
      csrs == CASE insn.op = "csrrw" /\ insn.csr = "mip" -> [c.csrs EXCEPT !.mip = Pair(row.ext, row.timer)]
                [] insn.op = "csrrw" /\ insn.csr = "mcycle" -> [c.csrs EXCEPT !.mcycle = row.value]
                [] OTHER -> c.csrs
      next == CASE Taken(insn, a, b) -> Target(insn, a)
                [] insn.op = "mret" -> c.csrs.mepc
                [] OTHER -> row.pc + 2
      rd == IF IsStore(insn) \/ insn.op \in {"beq", "mret", "ebreak", "ecall", "bad_jalr", "bad_branch"}
            THEN 0 ELSE insn.rd
      value == IF rd = 0 THEN 0
               ELSE CASE insn.op = "addi" -> (a + insn.imm) % 4
                      [] insn.op \in {"div", "rem"} -> Rv32mResult(insn.op, a, b)
                      [] IsJump(insn) -> Link(row.pc)
                      [] IsLoad(insn) -> Loaded(insn, row.addr, word)
                      [] OTHER -> csrs[insn.csr]
      stored == IF IsStore(insn) /\ row.addr \in SRAM
                THEN [c.memory EXCEPT ![WordOf(row.addr)] = Merge(@, row.addr, row.wmask, row.wdata)]
                ELSE c.memory
  IN [bad |-> {k \in {"mask", "source", "legal", "next", "destination"} :
                 CASE k = "mask" -> \/ IsLoad(insn) /\ row.rmask # Mask(Wide(insn), row.addr)
                                    \/ IsStore(insn) /\ row.wmask # Mask(Wide(insn), row.addr)
                   [] k = "source" -> memory /\ row.rdata # word
                   [] k = "legal" -> \/ insn.op \in {"ecall", "illegal", "bad_jalr", "bad_branch"}
                                     \/ IsLoad(insn) /\ row.rmask = {}
                                     \/ IsStore(insn) /\ row.wmask = {}
                   [] k = "next" -> row.next # next
                   [] k = "destination" -> row.rd # rd \/ (row.rd # 0 /\ row.value # value)},
      after |->
        [c EXCEPT !.pc = next,
           !.regs = IF row.rd = 0 THEN @ ELSE [@ EXCEPT ![row.rd] = row.value],
           !.memory = stored,
           !.csrs = CASE insn.op = "mret" -> Returned(csrs)
                      [] insn.op = "csrrw" /\ insn.csr \in Snapshot -> [csrs EXCEPT ![insn.csr] = Legal(insn.csr, a)]
                      [] OTHER -> csrs]]

\* check_row.
CheckRow(checker, row) ==
  LET c == Restarted(checker, row)
      body == IF row.intr THEN CheckInterrupt(c, row)
              ELSE IF row.trap THEN CheckTrap(c, row)
              ELSE CheckInstruction(c, row)
  IN [body.after EXCEPT !.order = row.order + 1,
        !.previous = <<row.order, row.epoch>>,
        !.mismatches = @ \cup HeadComplaints(c, row) \cup body.bad]

-----------------------------------------------------------------------------
(* trace_mutation_results.                                                 *)

Alteration ==
  {"NEXT_PC", "RD_VALUE", "MEMORY_MASK", "MCAUSE", "INSTRUCTION", "MEMORY_DATA",
   "CSR_SNAPSHOT", "RESET_EPOCH", "DUPLICATE", "DROPPED"}

\* The rows an alteration is made to.
Selects(kind, row) ==
  CASE kind \in {"NEXT_PC", "CSR_SNAPSHOT"} -> ~row.trap /\ ~row.intr
    [] kind = "RD_VALUE" -> row.rd # 0
    [] kind = "MEMORY_MASK" -> row.rmask \cup row.wmask # {}
    [] kind = "MCAUSE" -> row.trap
    [] kind = "INSTRUCTION" -> ~row.intr
    [] kind = "MEMORY_DATA" -> row.rmask # {}
    [] kind = "RESET_EPOCH" -> row.order > 2
    [] OTHER -> TRUE

Flipped(word) == IF word % 2 = 1 THEN word - 1 ELSE word + 1

Changed(kind, row) ==
  CASE kind = "NEXT_PC" -> [row EXCEPT !.next = IF @ % 4 < 2 THEN @ + 2 ELSE @ - 2]
    [] kind = "RD_VALUE" -> [row EXCEPT !.value = Flipped(@)]
    [] kind = "MEMORY_MASK" -> IF row.rmask # {} THEN [row EXCEPT !.rmask = {}] ELSE [row EXCEPT !.wmask = {}]
    [] kind = "MCAUSE" -> [row EXCEPT !.csrs.mcause = 1]
    [] kind = "INSTRUCTION" -> [row EXCEPT !.insn.imm = @ + 1]
    [] kind = "MEMORY_DATA" -> [row EXCEPT !.rdata = Flipped(@)]
    [] kind = "CSR_SNAPSHOT" -> [row EXCEPT !.csrs.mstatus = 7]
    [] kind = "RESET_EPOCH" -> [row EXCEPT !.epoch = @ + 1]
    [] OTHER -> row

None == [kind |-> "none", row |-> <<>>, followed |-> FALSE]

\* The row reaches the checker as it is, altered, twice or not at all.
Traced(row) ==
  \/ /\ iss' = CheckRow(iss, row)
     /\ altered' = [altered EXCEPT !.followed =
          altered.kind # "none" /\ (@ \/ row.epoch = altered.row.epoch)]
  \/ /\ altered.kind = "none"
     /\ \E kind \in Alteration :
          /\ Selects(kind, row)
          /\ altered' = [kind |-> kind, row |-> row, followed |-> FALSE]
          /\ iss' = CASE kind = "DROPPED" -> iss
                      [] kind = "DUPLICATE" -> CheckRow(CheckRow(iss, row), row)
                      [] OTHER -> CheckRow(iss, Changed(kind, row))

-----------------------------------------------------------------------------
\* The first mismatch decides the verdict: nothing is followed after it.
Goes == rows < MAX_ROWS /\ iss.mismatches = {}

Retires(step) ==
  /\ core' = step.after
  /\ order' = order + 1
  /\ rows' = rows + 1
  /\ Traced(step.row)
  /\ UNCHANGED <<program, epoch>>

\* The bench prints a row, with the interrupt lines, a cycle after the core
\* looked at them: a line may have come up in between.
Later(level) == {level, TRUE}

TakeInterrupt ==
  /\ Goes
  /\ \E ext, timer \in BOOLEAN :
       /\ Enabled(ext, timer)
       /\ \E ext_shown \in Later(ext), timer_shown \in Later(timer) :
            LET step == Interrupted(IF ext /\ High(core.csrs.mie) = 1 THEN External ELSE Timer)
            IN Retires([step EXCEPT !.row.ext = ext_shown, !.row.timer = timer_shown])

TakeTrap ==
  /\ Goes /\ core.pc \in DOMAIN program
  /\ \E fault \in BOOLEAN, read \in Word :
       LET insn == program[core.pc]
       IN Cause(insn, fault) # NoTrap /\ Retires(Trapped(insn, Cause(insn, fault), read))

\* The lines matter to an instruction that reads mip.
Execute ==
  /\ Goes /\ core.pc \in DOMAIN program
  /\ LET insn == program[core.pc]
     IN /\ Cause(insn, FALSE) = NoTrap
        /\ \E read \in Word, ext, timer \in IF insn.csr = "mip" THEN BOOLEAN ELSE {FALSE} :
             /\ ~Enabled(ext, timer)
             /\ \E ext_shown \in Later(ext), timer_shown \in Later(timer) :
                  LET step == Completed(insn, read, Pair(ext, timer))
                  IN Retires([step EXCEPT !.row.ext = ext_shown, !.row.timer = timer_shown])

Reset ==
  /\ Goes /\ epoch < RESETS
  /\ core' = ResetState
  /\ order' = 0
  /\ epoch' = epoch + 1
  /\ UNCHANGED <<program, rows, iss, altered>>

Init ==
  /\ program \in PROGRAMS
  /\ core = ResetState
  /\ order = 0
  /\ epoch = 0
  /\ rows = 0
  /\ iss = [pc |-> 0, regs |-> ResetState.regs, memory |-> ResetState.memory, csrs |-> ResetState.csrs,
            order |-> 0, previous |-> <<>>, mismatches |-> {}]
  /\ altered = None

Next == TakeInterrupt \/ TakeTrap \/ Execute \/ Reset

Spec == Init /\ [][Next]_vars

-----------------------------------------------------------------------------
TypeOK ==
  /\ core.regs \in [Register -> Word] /\ iss.regs \in [Register -> Word]
  /\ core.memory \in [{0, 2} -> Word] /\ iss.memory \in [{0, 2} -> Word]
  /\ core.csrs.mstatus \in Word /\ core.csrs.mie \in Word
  /\ rows \in 0 .. MAX_ROWS /\ epoch \in 0 .. RESETS
  /\ altered.kind \in Alteration \cup {"none"}

\* A core that does what the architecture says is called wrong in three places
\* only: a timer interrupt in whose row the external line is up, although mie
\* masked it or it came up a cycle late, a read of mip whose line moved, and
\* the trap of a jump or branch that is no instruction, when the target it would
\* have is misaligned.
FalseAlarms ==
  [][altered'.kind = "none" /\ iss'.mismatches # {} =>
       LET insn == program[core.pc]
       IN \/ "cause" \in iss'.mismatches /\ core'.csrs.mcause = Timer /\ core'.csrs.mepc = core.pc
          \/ iss'.mismatches = {"destination"} /\ insn.op = "csrrw" /\ insn.csr = "mip"
          \/ /\ iss'.mismatches = {"cause", "entry"} /\ insn.op \in {"bad_jalr", "bad_branch"}
             /\ core'.csrs.mcause = 2 /\ Misaligned(Target(insn, core.regs[insn.rs1]))]_vars

\* Every alteration of the checker's own test is noticed, wherever in the
\* trace it is made, but for four that cannot be: the last row of an epoch
\* dropped, what the trap of an access a device refused shows of the access, a
\* device word whose changed lane no register takes, and the value read from a
\* counter or from mip.
AlterationCaught ==
  altered.kind # "none" =>
    \/ iss.mismatches # {}
    \/ altered.kind = "DROPPED" /\ ~altered.followed
    \/ altered.kind \in {"MEMORY_MASK", "MEMORY_DATA"} /\ altered.row.trap
    \/ /\ altered.kind = "MEMORY_DATA" /\ altered.row.addr \in MMIO
       /\ altered.row.rd = 0 \/ 0 \notin altered.row.rmask
    \/ /\ altered.kind = "RD_VALUE" /\ altered.row.insn.op = "csrrw"
       /\ altered.row.insn.csr \in {"mcycle", "mip"}

\* A trace without a complaint was replayed to the state the core is in.
FollowsCore ==
  iss.mismatches = {} /\ altered.kind = "none" /\ iss.order = order /\ order > 0 =>
    /\ iss.pc = core.pc /\ iss.regs = core.regs /\ iss.memory = core.memory
    /\ \A c \in Snapshot : iss.csrs[c] = core.csrs[c]
=============================================================================
