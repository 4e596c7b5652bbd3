------------------------- MODULE RvfiChecker_proofs -------------------------
(***************************************************************************)
(* A trace the checker does not complain of leaves its registers, memory   *)
(* and CSRs as the core's: for every program, every length of the trace    *)
(* and any number of resets.  Synced is the invariant: between two rows    *)
(* the checker holds the core's state, or it holds that of an earlier      *)
(* epoch and will start over at the next row.  What each row must carry    *)
(* for the replay to follow it is the complaint that would be made if it   *)
(* did not.                                                                *)
(*                                                                         *)
(* For well-formed images the converse holds too: what a row of a sound    *)
(* core shows (AnyRow, InterruptRow, TrapRow, InstructionRow) is what the  *)
(* checker works out, but for three known false alarms.  The checker of    *)
(* such a trace is in step (SoundInv), so a changed row is compared with   *)
(* what the row should be, and a dropped one leaves the checker an order   *)
(* behind until a later row of its epoch shows it (AlterInv).              *)
(***************************************************************************)
EXTENDS RvfiChecker, TLAPS

IsCsrs(csrs) == DOMAIN csrs = Csrs

SameCsrs(a, b) == \A c \in Snapshot : a[c] = b[c]

IsChecker(c) ==
  DOMAIN c = {"pc", "regs", "memory", "csrs", "order", "previous", "mismatches"}

\* What the checker and the core must agree on.
Agrees(c, state) ==
  /\ IsChecker(c) /\ IsCsrs(c.csrs)
  /\ c.pc = state.pc /\ c.regs = state.regs /\ c.memory = state.memory
  /\ SameCsrs(c.csrs, state.csrs)

IsCore(state) ==
  /\ DOMAIN state = {"pc", "regs", "memory", "csrs"}
  /\ IsCsrs(state.csrs)

Synced ==
  /\ IsCore(core) /\ order \in Nat /\ epoch \in Nat /\ IsChecker(iss)
  /\ IF order = 0
     THEN /\ core = ResetState
          /\ \/ iss.previous = <<>> /\ Agrees(iss, core)
             \/ iss.previous \in Nat \X Nat /\ iss.previous[2] < epoch
     ELSE iss.previous = <<order - 1, epoch>> /\ Agrees(iss, core)

Unaltered == altered.kind = "none"

CheckerInv ==
  /\ "kind" \in DOMAIN altered
  /\ Unaltered /\ iss.mismatches = {} => Synced

-----------------------------------------------------------------------------
(* CSRs.                                                                   *)

LEMMA EnteredSame ==
  ASSUME NEW a, NEW b, IsCsrs(a), IsCsrs(b), SameCsrs(a, b), NEW pc, NEW cause, NEW mtval
  PROVE  /\ SameCsrs(Entered(a, pc, cause, mtval), Entered(b, pc, cause, mtval))
         /\ IsCsrs(Entered(a, pc, cause, mtval))
         /\ Entered(a, pc, cause, mtval)["mepc"] = pc
         /\ Entered(a, pc, cause, mtval)["mcause"] = cause
         /\ Entered(a, pc, cause, mtval)["mtval"] = mtval
BY DEF IsCsrs, SameCsrs, Entered, Csrs, Snapshot

LEMMA ReturnedSame ==
  ASSUME NEW a, NEW b, IsCsrs(a), IsCsrs(b), SameCsrs(a, b)
  PROVE  SameCsrs(Returned(a), Returned(b)) /\ IsCsrs(Returned(a))
BY DEF IsCsrs, SameCsrs, Returned, Csrs, Snapshot

LEMMA WrittenSame ==
  ASSUME NEW a, NEW b, IsCsrs(a), IsCsrs(b), SameCsrs(a, b), NEW csr, NEW value
  PROVE  /\ SameCsrs([a EXCEPT ![csr] = value], [b EXCEPT ![csr] = value])
         /\ IsCsrs([a EXCEPT ![csr] = value])
BY DEF IsCsrs, SameCsrs, Csrs, Snapshot

LEMMA UnseenSame ==
  ASSUME NEW a, IsCsrs(a), NEW csr \in {"mip", "mcycle"}, NEW value
  PROVE  SameCsrs([a EXCEPT ![csr] = value], a) /\ IsCsrs([a EXCEPT ![csr] = value])
BY DEF IsCsrs, SameCsrs, Csrs, Snapshot

-----------------------------------------------------------------------------
(* The three ways to check a row.                                          *)

LEMMA InterruptChecked ==
  ASSUME NEW c, NEW row, CheckInterrupt(c, row).bad = {}
  PROVE  CheckInterrupt(c, row).after =
           [c EXCEPT !.csrs = Entered(c.csrs, row.pc, row.csrs.mcause, 0), !.pc = row.next]
<1>1. "cause" \notin CheckInterrupt(c, row).bad
  OBVIOUS
<1> QED BY <1>1 DEF CheckInterrupt

LEMMA TrapChecked ==
  ASSUME NEW c, NEW row, IsChecker(c), CheckTrap(c, row).bad = {}
  PROVE  CheckTrap(c, row).after =
           [c EXCEPT !.csrs = Entered(c.csrs, row.pc, row.csrs.mcause, row.csrs.mtval),
                     !.pc = row.next]
<1>1. "cause" \notin CheckTrap(c, row).bad /\ "entry" \notin CheckTrap(c, row).bad
  OBVIOUS
<1> QED BY <1>1 DEF CheckTrap, IsChecker

LEMMA InstructionChecked ==
  ASSUME NEW c, NEW row, IsChecker(c), CheckInstruction(c, row).bad = {}
  PROVE  LET after == CheckInstruction(c, row).after
         IN /\ IsChecker(after)
            /\ after.pc = row.next
            /\ after.regs = IF row.rd = 0 THEN c.regs ELSE [c.regs EXCEPT ![row.rd] = row.value]
            /\ after.memory =
                 IF IsStore(row.insn) /\ row.addr \in SRAM
                 THEN [c.memory EXCEPT ![WordOf(row.addr)] =
                         Merge(c.memory[WordOf(row.addr)], row.addr, row.wmask, row.wdata)]
                 ELSE c.memory
<1>1. "next" \notin CheckInstruction(c, row).bad
  OBVIOUS
<1>2. CheckInstruction(c, row).after.pc = row.next
  BY <1>1 DEF CheckInstruction, IsChecker
<1>3. IsChecker(CheckInstruction(c, row).after)
  BY DEF CheckInstruction, IsChecker
<1>4. CheckInstruction(c, row).after.regs =
        IF row.rd = 0 THEN c.regs ELSE [c.regs EXCEPT ![row.rd] = row.value]
  BY DEF CheckInstruction, IsChecker
<1>5. CheckInstruction(c, row).after.memory =
        IF IsStore(row.insn) /\ row.addr \in SRAM
        THEN [c.memory EXCEPT ![WordOf(row.addr)] =
                Merge(c.memory[WordOf(row.addr)], row.addr, row.wmask, row.wdata)]
        ELSE c.memory
  BY DEF CheckInstruction, IsChecker
<1> QED BY <1>2, <1>3, <1>4, <1>5

\* CSRs after an instruction, but for those the row itself is believed on.
CsrsAfter(insn, csrs, value) ==
  IF insn.op = "mret" THEN Returned(csrs)
  ELSE IF insn.op = "csrrw" /\ insn.csr \in Snapshot
       THEN [csrs EXCEPT ![insn.csr] = Legal(insn.csr, value)]
  ELSE csrs

LEMMA InstructionCsrs ==
  ASSUME NEW c, NEW row, IsChecker(c), IsCsrs(c.csrs),
         NEW csrs, IsCsrs(csrs), SameCsrs(c.csrs, csrs)
  PROVE  LET after == CheckInstruction(c, row).after.csrs
         IN /\ IsCsrs(after)
            /\ SameCsrs(after, CsrsAfter(row.insn, csrs, c.regs[row.insn.rs1]))
<1> DEFINE insn == row.insn
           value == c.regs[insn.rs1]
           seen == CASE insn.op = "csrrw" /\ insn.csr = "mip" ->
                          [c.csrs EXCEPT !["mip"] = Pair(row.ext, row.timer)]
                     [] insn.op = "csrrw" /\ insn.csr = "mcycle" ->
                          [c.csrs EXCEPT !["mcycle"] = row.value]
                     [] OTHER -> c.csrs
           after == CASE insn.op = "mret" -> Returned(seen)
                      [] insn.op = "csrrw" /\ insn.csr \in Snapshot ->
                           [seen EXCEPT ![insn.csr] = Legal(insn.csr, value)]
                      [] OTHER -> seen
<1>1. CheckInstruction(c, row).after.csrs = after
  BY DEF CheckInstruction, IsChecker
<1>2. IsCsrs(seen) /\ SameCsrs(seen, csrs)
  <2>1. CASE insn.op = "csrrw" /\ insn.csr = "mip"
    <3>1. seen = [c.csrs EXCEPT !["mip"] = Pair(row.ext, row.timer)]
      BY <2>1
    <3> HIDE DEF seen
    <3>2. IsCsrs(seen) /\ SameCsrs(seen, c.csrs)
      BY <3>1, UnseenSame
    <3> QED BY <3>2 DEF SameCsrs
  <2>2. CASE insn.op = "csrrw" /\ insn.csr = "mcycle"
    <3>1. seen = [c.csrs EXCEPT !["mcycle"] = row.value]
      BY <2>2
    <3> HIDE DEF seen
    <3>2. IsCsrs(seen) /\ SameCsrs(seen, c.csrs)
      BY <3>1, UnseenSame
    <3> QED BY <3>2 DEF SameCsrs
  <2>3. CASE ~(insn.op = "csrrw" /\ insn.csr \in {"mip", "mcycle"})
    BY <2>3
  <2> QED BY <2>1, <2>2, <2>3
<1>3. \/ insn.op = "mret" /\ after = Returned(seen)
      \/ /\ insn.op = "csrrw" /\ insn.csr \in Snapshot
         /\ after = [seen EXCEPT ![insn.csr] = Legal(insn.csr, value)]
      \/ /\ insn.op # "mret" /\ ~(insn.op = "csrrw" /\ insn.csr \in Snapshot)
         /\ after = seen
  OBVIOUS
<1> HIDE DEF after, seen
<1>4. IsCsrs(after) /\ SameCsrs(after, CsrsAfter(insn, csrs, value))
  <2>1. CASE insn.op = "mret"
    <3>1. after = Returned(seen) /\ CsrsAfter(insn, csrs, value) = Returned(csrs)
      BY <1>3, <2>1 DEF CsrsAfter
    <3> QED BY <1>2, <3>1, ReturnedSame
  <2>2. CASE insn.op = "csrrw" /\ insn.csr \in Snapshot
    <3> DEFINE new == Legal(insn.csr, value)
    <3>1. /\ after = [seen EXCEPT ![insn.csr] = new]
          /\ CsrsAfter(insn, csrs, value) = [csrs EXCEPT ![insn.csr] = new]
      BY <1>3, <2>2 DEF CsrsAfter
    <3> HIDE DEF new, insn
    <3> QED BY <1>2, <3>1 DEF IsCsrs, SameCsrs, Snapshot, Csrs
  <2>3. CASE insn.op # "mret" /\ ~(insn.op = "csrrw" /\ insn.csr \in Snapshot)
    BY <1>2, <1>3, <2>3 DEF CsrsAfter
  <2> QED BY <2>1, <2>2, <2>3
<1> QED BY <1>1, <1>4

-----------------------------------------------------------------------------
(* A row of any kind.                                                      *)

Body(c, row) ==
  IF row.intr THEN CheckInterrupt(c, row)
  ELSE IF row.trap THEN CheckTrap(c, row)
  ELSE CheckInstruction(c, row)

LEMMA RestartAgrees ==
  ASSUME Synced, NEW row, row.order = order, row.epoch = epoch
  PROVE  Agrees(Restarted(iss, row), core)
<1>1. CASE order = 0 /\ iss.previous = <<>>
  BY <1>1 DEF Synced, Restarted
<1>2. CASE order = 0 /\ iss.previous # <<>>
  <2>1. row.epoch # iss.previous[2] /\ core = ResetState
    BY <1>2 DEF Synced
  <2>2. Restarted(iss, row) =
          [iss EXCEPT !.pc = 0, !.regs = ResetState.regs, !.memory = ResetState.memory,
             !.csrs = ResetState.csrs, !.order = 0]
    BY <1>2, <2>1 DEF Restarted
  <2>3. IsChecker(Restarted(iss, row)) /\ Restarted(iss, row).pc = 0
        /\ Restarted(iss, row).regs = ResetState.regs
        /\ Restarted(iss, row).memory = ResetState.memory
        /\ Restarted(iss, row).csrs = ResetState.csrs
    BY <2>2 DEF Synced, IsChecker
  <2>4. ResetState.pc = 0 /\ IsCsrs(ResetState.csrs)
    BY DEF ResetState, IsCsrs
  <2> QED BY <2>1, <2>3, <2>4 DEF Agrees, SameCsrs
<1>3. CASE order # 0
  <2>1. iss.previous = <<order - 1, epoch>> /\ order \in Nat
    BY <1>3 DEF Synced
  <2>2. Restarted(iss, row) = iss
    BY <2>1 DEF Restarted
  <2> QED BY <1>3, <2>2 DEF Synced
<1> QED BY <1>1, <1>2, <1>3

\* If every way to check the row leaves the checker where the step leaves the
\* core, the invariant survives the step.
LEMMA RowFollowed ==
  ASSUME CheckerInv, Goes, NEW step, Retires(step),
         Unaltered => /\ step.row.order = order /\ step.row.epoch = epoch
                      /\ IsCore(step.after)
                      /\ \A c : Agrees(c, core) /\ Body(c, step.row).bad = {} =>
                                 Agrees(Body(c, step.row).after, step.after)
  PROVE  CheckerInv'
<1> DEFINE row == step.row
           c == Restarted(iss, row)
<1>1. /\ "kind" \in DOMAIN altered'
      /\ Unaltered' => Unaltered /\ iss' = CheckRow(iss, row)
  <2>1. CASE /\ iss' = CheckRow(iss, row)
             /\ altered' = [altered EXCEPT !.followed =
                  altered.kind # "none" /\ (@ \/ row.epoch = altered.row.epoch)]
    BY <2>1 DEF CheckerInv, Unaltered
  <2>2. CASE \E kind \in Alteration : altered' = [kind |-> kind, row |-> row, followed |-> FALSE]
    BY <2>2 DEF Unaltered, Alteration
  <2> QED BY <2>1, <2>2 DEF Retires, Traced
<1> SUFFICES ASSUME Unaltered', iss'.mismatches = {} PROVE Synced'
  BY <1>1 DEF CheckerInv
<1>2. Synced /\ iss' = CheckRow(iss, row) /\ Unaltered
  BY <1>1 DEF CheckerInv, Goes
<1>3. Agrees(c, core) /\ row.order = order /\ row.epoch = epoch
  BY <1>2, RestartAgrees
<1> HIDE DEF c
<1>4. iss' = [Body(c, row).after EXCEPT !.order = row.order + 1,
                !.previous = <<row.order, row.epoch>>,
                !.mismatches = @ \cup HeadComplaints(c, row) \cup Body(c, row).bad]
  BY <1>2 DEF CheckRow, Body, c
<1>5. CASE Body(c, row).bad = {}
  <2>1. Agrees(Body(c, row).after, step.after)
    BY <1>2, <1>3, <1>5
  <2>2. iss'.previous = <<order, epoch>> /\ Agrees(iss', step.after)
    BY <1>3, <1>4, <2>1 DEF Agrees, IsChecker
  <2>3. core' = step.after /\ order' = order + 1 /\ epoch' = epoch
    BY DEF Retires
  <2>4. order \in Nat /\ epoch \in Nat
    BY <1>2 DEF Synced
  <2>5. order' \in Nat /\ order' # 0 /\ order' - 1 = order
    BY <2>3, <2>4
  <2> QED BY <1>2, <2>2, <2>3, <2>4, <2>5 DEF Synced, Agrees
<1>6. CASE Body(c, row).bad # {}
  <2>1. IsChecker(Body(c, row).after)
    BY <1>3 DEF Body, Agrees, CheckInterrupt, CheckTrap, CheckInstruction, IsChecker
  <2>2. Body(c, row).bad \subseteq iss'.mismatches
    BY <1>4, <2>1 DEF IsChecker
  <2> QED BY <1>6, <2>2
<1> QED BY <1>5, <1>6

-----------------------------------------------------------------------------
(* The core's steps.                                                       *)

\* The core after a trap or an interrupt, the CSRs its row shows, and a checker
\* that does the same.
CoreEntered(after, cause, mtval, next) ==
  after = [core EXCEPT !.pc = next, !.csrs = Entered(core.csrs, core.pc, cause, mtval)]

ShownEntered(shown, cause, mtval) ==
  shown = [Entered(core.csrs, core.pc, cause, mtval) EXCEPT !.mstatus = core.csrs.mstatus]

CheckerEntered(after, c, cause, mtval, next) ==
  after = [c EXCEPT !.csrs = Entered(c.csrs, core.pc, cause, mtval), !.pc = next]

LEMMA EntryFollowed ==
  ASSUME IsCore(core), NEW cause, NEW mtval, NEW next, NEW after, NEW shown,
         CoreEntered(after, cause, mtval, next), ShownEntered(shown, cause, mtval)
  PROVE  /\ IsCore(after)
         /\ shown.mcause = cause /\ shown.mtval = mtval
         /\ \A c, d : Agrees(c, core) /\ CheckerEntered(d, c, cause, mtval, next) => Agrees(d, after)
<1> DEFINE entered == Entered(core.csrs, core.pc, cause, mtval)
<1>0. /\ after = [core EXCEPT !.pc = next, !.csrs = entered]
      /\ shown = [entered EXCEPT !.mstatus = core.csrs.mstatus]
  BY DEF CoreEntered, ShownEntered
<1>1. /\ IsCsrs(core.csrs) /\ IsCsrs(entered)
      /\ entered["mcause"] = cause /\ entered["mtval"] = mtval
  <2>1. IsCsrs(core.csrs) /\ SameCsrs(core.csrs, core.csrs)
    BY DEF IsCore, SameCsrs
  <2> QED BY <2>1, EnteredSame
<1> HIDE DEF entered
<1>2. IsCore(after) /\ after.pc = next /\ after.regs = core.regs /\ after.memory = core.memory
      /\ after.csrs = entered
  <2>1. IsCore(after)
    BY <1>0, <1>1 DEF IsCore
  <2> QED BY <1>0, <2>1 DEF IsCore
<1>3. shown.mcause = cause /\ shown.mtval = mtval
  BY <1>0, <1>1 DEF IsCsrs, Csrs, Snapshot
<1>4. ASSUME NEW c, NEW d, Agrees(c, core), CheckerEntered(d, c, cause, mtval, next)
      PROVE  Agrees(d, after)
  <2> DEFINE mine == Entered(c.csrs, core.pc, cause, mtval)
  <2>1. IsCsrs(mine) /\ SameCsrs(mine, entered)
    BY <1>1, <1>4, EnteredSame DEF Agrees, entered
  <2>2. d = [c EXCEPT !.csrs = mine, !.pc = next] /\ IsChecker(c)
    BY <1>4 DEF Agrees, CheckerEntered
  <2> HIDE DEF mine
  <2>3. IsChecker(d) /\ d.pc = next /\ d.regs = c.regs /\ d.memory = c.memory /\ d.csrs = mine
    BY <2>2 DEF IsChecker
  <2> QED BY <1>2, <1>4, <2>1, <2>3 DEF Agrees
<1> QED BY <1>2, <1>3, <1>4

LEMMA InterruptFollowed == CheckerInv /\ TakeInterrupt => CheckerInv'
<1> SUFFICES ASSUME CheckerInv, TakeInterrupt PROVE CheckerInv'
  OBVIOUS
<1>1. \E cause : \E ext, timer \in BOOLEAN :
        Retires([Interrupted(cause) EXCEPT !.row.ext = ext, !.row.timer = timer])
  <2>1. PICK e \in BOOLEAN, t \in BOOLEAN :
          \E ext \in Later(e), timer \in Later(t) :
            LET step == Interrupted(IF e /\ High(core.csrs.mie) = 1 THEN External ELSE Timer)
            IN Retires([step EXCEPT !.row.ext = ext, !.row.timer = timer])
    BY DEF TakeInterrupt
  <2>2. Later(e) \subseteq BOOLEAN /\ Later(t) \subseteq BOOLEAN
    BY DEF Later
  <2> DEFINE cause == IF e /\ High(core.csrs.mie) = 1 THEN External ELSE Timer
  <2>3. \E ext \in BOOLEAN, timer \in BOOLEAN :
          Retires([Interrupted(cause) EXCEPT !.row.ext = ext, !.row.timer = timer])
    BY <2>1, <2>2
  <2> HIDE DEF cause
  <2> QED BY <2>3
<1> PICK cause : \E ext, timer \in BOOLEAN :
      Retires([Interrupted(cause) EXCEPT !.row.ext = ext, !.row.timer = timer])
  BY <1>1
<1> PICK ext \in BOOLEAN, timer \in BOOLEAN :
      Retires([Interrupted(cause) EXCEPT !.row.ext = ext, !.row.timer = timer])
  OBVIOUS
<1> DEFINE next == Vector(core.csrs.mtvec, cause)
           entered == Entered(core.csrs, core.pc, cause, 0)
           step == [Interrupted(cause) EXCEPT !.row.ext = ext, !.row.timer = timer]
<1>2. /\ step.row.order = order /\ step.row.epoch = epoch /\ step.row.intr = TRUE
      /\ step.row.pc = core.pc /\ step.row.next = next
      /\ step.row.csrs = [entered EXCEPT !.mstatus = core.csrs.mstatus]
      /\ step.after = [core EXCEPT !.pc = next, !.csrs = entered]
  <2> DEFINE taken == Interrupted(cause)
  <2>1. /\ taken = [row |-> taken.row, after |-> taken.after]
        /\ taken.after = [core EXCEPT !.pc = next, !.csrs = entered]
        /\ taken.row = [Row(Nop, next) EXCEPT !.intr = TRUE,
                          !.csrs = [entered EXCEPT !.mstatus = core.csrs.mstatus]]
    BY DEF Interrupted, Entry, Row
  <2> HIDE DEF taken, entered, next
  <2>2. /\ step.after = taken.after
        /\ step.row = [taken.row EXCEPT !.ext = ext, !.timer = timer]
    BY <2>1 DEF taken
  <2> HIDE DEF step
  <2> QED BY <2>1, <2>2 DEF Row
<1> HIDE DEF step
<1>3. ASSUME Unaltered
      PROVE  /\ IsCore(step.after)
             /\ \A c : Agrees(c, core) /\ Body(c, step.row).bad = {} =>
                       Agrees(Body(c, step.row).after, step.after)
  <2>1. IsCore(core)
    BY <1>3 DEF CheckerInv, Synced, TakeInterrupt, Goes
  <2>2. CoreEntered(step.after, cause, 0, next) /\ ShownEntered(step.row.csrs, cause, 0)
    BY <1>2 DEF CoreEntered, ShownEntered
  <2>3. /\ IsCore(step.after)
        /\ step.row.csrs.mcause = cause
        /\ \A c, d : Agrees(c, core) /\ CheckerEntered(d, c, cause, 0, next) =>
                       Agrees(d, step.after)
    BY <2>1, <2>2, EntryFollowed
  <2>4. ASSUME NEW c, Agrees(c, core), Body(c, step.row).bad = {}
        PROVE  Agrees(Body(c, step.row).after, step.after)
    <3>1. Body(c, step.row) = CheckInterrupt(c, step.row) /\ IsChecker(c)
      BY <1>2, <2>4 DEF Body, Agrees
    <3>2. CheckerEntered(Body(c, step.row).after, c, cause, 0, next)
      <4>1. CheckInterrupt(c, step.row).bad = {}
        BY <2>4, <3>1
      <4>2. Body(c, step.row).after =
              [c EXCEPT !.csrs = Entered(c.csrs, step.row.pc, step.row.csrs.mcause,
                                         0), !.pc = step.row.next]
        BY <3>1, <4>1, InterruptChecked
      <4> QED BY <1>2, <2>3, <4>2 DEF CheckerEntered
    <3> QED BY <2>3, <2>4, <3>2
  <2> QED BY <2>3, <2>4
<1>4. Goes /\ Retires(step)
  BY DEF TakeInterrupt, step
<1> QED BY <1>2, <1>3, <1>4, RowFollowed

RowFields ==
  {"order", "epoch", "insn", "pc", "next", "trap", "intr", "rs1", "rs2", "rd", "value", "addr",
   "rmask", "wmask", "rdata", "wdata", "csrs", "ext", "timer"}

\* What a trap leaves in mtval.
TrapValue(insn, cause) ==
  CASE cause = 0 -> Target(insn, core.regs[insn.rs1])
    [] cause = 2 -> Encoding(insn)
    [] cause \in 4 .. 7 -> IF IsLoad(insn) \/ IsStore(insn) THEN Address(insn) ELSE 0
    [] OTHER -> 0

\* Whatever the row of a trap shows of an access, the rest is an entry's.
TrappedSo(step, insn, cause) ==
  LET entered == Entered(core.csrs, core.pc, cause, TrapValue(insn, cause))
  IN /\ DOMAIN step.row = RowFields
     /\ step.row.order = order /\ step.row.epoch = epoch /\ step.row.intr = FALSE /\ step.row.trap = TRUE
     /\ step.row.pc = core.pc /\ step.row.next = Handler
     /\ step.row.insn = insn /\ step.row.rs1 = core.regs[insn.rs1] /\ step.row.rs2 = core.regs[insn.rs2]
     /\ step.row.rd = 0 /\ step.row.value = 0 /\ step.row.wdata \in {0, core.regs[insn.rs2]}
     /\ (cause \in {5, 7} => IsLoad(insn) \/ IsStore(insn)) =>
          step.row.addr = IF IsLoad(insn) \/ IsStore(insn) THEN Address(insn) ELSE 0
     /\ step.row.csrs = [entered EXCEPT !.mstatus = core.csrs.mstatus]
     /\ step.after = [core EXCEPT !.pc = Handler, !.csrs = entered]

LEMMA TrappedShows ==
  ASSUME NEW insn, NEW cause, NEW read
  PROVE  TrappedSo(Trapped(insn, cause, read), insn, cause)
<1> DEFINE addr == IF IsLoad(insn) \/ IsStore(insn) THEN Address(insn) ELSE 0
           entered == Entered(core.csrs, core.pc, cause, TrapValue(insn, cause))
           shown == [Row(insn, Handler) EXCEPT !.trap = TRUE, !.addr = addr]
           row == IF Faulted(insn, cause) THEN Accessed(shown, insn, read) ELSE shown
           step == Trapped(insn, cause, read)
<1>1. /\ DOMAIN shown = RowFields
      /\ shown.order = order /\ shown.epoch = epoch /\ shown.intr = FALSE /\ shown.trap = TRUE
      /\ shown.pc = core.pc /\ shown.next = Handler
      /\ shown.insn = insn /\ shown.rs1 = core.regs[insn.rs1] /\ shown.rs2 = core.regs[insn.rs2]
      /\ shown.rd = 0 /\ shown.value = 0 /\ shown.wdata = 0 /\ shown.addr = addr
  <2> HIDE DEF addr
  <2> QED BY DEF Row, RowFields
<1>2. step = Entry(row, entered)
  BY DEF Trapped, TrapValue
<1> HIDE DEF shown, entered
<1>3. /\ DOMAIN row = RowFields
      /\ \A f \in RowFields \ {"addr", "rmask", "wmask", "rdata", "wdata"} : row[f] = shown[f]
      /\ row.wdata \in {0, core.regs[insn.rs2]}
      /\ (cause \in {5, 7} => IsLoad(insn) \/ IsStore(insn)) => row.addr = addr
  <2>1. CASE Faulted(insn, cause) /\ IsLoad(insn)
    BY <1>1, <2>1 DEF Accessed, RowFields
  <2>2. CASE Faulted(insn, cause) /\ ~IsLoad(insn)
    BY <1>1, <2>2 DEF Accessed, RowFields, Faulted
  <2>3. CASE ~Faulted(insn, cause)
    BY <1>1, <2>3
  <2> QED BY <2>1, <2>2, <2>3
<1> HIDE DEF row, step
<1>4. /\ step.row = [row EXCEPT !.csrs = [entered EXCEPT !.mstatus = core.csrs.mstatus]]
      /\ step.after = [core EXCEPT !.pc = row.next, !.csrs = entered]
  BY <1>2 DEF Entry
<1>5. /\ row.order = order /\ row.epoch = epoch /\ row.intr = FALSE /\ row.trap = TRUE
      /\ row.pc = core.pc /\ row.next = Handler
      /\ row.insn = insn /\ row.rs1 = core.regs[insn.rs1] /\ row.rs2 = core.regs[insn.rs2]
      /\ row.rd = 0 /\ row.value = 0
  BY <1>1, <1>3 DEF RowFields
<1>6. /\ DOMAIN step.row = RowFields
      /\ \A f \in RowFields \ {"csrs"} : step.row[f] = row[f]
      /\ step.row.csrs = [entered EXCEPT !.mstatus = core.csrs.mstatus]
  BY <1>3, <1>4 DEF RowFields
<1>7. /\ step.row.order = order /\ step.row.epoch = epoch /\ step.row.intr = FALSE /\ step.row.trap = TRUE
      /\ step.row.pc = core.pc /\ step.row.next = Handler
      /\ step.row.insn = insn /\ step.row.rs1 = core.regs[insn.rs1] /\ step.row.rs2 = core.regs[insn.rs2]
      /\ step.row.rd = 0 /\ step.row.value = 0
      /\ step.row.wdata = row.wdata /\ step.row.addr = row.addr
  BY <1>5, <1>6 DEF RowFields
<1> HIDE DEF addr
<1> QED BY <1>3, <1>4, <1>5, <1>6, <1>7 DEF TrappedSo, entered, addr, step

LEMMA TrapFollowed == CheckerInv /\ TakeTrap => CheckerInv'
<1> SUFFICES ASSUME CheckerInv, TakeTrap PROVE CheckerInv'
  OBVIOUS
<1>1. PICK insn, cause, read : Retires(Trapped(insn, cause, read))
  BY DEF TakeTrap
<1> DEFINE mtval == TrapValue(insn, cause)
           entered == Entered(core.csrs, core.pc, cause, mtval)
           step == Trapped(insn, cause, read)
<1>2. /\ step.row.order = order /\ step.row.epoch = epoch
      /\ step.row.intr = FALSE /\ step.row.trap = TRUE
      /\ step.row.pc = core.pc /\ step.row.next = Handler
      /\ step.row.csrs = [entered EXCEPT !.mstatus = core.csrs.mstatus]
      /\ step.after = [core EXCEPT !.pc = Handler, !.csrs = entered]
  <2>1. TrappedSo(step, insn, cause)
    BY TrappedShows
  <2> HIDE DEF step
  <2> QED BY <2>1 DEF TrappedSo
<1> HIDE DEF mtval
<1> HIDE DEF step
<1>3. ASSUME Unaltered
      PROVE  /\ IsCore(step.after)
             /\ \A c : Agrees(c, core) /\ Body(c, step.row).bad = {} =>
                       Agrees(Body(c, step.row).after, step.after)
  <2>1. IsCore(core)
    BY <1>3 DEF CheckerInv, Synced, TakeTrap, Goes
  <2>2. CoreEntered(step.after, cause, mtval, Handler) /\ ShownEntered(step.row.csrs, cause, mtval)
    BY <1>2 DEF CoreEntered, ShownEntered
  <2>3. /\ IsCore(step.after)
        /\ step.row.csrs.mcause = cause /\ step.row.csrs.mtval = mtval
        /\ \A c, d : Agrees(c, core) /\ CheckerEntered(d, c, cause, mtval, Handler) =>
                       Agrees(d, step.after)
    BY <2>1, <2>2, EntryFollowed
  <2>4. ASSUME NEW c, Agrees(c, core), Body(c, step.row).bad = {}
        PROVE  Agrees(Body(c, step.row).after, step.after)
    <3>1. Body(c, step.row) = CheckTrap(c, step.row) /\ IsChecker(c)
      BY <1>2, <2>4 DEF Body, Agrees
    <3>2. CheckerEntered(Body(c, step.row).after, c, cause, mtval, Handler)
      <4>1. CheckTrap(c, step.row).bad = {}
        BY <2>4, <3>1
      <4>2. Body(c, step.row).after =
              [c EXCEPT !.csrs = Entered(c.csrs, step.row.pc, step.row.csrs.mcause,
                                         step.row.csrs.mtval), !.pc = step.row.next]
        BY <3>1, <4>1, TrapChecked
      <4> QED BY <1>2, <2>3, <4>2 DEF CheckerEntered
    <3> QED BY <2>3, <2>4, <3>2
  <2> QED BY <2>3, <2>4
<1>4. Goes /\ Retires(step)
  BY <1>1 DEF TakeTrap, step
<1> QED BY <1>2, <1>3, <1>4, RowFollowed

\* The next PC.
NextOf(insn, regs, csrs, pc) ==
  IF Taken(insn, regs[insn.rs1], regs[insn.rs2]) THEN Target(insn, regs[insn.rs1])
  ELSE IF insn.op = "mret" THEN csrs["mepc"] ELSE pc + 2

\* The word an instruction reads, and what it leaves in its register.
WordRead(insn, read) ==
  IF Address(insn) \in MMIO THEN read ELSE core.memory[WordOf(Address(insn))]

Result(insn, read, levels) ==
  LET a == core.regs[insn.rs1]
      b == core.regs[insn.rs2]
  IN IF insn.op = "addi" THEN (a + insn.imm) % 4
     ELSE IF insn.op = "div" THEN Division(a, b)[1]
     ELSE IF insn.op = "rem" THEN Division(a, b)[2]
     ELSE IF IsJump(insn) THEN Link(core.pc)
     ELSE IF IsLoad(insn) THEN Loaded(insn, Address(insn), WordRead(insn, read))
     ELSE IF insn.op = "csrrw"
          THEN IF insn.csr = "mip" THEN levels ELSE IF insn.csr = "mcycle" THEN read ELSE core.csrs[insn.csr]
     ELSE 0

\* What an instruction that completes shows, and the core it leaves.
CompletedAs(done, insn, read, levels) ==
  LET row == done.row
      after == done.after
      next == NextOf(insn, core.regs, core.csrs, core.pc)
      addr == Address(insn)
      mask == Mask(Wide(insn), addr)
      b == core.regs[insn.rs2]
  IN /\ DOMAIN done = {"row", "after"} /\ DOMAIN row = RowFields
     /\ row.order = order /\ row.epoch = epoch /\ row.intr = FALSE /\ row.trap = FALSE
     /\ row.pc = core.pc /\ row.insn = insn /\ row.rs1 = core.regs[insn.rs1] /\ row.rs2 = b
     /\ row.rd = insn.rd /\ row.csrs = core.csrs /\ row.next = next
     /\ row.value = IF insn.rd = 0 THEN 0 ELSE Result(insn, read, levels)
     /\ IF IsLoad(insn)
        THEN /\ row.addr = addr /\ row.rmask = mask /\ row.wmask = {}
             /\ row.rdata = WordRead(insn, read) /\ row.wdata = 0
        ELSE IF IsStore(insn) THEN row.addr = addr /\ row.rmask = {} /\ row.wmask = mask /\ row.wdata = b
        ELSE row.addr = 0 /\ row.rmask = {} /\ row.wmask = {} /\ row.wdata = 0
     /\ DOMAIN after = {"pc", "regs", "memory", "csrs"} /\ after.pc = next
     /\ after.regs = IF insn.rd = 0 THEN core.regs
                     ELSE [core.regs EXCEPT ![insn.rd] = Result(insn, read, levels)]
     /\ after.memory = IF IsStore(insn) /\ addr \in SRAM
                       THEN [core.memory EXCEPT ![WordOf(addr)] = Merge(core.memory[WordOf(addr)], addr, mask, b)]
                       ELSE core.memory
     /\ after.csrs = CsrsAfter(insn, core.csrs, core.regs[insn.rs1])

LEMMA CompletedIs ==
  ASSUME NEW insn, NEW read, NEW levels
  PROVE  CompletedAs(Completed(insn, read, levels), insn, read, levels)
<1> DEFINE a == core.regs[insn.rs1]
           b == core.regs[insn.rs2]
           addr == Address(insn)
           mask == Mask(Wide(insn), addr)
           word == IF addr \in MMIO THEN read ELSE core.memory[WordOf(addr)]
           old == CASE insn.csr = "mip" -> levels [] insn.csr = "mcycle" -> read [] OTHER -> core.csrs[insn.csr]
           next == CASE Taken(insn, a, b) -> Target(insn, a)
                     [] insn.op = "mret" -> core.csrs.mepc
                     [] OTHER -> core.pc + 2
           value == CASE insn.op = "addi" -> (a + insn.imm) % 4
                      [] insn.op = "div" -> Division(a, b)[1]
                      [] insn.op = "rem" -> Division(a, b)[2]
                      [] IsJump(insn) -> Link(core.pc)
                      [] IsLoad(insn) -> Loaded(insn, addr, word)
                      [] insn.op = "csrrw" -> old
                      [] OTHER -> 0
           shown == [Row(insn, next) EXCEPT !.rd = insn.rd, !.value = IF insn.rd = 0 THEN 0 ELSE value]
           row == IF IsLoad(insn) \/ IsStore(insn) THEN Accessed(shown, insn, word) ELSE shown
           regs == IF insn.rd = 0 THEN core.regs ELSE [core.regs EXCEPT ![insn.rd] = value]
           memory == IF IsStore(insn) /\ addr \in SRAM
                     THEN [core.memory EXCEPT ![WordOf(addr)] = Merge(@, addr, mask, b)] ELSE core.memory
           csrs == CASE insn.op = "mret" -> Returned(core.csrs)
                     [] insn.op = "csrrw" /\ insn.csr \in Snapshot ->
                          [core.csrs EXCEPT ![insn.csr] = Legal(insn.csr, a)]
                     [] OTHER -> core.csrs
           done == Completed(insn, read, levels)
<1>1. done = [row |-> row, after |-> [pc |-> next, regs |-> regs, memory |-> memory, csrs |-> csrs]]
  BY DEF Completed
<1>2. next = NextOf(insn, core.regs, core.csrs, core.pc)
  BY DEF NextOf, Taken, IsJump
<1>3. word = WordRead(insn, read)
  BY DEF WordRead
<1>4. old = IF insn.csr = "mip" THEN levels ELSE IF insn.csr = "mcycle" THEN read ELSE core.csrs[insn.csr]
  OBVIOUS
<1>5. value = Result(insn, read, levels)
  <2> HIDE DEF old, word, addr
  <2> QED BY <1>3, <1>4 DEF Result, IsJump, IsLoad, addr
<1>6. csrs = CsrsAfter(insn, core.csrs, a)
  BY DEF CsrsAfter
<1>7. /\ DOMAIN shown = RowFields
      /\ shown.order = order /\ shown.epoch = epoch /\ shown.intr = FALSE /\ shown.trap = FALSE
      /\ shown.pc = core.pc /\ shown.insn = insn /\ shown.rs1 = a /\ shown.rs2 = b
      /\ shown.rd = insn.rd /\ shown.csrs = core.csrs /\ shown.next = next
      /\ shown.value = (IF insn.rd = 0 THEN 0 ELSE value)
      /\ shown.addr = 0 /\ shown.rmask = {} /\ shown.wmask = {} /\ shown.wdata = 0
  <2> HIDE DEF value, next
  <2> QED BY DEF Row, RowFields
<1> HIDE DEF shown, word
<1>8. /\ DOMAIN row = RowFields
      /\ \A f \in RowFields \ {"addr", "rmask", "wmask", "rdata", "wdata"} : row[f] = shown[f]
      /\ IF IsLoad(insn)
         THEN row.addr = addr /\ row.rmask = mask /\ row.wmask = {} /\ row.rdata = word /\ row.wdata = 0
         ELSE IF IsStore(insn) THEN row.addr = addr /\ row.rmask = {} /\ row.wmask = mask /\ row.wdata = b
         ELSE row.addr = 0 /\ row.rmask = {} /\ row.wmask = {} /\ row.wdata = 0
  <2>1. CASE IsLoad(insn)
    BY <1>7, <2>1 DEF Accessed, RowFields
  <2>2. CASE ~IsLoad(insn) /\ IsStore(insn)
    BY <1>7, <2>2 DEF Accessed, RowFields
  <2>3. CASE ~IsLoad(insn) /\ ~IsStore(insn)
    BY <1>7, <2>3
  <2> QED BY <2>1, <2>2, <2>3
<1> HIDE DEF row, next, value, csrs, done
<1>9. /\ row.order = order /\ row.epoch = epoch /\ row.intr = FALSE /\ row.trap = FALSE
      /\ row.pc = core.pc /\ row.insn = insn /\ row.rs1 = a /\ row.rs2 = b
      /\ row.rd = insn.rd /\ row.csrs = core.csrs /\ row.next = next
      /\ row.value = IF insn.rd = 0 THEN 0 ELSE value
  BY <1>7, <1>8 DEF RowFields
<1>10. /\ DOMAIN done = {"row", "after"} /\ done.row = row
       /\ DOMAIN done.after = {"pc", "regs", "memory", "csrs"}
       /\ done.after.pc = next /\ done.after.regs = regs /\ done.after.memory = memory /\ done.after.csrs = csrs
  <2> HIDE DEF regs, memory
  <2> QED BY <1>1
<1>11. CompletedAs(done, insn, read, levels)
  BY <1>2, <1>3, <1>5, <1>6, <1>8, <1>9, <1>10 DEF CompletedAs
<1> QED BY <1>11 DEF done

LEMMA InstructionFollowed == CheckerInv /\ Execute => CheckerInv'
<1> SUFFICES ASSUME CheckerInv, Execute PROVE CheckerInv'
  OBVIOUS
<1>1. \E insn, read, levels : \E ext, timer \in BOOLEAN :
        Retires([Completed(insn, read, levels) EXCEPT !.row.ext = ext, !.row.timer = timer])
  <2> DEFINE insn == program[core.pc]
  <2> DEFINE lines == IF insn.csr = "mip" THEN BOOLEAN ELSE {FALSE}
  <2>0. \E read \in Word, e, t \in lines :
          /\ ~Enabled(e, t)
          /\ \E ext \in Later(e), timer \in Later(t) :
               LET step == Completed(insn, read, Pair(e, t))
               IN Retires([step EXCEPT !.row.ext = ext, !.row.timer = timer])
    BY DEF Execute
  <2>1. PICK read \in Word, e \in lines, t \in lines :
          \E ext \in Later(e), timer \in Later(t) :
            Retires([Completed(insn, read, Pair(e, t)) EXCEPT !.row.ext = ext, !.row.timer = timer])
    <3> HIDE DEF lines, insn
    <3> QED BY <2>0, Zenon
  <2>2. Later(e) \subseteq BOOLEAN /\ Later(t) \subseteq BOOLEAN
    BY DEF Later
  <2> DEFINE levels == Pair(e, t)
  <2>3. \E ext \in BOOLEAN, timer \in BOOLEAN :
          Retires([Completed(insn, read, levels) EXCEPT !.row.ext = ext, !.row.timer = timer])
    BY <2>1, <2>2
  <2> HIDE DEF insn, levels
  <2> QED BY <2>3
<1> PICK insn, read, levels : \E ext, timer \in BOOLEAN :
      Retires([Completed(insn, read, levels) EXCEPT !.row.ext = ext, !.row.timer = timer])
  BY <1>1
<1> PICK ext \in BOOLEAN, timer \in BOOLEAN :
      Retires([Completed(insn, read, levels) EXCEPT !.row.ext = ext, !.row.timer = timer])
  OBVIOUS
<1> DEFINE done == Completed(insn, read, levels)
           step == [done EXCEPT !.row.ext = ext, !.row.timer = timer]
           word == WordOf(Address(insn))
           mask == Mask(Wide(insn), Address(insn))
<1>1a. CompletedAs(done, insn, read, levels)
  BY CompletedIs
<1> HIDE DEF done
<1>2. /\ done.row.order = order /\ done.row.epoch = epoch
      /\ done.row.intr = FALSE /\ done.row.trap = FALSE
      /\ done.row.insn = insn /\ done.row.next = done.after.pc /\ done.row.rd = insn.rd
  BY <1>1a DEF CompletedAs
<1>3. IsStore(insn) =>
        /\ done.row.addr = Address(insn) /\ done.row.wmask = mask
        /\ done.row.wdata = core.regs[insn.rs2]
  BY <1>1a DEF CompletedAs, IsLoad, IsStore
<1>4. done.after.regs =
        IF done.row.rd = 0 THEN core.regs ELSE [core.regs EXCEPT ![done.row.rd] = done.row.value]
  BY <1>1a DEF CompletedAs
<1>5. done.after.memory =
        IF IsStore(insn) /\ Address(insn) \in SRAM
        THEN [core.memory EXCEPT ![word] =
                Merge(core.memory[word], Address(insn), mask, core.regs[insn.rs2])]
        ELSE core.memory
  BY <1>1a DEF CompletedAs
<1>6. done.after.csrs = CsrsAfter(insn, core.csrs, core.regs[insn.rs1])
  BY <1>1a DEF CompletedAs
<1>7. DOMAIN done.after = {"pc", "regs", "memory", "csrs"}
  BY <1>1a DEF CompletedAs
<1>8. /\ step.after = done.after
      /\ step.row.order = order /\ step.row.epoch = epoch
      /\ step.row.intr = FALSE /\ step.row.trap = FALSE
      /\ step.row.insn = insn /\ step.row.next = done.after.pc /\ step.row.rd = done.row.rd
      /\ step.row.value = done.row.value /\ step.row.addr = done.row.addr
      /\ step.row.wmask = done.row.wmask /\ step.row.wdata = done.row.wdata
  <2>1. DOMAIN done = {"row", "after"} /\ DOMAIN done.row = RowFields
    BY <1>1a DEF CompletedAs
  <2>2. step.after = done.after /\ step.row = [done.row EXCEPT !.ext = ext, !.timer = timer]
    BY <2>1
  <2> HIDE DEF step
  <2> QED BY <1>2, <2>1, <2>2 DEF RowFields
<1>9. Goes /\ Retires(step)
  BY DEF Execute, done
<1> HIDE DEF step
<1>10. ASSUME Unaltered
       PROVE  /\ IsCore(step.after)
              /\ \A c : Agrees(c, core) /\ Body(c, step.row).bad = {} =>
                        Agrees(Body(c, step.row).after, step.after)
  <2>1. IsCore(core)
    BY <1>9, <1>10 DEF CheckerInv, Synced, Goes
  <2>2. IsCsrs(core.csrs) /\ SameCsrs(core.csrs, core.csrs)
    BY <2>1 DEF IsCore, SameCsrs
  <2>3. IsCsrs(step.after.csrs)
    BY <1>6, <1>8, <2>2, ReturnedSame, WrittenSame DEF CsrsAfter
  <2>4. ASSUME NEW c, Agrees(c, core), Body(c, step.row).bad = {}
        PROVE  Agrees(Body(c, step.row).after, step.after)
    <3> DEFINE after == CheckInstruction(c, step.row).after
    <3>1. Body(c, step.row) = CheckInstruction(c, step.row) /\ IsChecker(c)
      BY <1>8, <2>4 DEF Body, Agrees
    <3>2. /\ IsChecker(after) /\ after.pc = step.row.next
          /\ after.regs = IF step.row.rd = 0 THEN c.regs
                          ELSE [c.regs EXCEPT ![step.row.rd] = step.row.value]
          /\ after.memory =
               IF IsStore(step.row.insn) /\ step.row.addr \in SRAM
               THEN [c.memory EXCEPT ![WordOf(step.row.addr)] =
                       Merge(c.memory[WordOf(step.row.addr)], step.row.addr, step.row.wmask,
                             step.row.wdata)]
               ELSE c.memory
      BY <2>4, <3>1, InstructionChecked
    <3>3. IsCsrs(after.csrs) /\ SameCsrs(after.csrs, step.after.csrs)
      BY <1>6, <1>8, <2>2, <2>4, <3>1, InstructionCsrs DEF Agrees
    <3> HIDE DEF after
    <3>4. after.pc = step.after.pc /\ after.regs = step.after.regs
      BY <1>4, <1>8, <2>4, <3>2 DEF Agrees
    <3>5. after.memory = step.after.memory
      <4>1. CASE IsStore(insn)
        BY <1>3, <1>5, <1>8, <2>4, <3>2, <4>1 DEF Agrees
      <4>2. CASE ~IsStore(insn)
        BY <1>5, <1>8, <2>4, <3>2, <4>2 DEF Agrees
      <4> QED BY <4>1, <4>2
    <3>6. Agrees(after, step.after)
      BY <3>2, <3>3, <3>4, <3>5 DEF Agrees
    <3> QED BY <3>1, <3>6 DEF after
  <2> QED BY <1>7, <1>8, <2>3, <2>4 DEF IsCore
<1> QED BY <1>8, <1>9, <1>10, RowFollowed

LEMMA ResetFollowed == CheckerInv /\ Reset => CheckerInv'
<1> SUFFICES ASSUME CheckerInv, Reset PROVE CheckerInv'
  OBVIOUS
<1>1. /\ core' = ResetState /\ order' = 0 /\ epoch' = epoch + 1
      /\ iss' = iss /\ altered' = altered /\ iss.mismatches = {}
  BY DEF Reset, Goes
<1>2. ASSUME Unaltered PROVE Synced'
  <2>1. Synced
    BY <1>1, <1>2 DEF CheckerInv
  <2>2. IsCore(ResetState)
    BY DEF IsCore, IsCsrs, ResetState
  <2>3. \/ order = 0 /\ iss.previous = <<>> /\ Agrees(iss, ResetState)
        \/ iss.previous \in Nat \X Nat /\ iss.previous[2] < epoch + 1
    <3>1. CASE order = 0
      BY <2>1, <3>1 DEF Synced
    <3>2. CASE order # 0
      <4>1. order \in Nat /\ epoch \in Nat /\ iss.previous = <<order - 1, epoch>>
        BY <2>1, <3>2 DEF Synced
      <4>2. order - 1 \in Nat
        BY <3>2, <4>1
      <4> QED BY <4>1, <4>2
    <3> QED BY <3>1, <3>2
  <2> QED BY <1>1, <2>1, <2>2, <2>3 DEF Synced, Agrees
<1> QED BY <1>1, <1>2 DEF CheckerInv, Unaltered

-----------------------------------------------------------------------------
LEMMA CheckerInit == Init => CheckerInv
<1> SUFFICES ASSUME Init PROVE CheckerInv
  OBVIOUS
<1>1. IsCore(ResetState)
  BY DEF IsCore, IsCsrs, ResetState
<1>2. IsChecker(iss) /\ Agrees(iss, ResetState) /\ iss.previous = <<>>
  <2>1. ResetState.pc = 0
    BY DEF ResetState
  <2> QED BY <1>1, <2>1 DEF Init, IsChecker, Agrees, SameCsrs, IsCore
<1>3. "kind" \in DOMAIN altered
  BY DEF Init, None
<1> QED BY <1>1, <1>2, <1>3 DEF Init, CheckerInv, Synced

LEMMA CheckerStep == CheckerInv /\ [Next]_vars => CheckerInv'
<1> SUFFICES ASSUME CheckerInv, [Next]_vars PROVE CheckerInv'
  OBVIOUS
<1>1. CASE UNCHANGED vars
  BY <1>1 DEF vars, CheckerInv, Unaltered, Synced, Agrees
<1> QED BY <1>1, InterruptFollowed, TrapFollowed, InstructionFollowed, ResetFollowed DEF Next

\* For every program, a checker that has not complained of an unaltered trace
\* holds the registers, the memory and the CSRs the core has: what the row
\* carries and the checker replays cannot drift apart unnoticed, over traps,
\* interrupts, byte stores and resets (rv32_iss.py, check_row).
THEOREM ReplayFollowsCore == Spec => []FollowsCore
<1>1. CheckerInv => FollowsCore
  <2> SUFFICES ASSUME CheckerInv, iss.mismatches = {}, altered.kind = "none", order > 0
               PROVE  /\ iss.pc = core.pc /\ iss.regs = core.regs /\ iss.memory = core.memory
                      /\ \A c \in Snapshot : iss.csrs[c] = core.csrs[c]
    BY DEF FollowsCore
  <2>1. Synced /\ order # 0
    BY DEF CheckerInv, Unaltered, Synced
  <2> QED BY <2>1 DEF Synced, Agrees, SameCsrs
<1> QED BY <1>1, CheckerInit, CheckerStep, PTL DEF Spec

-----------------------------------------------------------------------------
(* Division.                                                               *)

\* The core's quotient and remainder exist and are the ones the checker
\* computes from magnitudes.
LEMMA DivisionIs ==
  ASSUME NEW lhs \in Word, NEW rhs \in Word \ {0}
  PROVE  /\ Division(lhs, rhs) \in Word \X Word
         /\ \E q \in -3 .. 3, r \in -3 .. 3 :
              /\ Signed(lhs) = q * Signed(rhs) + r
              /\ Magnitude(r) < Magnitude(Signed(rhs)) /\ r * Signed(lhs) >= 0
              /\ Division(lhs, rhs) = <<q % 4, r % 4>>
<1> DEFINE Is(result) == \E q \in -3 .. 3, r \in -3 .. 3 :
             /\ Signed(lhs) = q * Signed(rhs) + r
             /\ Magnitude(r) < Magnitude(Signed(rhs)) /\ r * Signed(lhs) >= 0
             /\ result = <<q % 4, r % 4>>
<1>1. Division(lhs, rhs) = CHOOSE result \in Word \X Word : Is(result)
  BY DEF Division
<1>2. \E result \in Word \X Word : Is(result)
  <2>1. \E q \in -3 .. 3, r \in -3 .. 3 :
          /\ Signed(lhs) = q * Signed(rhs) + r
          /\ Magnitude(r) < Magnitude(Signed(rhs)) /\ r * Signed(lhs) >= 0
    <3>1. lhs \in {0, 1, 2, 3} /\ rhs \in {1, 2, 3}
      BY DEF Word
    <3>2. Signed(lhs) \in {-2, -1, 0, 1} /\ Signed(rhs) \in {-2, -1, 1}
      BY <3>1 DEF Signed
    <3> DEFINE a == Signed(lhs)
               b == Signed(rhs)
    <3> HIDE DEF a, b
    <3>3. ASSUME a \in {-2, -1, 0, 1}, b \in {-2, -1, 1}
          PROVE  \E q \in -3 .. 3, r \in -3 .. 3 :
                   a = q * b + r /\ Magnitude(r) < Magnitude(b) /\ r * a >= 0
      <4>1. CASE b = 1
        <5>1. a \in -3 .. 3 /\ 0 \in -3 .. 3 /\ a = a * b + 0 /\ Magnitude(0) < Magnitude(b) /\ 0 * a >= 0
          BY <3>3, <4>1 DEF Magnitude
        <5> QED BY <5>1
      <4>2. CASE b = -1
        <5>1. -a \in -3 .. 3 /\ 0 \in -3 .. 3 /\ a = (-a) * b + 0 /\ Magnitude(0) < Magnitude(b) /\ 0 * a >= 0
          BY <3>3, <4>2 DEF Magnitude
        <5> QED BY <5>1
      <4>3. CASE b = -2 /\ a = -2
        <5>1. 1 \in -3 .. 3 /\ 0 \in -3 .. 3 /\ a = 1 * b + 0 /\ Magnitude(0) < Magnitude(b) /\ 0 * a >= 0
          BY <4>3 DEF Magnitude
        <5> QED BY <5>1
      <4>4. CASE b = -2 /\ a # -2
        <5>1. a \in -3 .. 3 /\ 0 \in -3 .. 3 /\ a = 0 * b + a /\ Magnitude(a) < Magnitude(b) /\ a * a >= 0
          BY <3>3, <4>4 DEF Magnitude
        <5> QED BY <5>1
      <4> QED BY <3>3, <4>1, <4>2, <4>3, <4>4
    <3> QED BY <3>2, <3>3 DEF a, b
  <2>2. PICK q \in -3 .. 3, r \in -3 .. 3 :
          /\ Signed(lhs) = q * Signed(rhs) + r
          /\ Magnitude(r) < Magnitude(Signed(rhs)) /\ r * Signed(lhs) >= 0
    BY <2>1
  <2>3. <<q % 4, r % 4>> \in Word \X Word
    BY DEF Word
  <2> QED BY <2>2, <2>3
<1> HIDE DEF Is
<1>4. Division(lhs, rhs) \in Word \X Word /\ Is(Division(lhs, rhs))
  BY <1>1, <1>2
<1> QED BY <1>4 DEF Is

LEMMA DivisionTyped ==
  ASSUME NEW lhs \in Word, NEW rhs \in Word
  PROVE  Division(lhs, rhs)[1] \in Word /\ Division(lhs, rhs)[2] \in Word
<1>1. CASE rhs = 0
  BY <1>1 DEF Division, Word
<1>2. CASE rhs # 0
  BY <1>2, DivisionIs
<1> QED BY <1>1, <1>2

LEMMA ResultIsDivision ==
  ASSUME NEW lhs \in Word, NEW rhs \in Word
  PROVE  /\ Rv32mResult("div", lhs, rhs) = Division(lhs, rhs)[1]
         /\ Rv32mResult("rem", lhs, rhs) = Division(lhs, rhs)[2]
<1>1. CASE rhs = 0
  BY <1>1 DEF Division, Rv32mResult
<1>2. CASE rhs # 0
  <2>1. PICK q \in -3 .. 3, r \in -3 .. 3 :
          /\ Signed(lhs) = q * Signed(rhs) + r
          /\ Magnitude(r) < Magnitude(Signed(rhs)) /\ r * Signed(lhs) >= 0
          /\ Division(lhs, rhs) = <<q % 4, r % 4>>
    BY <1>2, DivisionIs
  <2>2. Division(lhs, rhs)[1] = q % 4 /\ Division(lhs, rhs)[2] = r % 4
    BY <2>1
  <2>3. lhs \in {0, 1, 2, 3} /\ rhs \in {1, 2, 3}
    BY <1>2 DEF Word
  <2>4. \A l \in {0, 1, 2, 3}, h \in {1, 2, 3} : lhs = l /\ rhs = h =>
          Rv32mResult("div", lhs, rhs) = q % 4 /\ Rv32mResult("rem", lhs, rhs) = r % 4
    <3>1. ASSUME rhs = 1
          PROVE  Rv32mResult("div", lhs, rhs) = q % 4 /\ Rv32mResult("rem", lhs, rhs) = r % 4
      <4>1. r = 0 /\ q = Signed(lhs)
        BY <2>1, <2>3, <3>1 DEF Signed, Magnitude
      <4>2. Signed(rhs) = 1 /\ Magnitude(1) = 1
        BY <3>1 DEF Signed, Magnitude
      <4> QED BY <2>3, <3>1, <4>1, <4>2 DEF Rv32mResult, Signed, Magnitude
    <3>2. ASSUME rhs = 3
          PROVE  Rv32mResult("div", lhs, rhs) = q % 4 /\ Rv32mResult("rem", lhs, rhs) = r % 4
      <4>1. r = 0 /\ q = -Signed(lhs)
        BY <2>1, <2>3, <3>2 DEF Signed, Magnitude
      <4> QED BY <2>3, <3>2, <4>1 DEF Rv32mResult, Signed, Magnitude
    <3>3. ASSUME rhs = 2
          PROVE  Rv32mResult("div", lhs, rhs) = q % 4 /\ Rv32mResult("rem", lhs, rhs) = r % 4
      <4>1. IF lhs = 2 THEN q = 1 /\ r = 0 ELSE q = 0 /\ r = Signed(lhs)
        BY <2>1, <2>3, <3>3 DEF Signed, Magnitude
      <4> QED BY <2>3, <3>3, <4>1 DEF Rv32mResult, Signed, Magnitude
    <3> QED BY <3>1, <3>2, <3>3
  <2> QED BY <2>2, <2>3, <2>4
<1> QED BY <1>1, <1>2

-----------------------------------------------------------------------------
(* What the core shows of a step.                                          *)

CoreTyped(state) ==
  /\ IsCore(state) /\ state.pc \in Int
  /\ state.regs \in [Register -> Word] /\ state.memory \in [{0, 2} -> Word]
  /\ \A csr \in Csrs : state.csrs[csr] \in Int
  /\ \A csr \in Csrs \ TrapState : state.csrs[csr] \in Word

\* Any row.
AnyRow(row) ==
  /\ DOMAIN row = RowFields /\ row.order = order /\ row.epoch = epoch /\ row.pc = core.pc
  /\ row.intr \in BOOLEAN /\ row.trap \in BOOLEAN
  /\ row.rs1 = core.regs[row.insn.rs1] /\ row.rs2 = core.regs[row.insn.rs2]
  /\ row.rd \in Register /\ row.value \in Word /\ row.addr \in Int /\ row.wdata \in Word
  /\ IsCsrs(row.csrs)
  /\ \A csr \in Snapshot \ (IF row.trap \/ row.intr THEN TrapState ELSE {}) : row.csrs[csr] = core.csrs[csr]
  /\ ~row.intr => /\ core.pc \in DOMAIN program /\ row.insn = program[core.pc] /\ WellFormed(row.insn)

EntryRow(row, cause, mtval) ==
  /\ row.rd = 0 /\ row.value = 0
  /\ row.csrs["mcause"] = cause /\ row.csrs["mepc"] = core.pc /\ row.csrs["mtval"] = mtval

InterruptRow(row, cause) ==
  /\ row.intr /\ ~row.trap /\ EntryRow(row, cause, 0) /\ row.rmask = {} /\ row.wmask = {}
  /\ row.next = Vector(core.csrs["mtvec"], cause)
  /\ row.ext \in BOOLEAN /\ row.timer \in BOOLEAN /\ (row.ext \/ row.timer)
  /\ (cause = External /\ row.ext) \/ cause = Timer

\* The cause of a trap, by its row.
CauseOf(row) ==
  LET insn == row.insn
      misaligned == Wide(insn) /\ row.addr % 2 = 1
  IN CASE insn.op = "ecall" -> 11
       [] insn.op = "ebreak" -> 3
       [] insn.op \in {"jal", "jalr", "beq"} -> 0
       [] IsLoad(insn) -> IF misaligned THEN 4 ELSE 5
       [] IsStore(insn) -> IF misaligned THEN 6 ELSE IF row.addr \in MMIO /\ ~Wide(insn) THEN 2 ELSE 7
       [] OTHER -> 2

MtvalOf(row) ==
  CASE CauseOf(row) = 0 -> Target(row.insn, row.rs1)
    [] CauseOf(row) = 2 -> Encoding(row.insn)
    [] CauseOf(row) \in 4 .. 7 -> row.addr
    [] OTHER -> 0

TrapRow(row) ==
  /\ row.trap /\ ~row.intr /\ row.next = Handler /\ EntryRow(row, CauseOf(row), MtvalOf(row))
  /\ CauseOf(row) = 0 => Misaligned(Target(row.insn, row.rs1))

\* The trap of a jump or branch that is no instruction, as the checker sees one.
NoJump(row) ==
  row.insn.op \in {"bad_jalr", "bad_branch"} /\ Misaligned(Target(row.insn, row.rs1))

InstructionRow(row) ==
  LET insn == row.insn
  IN /\ ~row.trap /\ ~row.intr
     /\ insn.op \notin {"ecall", "ebreak", "illegal", "bad_jalr", "bad_branch"}
     /\ row.next = NextOf(insn, core.regs, core.csrs, core.pc) /\ row.rd = insn.rd
     /\ IF IsLoad(insn)
        THEN /\ row.rmask = Mask(Wide(insn), row.addr) /\ row.wmask = {}
             /\ row.addr \in SRAM \cup MMIO /\ row.rdata \in Word
             /\ row.addr \in SRAM => row.rdata = core.memory[WordOf(row.addr)]
        ELSE /\ row.rmask = {} /\ row.wmask = (IF IsStore(insn) THEN Mask(Wide(insn), row.addr) ELSE {})
     /\ row.rd # 0 =>
          /\ insn.op = "addi" => row.value = (core.regs[insn.rs1] + insn.imm) % 4
          /\ insn.op = "div" => row.value = Division(core.regs[insn.rs1], core.regs[insn.rs2])[1]
          /\ insn.op = "rem" => row.value = Division(core.regs[insn.rs1], core.regs[insn.rs2])[2]
          /\ IsJump(insn) => row.value = Link(core.pc)
          /\ IsLoad(insn) => row.value = Loaded(insn, row.addr, row.rdata)
          /\ insn.op = "csrrw" /\ insn.csr \notin {"mip", "mcycle"} => row.value = core.csrs[insn.csr]

\* A step of the core: one of the three rows, and a core as it should be.
CoreStep(step) ==
  /\ Goes /\ Retires(step) /\ AnyRow(step.row) /\ CoreTyped(step.after)
  /\ \/ /\ (\E cause : InterruptRow(step.row, cause)) \/ TrapRow(step.row)
        /\ step.after.csrs["mcause"] = step.row.csrs["mcause"] /\ step.after.csrs["mepc"] = core.pc
     \/ InstructionRow(step.row)

-----------------------------------------------------------------------------
LEMMA EnteredTyped ==
  ASSUME CoreTyped(core), NEW cause \in Int, NEW mtval \in Int, NEW next \in Int, NEW after, NEW shown,
         CoreEntered(after, cause, mtval, next), ShownEntered(shown, cause, mtval)
  PROVE  /\ CoreTyped(after) /\ after.csrs["mcause"] = cause /\ after.csrs["mepc"] = core.pc
         /\ IsCsrs(shown) /\ shown["mcause"] = cause /\ shown["mepc"] = core.pc /\ shown["mtval"] = mtval
         /\ \A csr \in Snapshot \ TrapState : shown[csr] = core.csrs[csr]
<1> DEFINE entered == Entered(core.csrs, core.pc, cause, mtval)
<1>1. /\ DOMAIN core.csrs = Csrs /\ \A csr \in Csrs : core.csrs[csr] \in Int
      /\ \A csr \in Csrs \ TrapState : core.csrs[csr] \in Word
  BY DEF CoreTyped, IsCore, IsCsrs
<1>2. /\ DOMAIN entered = Csrs /\ entered["mcause"] = cause /\ entered["mepc"] = core.pc /\ entered["mtval"] = mtval
      /\ entered["mstatus"] = 2 * Low(core.csrs["mstatus"])
      /\ \A csr \in Csrs \ (TrapState \cup {"mstatus"}) : entered[csr] = core.csrs[csr]
  BY <1>1 DEF Entered, Csrs, Snapshot, TrapState
<1>3. after = [core EXCEPT !.pc = next, !.csrs = entered] /\ shown = [entered EXCEPT !["mstatus"] = core.csrs["mstatus"]]
  BY DEF CoreEntered, ShownEntered
<1> HIDE DEF entered
<1>4. 2 * Low(core.csrs["mstatus"]) \in Word
  <2>1. core.csrs["mstatus"] \in Word
    BY <1>1 DEF Csrs, Snapshot, TrapState
  <2> QED BY <2>1 DEF Low, Word
<1>5. /\ \A csr \in Csrs \ TrapState : entered[csr] \in Word
      /\ \A csr \in Csrs : entered[csr] \in Int
  <2>1. \A csr \in Csrs \ TrapState : entered[csr] \in Word
    BY <1>1, <1>2, <1>4
  <2>2. core.pc \in Int /\ Word \subseteq Int
    BY DEF CoreTyped, Word
  <2> QED BY <1>2, <2>1, <2>2 DEF TrapState
<1>6. DOMAIN core = {"pc", "regs", "memory", "csrs"}
  BY DEF CoreTyped, IsCore
<1>7. /\ DOMAIN after = {"pc", "regs", "memory", "csrs"} /\ after.pc = next /\ after.csrs = entered
      /\ after.regs = core.regs /\ after.memory = core.memory
  BY <1>3, <1>6
<1>8. CoreTyped(after)
  BY <1>2, <1>5, <1>7 DEF CoreTyped, IsCore, IsCsrs
<1>9. /\ DOMAIN shown = Csrs /\ shown["mcause"] = cause /\ shown["mepc"] = core.pc /\ shown["mtval"] = mtval
      /\ \A csr \in Snapshot \ TrapState : shown[csr] = core.csrs[csr]
  BY <1>2, <1>3 DEF Csrs, Snapshot, TrapState
<1> QED BY <1>2, <1>7, <1>8, <1>9 DEF IsCsrs

LEMMA InterruptSteps ==
  ASSUME CoreTyped(core), TakeInterrupt
  PROVE  \E step : CoreStep(step)
<1>1. PICK e \in BOOLEAN, t \in BOOLEAN :
        /\ Enabled(e, t)
        /\ \E ext \in Later(e), timer \in Later(t) :
             LET step == Interrupted(IF e /\ High(core.csrs.mie) = 1 THEN External ELSE Timer)
             IN Retires([step EXCEPT !.row.ext = ext, !.row.timer = timer])
  BY DEF TakeInterrupt
<1> DEFINE cause == IF e /\ High(core.csrs.mie) = 1 THEN External ELSE Timer
<1>2. PICK ext \in Later(e), timer \in Later(t) :
        Retires([Interrupted(cause) EXCEPT !.row.ext = ext, !.row.timer = timer])
  BY <1>1
<1>3. /\ ext \in BOOLEAN /\ timer \in BOOLEAN /\ (ext \/ timer)
      /\ (cause = External /\ ext) \/ cause = Timer
  BY <1>1 DEF Later, Enabled
<1> HIDE DEF cause
<1> DEFINE next == Vector(core.csrs.mtvec, cause)
           entered == Entered(core.csrs, core.pc, cause, 0)
           step == [Interrupted(cause) EXCEPT !.row.ext = ext, !.row.timer = timer]
<1>4. /\ DOMAIN step.row = RowFields
      /\ step.row.order = order /\ step.row.epoch = epoch /\ step.row.intr = TRUE /\ step.row.trap = FALSE
      /\ step.row.pc = core.pc /\ step.row.next = next
      /\ step.row.insn = Nop /\ step.row.rs1 = core.regs[Nop.rs1] /\ step.row.rs2 = core.regs[Nop.rs2]
      /\ step.row.rd = 0 /\ step.row.value = 0 /\ step.row.addr = 0 /\ step.row.wdata = 0
      /\ step.row.rmask = {} /\ step.row.wmask = {} /\ step.row.ext = ext /\ step.row.timer = timer
      /\ step.row.csrs = [entered EXCEPT !.mstatus = core.csrs.mstatus]
      /\ step.after = [core EXCEPT !.pc = next, !.csrs = entered]
  <2> DEFINE taken == Interrupted(cause)
  <2>1. /\ taken = [row |-> taken.row, after |-> taken.after]
        /\ taken.after = [core EXCEPT !.pc = next, !.csrs = entered]
        /\ taken.row = [Row(Nop, next) EXCEPT !.intr = TRUE,
                          !.csrs = [entered EXCEPT !.mstatus = core.csrs.mstatus]]
    BY DEF Interrupted, Entry, Row
  <2> HIDE DEF taken, entered, next
  <2>2. /\ step.after = taken.after
        /\ step.row = [taken.row EXCEPT !.ext = ext, !.timer = timer]
    BY <2>1 DEF taken
  <2> HIDE DEF step
  <2> QED BY <2>1, <2>2 DEF Row, RowFields
<1>5. Goes /\ Retires(step)
  BY <1>2 DEF TakeInterrupt
<1> HIDE DEF step
<1>6. next \in Int /\ cause \in Int /\ 0 \in Int
  BY <1>3 DEF Vector, Handler, External, Timer
<1>7. CoreEntered(step.after, cause, 0, next) /\ ShownEntered(step.row.csrs, cause, 0)
  BY <1>4 DEF CoreEntered, ShownEntered
<1> HIDE DEF entered
<1>8. /\ CoreTyped(step.after) /\ step.after.csrs["mcause"] = cause /\ step.after.csrs["mepc"] = core.pc
      /\ IsCsrs(step.row.csrs) /\ step.row.csrs["mcause"] = cause /\ step.row.csrs["mepc"] = core.pc
      /\ step.row.csrs["mtval"] = 0
      /\ \A csr \in Snapshot \ TrapState : step.row.csrs[csr] = core.csrs[csr]
  <2> HIDE DEF next
  <2> QED BY <1>6, <1>7, EnteredTyped
<1>9. InterruptRow(step.row, cause)
  BY <1>3, <1>4, <1>8 DEF InterruptRow, EntryRow
<1>10. AnyRow(step.row)
  <2>1. 0 \in Register /\ 0 \in Word /\ 0 \in Int
    BY DEF Register, Word
  <2> QED BY <1>4, <1>8, <2>1 DEF AnyRow
<1> QED BY <1>5, <1>8, <1>9, <1>10 DEF CoreStep

LEMMA TrapSteps ==
  ASSUME CoreTyped(core), TakeTrap, ProgramsWellFormed, program \in PROGRAMS
  PROVE  \E step : CoreStep(step)
<1> DEFINE insn == program[core.pc]
<1>1. PICK fault \in BOOLEAN, read \in Word :
        Cause(insn, fault) # NoTrap /\ Retires(Trapped(insn, Cause(insn, fault), read))
  BY DEF TakeTrap
<1> DEFINE cause == Cause(insn, fault)
           addr == IF IsLoad(insn) \/ IsStore(insn) THEN Address(insn) ELSE 0
           mtval == TrapValue(insn, cause)
           entered == Entered(core.csrs, core.pc, cause, mtval)
           step == Trapped(insn, cause, read)
<1>2. WellFormed(insn) /\ core.pc \in DOMAIN program /\ Goes /\ Retires(step)
  BY <1>1 DEF TakeTrap, ProgramsWellFormed
<1>3. insn.rs1 \in Register /\ insn.rs2 \in Register /\ insn.imm \in Int /\ insn.op \in Op
  <2> HIDE DEF insn
  <2> QED BY <1>2 DEF WellFormed
<1>4. /\ addr \in Int /\ Address(insn) \in Int /\ Target(insn, core.regs[insn.rs1]) \in Int
      /\ core.regs[insn.rs2] \in Word
  <2>1. core.regs[insn.rs1] \in Word /\ core.regs[insn.rs2] \in Word
    BY <1>3 DEF CoreTyped
  <2>2. core.regs[insn.rs1] \in Int
    BY <2>1 DEF Word
  <2> HIDE DEF insn
  <2> QED BY <1>3, <2>1, <2>2 DEF Address, Target
<1>5. /\ cause \in {0, 2, 3, 4, 5, 6, 7, 11}
      /\ cause \in 4 .. 7 => IsLoad(insn) \/ IsStore(insn)
      /\ cause = 0 => /\ insn.op \in {"jal", "jalr", "beq"}
                      /\ Misaligned(Target(insn, core.regs[insn.rs1]))
  <2> HIDE DEF insn
  <2> QED BY <1>1 DEF Cause, Taken, IsJump, NoTrap
<1>6. mtval \in Int /\ cause \in Int
  <2> HIDE DEF insn, cause
  <2> QED BY <1>3, <1>4, <1>5 DEF TrapValue, Encoding
<1>7. /\ TrappedSo(step, insn, cause) /\ step.row.addr = addr
      /\ step.row.insn = insn /\ step.row.rs1 = core.regs[insn.rs1]
  <2> HIDE DEF insn, cause, step, addr
  <2>1. TrappedSo(step, insn, cause)
    BY TrappedShows DEF step
  <2> QED BY <1>5, <2>1 DEF TrappedSo, addr
<1>8. /\ cause = CauseOf(step.row) /\ mtval = MtvalOf(step.row)
      /\ CauseOf(step.row) = 0 => Misaligned(Target(step.row.insn, step.row.rs1))
  <2>1. cause = CauseOf(step.row)
    <3> HIDE DEF step, insn
    <3>1. CASE insn.op \in {"ecall", "ebreak", "illegal", "bad_jalr", "bad_branch"}
      BY <1>7, <3>1 DEF Cause, CauseOf, Taken, IsJump, IsLoad, IsStore
    <3>2. CASE insn.op \in {"jal", "jalr", "beq"}
      BY <1>1, <1>7, <3>2 DEF Cause, CauseOf, IsLoad, IsStore, NoTrap
    <3>3. CASE IsLoad(insn)
      BY <1>1, <1>7, <3>3 DEF Cause, CauseOf, IsLoad, Taken, IsJump, NoTrap
    <3>4. CASE IsStore(insn)
      BY <1>1, <1>7, <3>4 DEF Cause, CauseOf, IsStore, IsLoad, Taken, IsJump, NoTrap
    <3>5. insn.op \in {"ecall", "ebreak", "illegal", "bad_jalr", "bad_branch", "jal", "jalr", "beq"}
          \/ IsLoad(insn) \/ IsStore(insn)
      BY <1>1 DEF Cause, Taken, IsJump
    <3> QED BY <3>1, <3>2, <3>3, <3>4, <3>5
  <2> HIDE DEF step, cause, insn
  <2> QED BY <1>5, <1>7, <2>1 DEF MtvalOf, TrapValue
<1> HIDE DEF step, insn
<1>9. /\ DOMAIN step.row = RowFields
       /\ step.row.order = order /\ step.row.epoch = epoch /\ step.row.intr = FALSE /\ step.row.trap = TRUE
       /\ step.row.pc = core.pc /\ step.row.next = Handler /\ step.row.rs2 = core.regs[insn.rs2]
       /\ step.row.rd = 0 /\ step.row.value = 0 /\ step.row.wdata \in {0, core.regs[insn.rs2]}
       /\ step.row.csrs = [entered EXCEPT !.mstatus = core.csrs.mstatus]
       /\ step.after = [core EXCEPT !.pc = Handler, !.csrs = entered]
  <2> HIDE DEF cause
  <2> QED BY <1>7 DEF TrappedSo
<1>10. CoreEntered(step.after, cause, mtval, Handler) /\ ShownEntered(step.row.csrs, cause, mtval)
  <2> HIDE DEF cause, mtval
  <2> QED BY <1>9 DEF CoreEntered, ShownEntered
<1> HIDE DEF entered
<1>11. /\ CoreTyped(step.after) /\ step.after.csrs["mcause"] = cause /\ step.after.csrs["mepc"] = core.pc
       /\ IsCsrs(step.row.csrs) /\ step.row.csrs["mcause"] = cause /\ step.row.csrs["mepc"] = core.pc
       /\ step.row.csrs["mtval"] = mtval
       /\ \A csr \in Snapshot \ TrapState : step.row.csrs[csr] = core.csrs[csr]
  <2>1. Handler \in Int
    BY DEF Handler
  <2> HIDE DEF cause, mtval
  <2> QED BY <1>6, <1>10, <2>1, EnteredTyped
<1> HIDE DEF cause, mtval, addr
<1>12. TrapRow(step.row)
  BY <1>8, <1>9, <1>11 DEF TrapRow, EntryRow
<1>13. AnyRow(step.row)
  <2>1. 0 \in Register /\ 0 \in Word
    BY DEF Register, Word
  <2> QED BY <1>2, <1>4, <1>7, <1>9, <1>11, <2>1 DEF AnyRow, insn
<1> QED BY <1>2, <1>11, <1>12, <1>13 DEF CoreStep

LEMMA MergeTyped ==
  ASSUME NEW word \in Int, NEW addr \in Int, NEW mask, NEW data \in Int
  PROVE  Merge(word, addr, mask, data) \in Word
<1>1. \A x \in Int, l \in Int : Byte(x, l) \in {0, 1}
  BY DEF Byte
<1>2. addr % 2 \in Int
  OBVIOUS
<1> DEFINE kept(l) == IF l \in mask THEN Byte(data, l - (addr % 2)) ELSE Byte(word, l)
<1>3. kept(0) \in {0, 1} /\ kept(1) \in {0, 1}
  BY <1>1, <1>2
<1>4. Merge(word, addr, mask, data) = kept(0) + 2 * kept(1)
  BY DEF Merge
<1> HIDE DEF kept
<1> QED BY <1>3, <1>4 DEF Word

\* What an instruction that completes leaves: registers and memory of words.
CompletedSo(done, insn) ==
  /\ DOMAIN done = {"row", "after"} /\ DOMAIN done.row = RowFields
  /\ done.row.order = order /\ done.row.epoch = epoch /\ done.row.intr = FALSE /\ done.row.trap = FALSE
  /\ done.row.pc = core.pc
  /\ done.row.insn = insn /\ done.row.rs1 = core.regs[insn.rs1] /\ done.row.rs2 = core.regs[insn.rs2]
  /\ done.row.rd = insn.rd /\ done.row.value \in Word /\ done.row.addr \in Int /\ done.row.wdata \in Word
  /\ done.row.csrs = core.csrs
  /\ InstructionRow(done.row)
  /\ CoreTyped(done.after)

LEMMA CompletedShows ==
  ASSUME CoreTyped(core), NEW insn, WellFormed(insn), Cause(insn, FALSE) = NoTrap, NEW read \in Word, NEW levels \in Word
  PROVE  CompletedSo(Completed(insn, read, levels), insn)
<1> DEFINE step == Completed(insn, read, levels)
           row == step.row
           next == NextOf(insn, core.regs, core.csrs, core.pc)
           a == core.regs[insn.rs1]
           b == core.regs[insn.rs2]
           addr == Address(insn)
           data == WordRead(insn, read)
           value == Result(insn, read, levels)
           mask == Mask(Wide(insn), addr)
<1>1. /\ insn.op \in Op /\ insn.rd \in Register /\ insn.rs1 \in Register /\ insn.rs2 \in Register
      /\ insn.imm \in Int /\ insn.csr \in Csrs
      /\ insn.op \in {"sw", "sb", "beq", "mret"} \/ insn.csr \in TrapState => insn.rd = 0
      /\ core.pc \in Int
  BY DEF WellFormed, CoreTyped
<1>2. a \in Word /\ b \in Word /\ a \in Int /\ b \in Int
  <2>1. a \in Word /\ b \in Word
    BY <1>1 DEF CoreTyped
  <2> QED BY <2>1 DEF Word
<1>3. addr \in Int
  BY <1>1, <1>2 DEF Address
<1>4. next \in Int
  <2>1. core.csrs["mepc"] \in Int
    BY DEF CoreTyped, Csrs, Snapshot
  <2> HIDE DEF a, b
  <2> QED BY <1>1, <1>2, <2>1 DEF NextOf, Target, a
<1>5. /\ insn.op \notin {"ecall", "ebreak", "illegal", "bad_jalr", "bad_branch"}
      /\ IsLoad(insn) \/ IsStore(insn) => addr \in SRAM \cup MMIO
  <2>1. insn.op \notin {"ecall", "ebreak", "illegal", "bad_jalr", "bad_branch"}
    BY DEF Cause, Taken, IsJump, IsLoad, IsStore, NoTrap
  <2>2. IsLoad(insn) \/ IsStore(insn) => addr \in SRAM \cup MMIO
    BY DEF Cause, IsLoad, IsStore, Taken, IsJump, NoTrap
  <2> QED BY <2>1, <2>2
<1>6. addr \in SRAM => WordOf(addr) \in {0, 2} /\ core.memory[WordOf(addr)] \in Word
  <2>1. addr \in SRAM => WordOf(addr) \in {0, 2}
    <3> HIDE DEF addr
    <3> QED BY DEF SRAM, WordOf
  <2> QED BY <2>1 DEF CoreTyped
<1>7. IsLoad(insn) => data \in Word
  BY <1>5, <1>6 DEF WordRead
<1>8. insn.rd # 0 => value \in Word
  <2>1. CASE insn.op = "addi"
    BY <1>1, <1>2, <2>1 DEF Result, Word
  <2>2. CASE insn.op \in {"div", "rem"}
    BY <1>2, <2>2, DivisionTyped DEF Result
  <2>3. CASE IsLoad(insn)
    <3>1. Loaded(insn, addr, data) \in Word
      <4>1. data \in Word
        BY <1>7, <2>3
      <4> HIDE DEF data, addr
      <4> QED BY <1>3, <4>1 DEF Loaded, Word, Byte
    <3> QED BY <2>3, <3>1 DEF Result, IsLoad, IsJump
  <2>4. CASE insn.op = "csrrw"
    <3>1. insn.rd # 0 => insn.csr \in Csrs \ TrapState
      BY <1>1
    <3>2. insn.rd # 0 /\ insn.csr \notin {"mip", "mcycle"} => core.csrs[insn.csr] \in Word
      BY <3>1 DEF CoreTyped
    <3> QED BY <2>4, <3>2 DEF Result, IsLoad, IsJump
  <2>5. CASE insn.op \notin {"addi", "div", "rem", "csrrw"} /\ ~IsLoad(insn) /\ ~IsJump(insn)
    BY <2>5 DEF Result, Word
  <2>6. CASE IsJump(insn)
    BY <1>1, <2>6 DEF Result, IsJump, Link, Word
  <2> QED BY <2>1, <2>2, <2>3, <2>4, <2>5, <2>6
<1>9. CompletedAs(step, insn, read, levels)
  BY CompletedIs
<1> HIDE DEF step
<1>10. /\ DOMAIN step = {"row", "after"} /\ DOMAIN row = RowFields
       /\ row.order = order /\ row.epoch = epoch /\ row.intr = FALSE /\ row.trap = FALSE
       /\ row.pc = core.pc
       /\ row.insn = insn /\ row.rs1 = core.regs[insn.rs1] /\ row.rs2 = core.regs[insn.rs2]
       /\ row.rd = insn.rd /\ row.csrs = core.csrs
       /\ row.next = next /\ row.value = IF insn.rd = 0 THEN 0 ELSE value
  BY <1>9 DEF CompletedAs
<1>11. IF IsLoad(insn) THEN row.addr = addr /\ row.rmask = mask /\ row.wmask = {} /\ row.rdata = data /\ row.wdata = 0
       ELSE IF IsStore(insn) THEN row.addr = addr /\ row.rmask = {} /\ row.wmask = mask /\ row.wdata = b
       ELSE row.addr = 0 /\ row.rmask = {} /\ row.wmask = {} /\ row.wdata = 0
  BY <1>9 DEF CompletedAs
<1>12. /\ DOMAIN step.after = {"pc", "regs", "memory", "csrs"} /\ step.after.pc = next
       /\ step.after.regs = IF insn.rd = 0 THEN core.regs ELSE [core.regs EXCEPT ![insn.rd] = value]
       /\ step.after.memory = IF IsStore(insn) /\ addr \in SRAM
                              THEN [core.memory EXCEPT ![WordOf(addr)] = Merge(core.memory[WordOf(addr)], addr, mask, b)]
                              ELSE core.memory
       /\ step.after.csrs = CsrsAfter(insn, core.csrs, a)
  BY <1>9 DEF CompletedAs
<1>13. row.value \in Word /\ row.addr \in Int /\ row.wdata \in Word
  BY <1>2, <1>3, <1>8, <1>10, <1>11 DEF Word
<1>14. InstructionRow(row)
  <2>1. IF IsLoad(insn)
        THEN /\ row.rmask = Mask(Wide(insn), row.addr) /\ row.wmask = {}
             /\ row.addr \in SRAM \cup MMIO /\ row.rdata \in Word
             /\ row.addr \in SRAM => row.rdata = core.memory[WordOf(row.addr)]
        ELSE /\ row.rmask = {} /\ row.wmask = (IF IsStore(insn) THEN Mask(Wide(insn), row.addr) ELSE {})
    <3>1. CASE IsLoad(insn)
      <4>1. row.addr = addr /\ row.rmask = mask /\ row.wmask = {} /\ row.rdata = data
        BY <1>11, <3>1
      <4>2. addr \in SRAM => data = core.memory[WordOf(addr)]
        BY DEF SRAM, MMIO, WordRead
      <4> HIDE DEF row, data, addr
      <4> QED BY <1>5, <1>7, <3>1, <4>1, <4>2
    <3>2. CASE ~IsLoad(insn)
      <4>1. row.rmask = {} /\ row.wmask = IF IsStore(insn) THEN Mask(Wide(insn), addr) ELSE {}
        BY <1>11, <3>2
      <4>2. IsStore(insn) => row.addr = addr
        BY <1>11, <3>2
      <4> HIDE DEF row, data, addr, mask
      <4> QED BY <3>2, <4>1, <4>2
    <3> QED BY <3>1, <3>2
  <2>2. row.rd # 0 =>
          /\ insn.op = "addi" => row.value = (a + insn.imm) % 4
          /\ insn.op = "div" => row.value = Division(a, b)[1]
          /\ insn.op = "rem" => row.value = Division(a, b)[2]
          /\ IsJump(insn) => row.value = Link(core.pc)
          /\ IsLoad(insn) => row.value = Loaded(insn, row.addr, row.rdata)
          /\ insn.op = "csrrw" /\ insn.csr \notin {"mip", "mcycle"} => row.value = core.csrs[insn.csr]
    <3> HIDE DEF data, addr
    <3> QED BY <1>10, <1>11 DEF Result, IsLoad, IsJump, data, addr
  <2> HIDE DEF row, next, data, addr
  <2> QED BY <1>5, <1>10, <2>1, <2>2 DEF InstructionRow, next
<1>15. CoreTyped(step.after)
  <2>1. step.after.regs \in [Register -> Word]
    <3> HIDE DEF value
    <3> QED BY <1>1, <1>8, <1>12 DEF CoreTyped
  <2>2. step.after.memory \in [{0, 2} -> Word]
    <3>1. CASE IsStore(insn) /\ addr \in SRAM
      <4> DEFINE new == Merge(core.memory[WordOf(addr)], addr, mask, b)
      <4>1. new \in Word
        <5> DEFINE w == core.memory[WordOf(addr)]
        <5>1. w \in Int
          BY <1>6, <3>1 DEF Word
        <5> HIDE DEF w, mask, addr, b
        <5> QED BY <1>2, <1>3, <5>1, MergeTyped DEF w
      <4> HIDE DEF new
      <4> QED BY <1>6, <1>12, <3>1, <4>1 DEF CoreTyped, new
    <3>2. CASE ~(IsStore(insn) /\ addr \in SRAM)
      BY <1>12, <3>2 DEF CoreTyped
    <3> QED BY <3>1, <3>2
  <2>3. /\ IsCsrs(step.after.csrs) /\ \A csr \in Csrs : step.after.csrs[csr] \in Int
        /\ \A csr \in Csrs \ TrapState : step.after.csrs[csr] \in Word
    <3>1. DOMAIN core.csrs = Csrs /\ Word \subseteq Int
      BY DEF CoreTyped, IsCore, IsCsrs, Word
    <3>2. CASE insn.op = "mret"
      <4>1. core.csrs["mstatus"] \in Word
        BY DEF CoreTyped, Csrs, Snapshot, TrapState
      <4>2. 2 + High(core.csrs["mstatus"]) \in Word
        BY <4>1 DEF High, Word
      <4>3. step.after.csrs = [core.csrs EXCEPT !["mstatus"] = 2 + High(core.csrs["mstatus"])]
        BY <1>12, <3>2 DEF CsrsAfter, Returned
      <4> QED BY <3>1, <4>2, <4>3 DEF CoreTyped, IsCsrs
    <3>3. CASE insn.op # "mret" /\ insn.op = "csrrw" /\ insn.csr \in Snapshot
      <4>1. Legal(insn.csr, a) \in Word
        <5> HIDE DEF a
        <5> QED BY <1>2 DEF Legal, Word
      <4>2. step.after.csrs = [core.csrs EXCEPT ![insn.csr] = Legal(insn.csr, a)]
        BY <1>12, <3>3 DEF CsrsAfter
      <4> HIDE DEF a
      <4> QED BY <3>1, <4>1, <4>2 DEF CoreTyped, IsCsrs
    <3>4. CASE insn.op # "mret" /\ ~(insn.op = "csrrw" /\ insn.csr \in Snapshot)
      BY <1>12, <3>4 DEF CsrsAfter, CoreTyped, IsCore
    <3> QED BY <3>2, <3>3, <3>4
  <2> QED BY <1>4, <1>12, <2>1, <2>2, <2>3 DEF CoreTyped, IsCore
<1> HIDE DEF row, next
<1> QED BY <1>10, <1>13, <1>14, <1>15 DEF row, step, CompletedSo

LEMMA InstructionSteps ==
  ASSUME CoreTyped(core), Execute, ProgramsWellFormed, program \in PROGRAMS
  PROVE  \E step : CoreStep(step)
<1> DEFINE insn == program[core.pc]
           lines == IF insn.csr = "mip" THEN BOOLEAN ELSE {FALSE}
<1>1. /\ Goes /\ core.pc \in DOMAIN program /\ Cause(insn, FALSE) = NoTrap
      /\ \E read \in Word, e, t \in lines :
           /\ ~Enabled(e, t)
           /\ \E ext \in Later(e), timer \in Later(t) :
                LET step == Completed(insn, read, Pair(e, t))
                IN Retires([step EXCEPT !.row.ext = ext, !.row.timer = timer])
  BY DEF Execute
<1>2. lines \subseteq BOOLEAN
  OBVIOUS
<1>3. WellFormed(insn)
  BY <1>1 DEF ProgramsWellFormed
<1> HIDE DEF lines, insn
<1>4. PICK read \in Word, e \in lines, t \in lines :
        \E ext \in Later(e), timer \in Later(t) :
          Retires([Completed(insn, read, Pair(e, t)) EXCEPT !.row.ext = ext, !.row.timer = timer])
  BY <1>1, Zenon
<1>5. PICK ext \in Later(e), timer \in Later(t) :
        Retires([Completed(insn, read, Pair(e, t)) EXCEPT !.row.ext = ext, !.row.timer = timer])
  BY <1>4
<1>6. ext \in BOOLEAN /\ timer \in BOOLEAN /\ e \in BOOLEAN /\ t \in BOOLEAN
  BY <1>2 DEF Later
<1>7. Pair(e, t) \in Word
  BY <1>6 DEF Pair, Word
<1> DEFINE levels == Pair(e, t)
           done == Completed(insn, read, levels)
           step == [done EXCEPT !.row.ext = ext, !.row.timer = timer]
           next == NextOf(insn, core.regs, core.csrs, core.pc)
<1> HIDE DEF levels
<1>8. CompletedSo(done, insn)
  BY <1>1, <1>3, <1>7, CompletedShows DEF levels
<1> HIDE DEF done
<1>9. step.after = done.after /\ step.row = [done.row EXCEPT !.ext = ext, !.timer = timer]
  BY <1>8 DEF CompletedSo
<1>10. Goes /\ Retires(step)
  BY <1>1, <1>5 DEF done, levels
<1> HIDE DEF step
<1>11. /\ DOMAIN step.row = RowFields
       /\ \A f \in RowFields \ {"ext", "timer"} : step.row[f] = done.row[f]
  BY <1>8, <1>9 DEF CompletedSo
<1>12. /\ step.row.order = done.row.order /\ step.row.epoch = done.row.epoch /\ step.row.intr = done.row.intr
       /\ step.row.trap = done.row.trap /\ step.row.pc = done.row.pc /\ step.row.next = done.row.next
       /\ step.row.insn = done.row.insn /\ step.row.rs1 = done.row.rs1 /\ step.row.rs2 = done.row.rs2
       /\ step.row.rd = done.row.rd /\ step.row.value = done.row.value /\ step.row.addr = done.row.addr
       /\ step.row.wdata = done.row.wdata /\ step.row.rdata = done.row.rdata /\ step.row.rmask = done.row.rmask
       /\ step.row.wmask = done.row.wmask /\ step.row.csrs = done.row.csrs
  BY <1>11 DEF RowFields
<1>13. InstructionRow(step.row)
  BY <1>8, <1>12 DEF CompletedSo, InstructionRow
<1>14. AnyRow(step.row)
  <2>1. insn.rd \in Register
    BY <1>3 DEF WellFormed
  <2>2. IsCsrs(core.csrs)
    BY DEF CoreTyped, IsCore
  <2> QED BY <1>1, <1>3, <1>8, <1>11, <1>12, <2>1, <2>2 DEF CompletedSo, AnyRow, insn
<1> QED BY <1>8, <1>9, <1>10, <1>13, <1>14 DEF CompletedSo, CoreStep

-----------------------------------------------------------------------------
(* What the checker says of a row.                                         *)

\* The destination and the value that the checker works out.
DestinationOf(insn) ==
  IF IsStore(insn) \/ insn.op \in {"beq", "mret", "ebreak", "ecall", "bad_jalr", "bad_branch"}
  THEN 0 ELSE insn.rd

ValueOf(c, row) ==
  LET insn == row.insn
      a == c.regs[insn.rs1]
      b == c.regs[insn.rs2]
  IN IF insn.op = "addi" THEN (a + insn.imm) % 4
     ELSE IF insn.op \in {"div", "rem"} THEN Rv32mResult(insn.op, a, b)
     ELSE IF IsJump(insn) THEN Link(row.pc)
     ELSE IF IsLoad(insn)
          THEN Loaded(insn, row.addr, IF row.addr \in SRAM THEN c.memory[WordOf(row.addr)] ELSE row.rdata)
     ELSE IF insn.op = "csrrw" /\ insn.csr = "mip" THEN Pair(row.ext, row.timer)
     ELSE IF insn.op = "csrrw" /\ insn.csr = "mcycle" THEN row.value
     ELSE c.csrs[insn.csr]

LEMMA InstructionJudged ==
  ASSUME NEW c, NEW row, IsCsrs(c.csrs), row.insn.csr \in Csrs
  PROVE  LET insn == row.insn
             bad == CheckInstruction(c, row).bad
         IN /\ bad \subseteq {"mask", "source", "legal", "next", "destination"}
            /\ "mask" \in bad <=> \/ IsLoad(insn) /\ row.rmask # Mask(Wide(insn), row.addr)
                                  \/ IsStore(insn) /\ row.wmask # Mask(Wide(insn), row.addr)
            /\ "source" \in bad <=> IsLoad(insn) /\ row.addr \in SRAM /\ row.rdata # c.memory[WordOf(row.addr)]
            /\ "legal" \in bad <=> \/ insn.op \in {"ecall", "illegal", "bad_jalr", "bad_branch"}
                                   \/ IsLoad(insn) /\ row.rmask = {}
                                   \/ IsStore(insn) /\ row.wmask = {}
            /\ "next" \in bad <=> row.next # NextOf(insn, c.regs, c.csrs, row.pc)
            /\ "destination" \in bad <=> \/ row.rd # DestinationOf(insn)
                                         \/ (row.rd # 0 /\ row.value # ValueOf(c, row))
<1> DEFINE insn == row.insn
           bad == CheckInstruction(c, row).bad
           a == c.regs[insn.rs1]
           b == c.regs[insn.rs2]
           memory == IsLoad(insn) /\ row.addr \in SRAM
           word == IF memory THEN c.memory[WordOf(row.addr)] ELSE row.rdata
           csrs == CASE insn.op = "csrrw" /\ insn.csr = "mip" -> [c.csrs EXCEPT !.mip = Pair(row.ext, row.timer)]
                     [] insn.op = "csrrw" /\ insn.csr = "mcycle" -> [c.csrs EXCEPT !.mcycle = row.value]
                     [] OTHER -> c.csrs
           next == CASE Taken(insn, a, b) -> Target(insn, a)
                     [] insn.op = "mret" -> c.csrs.mepc
                     [] OTHER -> row.pc + 2
           rd == IF IsStore(insn) \/ insn.op \in {"beq", "mret", "ebreak", "ecall", "bad_jalr", "bad_branch"}
                 THEN 0 ELSE insn.rd
           value == IF rd = 0 THEN 0
                    ELSE CASE insn.op = "addi" -> (a + insn.imm) % 4
                           [] insn.op \in {"div", "rem"} -> Rv32mResult(insn.op, a, b)
                           [] IsJump(insn) -> Link(row.pc)
                           [] IsLoad(insn) -> Loaded(insn, row.addr, word)
                           [] OTHER -> csrs[insn.csr]
<1>1. bad = {k \in {"mask", "source", "legal", "next", "destination"} :
               CASE k = "mask" -> \/ IsLoad(insn) /\ row.rmask # Mask(Wide(insn), row.addr)
                                  \/ IsStore(insn) /\ row.wmask # Mask(Wide(insn), row.addr)
                 [] k = "source" -> memory /\ row.rdata # word
                 [] k = "legal" -> \/ insn.op \in {"ecall", "illegal", "bad_jalr", "bad_branch"}
                                   \/ IsLoad(insn) /\ row.rmask = {}
                                   \/ IsStore(insn) /\ row.wmask = {}
                 [] k = "next" -> row.next # next
                 [] k = "destination" -> row.rd # rd \/ (row.rd # 0 /\ row.value # value)}
  BY DEF CheckInstruction
<1> HIDE DEF bad
<1>2. next = NextOf(insn, c.regs, c.csrs, row.pc)
  BY DEF NextOf, Taken, IsJump
<1>3. rd = DestinationOf(insn)
  BY DEF DestinationOf
<1>4. rd # 0 => value = ValueOf(c, row)
  <2>1. /\ insn.op = "csrrw" /\ insn.csr = "mip" => csrs[insn.csr] = Pair(row.ext, row.timer)
        /\ insn.op = "csrrw" /\ insn.csr = "mcycle" => csrs[insn.csr] = row.value
        /\ ~(insn.op = "csrrw" /\ insn.csr \in {"mip", "mcycle"}) => csrs[insn.csr] = c.csrs[insn.csr]
    BY DEF IsCsrs, Csrs
  <2>2. IsLoad(insn) => insn.op \notin {"addi", "div", "rem", "csrrw"} /\ ~IsJump(insn)
    BY DEF IsLoad, IsJump
  <2>3. IsJump(insn) => insn.op \notin {"addi", "div", "rem", "csrrw"}
    BY DEF IsJump
  <2>4. IsLoad(insn) => word = IF row.addr \in SRAM THEN c.memory[WordOf(row.addr)] ELSE row.rdata
    OBVIOUS
  <2> HIDE DEF csrs, word, rd
  <2> QED BY <2>1, <2>2, <2>3, <2>4 DEF ValueOf
<1> HIDE DEF next, rd, value
<1>5. bad \subseteq {"mask", "source", "legal", "next", "destination"}
  BY <1>1
<1>6. "mask" \in bad <=> \/ IsLoad(insn) /\ row.rmask # Mask(Wide(insn), row.addr)
                         \/ IsStore(insn) /\ row.wmask # Mask(Wide(insn), row.addr)
  BY <1>1
<1>7. "source" \in bad <=> IsLoad(insn) /\ row.addr \in SRAM /\ row.rdata # c.memory[WordOf(row.addr)]
  BY <1>1
<1>8. "legal" \in bad <=> \/ insn.op \in {"ecall", "illegal", "bad_jalr", "bad_branch"}
                          \/ IsLoad(insn) /\ row.rmask = {}
                          \/ IsStore(insn) /\ row.wmask = {}
  BY <1>1
<1>9. "next" \in bad <=> row.next # NextOf(insn, c.regs, c.csrs, row.pc)
  BY <1>1, <1>2
<1>10. "destination" \in bad <=> row.rd # DestinationOf(insn) \/ (row.rd # 0 /\ row.value # ValueOf(c, row))
  <2>1. "destination" \in bad <=> row.rd # rd \/ (row.rd # 0 /\ row.value # value)
    BY <1>1
  <2> QED BY <1>3, <1>4, <2>1
<1> QED BY <1>5, <1>6, <1>7, <1>8, <1>9, <1>10 DEF bad

\* A checker that is in step with the core.
InStep(c) == Agrees(c, core) /\ c.order = order

LEMMA HeadFine ==
  ASSUME NEW c, InStep(c), NEW row, AnyRow(row)
  PROVE  HeadComplaints(c, row) = {}
<1>1. row.order = c.order /\ row.pc = c.pc /\ row.rs1 = c.regs[row.insn.rs1] /\ row.rs2 = c.regs[row.insn.rs2]
  BY DEF InStep, Agrees, AnyRow
<1>2. ~row.intr => row.pc \in DOMAIN program /\ row.insn = program[row.pc]
  BY DEF AnyRow
<1>3. \A csr \in Snapshot \ (IF row.trap \/ row.intr THEN TrapState ELSE {}) : row.csrs[csr] = c.csrs[csr]
  <2>1. \A csr \in Snapshot : c.csrs[csr] = core.csrs[csr]
    BY DEF InStep, Agrees, SameCsrs
  <2> QED BY <2>1 DEF AnyRow
<1> QED BY <1>1, <1>2, <1>3 DEF HeadComplaints

LEMMA MaskTouches == \A wide, addr : Mask(wide, addr) # {}
BY DEF Mask

ReadsMip(insn) == insn.op = "csrrw" /\ insn.csr = "mip"

\* The checker is right about an instruction, but for a read of mip.
LEMMA InstructionFine ==
  ASSUME CoreTyped(core), NEW c, InStep(c), NEW row, AnyRow(row), InstructionRow(row)
  PROVE  /\ CheckInstruction(c, row).bad \subseteq {"destination"}
         /\ ~ReadsMip(row.insn) => CheckInstruction(c, row).bad = {}
         /\ row.rd = DestinationOf(row.insn)
<1> DEFINE insn == row.insn
           bad == CheckInstruction(c, row).bad
<1>1. /\ WellFormed(insn) /\ row.pc = core.pc
      /\ insn.csr \in Csrs /\ IsCsrs(c.csrs)
      /\ c.regs = core.regs /\ c.memory = core.memory /\ \A csr \in Snapshot : c.csrs[csr] = core.csrs[csr]
  BY DEF AnyRow, InstructionRow, WellFormed, InStep, Agrees, SameCsrs
<1>2. IsLoad(insn) => ~IsStore(insn)
  BY DEF IsLoad, IsStore
<1>3. "mask" \notin bad /\ "source" \notin bad /\ "legal" \notin bad
  BY <1>1, <1>2, InstructionJudged, MaskTouches DEF InstructionRow
<1>4. "next" \notin bad
  <2>1. NextOf(insn, c.regs, c.csrs, row.pc) = NextOf(insn, core.regs, core.csrs, core.pc)
    BY <1>1 DEF NextOf, Snapshot
  <2> QED BY <1>1, <2>1, InstructionJudged DEF InstructionRow
<1>5. row.rd = DestinationOf(insn)
  BY <1>1 DEF DestinationOf, InstructionRow, WellFormed, IsStore
<1>6. ASSUME row.rd # 0, ~ReadsMip(insn) PROVE row.value = ValueOf(c, row)
  <2>1. insn.op \in {"addi", "div", "rem", "jal", "jalr", "lw", "lb", "csrrw"}
    BY <1>1, <1>6 DEF InstructionRow, WellFormed, Op
  <2>2. c.regs[insn.rs1] \in Word /\ c.regs[insn.rs2] \in Word
    BY <1>1 DEF WellFormed, CoreTyped
  <2>3. CASE insn.op = "addi"
    BY <1>1, <1>6, <2>3 DEF ValueOf, InstructionRow
  <2>4. CASE insn.op \in {"div", "rem"}
    BY <1>1, <1>6, <2>2, <2>4, ResultIsDivision DEF ValueOf, InstructionRow
  <2>5. CASE IsLoad(insn)
    <3>1. row.value = Loaded(insn, row.addr, row.rdata) /\ (row.addr \in SRAM => row.rdata = c.memory[WordOf(row.addr)])
      BY <1>1, <1>6, <2>5 DEF InstructionRow
    <3> QED BY <2>5, <3>1 DEF ValueOf, IsLoad, IsJump
  <2>6. CASE insn.op = "csrrw"
    <3>1. CASE insn.csr = "mcycle"
      BY <2>6, <3>1 DEF ValueOf, IsLoad, IsJump
    <3>2. CASE insn.csr # "mcycle"
      <4>1. insn.csr \in Snapshot
        BY <1>1, <1>6, <2>6, <3>2 DEF Csrs, ReadsMip
      <4> QED BY <1>1, <1>6, <2>6, <3>2, <4>1 DEF ValueOf, IsLoad, IsJump, InstructionRow, ReadsMip
    <3> QED BY <3>1, <3>2
  <2>7. CASE IsJump(insn)
    BY <1>1, <1>6, <2>7 DEF ValueOf, InstructionRow, IsJump
  <2> QED BY <2>1, <2>3, <2>4, <2>5, <2>6, <2>7 DEF IsLoad, IsJump
<1>7. ~ReadsMip(insn) => "destination" \notin bad
  BY <1>1, <1>5, <1>6, InstructionJudged
<1>8. bad \subseteq {"mask", "source", "legal", "next", "destination"}
  BY <1>1, InstructionJudged
<1> HIDE DEF bad
<1>9. bad \subseteq {"destination"} /\ (~ReadsMip(insn) => bad = {})
  BY <1>3, <1>4, <1>7, <1>8
<1> QED BY <1>5, <1>9 DEF bad

\* The checker is right about a trap, but for a jump or branch that is none.
LEMMA TrapFine ==
  ASSUME CoreTyped(core), NEW c, InStep(c), NEW row, AnyRow(row), TrapRow(row)
  PROVE  \/ CheckTrap(c, row).bad = {}
         \/ NoJump(row) /\ CauseOf(row) = 2 /\ CheckTrap(c, row).bad = {"cause", "entry"}
<1> DEFINE insn == row.insn
           target == Target(insn, c.regs[insn.rs1])
           expected == CASE insn.op = "ecall" -> 11
                         [] insn.op = "ebreak" -> 3
                         [] HasTarget(insn) -> IF Misaligned(target) THEN 0 ELSE 2
                         [] IsLoad(insn) -> IF Wide(insn) /\ row.addr % 2 = 1 THEN 4 ELSE 5
                         [] IsStore(insn) -> IF Wide(insn) /\ row.addr % 2 = 1 THEN 6
                                             ELSE IF row.addr \in MMIO /\ ~Wide(insn) THEN 2 ELSE 7
                         [] OTHER -> 2
           value == CASE expected = 0 -> target
                      [] expected = 2 -> Encoding(insn)
                      [] expected \in 4 .. 7 -> row.addr
                      [] OTHER -> 0
           bad == CheckTrap(c, row).bad
<1>1. bad = {k \in {"target", "destination", "cause", "entry"} :
               CASE k = "target" -> row.next # Handler
                 [] k = "destination" -> row.rd # 0 \/ row.value # 0
                 [] k = "cause" -> row.csrs.mcause # expected
                 [] k = "entry" -> row.csrs.mepc # row.pc \/ row.csrs.mtval # value}
  BY DEF CheckTrap
<1>2. /\ WellFormed(insn) /\ row.pc = core.pc /\ row.rs1 = c.regs[insn.rs1] /\ c.regs[insn.rs1] \in Word
      /\ row.rd = 0 /\ row.value = 0 /\ row.next = Handler
      /\ row.csrs["mcause"] = CauseOf(row) /\ row.csrs["mepc"] = core.pc /\ row.csrs["mtval"] = MtvalOf(row)
      /\ CauseOf(row) = 0 => Misaligned(target)
  BY DEF AnyRow, TrapRow, EntryRow, InStep, Agrees, WellFormed, CoreTyped
<1>3. target = Target(insn, row.rs1)
  BY <1>2
<1> HIDE DEF bad
<1>4. CASE ~NoJump(row)
  <2>1. expected = CauseOf(row)
    <3> HIDE DEF target
    <3> QED BY <1>2, <1>3, <1>4 DEF CauseOf, HasTarget, IsJump, IsLoad, IsStore, NoJump
  <2>2. value = MtvalOf(row)
    <3> HIDE DEF expected, target
    <3> QED BY <1>3, <2>1 DEF MtvalOf
  <2> HIDE DEF expected, value
  <2>3. bad = {}
    BY <1>1, <1>2, <2>1, <2>2
  <2> QED BY <2>3 DEF bad
<1>5. CASE NoJump(row)
  <2>1. expected = 0 /\ CauseOf(row) = 2
    <3> HIDE DEF target
    <3> QED BY <1>3, <1>5 DEF NoJump, CauseOf, HasTarget, IsJump, IsLoad, IsStore
  <2>2. value = target /\ MtvalOf(row) = Encoding(insn)
    <3> HIDE DEF expected, target
    <3> QED BY <2>1 DEF MtvalOf
  <2>3. target # Encoding(insn)
    BY <1>2, <1>5 DEF NoJump, Target, Encoding, WellFormed, Word
  <2> HIDE DEF expected, value, target
  <2>4. /\ row.csrs.mcause = 2 /\ 2 # expected /\ row.csrs.mtval = Encoding(insn) /\ Encoding(insn) # value
        /\ row.next = Handler /\ row.rd = 0 /\ row.value = 0
    BY <1>2, <2>1, <2>2, <2>3
  <2>5. bad = {"cause", "entry"}
    BY <1>1, <2>4
  <2> QED BY <1>5, <2>1, <2>5 DEF bad
<1> QED BY <1>4, <1>5 DEF bad

\* A timer interrupt is taken for an external one if the external line is up.
LEMMA InterruptFine ==
  ASSUME NEW c, NEW row, NEW cause, AnyRow(row), InterruptRow(row, cause)
  PROVE  \/ CheckInterrupt(c, row).bad = {}
         \/ cause = Timer /\ row.ext /\ "cause" \in CheckInterrupt(c, row).bad
<1>1. row.csrs["mtvec"] = core.csrs["mtvec"]
  BY DEF AnyRow, InterruptRow, Snapshot, TrapState
<1>2. CASE cause = Timer /\ row.ext
  <2>1. row.csrs.mcause = Timer /\ External # Timer /\ (row.ext <=> TRUE)
    BY <1>2 DEF InterruptRow, EntryRow, External, Timer
  <2>2. "cause" \in CheckInterrupt(c, row).bad
    BY <2>1 DEF CheckInterrupt
  <2> QED BY <1>2, <2>2
<1>3. CASE ~(cause = Timer /\ row.ext)
  <2>1. cause = IF row.ext THEN External ELSE Timer
    BY <1>3 DEF InterruptRow
  <2> QED BY <1>1, <2>1 DEF AnyRow, InterruptRow, EntryRow, CheckInterrupt
<1> QED BY <1>2, <1>3

-----------------------------------------------------------------------------
(* The checker after a row.                                                *)

CheckedSo(k, row, c, next) ==
  /\ IsChecker(c) /\ IsChecker(next)
  /\ next.mismatches = k.mismatches \cup HeadComplaints(c, row) \cup Body(c, row).bad
  /\ next.order = row.order + 1 /\ next.previous = <<row.order, row.epoch>>
  /\ next.regs = Body(c, row).after.regs /\ next.memory = Body(c, row).after.memory

LEMMA Checked ==
  ASSUME NEW k, IsChecker(k), NEW row
  PROVE  CheckedSo(k, row, Restarted(k, row), CheckRow(k, row))
<1> DEFINE c == Restarted(k, row)
           after == Body(c, row).after
           bad == Body(c, row).bad
<1>1. IsChecker(c) /\ c.mismatches = k.mismatches
  BY DEF Restarted, IsChecker
<1> HIDE DEF c
<1>2. IsChecker(after) /\ after.mismatches = c.mismatches
  <2>1. CASE row.intr
    BY <1>1, <2>1 DEF Body, CheckInterrupt, IsChecker
  <2>2. CASE ~row.intr /\ row.trap
    BY <1>1, <2>2 DEF Body, CheckTrap, IsChecker
  <2>3. CASE ~row.intr /\ ~row.trap
    BY <1>1, <2>3 DEF Body, CheckInstruction, IsChecker
  <2> QED BY <2>1, <2>2, <2>3
<1>3. CheckRow(k, row) =
        [after EXCEPT !.order = row.order + 1, !.previous = <<row.order, row.epoch>>,
           !.mismatches = @ \cup HeadComplaints(c, row) \cup bad]
  BY DEF CheckRow, Body, c
<1> HIDE DEF after, bad
<1>4. /\ IsChecker(CheckRow(k, row))
      /\ CheckRow(k, row).mismatches = k.mismatches \cup HeadComplaints(c, row) \cup bad
      /\ CheckRow(k, row).order = row.order + 1 /\ CheckRow(k, row).previous = <<row.order, row.epoch>>
      /\ CheckRow(k, row).regs = after.regs /\ CheckRow(k, row).memory = after.memory
  BY <1>1, <1>2, <1>3 DEF IsChecker
<1> QED BY <1>1, <1>4 DEF c, after, bad, CheckedSo

\* Registers and memory of words.
CheckerTyped(k) == IsChecker(k) /\ k.regs \in [Register -> Word] /\ k.memory \in [{0, 2} -> Word]

LEMMA CheckedTyped ==
  ASSUME NEW k, CheckerTyped(k), NEW row, row.rd \in Register, row.value \in Word, row.addr \in Int,
         row.wdata \in Word
  PROVE  CheckerTyped(CheckRow(k, row))
<1> DEFINE c == Restarted(k, row)
           after == Body(c, row).after
<1>1. CheckerTyped(c)
  <2>1. ResetState.regs \in [Register -> Word] /\ ResetState.memory \in [{0, 2} -> Word]
    BY DEF ResetState, Word
  <2>2. IsChecker(k) /\ k.regs \in [Register -> Word] /\ k.memory \in [{0, 2} -> Word]
    BY DEF CheckerTyped
  <2>3. IsChecker(c) /\ (c.regs = k.regs \/ c.regs = ResetState.regs) /\ (c.memory = k.memory \/ c.memory = ResetState.memory)
    BY <2>2 DEF Restarted, IsChecker
  <2> HIDE DEF c
  <2> QED BY <2>1, <2>2, <2>3 DEF CheckerTyped
<1> HIDE DEF c
<1>2. after.regs \in [Register -> Word] /\ after.memory \in [{0, 2} -> Word]
  <2>1. CASE row.intr
    BY <1>1, <2>1 DEF Body, CheckInterrupt, CheckerTyped, IsChecker
  <2>2. CASE ~row.intr /\ row.trap
    BY <1>1, <2>2 DEF Body, CheckTrap, CheckerTyped, IsChecker
  <2>3. CASE ~row.intr /\ ~row.trap
    <3> DEFINE new == Merge(c.memory[WordOf(row.addr)], row.addr, row.wmask, row.wdata)
    <3>1. /\ after.regs = IF row.rd = 0 THEN c.regs ELSE [c.regs EXCEPT ![row.rd] = row.value]
          /\ after.memory = IF IsStore(row.insn) /\ row.addr \in SRAM
                            THEN [c.memory EXCEPT ![WordOf(row.addr)] = new] ELSE c.memory
      BY <1>1, <2>3 DEF Body, CheckInstruction, CheckerTyped, IsChecker
    <3>2. row.addr \in SRAM => new \in Word
      <4>1. row.addr \in SRAM => WordOf(row.addr) \in {0, 2}
        BY DEF SRAM, WordOf
      <4>2. row.addr \in SRAM => c.memory[WordOf(row.addr)] \in Word
        BY <1>1, <4>1 DEF CheckerTyped
      <4>3. Word \subseteq Int
        BY DEF Word
      <4> QED BY <4>2, <4>3, MergeTyped
    <3> HIDE DEF new, after
    <3>3. after.regs \in [Register -> Word]
      BY <1>1, <3>1 DEF CheckerTyped
    <3>4. after.memory \in [{0, 2} -> Word]
      <4>1. c.memory \in [{0, 2} -> Word]
        BY <1>1 DEF CheckerTyped
      <4>2. CASE IsStore(row.insn) /\ row.addr \in SRAM
        BY <3>1, <3>2, <4>1, <4>2
      <4>3. CASE ~(IsStore(row.insn) /\ row.addr \in SRAM)
        BY <3>1, <4>1, <4>3
      <4> QED BY <4>2, <4>3
    <3> QED BY <3>3, <3>4
  <2> QED BY <2>1, <2>2, <2>3
<1>3. /\ IsChecker(CheckRow(k, row))
      /\ CheckRow(k, row).regs = after.regs /\ CheckRow(k, row).memory = after.memory
  BY Checked DEF CheckerTyped, CheckedSo, c
<1> QED BY <1>2, <1>3 DEF CheckerTyped

-----------------------------------------------------------------------------
(* False alarms.                                                           *)

OrderSo == order # 0 \/ iss.previous = <<>> => iss.order = order

Followed == Unaltered /\ iss.mismatches = {} => OrderSo

SoundInv ==
  /\ CheckerInv /\ Followed /\ program \in PROGRAMS /\ CoreTyped(core) /\ CheckerTyped(iss)
  /\ order \in Nat /\ epoch \in Nat
  /\ DOMAIN altered = {"kind", "row", "followed"} /\ altered.kind \in Alteration \cup {"none"}

LEMMA Steps ==
  ASSUME SoundInv, ProgramsWellFormed, Next
  PROVE  (\E step : CoreStep(step)) \/ Reset
BY InterruptSteps, TrapSteps, InstructionSteps DEF SoundInv, Next

LEMMA RestartInStep ==
  ASSUME Synced, OrderSo, NEW row, row.order = order, row.epoch = epoch
  PROVE  InStep(Restarted(iss, row))
<1>1. Agrees(Restarted(iss, row), core)
  BY RestartAgrees
<1>2. Restarted(iss, row).order = order
  <2>1. CASE order = 0 /\ iss.previous = <<>>
    BY <2>1 DEF OrderSo, Restarted
  <2>2. CASE order = 0 /\ iss.previous # <<>>
    <3>1. row.epoch # iss.previous[2] /\ IsChecker(iss)
      BY <2>2 DEF Synced
    <3> QED BY <2>2, <3>1 DEF Restarted, IsChecker
  <2>3. CASE order # 0
    <3>1. iss.previous = <<order - 1, epoch>> /\ order \in Nat
      BY <2>3 DEF Synced
    <3> QED BY <2>3, <3>1 DEF Restarted, OrderSo
  <2> QED BY <2>1, <2>2, <2>3
<1> QED BY <1>1, <1>2 DEF InStep

KnownAlarm ==
  LET insn == program[core.pc]
  IN \/ "cause" \in iss'.mismatches /\ core'.csrs.mcause = Timer /\ core'.csrs.mepc = core.pc
     \/ iss'.mismatches = {"destination"} /\ insn.op = "csrrw" /\ insn.csr = "mip"
     \/ /\ iss'.mismatches = {"cause", "entry"} /\ insn.op \in {"bad_jalr", "bad_branch"}
        /\ core'.csrs.mcause = 2 /\ Misaligned(Target(insn, core.regs[insn.rs1]))

LEMMA AlarmIsKnown ==
  ASSUME SoundInv, ProgramsWellFormed, Next, altered'.kind = "none", iss'.mismatches # {}
  PROVE  KnownAlarm
<1>1. ~Reset
  BY DEF Reset, Goes
<1>2. PICK step : CoreStep(step)
  BY <1>1, Steps
<1> DEFINE row == step.row
           c == Restarted(iss, row)
<1>3. altered.kind = "none" /\ iss' = CheckRow(iss, row) /\ core' = step.after /\ iss.mismatches = {}
  <2>1. Retires(step) /\ Goes
    BY <1>2 DEF CoreStep
  <2>2. CASE altered' = [altered EXCEPT !.followed =
               altered.kind # "none" /\ (@ \/ row.epoch = altered.row.epoch)] /\ iss' = CheckRow(iss, row)
    BY <2>1, <2>2 DEF SoundInv, Retires, Goes
  <2>3. CASE \E kind \in Alteration : altered' = [kind |-> kind, row |-> row, followed |-> FALSE]
    BY <2>3 DEF Alteration
  <2> QED BY <2>1, <2>2, <2>3 DEF Retires, Traced
<1>4. AnyRow(row) /\ row.order = order /\ row.epoch = epoch
  BY <1>2 DEF CoreStep, AnyRow
<1>5. InStep(c)
  BY <1>3, <1>4, RestartInStep DEF SoundInv, CheckerInv, Followed, Unaltered
<1>6. iss'.mismatches = Body(c, row).bad
  <2>1. iss'.mismatches = iss.mismatches \cup HeadComplaints(c, row) \cup Body(c, row).bad
    <3>1. IsChecker(iss)
      BY DEF SoundInv, CheckerTyped
    <3>2. CheckedSo(iss, row, c, CheckRow(iss, row))
      BY <3>1, Checked
    <3> HIDE DEF c, row
    <3> QED BY <1>3, <3>2 DEF CheckedSo
  <2>2. HeadComplaints(c, row) = {}
    BY <1>4, <1>5, HeadFine
  <2> QED BY <1>3, <2>1, <2>2
<1>7. CASE \E cause : InterruptRow(row, cause)
  <2>1. PICK cause : InterruptRow(row, cause)
    BY <1>7
  <2>2. Body(c, row) = CheckInterrupt(c, row)
    BY <2>1 DEF InterruptRow, Body
  <2>3. cause = Timer /\ "cause" \in iss'.mismatches
    BY <1>4, <1>6, <2>1, <2>2, InterruptFine
  <2>4. row.csrs["mcause"] = cause /\ row.intr /\ ~row.trap
    BY <2>1 DEF InterruptRow, EntryRow
  <2>5. step.after.csrs["mcause"] = Timer /\ step.after.csrs["mepc"] = core.pc
    BY <1>2, <2>3, <2>4 DEF CoreStep, InstructionRow
  <2> QED BY <1>3, <2>3, <2>5 DEF KnownAlarm
<1>8. CASE TrapRow(row)
  <2>1. /\ Body(c, row) = CheckTrap(c, row) /\ row.insn = program[core.pc]
        /\ row.rs1 = core.regs[row.insn.rs1] /\ row.csrs["mcause"] = CauseOf(row)
    BY <1>4, <1>8 DEF TrapRow, EntryRow, Body, AnyRow
  <2>2. step.after.csrs["mcause"] = row.csrs["mcause"]
    BY <1>2, <1>8 DEF CoreStep, TrapRow, InstructionRow
  <2>3. CoreTyped(core)
    BY DEF SoundInv
  <2> HIDE DEF c
  <2>4. NoJump(row) /\ CauseOf(row) = 2 /\ iss'.mismatches = {"cause", "entry"}
    BY <1>4, <1>5, <1>6, <1>8, <2>1, <2>3, TrapFine
  <2> QED BY <1>3, <2>1, <2>2, <2>4 DEF KnownAlarm, NoJump
<1>9. CASE InstructionRow(row)
  <2>1. Body(c, row) = CheckInstruction(c, row) /\ row.insn = program[core.pc]
    BY <1>4, <1>9 DEF InstructionRow, Body, AnyRow
  <2>2. CoreTyped(core)
    BY DEF SoundInv
  <2> HIDE DEF c, row
  <2>3. ReadsMip(row.insn) /\ iss'.mismatches = {"destination"}
    BY <1>4, <1>5, <1>6, <1>9, <2>1, <2>2, InstructionFine
  <2> QED BY <2>1, <2>3 DEF KnownAlarm, ReadsMip
<1> QED BY <1>2, <1>7, <1>8, <1>9 DEF CoreStep

-----------------------------------------------------------------------------
(* Alterations.                                                            *)

\* What an alteration changes, and all that it leaves.
AlteredSo(kind, row, new) ==
  /\ DOMAIN new = RowFields
  /\ \A f \in RowFields \ {"next", "value", "rmask", "wmask", "csrs", "insn", "rdata", "epoch"} :
       new[f] = row[f]
  /\ IF kind = "NEXT_PC" THEN new.next = (IF row.next % 4 < 2 THEN row.next + 2 ELSE row.next - 2) ELSE new.next = row.next
  /\ IF kind = "RD_VALUE" THEN new.value = Flipped(row.value) ELSE new.value = row.value
  /\ IF kind = "MEMORY_MASK"
     THEN IF row.rmask # {} THEN new.rmask = {} /\ new.wmask = row.wmask
          ELSE new.wmask = {} /\ new.rmask = row.rmask
     ELSE new.rmask = row.rmask /\ new.wmask = row.wmask
  /\ IF kind = "MCAUSE" THEN new.csrs = [row.csrs EXCEPT !["mcause"] = 1]
     ELSE IF kind = "CSR_SNAPSHOT" THEN new.csrs = [row.csrs EXCEPT !["mstatus"] = 7]
     ELSE new.csrs = row.csrs
  /\ IF kind = "INSTRUCTION" THEN new.insn = [row.insn EXCEPT !["imm"] = row.insn.imm + 1]
     ELSE new.insn = row.insn
  /\ IF kind = "MEMORY_DATA" THEN new.rdata = Flipped(row.rdata) ELSE new.rdata = row.rdata
  /\ IF kind = "RESET_EPOCH" THEN new.epoch = row.epoch + 1 ELSE new.epoch = row.epoch

LEMMA ChangedSo ==
  ASSUME NEW row, DOMAIN row = RowFields, DOMAIN row.csrs = Csrs, NEW kind \in Alteration
  PROVE  AlteredSo(kind, row, Changed(kind, row))
<1> DEFINE new == Changed(kind, row)
<1>1. CASE kind = "NEXT_PC"
  BY <1>1 DEF Changed, AlteredSo, RowFields
<1>2. CASE kind = "RD_VALUE"
  BY <1>2 DEF Changed, AlteredSo, RowFields
<1>3. CASE kind = "MEMORY_MASK"
  BY <1>3 DEF Changed, AlteredSo, RowFields
<1>4. CASE kind = "MCAUSE"
  BY <1>4 DEF Changed, AlteredSo, RowFields
<1>5. CASE kind = "INSTRUCTION"
  BY <1>5 DEF Changed, AlteredSo, RowFields
<1>6. CASE kind = "MEMORY_DATA"
  BY <1>6 DEF Changed, AlteredSo, RowFields
<1>7. CASE kind = "CSR_SNAPSHOT"
  BY <1>7 DEF Changed, AlteredSo, RowFields
<1>8. CASE kind = "RESET_EPOCH"
  BY <1>8 DEF Changed, AlteredSo, RowFields
<1>9. CASE kind \in {"DUPLICATE", "DROPPED"}
  BY <1>9 DEF Changed, AlteredSo, RowFields
<1> QED BY <1>1, <1>2, <1>3, <1>4, <1>5, <1>6, <1>7, <1>8, <1>9 DEF Alteration

LEMMA FlippedWord == \A word \in Word : Flipped(word) \in Word /\ Flipped(word) # word /\ Flipped(word) % 2 # word % 2
BY DEF Flipped, Word

\* The row reaches the checker as it is, or altered.
AsItIs(row) ==
  /\ iss' = CheckRow(iss, row)
  /\ altered' = [altered EXCEPT !.followed =
       altered.kind # "none" /\ (@ \/ row.epoch = altered.row.epoch)]

AlteredBy(kind, row) ==
  /\ altered.kind = "none" /\ kind \in Alteration /\ Selects(kind, row)
  /\ altered' = [kind |-> kind, row |-> row, followed |-> FALSE]
  /\ iss' = CASE kind = "DROPPED" -> iss
              [] kind = "DUPLICATE" -> CheckRow(CheckRow(iss, row), row)
              [] OTHER -> CheckRow(iss, Changed(kind, row))

LEMMA TracedSo == ASSUME NEW row, Traced(row) PROVE AsItIs(row) \/ \E kind : AlteredBy(kind, row)
BY DEF Traced, AsItIs, AlteredBy

LEMMA SoundInit == Init /\ ProgramsWellFormed => SoundInv
<1> SUFFICES ASSUME Init, ProgramsWellFormed PROVE SoundInv
  OBVIOUS
<1>1. CheckerInv
  BY CheckerInit
<1>2. CoreTyped(core)
  BY DEF Init, CoreTyped, IsCore, IsCsrs, ResetState, Word, Csrs, Snapshot, TrapState
<1>3. CheckerTyped(iss)
  <2>1. ResetState.regs \in [Register -> Word] /\ ResetState.memory \in [{0, 2} -> Word]
    BY DEF ResetState, Word
  <2> QED BY <2>1 DEF Init, CheckerTyped, IsChecker
<1>4. Followed
  BY DEF Init, Followed, OrderSo
<1> QED BY <1>1, <1>2, <1>3, <1>4 DEF Init, SoundInv, None

\* What is checked is a row, whatever was done to it.
LEMMA RowTyped ==
  ASSUME NEW row, AnyRow(row), NEW k, CheckerTyped(k)
  PROVE  /\ CheckerTyped(CheckRow(k, row))
         /\ \A kind \in Alteration : CheckerTyped(CheckRow(k, Changed(kind, row)))
<1>1. CheckerTyped(CheckRow(k, row))
  BY CheckedTyped DEF AnyRow
<1>2. ASSUME NEW kind \in Alteration PROVE CheckerTyped(CheckRow(k, Changed(kind, row)))
  <2> DEFINE new == Changed(kind, row)
  <2>1. AlteredSo(kind, row, new)
    BY ChangedSo DEF AnyRow, IsCsrs
  <2> HIDE DEF new
  <2>2. new.rd = row.rd /\ new.addr = row.addr /\ new.wdata = row.wdata
    BY <2>1 DEF AlteredSo, RowFields
  <2>3. new.value \in Word
    BY <2>1, FlippedWord DEF AlteredSo, AnyRow
  <2>4. CheckerTyped(CheckRow(k, new))
    BY <2>2, <2>3, CheckedTyped DEF AnyRow
  <2> QED BY <2>4 DEF new
<1> QED BY <1>1, <1>2

LEMMA SoundStep == SoundInv /\ ProgramsWellFormed /\ [Next]_vars => SoundInv'
<1> SUFFICES ASSUME SoundInv, ProgramsWellFormed, [Next]_vars PROVE SoundInv'
  OBVIOUS
<1>1. CheckerInv'
  BY CheckerStep DEF SoundInv
<1>2. CASE UNCHANGED vars
  BY <1>1, <1>2 DEF vars, SoundInv, Followed, OrderSo, Unaltered, CoreTyped, CheckerTyped
<1>3. CASE Reset
  <2>1. /\ core' = ResetState /\ order' = 0 /\ epoch' = epoch + 1
        /\ UNCHANGED <<program, iss, altered>>
    BY <1>3 DEF Reset
  <2>2. CoreTyped(core)'
    BY <2>1 DEF CoreTyped, IsCore, IsCsrs, ResetState, Word, Csrs, Snapshot, TrapState
  <2>3. CheckerTyped(iss)'
    BY <2>1 DEF SoundInv, CheckerTyped
  <2>4. Followed'
    <3> SUFFICES ASSUME Unaltered', (iss.mismatches = {})', iss.previous = <<>> PROVE iss.order = 0
      BY <2>1 DEF Followed, OrderSo
    <3>1. Synced /\ OrderSo
      BY <2>1 DEF SoundInv, CheckerInv, Unaltered, Followed
    <3>2. order = 0
      BY <3>1 DEF Synced
    <3> QED BY <3>1, <3>2 DEF OrderSo
  <2> QED BY <1>1, <2>1, <2>2, <2>3, <2>4 DEF SoundInv
<1>4. CASE \E step : CoreStep(step)
  <2> PICK step : CoreStep(step)
    BY <1>4
  <2> DEFINE row == step.row
  <2>1. /\ AnyRow(row) /\ CoreTyped(step.after) /\ core' = step.after /\ order' = order + 1
        /\ UNCHANGED <<program, epoch>> /\ Traced(row)
    BY DEF CoreStep, Retires
  <2> HIDE DEF row
  <2>2. CoreTyped(core)'
    BY <2>1 DEF CoreTyped, IsCore, IsCsrs
  <2>3. AsItIs(row) \/ \E kind : AlteredBy(kind, row)
    BY <2>1, TracedSo
  <2>4. CheckerTyped(iss)'
    <3>1. CheckerTyped(iss)
      BY DEF SoundInv
    <3>2. CheckerTyped(iss')
      <4>1. CASE AsItIs(row)
        BY <2>1, <3>1, <4>1, RowTyped DEF AsItIs
      <4>2. ASSUME NEW kind, AlteredBy(kind, row) PROVE CheckerTyped(iss')
        <5>1. /\ kind \in Alteration
              /\ \/ iss' = iss
                 \/ iss' = CheckRow(CheckRow(iss, row), row)
                 \/ iss' = CheckRow(iss, Changed(kind, row))
          BY <4>2 DEF AlteredBy, Alteration
        <5>2. CheckerTyped(CheckRow(CheckRow(iss, row), row))
          BY <2>1, <3>1, RowTyped
        <5> QED BY <2>1, <3>1, <5>1, <5>2, RowTyped
      <4> QED BY <2>3, <4>1, <4>2
    <3> QED BY <3>2 DEF CheckerTyped, IsChecker
  <2>5. Followed'
    <3> SUFFICES ASSUME Unaltered' PROVE OrderSo'
      BY DEF Followed
    <3>1. AsItIs(row)
      <4>1. ASSUME NEW kind, AlteredBy(kind, row) PROVE FALSE
        BY <4>1 DEF AlteredBy, Unaltered, Alteration
      <4> QED BY <2>3, <4>1
    <3>2. IsChecker(iss)
      BY DEF SoundInv, CheckerTyped
    <3>3. iss'.order = row.order + 1
      BY <3>1, <3>2, Checked DEF AsItIs, CheckedSo
    <3> QED BY <2>1, <3>3 DEF OrderSo, AnyRow
  <2>6. DOMAIN altered' = {"kind", "row", "followed"} /\ altered'.kind \in Alteration \cup {"none"}
    <3>1. CASE AsItIs(row)
      BY <3>1 DEF AsItIs, SoundInv
    <3>2. ASSUME NEW kind, AlteredBy(kind, row)
          PROVE DOMAIN altered' = {"kind", "row", "followed"} /\ altered'.kind \in Alteration \cup {"none"}
      BY <3>2 DEF AlteredBy
    <3> QED BY <2>3, <3>1, <3>2
  <2>7. program' \in PROGRAMS /\ order' \in Nat /\ epoch' \in Nat
    BY <2>1 DEF SoundInv
  <2> QED BY <1>1, <2>2, <2>4, <2>5, <2>6, <2>7 DEF SoundInv
<1> QED BY <1>2, <1>3, <1>4, Steps

\* For well-formed images, a core that does what the architecture says is
\* called wrong in three places only (rv32_iss.py, check_row): a timer interrupt
\* whose row shows the external line up, a read of mip whose line moved, and the
\* trap of an illegal jump or branch whose target would be misaligned.
THEOREM FalseAlarmsKnown == ASSUME ProgramsWellFormed PROVE Spec => FalseAlarms
<1>1. ProgramsWellFormed /\ Init => SoundInv
  BY SoundInit
<1>2. ProgramsWellFormed /\ SoundInv /\ [Next]_vars => SoundInv'
  BY SoundStep
<1>3. ProgramsWellFormed /\ SoundInv /\ [Next]_vars =>
        [altered'.kind = "none" /\ iss'.mismatches # {} => KnownAlarm]_vars
  BY AlarmIsKnown
<1> QED BY <1>1, <1>2, <1>3, PTL DEF Spec, FalseAlarms, KnownAlarm

Complains(k, row) == HeadComplaints(Restarted(k, row), row) # {} \/ Body(Restarted(k, row), row).bad # {}

LEMMA ComplaintStays ==
  ASSUME NEW k, IsChecker(k), NEW row, Complains(k, row)
  PROVE  CheckRow(k, row).mismatches # {}
<1>1. CheckedSo(k, row, Restarted(k, row), CheckRow(k, row))
  BY Checked
<1> QED BY <1>1 DEF CheckedSo, Complains

LEMMA OrderComplaint ==
  ASSUME NEW k, NEW row, row.order # Restarted(k, row).order
  PROVE  Complains(k, row)
<1>1. "order" \in HeadComplaints(Restarted(k, row), row)
  BY DEF HeadComplaints
<1> QED BY <1>1 DEF Complains

\* An alteration that cannot be seen in the row.
Excepted(kind, row) ==
  \/ kind \in {"MEMORY_MASK", "MEMORY_DATA"} /\ row.trap
  \/ kind = "MEMORY_DATA" /\ row.addr \in MMIO /\ (row.rd = 0 \/ 0 \notin row.rmask)
  \/ kind = "RD_VALUE" /\ row.insn.op = "csrrw" /\ row.insn.csr \in {"mcycle", "mip"}

\* What is known of a row and of its altered copy.
Reached(kind, row, new, c) ==
  /\ CoreTyped(core) /\ AnyRow(row) /\ AlteredSo(kind, row, new) /\ InStep(c) /\ Selects(kind, row)
  /\ (\E cause : InterruptRow(row, cause)) \/ TrapRow(row) \/ InstructionRow(row)

LEMMA ReachedKinds ==
  ASSUME NEW kind, NEW row, NEW new, NEW c, Reached(kind, row, new, c)
  PROVE  /\ kind \in {"NEXT_PC", "RD_VALUE", "CSR_SNAPSHOT"} => InstructionRow(row)
         /\ kind \in {"MEMORY_MASK", "MEMORY_DATA"} => InstructionRow(row) \/ row.trap
         /\ kind = "MCAUSE" => TrapRow(row)
         /\ kind = "INSTRUCTION" => ~row.intr
         /\ kind = "MEMORY_DATA" => IsLoad(row.insn) \/ row.trap
BY DEF Reached, Selects, InterruptRow, TrapRow, EntryRow, InstructionRow

\* An instruction's row: the checker judges the copy as it judges the row.
LEMMA CopyJudged ==
  ASSUME NEW kind, kind # "INSTRUCTION", NEW row, NEW new, NEW c, Reached(kind, row, new, c), InstructionRow(row)
  PROVE  /\ WellFormed(row.insn) /\ new.insn = row.insn /\ new.pc = core.pc /\ new.addr = row.addr
         /\ new.rd = row.rd /\ new.ext = row.ext /\ new.timer = row.timer
         /\ IsCsrs(c.csrs) /\ row.insn.csr \in Csrs
         /\ Body(c, new) = CheckInstruction(c, new)
         /\ c.regs = core.regs /\ c.memory = core.memory /\ c.csrs["mepc"] = core.csrs["mepc"]
<1>1. WellFormed(row.insn) /\ row.insn.csr \in Csrs
  BY DEF Reached, AnyRow, InstructionRow, WellFormed
<1>2. /\ new.insn = row.insn /\ new.pc = core.pc /\ new.addr = row.addr
      /\ new.rd = row.rd /\ new.ext = row.ext /\ new.timer = row.timer /\ ~new.intr /\ ~new.trap
  BY DEF Reached, AlteredSo, AnyRow, InstructionRow, RowFields
<1>3. /\ IsCsrs(c.csrs) /\ c.regs = core.regs /\ c.memory = core.memory
      /\ c.csrs["mepc"] = core.csrs["mepc"]
  BY DEF Reached, InStep, Agrees, SameCsrs, Snapshot
<1> QED BY <1>1, <1>2, <1>3 DEF Body

LEMMA NextPcNoticed ==
  ASSUME NEW row, NEW new, NEW c, Reached("NEXT_PC", row, new, c)
  PROVE  Body(c, new).bad # {}
<1>1. InstructionRow(row)
  BY ReachedKinds
<1>2. /\ WellFormed(row.insn) /\ new.insn = row.insn /\ new.pc = core.pc
      /\ IsCsrs(c.csrs) /\ row.insn.csr \in Csrs /\ Body(c, new) = CheckInstruction(c, new)
      /\ c.regs = core.regs /\ c.csrs["mepc"] = core.csrs["mepc"]
  BY <1>1, CopyJudged
<1>3. row.next = NextOf(row.insn, core.regs, core.csrs, core.pc)
  BY <1>1 DEF InstructionRow
<1>4. NextOf(row.insn, c.regs, c.csrs, core.pc) = row.next
  BY <1>2, <1>3 DEF NextOf
<1>5. row.next \in Int
  <2>1. /\ core.pc \in Int /\ core.csrs["mepc"] \in Int /\ row.insn.imm \in Int
        /\ core.regs[row.insn.rs1] \in Word
    BY <1>2 DEF Reached, CoreTyped, Csrs, Snapshot, WellFormed
  <2> QED BY <1>3, <2>1 DEF NextOf, Target, Word
<1>6. new.next # row.next
  BY <1>5 DEF Reached, AlteredSo
<1>7. "next" \in CheckInstruction(c, new).bad
  BY <1>2, <1>4, <1>5, <1>6, InstructionJudged
<1> QED BY <1>2, <1>7

\* What the checker works out, unless the row is believed on it.
LEMMA ValueKnown ==
  ASSUME NEW row, NEW c, CoreTyped(core), AnyRow(row), InStep(c), InstructionRow(row), row.rd # 0,
         ~ReadsMip(row.insn)
  PROVE  row.value = ValueOf(c, row)
<1>1. CheckInstruction(c, row).bad = {}
  BY InstructionFine
<1>2. IsCsrs(c.csrs) /\ row.insn.csr \in Csrs
  BY DEF AnyRow, InstructionRow, WellFormed, InStep, Agrees
<1>3. "destination" \notin CheckInstruction(c, row).bad
  BY <1>1
<1> QED BY <1>2, <1>3, InstructionJudged

LEMMA RdValueNoticed ==
  ASSUME NEW row, NEW new, NEW c, Reached("RD_VALUE", row, new, c)
  PROVE  Body(c, new).bad # {} \/ Excepted("RD_VALUE", row)
<1> SUFFICES ASSUME ~(row.insn.op = "csrrw" /\ row.insn.csr \in {"mcycle", "mip"}) PROVE Body(c, new).bad # {}
  BY DEF Excepted
<1>1. InstructionRow(row) /\ row.rd # 0
  BY ReachedKinds DEF Reached, Selects
<1>2. /\ new.insn = row.insn /\ new.addr = row.addr /\ new.rd = row.rd
      /\ IsCsrs(c.csrs) /\ row.insn.csr \in Csrs /\ Body(c, new) = CheckInstruction(c, new)
  BY <1>1, CopyJudged
<1>3. new.rdata = row.rdata /\ new.value = Flipped(row.value)
  BY DEF Reached, AlteredSo
<1>4. row.value = ValueOf(c, row)
  BY <1>1, ValueKnown DEF Reached, ReadsMip
<1>5. ValueOf(c, new) = ValueOf(c, row)
  <2>1. new.pc = row.pc
    BY DEF Reached, AlteredSo, RowFields
  <2> QED BY <1>2, <1>3, <2>1 DEF ValueOf
<1>6. new.value # row.value
  BY <1>3, FlippedWord DEF Reached, AnyRow
<1>7. "destination" \in CheckInstruction(c, new).bad
  BY <1>1, <1>2, <1>4, <1>5, <1>6, InstructionJudged
<1> QED BY <1>2, <1>7

LEMMA MaskNoticed ==
  ASSUME NEW row, NEW new, NEW c, Reached("MEMORY_MASK", row, new, c)
  PROVE  Body(c, new).bad # {} \/ Excepted("MEMORY_MASK", row)
<1> SUFFICES ASSUME ~row.trap PROVE Body(c, new).bad # {}
  BY DEF Excepted
<1>1. InstructionRow(row) /\ row.rmask \cup row.wmask # {}
  BY ReachedKinds DEF Reached, Selects
<1>2. /\ new.insn = row.insn /\ IsCsrs(c.csrs) /\ row.insn.csr \in Csrs
      /\ Body(c, new) = CheckInstruction(c, new)
  BY <1>1, CopyJudged
<1>3. IF row.rmask # {} THEN new.rmask = {} ELSE new.wmask = {}
  BY DEF Reached, AlteredSo
<1>4. (row.rmask # {} /\ IsLoad(row.insn)) \/ (row.rmask = {} /\ IsStore(row.insn))
  BY <1>1, MaskTouches DEF InstructionRow
<1>5. "mask" \in CheckInstruction(c, new).bad
  BY <1>2, <1>3, <1>4, MaskTouches, InstructionJudged
<1> QED BY <1>2, <1>5

LEMMA McauseNoticed ==
  ASSUME NEW row, NEW new, NEW c, Reached("MCAUSE", row, new, c)
  PROVE  Body(c, new).bad # {}
<1>1. TrapRow(row)
  BY ReachedKinds
<1>2. /\ new.insn = row.insn /\ new.addr = row.addr /\ new.csrs = [row.csrs EXCEPT !["mcause"] = 1]
      /\ ~new.intr /\ new.trap
  BY <1>1 DEF Reached, AlteredSo, TrapRow, RowFields
<1>3. new.csrs["mcause"] = 1
  BY <1>2 DEF Reached, AnyRow, IsCsrs, Csrs, Snapshot
<1>4. Body(c, new) = CheckTrap(c, new)
  BY <1>2 DEF Body
<1>5. "cause" \in CheckTrap(c, new).bad
  BY <1>3 DEF CheckTrap
<1> QED BY <1>4, <1>5

LEMMA InstructionNoticed ==
  ASSUME NEW row, NEW new, NEW c, Reached("INSTRUCTION", row, new, c)
  PROVE  HeadComplaints(c, new) # {}
<1>1. /\ ~row.intr /\ row.insn = program[core.pc] /\ WellFormed(row.insn) /\ row.pc = core.pc
  BY ReachedKinds DEF Reached, AnyRow
<1>2. new.insn = [row.insn EXCEPT !["imm"] = row.insn.imm + 1] /\ ~new.intr /\ new.pc = core.pc
  BY <1>1 DEF Reached, AlteredSo, RowFields
<1>3. new.insn.imm # row.insn.imm
  BY <1>1, <1>2 DEF WellFormed
<1>4. "instruction" \in HeadComplaints(c, new)
  BY <1>1, <1>2, <1>3 DEF HeadComplaints
<1> QED BY <1>4

LEMMA MemoryDataNoticed ==
  ASSUME NEW row, NEW new, NEW c, Reached("MEMORY_DATA", row, new, c)
  PROVE  Body(c, new).bad # {} \/ Excepted("MEMORY_DATA", row)
<1> SUFFICES ASSUME ~row.trap PROVE Body(c, new).bad # {} \/ Excepted("MEMORY_DATA", row)
  BY DEF Excepted
<1>1. InstructionRow(row) /\ IsLoad(row.insn)
  BY ReachedKinds
<1>2. /\ new.insn = row.insn /\ new.addr = row.addr /\ new.rd = row.rd
      /\ IsCsrs(c.csrs) /\ row.insn.csr \in Csrs /\ Body(c, new) = CheckInstruction(c, new)
      /\ c.memory = core.memory
  BY <1>1, CopyJudged
<1>3. new.rdata = Flipped(row.rdata) /\ new.value = row.value
  BY DEF Reached, AlteredSo
<1>4. /\ row.rdata \in Word /\ row.addr \in SRAM \cup MMIO /\ row.rmask = Mask(Wide(row.insn), row.addr)
      /\ row.addr \in SRAM => row.rdata = core.memory[WordOf(row.addr)]
      /\ row.rd # 0 => row.value = Loaded(row.insn, row.addr, row.rdata)
  BY <1>1 DEF InstructionRow
<1>5. Flipped(row.rdata) # row.rdata /\ Flipped(row.rdata) % 2 # row.rdata % 2
      /\ row.rdata \in Int /\ Flipped(row.rdata) \in Int
  <2>1. Word \subseteq Int
    BY DEF Word
  <2> QED BY <1>4, <2>1, FlippedWord
<1>6. CASE row.addr \in SRAM
  <2>1. "source" \in CheckInstruction(c, new).bad
    BY <1>1, <1>2, <1>3, <1>4, <1>5, <1>6, InstructionJudged
  <2> QED BY <1>2, <2>1
<1>7. CASE row.addr \notin SRAM
  <2>1. row.addr \in MMIO
    BY <1>4, <1>7
  <2> SUFFICES ASSUME row.rd # 0, 0 \in row.rmask PROVE Body(c, new).bad # {}
    BY <2>1 DEF Excepted
  <2>2. Loaded(row.insn, row.addr, Flipped(row.rdata)) # Loaded(row.insn, row.addr, row.rdata)
    <3>1. CASE Wide(row.insn)
      BY <1>5, <3>1 DEF Loaded
    <3>2. CASE ~Wide(row.insn)
      <4>1. row.addr % 2 = 0
        BY <1>4, <3>2 DEF Mask
      <4>2. Byte(row.rdata, 0) = row.rdata % 2 /\ Byte(Flipped(row.rdata), 0) = Flipped(row.rdata) % 2
        BY <1>5 DEF Byte
      <4>3. row.rdata % 2 \in Int /\ Flipped(row.rdata) % 2 \in Int
        BY <1>5
      <4> QED BY <1>5, <3>2, <4>1, <4>2, <4>3 DEF Loaded
    <3> QED BY <3>1, <3>2
  <2>3. ValueOf(c, new) = Loaded(row.insn, row.addr, Flipped(row.rdata))
    BY <1>1, <1>2, <1>3, <1>7 DEF ValueOf, IsLoad, IsJump
  <2>4. "destination" \in CheckInstruction(c, new).bad
    BY <1>2, <1>3, <1>4, <2>2, <2>3, InstructionJudged
  <2> QED BY <1>2, <2>4
<1> QED BY <1>6, <1>7

LEMMA SnapshotNoticed ==
  ASSUME NEW row, NEW new, NEW c, Reached("CSR_SNAPSHOT", row, new, c)
  PROVE  HeadComplaints(c, new) # {}
<1>1. ~new.trap /\ ~new.intr /\ new.csrs = [row.csrs EXCEPT !["mstatus"] = 7]
  BY DEF Reached, AlteredSo, Selects, RowFields
<1>2. new.csrs["mstatus"] = 7
  BY <1>1 DEF Reached, AnyRow, IsCsrs, Csrs, Snapshot
<1>3. c.csrs["mstatus"] # 7
  <2>1. c.csrs["mstatus"] = core.csrs["mstatus"] /\ core.csrs["mstatus"] \in Word
    BY DEF Reached, InStep, Agrees, SameCsrs, CoreTyped, Csrs, Snapshot, TrapState
  <2> QED BY <2>1 DEF Word
<1>4. "csr" \in HeadComplaints(c, new)
  BY <1>1, <1>2, <1>3 DEF HeadComplaints, Snapshot
<1> QED BY <1>4

\* A row of this epoch was dropped: the checker is one behind, or about to
\* start over, and no row has shown it.
Missed(row) ==
  /\ row.order \in Nat /\ row.epoch \in Nat /\ row.epoch <= epoch
  /\ row.epoch = epoch =>
       /\ order = row.order + 1
       /\ iss.order = row.order \/ (iss.previous \in Nat \X Nat /\ iss.previous[2] < epoch)

Unseen ==
  \/ Excepted(altered.kind, altered.row)
  \/ altered.kind = "DROPPED" /\ ~altered.followed /\ Missed(altered.row)

AlterInv == SoundInv /\ (altered.kind # "none" /\ iss.mismatches = {} => Unseen)

\* Whatever alteration is made to a row, it is noticed at once, or it cannot
\* be seen in that row.
LEMMA AlterationNoticed ==
  ASSUME SoundInv, NEW step, CoreStep(step), NEW kind, AlteredBy(kind, step.row), iss'.mismatches = {}
  PROVE  Excepted(kind, step.row) \/ (kind = "DROPPED" /\ Missed(step.row)')
<1> DEFINE row == step.row
           new == Changed(kind, row)
           c == Restarted(iss, new)
<1>1. /\ AnyRow(row) /\ order \in Nat /\ epoch \in Nat /\ row.order = order /\ row.epoch = epoch
      /\ Synced /\ OrderSo /\ IsChecker(iss) /\ CoreTyped(core) /\ order' = order + 1 /\ epoch' = epoch
      /\ kind \in Alteration /\ Selects(kind, row)
      /\ (\E cause : InterruptRow(row, cause)) \/ TrapRow(row) \/ InstructionRow(row)
  BY DEF CoreStep, Goes, Retires, SoundInv, CheckerInv, Followed, Unaltered, CheckerTyped, AlteredBy, AnyRow
<1>2. AlteredSo(kind, row, new)
  BY <1>1, ChangedSo DEF AnyRow, IsCsrs
<1> HIDE DEF row
<1>3. CASE kind = "DROPPED"
  <2>1. iss' = iss
    BY <1>3 DEF AlteredBy
  <2>2. iss.order = row.order \/ (iss.previous \in Nat \X Nat /\ iss.previous[2] < epoch)
    BY <1>1 DEF Synced, OrderSo
  <2>3. Missed(step.row)'
    BY <1>1, <2>1, <2>2 DEF Missed, row
  <2> QED BY <1>3, <2>3
<1>4. CASE kind = "DUPLICATE"
  <2> DEFINE k == CheckRow(iss, row)
  <2>1. IsChecker(k) /\ k.order = row.order + 1 /\ k.previous = <<row.order, row.epoch>>
    BY <1>1, Checked DEF CheckedSo
  <2>2. iss' = CheckRow(k, row)
    BY <1>4 DEF AlteredBy, row
  <2> HIDE DEF k
  <2>3. Restarted(k, row) = k
    BY <1>1, <2>1 DEF Restarted
  <2>4. row.order # Restarted(k, row).order
    BY <1>1, <2>1, <2>3
  <2> QED BY <2>1, <2>2, <2>4, OrderComplaint, ComplaintStays
<1>5. CASE kind \notin {"DROPPED", "DUPLICATE"}
  <2>1. iss' = CheckRow(iss, new)
    BY <1>5 DEF AlteredBy, row
  <2>2. ~Complains(iss, new)
    BY <1>1, <2>1, ComplaintStays
  <2>3. new.order = order
    BY <1>1, <1>2 DEF AlteredSo, RowFields
  <2>4. CASE kind = "RESET_EPOCH"
    <3>1. new.epoch = epoch + 1 /\ order > 2
      BY <1>1, <1>2, <2>4 DEF AlteredSo, Selects
    <3>2. iss.previous = <<order - 1, epoch>>
      BY <1>1, <3>1 DEF Synced
    <3>3. c.order = 0
      BY <1>1, <3>1, <3>2 DEF Restarted, IsChecker
    <3> QED BY <1>1, <2>2, <2>3, <3>1, <3>3, OrderComplaint
  <2>5. CASE kind # "RESET_EPOCH"
    <3>1. new.epoch = epoch
      BY <1>1, <1>2, <2>5 DEF AlteredSo
    <3>2. InStep(c)
      BY <1>1, <2>3, <3>1, RestartInStep
    <3>3. Reached(kind, row, new, c)
      BY <1>1, <1>2, <3>2 DEF Reached
    <3>4. HeadComplaints(c, new) = {} /\ Body(c, new).bad = {}
      BY <2>2 DEF Complains
    <3> HIDE DEF new, c
    <3>5. kind \in {"NEXT_PC", "RD_VALUE", "MEMORY_MASK", "MCAUSE", "INSTRUCTION", "MEMORY_DATA", "CSR_SNAPSHOT"}
      BY <1>1, <1>5, <2>5 DEF Alteration
    <3>6. Excepted(kind, row)
      BY <3>3, <3>4, <3>5, NextPcNoticed, RdValueNoticed, MaskNoticed, McauseNoticed, InstructionNoticed,
         MemoryDataNoticed, SnapshotNoticed
    <3> QED BY <3>6 DEF row
  <2> QED BY <2>4, <2>5
<1> QED BY <1>3, <1>4, <1>5

\* After a row was dropped the next one of its epoch shows it.
LEMMA DropNoticed ==
  ASSUME SoundInv, NEW step, CoreStep(step), AsItIs(step.row), NEW row, row = altered.row, Missed(row),
         row.epoch = epoch
  PROVE  iss'.mismatches # {}
<1>1. /\ step.row.order = order /\ step.row.epoch = epoch /\ IsChecker(iss) /\ epoch \in Nat
      /\ iss' = CheckRow(iss, step.row)
  BY DEF CoreStep, AnyRow, SoundInv, CheckerTyped, AsItIs
<1>2. /\ row.order \in Nat /\ order = row.order + 1
      /\ iss.order = row.order \/ (iss.previous \in Nat \X Nat /\ iss.previous[2] < epoch)
  BY DEF Missed
<1> DEFINE c == Restarted(iss, step.row)
<1>3. c.order \in {0, iss.order} /\ (iss.previous \in Nat \X Nat /\ iss.previous[2] < epoch => c.order = 0)
  BY <1>1, <1>2 DEF Restarted, IsChecker
<1>4. step.row.order # c.order
  BY <1>1, <1>2, <1>3
<1> QED BY <1>1, <1>4, OrderComplaint, ComplaintStays

LEMMA AlterStep == AlterInv /\ ProgramsWellFormed /\ [Next]_vars => AlterInv'
<1> SUFFICES ASSUME AlterInv, ProgramsWellFormed, [Next]_vars PROVE AlterInv'
  OBVIOUS
<1>1. SoundInv /\ SoundInv'
  BY SoundStep DEF AlterInv
<1>2. CASE UNCHANGED vars
  BY <1>1, <1>2 DEF vars, AlterInv, Unseen, Missed
<1>3. CASE Reset
  <2>1. altered' = altered /\ iss' = iss /\ epoch' = epoch + 1 /\ epoch \in Nat
    BY <1>1, <1>3 DEF Reset, SoundInv
  <2> SUFFICES ASSUME altered.kind # "none", iss.mismatches = {} PROVE Unseen'
    BY <1>1, <2>1 DEF AlterInv
  <2>2. Unseen
    BY DEF AlterInv
  <2>3. Missed(altered.row) => Missed(altered.row)'
    BY <2>1 DEF Missed
  <2> QED BY <2>1, <2>2, <2>3 DEF Unseen
<1>4. CASE \E step : CoreStep(step)
  <2> PICK step : CoreStep(step)
    BY <1>4
  <2> SUFFICES ASSUME altered'.kind # "none", iss'.mismatches = {} PROVE Unseen'
    BY <1>1 DEF AlterInv
  <2>1. AsItIs(step.row) \/ \E kind : AlteredBy(kind, step.row)
    BY TracedSo DEF CoreStep, Retires
  <2>2. CASE AsItIs(step.row)
    <3>1. /\ DOMAIN altered = {"kind", "row", "followed"} /\ iss.mismatches = {} /\ epoch' = epoch
          /\ step.row.epoch = epoch /\ epoch \in Nat
      BY <1>1 DEF SoundInv, CoreStep, Goes, Retires, AnyRow
    <3>2. /\ altered'.kind = altered.kind /\ altered'.row = altered.row
          /\ altered'.followed = (altered.kind # "none" /\ (altered.followed \/ step.row.epoch = altered.row.epoch))
      BY <2>2, <3>1 DEF AsItIs
    <3>3. Unseen
      BY <3>1, <3>2 DEF AlterInv
    <3>4. CASE Excepted(altered.kind, altered.row)
      BY <3>2, <3>4 DEF Unseen, Excepted
    <3>5. CASE altered.kind = "DROPPED" /\ ~altered.followed /\ Missed(altered.row)
      <4>1. altered.row.epoch # epoch
        BY <1>1, <2>2, <3>5, DropNoticed
      <4>2. ~altered'.followed
        BY <3>1, <3>2, <3>5, <4>1
      <4>3. Missed(altered.row)'
        BY <3>1, <3>2, <3>5, <4>1 DEF Missed
      <4> QED BY <3>2, <3>5, <4>2, <4>3 DEF Unseen
    <3> QED BY <3>3, <3>4, <3>5 DEF Unseen
  <2>3. ASSUME NEW kind, AlteredBy(kind, step.row) PROVE Unseen'
    <3>1. altered'.kind = kind /\ altered'.row = step.row /\ altered'.followed = FALSE
      BY <2>3 DEF AlteredBy
    <3>2. Excepted(kind, step.row) \/ (kind = "DROPPED" /\ Missed(step.row)')
      BY <1>1, <2>3, AlterationNoticed
    <3>3. CASE Excepted(kind, step.row)
      BY <3>1, <3>3 DEF Unseen, Excepted
    <3>4. CASE kind = "DROPPED" /\ Missed(step.row)'
      <4>1. Missed(altered.row)'
        BY <3>1, <3>4 DEF Missed
      <4> QED BY <3>1, <3>4, <4>1 DEF Unseen
    <3> QED BY <3>2, <3>3, <3>4
  <2> QED BY <2>1, <2>2, <2>3
<1> QED BY <1>1, <1>2, <1>3, <1>4, Steps

\* For well-formed images every alteration of the checker's own test
\* (run_compiled_firmware.py, trace_mutation_results) is noticed wherever in the
\* trace it is made, but for the four the checker cannot tell: the last row of
\* an epoch dropped, the access shown by the trap of one a device refused, a
\* device word whose changed lane no register takes, and a counter's or mip's
\* value.
THEOREM AlterationsCaught == ASSUME ProgramsWellFormed PROVE Spec => []AlterationCaught
<1>1. ProgramsWellFormed /\ Init => AlterInv
  BY SoundInit DEF Init, None, AlterInv
<1>2. ProgramsWellFormed /\ AlterInv /\ [Next]_vars => AlterInv'
  BY AlterStep
<1>3. AlterInv => AlterationCaught
  BY DEF AlterInv, Unseen, Excepted, AlterationCaught
<1> QED BY <1>1, <1>2, <1>3, PTL DEF Spec

Bounded == rows \in 0 .. MAX_ROWS /\ epoch \in 0 .. RESETS

\* Registers, memories and the machine status stay words, of the core and of
\* the checker, for well-formed images.
THEOREM RvfiTyped ==
  ASSUME ProgramsWellFormed, MAX_ROWS \in Nat, RESETS \in Nat
  PROVE  Spec => []TypeOK
<1>1. ProgramsWellFormed /\ MAX_ROWS \in Nat /\ RESETS \in Nat /\ Init => SoundInv /\ Bounded
  BY SoundInit DEF Init, Bounded
<1>2. ProgramsWellFormed /\ MAX_ROWS \in Nat /\ RESETS \in Nat /\ SoundInv /\ Bounded /\ [Next]_vars =>
        SoundInv' /\ Bounded'
  <2> SUFFICES ASSUME ProgramsWellFormed, MAX_ROWS \in Nat, RESETS \in Nat, SoundInv, Bounded, [Next]_vars
               PROVE  Bounded'
    BY SoundStep
  <2>1. CASE UNCHANGED vars
    BY <2>1 DEF vars, Bounded
  <2>2. CASE Reset
    BY <2>2 DEF Reset, Bounded
  <2>3. CASE \E step : CoreStep(step)
    BY <2>3 DEF CoreStep, Goes, Retires, Bounded
  <2> QED BY <2>1, <2>2, <2>3, Steps
<1>3. SoundInv /\ Bounded => TypeOK
  BY DEF SoundInv, CoreTyped, CheckerTyped, Csrs, Snapshot, TrapState, Bounded, TypeOK
<1> QED BY <1>1, <1>2, <1>3, PTL DEF Spec
=============================================================================
