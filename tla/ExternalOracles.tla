-------------------------- MODULE ExternalOracles --------------------------
(***************************************************************************)
(* The external oracles of the RV32 core: pinned-tool check, Spike         *)
(* differential, ACT4, formal, and the mutation matrix that runs them on   *)
(* defective cores.  Each is a command that ends with an exit code and     *)
(* leaves a report on disk.  A recipe is a sequence of commands that stops *)
(* at the first nonzero one.                                               *)
(***************************************************************************)
EXTENDS Lanes, Sequences

CONSTANTS
  SPIKE_LOG,   \* what Spike commits for the program, if nothing cuts it short
  RTL_TRACES,  \* what the core may be seen to retire
  TOOLS,       \* the installations considered
  MIN_COUNT,   \* commits that must be compared (20 in the code)
  MAX_SUFFIX   \* RTL commits allowed after Spike's last (4 in the code)

VARIABLES
  tools,    \* what is installed
  recipe,   \* commands still to run
  rows,     \* the report of each command
  fresh,    \* commands whose report this recipe has written
  verdict,  \* of the recipe: "running", "green" or "red"
  mutation_matrix, \* rv32_external_mutation_matrix.csv, if this recipe wrote it
  compared  \* the trace and the log a nominal comparison just looked at

vars == <<tools, recipe, rows, fresh, verdict, mutation_matrix, compared>>

Oracle == {"local", "spike", "spike_mpp", "act_mutant", "formal_mutant"}

Command == Oracle \cup {"tools", "iss", "act", "act_m", "formal", "matrix"}

\* The commands that are given --expect-detection, and those given --require.
ExpectDetection == Oracle \ {"local"}

Require == Command \ {"local", "matrix"}

Mutations == <<"local", "spike", "spike_mpp", "act_mutant", "formal_mutant", "matrix">>

\* The Makefile's targets; a command may also be called by hand.
Recipes ==
  {<<"tools", c>> : c \in {"iss", "act", "act_m", "formal"}}
  \cup {<<"tools">> \o Mutations, Mutations,
        <<"tools", "iss", "act", "act_m", "formal">> \o Mutations}
  \cup {<<c>> : c \in {"iss", "act", "formal"}}

Row(status, detail) == [status |-> status, detail |-> detail]

Some(report, status) == \E row \in report : row.status = status

-----------------------------------------------------------------------------
(* Spike differential.  A word has two bytes of one bit each.              *)

\* rtl_sequence: interrupt entries, ebreak and the reset trampoline are left
\* out, x0 is no register, and store data is cut to the width of the store.
IsCommit(row) == ~row.intr /\ row.insn # "ebreak" /\ row.pc >= 1

Commit(row) ==
  [pc |-> row.pc, insn |-> row.insn,
   reg |-> IF row.rd = 0 THEN <<>> ELSE <<row.rd, row.value>>,
   addr |-> IF row.mask = {} THEN <<>> ELSE <<row.addr>>,
   data |-> IF row.store THEN <<IF row.insn = "sb" THEN Byte(row.data, 0) ELSE row.data>> ELSE <<>>,
   mask |-> row.mask]

\* The commits among the first i rows.
Committed(trace) ==
  LET commits[i \in 0 .. Len(trace)] ==
        IF i = 0 THEN <<>>
        ELSE IF IsCommit(trace[i]) THEN Append(commits[i - 1], Commit(trace[i])) ELSE commits[i - 1]
  IN commits

Commits(trace) == Committed(trace)[Len(trace)]

ExpectedMask(insn, addr) ==
  IF insn \in {"lw", "sw", "sb"} THEN Mask(insn # "sb", addr) ELSE {}

\* Mutant of Differs: the byte lanes are not compared.
DiffersButForLanes(rtl, spike) ==
  \/ <<rtl.pc, rtl.insn>> # <<spike.pc, spike.insn>>
  \/ rtl.reg # spike.reg
  \/ rtl.addr # spike.addr
  \/ spike.data # <<>> /\ rtl.data # spike.data

\* compare_commit.  Spike logs no mask, and no data for a load.
Differs(rtl, spike) ==
  \/ <<rtl.pc, rtl.insn>> # <<spike.pc, spike.insn>>
  \/ rtl.reg # spike.reg
  \/ rtl.addr # spike.addr
  \/ spike.data # <<>> /\ rtl.data # spike.data
  \/ rtl.addr # <<>> /\ rtl.mask # ExpectedMask(rtl.insn, rtl.addr[1])

Least(a, b) == IF a <= b THEN a ELSE b

\* The first reason to call the core wrong, "" if there is none.
Mismatch(rtl, spike, rtl_status, terminates) ==
  LET count == Least(Len(rtl), Len(spike))
  IN IF \E i \in 1 .. count : Differs(rtl[i], spike[i]) THEN "commit"
     ELSE IF spike = <<>> \/ count < Least(MIN_COUNT, Len(rtl)) THEN "insufficient_spike_trace"
     ELSE IF rtl_status # "PASS" THEN "relocated_rtl_failed"
     ELSE IF \A i \in 1 .. Len(rtl) : rtl[i].insn # "mul" THEN "no_m_instruction"
     ELSE IF ~terminates THEN "unexpected_spike_termination"
     ELSE IF Len(rtl) > count + MAX_SUFFIX THEN "unexpected_rtl_suffix"
     ELSE ""

-----------------------------------------------------------------------------
\* Mutant of ExitCode: --require forgotten.
ExitOnFailOnly(c, report) ==
  IF c = "act_mutant" THEN IF Some(report, "FAIL") THEN 0 ELSE 1
  ELSE IF Some(report, "FAIL") THEN 1 ELSE 0

ExitCode(c, report) ==
  IF c = "act_mutant" THEN IF Some(report, "FAIL") THEN 0 ELSE 1
  ELSE IF \/ Some(report, "FAIL")
          \/ c \in Require /\ \E row \in report : row.status # "PASS" THEN 1
  ELSE 0

\* A retirement writes no register and stores nothing if it is an interrupt's
\* nop, a trapping ebreak or the reset trampoline's jump through x0; a store
\* writes some lane, and a load never stores.
Retirement ==
  {row \in [pc : Nat, insn : STRING, intr : BOOLEAN, rd : 0 .. 3, value : Word,
            addr : Nat, store : BOOLEAN, data : Word, mask : SUBSET {0, 1}] :
     /\ IsCommit(row) \/ (row.rd = 0 /\ ~row.store)
     /\ row.store => row.mask # {} /\ row.insn # "lw"}

\* Spike logs what a store writes.
SpikeCommit ==
  {commit \in [pc : Nat, insn : STRING, reg : Seq(Nat), addr : Seq(Nat), data : Seq(Word), mask : SUBSET {0, 1}] :
     commit.insn \in {"sw", "sb"} => commit.data # <<>>}

Nothing == [rtl |-> <<>>, spike |-> <<>>]

Turn(c) == recipe # <<>> /\ Head(recipe) = c

\* A command that came to its end: report, then exit code.
Ends(c, report) ==
  /\ rows' = [rows EXCEPT ![c] = report]
  /\ fresh' = fresh \cup {c}
  /\ recipe' = IF ExitCode(c, report) = 0 THEN Tail(recipe) ELSE <<>>
  /\ verdict' = IF ExitCode(c, report) # 0 THEN "red"
                ELSE IF Len(recipe) = 1 THEN "green" ELSE "running"

\* check_external_riscv_tools.py looks at every tool of the lock file.
CheckTools ==
  /\ Turn("tools")
  /\ Ends("tools",
       {Row(CASE tools[t] = "pinned" -> "PASS" [] tools[t] = "other" -> "FAIL" [] OTHER -> "SKIP", t) :
          t \in DOMAIN tools})
  /\ compared' = Nothing
  /\ UNCHANGED <<tools, mutation_matrix>>

\* Spike's log ends early when Spike is killed or hits its instruction limit.
Spike(c) ==
  /\ Turn(c)
  /\ \E trace \in RTL_TRACES :
       LET rtl == Commits(trace)
       IN \E last \in 0 .. Len(SPIKE_LOG), rtl_status \in {"PASS", "FAIL"}, terminates \in BOOLEAN :
            LET spike == SubSeq(SPIKE_LOG, 1, last)
                mismatch == Mismatch(rtl, spike, rtl_status, terminates)
                detected == mismatch # ""
            IN /\ Ends(c, {IF tools.spike # "pinned" THEN Row("SKIP", "pinned_spike_missing")
                           ELSE Row(IF detected = (c \in ExpectDetection) THEN "PASS" ELSE "FAIL", mismatch)})
               /\ compared' = IF c = "iss" THEN [rtl |-> trace, spike |-> spike] ELSE Nothing
  /\ UNCHANGED <<tools, mutation_matrix>>

\* What one self-checking image comes to, by failure_kind.  Two images.
ActKind == {"", "mailbox_failure", "timeout", "rtl_failure", "host_timeout"}

\* run_act4.py: a foreign revision, a generation that fails and a setup that
\* fails each give one FAIL row; otherwise there is a row an image.
Act(c) ==
  /\ Turn(c)
  /\ \E first, second \in ActKind, broken \in {"", "generation", "setup"} :
       Ends(c,
         IF tools.act = "missing" \/ tools.sail = "missing" THEN {Row("SKIP", "dependency_missing")}
         ELSE IF tools.act = "other" THEN {Row("FAIL", "revision_mismatch")}
         ELSE IF broken # "" THEN {Row("FAIL", broken)}
         ELSE {Row(IF k = "" THEN "PASS" ELSE "FAIL", k) : k \in {first, second}})
  /\ compared' = Nothing
  /\ UNCHANGED <<tools, mutation_matrix>>

\* run_rv32_formal.py.  The solver's exit code is nonzero for a counterexample
\* and for a task that could not run.
Formal(c) ==
  /\ Turn(c)
  /\ \E solver \in {"proved", "counterexample", "error"}, standard \in {"PASS", "FAIL"} :
       Ends(c,
         {IF tools.sby = "missing" THEN Row("SKIP", "sby_missing")
          ELSE Row(IF (solver # "proved") = (c \in ExpectDetection) THEN "PASS" ELSE "FAIL", solver)}
         \cup IF c \in ExpectDetection THEN {}
              ELSE {Row(IF tools.formal = "missing" \/ tools.sby = "missing" THEN "SKIP"
                        ELSE IF tools.formal = "other" THEN "FAIL" ELSE standard, "standard")})
  /\ compared' = Nothing
  /\ UNCHANGED <<tools, mutation_matrix>>

\* run_rtl_mutations.py: the defective core must fail, by an ISS mismatch or
\* an assertion.
Local ==
  /\ Turn("local")
  /\ \E status \in {"PASS", "FAIL"}, mismatch, checker \in BOOLEAN :
       Ends("local",
         {Row(IF status = "FAIL" /\ (mismatch \/ checker) THEN "PASS" ELSE "FAIL",
              IF mismatch THEN "mismatch" ELSE "")})
  /\ compared' = Nothing
  /\ UNCHANGED <<tools, mutation_matrix>>

\* run_external_mutation_matrix.py reads the five reports back.
MatrixStatus(o) ==
  IF o = "act_mutant" THEN IF Some(rows[o], "FAIL") THEN "PASS" ELSE "FAIL"
  ELSE IF \A row \in rows[o] : row.status = "PASS" THEN "PASS" ELSE "FAIL"

Matrix ==
  /\ Turn("matrix")
  /\ mutation_matrix' = [o \in Oracle |-> MatrixStatus(o)]
  /\ Ends("matrix", {Row(MatrixStatus(o), o) : o \in Oracle})
  /\ compared' = Nothing
  /\ UNCHANGED tools

\* A build that fails, a simulation that hangs: the script dies without a
\* report, and the old one stays.
Raise ==
  /\ recipe # <<>> /\ Head(recipe) \notin {"tools", "matrix"}
  /\ recipe' = <<>>
  /\ verdict' = "red"
  /\ compared' = Nothing
  /\ UNCHANGED <<tools, rows, fresh, mutation_matrix>>

\* The reports of earlier recipes are on disk.
Init ==
  /\ tools \in TOOLS
  /\ recipe \in Recipes
  /\ rows = [c \in Command |-> {Row("PASS", "")}]
  /\ fresh = {}
  /\ verdict = "running"
  /\ mutation_matrix = <<>>
  /\ compared = Nothing

Next ==
  \/ CheckTools \/ Local \/ Matrix \/ Raise
  \/ \E c \in {"iss", "spike", "spike_mpp"} : Spike(c)
  \/ \E c \in {"act", "act_m", "act_mutant"} : Act(c)
  \/ \E c \in {"formal", "formal_mutant"} : Formal(c)

Spec == Init /\ [][Next]_vars

-----------------------------------------------------------------------------
TypeOK ==
  /\ tools \in TOOLS
  /\ \A c \in Command : rows[c] # {} /\ \A row \in rows[c] : row.status \in {"PASS", "FAIL", "SKIP"}
  /\ fresh \subseteq Command
  /\ verdict \in {"running", "green", "red"}

\* The matrix only ever reads what its own five commands have just written:
\* an oracle that could not report ends the recipe first, although nothing
\* but the exit codes ties the files to this recipe.
MatrixIsFresh == recipe # <<>> /\ Head(recipe) = "matrix" => Oracle \subseteq fresh

\* "Required rather than silently skipped": a green recipe has skipped
\* nothing, and one that began with the tool check ran on pinned tools only.
GreenIsRequired ==
  verdict = "green" =>
    /\ \A c \in fresh \cap Require : ~Some(rows[c], "SKIP")
    /\ "tools" \in fresh => \A t \in DOMAIN tools : tools[t] = "pinned"

\* Registers and memory, replayed from what was committed: the core's rows by
\* the byte lanes they name, Spike's by what its instructions are.
Store(memory, addr, mask, data) ==
  [memory EXCEPT ![WordOf(addr)] = Merge(@, addr, mask, data)]

Blank == [regs |-> [r \in 1 .. 3 |-> 0], memory |-> [w \in {0, 2} |-> 0]]

ReplayRow(state, row) ==
  [regs |-> IF row.rd = 0 THEN state.regs ELSE [state.regs EXCEPT ![row.rd] = row.value],
   memory |-> IF row.store THEN Store(state.memory, row.addr, row.mask, row.data) ELSE state.memory]

ReplayCommit(state, commit) ==
  [regs |-> IF commit.reg = <<>> THEN state.regs ELSE [state.regs EXCEPT ![commit.reg[1]] = commit.reg[2]],
   memory |-> IF commit.data = <<>> THEN state.memory
              ELSE Store(state.memory, commit.addr[1],
                         ExpectedMask(commit.insn, commit.addr[1]), commit.data[1])]

Replayed(trace) ==
  LET state[i \in 0 .. Len(trace)] == IF i = 0 THEN Blank ELSE ReplayRow(state[i - 1], trace[i])
  IN state

ReplayedLog(log) ==
  LET state[i \in 0 .. Len(log)] == IF i = 0 THEN Blank ELSE ReplayCommit(state[i - 1], log[i])
  IN state

\* An accepted core did to registers and memory what Spike did, but for the
\* few instructions one of the two logged after the other had stopped.
AcceptedDidTheSame ==
  compared # Nothing /\ Some(rows["iss"], "PASS") =>
    \E i \in 0 .. Len(compared.rtl) :
      /\ Replayed(compared.rtl)[i]
           = ReplayedLog(compared.spike)[Least(Len(compared.spike), Len(Commits(compared.rtl)))]
      /\ Len(Commits(compared.rtl)) - Len(Committed(compared.rtl)[i]) <= MAX_SUFFIX
=============================================================================
