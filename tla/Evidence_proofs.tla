------------------------- MODULE Evidence_proofs -------------------------
(***************************************************************************)
(* What the evidence scripts' reports are worth, script by script, and     *)
(* that it holds of the composition, where one of them moves.              *)
(*                                                                         *)
(* The closure gate: what a checked lane is worth, for every list of       *)
(* tests, every number of lanes and of makes, whatever the simulations do  *)
(* and whatever earlier makes left on disk, when make does not run the     *)
(* lanes side by side.  The lanes share the manifest, so the argument is:  *)
(* only one invocation runs at a time (OneAtATime); its rows grow to all   *)
(* of its runs (RowsComplete); the manifest it parses is the one it wrote  *)
(* (ManifestOwn); hence its summary is its own (SummaryOwn), and exit code *)
(* 0 says that it is met (ExitIsMet).  ReportInv follows the generators    *)
(* behind the parser, and the same GateInv makes every lane's invocations  *)
(* ones the contract allows.                                               *)
(*                                                                         *)
(* The stress matrix: every row of a family satisfies what the runner asks *)
(* (StressInv).  The published numbers and the compiled-firmware lane: a   *)
(* recipe is a sequence of commands that stops at the first failure, and   *)
(* each leaves files; once one is done what its files show stands (Stands, *)
(* LaneStands) as long as no later command of the recipe writes them,      *)
(* which the order of every recipe ensures (Orderly, LaneOrderly).  PubInv *)
(* and LaneInv say so of the commands done so far.                         *)
(***************************************************************************)
EXTENDS Evidence, SequenceTheorems, FiniteSetTheorems, TLAPS

Pc ==
  {"idle", "run", "open_manifest", "write_manifest", "parse", "coverage", "power", "failures",
   "history", "targets", "matrix", "exit"}

Types ==
  /\ job \in [Lane -> [pc : Pc, at : RunId, rows : SUBSET ManifestRow]]
  /\ log \in [Lane -> [RunId -> Verdict]]
  /\ manifest \in SUBSET ManifestRow
  /\ summary \in [Lane -> SUBSET SummaryRow]
  /\ target \in [Lane -> {"skip", "todo", "running", "ran", "checked"} \cup Bad]

OneAtATime ==
  /\ \A l \in Lane : target[l] = "running" <=> ~At(l, "idle")
  /\ \A l, m \in Lane : ~At(l, "idle") /\ ~At(m, "idle") => l = m

\* Between makes no recipe runs or can start.
Settled ==
  /\ goal = "none" => /\ \A l \in Lane : target[l] \notin {"running", "ran"}
                      /\ (\E l \in Lane : target[l] \in Bad) \/ \A l \in Lane : target[l] # "todo"
  /\ goal # "none" => \A l \in Lane : target[l] # "skip" => l \in Needs(goal)

RowsOf(set, l, ids) ==
  /\ \A row \in set : row.lane = l
  /\ \A r \in ids : \E row \in set : row.run = r

RowsComplete ==
  \A l \in Lane :
    /\ At(l, "run") => RowsOf(job[l].rows, l, 1 .. job[l].at - 1)
    /\ At(l, "open_manifest") \/ At(l, "write_manifest") => RowsOf(job[l].rows, l, RunId)

ManifestOwn == \A l \in Lane : At(l, "parse") => RowsOf(manifest, l, RunId)

OwnSummary(l) ==
  /\ RowsOf(summary[l], l, RunId)
  /\ \A row \in summary[l] : row.status = NormalizeStatus(log[l][row.run])

SummaryOwn ==
  \A l \in Lane : Published(l) \/ target[l] \in {"ran", "checked"} => OwnSummary(l)

ExitIsMet ==
  \A l \in Lane : target[l] \in {"ran", "checked"} => \A row \in summary[l] : Meets(row)

GateInv ==
  Types /\ OneAtATime /\ Settled /\ RowsComplete /\ ManifestOwn /\ SummaryOwn /\ ExitIsMet

-----------------------------------------------------------------------------
LEMMA RunIdFacts ==
  /\ Len(Runs) \in Nat \ {0}
  /\ RunId \subseteq Nat
  /\ 1 \in RunId
  /\ \A r \in RunId : r # Len(Runs) => r + 1 \in RunId
  /\ \A r \in RunId : Runs[r].soc \in BOOLEAN
<1> DEFINE ids == Runs
<1>1. ids \in Seq(TestSpec) /\ ids # <<>>
  BY RunsAssumption
<1>2. RunId = 1 .. Len(ids)
  BY DEF RunId
<1> HIDE DEF ids
<1>3. Len(ids) \in Nat \ {0}
  BY <1>1
<1>4. \A r \in 1 .. Len(ids) : ids[r] \in TestSpec
  BY <1>1
<1>5. \A r \in 1 .. Len(ids) : ids[r].soc \in BOOLEAN
  BY <1>4 DEF TestSpec
<1>6. /\ RunId \subseteq Nat
      /\ 1 \in RunId
      /\ \A r \in RunId : r # Len(ids) => r + 1 \in RunId
      /\ \A r \in RunId : ids[r].soc \in BOOLEAN
  BY <1>2, <1>3, <1>5
<1> QED BY <1>3, <1>6 DEF ids

LEMMA InitEstablishes == Init => GateInv
<1> SUFFICES ASSUME Init PROVE GateInv
  OBVIOUS
<1> USE DEF Init, RegressInit
<1>1. Types
  <2>1. job \in [Lane -> [pc : Pc, at : RunId, rows : SUBSET ManifestRow]]
    <3>1. Idle \in [pc : Pc, at : RunId, rows : SUBSET ManifestRow]
      BY RunIdFacts DEF Idle, Pc
    <3>2. job = [l \in Lane |-> Idle]
      OBVIOUS
    <3> QED BY <3>1, <3>2
  <2>2. log \in [Lane -> [RunId -> Verdict]]
    BY DEF Verdict
  <2>3. manifest \in SUBSET ManifestRow /\ summary \in [Lane -> SUBSET SummaryRow]
    OBVIOUS
  <2>4. target \in [Lane -> {"skip", "todo", "running", "ran", "checked"} \cup Bad]
    OBVIOUS
  <2> QED BY <2>1, <2>2, <2>3, <2>4 DEF Types
<1>2. OneAtATime /\ Settled
  BY DEF OneAtATime, Settled, At, Idle
<1>3. RowsComplete /\ ManifestOwn /\ SummaryOwn /\ ExitIsMet
  BY DEF RowsComplete, ManifestOwn, SummaryOwn, ExitIsMet, At, Idle, Published
<1> QED BY <1>1, <1>2, <1>3 DEF GateInv

-----------------------------------------------------------------------------
\* The report generators after the parser move one lane on and leave what the
\* invariant reads alone.
LEMMA LaterReports ==
  ASSUME GateInv, NEW l \in Lane, UNCHANGED <<log, manifest, summary, goal, target>>,
         NEW pc \in Pc \ {"idle", "run", "open_manifest", "write_manifest", "parse"},
         Published(l), GoTo(l, pc)
  PROVE  GateInv'
<1> USE DEF GateInv
<1>1. job \in [Lane -> [pc : Pc, at : RunId, rows : SUBSET ManifestRow]]
  BY DEF Types
<1>2. /\ \A m \in Lane : m # l => job'[m] = job[m]
      /\ job'[l].pc = pc
  BY <1>1 DEF GoTo
<1>3. Types'
  BY DEF Types, GoTo
<1>4. \A m \in Lane : /\ At(m, "idle")' <=> At(m, "idle")
                      /\ Published(m)' <=> Published(m)
                      /\ ~At(l, "run")' /\ ~At(l, "open_manifest")'
                      /\ ~At(l, "write_manifest")' /\ ~At(l, "parse")'
  BY <1>2 DEF At, Published, Pc
<1>5. OneAtATime'
  BY <1>4 DEF OneAtATime
<1>6. Settled'
  BY DEF Settled
<1>7. RowsComplete' /\ ManifestOwn'
  BY <1>2, <1>4 DEF RowsComplete, ManifestOwn, At
<1>8. SummaryOwn' /\ ExitIsMet'
  BY <1>4 DEF SummaryOwn, ExitIsMet, OwnSummary, Meets
<1> QED BY <1>3, <1>5, <1>6, <1>7, <1>8

LEMMA ReportStepPreserves ==
  ASSUME GateInv, NEW l \in Lane, ReportStep(l), UNCHANGED <<makes, goal, target, gate>>
  PROVE  GateInv'
<1> USE DEF GateInv
<1>1. job \in [Lane -> [pc : Pc, at : RunId, rows : SUBSET ManifestRow]]
  BY DEF Types
<1>2. CASE OpenManifest(l)
  <2> USE <1>2 DEF OpenManifest
  <2>1. /\ \A m \in Lane : m # l => job'[m] = job[m] /\ At(m, "idle")
        /\ job'[l] = [job[l] EXCEPT !.pc = "write_manifest"]
    BY <1>1 DEF GoTo, At, OneAtATime
  <2>2. Types'
    BY DEF Types, GoTo, Pc, files, reports, trend
  <2>3. \A m \in Lane : m # l => At(m, "idle")'
    BY <2>1 DEF At
  <2>4. At(l, "write_manifest")' /\ ~Published(l)' /\ job'[l].rows = job[l].rows
    BY <1>1, <2>1 DEF At, Published
  <2>5. OneAtATime'
    BY <2>3, <2>4 DEF OneAtATime, At
  <2>6. Settled'
    BY DEF Settled
  <2>7. RowsComplete' /\ ManifestOwn'
    BY <2>3, <2>4 DEF RowsComplete, ManifestOwn, At
  <2>8. SummaryOwn' /\ ExitIsMet'
    BY <2>3, <2>4 DEF SummaryOwn, ExitIsMet, OwnSummary, Meets, At, Published, files, reports, trend
  <2> QED BY <2>2, <2>5, <2>6, <2>7, <2>8
<1>3. CASE WriteManifest(l)
  <2> USE <1>3 DEF WriteManifest
  <2>1. /\ \A m \in Lane : m # l => job'[m] = job[m] /\ At(m, "idle")
        /\ job'[l] = [job[l] EXCEPT !.pc = "parse"]
    BY <1>1 DEF GoTo, At, OneAtATime
  <2>2. Types'
    BY DEF Types, GoTo, Pc, files, reports, trend
  <2>3. \A m \in Lane : m # l => At(m, "idle")'
    BY <2>1 DEF At
  <2>4. At(l, "parse")' /\ ~Published(l)' /\ manifest' = job[l].rows
    BY <1>1, <2>1 DEF At, Published
  <2>5. OneAtATime'
    BY <2>3, <2>4 DEF OneAtATime, At
  <2>6. Settled'
    BY DEF Settled
  <2>7. RowsComplete' /\ ManifestOwn'
    BY <2>3, <2>4 DEF RowsComplete, ManifestOwn, At
  <2>8. SummaryOwn' /\ ExitIsMet'
    BY <2>3, <2>4 DEF SummaryOwn, ExitIsMet, OwnSummary, Meets, At, Published, files, reports, trend
  <2> QED BY <2>2, <2>5, <2>6, <2>7, <2>8
<1>4. CASE Parse(l)
  <2> USE <1>4 DEF Parse
  <2>1. /\ \A m \in Lane : m # l => job'[m] = job[m] /\ At(m, "idle")
        /\ job'[l] = [job[l] EXCEPT !.pc = "coverage"]
    BY <1>1 DEF GoTo, At, OneAtATime
  <2>2. \A m \in Lane : m # l => At(m, "idle")' /\ summary'[m] = summary[m]
    BY <2>1 DEF At, Types
  <2>3. summary'[l] =
          {[lane |-> row.lane, run |-> row.run, cov |-> row.cov, power |-> row.power,
            status |-> NormalizeStatus(log[row.lane][row.run])] : row \in manifest}
    BY DEF Types
  <2>4. summary'[l] \in SUBSET SummaryRow
    BY <2>3 DEF Types, ManifestRow, SummaryRow, NormalizeStatus
  <2>5. Types'
    BY <2>4 DEF Types, GoTo, Pc, files, reports, trend
  <2>6. At(l, "coverage")' /\ target[l] = "running"
    BY <1>1, <2>1, <2>2 DEF At, OneAtATime
  <2>7. OneAtATime'
    BY <2>2, <2>6 DEF OneAtATime, At
  <2>8. Settled'
    BY DEF Settled
  <2>9. RowsComplete' /\ ManifestOwn'
    BY <2>2, <2>6 DEF RowsComplete, ManifestOwn, At
  <2>10. OwnSummary(l)'
    <3>1. RowsOf(manifest, l, RunId)
      BY DEF ManifestOwn
    <3>2. log' = log
      BY DEF files
    <3>3. ASSUME NEW row \in summary'[l]
          PROVE  row.lane = l /\ row.status = NormalizeStatus(log[l][row.run])
      <4>1. PICK old \in manifest :
              row = [lane |-> old.lane, run |-> old.run, cov |-> old.cov, power |-> old.power,
                     status |-> NormalizeStatus(log[old.lane][old.run])]
        BY <2>3
      <4>2. old.lane = l
        BY <3>1 DEF RowsOf
      <4> QED BY <4>1, <4>2
    <3>4. ASSUME NEW r \in RunId
          PROVE  \E row \in summary'[l] : row.run = r
      <4>1. PICK old \in manifest : old.run = r
        BY <3>1 DEF RowsOf
      <4> DEFINE new ==
            [lane |-> old.lane, run |-> old.run, cov |-> old.cov, power |-> old.power,
             status |-> NormalizeStatus(log[old.lane][old.run])]
      <4>2. new \in summary'[l] /\ new.run = r
        BY <2>3, <4>1
      <4> QED BY <4>2
    <3> QED BY <3>2, <3>3, <3>4 DEF OwnSummary, RowsOf
  <2>11. SummaryOwn' /\ ExitIsMet'
    BY <2>2, <2>6, <2>10 DEF SummaryOwn, ExitIsMet, OwnSummary, Meets, At, Published, files
  <2> QED BY <2>5, <2>7, <2>8, <2>9, <2>11
<1>5. CASE ReportCoverage(l)
  BY <1>5, LaterReports DEF ReportCoverage, files, At, Published, Pc
<1>6. CASE ReportPower(l)
  BY <1>6, LaterReports DEF ReportPower, files, At, Published, Pc
<1>7. CASE ReportFailures(l)
  <2>1. CASE l = Plain /\ SUITE \in {"stable", "closure"}
    BY <1>7, <2>1, LaterReports DEF ReportFailures, files, At, Published, Pc
  <2>2. CASE ~(l = Plain /\ SUITE \in {"stable", "closure"})
    BY <1>7, <2>2, LaterReports DEF ReportFailures, files, At, Published, Pc
  <2> QED BY <2>1, <2>2
<1>8. CASE WriteHistory(l)
  BY <1>8, LaterReports DEF WriteHistory, files, reports, At, Published, Pc
<1>9. CASE WriteTargets(l)
  BY <1>9, LaterReports DEF WriteTargets, files, reports, At, Published, Pc
<1>10. CASE WriteMatrix(l)
  BY <1>10, LaterReports DEF WriteMatrix, files, reports, At, Published, Pc
<1> QED BY <1>2, <1>3, <1>4, <1>5, <1>6, <1>7, <1>8, <1>9, <1>10 DEF ReportStep

-----------------------------------------------------------------------------
LEMMA SimulatePreserves ==
  ASSUME GateInv, NEW l \in Lane, Simulate(l), UNCHANGED <<makes, goal, target, gate>>
  PROVE  GateInv'
<1> USE DEF GateInv
<1> DEFINE r == job[l].at
<1>1. job \in [Lane -> [pc : Pc, at : RunId, rows : SUBSET ManifestRow]]
  BY DEF Types
<1>2. /\ At(l, "run") /\ r \in RunId /\ target[l] = "running"
      /\ \A m \in Lane : m # l => At(m, "idle")
  BY <1>1 DEF Simulate, OneAtATime, At
<1>3. PICK o \in Outcome : log' = [log EXCEPT ![l][r] = o.verdict]
  BY DEF Simulate
<1>4. PICK cov, on \in BOOLEAN :
        job' = [job EXCEPT ![l] =
                  [pc |-> IF r = Len(Runs) THEN "open_manifest" ELSE "run",
                   at |-> IF r = Len(Runs) THEN r ELSE r + 1,
                   rows |-> @.rows \cup {[lane |-> l, run |-> r, cov |-> cov, power |-> on]}]]
  <2>1. Runs[r].soc \in BOOLEAN
    BY <1>2, RunIdFacts
  <2> DEFINE cov == r \in cov_csv'[l]
             on == Runs[r].soc /\ r \in power_csv'[l]
  <2>2. cov \in BOOLEAN /\ on \in BOOLEAN
    BY <2>1
  <2>3. job' = [job EXCEPT ![l] =
                  [pc |-> IF r = Len(Runs) THEN "open_manifest" ELSE "run",
                   at |-> IF r = Len(Runs) THEN r ELSE r + 1,
                   rows |-> @.rows \cup {[lane |-> l, run |-> r, cov |-> cov, power |-> on]}]]
    BY DEF Simulate
  <2> QED BY <2>2, <2>3
<1> DEFINE row == [lane |-> l, run |-> r, cov |-> cov, power |-> on]
<1>5. /\ \A m \in Lane : m # l => job'[m] = job[m]
      /\ job'[l].pc = IF r = Len(Runs) THEN "open_manifest" ELSE "run"
      /\ job'[l].at = IF r = Len(Runs) THEN r ELSE r + 1
      /\ job'[l].rows = job[l].rows \cup {row}
  BY <1>1, <1>4
<1>6. Types'
  <2>1. row \in ManifestRow
    BY <1>2 DEF ManifestRow
  <2>2. r # Len(Runs) => r + 1 \in RunId
    BY <1>2, RunIdFacts
  <2>3. [pc |-> IF r = Len(Runs) THEN "open_manifest" ELSE "run",
         at |-> IF r = Len(Runs) THEN r ELSE r + 1,
         rows |-> job[l].rows \cup {row}] \in [pc : Pc, at : RunId, rows : SUBSET ManifestRow]
    BY <1>1, <1>2, <2>1, <2>2 DEF Pc
  <2>4. job' \in [Lane -> [pc : Pc, at : RunId, rows : SUBSET ManifestRow]]
    BY <1>1, <1>4, <2>3
  <2>5. o.verdict \in Verdict
    BY DEF Outcome, Verdict
  <2>6. log' \in [Lane -> [RunId -> Verdict]]
    BY <1>2, <1>3, <2>5 DEF Types
  <2> QED BY <2>4, <2>6 DEF Types, Simulate, reports, trend
<1>7. \A m \in Lane : /\ At(m, "idle")' <=> At(m, "idle")
                      /\ ~Published(m)' /\ ~At(m, "write_manifest")' /\ ~At(m, "parse")'
                      /\ m # l => ~At(m, "run")' /\ ~At(m, "open_manifest")'
  BY <1>2, <1>5 DEF At, Published
<1>8. OneAtATime'
  BY <1>7 DEF OneAtATime
<1>9. Settled'
  BY DEF Settled
<1>10. RowsComplete'
  <2>1. RowsOf(job[l].rows, l, 1 .. r - 1)
    BY <1>2 DEF RowsComplete
  <2>2. r \in Nat
    BY <1>2, RunIdFacts
  <2>3. \A q \in 1 .. r : q \in 1 .. r - 1 \/ q = r
    BY <2>2
  <2>4. row.lane = l /\ row.run = r /\ row \in job'[l].rows
    BY <1>5
  <2>5. RowsOf(job'[l].rows, l, 1 .. r)
    <3> HIDE DEF r, row
    <3> QED BY <1>5, <2>1, <2>3, <2>4 DEF RowsOf
  <2>6. \A m \in Lane : m # l => ~At(m, "run")' /\ ~At(m, "open_manifest")'
    BY <1>7
  <2>7. At(l, "run")' => RowsOf(job'[l].rows, l, 1 .. job'[l].at - 1)
    <3> SUFFICES ASSUME At(l, "run")' PROVE RowsOf(job'[l].rows, l, 1 .. job'[l].at - 1)
      OBVIOUS
    <3>1. job'[l].at = r + 1
      BY <1>5 DEF At
    <3> HIDE DEF r, row
    <3>2. job'[l].at - 1 = r
      BY <2>2, <3>1
    <3> QED BY <2>5, <3>2
  <2>8. At(l, "open_manifest")' => RowsOf(job'[l].rows, l, RunId)
    <3>1. At(l, "open_manifest")' => 1 .. r = RunId
      BY <1>5 DEF At, RunId
    <3> HIDE DEF r, row
    <3> QED BY <2>5, <3>1
  <2> QED BY <1>7, <2>6, <2>7, <2>8 DEF RowsComplete
<1>11. ManifestOwn'
  BY <1>7 DEF ManifestOwn
<1>12. \A m \in Lane : m # l => log'[m] = log[m]
  BY <1>3 DEF Types
<1>13. SummaryOwn' /\ ExitIsMet'
  BY <1>2, <1>7, <1>12 DEF SummaryOwn, ExitIsMet, OwnSummary, Meets, Simulate, reports
<1> QED BY <1>6, <1>8, <1>9, <1>10, <1>11, <1>13

\* The steps of make itself.
LEMMA MakePreserves ==
  ASSUME GateInv, (\E g \in Goal : Make(g)) \/ Compare \/ MakeEnds
  PROVE  GateInv'
<1> USE DEF GateInv
<1>1. UNCHANGED regressVars
  BY DEF Make, Compare, MakeEnds
<1>2. UNCHANGED <<job, log, manifest, summary>>
  BY <1>1 DEF regressVars, files, reports
<1>3. ASSUME NEW g \in Goal, Make(g) PROVE GateInv'
  <2>1. target' = [m \in Lane |-> IF m \in Needs(g) THEN "todo" ELSE "skip"]
    BY <1>3 DEF Make
  <2>2. \A m \in Lane : target'[m] \in {"todo", "skip"} /\ At(m, "idle")
    BY <1>3, <2>1 DEF Make, Settled, OneAtATime
  <2>3. goal' = g /\ g # "none"
    BY <1>3 DEF Make, Goal
  <2>4. Types' /\ OneAtATime'
    BY <1>2, <2>1, <2>2 DEF Types, OneAtATime, At
  <2>5. Settled'
    BY <2>1, <2>3 DEF Settled, Needs
  <2>6. RowsComplete' /\ ManifestOwn' /\ SummaryOwn' /\ ExitIsMet'
    BY <1>2, <2>2 DEF RowsComplete, ManifestOwn, SummaryOwn, ExitIsMet, Published, At
  <2> QED BY <2>4, <2>5, <2>6
<1>4. ASSUME Compare \/ MakeEnds PROVE GateInv'
  <2>1. target' = target /\ goal' = "none" /\ goal # "none"
    BY <1>4 DEF Compare, MakeEnds
  <2>2. /\ \A l \in Lane : target[l] \notin {"running", "ran"}
        /\ (\E l \in Lane : target[l] \in Bad) \/ \A l \in Lane : target[l] # "todo"
    <3>1. \A l \in Lane : target[l] # "skip" => l \in Needs(goal)
      BY <2>1 DEF Settled
    <3>2. CASE Compare
      BY <3>1, <3>2 DEF Compare
    <3>3. CASE MakeEnds
      BY <3>1, <3>3 DEF MakeEnds
    <3> QED BY <1>4, <3>2, <3>3
  <2>3. Settled'
    BY <2>1, <2>2 DEF Settled
  <2>4. /\ Types' /\ OneAtATime' /\ RowsComplete' /\ ManifestOwn' /\ SummaryOwn' /\ ExitIsMet'
    BY <1>2, <2>1
       DEF Types, OneAtATime, RowsComplete, ManifestOwn, SummaryOwn, ExitIsMet, Published, At,
           OwnSummary, Meets
  <2> QED BY <2>3, <2>4
<1> QED BY <1>3, <1>4

\* A recipe starts, ends, or checks its lane.
LEMMA RecipePreserves ==
  ASSUME PARALLEL = FALSE, GateInv, NEW l \in Lane,
         RunSuite(l) \/ SuiteExits(l) \/ SuiteAborts(l) \/ CheckLane(l)
  PROVE  GateInv'
<1> USE DEF GateInv
<1>1. job \in [Lane -> [pc : Pc, at : RunId, rows : SUBSET ManifestRow]]
  BY DEF Types
<1>2. UNCHANGED <<log, manifest, summary>>
  BY DEF RunSuite, Start, SuiteExits, Finish, SuiteAborts, Abort, CheckLane, files, reports, trend,
         regressVars
<1>3. CASE RunSuite(l)
  <2>1. /\ \A m \in Lane : At(m, "idle")
        /\ job' = [job EXCEPT ![l] = [Idle EXCEPT !.pc = "run"]]
        /\ target' = [target EXCEPT ![l] = "running"] /\ goal' = goal
        /\ target[l] = "todo" /\ \A m \in Lane : target[m] \notin Bad
    BY <1>3 DEF RunSuite, Start
  <2>2. [Idle EXCEPT !.pc = "run"] = [pc |-> "run", at |-> 1, rows |-> {}]
    BY DEF Idle
  <2>3. /\ job'[l] = [pc |-> "run", at |-> 1, rows |-> {}]
        /\ \A m \in Lane : m # l => job'[m] = job[m]
        /\ target'[l] = "running"
        /\ \A m \in Lane : m # l => target'[m] = target[m]
    BY <1>1, <2>1, <2>2 DEF Types
  <2>4. [pc |-> "run", at |-> 1, rows |-> {}] \in [pc : Pc, at : RunId, rows : SUBSET ManifestRow]
    BY RunIdFacts DEF Pc
  <2>5. Types'
    BY <1>1, <1>2, <2>1, <2>2, <2>4 DEF Types
  <2>6. At(l, "run")' /\ \A m \in Lane : m # l => At(m, "idle")'
    BY <2>1, <2>3 DEF At
  <2>7. OneAtATime'
    BY <2>1, <2>3, <2>6 DEF OneAtATime, At
  <2>8. Settled'
    <3>1. goal # "none" /\ l \in Needs(goal)
      BY <2>1 DEF Settled
    <3> QED BY <2>1, <2>3, <3>1 DEF Settled, Needs
  <2>9. RowsOf(job'[l].rows, l, 1 .. job'[l].at - 1)
    BY <2>3 DEF RowsOf
  <2>10. RowsComplete' /\ ManifestOwn'
    BY <2>6, <2>9 DEF RowsComplete, ManifestOwn, At
  <2>11. SummaryOwn' /\ ExitIsMet'
    BY <1>2, <2>3, <2>6 DEF SummaryOwn, ExitIsMet, OwnSummary, Meets, At, Published
  <2> QED BY <2>5, <2>7, <2>8, <2>10, <2>11
<1>4. CASE SuiteExits(l) \/ SuiteAborts(l)
  <2>1. PICK after \in {"ran", "failed"} :
          /\ target' = [target EXCEPT ![l] = after]
          /\ after = "ran" => At(l, "exit") /\ ExitCode(l) = 0
    BY <1>4 DEF SuiteExits, SuiteAborts, Finish
  <2>2. job' = [job EXCEPT ![l] = Idle] /\ goal' = goal /\ ~At(l, "idle")
    BY <1>4 DEF SuiteExits, SuiteAborts, Finish, Abort, At
  <2>3. /\ job'[l] = Idle /\ \A m \in Lane : m # l => job'[m] = job[m]
        /\ target'[l] = after /\ \A m \in Lane : m # l => target'[m] = target[m]
        /\ target[l] = "running"
    BY <1>1, <2>1, <2>2 DEF Types, OneAtATime
  <2>4. Idle \in [pc : Pc, at : RunId, rows : SUBSET ManifestRow]
    BY RunIdFacts DEF Idle, Pc
  <2>5. Types'
    BY <1>1, <1>2, <2>1, <2>2, <2>4 DEF Types, Bad
  <2>6. \A m \in Lane : At(m, "idle")'
    BY <2>2, <2>3 DEF At, Idle, OneAtATime
  <2>7. OneAtATime'
    <3>1. \A m \in Lane : m # l => target[m] # "running"
      BY <2>2 DEF OneAtATime
    <3> QED BY <2>1, <2>3, <2>6, <3>1 DEF OneAtATime
  <2>8. Settled'
    BY <2>2, <2>3 DEF Settled, Needs
  <2>9. RowsComplete' /\ ManifestOwn'
    BY <2>6 DEF RowsComplete, ManifestOwn, At
  <2>10. ASSUME after = "ran"
         PROVE  OwnSummary(l) /\ \A row \in summary[l] : Meets(row)
    <3>1. OwnSummary(l)
      BY <2>1, <2>10 DEF SummaryOwn, Published, At
    <3>2. UnmetRows(l) = {}
      BY <2>1, <2>10 DEF ExitCode
    <3> QED BY <3>1, <3>2 DEF UnmetRows
  <2>11. SummaryOwn' /\ ExitIsMet'
    BY <1>2, <2>1, <2>3, <2>6, <2>10
       DEF SummaryOwn, ExitIsMet, OwnSummary, Meets, At, Published
  <2> QED BY <2>5, <2>7, <2>8, <2>9, <2>11
<1>5. CASE CheckLane(l)
  <2>1. PICK after \in {"checked", "rejected"} : target' = [target EXCEPT ![l] = after]
    BY <1>5 DEF CheckLane
  <2>2. job' = job /\ goal' = goal /\ target[l] = "ran"
    BY <1>5 DEF CheckLane, regressVars
  <2>3. target'[l] = after /\ \A m \in Lane : m # l => target'[m] = target[m]
    BY <2>1 DEF Types
  <2>4. Types'
    BY <1>2, <2>1, <2>2 DEF Types, Bad
  <2>5. OneAtATime'
    BY <2>1, <2>2, <2>3 DEF OneAtATime, At
  <2>6. Settled'
    BY <2>2, <2>3 DEF Settled, Needs
  <2>7. RowsComplete' /\ ManifestOwn'
    BY <1>2, <2>2 DEF RowsComplete, ManifestOwn, At
  <2>8. SummaryOwn' /\ ExitIsMet'
    BY <1>2, <2>1, <2>2, <2>3 DEF SummaryOwn, ExitIsMet, OwnSummary, Meets, At, Published
  <2> QED BY <2>4, <2>5, <2>6, <2>7, <2>8
<1> QED BY <1>3, <1>4, <1>5

LEMMA NextPreserves ==
  ASSUME PARALLEL = FALSE, GateInv, [Next]_vars
  PROVE  GateInv'
<1>1. CASE UNCHANGED vars
  BY <1>1
     DEF vars, regressVars, files, reports, GateInv, Types, OneAtATime, Settled, RowsComplete,
         ManifestOwn, SummaryOwn, ExitIsMet, OwnSummary, Published, At, Meets
<1>2. CASE (\E g \in Goal : Make(g)) \/ Compare \/ MakeEnds
  BY <1>2, MakePreserves
<1>3. ASSUME NEW l \in Lane, LaneStep(l) \/ SuiteAborts(l)
      PROVE  GateInv'
  <2>1. CASE SuiteStep(l)
    BY <2>1, SimulatePreserves, ReportStepPreserves DEF SuiteStep
  <2>2. CASE RunSuite(l) \/ SuiteExits(l) \/ SuiteAborts(l) \/ CheckLane(l)
    BY <2>2, RecipePreserves
  <2> QED BY <1>3, <2>1, <2>2 DEF LaneStep
<1> QED BY <1>1, <1>2, <1>3 DEF Next

LEMMA GateInvMeansMet == GateInv => CheckedMeansMet
<1> SUFFICES ASSUME GateInv, NEW l \in Lane, target[l] = "checked", NEW r \in RunId
             PROVE  NormalizeStatus(log[l][r]) = Expected(r)
  BY DEF CheckedMeansMet
<1>1. OwnSummary(l) /\ \A row \in summary[l] : Meets(row)
  BY DEF GateInv, SummaryOwn, ExitIsMet
<1>2. PICK row \in summary[l] : row.run = r
  BY <1>1 DEF OwnSummary, RowsOf
<1> QED BY <1>1, <1>2 DEF OwnSummary, Meets

\* While make runs one recipe at a time, a lane that passes its own check is
\* one whose tests all gave, in this very invocation, the verdict they should:
\* whatever reports and CSVs earlier makes left, and whichever of them failed
\* or was interrupted (run_regression.py, check_closure_equivalence.py and the
\* Makefile's closure targets).
THEOREM CheckedLaneMet ==
  ASSUME PARALLEL = FALSE
  PROVE  Spec => []CheckedMeansMet
<1>1. Init => GateInv
  BY InitEstablishes
<1>2. GateInv /\ [Next]_vars => GateInv'
  BY NextPreserves
<1>3. GateInv => CheckedMeansMet
  BY GateInvMeansMet
<1> QED BY <1>1, <1>2, <1>3, PTL DEF Spec

-----------------------------------------------------------------------------
(* What the reports of an accepted lane say.  Each generator reads the file  *)
(* of the one before, so the invariant follows them: the counts, the         *)
(* covered bins and the trend are of the summary at hand, and a log with a   *)
(* verdict comes from a simulation that wrote its CSVs.                      *)

BugRowsOf(set) == {row \in set : Expected(row.run) = "FAIL"}

CountsOf(set, bins) ==
  [unexpected |-> Cardinality({row \in set : row.status = "FAIL" /\ Expected(row.run) = "PASS"}),
   expected_bugs |-> Cardinality({row \in BugRowsOf(set) : row.status = "FAIL" /\ Meets(row)}),
   bugs |-> Cardinality(BugRowsOf(set)),
   covered |-> Cardinality(bins)]

MetBugs(set) == Cardinality({row \in BugRowsOf(set) : Meets(row)})

Trends == SUITE \in {"stable", "closure"}

ReportTypes ==
  /\ coverage \in [Lane -> SUBSET Bin]
  /\ written \in [Lane -> SUBSET RunId]
  /\ dashboard = [l \in Lane |-> dashboard[l]]
  /\ \E set : history \in Seq(set)

HitBySome(bins) == \A b \in bins : \E r \in RunId : b \in Runs[r].hits

Counted(l) ==
  \/ job[l].pc \in {"history", "targets", "matrix", "exit"}
  \/ target[l] \in {"ran", "checked"}

Simulated(l) == IF At(l, "run") THEN 1 .. job[l].at - 1 ELSE RunId

LaneReports(l) ==
  /\ HitBySome(coverage[l])
  /\ Counted(l) => dashboard[l] = CountsOf(summary[l], coverage[l])
  /\ target[l] = "checked" => coverage[l] = Bin
  /\ target[l] \in {"running", "ran", "checked"} =>
       \A r \in Simulated(l) : log[l][r] = "NONE" \/ r \in written[l]
  /\ job[l].pc \in {"history", "targets", "matrix"} => l = Plain /\ Trends

TrendOf(bins) == history # <<>> /\ history[Len(history)].covered = Cardinality(bins)

TargetsOf(set, bins) == targets = [uncovered |-> Bin \ bins, bugs_met |-> MetBugs(set)]

PlainTrend ==
  Trends =>
    /\ job[Plain].pc \in {"targets", "matrix", "exit"} => TrendOf(coverage[Plain])
    /\ job[Plain].pc \in {"matrix", "exit"} => TargetsOf(summary[Plain], coverage[Plain])
    /\ job[Plain].pc = "exit" =>
         matrix = [trend |-> Cardinality(coverage[Plain]), table |-> coverage[Plain]]

ReportInv == ReportTypes /\ (\A l \in Lane : LaneReports(l)) /\ PlainTrend

-----------------------------------------------------------------------------
LEMMA KeptSnapshot ==
  ASSUME NEW set, NEW s \in Seq(set), NEW x, NEW n \in Nat \ {0}
  PROVE  \A kept : kept = KeepLast(Append(s, x), n) =>
           kept \in Seq(set \cup {x}) /\ kept # <<>> /\ kept[Len(kept)] = x
<1> DEFINE all == Append(s, x)
           kept == KeepLast(all, n)
<1>1. /\ all \in Seq(set \cup {x})
      /\ Len(all) = Len(s) + 1 /\ Len(s) \in Nat
      /\ all[Len(all)] = x
  <2>1. s \in Seq(set \cup {x})
    OBVIOUS
  <2> QED BY <2>1, AppendProperties
<1>2. CASE Len(all) <= n
  <2>1. kept = all
    BY <1>2 DEF KeepLast
  <2> HIDE DEF all, kept
  <2>2. all # <<>>
    BY <1>1
  <2> QED BY <1>1, <2>1, <2>2 DEF kept, all
<1>3. CASE ~(Len(all) <= n)
  <2>1. kept = SubSeq(all, Len(all) - n + 1, Len(all))
    BY <1>3 DEF KeepLast
  <2> HIDE DEF all, kept
  <2>2. /\ Len(all) - n + 1 \in 1 .. Len(all)
        /\ Len(all) \in Nat
    BY <1>1, <1>3
  <2>3. /\ kept \in Seq(set \cup {x}) /\ Len(kept) = n
        /\ kept[n] = all[Len(all) - n + 1 + n - 1]
    BY <1>1, <2>1, <2>2, SubSeqProperties
  <2>4. kept # <<>> /\ kept[Len(kept)] = all[Len(all)]
    BY <2>2, <2>3
  <2> QED BY <1>1, <2>3, <2>4 DEF kept, all
<1> QED BY <1>2, <1>3

LEMMA HitsAreBins == \A r \in RunId : Runs[r].hits \subseteq Bin
<1> DEFINE ids == Runs
<1>1. ids \in Seq(TestSpec)
  BY RunsAssumption
<1>2. RunId = 1 .. Len(ids)
  BY DEF RunId
<1> HIDE DEF ids
<1>3. \A r \in 1 .. Len(ids) : ids[r] \in TestSpec
  BY <1>1
<1>4. \A r \in 1 .. Len(ids) : ids[r].hits \subseteq Bin
  BY <1>3 DEF TestSpec
<1> QED BY <1>2, <1>4 DEF ids

LEMMA ReportInvInit == Init => ReportInv
<1> SUFFICES ASSUME Init PROVE ReportInv
  OBVIOUS
<1> USE DEF Init, RegressInit
<1>1. \E set : history \in Seq(set)
  OBVIOUS
<1>2. ReportTypes
  BY <1>1 DEF ReportTypes
<1>3. \A l \in Lane : job[l].pc = "idle" /\ target[l] = "skip" /\ coverage[l] = {}
  BY DEF Idle
<1>4. \A l \in Lane : LaneReports(l)
  BY <1>3 DEF LaneReports, HitBySome, Counted
<1>5. PlainTrend
  BY <1>3, SpecsAssumption DEF PlainTrend
<1> QED BY <1>2, <1>4, <1>5 DEF ReportInv

\* A step of one lane's generators: only that lane has to be looked at.
LEMMA GeneratorStep ==
  ASSUME GateInv, ReportInv, NEW l \in Lane, NEW pc \in Pc \ {"idle", "run"},
         ~At(l, "idle"), ~At(l, "run"), GoTo(l, pc), UNCHANGED <<log, written, target>>,
         \A m \in Lane \ {l} :
           summary'[m] = summary[m] /\ coverage'[m] = coverage[m] /\ dashboard'[m] = dashboard[m],
         ReportTypes', HitBySome(coverage'[l]),
         pc \in {"history", "targets", "matrix", "exit"} =>
           dashboard'[l] = CountsOf(summary'[l], coverage'[l]),
         pc \in {"history", "targets", "matrix"} => l = Plain /\ Trends,
         l = Plain /\ Trends =>
           /\ pc \in {"targets", "matrix", "exit"} => TrendOf(coverage[l])'
           /\ pc \in {"matrix", "exit"} => TargetsOf(summary[l], coverage[l])'
           /\ pc = "exit" => (matrix = [trend |-> Cardinality(coverage[l]), table |-> coverage[l]])'
  PROVE  ReportInv'
<1>1. job \in [Lane -> [pc : Pc, at : RunId, rows : SUBSET ManifestRow]]
  BY DEF GateInv, Types
<1>2. /\ job'[l].pc = pc /\ job'[l].at = job[l].at
      /\ \A m \in Lane \ {l} : job'[m] = job[m] /\ job[m].pc = "idle"
      /\ target[l] = "running"
  BY <1>1 DEF GoTo, GateInv, OneAtATime, At
<1>3. \A m \in Lane \ {l} : LaneReports(m)'
  <2> SUFFICES ASSUME NEW m \in Lane \ {l} PROVE LaneReports(m)'
    OBVIOUS
  <2>1. LaneReports(m)
    BY DEF ReportInv
  <2>2. Simulated(m)' = Simulated(m) /\ (Counted(m)' <=> Counted(m))
    BY <1>2 DEF Simulated, Counted, At
  <2> QED BY <1>2, <2>1, <2>2 DEF LaneReports
<1>4. LaneReports(l)'
  <2>1. LaneReports(l)
    BY DEF ReportInv
  <2>2. Simulated(l)' = RunId /\ Simulated(l) = RunId
    BY <1>2 DEF Simulated, At
  <2>3. Counted(l)' <=> pc \in {"history", "targets", "matrix", "exit"}
    BY <1>2 DEF Counted
  <2> QED BY <1>2, <2>1, <2>2, <2>3 DEF LaneReports
<1>5. PlainTrend'
  <2>1. CASE l = Plain
    BY <1>2, <2>1 DEF PlainTrend
  <2>2. CASE l # Plain
    BY <1>2, <2>2, SpecsAssumption DEF PlainTrend
  <2> QED BY <2>1, <2>2
<1> QED BY <1>3, <1>4, <1>5 DEF ReportInv

LEMMA GeneratorsKeep ==
  ASSUME GateInv, ReportInv, NEW l \in Lane, ReportStep(l), UNCHANGED <<makes, goal, target, gate>>
  PROVE  ReportInv'
<1> USE DEF ReportInv, GateInv, files, reports, trend
<1>1. /\ LaneReports(l) /\ HitBySome(coverage[l])
      /\ ReportTypes /\ PlainTrend
  BY DEF LaneReports
<1>2. CASE OpenManifest(l) \/ WriteManifest(l)
  <2>1. PICK pc \in {"write_manifest", "parse"} : GoTo(l, pc)
    BY <1>2 DEF OpenManifest, WriteManifest
  <2>2. ~At(l, "idle") /\ ~At(l, "run")
    BY <1>2 DEF OpenManifest, WriteManifest, At
  <2>3. UNCHANGED <<files, reports, trend>>
    BY <1>2 DEF OpenManifest, WriteManifest
  <2>4. ReportTypes'
    BY <1>1, <2>3 DEF ReportTypes
  <2> QED BY <1>1, <2>1, <2>2, <2>3, <2>4, GeneratorStep DEF Pc
<1>3. CASE Parse(l)
  <2>1. \A m \in Lane \ {l} : summary'[m] = summary[m]
    BY <1>3 DEF Parse, Types
  <2>2. ReportTypes'
    BY <1>1, <1>3 DEF Parse, ReportTypes
  <2>3. ~At(l, "idle") /\ ~At(l, "run") /\ GoTo(l, "coverage")
    BY <1>3 DEF Parse, At
  <2> QED BY <1>1, <1>3, <2>1, <2>2, <2>3, GeneratorStep DEF Parse, Pc
<1>4. CASE ReportCoverage(l)
  <2> DEFINE bins == UNION {Runs[row.run].hits :
                              row \in {s \in summary[l] : s.cov /\ s.run \in cov_csv[s.lane]}}
  <2>1. coverage' = [coverage EXCEPT ![l] = bins]
    BY <1>4 DEF ReportCoverage
  <2>2. \A row \in summary[l] : row.run \in RunId
    BY DEF Types, SummaryRow
  <2>3. HitBySome(bins)
    BY <2>2 DEF HitBySome
  <2>4. bins \subseteq Bin
    BY <2>3, HitsAreBins DEF HitBySome
  <2> HIDE DEF bins
  <2>5. coverage'[l] = bins /\ \A m \in Lane \ {l} : coverage'[m] = coverage[m]
    BY <1>1, <2>1 DEF ReportTypes
  <2>6. ReportTypes'
    BY <1>1, <1>4, <2>1, <2>4 DEF ReportCoverage, ReportTypes
  <2>7. ~At(l, "idle") /\ ~At(l, "run") /\ GoTo(l, "power")
    BY <1>4 DEF ReportCoverage, At
  <2> QED BY <1>1, <1>4, <2>3, <2>5, <2>6, <2>7, GeneratorStep DEF ReportCoverage, Pc
<1>5. CASE ReportPower(l)
  <2>1. ReportTypes'
    BY <1>1, <1>5 DEF ReportPower, ReportTypes
  <2>2. ~At(l, "idle") /\ ~At(l, "run") /\ GoTo(l, "failures")
    BY <1>5 DEF ReportPower, At
  <2> QED BY <1>1, <1>5, <2>1, <2>2, GeneratorStep DEF ReportPower, Pc
<1>6. CASE ReportFailures(l)
  <2>1. dashboard' = [dashboard EXCEPT ![l] = CountsOf(summary[l], coverage[l])]
    BY <1>6 DEF ReportFailures, CountsOf, BugRowsOf, BugRows
  <2>2. /\ dashboard'[l] = CountsOf(summary[l], coverage[l])
        /\ \A m \in Lane \ {l} : dashboard'[m] = dashboard[m]
        /\ dashboard' = [m \in Lane |-> dashboard'[m]]
    BY <1>1, <2>1 DEF ReportTypes
  <2>3. ReportTypes'
    BY <1>1, <1>6, <2>2 DEF ReportFailures, ReportTypes
  <2>4. ~At(l, "idle") /\ ~At(l, "run")
    BY <1>6 DEF ReportFailures, At
  <2>5. CASE l = Plain /\ Trends
    BY <1>1, <1>6, <2>2, <2>3, <2>4, <2>5, GeneratorStep DEF ReportFailures, Pc, Trends
  <2>6. CASE ~(l = Plain /\ Trends)
    BY <1>1, <1>6, <2>2, <2>3, <2>4, <2>6, GeneratorStep DEF ReportFailures, Pc, Trends
  <2> QED BY <2>5, <2>6
<1>7. CASE WriteHistory(l)
  <2> DEFINE shown == [total_runs |-> Cardinality(summary[l]),
                          meets_expectation |-> Cardinality(summary[l]) - Cardinality(UnmetRows(l)),
                          covered |-> Cardinality(coverage[l])]
  <2>1. summary[l] # {}
    BY <1>7, RunIdFacts DEF WriteHistory, SummaryOwn, Published, At, OwnSummary, RowsOf
  <2>2. history' = KeepLast(Append(history, shown), HISTORY_ROWS)
    BY <1>7, <2>1 DEF WriteHistory
  <2>3. PICK set : history \in Seq(set)
    BY <1>1 DEF ReportTypes
  <2>4. shown.covered = Cardinality(coverage[l])
    OBVIOUS
  <2> HIDE DEF shown
  <2>5. /\ history' \in Seq(set \cup {shown}) /\ history' # <<>>
        /\ history'[Len(history')] = shown
    <3>1. HISTORY_ROWS \in Nat \ {0}
      BY SpecsAssumption
    <3>2. \A kept : kept = KeepLast(Append(history, shown), HISTORY_ROWS) =>
            kept \in Seq(set \cup {shown}) /\ kept # <<>> /\ kept[Len(kept)] = shown
      BY <2>3, <3>1, KeptSnapshot
    <3> QED BY <2>2, <3>2
  <2>6. ReportTypes'
    BY <1>1, <1>7, <2>5 DEF WriteHistory, ReportTypes
  <2>7. ~At(l, "idle") /\ ~At(l, "run") /\ GoTo(l, "targets") /\ l = Plain /\ Trends
    BY <1>1, <1>7 DEF WriteHistory, At, LaneReports
  <2>8. TrendOf(coverage[l])'
    BY <1>7, <2>4, <2>5 DEF WriteHistory, TrendOf
  <2>9. dashboard[l] = CountsOf(summary[l], coverage[l])
    BY <1>1, <1>7 DEF WriteHistory, At, LaneReports, Counted
  <2> QED BY <1>1, <1>7, <2>6, <2>7, <2>8, <2>9, GeneratorStep DEF WriteHistory, Pc
<1>8. CASE WriteTargets(l)
  <2>1. ~At(l, "idle") /\ ~At(l, "run") /\ GoTo(l, "matrix") /\ l = Plain /\ Trends
    BY <1>1, <1>8 DEF WriteTargets, At, LaneReports
  <2>2. TargetsOf(summary[l], coverage[l])'
    BY <1>8 DEF WriteTargets, TargetsOf, MetBugs, BugRowsOf, BugRows
  <2>3. TrendOf(coverage[l])'
    BY <1>1, <1>8, <2>1 DEF WriteTargets, PlainTrend, TrendOf, At
  <2>4. ReportTypes'
    BY <1>1, <1>8 DEF WriteTargets, ReportTypes
  <2>5. dashboard[l] = CountsOf(summary[l], coverage[l])
    BY <1>1, <1>8 DEF WriteTargets, At, LaneReports, Counted
  <2> QED BY <1>1, <1>8, <2>1, <2>2, <2>3, <2>4, <2>5, GeneratorStep DEF WriteTargets, Pc
<1>9. CASE WriteMatrix(l)
  <2>1. ~At(l, "idle") /\ ~At(l, "run") /\ GoTo(l, "exit") /\ l = Plain /\ Trends
    BY <1>1, <1>9 DEF WriteMatrix, At, LaneReports
  <2>2. TrendOf(coverage[l]) /\ TargetsOf(summary[l], coverage[l])
    BY <1>1, <1>9, <2>1 DEF WriteMatrix, PlainTrend, At
  <2>3. matrix' = [trend |-> Cardinality(coverage[l]), table |-> coverage[l]]
    BY <1>9, <2>2 DEF WriteMatrix, TrendOf
  <2>4. /\ TrendOf(coverage[l])' /\ TargetsOf(summary[l], coverage[l])'
        /\ (matrix = [trend |-> Cardinality(coverage[l]), table |-> coverage[l]])'
    BY <1>9, <2>2, <2>3 DEF WriteMatrix, TrendOf, TargetsOf
  <2>5. ReportTypes'
    BY <1>1, <1>9 DEF WriteMatrix, ReportTypes
  <2>6. dashboard[l] = CountsOf(summary[l], coverage[l])
    BY <1>1, <1>9 DEF WriteMatrix, At, LaneReports, Counted
  <2> QED BY <1>1, <1>9, <2>1, <2>4, <2>5, <2>6, GeneratorStep DEF WriteMatrix, Pc
<1> QED BY <1>2, <1>3, <1>4, <1>5, <1>6, <1>7, <1>8, <1>9 DEF ReportStep

LEMMA SimulationKeeps ==
  ASSUME GateInv, ReportInv, NEW l \in Lane, Simulate(l), UNCHANGED <<makes, goal, target, gate>>
  PROVE  ReportInv'
<1> USE DEF ReportInv, GateInv, reports, trend
<1> DEFINE r == job[l].at
<1>1. /\ At(l, "run") /\ r \in RunId /\ target[l] = "running"
      /\ \A m \in Lane \ {l} : job[m].pc = "idle"
  BY DEF Simulate, OneAtATime, At, Types
<1>2. PICK o \in Outcome :
        /\ log' = [log EXCEPT ![l][r] = o.verdict]
        /\ written' = [written EXCEPT ![l] = IF o.wrote THEN @ \cup {r} ELSE @]
  BY DEF Simulate
<1>3. PICK all : job' = [job EXCEPT ![l] =
                           [pc |-> IF r = Len(Runs) THEN "open_manifest" ELSE "run",
                            at |-> IF r = Len(Runs) THEN r ELSE r + 1, rows |-> all]]
  BY DEF Simulate
<1>4. /\ job'[l].pc = IF r = Len(Runs) THEN "open_manifest" ELSE "run"
      /\ job'[l].at = IF r = Len(Runs) THEN r ELSE r + 1
      /\ \A m \in Lane \ {l} : job'[m] = job[m]
  BY <1>3 DEF Types
<1>5. UNCHANGED <<summary, coverage, dashboard, history, targets, matrix, target>>
  BY DEF Simulate
<1>6. ReportTypes'
  BY <1>1, <1>2, <1>5 DEF ReportTypes
<1>7. \A m \in Lane \ {l} : log'[m] = log[m] /\ written'[m] = written[m]
  BY <1>2 DEF Types, ReportTypes
<1>8. \A m \in Lane \ {l} : LaneReports(m)'
  <2> SUFFICES ASSUME NEW m \in Lane \ {l} PROVE LaneReports(m)'
    OBVIOUS
  <2>1. LaneReports(m)
    OBVIOUS
  <2>2. Simulated(m)' = Simulated(m) /\ (Counted(m)' <=> Counted(m))
    BY <1>4, <1>5 DEF Simulated, Counted, At
  <2> QED BY <1>4, <1>5, <1>7, <2>1, <2>2 DEF LaneReports
<1>9. \A q \in Simulated(l)' : log'[l][q] = "NONE" \/ q \in written'[l]
  <2> SUFFICES ASSUME NEW q \in Simulated(l)' PROVE log'[l][q] = "NONE" \/ q \in written'[l]
    OBVIOUS
  <2>1. r \in Nat /\ RunId = 1 .. Len(Runs)
    BY <1>1, RunIdFacts DEF RunId
  <2>2. q \in 1 .. r /\ q \in RunId
    <3>1. CASE r = Len(Runs)
      BY <1>4, <2>1, <3>1 DEF Simulated, At
    <3>2. CASE r # Len(Runs)
      <4>1. job'[l].pc = "run" /\ job'[l].at = r + 1
        BY <1>4, <3>2
      <4>2. q \in 1 .. job'[l].at - 1
        BY <4>1 DEF Simulated, At
      <4> HIDE DEF r
      <4>3. q \in 1 .. r
        BY <2>1, <4>1, <4>2
      <4>4. r <= Len(Runs) /\ Len(Runs) \in Nat
        BY <1>1, <2>1, RunIdFacts
      <4> QED BY <2>1, <4>3, <4>4
    <3> QED BY <3>1, <3>2
  <2>3. /\ log'[l] = [log[l] EXCEPT ![r] = o.verdict] /\ DOMAIN log[l] = RunId
        /\ written'[l] = IF o.wrote THEN written[l] \cup {r} ELSE written[l]
    BY <1>2 DEF Types, ReportTypes
  <2>4. CASE q = r
    BY <2>2, <2>3, <2>4 DEF Outcome
  <2>5. CASE q # r
    <3>1. q \in Simulated(l)
      BY <1>1, <2>1, <2>2, <2>5 DEF Simulated
    <3>2. log[l][q] = "NONE" \/ q \in written[l]
      BY <1>1, <3>1 DEF LaneReports
    <3> QED BY <2>2, <2>3, <2>5, <3>2
  <2> QED BY <2>4, <2>5
<1>10. LaneReports(l)'
  <2>1. LaneReports(l)
    OBVIOUS
  <2>2. ~Counted(l)'
    BY <1>1, <1>4, <1>5 DEF Counted
  <2> QED BY <1>1, <1>4, <1>5, <1>9, <2>1, <2>2 DEF LaneReports
<1>11. PlainTrend'
  BY <1>1, <1>4, SpecsAssumption DEF PlainTrend
<1> QED BY <1>6, <1>8, <1>10, <1>11

LEMMA MakeKeeps ==
  ASSUME GateInv, ReportInv, (\E g \in Goal : Make(g)) \/ Compare \/ MakeEnds
  PROVE  ReportInv'
<1> USE DEF ReportInv, GateInv
<1>1. /\ UNCHANGED <<job, log, written, summary, coverage, dashboard, history, targets, matrix>>
      /\ ReportTypes'
  BY DEF Make, Compare, MakeEnds, regressVars, files, reports, trend, ReportTypes
<1>2. PlainTrend'
  BY <1>1 DEF PlainTrend, TrendOf, TargetsOf
<1>3. ASSUME NEW l \in Lane PROVE LaneReports(l)'
  <2>1. LaneReports(l)
    OBVIOUS
  <2>2. CASE \E g \in Goal : Make(g)
    <3>1. target'[l] \in {"todo", "skip"} /\ job[l].pc = "idle"
      BY <2>2 DEF Make, Settled, OneAtATime, At
    <3> QED BY <1>1, <2>1, <3>1 DEF LaneReports, Counted
  <2>3. CASE Compare \/ MakeEnds
    <3>1. target' = target
      BY <2>3 DEF Compare, MakeEnds
    <3> QED BY <1>1, <2>1, <3>1 DEF LaneReports, Counted, Simulated, At
  <2> QED BY <2>2, <2>3
<1> QED BY <1>1, <1>2, <1>3

LEMMA RecipeKeeps ==
  ASSUME PARALLEL = FALSE, GateInv, ReportInv, NEW l \in Lane,
         RunSuite(l) \/ SuiteExits(l) \/ SuiteAborts(l) \/ CheckLane(l)
  PROVE  ReportInv'
<1> USE DEF ReportInv, GateInv
<1>1. UNCHANGED <<log, summary, coverage, dashboard, history, targets, matrix>>
  BY DEF RunSuite, Start, SuiteExits, Finish, SuiteAborts, Abort, CheckLane, files, reports, trend,
         regressVars
<1>2. PICK after : target' = [target EXCEPT ![l] = after]
  BY DEF RunSuite, SuiteExits, SuiteAborts, CheckLane
<1>3. \A m \in Lane \ {l} : target'[m] = target[m]
  BY <1>2 DEF Types
<1>4. LaneReports(l)
  OBVIOUS
<1>5. ASSUME ReportTypes', LaneReports(l)', PlainTrend',
             \A m \in Lane \ {l} : job'[m] = job[m] /\ written'[m] = written[m]
      PROVE  ReportInv'
  <2>1. ASSUME NEW m \in Lane \ {l} PROVE LaneReports(m)'
    <3>1. LaneReports(m)
      OBVIOUS
    <3> QED BY <1>1, <1>3, <1>5, <3>1 DEF LaneReports, Counted, Simulated, At
  <2> QED BY <1>5, <2>1
<1>6. CASE RunSuite(l)
  <2>1. /\ job' = [job EXCEPT ![l] = [Idle EXCEPT !.pc = "run"]]
        /\ written' = [written EXCEPT ![l] = {}]
        /\ target' = [target EXCEPT ![l] = "running"]
        /\ \A m \in Lane : job[m].pc = "idle"
    BY <1>6 DEF RunSuite, Start, At
  <2>2. [Idle EXCEPT !.pc = "run"] = [pc |-> "run", at |-> 1, rows |-> {}]
    BY DEF Idle
  <2>3. /\ job'[l] = [pc |-> "run", at |-> 1, rows |-> {}] /\ target'[l] = "running"
        /\ \A m \in Lane \ {l} : job'[m] = job[m] /\ written'[m] = written[m]
    BY <2>1, <2>2 DEF Types, ReportTypes
  <2>4. ReportTypes'
    BY <1>1, <2>1 DEF ReportTypes
  <2>5. Simulated(l)' = {} /\ ~Counted(l)'
    BY <2>3 DEF Simulated, Counted, At
  <2>6. LaneReports(l)'
    BY <1>1, <1>4, <2>3, <2>5 DEF LaneReports
  <2>7. job'[Plain].pc \in {"idle", "run"}
    BY <2>1, <2>3, SpecsAssumption
  <2>8. PlainTrend'
    BY <2>7 DEF PlainTrend
  <2> QED BY <1>5, <2>3, <2>4, <2>6, <2>8
<1>7. CASE SuiteExits(l) \/ SuiteAborts(l)
  <2>1. /\ job' = [job EXCEPT ![l] = Idle] /\ ~At(l, "idle") /\ UNCHANGED written
        /\ \/ target' = [target EXCEPT ![l] = "failed"]
           \/ At(l, "exit") /\ target' = [target EXCEPT ![l] = "ran"]
    BY <1>7 DEF SuiteExits, SuiteAborts, Finish, Abort, At, files
  <2>2. /\ job'[l].pc = "idle" /\ target[l] = "running"
        /\ target'[l] = "failed" \/ (At(l, "exit") /\ target'[l] = "ran")
        /\ \A m \in Lane \ {l} : job'[m] = job[m] /\ job[m].pc = "idle"
    BY <2>1 DEF Types, OneAtATime, At, Idle
  <2>3. ReportTypes'
    BY <1>1, <2>1 DEF ReportTypes
  <2>4. LaneReports(l)'
    BY <1>1, <1>4, <2>1, <2>2 DEF LaneReports, Counted, Simulated, At
  <2>5. PlainTrend'
    BY <2>2, SpecsAssumption DEF PlainTrend
  <2> QED BY <1>5, <2>1, <2>2, <2>3, <2>4, <2>5
<1>8. CASE CheckLane(l)
  <2>1. UNCHANGED <<job, written>> /\ target[l] = "ran"
    BY <1>8 DEF CheckLane, regressVars, files
  <2>2. target'[l] \in {"checked", "rejected"}
    BY <1>8 DEF CheckLane, Types
  <2>3. target'[l] = "checked" => coverage[l] = Bin
    <3> SUFFICES ASSUME target'[l] = "checked" PROVE coverage[l] = Bin
      OBVIOUS
    <3>1. gate'.failed = {}
      BY <1>8 DEF CheckLane, Types
    <3>2. FailedChecks(l) = {}
      BY <1>8, <3>1 DEF CheckLane, Check
    <3>3. MissingCoverage(l) = {}
      BY <3>2 DEF FailedChecks
    <3> QED BY <3>3 DEF MissingCoverage, ReportTypes
  <2>4. ReportTypes'
    BY <1>1, <2>1 DEF ReportTypes
  <2>5. LaneReports(l)'
    BY <1>1, <1>4, <2>1, <2>2, <2>3 DEF LaneReports, Counted, Simulated, At
  <2>6. PlainTrend'
    BY <1>1, <2>1 DEF PlainTrend, TrendOf, TargetsOf
  <2> QED BY <1>5, <2>1, <2>4, <2>5, <2>6
<1> QED BY <1>6, <1>7, <1>8

LEMMA ReportInvStep ==
  ASSUME PARALLEL = FALSE, GateInv, ReportInv, [Next]_vars
  PROVE  ReportInv'
<1>1. CASE UNCHANGED vars
  BY <1>1
     DEF vars, regressVars, files, reports, trend, ReportInv, ReportTypes, LaneReports, Counted,
         Simulated, At, PlainTrend, TrendOf, TargetsOf
<1>2. CASE (\E g \in Goal : Make(g)) \/ Compare \/ MakeEnds
  BY <1>2, MakeKeeps
<1>3. ASSUME NEW l \in Lane, LaneStep(l) \/ SuiteAborts(l)
      PROVE  ReportInv'
  <2>1. CASE SuiteStep(l)
    BY <2>1, SimulationKeeps, GeneratorsKeep DEF SuiteStep
  <2>2. CASE RunSuite(l) \/ SuiteExits(l) \/ SuiteAborts(l) \/ CheckLane(l)
    BY <2>2, RecipeKeeps
  <2> QED BY <1>3, <2>1, <2>2 DEF LaneStep
<1> QED BY <1>1, <1>2, <1>3 DEF Next

\* Both invariants hold together: the second needs the first for which lane
\* moves and for the summary being the lane's own.
LEMMA BothInvariants ==
  ASSUME PARALLEL = FALSE
  PROVE  Spec => [](GateInv /\ ReportInv)
<1>1. Init => GateInv /\ ReportInv
  BY InitEstablishes, ReportInvInit
<1>2. GateInv /\ ReportInv /\ [Next]_vars => GateInv' /\ ReportInv'
  BY NextPreserves, ReportInvStep
<1> QED BY <1>1, <1>2, PTL DEF Spec

LEMMA AcceptedCounts ==
  ASSUME GateInv, ReportInv, NEW l \in Lane, target[l] = "checked"
  PROVE  /\ dashboard[l].unexpected = 0
         /\ dashboard[l].expected_bugs = dashboard[l].bugs
         /\ dashboard[l].covered = Cardinality(Bin)
<1>1. dashboard[l] = CountsOf(summary[l], coverage[l]) /\ coverage[l] = Bin
  BY DEF ReportInv, LaneReports, Counted
<1>2. \A row \in summary[l] : Meets(row)
  BY DEF GateInv, ExitIsMet
<1>3. {row \in summary[l] : row.status = "FAIL" /\ Expected(row.run) = "PASS"} = {}
  BY <1>2 DEF Meets
<1>4. {row \in BugRowsOf(summary[l]) : row.status = "FAIL" /\ Meets(row)} = BugRowsOf(summary[l])
  BY <1>2 DEF BugRowsOf, Meets
<1>5. dashboard[l].unexpected = Cardinality({})
  BY <1>1, <1>3 DEF CountsOf
<1>6. dashboard[l].expected_bugs = dashboard[l].bugs
  BY <1>1, <1>4 DEF CountsOf
<1>7. dashboard[l].covered = Cardinality(Bin)
  BY <1>1 DEF CountsOf
<1> QED BY <1>5, <1>6, <1>7, FS_EmptySet

\* Bugs found are counted twice, by two scripts, from two conditions that say
\* the same of a bug's row.
LEMMA BugsCountedAlike ==
  ASSUME NEW set
  PROVE  {row \in BugRowsOf(set) : row.status = "FAIL" /\ Meets(row)}
           = {row \in BugRowsOf(set) : Meets(row)}
BY DEF BugRowsOf, Meets

\* The reports of an accepted lane agree with each other, and so do the plain
\* lane's trend, table and targets when it ends, although each generator reads
\* what another one left and none of them asks whose it is.
THEOREM ReportsOfOneInvocationAgree ==
  ASSUME PARALLEL = FALSE
  PROVE  Spec => []ReportsAgree
<1>1. GateInv /\ ReportInv => ReportsAgree
  <2> SUFFICES ASSUME GateInv, ReportInv PROVE ReportsAgree
    OBVIOUS
  <2>1. \A l \in Lane : target[l] = "checked" =>
          /\ dashboard[l].unexpected = 0
          /\ dashboard[l].expected_bugs = dashboard[l].bugs
          /\ dashboard[l].covered = Cardinality(Bin)
    BY AcceptedCounts
  <2>2. ASSUME At(Plain, "exit"), SUITE \in {"stable", "closure"}
        PROVE  /\ matrix.trend = Cardinality(matrix.table)
               /\ matrix.table = coverage[Plain]
               /\ targets = [uncovered |-> Bin \ matrix.table,
                             bugs_met |-> dashboard[Plain].expected_bugs]
    <3>1. /\ matrix = [trend |-> Cardinality(coverage[Plain]), table |-> coverage[Plain]]
          /\ TargetsOf(summary[Plain], coverage[Plain])
      BY <2>2 DEF At, ReportInv, PlainTrend, Trends
    <3>2. dashboard[Plain] = CountsOf(summary[Plain], coverage[Plain])
      BY <2>2, SpecsAssumption DEF At, ReportInv, LaneReports, Counted
    <3>3. dashboard[Plain].expected_bugs = MetBugs(summary[Plain])
      BY <3>2, BugsCountedAlike DEF CountsOf, MetBugs
    <3> QED BY <3>1, <3>3 DEF TargetsOf
  <2> QED BY <2>1, <2>2 DEF ReportsAgree
<1> QED BY <1>1, BothInvariants, PTL

\* The files of an earlier make can be credited to an accepted lane in one
\* place only: under the name of a bug test whose simulation now died before
\* it wrote anything.
THEOREM OldCoverageOfBugTestsOnly ==
  ASSUME PARALLEL = FALSE
  PROVE  Spec => []OldCoverageFromSilentBugRunsOnly
<1>1. GateInv /\ ReportInv => OldCoverageFromSilentBugRunsOnly
  <2> SUFFICES ASSUME GateInv, ReportInv, NEW l \in Lane, target[l] = "checked", NEW b \in Bin
               PROVE  \E r \in RunId :
                        /\ b \in Runs[r].hits
                        /\ r \in written[l] \/ (Expected(r) = "FAIL" /\ log[l][r] = "NONE")
    BY DEF OldCoverageFromSilentBugRunsOnly
  <2>1. LaneReports(l) /\ coverage[l] = Bin
    BY DEF ReportInv, LaneReports
  <2>2. PICK r \in RunId : b \in Runs[r].hits
    BY <2>1 DEF LaneReports, HitBySome
  <2>3. job[l].pc = "idle"
    BY DEF GateInv, OneAtATime, At
  <2>4. log[l][r] = "NONE" \/ r \in written[l]
    BY <2>1, <2>3 DEF LaneReports, Simulated, At
  <2>5. NormalizeStatus(log[l][r]) = Expected(r)
    BY GateInvMeansMet DEF CheckedMeansMet
  <2> QED BY <2>2, <2>4, <2>5 DEF NormalizeStatus
<1> QED BY <1>1, BothInvariants, PTL

-----------------------------------------------------------------------------
(* Each lane's invocations are among the abstract ones.                      *)

LEMMA OwnSummaryCounts ==
  ASSUME GateInv, NEW l \in Lane, OwnSummary(l), UnmetRows(l) = {}
  PROVE  OwnAndMet(l)
<1>1. \A row \in summary[l] : row.run \in RunId
  BY DEF GateInv, Types, SummaryRow
<1>2. {row.run : row \in summary[l]} = RunId
  BY <1>1 DEF OwnSummary, RowsOf
<1> QED BY <1>2 DEF OwnAndMet, OwnSummary, RowsOf, UnmetRows

\* A step that leaves what the contract sees of a lane alone.
LEMMA LaneUntouched ==
  ASSUME NEW l \in Lane, job'[l] = job[l], log'[l] = log[l], summary'[l] = summary[l],
         target'[l] = target[l]
  PROVE  UNCHANGED LaneRun(l)!vars
<1>1. (Published(l)' <=> Published(l)) /\ (OwnAndMet(l)' <=> OwnAndMet(l))
  BY DEF Published, OwnAndMet, Meets
<1>2. Report(l)' = Report(l) /\ Exit(l)' = Exit(l)
  BY <1>1 DEF Report, Exit
<1> QED BY <1>2 DEF LaneRun!vars

\* The lane is at work; how far it is decides what its report is worth.
LEMMA Seen ==
  ASSUME NEW l \in Lane
  PROVE  /\ target[l] = "running" =>
              /\ Exit(l) = "none"
              /\ ~Published(l) => Report(l) = "other"
              /\ Published(l) => Report(l) = IF OwnAndMet(l) THEN "met" ELSE "unmet"
         /\ target[l] \in {"ran", "checked"} =>
              Exit(l) = "zero" /\ Report(l) = IF OwnAndMet(l) THEN "met" ELSE "unmet"
         /\ target[l] \in {"skip", "todo", "rejected"} => Exit(l) = "none" /\ Report(l) = "other"
         /\ target[l] = "failed" => Exit(l) = "nonzero" /\ Report(l) = "other"
BY DEF Report, Exit

LEMMA SeenNext ==
  ASSUME NEW l \in Lane
  PROVE  /\ target'[l] = "running" =>
              /\ Exit(l)' = "none"
              /\ ~Published(l)' => Report(l)' = "other"
              /\ Published(l)' => Report(l)' = IF OwnAndMet(l)' THEN "met" ELSE "unmet"
         /\ target'[l] \in {"ran", "checked"} =>
              Exit(l)' = "zero" /\ Report(l)' = IF OwnAndMet(l)' THEN "met" ELSE "unmet"
         /\ target'[l] \in {"skip", "todo", "rejected"} => Exit(l)' = "none" /\ Report(l)' = "other"
         /\ target'[l] = "failed" => Exit(l)' = "nonzero" /\ Report(l)' = "other"
BY DEF Report, Exit

\* What the lane itself does: the simulations and the writing of the manifest
\* are hidden, the parser publishes, the exit code ends it.
LEMMA SuiteStepSeen ==
  ASSUME GateInv, NEW l \in Lane, SuiteStep(l)
  PROVE  LaneRun(l)!Next \/ UNCHANGED LaneRun(l)!vars
<1> USE DEF GateInv
<1>1. target[l] = "running" /\ target' = target
  BY DEF SuiteStep, ReportStep, Simulate, OpenManifest, WriteManifest, Parse, ReportCoverage,
         ReportPower, ReportFailures, WriteHistory, WriteTargets, WriteMatrix, OneAtATime, At
<1>2. job \in [Lane -> [pc : Pc, at : RunId, rows : SUBSET ManifestRow]]
  BY DEF Types
<1>3. CASE Simulate(l) \/ OpenManifest(l) \/ WriteManifest(l)
  <2>1. job'[l].pc \in {"run", "open_manifest", "write_manifest", "parse"}
    BY <1>2, <1>3 DEF Simulate, OpenManifest, WriteManifest, GoTo
  <2>2. ~Published(l) /\ ~Published(l)'
    BY <1>3, <2>1 DEF Simulate, OpenManifest, WriteManifest, At, Published
  <2>3. Report(l)' = Report(l) /\ Exit(l)' = Exit(l)
    BY <1>1, <2>2, Seen, SeenNext
  <2> QED BY <1>1, <2>3 DEF LaneRun!vars
<1>4. CASE Parse(l)
  <2>1. ~Published(l) /\ Published(l)'
    BY <1>2, <1>4 DEF Parse, At, GoTo, Published
  <2>2. Report(l) = "other" /\ Report(l)' \in {"met", "unmet"} /\ Exit(l)' = Exit(l)
    BY <1>1, <2>1, Seen, SeenNext
  <2> QED BY <1>1, <2>2 DEF LaneRun!Next, LaneRun!Publish
<1>5. CASE ReportCoverage(l) \/ ReportPower(l) \/ ReportFailures(l) \/ WriteHistory(l)
             \/ WriteTargets(l) \/ WriteMatrix(l)
  <2>1. job'[l].pc \in {"power", "failures", "history", "targets", "matrix", "exit"}
    BY <1>2, <1>5
       DEF ReportCoverage, ReportPower, ReportFailures, WriteHistory, WriteTargets, WriteMatrix, GoTo
  <2>2. Published(l) /\ Published(l)'
    BY <1>5, <2>1
       DEF ReportCoverage, ReportPower, ReportFailures, WriteHistory, WriteTargets, WriteMatrix, At,
           Published
  <2>3. UNCHANGED <<log, summary>>
    BY <1>5
       DEF ReportCoverage, ReportPower, ReportFailures, WriteHistory, WriteTargets, WriteMatrix,
           files, reports
  <2>4. OwnAndMet(l)' <=> OwnAndMet(l)
    BY <2>3 DEF OwnAndMet, Meets
  <2>5. Report(l)' = Report(l) /\ Exit(l)' = Exit(l)
    BY <1>1, <2>2, <2>4, Seen, SeenNext
  <2> QED BY <1>1, <2>5 DEF LaneRun!vars
<1> QED BY <1>3, <1>4, <1>5 DEF SuiteStep, ReportStep

LEMMA RecipeSeen ==
  ASSUME GateInv, NEW l \in Lane,
         RunSuite(l) \/ SuiteExits(l) \/ SuiteAborts(l) \/ CheckLane(l)
  PROVE  LaneRun(l)!Next \/ UNCHANGED LaneRun(l)!vars
<1> USE DEF GateInv
<1>1. UNCHANGED <<log, summary>>
  BY DEF RunSuite, Start, SuiteExits, Finish, SuiteAborts, Abort, CheckLane, files, reports, trend,
         regressVars
<1>2. OwnAndMet(l)' <=> OwnAndMet(l)
  BY <1>1 DEF OwnAndMet, Meets
<1>3. CASE RunSuite(l)
  <2>1. target[l] = "todo" /\ target'[l] = "running" /\ job'[l].pc = "run"
    BY <1>3 DEF RunSuite, Start, Types
  <2>2. ~Published(l)'
    BY <2>1 DEF Published
  <2>3. Report(l)' = "other" /\ Exit(l)' = "none"
    BY <2>1, <2>2, SeenNext
  <2> QED BY <2>1, <2>3 DEF LaneRun!Next, LaneRun!Begin
<1>4. CASE SuiteAborts(l)
  <2>1. target[l] = "running" /\ target'[l] = "failed"
    BY <1>4 DEF SuiteAborts, Types
  <2>2. Report(l)' = "other" /\ Exit(l)' = "nonzero"
    BY <2>1, SeenNext
  <2> QED BY <2>1, <2>2 DEF LaneRun!Next, LaneRun!Fail
<1>5. CASE SuiteExits(l)
  <2>1. At(l, "exit") /\ target[l] = "running" /\ Published(l)
    BY <1>5 DEF SuiteExits, Finish, OneAtATime, At, Published
  <2>2. CASE ExitCode(l) = 0
    <3>1. target'[l] = "ran"
      BY <1>5, <2>2 DEF SuiteExits, Types
    <3>2. OwnAndMet(l)
      BY <2>1, <2>2, OwnSummaryCounts DEF SummaryOwn, ExitCode
    <3>3. Report(l) = "met" /\ Report(l)' = "met" /\ Exit(l)' = "zero"
      BY <1>2, <2>1, <3>1, <3>2, Seen, SeenNext
    <3> QED BY <2>1, <3>1, <3>3 DEF LaneRun!Next, LaneRun!Succeed
  <2>3. CASE ExitCode(l) # 0
    <3>1. target'[l] = "failed"
      BY <1>5, <2>3 DEF SuiteExits, Types
    <3>2. Report(l)' = "other" /\ Exit(l)' = "nonzero"
      BY <3>1, SeenNext
    <3> QED BY <2>1, <3>1, <3>2 DEF LaneRun!Next, LaneRun!Fail
  <2> QED BY <2>2, <2>3
<1>6. CASE CheckLane(l)
  <2>1. target[l] = "ran" /\ target'[l] \in {"checked", "rejected"}
    BY <1>6 DEF CheckLane, Types
  <2>2. CASE target'[l] = "checked"
    <3>1. Report(l)' = Report(l) /\ Exit(l)' = Exit(l)
      BY <1>2, <2>1, <2>2, Seen, SeenNext
    <3> QED BY <2>1, <2>2, <3>1 DEF LaneRun!vars
  <2>3. CASE target'[l] = "rejected"
    <3>1. Report(l)' = "other" /\ Exit(l)' = "none"
      BY <2>3, SeenNext
    <3> QED BY <2>1, <2>3, <3>1 DEF LaneRun!Next, LaneRun!Forget
  <2> QED BY <2>1, <2>2, <2>3
<1> QED BY <1>3, <1>4, <1>5, <1>6

LEMMA MakeSeen ==
  ASSUME GateInv, NEW l \in Lane, (\E g \in Goal : Make(g)) \/ Compare \/ MakeEnds
  PROVE  LaneRun(l)!Next \/ UNCHANGED LaneRun(l)!vars
<1>1. UNCHANGED <<job, log, summary>>
  BY DEF Make, Compare, MakeEnds, regressVars, files, reports
<1>2. CASE \E g \in Goal : Make(g)
  <2>1. target'[l] \in {"todo", "skip"} /\ target[l] # "running"
    BY <1>2 DEF Make, GateInv, Settled
  <2>2. Report(l)' = "other" /\ Exit(l)' = "none"
    BY <2>1, SeenNext
  <2> QED BY <2>1, <2>2 DEF LaneRun!Next, LaneRun!Forget
<1>3. CASE Compare \/ MakeEnds
  BY <1>1, <1>3, LaneUntouched DEF Compare, MakeEnds
<1> QED BY <1>2, <1>3

\* What one lane does, no other lane's starter sees.
LEMMA OthersUntouched ==
  ASSUME GateInv, NEW m \in Lane, NEW l \in Lane \ {m}, LaneStep(m) \/ SuiteAborts(m)
  PROVE  UNCHANGED LaneRun(l)!vars
<1> USE DEF GateInv, Types
<1>1. target'[l] = target[l]
  BY DEF LaneStep, RunSuite, SuiteStep, SuiteExits, CheckLane, SuiteAborts
<1>2. job'[l] = job[l]
  BY DEF LaneStep, RunSuite, Start, SuiteStep, Simulate, ReportStep, OpenManifest, WriteManifest,
         Parse, ReportCoverage, ReportPower, ReportFailures, WriteHistory, WriteTargets, WriteMatrix,
         GoTo, SuiteExits, Finish, CheckLane, SuiteAborts, Abort, regressVars
<1>3. log'[l] = log[l]
  <2>1. CASE Simulate(m)
    BY <2>1 DEF Simulate
  <2>2. CASE ~Simulate(m)
    BY <2>2
    DEF LaneStep, RunSuite, Start, SuiteStep, ReportStep, OpenManifest, WriteManifest,
         Parse, ReportCoverage, ReportPower, ReportFailures, WriteHistory, WriteTargets, WriteMatrix,
         SuiteExits, Finish, CheckLane, SuiteAborts, Abort, regressVars, files
  <2> QED BY <2>1, <2>2
<1>4. summary'[l] = summary[l]
  <2>1. CASE Parse(m)
    BY <2>1 DEF Parse
  <2>2. CASE ~Parse(m)
    BY <2>2
    DEF LaneStep, RunSuite, Start, SuiteStep, Simulate, ReportStep, OpenManifest, WriteManifest,
         ReportCoverage, ReportPower, ReportFailures, WriteHistory, WriteTargets, WriteMatrix,
         SuiteExits, Finish, CheckLane, SuiteAborts, Abort, regressVars, reports
  <2> QED BY <2>1, <2>2
<1> QED BY <1>1, <1>2, <1>3, <1>4, LaneUntouched

LEMMA StepSeen ==
  ASSUME GateInv, [Next]_vars, NEW l \in Lane
  PROVE  LaneRun(l)!Next \/ UNCHANGED LaneRun(l)!vars
<1>1. CASE UNCHANGED vars
  BY <1>1, LaneUntouched DEF vars, regressVars, files, reports
<1>2. CASE (\E g \in Goal : Make(g)) \/ Compare \/ MakeEnds
  BY <1>2, MakeSeen
<1>3. ASSUME NEW m \in Lane, LaneStep(m) \/ SuiteAborts(m)
      PROVE  LaneRun(l)!Next \/ UNCHANGED LaneRun(l)!vars
  <2>1. CASE m = l
    BY <1>3, <2>1, SuiteStepSeen, RecipeSeen DEF LaneStep
  <2>2. CASE m # l
    BY <1>3, <2>2, OthersUntouched
  <2> QED BY <2>1, <2>2
<1> QED BY <1>1, <1>2, <1>3 DEF Next

LEMMA InitSeen ==
  ASSUME Init, NEW l \in Lane
  PROVE  LaneRun(l)!Init
<1>1. target[l] = "skip"
  BY DEF Init
<1> QED BY <1>1, Seen DEF LaneRun!Init

\* Whatever lies on disk, and however earlier invocations ended, a caller may
\* trust exit code 0 of its own: every lane's invocations are among those that
\* Invocation allows, for every list of tests and number of lanes.
THEOREM LanesRefineInvocation ==
  ASSUME PARALLEL = FALSE
  PROVE  Spec => LanesKeepTheContract
<1>1. Init => GateInv /\ \A l \in Lane : LaneRun(l)!Init
  BY InitEstablishes, InitSeen
<1>2. GateInv /\ [Next]_vars => GateInv'
  BY NextPreserves
<1>3. GateInv /\ [Next]_vars
        => [\A l \in Lane : LaneRun(l)!Next \/ UNCHANGED LaneRun(l)!vars]_vars
  BY StepSeen
<1> QED BY <1>1, <1>2, <1>3, PTL DEF Spec, LanesKeepTheContract

-----------------------------------------------------------------------------
(* The external oracles.  Exit codes are all that ties a recipe together.    *)
(* RequiredInv says what they carry: as long as the recipe is not red each   *)
(* report it wrote is one its command ended with 0 for; OrderInv says that   *)
(* what the matrix reads is either written or still to come before it.       *)

ToolRows ==
  {Oracles!Row(CASE tools[t] = "pinned" -> "PASS" [] tools[t] = "other" -> "FAIL" [] OTHER -> "SKIP", t) :
     t \in DOMAIN tools}

\* The command whose exit code is inverted reports either that it skipped or
\* how its images ended, never both.
SkipsAlone(left) == ~(Oracles!Some(left, "SKIP") /\ Oracles!Some(left, "FAIL"))

RequiredInv ==
  /\ oracle_rows = [c \in Oracles!Command |-> oracle_rows[c]]
  /\ fresh \subseteq Oracles!Command
  /\ recipe # <<>> => verdict # "red"
  /\ verdict # "red" => \A c \in fresh : Oracles!ExitCode(c, oracle_rows[c]) = 0
  /\ SkipsAlone(oracle_rows["act_mutant"])
  /\ "tools" \in fresh => oracle_rows["tools"] = ToolRows

\* In a sequence of commands, every oracle precedes the matrix, but for those
\* already done.
MatrixAfter(commands, done) ==
  \A i \in 1 .. Len(commands) :
    commands[i] = "matrix" =>
      \A o \in Oracles!Oracle : o \in done \/ \E j \in 1 .. i - 1 : commands[j] = o

OrderInv == recipe \in Seq(Oracles!Command) /\ MatrixAfter(recipe, fresh)

\* Every action but Raise ends a command: the report it leaves and how.
LEMMA CommandEnds ==
  ASSUME Oracles!Next
  PROVE  \/ Oracles!Raise
         \/ \E c \in Oracles!Command : \E left :
              /\ Oracles!Turn(c) /\ Oracles!Ends(c, left) /\ UNCHANGED tools
              /\ c = "tools" => left = ToolRows
              /\ c = "act_mutant" => SkipsAlone(left)
<1>1. CASE Oracles!CheckTools
  <2>1. Oracles!Turn("tools") /\ Oracles!Ends("tools", ToolRows) /\ UNCHANGED tools
    BY <1>1 DEF Oracles!CheckTools, ToolRows
  <2>2. "tools" \in Oracles!Command
    BY DEF Oracles!Command
  <2> QED BY <2>1, <2>2
<1>2. CASE Oracles!Local
  <2>1. PICK left : Oracles!Turn("local") /\ Oracles!Ends("local", left) /\ UNCHANGED tools
    BY <1>2 DEF Oracles!Local
  <2>2. "local" \in Oracles!Command
    BY DEF Oracles!Command, Oracles!Oracle
  <2> QED BY <2>1, <2>2
<1>3. CASE Oracles!Matrix
  <2>1. PICK left : Oracles!Turn("matrix") /\ Oracles!Ends("matrix", left) /\ UNCHANGED tools
    BY <1>3 DEF Oracles!Matrix
  <2>2. "matrix" \in Oracles!Command
    BY DEF Oracles!Command
  <2> QED BY <2>1, <2>2
<1>4. ASSUME NEW c \in {"iss", "spike", "spike_mpp"}, Oracles!Spike(c)
      PROVE  \E d \in Oracles!Command : \E left :
               /\ Oracles!Turn(d) /\ Oracles!Ends(d, left) /\ UNCHANGED tools
               /\ d = "tools" => left = ToolRows
               /\ d = "act_mutant" => SkipsAlone(left)
  <2>1. PICK left : Oracles!Turn(c) /\ Oracles!Ends(c, left) /\ UNCHANGED tools
    BY <1>4 DEF Oracles!Spike
  <2>2. c \in Oracles!Command /\ c # "tools" /\ c # "act_mutant"
    BY DEF Oracles!Command, Oracles!Oracle
  <2> QED BY <2>1, <2>2
<1>5. ASSUME NEW c \in {"act", "act_m", "act_mutant"}, Oracles!Act(c)
      PROVE  \E d \in Oracles!Command : \E left :
               /\ Oracles!Turn(d) /\ Oracles!Ends(d, left) /\ UNCHANGED tools
               /\ d = "tools" => left = ToolRows
               /\ d = "act_mutant" => SkipsAlone(left)
  <2>1. PICK first \in Oracles!ActKind, second \in Oracles!ActKind, broken \in {"", "generation", "setup"} :
          Oracles!Ends(c,
            IF tools.act = "missing" \/ tools.sail = "missing" THEN {Oracles!Row("SKIP", "dependency_missing")}
            ELSE IF tools.act = "other" THEN {Oracles!Row("FAIL", "revision_mismatch")}
            ELSE IF broken # "" THEN {Oracles!Row("FAIL", broken)}
            ELSE {Oracles!Row(IF k = "" THEN "PASS" ELSE "FAIL", k) : k \in {first, second}})
    BY <1>5 DEF Oracles!Act
  <2> DEFINE left ==
        IF tools.act = "missing" \/ tools.sail = "missing" THEN {Oracles!Row("SKIP", "dependency_missing")}
        ELSE IF tools.act = "other" THEN {Oracles!Row("FAIL", "revision_mismatch")}
        ELSE IF broken # "" THEN {Oracles!Row("FAIL", broken)}
        ELSE {Oracles!Row(IF k = "" THEN "PASS" ELSE "FAIL", k) : k \in {first, second}}
  <2> DEFINE images == {Oracles!Row(IF k = "" THEN "PASS" ELSE "FAIL", k) : k \in {first, second}}
  <2>2. SkipsAlone(left)
    <3>1. \/ left = {Oracles!Row("SKIP", "dependency_missing")}
          \/ left = {Oracles!Row("FAIL", "revision_mismatch")}
          \/ left = {Oracles!Row("FAIL", broken)}
          \/ left = images
      OBVIOUS
    <3> HIDE DEF left, images
    <3>2. CASE left = {Oracles!Row("SKIP", "dependency_missing")}
      BY <3>2 DEF SkipsAlone, Oracles!Some, Oracles!Row
    <3>3. CASE left = {Oracles!Row("FAIL", "revision_mismatch")} \/ left = {Oracles!Row("FAIL", broken)}
      BY <3>3 DEF SkipsAlone, Oracles!Some, Oracles!Row
    <3>4. CASE left = images
      <4>1. ASSUME NEW row \in images PROVE row.status # "SKIP"
        <5>1. PICK k \in {first, second} : row = Oracles!Row(IF k = "" THEN "PASS" ELSE "FAIL", k)
          BY <4>1 DEF images
        <5> QED BY <5>1 DEF Oracles!Row
      <4> QED BY <3>4, <4>1 DEF SkipsAlone, Oracles!Some
    <3> QED BY <3>1, <3>2, <3>3, <3>4
  <2>3. Oracles!Turn(c) /\ Oracles!Ends(c, left) /\ UNCHANGED tools
    BY <1>5, <2>1 DEF Oracles!Act
  <2>4. c \in Oracles!Command /\ c # "tools"
    BY DEF Oracles!Command, Oracles!Oracle
  <2> HIDE DEF left
  <2> QED BY <2>2, <2>3, <2>4
<1>6. ASSUME NEW c \in {"formal", "formal_mutant"}, Oracles!Formal(c)
      PROVE  \E d \in Oracles!Command : \E left :
               /\ Oracles!Turn(d) /\ Oracles!Ends(d, left) /\ UNCHANGED tools
               /\ d = "tools" => left = ToolRows
               /\ d = "act_mutant" => SkipsAlone(left)
  <2>1. PICK left : Oracles!Turn(c) /\ Oracles!Ends(c, left) /\ UNCHANGED tools
    BY <1>6 DEF Oracles!Formal
  <2>2. c \in Oracles!Command /\ c # "tools" /\ c # "act_mutant"
    BY DEF Oracles!Command, Oracles!Oracle
  <2> QED BY <2>1, <2>2
<1> QED BY <1>1, <1>2, <1>3, <1>4, <1>5, <1>6 DEF Oracles!Next

LEMMA RequiredInit == Oracles!Init => RequiredInv
<1> SUFFICES ASSUME Oracles!Init PROVE RequiredInv
  OBVIOUS
<1>1. oracle_rows = [c \in Oracles!Command |-> {Oracles!Row("PASS", "")}] /\ fresh = {} /\ verdict = "running"
  BY DEF Oracles!Init
<1>2. "act_mutant" \in Oracles!Command
  BY DEF Oracles!Command, Oracles!Oracle
<1>3. oracle_rows["act_mutant"] = {Oracles!Row("PASS", "")}
  BY <1>1, <1>2
<1>4. SkipsAlone(oracle_rows["act_mutant"])
  BY <1>3 DEF SkipsAlone, Oracles!Some, Oracles!Row
<1> QED BY <1>1, <1>4 DEF RequiredInv

LEMMA RequiredStep == RequiredInv /\ [Oracles!Next]_(Oracles!vars) => RequiredInv'
<1> SUFFICES ASSUME RequiredInv, [Oracles!Next]_(Oracles!vars) PROVE RequiredInv'
  OBVIOUS
<1>1. CASE UNCHANGED Oracles!vars
  BY <1>1 DEF Oracles!vars, RequiredInv, ToolRows
<1>2. CASE Oracles!Raise
  <2>1. recipe' = <<>> /\ verdict' = "red" /\ UNCHANGED <<tools, oracle_rows, fresh>>
    BY <1>2 DEF Oracles!Raise
  <2> QED BY <2>1 DEF RequiredInv, ToolRows
<1>3. ASSUME NEW c \in Oracles!Command, NEW left, Oracles!Turn(c), Oracles!Ends(c, left), UNCHANGED tools,
             c = "tools" => left = ToolRows, c = "act_mutant" => SkipsAlone(left)
      PROVE  RequiredInv'
  <2>1. /\ oracle_rows' = [oracle_rows EXCEPT ![c] = left] /\ fresh' = fresh \cup {c}
        /\ recipe' = IF Oracles!ExitCode(c, left) = 0 THEN Tail(recipe) ELSE <<>>
        /\ verdict' = IF Oracles!ExitCode(c, left) # 0 THEN "red"
                      ELSE IF Len(recipe) = 1 THEN "green" ELSE "running"
    BY <1>3 DEF Oracles!Ends
  <2>2. /\ oracle_rows'[c] = left /\ \A d \in Oracles!Command : d # c => oracle_rows'[d] = oracle_rows[d]
        /\ oracle_rows' = [d \in Oracles!Command |-> oracle_rows'[d]]
    BY <2>1 DEF RequiredInv
  <2>3. verdict # "red" /\ ToolRows' = ToolRows
    BY <1>3 DEF Oracles!Turn, RequiredInv, ToolRows
  <2>4. recipe' # <<>> => verdict' # "red"
    BY <2>1
  <2>5. verdict' # "red" => \A d \in fresh' : Oracles!ExitCode(d, oracle_rows'[d]) = 0
    <3> SUFFICES ASSUME verdict' # "red", NEW d \in fresh'
                 PROVE  Oracles!ExitCode(d, oracle_rows'[d]) = 0
      OBVIOUS
    <3>1. Oracles!ExitCode(c, left) = 0
      BY <2>1
    <3>2. CASE d = c
      BY <2>2, <3>1, <3>2
    <3>3. CASE d # c
      <4>1. d \in fresh /\ d \in Oracles!Command
        BY <2>1, <3>3 DEF RequiredInv
      <4> QED BY <2>2, <2>3, <3>3, <4>1 DEF RequiredInv
    <3> QED BY <3>2, <3>3
  <2>6. SkipsAlone(oracle_rows["act_mutant"])'
    <3>1. "act_mutant" \in Oracles!Command
      BY DEF Oracles!Command, Oracles!Oracle
    <3> QED BY <1>3, <2>2, <3>1 DEF RequiredInv, SkipsAlone
  <2>7. "tools" \in fresh' => oracle_rows'["tools"] = ToolRows'
    <3>1. "tools" \in Oracles!Command
      BY DEF Oracles!Command
    <3> QED BY <1>3, <2>1, <2>2, <2>3, <3>1 DEF RequiredInv
  <2> QED BY <2>1, <2>2, <2>4, <2>5, <2>6, <2>7 DEF RequiredInv
<1>4. CASE Oracles!Next
  BY <1>2, <1>3, <1>4, CommandEnds
<1> QED BY <1>1, <1>4

LEMMA RequiredMeans == RequiredInv => Oracles!GreenIsRequired
<1> SUFFICES ASSUME RequiredInv, verdict = "green" PROVE
      /\ \A c \in fresh \cap Oracles!Require : ~Oracles!Some(oracle_rows[c], "SKIP")
      /\ "tools" \in fresh => \A t \in DOMAIN tools : tools[t] = "pinned"
  BY DEF Oracles!GreenIsRequired
<1>1. \A c \in fresh : Oracles!ExitCode(c, oracle_rows[c]) = 0
  BY DEF RequiredInv
<1>2. ASSUME NEW c \in fresh \cap Oracles!Require PROVE ~Oracles!Some(oracle_rows[c], "SKIP")
  <2>1. CASE c = "act_mutant"
    <3>1. Oracles!Some(oracle_rows[c], "FAIL")
      BY <1>1, <1>2, <2>1 DEF Oracles!ExitCode
    <3> QED BY <2>1, <3>1 DEF RequiredInv, SkipsAlone
  <2>2. CASE c # "act_mutant"
    <3>1. \A row \in oracle_rows[c] : row.status = "PASS"
      BY <1>1, <1>2, <2>2 DEF Oracles!ExitCode
    <3> QED BY <3>1 DEF Oracles!Some
  <2> QED BY <2>1, <2>2
<1>3. ASSUME "tools" \in fresh, NEW t \in DOMAIN tools PROVE tools[t] = "pinned"
  <2>1. "tools" \in Oracles!Require
    BY DEF Oracles!Require, Oracles!Command
  <2>2. \A row \in oracle_rows["tools"] : row.status = "PASS"
    BY <1>1, <1>3, <2>1 DEF Oracles!ExitCode
  <2> DEFINE status == CASE tools[t] = "pinned" -> "PASS" [] tools[t] = "other" -> "FAIL" [] OTHER -> "SKIP"
  <2>3. Oracles!Row(status, t) \in oracle_rows["tools"]
    BY <1>3 DEF RequiredInv, ToolRows
  <2>4. status = "PASS"
    <3> HIDE DEF status
    <3> QED BY <2>2, <2>3 DEF Oracles!Row
  <2> QED BY <2>4
<1> QED BY <1>2, <1>3

\* Whatever was installed, whichever command failed and however, a green
\* recipe has skipped none of the oracles it requires, and one that began
\* with the tool check ran on pinned tools only.
THEOREM GreenRecipeIsRequired == Oracles!Spec => []Oracles!GreenIsRequired
<1> QED BY RequiredInit, RequiredStep, RequiredMeans, PTL DEF Oracles!Spec

\* Appending a sequence of six.
LEMMA AppendSix ==
  ASSUME NEW S, NEW s \in Seq(S), NEW t \in Seq(S), Len(t) = 6
  PROVE  /\ s \o t \in Seq(S) /\ Len(s \o t) = Len(s) + 6
         /\ \A i \in 1 .. Len(s) : (s \o t)[i] = s[i]
         /\ \A i \in 1 .. 6 : (s \o t)[Len(s) + i] = t[i]
<1>1. Len(s) \in Nat
  OBVIOUS
<1>2. /\ s \o t \in Seq(S) /\ Len(s \o t) = Len(s) + 6
      /\ \A i \in 1 .. Len(s) + 6 : (s \o t)[i] = IF i <= Len(s) THEN s[i] ELSE t[i - Len(s)]
  <2>1. /\ s \o t \in Seq(S) /\ Len(s \o t) = Len(s) + Len(t)
        /\ \A i \in 1 .. Len(s) + Len(t) : (s \o t)[i] = IF i <= Len(s) THEN s[i] ELSE t[i - Len(s)]
    BY ConcatProperties, Zenon
  <2> QED BY <2>1
<1>3. \A i \in 1 .. Len(s) : (s \o t)[i] = s[i]
  BY <1>1, <1>2
<1>4. ASSUME NEW i \in 1 .. 6 PROVE (s \o t)[Len(s) + i] = t[i]
  <2> DEFINE n == Len(s)
  <2>1. n + i \in 1 .. n + 6 /\ ~(n + i <= n) /\ (n + i) - n = i
    BY <1>1
  <2>2. (s \o t)[n + i] = t[(n + i) - n]
    BY <1>2, <2>1
  <2> QED BY <2>1, <2>2
<1> QED BY <1>2, <1>3, <1>4

LEMMA OrderOfRecipes == \A r \in Oracles!Recipes : r \in Seq(Oracles!Command) /\ MatrixAfter(r, {})
<1>1. Oracles!Mutations \in Seq(Oracles!Command) /\ Len(Oracles!Mutations) = 6
  BY DEF Oracles!Mutations, Oracles!Command, Oracles!Oracle
<1>2. ASSUME NEW s \in Seq(Oracles!Command), \A i \in 1 .. Len(s) : s[i] # "matrix"
      PROVE  s \in Seq(Oracles!Command) /\ MatrixAfter(s, {})
  BY <1>2 DEF MatrixAfter
<1>3. ASSUME NEW s \in Seq(Oracles!Command), \A i \in 1 .. Len(s) : s[i] # "matrix"
      PROVE  s \o Oracles!Mutations \in Seq(Oracles!Command) /\ MatrixAfter(s \o Oracles!Mutations, {})
  <2>1. s \o Oracles!Mutations \in Seq(Oracles!Command) /\ Len(s \o Oracles!Mutations) = Len(s) + 6
    BY <1>1, AppendSix
  <2>2. \A i \in 1 .. Len(s) : (s \o Oracles!Mutations)[i] = s[i]
    BY <1>1, AppendSix
  <2>3. \A i \in 1 .. 6 : (s \o Oracles!Mutations)[Len(s) + i] = Oracles!Mutations[i]
    BY <1>1, AppendSix
  <2> SUFFICES ASSUME NEW i \in 1 .. Len(s) + 6, (s \o Oracles!Mutations)[i] = "matrix",
                      NEW o \in Oracles!Oracle
               PROVE  \E j \in 1 .. i - 1 : (s \o Oracles!Mutations)[j] = o
    BY <2>1 DEF MatrixAfter
  <2>4. i = Len(s) + 6
    <3>1. i \notin 1 .. Len(s)
      BY <1>3, <2>2
    <3>2. PICK k \in 1 .. 6 : i = Len(s) + k
      <4>1. i - Len(s) \in 1 .. 6 /\ i = Len(s) + (i - Len(s))
        BY <3>1
      <4> QED BY <4>1
    <3>3. Oracles!Mutations[k] = "matrix"
      BY <2>3, <3>2
    <3>4. k = 6
      BY <3>3 DEF Oracles!Mutations
    <3> QED BY <3>2, <3>4
  <2>5. PICK k \in 1 .. 5 : Oracles!Mutations[k] = o
    <3>1. /\ Oracles!Mutations[1] = "local"
          /\ Oracles!Mutations[2] = "spike" /\ Oracles!Mutations[3] = "spike_mpp"
          /\ Oracles!Mutations[4] = "act_mutant" /\ Oracles!Mutations[5] = "formal_mutant"
      BY DEF Oracles!Mutations
    <3>2. 1 \in 1 .. 5 /\ 2 \in 1 .. 5 /\ 3 \in 1 .. 5 /\ 4 \in 1 .. 5 /\ 5 \in 1 .. 5
      OBVIOUS
    <3> QED BY <3>1, <3>2 DEF Oracles!Oracle
  <2>6. Len(s) + k \in 1 .. i - 1 /\ (s \o Oracles!Mutations)[Len(s) + k] = o
    <3>1. Len(s) \in Nat
      OBVIOUS
    <3>2. (s \o Oracles!Mutations)[Len(s) + k] = o
      <4>1. k \in 1 .. 6
        OBVIOUS
      <4> QED BY <2>3, <2>5, <4>1
    <3> QED BY <2>4, <3>1, <3>2
  <2> QED BY <2>6
<1>4. \A c \in {"iss", "act", "act_m", "formal"} :
        <<"tools", c>> \in Seq(Oracles!Command) /\ MatrixAfter(<<"tools", c>>, {})
  BY DEF MatrixAfter, Oracles!Command, Oracles!Oracle
<1>5. \A c \in {"iss", "act", "formal"} : <<c>> \in Seq(Oracles!Command) /\ MatrixAfter(<<c>>, {})
  BY DEF MatrixAfter, Oracles!Command, Oracles!Oracle
<1>6. /\ <<"tools">> \o Oracles!Mutations \in Seq(Oracles!Command)
      /\ MatrixAfter(<<"tools">> \o Oracles!Mutations, {})
  <2>1. <<"tools">> \in Seq(Oracles!Command) /\ \A i \in 1 .. Len(<<"tools">>) : <<"tools">>[i] # "matrix"
    BY DEF Oracles!Command
  <2> QED BY <1>3, <2>1
<1>7. Oracles!Mutations \in Seq(Oracles!Command) /\ MatrixAfter(Oracles!Mutations, {})
  <2>1. <<>> \o Oracles!Mutations = Oracles!Mutations
    BY <1>1
  <2>2. <<>> \in Seq(Oracles!Command) /\ \A i \in 1 .. Len(<<>>) : <<>>[i] # "matrix"
    OBVIOUS
  <2> QED BY <1>3, <2>1, <2>2
<1> DEFINE all == <<"tools", "iss", "act", "act_m", "formal">>
<1>8. all \o Oracles!Mutations \in Seq(Oracles!Command) /\ MatrixAfter(all \o Oracles!Mutations, {})
  <2>1. all \in Seq(Oracles!Command) /\ \A i \in 1 .. Len(all) : all[i] # "matrix"
    BY DEF Oracles!Command, Oracles!Oracle
  <2> HIDE DEF all
  <2> QED BY <1>3, <2>1
<1> QED BY <1>4, <1>5, <1>6, <1>7, <1>8 DEF Oracles!Recipes

LEMMA OrderStep == OrderInv /\ [Oracles!Next]_(Oracles!vars) => OrderInv'
<1> SUFFICES ASSUME OrderInv, [Oracles!Next]_(Oracles!vars) PROVE OrderInv'
  OBVIOUS
<1>1. CASE UNCHANGED Oracles!vars
  BY <1>1 DEF Oracles!vars, OrderInv, MatrixAfter
<1>2. CASE recipe' = <<>>
  BY <1>2 DEF OrderInv, MatrixAfter
<1>3. ASSUME NEW c, recipe # <<>>, Head(recipe) = c, recipe' = Tail(recipe), fresh' = fresh \cup {c}
      PROVE  OrderInv'
  <2>1. recipe \in Seq(Oracles!Command) /\ Len(recipe) \in Nat \ {0} /\ recipe[1] = c
    BY <1>3 DEF OrderInv
  <2>2. /\ recipe' \in Seq(Oracles!Command) /\ Len(recipe') = Len(recipe) - 1
        /\ \A i \in 1 .. Len(recipe) - 1 : recipe'[i] = recipe[i + 1]
    BY <1>3, <2>1
  <2>3. ASSUME NEW i \in 1 .. Len(recipe'), recipe'[i] = "matrix", NEW o \in Oracles!Oracle, o \notin fresh'
        PROVE  \E j \in 1 .. i - 1 : recipe'[j] = o
    <3>1. i + 1 \in 1 .. Len(recipe) /\ recipe[i + 1] = "matrix"
      BY <2>1, <2>2, <2>3
    <3>2. PICK j \in 1 .. (i + 1) - 1 : recipe[j] = o
      BY <1>3, <2>3, <3>1 DEF OrderInv, MatrixAfter
    <3>3. j # 1
      BY <1>3, <2>1, <2>3, <3>2
    <3>4. j - 1 \in 1 .. i - 1 /\ j - 1 \in 1 .. Len(recipe) - 1 /\ (j - 1) + 1 = j
      BY <2>1, <2>2, <3>2, <3>3
    <3>5. recipe'[j - 1] = o
      BY <2>2, <3>2, <3>4
    <3> QED BY <3>4, <3>5
  <2> QED BY <2>2, <2>3 DEF OrderInv, MatrixAfter
<1>4. CASE Oracles!Next
  <2>1. CASE Oracles!Raise
    BY <1>2, <2>1 DEF Oracles!Raise
  <2>2. CASE \E c \in Oracles!Command : \E left : Oracles!Turn(c) /\ Oracles!Ends(c, left)
    <3>1. PICK c \in Oracles!Command : \E left : Oracles!Turn(c) /\ Oracles!Ends(c, left)
      BY <2>2
    <3> PICK left : Oracles!Turn(c) /\ Oracles!Ends(c, left)
      BY <3>1
    <3>2. recipe # <<>> /\ Head(recipe) = c /\ fresh' = fresh \cup {c}
      BY DEF Oracles!Turn, Oracles!Ends
    <3>3. recipe' = Tail(recipe) \/ recipe' = <<>>
      BY DEF Oracles!Ends
    <3> QED BY <1>2, <1>3, <3>2, <3>3
  <2> QED BY <1>4, <2>1, <2>2, CommandEnds
<1> QED BY <1>1, <1>4

\* In every recipe of the Makefile and for every outcome of its commands, the
\* mutation matrix is built from five reports of this recipe, although the
\* script that builds it never looks at their age.
THEOREM MatrixReadsFreshReports == Oracles!Spec => []Oracles!MatrixIsFresh
<1>1. Oracles!Init => OrderInv
  BY OrderOfRecipes DEF Oracles!Init, OrderInv
<1>2. OrderInv => Oracles!MatrixIsFresh
  <2> SUFFICES ASSUME OrderInv, recipe # <<>>, Head(recipe) = "matrix", NEW o \in Oracles!Oracle
               PROVE  o \in fresh
    BY DEF Oracles!MatrixIsFresh
  <2>1. 1 \in 1 .. Len(recipe) /\ recipe[1] = "matrix"
    BY DEF OrderInv
  <2>2. \A j \in 1 .. 1 - 1 : FALSE
    OBVIOUS
  <2> QED BY <2>1, <2>2 DEF OrderInv, MatrixAfter
<1> QED BY <1>1, <1>2, OrderStep, PTL DEF Oracles!Spec

OracleStatuses == {"PASS", "FAIL", "SKIP"}

\* A report has a row, and a row a status.
IsReport(left) == left # {} /\ \A row \in left : row.status \in OracleStatuses

LEMMA OneRow == \A status \in OracleStatuses : \A detail : IsReport({Oracles!Row(status, detail)})
BY DEF IsReport, Oracles!Row

LEMMA ReportsWritten ==
  ASSUME Oracles!Next, DOMAIN tools # {}
  PROVE  \/ Oracles!Raise
         \/ \E c \in Oracles!Command : \E left : Oracles!Ends(c, left) /\ UNCHANGED tools /\ IsReport(left)
<1>1. CASE Oracles!CheckTools
  <2>1. Oracles!Ends("tools", ToolRows) /\ UNCHANGED tools /\ "tools" \in Oracles!Command
    BY <1>1 DEF Oracles!CheckTools, ToolRows, Oracles!Command
  <2>2. IsReport(ToolRows)
    <3> DEFINE status(t) ==
          CASE tools[t] = "pinned" -> "PASS" [] tools[t] = "other" -> "FAIL" [] OTHER -> "SKIP"
    <3>1. \A t : status(t) \in OracleStatuses
      BY DEF OracleStatuses
    <3>2. ToolRows = {Oracles!Row(status(t), t) : t \in DOMAIN tools}
      BY DEF ToolRows
    <3> HIDE DEF status
    <3>3. ASSUME NEW row \in ToolRows PROVE row.status \in OracleStatuses
      <4>1. PICK t \in DOMAIN tools : row = Oracles!Row(status(t), t)
        BY <3>2
      <4> QED BY <3>1, <4>1 DEF Oracles!Row
    <3>4. ToolRows # {}
      BY <3>2
    <3> QED BY <3>3, <3>4 DEF IsReport
  <2> QED BY <2>1, <2>2
<1>2. CASE Oracles!Local
  <2>1. PICK status \in {"PASS", "FAIL"}, mismatch \in BOOLEAN, checker \in BOOLEAN :
          Oracles!Ends("local",
            {Oracles!Row(IF status = "FAIL" /\ (mismatch \/ checker) THEN "PASS" ELSE "FAIL",
                         IF mismatch THEN "mismatch" ELSE "")})
    BY <1>2 DEF Oracles!Local
  <2> DEFINE state == IF status = "FAIL" /\ (mismatch \/ checker) THEN "PASS" ELSE "FAIL"
             detail == IF mismatch THEN "mismatch" ELSE ""
  <2>2. Oracles!Ends("local", {Oracles!Row(state, detail)}) /\ state \in OracleStatuses
    BY <2>1 DEF OracleStatuses
  <2>3. UNCHANGED tools /\ "local" \in Oracles!Command
    BY <1>2 DEF Oracles!Local, Oracles!Command, Oracles!Oracle
  <2> HIDE DEF state, detail
  <2> QED BY <2>2, <2>3, OneRow
<1>3. CASE Oracles!Matrix
  <2> DEFINE left == {Oracles!Row(Oracles!MatrixStatus(o), o) : o \in Oracles!Oracle}
  <2>1. Oracles!Ends("matrix", left) /\ UNCHANGED tools /\ "matrix" \in Oracles!Command
    BY <1>3 DEF Oracles!Matrix, Oracles!Command
  <2>2. IsReport(left)
    <3>1. \A o \in Oracles!Oracle : Oracles!MatrixStatus(o) \in OracleStatuses
      BY DEF Oracles!MatrixStatus, OracleStatuses
    <3>2. "local" \in Oracles!Oracle
      BY DEF Oracles!Oracle
    <3>3. ASSUME NEW row \in left PROVE row.status \in OracleStatuses
      <4>1. PICK o \in Oracles!Oracle : row = Oracles!Row(Oracles!MatrixStatus(o), o)
        OBVIOUS
      <4> QED BY <3>1, <4>1 DEF Oracles!Row
    <3>4. left # {}
      BY <3>2
    <3> QED BY <3>3, <3>4 DEF IsReport
  <2> HIDE DEF left
  <2> QED BY <2>1, <2>2
<1>4. ASSUME NEW c \in {"iss", "spike", "spike_mpp"}, Oracles!Spike(c)
      PROVE  \E d \in Oracles!Command : \E left : Oracles!Ends(d, left) /\ UNCHANGED tools /\ IsReport(left)
  <2> DEFINE Result(mismatch) ==
        {IF tools.spike # "pinned" THEN Oracles!Row("SKIP", "pinned_spike_missing")
         ELSE Oracles!Row(
                IF (mismatch # "") = (c \in Oracles!ExpectDetection) THEN "PASS" ELSE "FAIL", mismatch)}
  <2>1. \E mismatch : Oracles!Ends(c, Result(mismatch))
    <3>1. PICK seen \in RTL_TRACES :
            LET rtl == Oracles!Commits(seen)
            IN \E last \in 0 .. Len(SPIKE_LOG), rtl_status \in {"PASS", "FAIL"}, terminates \in BOOLEAN :
                 LET spike == SubSeq(SPIKE_LOG, 1, last)
                     mismatch == Oracles!Mismatch(rtl, spike, rtl_status, terminates)
                     detected == mismatch # ""
                 IN /\ Oracles!Ends(c,
                         {IF tools.spike # "pinned" THEN Oracles!Row("SKIP", "pinned_spike_missing")
                          ELSE Oracles!Row(
                            IF detected = (c \in Oracles!ExpectDetection) THEN "PASS" ELSE "FAIL", mismatch)})
                    /\ compared' = IF c = "iss" THEN [rtl |-> seen, spike |-> spike] ELSE Oracles!Nothing
      BY <1>4, Zenon DEF Oracles!Spike
    <3>2. PICK last \in 0 .. Len(SPIKE_LOG), rtl_status \in {"PASS", "FAIL"}, terminates \in BOOLEAN :
            LET spike == SubSeq(SPIKE_LOG, 1, last)
                mismatch == Oracles!Mismatch(Oracles!Commits(seen), spike, rtl_status, terminates)
                detected == mismatch # ""
            IN /\ Oracles!Ends(c,
                    {IF tools.spike # "pinned" THEN Oracles!Row("SKIP", "pinned_spike_missing")
                     ELSE Oracles!Row(
                       IF detected = (c \in Oracles!ExpectDetection) THEN "PASS" ELSE "FAIL", mismatch)})
               /\ compared' = IF c = "iss" THEN [rtl |-> seen, spike |-> spike] ELSE Oracles!Nothing
      BY <3>1, Zenon
    <3>3. Oracles!Ends(c, Result(
            Oracles!Mismatch(Oracles!Commits(seen), SubSeq(SPIKE_LOG, 1, last), rtl_status, terminates)))
      BY <3>2, Zenon
    <3> HIDE DEF Result
    <3> QED BY <3>3
  <2> PICK mismatch : Oracles!Ends(c, Result(mismatch))
    BY <2>1
  <2> DEFINE found == IF (mismatch # "") = (c \in Oracles!ExpectDetection) THEN "PASS" ELSE "FAIL"
  <2>4. Oracles!Ends(c, {IF tools.spike # "pinned" THEN Oracles!Row("SKIP", "pinned_spike_missing")
                        ELSE Oracles!Row(found, mismatch)})
    OBVIOUS
  <2>5. found \in OracleStatuses /\ "SKIP" \in OracleStatuses
    BY DEF OracleStatuses
  <2> HIDE DEF found, Result
  <2>2. \E status \in OracleStatuses : \E detail : Oracles!Ends(c, {Oracles!Row(status, detail)})
    BY <2>4, <2>5
  <2>3. c \in Oracles!Command /\ UNCHANGED tools
    BY <1>4 DEF Oracles!Spike, Oracles!Command, Oracles!Oracle
  <2> QED BY <2>2, <2>3, OneRow
<1>5. ASSUME NEW c \in {"act", "act_m", "act_mutant"}, Oracles!Act(c)
      PROVE  \E d \in Oracles!Command : \E left : Oracles!Ends(d, left) /\ UNCHANGED tools /\ IsReport(left)
  <2>1. PICK first \in Oracles!ActKind, second \in Oracles!ActKind, broken \in {"", "generation", "setup"} :
          Oracles!Ends(c,
            IF tools.act = "missing" \/ tools.sail = "missing" THEN {Oracles!Row("SKIP", "dependency_missing")}
            ELSE IF tools.act = "other" THEN {Oracles!Row("FAIL", "revision_mismatch")}
            ELSE IF broken # "" THEN {Oracles!Row("FAIL", broken)}
            ELSE {Oracles!Row(IF k = "" THEN "PASS" ELSE "FAIL", k) : k \in {first, second}})
    BY <1>5 DEF Oracles!Act
  <2> DEFINE images == {Oracles!Row(IF k = "" THEN "PASS" ELSE "FAIL", k) : k \in {first, second}}
  <2>2. \/ Oracles!Ends(c, {Oracles!Row("SKIP", "dependency_missing")})
        \/ Oracles!Ends(c, {Oracles!Row("FAIL", "revision_mismatch")})
        \/ Oracles!Ends(c, {Oracles!Row("FAIL", broken)}) \/ Oracles!Ends(c, images)
    BY <2>1
  <2>3. IsReport(images)
    <3>1. ASSUME NEW row \in images PROVE row.status \in OracleStatuses
      <4>1. PICK k \in {first, second} : row = Oracles!Row(IF k = "" THEN "PASS" ELSE "FAIL", k)
        OBVIOUS
      <4> QED BY <4>1 DEF Oracles!Row, OracleStatuses
    <3>2. images # {}
      OBVIOUS
    <3> QED BY <3>1, <3>2 DEF IsReport
  <2> HIDE DEF images
  <2>4. \A detail : IsReport({Oracles!Row("SKIP", detail)}) /\ IsReport({Oracles!Row("FAIL", detail)})
    BY OneRow DEF OracleStatuses
  <2>5. c \in Oracles!Command /\ UNCHANGED tools
    BY <1>5 DEF Oracles!Act, Oracles!Command, Oracles!Oracle
  <2> QED BY <2>2, <2>3, <2>4, <2>5
<1>6. ASSUME NEW c \in {"formal", "formal_mutant"}, Oracles!Formal(c)
      PROVE  \E d \in Oracles!Command : \E left : Oracles!Ends(d, left) /\ UNCHANGED tools /\ IsReport(left)
  <2>1. PICK solver \in {"proved", "counterexample", "error"}, standard \in {"PASS", "FAIL"} :
          Oracles!Ends(c,
            {IF tools.sby = "missing" THEN Oracles!Row("SKIP", "sby_missing")
             ELSE Oracles!Row(
                    IF (solver # "proved") = (c \in Oracles!ExpectDetection) THEN "PASS" ELSE "FAIL", solver)}
            \cup IF c \in Oracles!ExpectDetection THEN {}
                 ELSE {Oracles!Row(IF tools.formal = "missing" \/ tools.sby = "missing" THEN "SKIP"
                           ELSE IF tools.formal = "other" THEN "FAIL" ELSE standard, "standard")})
    BY <1>6 DEF Oracles!Formal
  <2> DEFINE own == IF tools.sby = "missing" THEN Oracles!Row("SKIP", "sby_missing")
                    ELSE Oracles!Row(
                      IF (solver # "proved") = (c \in Oracles!ExpectDetection) THEN "PASS" ELSE "FAIL", solver)
             other == IF tools.formal = "missing" \/ tools.sby = "missing" THEN "SKIP"
                      ELSE IF tools.formal = "other" THEN "FAIL" ELSE standard
             more == IF c \in Oracles!ExpectDetection THEN {} ELSE {Oracles!Row(other, "standard")}
  <2>2. Oracles!Ends(c, {own} \cup more)
    BY <2>1
  <2>3. own.status \in OracleStatuses
    BY DEF Oracles!Row, OracleStatuses
  <2>4. other \in OracleStatuses
    BY DEF OracleStatuses
  <2> HIDE DEF own, other
  <2>5. \A row \in more : row.status \in OracleStatuses
    BY <2>4 DEF Oracles!Row
  <2> HIDE DEF more
  <2>6. IsReport({own} \cup more)
    BY <2>3, <2>5 DEF IsReport
  <2>7. c \in Oracles!Command /\ UNCHANGED tools
    BY <1>6 DEF Oracles!Formal, Oracles!Command, Oracles!Oracle
  <2> QED BY <2>2, <2>6, <2>7
<1> QED BY <1>1, <1>2, <1>3, <1>4, <1>5, <1>6 DEF Oracles!Next

OraclesInv ==
  /\ Oracles!TypeOK /\ oracle_rows = [c \in Oracles!Command |-> oracle_rows[c]]

\* A report on disk always has a row with a status in it, whatever command
\* wrote it last.
THEOREM OraclesTyped ==
  ASSUME \A installed \in TOOLS : DOMAIN installed # {}
  PROVE  Oracles!Spec => []Oracles!TypeOK
<1>1. Oracles!Init => OraclesInv
  <2> SUFFICES ASSUME Oracles!Init PROVE OraclesInv
    OBVIOUS
  <2>1. Oracles!Row("PASS", "").status = "PASS"
    BY DEF Oracles!Row
  <2> QED BY <2>1 DEF Oracles!Init, OraclesInv, Oracles!TypeOK
<1>2. (\A installed \in TOOLS : DOMAIN installed # {}) /\ OraclesInv /\ [Oracles!Next]_(Oracles!vars)
        => OraclesInv'
  <2> SUFFICES ASSUME \A installed \in TOOLS : DOMAIN installed # {}, OraclesInv, [Oracles!Next]_(Oracles!vars)
               PROVE  OraclesInv'
    OBVIOUS
  <2>1. CASE UNCHANGED Oracles!vars
    BY <2>1 DEF Oracles!vars, OraclesInv, Oracles!TypeOK
  <2>2. CASE Oracles!Raise
    BY <2>2 DEF Oracles!Raise, OraclesInv, Oracles!TypeOK
  <2>3. ASSUME NEW c \in Oracles!Command, NEW left, Oracles!Ends(c, left), UNCHANGED tools, IsReport(left)
        PROVE  OraclesInv'
    <3>1. /\ oracle_rows' = [oracle_rows EXCEPT ![c] = left] /\ fresh' = fresh \cup {c}
          /\ verdict' \in {"running", "green", "red"}
      BY <2>3 DEF Oracles!Ends
    <3>2. \A d \in Oracles!Command : oracle_rows'[d] = IF d = c THEN left ELSE oracle_rows[d]
      BY <3>1 DEF OraclesInv
    <3>3. \A d \in Oracles!Command :
            oracle_rows'[d] # {} /\ \A row \in oracle_rows'[d] : row.status \in {"PASS", "FAIL", "SKIP"}
      BY <2>3, <3>2 DEF OraclesInv, Oracles!TypeOK, IsReport, OracleStatuses
    <3>4. oracle_rows' = [d \in Oracles!Command |-> oracle_rows'[d]]
      BY <3>1 DEF OraclesInv
    <3> QED BY <2>3, <3>1, <3>3, <3>4 DEF OraclesInv, Oracles!TypeOK
  <2>4. CASE Oracles!Next
    BY <2>2, <2>3, <2>4, ReportsWritten DEF OraclesInv, Oracles!TypeOK
  <2> QED BY <2>1, <2>4
<1>3. OraclesInv => Oracles!TypeOK
  BY DEF OraclesInv
<1> QED BY <1>1, <1>2, <1>3, PTL DEF Oracles!Spec

-----------------------------------------------------------------------------
(* What an accepted comparison is worth, by induction over the trace: a      *)
(* fact holds of every position if the set of positions it holds of has 0    *)
(* and, with each number, the next.                                          *)

\* Every set of numbers that is not empty has a least one.
LEMMA LeastNumber == ASSUME NEW T, T \subseteq Nat, T # {} PROVE \E x \in T : \A y \in T : ~(y < x)
<1>1. IsWellFoundedOn(OpToRel(<, Nat), Nat)
  BY NatLessThanWellFounded
<1>2. PICK x \in T : \A y \in T : ~(<<y, x>> \in OpToRel(<, Nat))
  BY <1>1, WFMin
<1>3. \A y \in T : ~(y < x)
  <2> SUFFICES ASSUME NEW y \in T, y < x PROVE FALSE
    OBVIOUS
  <2>1. <<y, x>> \in OpToRel(<, Nat)
    BY DEF OpToRel
  <2> QED BY <1>2, <2>1
<1> QED BY <1>3

\* Induction, on the set of the numbers for which a fact holds.
LEMMA InductionOnSet ==
  ASSUME NEW S, 0 \in S, \A n \in Nat : n \in S => n + 1 \in S
  PROVE  Nat \subseteq S
<1> SUFFICES ASSUME Nat \ S # {} PROVE FALSE
  OBVIOUS
<1>1. PICK x \in Nat \ S : \A y \in Nat \ S : ~(y < x)
  BY LeastNumber
<1>2. x # 0
  OBVIOUS
<1>3. x - 1 \in Nat /\ x - 1 < x
  BY <1>2
<1>4. x - 1 \in S
  BY <1>1, <1>3
<1> QED BY <1>3, <1>4

-----------------------------------------------------------------------------
\* What the three running totals are, position by position.
LEMMA CommittedIs ==
  ASSUME NEW t, Len(t) \in Nat
  PROVE  Oracles!Committed(t) =
           [i \in 0 .. Len(t) |->
              IF i = 0 THEN <<>>
              ELSE IF Oracles!IsCommit(t[i]) THEN Append(Oracles!Committed(t)[i - 1], Oracles!Commit(t[i]))
                   ELSE Oracles!Committed(t)[i - 1]]
<1> DEFINE Body(g, i) ==
             IF i = 0 THEN <<>>
             ELSE IF Oracles!IsCommit(t[i]) THEN Append(g[i - 1], Oracles!Commit(t[i])) ELSE g[i - 1]
           S == {m \in Nat : \E g : g = [i \in 0 .. m |-> Body(g, i)]}
<1>1. 0 \in S
  <2>1. [i \in 0 .. 0 |-> <<>>] = [i \in 0 .. 0 |-> Body([j \in 0 .. 0 |-> <<>>], i)]
    OBVIOUS
  <2> QED BY <2>1
<1>2. ASSUME NEW m \in Nat, m \in S PROVE m + 1 \in S
  <2>1. PICK g : g = [i \in 0 .. m |-> Body(g, i)]
    BY <1>2
  <2> DEFINE h == [i \in 0 .. m + 1 |-> IF i <= m THEN g[i] ELSE Body(g, i)]
  <2>2. ASSUME NEW i \in 0 .. m + 1 PROVE h[i] = Body(h, i)
    <3>1. i = 0 \/ (i - 1 \in 0 .. m /\ h[i - 1] = g[i - 1])
      OBVIOUS
    <3>2. Body(h, i) = Body(g, i)
      BY <3>1
    <3>3. i <= m => g[i] = Body(g, i)
      <4>1. i <= m => i \in 0 .. m
        OBVIOUS
      <4> HIDE DEF Body, h
      <4> QED BY <2>1, <4>1
    <3>4. h[i] = Body(g, i)
      <4> HIDE DEF Body
      <4> QED BY <3>3
    <3> HIDE DEF Body, h
    <3> QED BY <3>2, <3>4
  <2>3. h = [i \in 0 .. m + 1 |-> Body(h, i)]
    <3> HIDE DEF Body
    <3> QED BY <2>2
  <2> HIDE DEF h
  <2> QED BY <2>3
<1> HIDE DEF S
<1>3. Len(t) \in S
  BY <1>1, <1>2, InductionOnSet
<1>4. \E g : g = [i \in 0 .. Len(t) |-> Body(g, i)]
  BY <1>3 DEF S
<1> QED BY <1>4 DEF Oracles!Committed

LEMMA ReplayedIs ==
  ASSUME NEW t, Len(t) \in Nat
  PROVE  Oracles!Replayed(t) =
           [i \in 0 .. Len(t) |->
              IF i = 0 THEN Oracles!Blank ELSE Oracles!ReplayRow(Oracles!Replayed(t)[i - 1], t[i])]
<1> DEFINE Body(g, i) == IF i = 0 THEN Oracles!Blank ELSE Oracles!ReplayRow(g[i - 1], t[i])
           S == {m \in Nat : \E g : g = [i \in 0 .. m |-> Body(g, i)]}
<1>1. 0 \in S
  <2>1. [i \in 0 .. 0 |-> Oracles!Blank] = [i \in 0 .. 0 |-> Body([j \in 0 .. 0 |-> Oracles!Blank], i)]
    OBVIOUS
  <2> QED BY <2>1
<1>2. ASSUME NEW m \in Nat, m \in S PROVE m + 1 \in S
  <2>1. PICK g : g = [i \in 0 .. m |-> Body(g, i)]
    BY <1>2
  <2> DEFINE h == [i \in 0 .. m + 1 |-> IF i <= m THEN g[i] ELSE Body(g, i)]
  <2>2. ASSUME NEW i \in 0 .. m + 1 PROVE h[i] = Body(h, i)
    <3>1. i = 0 \/ (i - 1 \in 0 .. m /\ h[i - 1] = g[i - 1])
      OBVIOUS
    <3>2. Body(h, i) = Body(g, i)
      BY <3>1
    <3>3. i <= m => g[i] = Body(g, i)
      <4>1. i <= m => i \in 0 .. m
        OBVIOUS
      <4> HIDE DEF Body, h
      <4> QED BY <2>1, <4>1
    <3>4. h[i] = Body(g, i)
      <4> HIDE DEF Body
      <4> QED BY <3>3
    <3> HIDE DEF Body, h
    <3> QED BY <3>2, <3>4
  <2>3. h = [i \in 0 .. m + 1 |-> Body(h, i)]
    <3> HIDE DEF Body
    <3> QED BY <2>2
  <2> HIDE DEF h
  <2> QED BY <2>3
<1> HIDE DEF S
<1>3. Len(t) \in S
  BY <1>1, <1>2, InductionOnSet
<1>4. \E g : g = [i \in 0 .. Len(t) |-> Body(g, i)]
  BY <1>3 DEF S
<1> QED BY <1>4 DEF Oracles!Replayed

LEMMA ReplayedLogIs ==
  ASSUME NEW t, Len(t) \in Nat
  PROVE  Oracles!ReplayedLog(t) =
           [i \in 0 .. Len(t) |->
              IF i = 0 THEN Oracles!Blank ELSE Oracles!ReplayCommit(Oracles!ReplayedLog(t)[i - 1], t[i])]
<1> DEFINE Body(g, i) == IF i = 0 THEN Oracles!Blank ELSE Oracles!ReplayCommit(g[i - 1], t[i])
           S == {m \in Nat : \E g : g = [i \in 0 .. m |-> Body(g, i)]}
<1>1. 0 \in S
  <2>1. [i \in 0 .. 0 |-> Oracles!Blank] = [i \in 0 .. 0 |-> Body([j \in 0 .. 0 |-> Oracles!Blank], i)]
    OBVIOUS
  <2> QED BY <2>1
<1>2. ASSUME NEW m \in Nat, m \in S PROVE m + 1 \in S
  <2>1. PICK g : g = [i \in 0 .. m |-> Body(g, i)]
    BY <1>2
  <2> DEFINE h == [i \in 0 .. m + 1 |-> IF i <= m THEN g[i] ELSE Body(g, i)]
  <2>2. ASSUME NEW i \in 0 .. m + 1 PROVE h[i] = Body(h, i)
    <3>1. i = 0 \/ (i - 1 \in 0 .. m /\ h[i - 1] = g[i - 1])
      OBVIOUS
    <3>2. Body(h, i) = Body(g, i)
      BY <3>1
    <3>3. i <= m => g[i] = Body(g, i)
      <4>1. i <= m => i \in 0 .. m
        OBVIOUS
      <4> HIDE DEF Body, h
      <4> QED BY <2>1, <4>1
    <3>4. h[i] = Body(g, i)
      <4> HIDE DEF Body
      <4> QED BY <3>3
    <3> HIDE DEF Body, h
    <3> QED BY <3>2, <3>4
  <2>3. h = [i \in 0 .. m + 1 |-> Body(h, i)]
    <3> HIDE DEF Body
    <3> QED BY <2>2
  <2> HIDE DEF h
  <2> QED BY <2>3
<1> HIDE DEF S
<1>3. Len(t) \in S
  BY <1>1, <1>2, InductionOnSet
<1>4. \E g : g = [i \in 0 .. Len(t) |-> Body(g, i)]
  BY <1>3 DEF S
<1> QED BY <1>4 DEF Oracles!ReplayedLog
-----------------------------------------------------------------------------
\* A row adds one commit to those before it, or none.
LEMMA CommittedStep ==
  ASSUME NEW t, Len(t) \in Nat
  PROVE  /\ Oracles!Committed(t)[0] = <<>>
         /\ \A i \in 0 .. Len(t) - 1 :
              Oracles!Committed(t)[i + 1] =
                IF Oracles!IsCommit(t[i + 1]) THEN Append(Oracles!Committed(t)[i], Oracles!Commit(t[i + 1]))
                ELSE Oracles!Committed(t)[i]
<1> DEFINE C == Oracles!Committed(t)
           Body(i) ==
             IF i = 0 THEN <<>>
             ELSE IF Oracles!IsCommit(t[i]) THEN Append(C[i - 1], Oracles!Commit(t[i])) ELSE C[i - 1]
<1>1. C = [i \in 0 .. Len(t) |-> Body(i)]
  BY CommittedIs
<1>2. ASSUME NEW i \in 0 .. Len(t) PROVE C[i] = Body(i)
  <2> HIDE DEF C, Body
  <2> QED BY <1>1
<1> HIDE DEF C
<1>3. C[0] = <<>>
  BY <1>2
<1>4. ASSUME NEW i \in 0 .. Len(t) - 1
      PROVE  C[i + 1] = IF Oracles!IsCommit(t[i + 1]) THEN Append(C[i], Oracles!Commit(t[i + 1])) ELSE C[i]
  <2>1. i + 1 \in 0 .. Len(t) /\ i + 1 # 0 /\ (i + 1) - 1 = i
    OBVIOUS
  <2>2. C[i + 1] = Body(i + 1)
    BY <1>2, <2>1
  <2> QED BY <2>1, <2>2
<1> QED BY <1>3, <1>4 DEF C

LEMMA CommittedSeq ==
  ASSUME NEW t, Len(t) \in Nat
  PROVE  \A i \in 0 .. Len(t) : Oracles!Committed(t)[i] \in Seq({Oracles!Commit(t[j]) : j \in 1 .. Len(t)})
<1> DEFINE C == Oracles!Committed(t)
           E == {Oracles!Commit(t[j]) : j \in 1 .. Len(t)}
           S == {i \in Nat : i <= Len(t) => C[i] \in Seq(E)}
<1> HIDE DEF C, E
<1>1. C[0] \in Seq(E)
  <2>1. C[0] = <<>>
    BY CommittedStep DEF C
  <2>2. <<>> \in Seq(E)
    OBVIOUS
  <2> QED BY <2>1, <2>2
<1>2. 0 \in S
  BY <1>1
<1>3. ASSUME NEW i \in Nat, i \in S PROVE i + 1 \in S
  <2> SUFFICES ASSUME i + 1 <= Len(t) PROVE C[i + 1] \in Seq(E)
    OBVIOUS
  <2>1. i \in 0 .. Len(t) - 1 /\ i + 1 \in 1 .. Len(t)
    OBVIOUS
  <2>2. C[i] \in Seq(E)
    BY <1>3, <2>1
  <2>3. Oracles!Commit(t[i + 1]) \in E
    BY <2>1 DEF E
  <2>4. C[i + 1] = IF Oracles!IsCommit(t[i + 1]) THEN Append(C[i], Oracles!Commit(t[i + 1])) ELSE C[i]
    BY <2>1, CommittedStep DEF C
  <2> QED BY <2>2, <2>3, <2>4
<1> HIDE DEF S
<1>4. Nat \subseteq S
  BY <1>2, <1>3, InductionOnSet
<1> QED BY <1>4 DEF S, C, E

\* One row on, in the terms the proofs below use.
LEMMA CommittedNext ==
  ASSUME NEW t, Len(t) \in Nat, NEW i \in 0 .. Len(t) - 1
  PROVE  /\ Len(Oracles!Committed(t)[i]) \in Nat
         /\ ~Oracles!IsCommit(t[i + 1]) => Oracles!Committed(t)[i + 1] = Oracles!Committed(t)[i]
         /\ Oracles!IsCommit(t[i + 1]) =>
              /\ Len(Oracles!Committed(t)[i + 1]) = Len(Oracles!Committed(t)[i]) + 1
              /\ Oracles!Committed(t)[i + 1][Len(Oracles!Committed(t)[i]) + 1] = Oracles!Commit(t[i + 1])
              /\ \A j \in 1 .. Len(Oracles!Committed(t)[i]) :
                   Oracles!Committed(t)[i + 1][j] = Oracles!Committed(t)[i][j]
<1> DEFINE C == Oracles!Committed(t)
           E == {Oracles!Commit(t[j]) : j \in 1 .. Len(t)}
<1> HIDE DEF C, E
<1>1. C[i] \in Seq(E)
  <2>1. i \in 0 .. Len(t)
    OBVIOUS
  <2> QED BY <2>1, CommittedSeq DEF C, E
<1>2. C[i + 1] = IF Oracles!IsCommit(t[i + 1]) THEN Append(C[i], Oracles!Commit(t[i + 1])) ELSE C[i]
  BY CommittedStep DEF C
<1>3. Oracles!Commit(t[i + 1]) \in E
  BY DEF E
<1>4. CASE Oracles!IsCommit(t[i + 1])
  <2>1. C[i + 1] = Append(C[i], Oracles!Commit(t[i + 1]))
    BY <1>2, <1>4
  <2>2. /\ Len(C[i + 1]) = Len(C[i]) + 1 /\ C[i + 1][Len(C[i]) + 1] = Oracles!Commit(t[i + 1])
        /\ \A j \in 1 .. Len(C[i]) : C[i + 1][j] = C[i][j]
    BY <1>1, <1>3, <2>1
  <2> QED BY <1>1, <1>4, <2>2 DEF C
<1>5. CASE ~Oracles!IsCommit(t[i + 1])
  BY <1>1, <1>2, <1>5 DEF C
<1> QED BY <1>4, <1>5

\* What was committed by some row stays at its place.
LEMMA CommittedStays ==
  ASSUME NEW t, Len(t) \in Nat, NEW k \in 0 .. Len(t)
  PROVE  \A m \in k .. Len(t) :
           /\ Len(Oracles!Committed(t)[k]) <= Len(Oracles!Committed(t)[m])
           /\ \A j \in 1 .. Len(Oracles!Committed(t)[k]) :
                Oracles!Committed(t)[m][j] = Oracles!Committed(t)[k][j]
<1> DEFINE C == Oracles!Committed(t)
           Kept(m) == Len(C[k]) <= Len(C[m]) /\ \A j \in 1 .. Len(C[k]) : C[m][j] = C[k][j]
           S == {n \in Nat : k + n <= Len(t) => Kept(k + n)}
<1>1. ASSUME NEW i \in 0 .. Len(t) PROVE Len(C[i]) \in Nat
  BY CommittedSeq
<1> HIDE DEF C
<1>2. 0 \in S
  <2>1. Kept(k)
    BY <1>1
  <2>2. k + 0 = k
    OBVIOUS
  <2> HIDE DEF Kept
  <2> QED BY <2>1, <2>2
<1>3. ASSUME NEW n \in Nat, n \in S PROVE n + 1 \in S
  <2> SUFFICES ASSUME k + (n + 1) <= Len(t) PROVE Kept((k + n) + 1)
    OBVIOUS
  <2>1. k + n \in 0 .. Len(t) - 1
    OBVIOUS
  <2>2. Kept(k + n)
    BY <1>3, <2>1
  <2>3. CASE Oracles!IsCommit(t[(k + n) + 1])
    <3>1. /\ Len(C[(k + n) + 1]) = Len(C[k + n]) + 1
          /\ \A j \in 1 .. Len(C[k + n]) : C[(k + n) + 1][j] = C[k + n][j]
      BY <2>1, <2>3, CommittedNext DEF C
    <3>2. Len(C[k + n]) \in Nat /\ Len(C[k]) \in Nat
      BY <1>1, <2>1
    <3> QED BY <2>2, <3>1, <3>2
  <2>4. CASE ~Oracles!IsCommit(t[(k + n) + 1])
    <3>1. C[(k + n) + 1] = C[k + n]
      BY <2>1, <2>4, CommittedNext DEF C
    <3> QED BY <2>2, <3>1
  <2> QED BY <2>3, <2>4
<1> HIDE DEF S
<1>4. Nat \subseteq S
  BY <1>2, <1>3, InductionOnSet
<1>5. ASSUME NEW m \in k .. Len(t) PROVE Kept(m)
  <2>1. m - k \in Nat /\ k + (m - k) = m
    OBVIOUS
  <2>2. m - k \in S
    BY <1>4, <2>1
  <2> HIDE DEF Kept
  <2>3. k + (m - k) <= Len(t) => Kept(k + (m - k))
    BY <2>2 DEF S
  <2> QED BY <2>1, <2>3
<1> QED BY <1>5 DEF C

\* As rows are taken one by one, no number of commits is skipped.
LEMMA EachCountReached ==
  ASSUME NEW t, Len(t) \in Nat, NEW c \in 0 .. Len(Oracles!Commits(t))
  PROVE  \E i \in 0 .. Len(t) : Len(Oracles!Committed(t)[i]) = c
<1> DEFINE C == Oracles!Committed(t)
           S == {k \in Nat : k <= Len(t) => \A n \in 0 .. Len(C[k]) : \E i \in 0 .. k : Len(C[i]) = n}
<1>1. C[0] = <<>>
  BY CommittedStep
<1>2. ASSUME NEW i \in 0 .. Len(t) PROVE Len(C[i]) \in Nat
  BY CommittedSeq
<1> HIDE DEF C
<1>3. 0 \in S
  <2>1. Len(C[0]) = 0 /\ 0 \in 0 .. 0
    BY <1>1
  <2> QED BY <2>1
<1>4. ASSUME NEW k \in Nat, k \in S PROVE k + 1 \in S
  <2> SUFFICES ASSUME k + 1 <= Len(t), NEW n \in 0 .. Len(C[k + 1]) PROVE \E i \in 0 .. k + 1 : Len(C[i]) = n
    OBVIOUS
  <2>1. k \in 0 .. Len(t) - 1 /\ k \in 0 .. Len(t) /\ 0 .. k \subseteq 0 .. k + 1 /\ k + 1 \in 0 .. k + 1
    OBVIOUS
  <2>2. \A q \in 0 .. Len(C[k]) : \E i \in 0 .. k : Len(C[i]) = q
    BY <1>4, <2>1
  <2>3. Len(C[k + 1]) = Len(C[k]) + 1 \/ Len(C[k + 1]) = Len(C[k])
    BY <2>1, CommittedNext DEF C
  <2>4. n \in 0 .. Len(C[k]) \/ n = Len(C[k + 1])
    BY <1>2, <2>1, <2>3
  <2> QED BY <2>1, <2>2, <2>4
<1> HIDE DEF S
<1>5. Len(t) \in S
  BY <1>3, <1>4, InductionOnSet
<1> QED BY <1>5 DEF S, C, Oracles!Commits
-----------------------------------------------------------------------------
LEMMA ReplayedStep ==
  ASSUME NEW t, Len(t) \in Nat
  PROVE  /\ Oracles!Replayed(t)[0] = Oracles!Blank
         /\ \A i \in 0 .. Len(t) - 1 :
              Oracles!Replayed(t)[i + 1] = Oracles!ReplayRow(Oracles!Replayed(t)[i], t[i + 1])
<1> DEFINE R == Oracles!Replayed(t)
           Body(i) == IF i = 0 THEN Oracles!Blank ELSE Oracles!ReplayRow(R[i - 1], t[i])
<1>1. R = [i \in 0 .. Len(t) |-> Body(i)]
  BY ReplayedIs
<1>2. ASSUME NEW i \in 0 .. Len(t) PROVE R[i] = Body(i)
  <2> HIDE DEF R, Body
  <2> QED BY <1>1
<1> HIDE DEF R
<1>3. R[0] = Oracles!Blank
  BY <1>2
<1>4. ASSUME NEW i \in 0 .. Len(t) - 1 PROVE R[i + 1] = Oracles!ReplayRow(R[i], t[i + 1])
  <2>1. i + 1 \in 0 .. Len(t) /\ i + 1 # 0 /\ (i + 1) - 1 = i
    OBVIOUS
  <2>2. R[i + 1] = Body(i + 1)
    BY <1>2, <2>1
  <2> QED BY <2>1, <2>2
<1> QED BY <1>3, <1>4 DEF R

LEMMA ReplayedLogStep ==
  ASSUME NEW t, Len(t) \in Nat
  PROVE  /\ Oracles!ReplayedLog(t)[0] = Oracles!Blank
         /\ \A i \in 0 .. Len(t) - 1 :
              Oracles!ReplayedLog(t)[i + 1] = Oracles!ReplayCommit(Oracles!ReplayedLog(t)[i], t[i + 1])
<1> DEFINE R == Oracles!ReplayedLog(t)
           Body(i) == IF i = 0 THEN Oracles!Blank ELSE Oracles!ReplayCommit(R[i - 1], t[i])
<1>1. R = [i \in 0 .. Len(t) |-> Body(i)]
  BY ReplayedLogIs
<1>2. ASSUME NEW i \in 0 .. Len(t) PROVE R[i] = Body(i)
  <2> HIDE DEF R, Body
  <2> QED BY <1>1
<1> HIDE DEF R
<1>3. R[0] = Oracles!Blank
  BY <1>2
<1>4. ASSUME NEW i \in 0 .. Len(t) - 1 PROVE R[i + 1] = Oracles!ReplayCommit(R[i], t[i + 1])
  <2>1. i + 1 \in 0 .. Len(t) /\ i + 1 # 0 /\ (i + 1) - 1 = i
    OBVIOUS
  <2>2. R[i + 1] = Body(i + 1)
    BY <1>2, <2>1
  <2> QED BY <2>1, <2>2
<1> QED BY <1>3, <1>4 DEF R

\* A register and the lanes of a word: all there is to a state.
Machine(state) == state = [regs |-> state.regs, memory |-> state.memory]

LEMMA ReplayedMachine ==
  ASSUME NEW t, Len(t) \in Nat, NEW i \in 0 .. Len(t)
  PROVE  Machine(Oracles!Replayed(t)[i])
<1>1. CASE i = 0
  <2>1. Machine(Oracles!Blank)
    BY DEF Machine, Oracles!Blank
  <2> QED BY <1>1, <2>1, ReplayedStep
<1>2. CASE i # 0
  <2>1. i - 1 \in 0 .. Len(t) - 1 /\ (i - 1) + 1 = i
    BY <1>2
  <2>2. Oracles!Replayed(t)[(i - 1) + 1] = Oracles!ReplayRow(Oracles!Replayed(t)[i - 1], t[(i - 1) + 1])
    BY <2>1, ReplayedStep
  <2>3. \A state, row : Machine(Oracles!ReplayRow(state, row))
    BY DEF Machine, Oracles!ReplayRow
  <2> QED BY <2>1, <2>2, <2>3
<1> QED BY <1>1, <1>2

\* A row that is no commit does nothing.
LEMMA QuietRow ==
  ASSUME NEW state, Machine(state), NEW row \in Oracles!Retirement, ~Oracles!IsCommit(row)
  PROVE  Oracles!ReplayRow(state, row) = state
<1>1. row.rd = 0 /\ ~row.store
  BY DEF Oracles!Retirement
<1> QED BY <1>1 DEF Machine, Oracles!ReplayRow

\* The byte a store takes is the low one of what it is given.
LEMMA LowByteStored ==
  ASSUME NEW word, NEW addr \in Nat, NEW data \in Oracles!Word
  PROVE  Oracles!Merge(word, addr, Oracles!Mask(FALSE, addr), Oracles!Byte(data, 0))
           = Oracles!Merge(word, addr, Oracles!Mask(FALSE, addr), data)
<1>1. ASSUME NEW l \in {0, 1}, l \in Oracles!Mask(FALSE, addr)
      PROVE  Oracles!Byte(Oracles!Byte(data, 0), l - (addr % 2)) = Oracles!Byte(data, l - (addr % 2))
  <2>1. l - (addr % 2) = 0
    BY <1>1 DEF Oracles!Mask
  <2>2. ((data % 2) % 2) = data % 2
    BY DEF Oracles!Word
  <2> QED BY <2>1, <2>2 DEF Oracles!Byte
<1> QED BY <1>1 DEF Oracles!Merge

\* What compare_commit lets pass changes registers and memory alike.
LEMMA CommitReplaysAlike ==
  ASSUME NEW state, NEW row \in Oracles!Retirement, NEW commit \in Oracles!SpikeCommit,
         ~Oracles!Differs(Oracles!Commit(row), commit)
  PROVE  Oracles!ReplayRow(state, row) = Oracles!ReplayCommit(state, commit)
<1> DEFINE c == Oracles!Commit(row)
<1>1. /\ c.pc = row.pc /\ c.insn = row.insn /\ c.mask = row.mask
      /\ c.reg = IF row.rd = 0 THEN <<>> ELSE <<row.rd, row.value>>
      /\ c.addr = IF row.mask = {} THEN <<>> ELSE <<row.addr>>
      /\ c.data = IF row.store THEN <<IF row.insn = "sb" THEN Oracles!Byte(row.data, 0) ELSE row.data>> ELSE <<>>
  BY DEF Oracles!Commit
<1>2. /\ c.insn = commit.insn /\ c.reg = commit.reg /\ c.addr = commit.addr
      /\ commit.data # <<>> => c.data = commit.data
      /\ c.addr # <<>> => c.mask = Oracles!ExpectedMask(c.insn, c.addr[1])
  BY DEF Oracles!Differs
<1>3. /\ row.addr \in Nat /\ row.data \in Oracles!Word
      /\ row.store => row.mask # {} /\ row.insn # "lw"
  BY DEF Oracles!Retirement
<1>4. commit.insn \in {"sw", "sb"} => commit.data # <<>>
  BY DEF Oracles!SpikeCommit
<1> HIDE DEF c
<1>5. row.rd # 0 => commit.reg # <<>> /\ commit.reg[1] = row.rd /\ commit.reg[2] = row.value
  BY <1>1, <1>2
<1>6. row.rd = 0 => commit.reg = <<>>
  BY <1>1, <1>2
<1>7. CASE commit.data = <<>>
  <2>1. ~row.store
    <3> SUFFICES ASSUME row.store PROVE FALSE
      OBVIOUS
    <3>1. row.insn \notin {"lw", "sw", "sb"} /\ row.mask # {}
      BY <1>1, <1>2, <1>3, <1>4, <1>7
    <3>2. c.mask = {}
      BY <1>1, <1>2, <3>1 DEF Oracles!ExpectedMask
    <3> QED BY <1>1, <3>1, <3>2
  <2> QED BY <1>5, <1>6, <1>7, <2>1 DEF Oracles!ReplayRow, Oracles!ReplayCommit
<1>8. CASE commit.data # <<>>
  <2>1. row.store
    BY <1>1, <1>2, <1>8
  <2>2. /\ row.mask # {} /\ commit.addr = <<row.addr>> /\ commit.addr[1] = row.addr
        /\ commit.data[1] = IF row.insn = "sb" THEN Oracles!Byte(row.data, 0) ELSE row.data
    BY <1>1, <1>2, <1>3, <1>8, <2>1
  <2>3. row.mask = Oracles!ExpectedMask(commit.insn, row.addr)
    BY <1>1, <1>2, <2>2
  <2>4. ASSUME NEW word
        PROVE  Oracles!Merge(word, row.addr, row.mask, commit.data[1])
                 = Oracles!Merge(word, row.addr, row.mask, row.data)
    <3>1. CASE row.insn = "sb"
      <4>1. row.mask = Oracles!Mask(FALSE, row.addr)
        BY <1>1, <1>2, <2>3, <3>1 DEF Oracles!ExpectedMask
      <4> QED BY <1>3, <2>2, <3>1, <4>1, LowByteStored
    <3>2. CASE row.insn # "sb"
      BY <2>2, <3>2
    <3> QED BY <3>1, <3>2
  <2>5. Oracles!Store(state.memory, row.addr, row.mask, row.data)
          = Oracles!Store(state.memory, commit.addr[1], Oracles!ExpectedMask(commit.insn, commit.addr[1]), commit.data[1])
    BY <2>2, <2>3, <2>4 DEF Oracles!Store
  <2> QED BY <1>5, <1>6, <1>8, <2>1, <2>5 DEF Oracles!ReplayRow, Oracles!ReplayCommit
<1> QED BY <1>7, <1>8
-----------------------------------------------------------------------------
\* As long as the first "count" commits pass compare_commit, the core's rows
\* leave what Spike's log leaves.
LEMMA ReplayedAlike ==
  ASSUME NEW t \in Seq(Oracles!Retirement), NEW logged \in Seq(Oracles!SpikeCommit),
         NEW count \in 0 .. Len(logged), count <= Len(Oracles!Commits(t)),
         \A j \in 1 .. count : ~Oracles!Differs(Oracles!Commits(t)[j], logged[j])
  PROVE  \A k \in 0 .. Len(t) :
           Len(Oracles!Committed(t)[k]) <= count =>
             Oracles!Replayed(t)[k] = Oracles!ReplayedLog(logged)[Len(Oracles!Committed(t)[k])]
<1> DEFINE C == Oracles!Committed(t)
           R == Oracles!Replayed(t)
           L == Oracles!ReplayedLog(logged)
           S == {k \in Nat : k <= Len(t) => (Len(C[k]) <= count => R[k] = L[Len(C[k])])}
<1>1. Len(t) \in Nat /\ Len(logged) \in Nat /\ \A i \in 1 .. Len(t) : t[i] \in Oracles!Retirement
  OBVIOUS
<1>2. \A i \in 1 .. Len(logged) : logged[i] \in Oracles!SpikeCommit
  OBVIOUS
<1>3. ASSUME NEW i \in 0 .. Len(t) PROVE Len(C[i]) \in Nat
  BY <1>1, CommittedSeq
<1>4. C[0] = <<>> /\ R[0] = Oracles!Blank /\ L[0] = Oracles!Blank
  BY <1>1, CommittedStep, ReplayedStep, ReplayedLogStep
<1>5. Oracles!Commits(t) = C[Len(t)]
  BY DEF Oracles!Commits
<1> HIDE DEF C, R, L
<1>6. 0 \in S
  BY <1>4
<1>7. ASSUME NEW k \in Nat, k \in S PROVE k + 1 \in S
  <2> SUFFICES ASSUME k + 1 <= Len(t), Len(C[k + 1]) <= count PROVE R[k + 1] = L[Len(C[k + 1])]
    OBVIOUS
  <2>1. /\ k \in 0 .. Len(t) - 1 /\ k \in 0 .. Len(t) /\ k + 1 \in 0 .. Len(t) /\ k + 1 \in 1 .. Len(t)
        /\ Len(t) \in k + 1 .. Len(t)
    BY <1>1
  <2>2. R[k + 1] = Oracles!ReplayRow(R[k], t[k + 1])
    BY <1>1, <2>1, ReplayedStep DEF R
  <2>3. CASE ~Oracles!IsCommit(t[k + 1])
    <3>1. C[k + 1] = C[k]
      BY <1>1, <2>1, <2>3, CommittedNext DEF C
    <3>2. R[k] = L[Len(C[k])]
      BY <1>7, <2>1, <3>1
    <3>3. Machine(R[k])
      BY <1>1, <2>1, ReplayedMachine DEF R
    <3>4. Oracles!ReplayRow(R[k], t[k + 1]) = R[k]
      BY <1>1, <2>1, <2>3, <3>3, QuietRow
    <3> QED BY <2>2, <3>1, <3>2, <3>4
  <2>4. CASE Oracles!IsCommit(t[k + 1])
    <3> DEFINE n == Len(C[k])
    <3>1. n \in Nat /\ Len(C[k + 1]) = n + 1 /\ C[k + 1][n + 1] = Oracles!Commit(t[k + 1])
      BY <1>1, <2>1, <2>4, CommittedNext DEF C
    <3> HIDE DEF n
    <3>2. n + 1 \in 1 .. count /\ n \in 0 .. Len(logged) - 1 /\ n + 1 \in 1 .. Len(logged) /\ n <= count
      BY <1>1, <3>1
    <3>3. R[k] = L[n]
      BY <1>7, <2>1, <3>2 DEF n
    <3>4. L[n + 1] = Oracles!ReplayCommit(L[n], logged[n + 1])
      BY <1>1, <3>2, ReplayedLogStep DEF L
    <3>5. C[Len(t)][n + 1] = C[k + 1][n + 1]
      <4>1. n + 1 \in 1 .. Len(C[k + 1])
        BY <3>1
      <4>2. \A j \in 1 .. Len(C[k + 1]) : C[Len(t)][j] = C[k + 1][j]
        BY <1>1, <2>1, CommittedStays DEF C
      <4> QED BY <4>1, <4>2
    <3>6. ~Oracles!Differs(Oracles!Commit(t[k + 1]), logged[n + 1])
      BY <1>5, <3>1, <3>2, <3>5
    <3>7. Oracles!ReplayRow(R[k], t[k + 1]) = Oracles!ReplayCommit(R[k], logged[n + 1])
      BY <1>1, <1>2, <2>1, <3>2, <3>6, CommitReplaysAlike
    <3> QED BY <2>2, <3>1, <3>3, <3>4, <3>7
  <2> QED BY <2>3, <2>4
<1> HIDE DEF S
<1>8. Nat \subseteq S
  BY <1>6, <1>7, InductionOnSet
<1> QED BY <1>1, <1>8 DEF S, C, R, L

\* What AcceptedDidTheSame says of one trace and one logged.
DidTheSame(t, logged) ==
  \E i \in 0 .. Len(t) :
    /\ Oracles!Replayed(t)[i] = Oracles!ReplayedLog(logged)[Oracles!Least(Len(logged), Len(Oracles!Commits(t)))]
    /\ Len(Oracles!Commits(t)) - Len(Oracles!Committed(t)[i]) <= MAX_SUFFIX

\* Of the comparison, what it takes.
Agree(rtl, logged) ==
  LET count == Oracles!Least(Len(rtl), Len(logged))
  IN /\ \A j \in 1 .. count : ~Oracles!Differs(rtl[j], logged[j])
     /\ ~(Len(rtl) > count + MAX_SUFFIX)

LEMMA NoMismatchAgree ==
  ASSUME NEW rtl, NEW logged, NEW rtl_status, NEW terminates,
         Oracles!Mismatch(rtl, logged, rtl_status, terminates) = ""
  PROVE  Agree(rtl, logged)
BY DEF Agree, Oracles!Mismatch

LEMMA AgreeDidTheSame ==
  ASSUME NEW t \in RTL_TRACES, NEW last \in 0 .. Len(SPIKE_LOG),
         Agree(Oracles!Commits(t), SubSeq(SPIKE_LOG, 1, last))
  PROVE  DidTheSame(t, SubSeq(SPIKE_LOG, 1, last))
<1> DEFINE logged == SubSeq(SPIKE_LOG, 1, last)
           rtl == Oracles!Commits(t)
           count == Oracles!Least(Len(rtl), Len(logged))
<1>1. t \in Seq(Oracles!Retirement) /\ Len(t) \in Nat /\ SPIKE_LOG \in Seq(Oracles!SpikeCommit) /\ MAX_SUFFIX \in Nat
  <2>1. SPIKE_LOG \in Seq(Oracles!SpikeCommit) /\ MAX_SUFFIX \in Nat
    BY TracesAssumption DEF TracesAssumption
  <2>2. t \in Seq(Oracles!Retirement)
    BY TracesAssumption DEF TracesAssumption
  <2> QED BY <2>1, <2>2
<1>2. logged \in Seq(Oracles!SpikeCommit) /\ Len(logged) \in Nat
  BY <1>1
<1>3. Len(rtl) \in Nat
  BY <1>1, CommittedSeq DEF Oracles!Commits
<1> HIDE DEF logged, rtl
<1>4. /\ \A j \in 1 .. count : ~Oracles!Differs(rtl[j], logged[j])
      /\ ~(Len(rtl) > count + MAX_SUFFIX)
  BY DEF Agree, logged, rtl
<1>5. count \in 0 .. Len(logged) /\ count \in 0 .. Len(rtl) /\ count <= Len(rtl)
      /\ count = Oracles!Least(Len(logged), Len(rtl))
  BY <1>2, <1>3 DEF Oracles!Least
<1> HIDE DEF count
<1>6. PICK i \in 0 .. Len(t) : Len(Oracles!Committed(t)[i]) = count
  BY <1>1, <1>5, EachCountReached DEF rtl
<1>7. Oracles!Replayed(t)[i] = Oracles!ReplayedLog(logged)[count]
  <2>1. /\ count \in 0 .. Len(logged) /\ count <= Len(Oracles!Commits(t))
        /\ \A j \in 1 .. count : ~Oracles!Differs(Oracles!Commits(t)[j], logged[j])
    BY <1>4, <1>5 DEF rtl
  <2>2. \A k \in 0 .. Len(t) :
          Len(Oracles!Committed(t)[k]) <= count =>
            Oracles!Replayed(t)[k] = Oracles!ReplayedLog(logged)[Len(Oracles!Committed(t)[k])]
    BY <1>1, <1>2, <2>1, ReplayedAlike
  <2>3. count <= count
    BY <1>5
  <2> QED BY <1>6, <2>2, <2>3
<1>8. Len(rtl) - count <= MAX_SUFFIX
  BY <1>1, <1>3, <1>4, <1>5
<1> QED BY <1>5, <1>6, <1>7, <1>8 DEF DidTheSame, logged, rtl

\* Every command forgets the comparison before it, and the nominal one says
\* PASS only of what agrees.
LEMMA AcceptedStep ==
  ASSUME oracle_rows = [c \in Oracles!Command |-> oracle_rows[c]], Oracles!Next
  PROVE  Oracles!AcceptedDidTheSame'
<1>1. CASE compared' = Oracles!Nothing
  BY <1>1 DEF Oracles!AcceptedDidTheSame
<1>2. ASSUME NEW c \in {"iss", "spike", "spike_mpp"}, Oracles!Spike(c), compared' # Oracles!Nothing
      PROVE  Oracles!AcceptedDidTheSame'
  <2>1. c = "iss"
    BY <1>2 DEF Oracles!Spike
  <2> DEFINE Looks(t, last, rtl_status, terminates) ==
        LET mismatch == Oracles!Mismatch(Oracles!Commits(t), SubSeq(SPIKE_LOG, 1, last), rtl_status, terminates)
        IN /\ Oracles!Ends(c,
                {IF tools.spike # "pinned" THEN Oracles!Row("SKIP", "pinned_spike_missing")
                 ELSE Oracles!Row(IF (mismatch # "") = (c \in Oracles!ExpectDetection)
                                  THEN "PASS" ELSE "FAIL", mismatch)})
           /\ compared' = IF c = "iss" THEN [rtl |-> t, spike |-> SubSeq(SPIKE_LOG, 1, last)] ELSE Oracles!Nothing
  <2>2. PICK t \in RTL_TRACES, last \in 0 .. Len(SPIKE_LOG), rtl_status \in {"PASS", "FAIL"}, terminates \in BOOLEAN :
          Looks(t, last, rtl_status, terminates)
    BY <1>2, Zenon DEF Oracles!Spike
  <2> DEFINE mismatch == Oracles!Mismatch(Oracles!Commits(t), SubSeq(SPIKE_LOG, 1, last), rtl_status, terminates)
             verdictRow == IF tools.spike # "pinned" THEN Oracles!Row("SKIP", "pinned_spike_missing")
                           ELSE Oracles!Row(IF (mismatch # "") = ("iss" \in Oracles!ExpectDetection)
                                            THEN "PASS" ELSE "FAIL", mismatch)
  <2>3. "iss" \in Oracles!Command /\ "iss" \notin Oracles!ExpectDetection
    BY DEF Oracles!Command, Oracles!ExpectDetection, Oracles!Oracle
  <2> HIDE DEF mismatch
  <2>4. oracle_rows'["iss"] = {verdictRow}
    <3>1. oracle_rows' = [oracle_rows EXCEPT !["iss"] = {verdictRow}]
      BY <2>1, <2>2 DEF Oracles!Ends, mismatch
    <3>2. oracle_rows = [d \in Oracles!Command |-> oracle_rows[d]]
      OBVIOUS
    <3> HIDE DEF verdictRow
    <3> QED BY <2>3, <3>1, <3>2
  <2>5. compared' = [rtl |-> t, spike |-> SubSeq(SPIKE_LOG, 1, last)]
    BY <2>1, <2>2
  <2>6. CASE mismatch = "" /\ tools.spike = "pinned"
    <3>1. DidTheSame(t, SubSeq(SPIKE_LOG, 1, last))
      <4>1. Agree(Oracles!Commits(t), SubSeq(SPIKE_LOG, 1, last))
        BY <2>6, NoMismatchAgree DEF mismatch
      <4> QED BY <4>1, AgreeDidTheSame
    <3> QED BY <2>5, <3>1 DEF DidTheSame, Oracles!AcceptedDidTheSame
  <2>7. CASE ~(mismatch = "" /\ tools.spike = "pinned")
    <3>1. verdictRow.status # "PASS"
      BY <2>3, <2>7 DEF Oracles!Row
    <3>2. ~Oracles!Some(oracle_rows'["iss"], "PASS")
      BY <2>4, <3>1 DEF Oracles!Some
    <3> QED BY <3>2 DEF Oracles!AcceptedDidTheSame
  <2> QED BY <2>6, <2>7
<1>3. compared' = Oracles!Nothing \/ \E c \in {"iss", "spike", "spike_mpp"} : Oracles!Spike(c)
  BY DEF Oracles!Next, Oracles!CheckTools, Oracles!Local, Oracles!Matrix, Oracles!Raise, Oracles!Act, Oracles!Formal
<1> QED BY <1>1, <1>2, <1>3

\* A core that the nominal Spike comparison accepts left registers and memory
\* as Spike did, but for at most MAX_SUFFIX commits at its end that Spike did
\* not reach: for every program, trace and log, and wherever the log is cut
\* short (run_external_iss.py).
THEOREM AcceptedCoreDidTheSame == Oracles!Spec => []Oracles!AcceptedDidTheSame
<1>1. Oracles!Init => Oracles!AcceptedDidTheSame
  BY DEF Oracles!Init, Oracles!AcceptedDidTheSame
<1>2. RequiredInv /\ Oracles!AcceptedDidTheSame /\ [Oracles!Next]_(Oracles!vars) => Oracles!AcceptedDidTheSame'
  <2>1. CASE UNCHANGED Oracles!vars
    BY <2>1 DEF Oracles!vars, Oracles!AcceptedDidTheSame
  <2> QED BY <2>1, AcceptedStep DEF RequiredInv
<1> QED BY <1>1, <1>2, RequiredInit, RequiredStep, PTL DEF Oracles!Spec

-----------------------------------------------------------------------------
(* The composition: a part that does not move stutters.                       *)

LEMMA PartSteps ==
  [EvidenceNext]_evidenceVars =>
    /\ [Next]_vars
    /\ [Stress!Next]_(Stress!vars)
    /\ [Oracles!Next]_(Oracles!vars)
    /\ [Rvfi!Next]_(Rvfi!vars)
    /\ [Firmware!Next]_(Firmware!vars)
    /\ [Pub!Next]_(Pub!vars)
    /\ part' = part
<1>1. UNCHANGED stressVars => UNCHANGED Stress!vars
  BY DEF stressVars, Stress!vars, Stress!child
<1>2. UNCHANGED oracleVars => UNCHANGED Oracles!vars
  BY DEF oracleVars, Oracles!vars
<1>3. UNCHANGED rvfiVars => UNCHANGED Rvfi!vars
  BY DEF rvfiVars, Rvfi!vars
<1>4. UNCHANGED laneVars => UNCHANGED Firmware!vars
  BY DEF laneVars, Firmware!vars
<1>5. UNCHANGED pubVars => UNCHANGED Pub!vars
  BY DEF pubVars, Pub!vars
<1>6. UNCHANGED gateVars => UNCHANGED vars
  BY DEF gateVars
<1> QED BY <1>1, <1>2, <1>3, <1>4, <1>5, <1>6 DEF EvidenceNext, evidenceVars

LEMMA PartsBehave ==
  EvidenceSpec =>
    /\ Spec /\ Stress!Spec /\ Oracles!Spec /\ Rvfi!Spec /\ Firmware!Spec /\ Pub!Spec
    /\ [](part \in {"gate", "stress", "oracles", "rvfi", "firmware", "metrics"})
<1> DEFINE Part == part \in {"gate", "stress", "oracles", "rvfi", "firmware", "metrics"}
<1>1. EvidenceInit => /\ Part /\ Init /\ Stress!Init /\ Oracles!Init /\ Rvfi!Init /\ Firmware!Init
                      /\ Pub!Init
  BY DEF EvidenceInit
<1>2. Part /\ [EvidenceNext]_evidenceVars => Part'
  BY PartSteps
<1> QED BY <1>1, <1>2, PartSteps, PTL
      DEF EvidenceSpec, Spec, Stress!Spec, Oracles!Spec, Rvfi!Spec, Firmware!Spec, Pub!Spec

\* Whatever the core's trace shows, a checker that has not complained of an
\* unaltered one was followed to the state of the core (rv32_iss.py), also
\* among the other scripts.
THEOREM CheckerFollowsCore == EvidenceSpec => []FollowsCore
<1>1. Rvfi!Spec => []Rvfi!FollowsCore
  BY Rvfi!ReplayFollowsCore
<1>2. Rvfi!FollowsCore => FollowsCore
  BY DEF FollowsCore
<1> QED BY <1>1, <1>2, PartsBehave, PTL

\* A green recipe of oracles has skipped none that it requires, and the
\* mutation matrix judged reports of its own recipe only (Makefile,
\* run_external_mutation_matrix.py), also among the other scripts.
THEOREM GreenOraclesRequired == EvidenceSpec => []GreenIsRequired
<1>1. Oracles!Spec => [](Oracles!GreenIsRequired /\ Oracles!MatrixIsFresh)
  BY GreenRecipeIsRequired, MatrixReadsFreshReports, PTL
<1>2. Oracles!GreenIsRequired /\ Oracles!MatrixIsFresh => GreenIsRequired
  BY DEF GreenIsRequired
<1> QED BY <1>1, <1>2, PartsBehave, PTL

\* A core that the nominal Spike comparison accepts did what Spike did
\* (run_external_iss.py), also among the other scripts.
THEOREM AcceptedCoresBehaved == EvidenceSpec => []AcceptedDidTheSame
<1>1. Oracles!AcceptedDidTheSame => AcceptedDidTheSame
  BY DEF AcceptedDidTheSame
<1> QED BY <1>1, AcceptedCoreDidTheSame, PartsBehave, PTL

-----------------------------------------------------------------------------
(* The random stress matrix.                                                 *)

FamilyName == {"random_smoke_25", "stress_retry_50", "power_dma_cross_25"}

\* What a row a family generates looks like: all that the checks depend on.
LEMMA GeneratedRows ==
  ASSUME NEW f \in FamilyName, NEW k \in Stress!Generated(f)
  PROVE  /\ k \in Stress!Knobs /\ k.src_bank \in {0, 1} /\ k.dst_bank \in {0, 1}
         /\ k.dma_len \in {1, 2, 4, 8, 12, 16}
         /\ k.queue_pressure \in {"single", "pair"}
         /\ k.parity_injection # "none" => k.queue_pressure = "single"
         /\ k.test = "random_manifest_scenario" => k.queue_pressure = "single" /\ k.dma_len >= 8
<1>1. PICK d \in Stress!Drawn(f) :
        k = IF d.parity_injection # "none" THEN [d EXCEPT !.queue_pressure = "single"] ELSE d
  BY DEF Stress!Generated
<1> USE DEF Stress!Knobs, Stress!TestOf, Stress!Bank
<1>2. CASE f = "random_smoke_25"
  <2>1. d \in [test : {"random_manifest_scenario"}, src_bank : {0, 1}, dst_bank : {0, 1},
               dma_len : {8, 12, 16}, queue_pressure : {"single"},
               parity_injection : {"none", "src", "dst_maint"}]
    BY <1>2 DEF Stress!Drawn
  <2>2. k = d
    BY <1>1, <2>1
  <2> QED BY <2>1, <2>2
<1>3. CASE f = "stress_retry_50"
  <2>1. d \in [test : {"prbs_retry_backpressure"}, src_bank : {0, 1}, dst_bank : {0, 1},
               dma_len : {1, 2, 4, 8, 12, 16}, queue_pressure : {"single"}, parity_injection : {"none"}]
    BY <1>3 DEF Stress!Drawn
  <2>2. k = d
    BY <1>1, <2>1
  <2> QED BY <2>1, <2>2
<1>4. CASE f = "power_dma_cross_25"
  <2>1. d \in [test : {"power_traffic_cross_test"}, src_bank : {0, 1}, dst_bank : {0, 1},
               dma_len : {4}, queue_pressure : {"pair"}, parity_injection : {"none"}]
    BY <1>4 DEF Stress!Drawn
  <2>2. k = d
    BY <1>1, <2>1
  <2> QED BY <2>1, <2>2
<1> QED BY <1>2, <1>3, <1>4 DEF FamilyName

LEMMA GeneratedValid ==
  ASSUME NEW f \in FamilyName, NEW k \in Stress!Generated(f)
  PROVE  Stress!Valid(k)
BY GeneratedRows DEF Stress!Valid, Stress!BaseForBank, Stress!Scratchpad

\* The descriptors of a row with at most sixteen words each.
LEMMA DescriptorsDisjoint ==
  ASSUME NEW k, k.src_bank \in {0, 1}, k.dst_bank \in {0, 1}, k.dma_len \in {1, 2, 4, 8, 12, 16},
         NEW d \in Stress!Descriptors(k)
  PROVE  /\ d.src \cup d.dst \subseteq 0 .. Stress!Scratchpad - 1
         /\ d.src \cap d.dst = {}
         /\ \A e \in Stress!Descriptors(k) \ {d} : (d.src \cup d.dst) \cap (e.src \cup e.dst) = {}
<1> DEFINE src == 8 + k.src_bank
           dst == 128 + k.dst_bank
           n == k.dma_len
           first == [src |-> src .. src + n - 1, dst |-> dst .. dst + n - 1]
           second == [src |-> src + 32 .. src + 32 + n - 1, dst |-> dst + 32 .. dst + 32 + n - 1]
<1>1. Stress!Descriptors(k) \subseteq {first, second}
  BY DEF Stress!Descriptors, Stress!BaseForBank, Stress!Second, Stress!Words
<1>2. src \in 8 .. 9 /\ dst \in 128 .. 129 /\ n \in 1 .. 16
  OBVIOUS
<1> HIDE DEF src, dst, n
<1>3. /\ first.src \cup first.dst \subseteq 0 .. 255 /\ second.src \cup second.dst \subseteq 0 .. 255
      /\ first.src \cap first.dst = {} /\ second.src \cap second.dst = {}
      /\ (first.src \cup first.dst) \cap (second.src \cup second.dst) = {}
  BY <1>2
<1>4. Stress!Scratchpad - 1 = 255
  BY DEF Stress!Scratchpad
<1> HIDE DEF first, second
<1> QED BY <1>1, <1>3, <1>4

-----------------------------------------------------------------------------
\* The family it is at is one of the list, and there is a row for each it is
\* past; the row at hand is of some family, and its descriptors are its own.
StressEntry ==
  [family : FamilyName, returncode : {"zero", "nonzero", "none"}, file : {"none", "met", "unmet"},
   meets : BOOLEAN, bucket : {"runner_error", "none", "classified"}]

StressInv ==
  /\ phase \in {"idle", "select", "child", "collect"}
  /\ at \in 1 .. Len(FAMILIES)
  /\ results \in Seq(StressEntry)
  /\ phase # "idle" => Len(results) = at - 1
  /\ Len(results) <= Len(FAMILIES)
  /\ DOMAIN file = {FAMILIES[i] : i \in 1 .. Len(FAMILIES)}
  /\ \A f \in DOMAIN file : file[f] \in {"none", "met", "unmet"}
  /\ exit \in {"zero", "nonzero", "none"}
  /\ code \in {"none", "raised", "zero", "one"}
  /\ \/ chosen = Stress!NoRow /\ dma = {}
     \/ /\ \E f \in FamilyName : chosen \in Stress!Generated(f)
        /\ dma = Stress!Descriptors(chosen)

LEMMA FamilyAt ==
  ASSUME at \in 1 .. Len(FAMILIES)
  PROVE  Stress!Family \in FamilyName /\ Len(FAMILIES) \in Nat \ {0}
         /\ Stress!Family \in {FAMILIES[i] : i \in 1 .. Len(FAMILIES)}
BY FamiliesAssumption DEF Stress!Family, FamilyName

LEMMA StressInit == Stress!Init => StressInv
<1>1. Len(FAMILIES) \in Nat \ {0}
  BY FamiliesAssumption
<1> QED BY <1>1 DEF Stress!Init, Stress!Child!Init, StressInv

LEMMA StressStep == StressInv /\ [Stress!Next]_(Stress!vars) => StressInv'
<1> SUFFICES ASSUME StressInv, [Stress!Next]_(Stress!vars) PROVE StressInv'
  OBVIOUS
<1>0. Len(FAMILIES) \in Nat \ {0} /\ at \in Nat
  BY FamilyAt DEF StressInv
<1>1. CASE Stress!Start
  BY <1>0, <1>1 DEF StressInv, Stress!Start, Stress!child
<1>2. CASE Stress!Select
  <2>1. \E f \in FamilyName : chosen' \in Stress!Generated(f)
    BY <1>2, FamilyAt DEF StressInv, Stress!Select
  <2> QED BY <1>2, <2>1 DEF StressInv, Stress!Select, Stress!Child!Begin
<1>3. CASE Stress!TooFewRows
  BY <1>3 DEF StressInv, Stress!TooFewRows, Stress!child
<1>4. CASE Stress!ChildPublishes
  <2>1. report' \in {"none", "met", "unmet"} /\ exit' = exit
    BY <1>4 DEF Stress!ChildPublishes, Stress!Child!Publish
  <2> QED BY <1>4, <2>1 DEF StressInv, Stress!ChildPublishes
<1>5. CASE Stress!ChildExits
  BY <1>5 DEF StressInv, Stress!ChildExits, Stress!Child!Succeed, Stress!Child!Fail
<1>6. CASE Stress!Collect
  <2> DEFINE entry == [family |-> Stress!Family, returncode |-> exit, file |-> file[Stress!Family],
                       meets |-> file[Stress!Family] = "met",
                       bucket |-> CASE file[Stress!Family] = "none" -> "runner_error"
                                    [] file[Stress!Family] = "met" -> "none"
                                    [] OTHER -> "classified"]
  <2>1. Stress!Family \in FamilyName /\ file[Stress!Family] \in {"none", "met", "unmet"}
    BY FamilyAt DEF StressInv
  <2>2. entry \in StressEntry
    BY <2>1 DEF StressInv, StressEntry
  <2> HIDE DEF entry
  <2>3. /\ results' = Append(results, entry) /\ chosen' = Stress!NoRow /\ dma' = {}
        /\ phase = "collect" /\ UNCHANGED <<running, report, exit, file>>
    BY <1>6 DEF Stress!Collect, Stress!child, entry
  <2>4. results' \in Seq(StressEntry) /\ Len(results') = at
    BY <1>0, <2>2, <2>3 DEF StressInv
  <2>5. \/ at < Len(FAMILIES) /\ at' = at + 1 /\ phase' = "select" /\ code' = code
        \/ phase' = "idle" /\ at' = at /\ code' \in {"zero", "one"}
    BY <1>6 DEF Stress!Collect
  <2> QED BY <1>0, <2>3, <2>4, <2>5 DEF StressInv
<1>7. CASE UNCHANGED Stress!vars
  BY <1>7 DEF StressInv, Stress!vars, Stress!child
<1> QED BY <1>1, <1>2, <1>3, <1>4, <1>5, <1>6, <1>7 DEF Stress!Next

LEMMA StressHolds == Stress!Spec => [](Stress!TypeOK /\ Stress!GeneratedIsValid /\ Stress!DescriptorsApart)
<1>1. StressInv => Stress!TypeOK
  <2> SUFFICES ASSUME StressInv PROVE chosen \in Stress!Knobs \cup {Stress!NoRow}
    BY DEF StressInv, Stress!TypeOK
  <2> QED BY GeneratedRows DEF StressInv
<1>2. StressInv => Stress!GeneratedIsValid
  BY FamilyAt, GeneratedValid DEF StressInv, Stress!GeneratedIsValid
<1>3. StressInv => Stress!DescriptorsApart
  <2> SUFFICES ASSUME StressInv, NEW f \in FamilyName, chosen \in Stress!Generated(f),
                      dma = Stress!Descriptors(chosen)
               PROVE  Stress!DescriptorsApart
    BY DEF StressInv, Stress!DescriptorsApart
  <2>1. chosen.src_bank \in {0, 1} /\ chosen.dst_bank \in {0, 1} /\ chosen.dma_len \in {1, 2, 4, 8, 12, 16}
    BY GeneratedRows
  <2> QED BY <2>1, DescriptorsDisjoint DEF Stress!DescriptorsApart
<1> QED BY <1>1, <1>2, <1>3, StressInit, StressStep, PTL DEF Stress!Spec

\* For every choice and every order of the families: nothing the generator of
\* manifests makes is refused by the checker written apart from it, and the DMA
\* descriptors that a row programs share no word and stay inside the
\* scratchpads (gen_seeded_scenarios.py, run_random_stress_matrix.py).
THEOREM GeneratedManifestsSound == EvidenceSpec => []ManifestsSound
<1>1. Stress!TypeOK /\ Stress!GeneratedIsValid /\ Stress!DescriptorsApart => ManifestsSound
  BY DEF ManifestsSound
<1> QED BY <1>1, StressHolds, PartsBehave, PTL

-----------------------------------------------------------------------------
(* The published numbers.                                                    *)

\* The files a command may write, and those it vouches for when it succeeds:
\* every row as expected, stamped with this make and this command.
Writes(c) ==
  CASE c \in {"closure", "power_regress", "bug_validate"} -> {"regress", "coverage", "power"}
    [] c = "negative" -> {"negative_regress"}
    [] c = "negative_summary" -> {"negative"}
    [] c = "cross" -> {"true_cross"}
    [] c = "bounded" -> {"formal"}
    [] c \in {"axi_lite", "credit_mgr_edges"} -> {"benches", "axi_lite"}
    [] c \in {"solver", "async_cdc", "uvm_ci", "rv32m_random", "rv32m_compiler", "rv32m_formal"} -> {c}
    [] c = "rv32m_unit" -> {"rv32m_directed", "rv32m_coverage"}
    [] c = "rv32m_mutations" -> {"rv32m_mutation"}
    [] c = "firmware_soc" -> {"firmware", "firmware_coverage"}
    [] c = "firmware_c_check" -> {"firmware_c_directed"}
    [] c = "firmware_c_closure" -> {"firmware_c", "firmware_c_random"}
    [] OTHER -> {}

Vouches(c) ==
  CASE c \in {"power_regress", "bug_validate"} -> {"regress"}
    [] c \in {"negative", "cross", "solver", "axi_lite", "credit_mgr_edges", "firmware_c_check"} -> {}
    [] OTHER -> Writes(c)

RowShown(row, case, c) ==
  row.status = Pub!Expected(case) /\ row.make = pub_makes /\ row.command = c

Shows(rows, c) ==
  DOMAIN rows # {} /\ \A case \in DOMAIN rows : RowShown(rows[case], case, c)

Statuses == {"PASS", "FAIL", "SKIP", "MISSING", "NOT_RUN", "deferred"}

Judges(s) == \A case \in DOMAIN s : s[case] \in Statuses

RowsTyped(rows) ==
  \A case \in DOMAIN rows :
    /\ rows[case].status \in Statuses
    /\ rows[case].make \in 0 .. pub_makes

\* What a command that has succeeded leaves, until the recipe ends.
Stands(c) ==
  /\ \A f \in Vouches(c) : Shows(pub_report[f], c)
  /\ c = "closure" => "bug" \in DOMAIN pub_report["regress"]
  /\ c = "metrics" => table = Pub!Table
  /\ c = "readme" => \A m \in Pub!Selected : snapshot[m] = table[m]

\* A command that ends, well or not.
Effect(c, ok) ==
  /\ Pub!Now(c) /\ Pub!Ends(ok)
  /\ pub_report' = [f \in Pub!File |-> pub_report'[f]]
  /\ \A f \in Pub!File : RowsTyped(pub_report'[f])
  /\ \A f \in Pub!File \ Writes(c) : pub_report'[f] = pub_report[f]
  /\ c # "metrics" => table' = table
  /\ c # "readme" => snapshot' = snapshot
  /\ DOMAIN table' = DOMAIN Pub!Source /\ DOMAIN snapshot' = Pub!Selected
  /\ ok => Stands(c)'

PubTypes ==
  /\ pub_makes \in 0 .. MAKES /\ pub_target \in Pub!Target
  /\ pub_verdict \in {"running", "red", "green"}
  /\ pub_report = [f \in Pub!File |-> pub_report[f]]
  /\ \A f \in Pub!File : RowsTyped(pub_report[f])
  /\ DOMAIN table = DOMAIN Pub!Source /\ DOMAIN snapshot = Pub!Selected

-----------------------------------------------------------------------------
LEMMA FilesOfCommands == \A c : Writes(c) \subseteq Pub!File /\ Vouches(c) \subseteq Writes(c)
BY DEF Writes, Vouches, Pub!File

LEMMA PubRows ==
  ASSUME PubTypes, NEW c, Pub!Now(c), NEW s, Judges(s)
  PROVE  /\ DOMAIN Pub!Rows(s) = DOMAIN s /\ RowsTyped(Pub!Rows(s))
         /\ DOMAIN s # {} /\ Pub!AllMet(s) => Shows(Pub!Rows(s), c)
BY DEF PubTypes, Pub!Now, Pub!Rows, Pub!Row, Pub!AllMet, RowsTyped, Shows, RowShown, Judges

LEMMA LeavesEffect ==
  ASSUME PubTypes, NEW c, c \notin {"metrics", "readme"}, Pub!Now(c), NEW left, NEW ok, Pub!Leaves(left, ok),
         DOMAIN left \subseteq Writes(c),
         \A f \in DOMAIN left : RowsTyped(left[f]),
         ok => \A f \in Vouches(c) : f \in DOMAIN left /\ Shows(left[f], c),
         c = "closure" /\ ok => "bug" \in DOMAIN left["regress"]
  PROVE  Effect(c, TRUE) \/ Effect(c, FALSE)
<1>1. /\ pub_report' = [f \in Pub!File |-> IF f \in DOMAIN left THEN left[f] ELSE pub_report[f]]
      /\ table' = table /\ snapshot' = snapshot /\ pub_makes' = pub_makes
  BY DEF Pub!Leaves, Pub!Ends
<1>2. /\ pub_report' = [f \in Pub!File |-> pub_report'[f]]
      /\ \A f \in Pub!File : RowsTyped(pub_report'[f])
      /\ \A f \in Pub!File \ Writes(c) : pub_report'[f] = pub_report[f]
  BY <1>1 DEF PubTypes
<1>3. ASSUME ok PROVE Stands(c)'
  <2>1. \A f \in Vouches(c) : pub_report'[f] = left[f] /\ Shows(left[f], c)
    BY <1>1, <1>3, FilesOfCommands
  <2>2. \A f \in Vouches(c) : Shows(pub_report[f], c)'
    BY <1>1, <2>1 DEF Shows, RowShown
  <2>3. c = "closure" => "bug" \in DOMAIN pub_report'["regress"]
    BY <1>1, <1>3, <2>1 DEF Vouches, Writes
  <2> QED BY <2>2, <2>3 DEF Stands
<1>4. IF ok THEN Pub!Ends(TRUE) ELSE Pub!Ends(FALSE)
  BY DEF Pub!Leaves, Pub!Ends
<1> QED BY <1>1, <1>2, <1>3, <1>4 DEF Effect, PubTypes

LEMMA DiesEffect ==
  ASSUME PubTypes, NEW c, c \notin {"metrics", "readme"}, Pub!Now(c), Pub!Dies
  PROVE  Effect(c, TRUE) \/ Effect(c, FALSE)
<1>1. DOMAIN <<>> = {}
  OBVIOUS
<1>2. Pub!Leaves(<<>>, FALSE)
  BY DEF Pub!Dies
<1> QED BY <1>1, <1>2, LeavesEffect

LEMMA NothingEffect ==
  ASSUME PubTypes, NEW c \in {"inventory", "upf", "performance", "lint", "normalize", "docs"}, Pub!Now(c),
         NEW ok, Pub!Leaves(<<>>, ok)
  PROVE  Effect(c, TRUE) \/ Effect(c, FALSE)
<1>1. DOMAIN <<>> = {} /\ Vouches(c) = {} /\ c \notin {"metrics", "readme", "closure"}
  BY DEF Vouches, Writes
<1> QED BY <1>1, LeavesEffect

\* The table is a function of the reports.
LEMMA SameTable == pub_report' = pub_report => Pub!Table' = Pub!Table
<1> SUFFICES ASSUME pub_report' = pub_report PROVE Pub!Table' = Pub!Table
  OBVIOUS
<1>1. \A f : Pub!Of(f)' = Pub!Of(f)
  BY DEF Pub!Of
<1>2. Pub!CompiledScenarios' = Pub!CompiledScenarios
  BY <1>1 DEF Pub!CompiledScenarios
<1>3. Pub!Source' = Pub!Source
  BY <1>1, <1>2 DEF Pub!Source
<1>4. \A rows : Pub!Value(rows)' = Pub!Value(rows)
  BY DEF Pub!Value
<1> QED BY <1>3, <1>4 DEF Pub!Table

\* A command that writes one file.
OneFile(c, f, s, left, ok) ==
  /\ Pub!Now(c) /\ c \notin {"metrics", "readme", "closure"}
  /\ f \in Writes(c) /\ Vouches(c) \subseteq {f}
  /\ Judges(s)
  /\ ok /\ Vouches(c) # {} => DOMAIN s # {} /\ Pub!AllMet(s)
  /\ DOMAIN left = {f} /\ left[f] = Pub!Rows(s)
  /\ Pub!Leaves(left, ok)

LEMMA OneFileEffect ==
  ASSUME PubTypes, NEW c, NEW f, NEW s, NEW left, NEW ok, OneFile(c, f, s, left, ok)
  PROVE  Effect(c, TRUE) \/ Effect(c, FALSE)
<1>1. /\ DOMAIN Pub!Rows(s) = DOMAIN s /\ RowsTyped(Pub!Rows(s))
      /\ DOMAIN s # {} /\ Pub!AllMet(s) => Shows(Pub!Rows(s), c)
  BY PubRows DEF OneFile
<1>2. ok => \A g \in Vouches(c) : g \in DOMAIN left /\ Shows(left[g], c)
  BY <1>1 DEF OneFile
<1>3. /\ DOMAIN left \subseteq Writes(c)
      /\ \A g \in DOMAIN left : RowsTyped(left[g])
      /\ c = "closure" /\ ok => "bug" \in DOMAIN left["regress"]
  BY <1>1 DEF OneFile
<1>4. Pub!Now(c) /\ c \notin {"metrics", "readme"} /\ Pub!Leaves(left, ok)
  BY DEF OneFile
<1> QED BY <1>2, <1>3, <1>4, LeavesEffect

LEMMA PubEffect ==
  ASSUME PubTypes, Pub!Next, ~ \E t \in Pub!Target : Pub!Make(t)
  PROVE  \E c : Effect(c, TRUE) \/ Effect(c, FALSE)
<1> DEFINE Ended == \E c : Effect(c, TRUE) \/ Effect(c, FALSE)
<1> SUFFICES Ended
  OBVIOUS
<1>0. \A c : Effect(c, TRUE) \/ Effect(c, FALSE) => Ended
  OBVIOUS
<1> HIDE DEF Ended
<1>1. ASSUME NEW c \in {"closure", "power_regress", "bug_validate", "negative"}, Pub!Regress(c) PROVE Ended
  <2>1. CASE Pub!Dies
    BY <1>0, <1>1, <2>1, DiesEffect DEF Pub!Regress
  <2>2. CASE ~ Pub!Dies
    <3>1. PICK s \in Pub!Judged(Pub!SuiteCases(c)), bins \in Pub!Judged({"bins"}), low \in Pub!Judged({"states"}) :
            IF c = "negative"
            THEN Pub!Leaves([negative_regress |-> Pub!Rows(s)], Pub!AllMet(s))
            ELSE Pub!Leaves([regress |-> Pub!Rows(s), coverage |-> Pub!Rows(bins), power |-> Pub!Rows(low)],
                            Pub!AllMet(s) /\ (c = "closure" => Pub!AllMet(bins) /\ Pub!AllMet(low)))
      BY <1>1, <2>2 DEF Pub!Regress
    <3>2. /\ Judges(s) /\ Judges(bins) /\ Judges(low)
          /\ DOMAIN s = Pub!SuiteCases(c) /\ DOMAIN bins = {"bins"} /\ DOMAIN low = {"states"}
          /\ s \in [Pub!SuiteCases(c) -> {"PASS", "FAIL"}] /\ Pub!SuiteCases(c) # {}
          /\ c = "closure" => "bug" \in Pub!SuiteCases(c)
          /\ bins \in [{"bins"} -> {"PASS", "FAIL"}] /\ low \in [{"states"} -> {"PASS", "FAIL"}]
      BY DEF Pub!Judged, Pub!SuiteCases, Judges, Statuses
    <3>3. Pub!Now(c)
      BY <1>1 DEF Pub!Regress
    <3>4. CASE c = "negative"
      <4> DEFINE left == [negative_regress |-> Pub!Rows(s)]
                 ok == Pub!AllMet(s)
      <4>1. Pub!Leaves(left, ok)
        BY <3>1, <3>4
      <4>2. DOMAIN left = {"negative_regress"} /\ left["negative_regress"] = Pub!Rows(s) /\ Judges(s)
        BY <3>2 DEF Judges, Statuses
      <4> HIDE DEF left, ok
      <4>3. OneFile(c, "negative_regress", s, left, ok)
        BY <3>3, <3>4, <4>1, <4>2 DEF OneFile, Writes, Vouches
      <4> QED BY <1>0, <4>3, OneFileEffect
    <3>5. CASE c # "negative"
      <4> DEFINE left == [regress |-> Pub!Rows(s), coverage |-> Pub!Rows(bins), power |-> Pub!Rows(low)]
                 ok == Pub!AllMet(s) /\ (c = "closure" => Pub!AllMet(bins) /\ Pub!AllMet(low))
      <4>1. DOMAIN left = {"regress", "coverage", "power"} /\ Writes(c) = DOMAIN left
        BY <3>5 DEF Writes
      <4>2. \A f \in DOMAIN left : RowsTyped(left[f])
        BY <3>2, <3>3, <4>1, PubRows
      <4>3. Pub!AllMet(s) => Shows(left["regress"], c)
        BY <3>2, <3>3, PubRows
      <4>4. Pub!AllMet(bins) => Shows(left["coverage"], c)
        BY <3>2, <3>3, PubRows
      <4>5. Pub!AllMet(low) => Shows(left["power"], c)
        BY <3>2, <3>3, PubRows
      <4>6. ok => \A f \in Vouches(c) : f \in DOMAIN left /\ Shows(left[f], c)
        BY <3>5, <4>1, <4>3, <4>4, <4>5 DEF Vouches
      <4>7. c = "closure" => "bug" \in DOMAIN left["regress"]
        BY <3>2, <3>3, PubRows
      <4>8. Pub!Leaves(left, ok)
        BY <3>1, <3>5
      <4> HIDE DEF left, ok
      <4> QED BY <1>0, <3>3, <4>1, <4>2, <4>6, <4>7, <4>8, LeavesEffect
    <3> QED BY <3>4, <3>5
  <2> QED BY <2>1, <2>2
<1>2. CASE Pub!NegativeSummary
  <2> DEFINE s == [c \in {"nominal"} |-> Pub!NegativeStatus(c)]
             left == [negative |-> Pub!Rows(s)]
             ok == Pub!AllMet(s)
  <2>1. Judges(s) /\ DOMAIN s # {}
    BY DEF Pub!NegativeStatus, Judges, Statuses
  <2>2. Pub!Leaves(left, ok) /\ Pub!Now("negative_summary")
    BY <1>2 DEF Pub!NegativeSummary
  <2> HIDE DEF s
  <2>8. DOMAIN left = {"negative"} /\ left["negative"] = Pub!Rows(s) /\ (ok => Pub!AllMet(s))
    OBVIOUS
  <2> HIDE DEF left, ok
  <2>9. OneFile("negative_summary", "negative", s, left, ok)
    BY <2>1, <2>2, <2>8 DEF OneFile, Writes, Vouches
  <2> QED BY <1>0, <2>9, OneFileEffect
<1>3. CASE Pub!TrueCross
  <2>1. PICK s \in [Pub!CrossGroup -> {"PASS", "deferred"}] :
          Pub!Leaves([true_cross |-> Pub!Rows(s)], \E g \in Pub!CrossGroup : s[g] = "PASS")
    BY <1>3 DEF Pub!TrueCross
  <2> DEFINE left == [true_cross |-> Pub!Rows(s)]
             ok == \E g \in Pub!CrossGroup : s[g] = "PASS"
  <2>2. Pub!Leaves(left, ok) /\ Pub!Now("cross") /\ Judges(s)
    BY <1>3, <2>1 DEF Pub!TrueCross, Judges, Statuses
  <2>8. DOMAIN left = {"true_cross"} /\ left["true_cross"] = Pub!Rows(s)
    OBVIOUS
  <2> HIDE DEF left, ok
  <2>9. OneFile("cross", "true_cross", s, left, ok)
    BY <2>2, <2>8 DEF OneFile, Writes, Vouches
  <2> QED BY <1>0, <2>9, OneFileEffect
<1>4. CASE Pub!Bounded
  <2>1. CASE Pub!Dies
    BY <1>0, <1>4, <2>1, DiesEffect DEF Pub!Bounded
  <2>2. CASE ~ Pub!Dies
    <3>1. PICK seen \in [{"nominal", "bug"} -> Pub!Simulation] :
            LET s == [c \in DOMAIN seen |-> Pub!BoundedStatus(seen[c])]
            IN Pub!Leaves([formal |-> Pub!Rows(s)], Pub!AllMet(s))
      BY <1>4, <2>2 DEF Pub!Bounded
    <3> DEFINE s == [c \in DOMAIN seen |-> Pub!BoundedStatus(seen[c])]
               left == [formal |-> Pub!Rows(s)]
               ok == Pub!AllMet(s)
    <3>2. Pub!Leaves(left, ok) /\ Pub!Now("bounded")
      BY <1>4, <3>1 DEF Pub!Bounded
    <3>3. Judges(s) /\ DOMAIN s # {}
      BY DEF Pub!Simulation, Pub!BoundedStatus, Judges, Statuses
    <3> HIDE DEF s
    <3>8. DOMAIN left = {"formal"} /\ left["formal"] = Pub!Rows(s) /\ (ok => Pub!AllMet(s))
      OBVIOUS
    <3> HIDE DEF left, ok
    <3>9. OneFile("bounded", "formal", s, left, ok)
      BY <3>2, <3>3, <3>8 DEF OneFile, Writes, Vouches
    <3> QED BY <1>0, <3>9, OneFileEffect
  <2> QED BY <2>1, <2>2
<1>5. CASE Pub!Solver
  <2>1. CASE Pub!Leaves(<<>>, TRUE)
    <3>1. DOMAIN <<>> = {} /\ Vouches("solver") = {} /\ Pub!Now("solver")
      BY <1>5 DEF Pub!Solver, Vouches
    <3> QED BY <1>0, <2>1, <3>1, LeavesEffect
  <2>2. CASE ~ Pub!Leaves(<<>>, TRUE)
    <3>1. PICK s \in Pub!Judged({"prove", "cover", "mutation"}) :
            Pub!Leaves([solver |-> Pub!Rows(s)], Pub!AllMet(s))
      BY <1>5, <2>2 DEF Pub!Solver
    <3> DEFINE left == [solver |-> Pub!Rows(s)]
               ok == Pub!AllMet(s)
    <3>2. Pub!Leaves(left, ok) /\ Pub!Now("solver")
      BY <1>5, <3>1 DEF Pub!Solver
    <3>3. Judges(s) /\ DOMAIN s # {}
      BY DEF Pub!Judged, Judges, Statuses
    <3>8. DOMAIN left = {"solver"} /\ left["solver"] = Pub!Rows(s) /\ (ok => Pub!AllMet(s))
      OBVIOUS
    <3> HIDE DEF left, ok
    <3>9. OneFile("solver", "solver", s, left, ok)
      BY <3>2, <3>3, <3>8 DEF OneFile, Writes, Vouches
    <3> QED BY <1>0, <3>9, OneFileEffect
  <2> QED BY <2>1, <2>2
<1>6. ASSUME NEW b \in {"axi_lite", "credit_mgr_edges"}, Pub!Bench(b) PROVE Ended
  <2>1. PICK compiled \in BOOLEAN, passed \in BOOLEAN, hit \in SUBSET Pub!AxiPoint, failures \in 0 .. 1 :
          LET status == IF compiled THEN Pub!BenchStatus(b, passed, hit, failures) ELSE "FAIL"
              rows == [c \in {b} \cup DOMAIN pub_report["benches"] |->
                         IF c = b THEN Pub!Row(status) ELSE pub_report["benches"][c]]
          IN Pub!Leaves(IF compiled /\ b = "axi_lite"
                        THEN [benches |-> rows, axi_lite |-> Pub!AxiReport(hit)]
                        ELSE [benches |-> rows],
                        status = "PASS")
    BY <1>6 DEF Pub!Bench
  <2> DEFINE status == IF compiled THEN Pub!BenchStatus(b, passed, hit, failures) ELSE "FAIL"
             rows == [c \in {b} \cup DOMAIN pub_report["benches"] |->
                        IF c = b THEN Pub!Row(status) ELSE pub_report["benches"][c]]
             left == IF compiled /\ b = "axi_lite"
                        THEN [benches |-> rows, axi_lite |-> Pub!AxiReport(hit)]
                        ELSE [benches |-> rows]
  <2>2. status \in {"PASS", "FAIL"}
    BY DEF Pub!BenchStatus
  <2>3. Pub!Leaves(left, status = "PASS")
    BY <2>1
  <2> HIDE DEF status
  <2>4. RowsTyped(rows)
    <3>1. "benches" \in Pub!File
      BY DEF Pub!File
    <3> QED BY <2>2, <3>1 DEF RowsTyped, PubTypes, Pub!Row, Statuses
  <2>5. RowsTyped(Pub!AxiReport(hit))
    BY DEF Pub!AxiReport, PubTypes, RowsTyped, Pub!Rows, Pub!Row, Statuses
  <2> HIDE DEF rows
  <2>6. DOMAIN left \subseteq {"benches", "axi_lite"} /\ \A f \in DOMAIN left : RowsTyped(left[f])
    BY <2>4, <2>5
  <2>7. Writes(b) = {"benches", "axi_lite"} /\ Vouches(b) = {} /\ Pub!Now(b)
    BY <1>6 DEF Writes, Vouches, Pub!Bench
  <2> HIDE DEF left
  <2> QED BY <1>0, <2>3, <2>6, <2>7, LeavesEffect
<1>7. CASE Pub!AsyncCdc
  <2>1. CASE Pub!Dies
    BY <1>0, <1>7, <2>1, DiesEffect DEF Pub!AsyncCdc
  <2>2. CASE ~ Pub!Dies
    <3>1. PICK s \in Pub!Judged({"5:5", "5:7"}) :
            Pub!Leaves([async_cdc |-> Pub!Rows(s)], Pub!AllMet(s))
      BY <1>7, <2>2 DEF Pub!AsyncCdc
    <3> DEFINE left == [async_cdc |-> Pub!Rows(s)]
               ok == Pub!AllMet(s)
    <3>2. Pub!Leaves(left, ok) /\ Pub!Now("async_cdc")
      BY <1>7, <3>1 DEF Pub!AsyncCdc
    <3>3. Judges(s) /\ DOMAIN s # {}
      BY DEF Pub!Judged, Judges, Statuses
    <3>8. DOMAIN left = {"async_cdc"} /\ left["async_cdc"] = Pub!Rows(s) /\ (ok => Pub!AllMet(s))
      OBVIOUS
    <3> HIDE DEF left, ok
    <3>9. OneFile("async_cdc", "async_cdc", s, left, ok)
      BY <3>2, <3>3, <3>8 DEF OneFile, Writes, Vouches
    <3> QED BY <1>0, <3>9, OneFileEffect
  <2> QED BY <2>1, <2>2
<1>8. CASE Pub!UvmCi
  <2>1. CASE Pub!Dies
    BY <1>0, <1>8, <2>1, DiesEffect DEF Pub!UvmCi
  <2>2. CASE ~ Pub!Dies
    <3>1. PICK timed_out \in BOOLEAN, failed \in BOOLEAN, errors \in 0 .. 1, reported \in BOOLEAN :
            LET s == [prbs |-> Pub!UvmStatus(timed_out, failed, errors)]
            IN Pub!Leaves([uvm_ci |-> Pub!Rows(s)], reported /\ Pub!AllMet(s))
      BY <1>8, <2>2 DEF Pub!UvmCi
    <3> DEFINE s == [prbs |-> Pub!UvmStatus(timed_out, failed, errors)]
               left == [uvm_ci |-> Pub!Rows(s)]
               ok == reported /\ Pub!AllMet(s)
    <3>2. Pub!Leaves(left, ok) /\ Pub!Now("uvm_ci")
      BY <1>8, <3>1 DEF Pub!UvmCi
    <3>3. Judges(s) /\ DOMAIN s # {}
      BY DEF Pub!UvmStatus, Judges, Statuses
    <3> HIDE DEF s
    <3>8. DOMAIN left = {"uvm_ci"} /\ left["uvm_ci"] = Pub!Rows(s) /\ (ok => Pub!AllMet(s))
      OBVIOUS
    <3> HIDE DEF left, ok
    <3>9. OneFile("uvm_ci", "uvm_ci", s, left, ok)
      BY <3>2, <3>3, <3>8 DEF OneFile, Writes, Vouches
    <3> QED BY <1>0, <3>9, OneFileEffect
  <2> QED BY <2>1, <2>2
<1>9. CASE Pub!Rv32mUnit
  <2>1. CASE Pub!Dies
    BY <1>0, <1>9, <2>1, DiesEffect DEF Pub!Rv32mUnit
  <2>2. CASE ~ Pub!Dies
    <3>1. PICK printed \in SUBSET {"mul", "div"}, failed \in BOOLEAN, covered \in BOOLEAN, core_ok \in BOOLEAN :
            \E s \in Pub!Judged(printed) :
              LET good == ~failed /\ printed = {"mul", "div"} /\ Pub!AllMet(s)
                  points == Pub!Rows([classes |-> IF covered THEN "PASS" ELSE "MISSING"])
              IN Pub!Leaves(IF good THEN [rv32m_directed |-> Pub!Rows(s), rv32m_coverage |-> points]
                            ELSE [rv32m_directed |-> Pub!Rows(s)],
                            good /\ covered /\ core_ok)
      BY <1>9, <2>2 DEF Pub!Rv32mUnit
    <3>2. PICK s \in Pub!Judged(printed) :
              LET good == ~failed /\ printed = {"mul", "div"} /\ Pub!AllMet(s)
                  points == Pub!Rows([classes |-> IF covered THEN "PASS" ELSE "MISSING"])
              IN Pub!Leaves(IF good THEN [rv32m_directed |-> Pub!Rows(s), rv32m_coverage |-> points]
                            ELSE [rv32m_directed |-> Pub!Rows(s)],
                            good /\ covered /\ core_ok)
      BY <3>1
    <3> DEFINE good == ~failed /\ printed = {"mul", "div"} /\ Pub!AllMet(s)
               p == [classes |-> IF covered THEN "PASS" ELSE "MISSING"]
               left == IF good THEN [rv32m_directed |-> Pub!Rows(s), rv32m_coverage |-> Pub!Rows(p)]
                       ELSE [rv32m_directed |-> Pub!Rows(s)]
               ok == good /\ covered /\ core_ok
    <3>3. Pub!Leaves(left, ok)
      BY <3>2
    <3>4. Pub!Now("rv32m_unit")
      BY <1>9 DEF Pub!Rv32mUnit
    <3>5. Judges(s) /\ DOMAIN s = printed
      BY DEF Pub!Judged, Judges, Statuses
    <3>6. Judges(p) /\ DOMAIN p = {"classes"} /\ (covered => Pub!AllMet(p))
      BY DEF Judges, Statuses, Pub!AllMet, Pub!Expected
    <3> HIDE DEF p
    <3>7. RowsTyped(Pub!Rows(s)) /\ RowsTyped(Pub!Rows(p))
      BY <3>4, <3>5, <3>6, PubRows
    <3>8. ok => Shows(Pub!Rows(s), "rv32m_unit") /\ Shows(Pub!Rows(p), "rv32m_unit")
      BY <3>4, <3>5, <3>6, PubRows
    <3>9. DOMAIN left \subseteq {"rv32m_directed", "rv32m_coverage"} /\ \A f \in DOMAIN left : RowsTyped(left[f])
      BY <3>7
    <3>10. ok => \A f \in {"rv32m_directed", "rv32m_coverage"} : f \in DOMAIN left /\ Shows(left[f], "rv32m_unit")
      BY <3>8
    <3> HIDE DEF left, ok
    <3>11. Writes("rv32m_unit") = {"rv32m_directed", "rv32m_coverage"} /\ Vouches("rv32m_unit") = Writes("rv32m_unit")
      BY DEF Writes, Vouches
    <3> QED BY <1>0, <3>3, <3>4, <3>9, <3>10, <3>11, LeavesEffect
  <2> QED BY <2>1, <2>2
<1>10. CASE Pub!Rv32mRandom
  <2>1. CASE Pub!Dies
    BY <1>0, <1>10, <2>1, DiesEffect DEF Pub!Rv32mRandom
  <2>2. CASE ~ Pub!Dies
    <3>1. PICK seen \in [{"seed1", "seed2"} -> Pub!Simulation] :
            LET s == [c \in DOMAIN seen |->
                        IF ~seen[c].failed /\ seen[c].said = "PASS" THEN "PASS" ELSE "FAIL"]
            IN Pub!Leaves([rv32m_random |-> Pub!Rows(s)], Pub!AllMet(s))
      BY <1>10, <2>2 DEF Pub!Rv32mRandom
    <3> DEFINE s == [c \in DOMAIN seen |->
                       IF ~seen[c].failed /\ seen[c].said = "PASS" THEN "PASS" ELSE "FAIL"]
               left == [rv32m_random |-> Pub!Rows(s)]
               ok == Pub!AllMet(s)
    <3>2. Pub!Leaves(left, ok) /\ Pub!Now("rv32m_random")
      BY <1>10, <3>1 DEF Pub!Rv32mRandom
    <3>3. Judges(s) /\ DOMAIN s # {}
      BY DEF Judges, Statuses
    <3> HIDE DEF s
    <3>8. DOMAIN left = {"rv32m_random"} /\ left["rv32m_random"] = Pub!Rows(s) /\ (ok => Pub!AllMet(s))
      OBVIOUS
    <3> HIDE DEF left, ok
    <3>9. OneFile("rv32m_random", "rv32m_random", s, left, ok)
      BY <3>2, <3>3, <3>8 DEF OneFile, Writes, Vouches
    <3> QED BY <1>0, <3>9, OneFileEffect
  <2> QED BY <2>1, <2>2
<1>11. CASE Pub!Rv32mCompiler
  <2>1. CASE Pub!Dies
    BY <1>0, <1>11, <2>1, DiesEffect DEF Pub!Rv32mCompiler
  <2>2. CASE ~ Pub!Dies
    <3>1. PICK t \in Pub!Judged({"rv32i", "rv32im"}), m_count \in 0 .. 1 :
            LET s == [t EXCEPT !["rv32im"] = IF m_count = 0 THEN "FAIL" ELSE @]
            IN Pub!Leaves([rv32m_compiler |-> Pub!Rows(s)], Pub!AllMet(s))
      BY <1>11, <2>2 DEF Pub!Rv32mCompiler
    <3> DEFINE s == [t EXCEPT !["rv32im"] = IF m_count = 0 THEN "FAIL" ELSE @]
               left == [rv32m_compiler |-> Pub!Rows(s)]
               ok == Pub!AllMet(s)
    <3>2. Pub!Leaves(left, ok) /\ Pub!Now("rv32m_compiler")
      BY <1>11, <3>1 DEF Pub!Rv32mCompiler
    <3>3. Judges(s) /\ DOMAIN s # {}
      BY DEF Pub!Judged, Judges, Statuses
    <3> HIDE DEF s
    <3>8. DOMAIN left = {"rv32m_compiler"} /\ left["rv32m_compiler"] = Pub!Rows(s) /\ (ok => Pub!AllMet(s))
      OBVIOUS
    <3> HIDE DEF left, ok
    <3>9. OneFile("rv32m_compiler", "rv32m_compiler", s, left, ok)
      BY <3>2, <3>3, <3>8 DEF OneFile, Writes, Vouches
    <3> QED BY <1>0, <3>9, OneFileEffect
  <2> QED BY <2>1, <2>2
<1>12. CASE Pub!Rv32mFormal
  <2>1. CASE Pub!Dies
    BY <1>0, <1>12, <2>1, DiesEffect DEF Pub!Rv32mFormal
  <2>2. CASE ~ Pub!Dies
    <3>1. PICK s \in Pub!Judged({"prove", "cover"}) \cup {[c \in {"prove", "cover"} |-> "SKIP"]} :
            Pub!Leaves([rv32m_formal |-> Pub!Rows(s)], Pub!AllMet(s))
      BY <1>12, <2>2 DEF Pub!Rv32mFormal
    <3> DEFINE left == [rv32m_formal |-> Pub!Rows(s)]
               ok == Pub!AllMet(s)
    <3>2. Pub!Leaves(left, ok) /\ Pub!Now("rv32m_formal")
      BY <1>12, <3>1 DEF Pub!Rv32mFormal
    <3>3. Judges(s) /\ DOMAIN s # {}
      BY DEF Pub!Judged, Judges, Statuses
    <3>8. DOMAIN left = {"rv32m_formal"} /\ left["rv32m_formal"] = Pub!Rows(s) /\ (ok => Pub!AllMet(s))
      OBVIOUS
    <3> HIDE DEF left, ok
    <3>9. OneFile("rv32m_formal", "rv32m_formal", s, left, ok)
      BY <3>2, <3>3, <3>8 DEF OneFile, Writes, Vouches
    <3> QED BY <1>0, <3>9, OneFileEffect
  <2> QED BY <2>1, <2>2
<1>13. CASE Pub!Rv32mMutations
  <2>1. CASE Pub!Dies
    BY <1>0, <1>13, <2>1, DiesEffect DEF Pub!Rv32mMutations
  <2>2. CASE ~ Pub!Dies
    <3>1. PICK compiled \in [{"div_zero", "rem_sign"} -> BOOLEAN], failed \in [{"div_zero", "rem_sign"} -> BOOLEAN] :
            LET s == [c \in DOMAIN compiled |-> IF compiled[c] /\ failed[c] THEN "PASS" ELSE "FAIL"]
            IN Pub!Leaves([rv32m_mutation |-> Pub!Rows(s)], Pub!AllMet(s))
      BY <1>13, <2>2 DEF Pub!Rv32mMutations
    <3> DEFINE s == [c \in DOMAIN compiled |-> IF compiled[c] /\ failed[c] THEN "PASS" ELSE "FAIL"]
               left == [rv32m_mutation |-> Pub!Rows(s)]
               ok == Pub!AllMet(s)
    <3>2. Pub!Leaves(left, ok) /\ Pub!Now("rv32m_mutations")
      BY <1>13, <3>1 DEF Pub!Rv32mMutations
    <3>3. Judges(s) /\ DOMAIN s # {}
      BY DEF Judges, Statuses
    <3> HIDE DEF s
    <3>8. DOMAIN left = {"rv32m_mutation"} /\ left["rv32m_mutation"] = Pub!Rows(s) /\ (ok => Pub!AllMet(s))
      OBVIOUS
    <3> HIDE DEF left, ok
    <3>9. OneFile("rv32m_mutations", "rv32m_mutation", s, left, ok)
      BY <3>2, <3>3, <3>8 DEF OneFile, Writes, Vouches
    <3> QED BY <1>0, <3>9, OneFileEffect
  <2> QED BY <2>1, <2>2
<1>14. CASE Pub!FirmwareSoc
  <2>1. CASE Pub!Dies
    BY <1>0, <1>14, <2>1, DiesEffect DEF Pub!FirmwareSoc
  <2>2. CASE ~ Pub!Dies
    <3>1. PICK s \in Pub!Judged({"dma_smoke"}), points \in Pub!Judged({"points"}) :
            Pub!Leaves([firmware |-> Pub!Rows(s), firmware_coverage |-> Pub!Rows(points)],
                       Pub!AllMet(s) /\ Pub!AllMet(points))
      BY <1>14, <2>2 DEF Pub!FirmwareSoc
    <3> DEFINE left == [firmware |-> Pub!Rows(s), firmware_coverage |-> Pub!Rows(points)]
               ok == Pub!AllMet(s) /\ Pub!AllMet(points)
    <3>2. Pub!Leaves(left, ok) /\ Pub!Now("firmware_soc")
      BY <1>14, <3>1 DEF Pub!FirmwareSoc
    <3>3. Judges(s) /\ DOMAIN s # {} /\ Judges(points) /\ DOMAIN points # {}
      BY DEF Pub!Judged, Judges, Statuses
    <3>4. RowsTyped(Pub!Rows(s)) /\ RowsTyped(Pub!Rows(points))
      BY <3>2, <3>3, PubRows
    <3>5. ok => Shows(Pub!Rows(s), "firmware_soc") /\ Shows(Pub!Rows(points), "firmware_soc")
      BY <3>2, <3>3, PubRows
    <3>6. /\ DOMAIN left = {"firmware", "firmware_coverage"}
          /\ \A f \in DOMAIN left : RowsTyped(left[f]) /\ (ok => Shows(left[f], "firmware_soc"))
      BY <3>4, <3>5
    <3> HIDE DEF left, ok
    <3>7. Writes("firmware_soc") = DOMAIN left /\ Vouches("firmware_soc") = DOMAIN left
      BY <3>6 DEF Writes, Vouches
    <3> QED BY <1>0, <3>2, <3>6, <3>7, LeavesEffect
  <2> QED BY <2>1, <2>2
<1>15. ASSUME NEW c \in {"firmware_c_check", "firmware_c_closure"}, Pub!FirmwareC(c) PROVE Ended
  <2>1. CASE Pub!Dies
    BY <1>0, <1>15, <2>1, DiesEffect DEF Pub!FirmwareC
  <2>2. CASE ~ Pub!Dies
    <3>1. PICK s \in Pub!Judged({"directed", "seeded"}), covered \in BOOLEAN :
            IF c = "firmware_c_closure"
            THEN \/ /\ Pub!Leaves([firmware_c |-> Pub!Rows(s)], FALSE) /\ ~(Pub!AllMet(s) /\ covered)
                 \/ /\ Pub!Leaves([firmware_c |-> Pub!Rows(s),
                                   firmware_c_random |-> Pub!Rows([x \in {"seeded"} |-> s[x]])], TRUE)
                    /\ Pub!AllMet(s) /\ covered
            ELSE Pub!Leaves([firmware_c_directed |-> Pub!Rows([x \in {"directed"} |-> s[x]])],
                            s["directed"] = "PASS")
      BY <1>15, <2>2 DEF Pub!FirmwareC
    <3>2. Pub!Now(c)
      BY <1>15 DEF Pub!FirmwareC
    <3>3. Judges(s) /\ DOMAIN s = {"directed", "seeded"}
      BY DEF Pub!Judged, Judges, Statuses
    <3> DEFINE seeds == [x \in {"seeded"} |-> s[x]]
               fixed == [x \in {"directed"} |-> s[x]]
    <3>4. /\ Judges(seeds) /\ DOMAIN seeds = {"seeded"} /\ (Pub!AllMet(s) => Pub!AllMet(seeds))
          /\ Judges(fixed)
      BY <3>3 DEF Judges, Pub!AllMet
    <3>5. CASE c = "firmware_c_check"
      <4> DEFINE left == [firmware_c_directed |-> Pub!Rows(fixed)]
                 ok == s["directed"] = "PASS"
      <4>1. Pub!Leaves(left, ok)
        BY <3>1, <3>5
      <4> HIDE DEF fixed
      <4>2. DOMAIN left = {"firmware_c_directed"} /\ left["firmware_c_directed"] = Pub!Rows(fixed)
        OBVIOUS
      <4> HIDE DEF left, ok
      <4>3. OneFile(c, "firmware_c_directed", fixed, left, ok)
        BY <3>2, <3>4, <3>5, <4>1, <4>2 DEF OneFile, Writes, Vouches
      <4> QED BY <1>0, <4>3, OneFileEffect
    <3> HIDE DEF seeds, fixed
    <3>6. RowsTyped(Pub!Rows(s)) /\ RowsTyped(Pub!Rows(seeds))
      BY <3>2, <3>3, <3>4, PubRows
    <3>7. Pub!AllMet(s) => Shows(Pub!Rows(s), c) /\ Shows(Pub!Rows(seeds), c)
      BY <3>2, <3>3, <3>4, PubRows
    <3>8. c = "firmware_c_closure" =>
            /\ Writes(c) = {"firmware_c", "firmware_c_random"} /\ Vouches(c) = Writes(c)
      BY DEF Writes, Vouches
    <3>9. CASE /\ c = "firmware_c_closure" /\ Pub!AllMet(s)
               /\ Pub!Leaves([firmware_c |-> Pub!Rows(s), firmware_c_random |-> Pub!Rows(seeds)], TRUE)
      <4> DEFINE left == [firmware_c |-> Pub!Rows(s), firmware_c_random |-> Pub!Rows(seeds)]
      <4>1. /\ DOMAIN left = {"firmware_c", "firmware_c_random"}
            /\ \A f \in DOMAIN left : RowsTyped(left[f]) /\ Shows(left[f], c)
        BY <3>6, <3>7, <3>9
      <4>2. Pub!Leaves(left, TRUE)
        BY <3>9
      <4> HIDE DEF left
      <4> QED BY <1>0, <3>2, <3>8, <3>9, <4>1, <4>2, LeavesEffect
    <3>10. CASE c = "firmware_c_closure" /\ Pub!Leaves([firmware_c |-> Pub!Rows(s)], FALSE)
      <4> DEFINE left == [firmware_c |-> Pub!Rows(s)]
      <4>1. DOMAIN left = {"firmware_c"} /\ \A f \in DOMAIN left : RowsTyped(left[f])
        BY <3>6
      <4>2. Pub!Leaves(left, FALSE)
        BY <3>10
      <4> HIDE DEF left
      <4> QED BY <1>0, <3>2, <3>8, <3>10, <4>1, <4>2, LeavesEffect
    <3> QED BY <3>1, <3>5, <3>9, <3>10 DEF seeds
  <2> QED BY <2>1, <2>2
<1>16. CASE Pub!Other
  <2>1. PICK c \in {"inventory", "upf", "performance", "lint", "normalize"} : Pub!Now(c)
    BY <1>16 DEF Pub!Other
  <2>2. PICK ok \in BOOLEAN : Pub!Leaves(<<>>, ok)
    BY <1>16 DEF Pub!Other
  <2> QED BY <1>0, <2>1, <2>2, NothingEffect
<1>17. CASE Pub!Docs
  <2>1. PICK ok \in BOOLEAN : Pub!Leaves(<<>>, ok)
    BY <1>17 DEF Pub!Docs
  <2> QED BY <1>0, <1>17, <2>1, NothingEffect DEF Pub!Docs
<1>18. CASE Pub!Metrics
  <2>1. /\ Pub!Now("metrics") /\ table' = Pub!Table /\ Pub!Ends(TRUE)
        /\ pub_report' = pub_report /\ snapshot' = snapshot /\ pub_makes' = pub_makes
    BY <1>18 DEF Pub!Metrics, Pub!Ends
  <2>2. Pub!Table' = Pub!Table
    BY <2>1, SameTable
  <2>3. DOMAIN Pub!Table = DOMAIN Pub!Source
    BY DEF Pub!Table
  <2>4. Stands("metrics")' /\ Writes("metrics") = {}
    BY <2>1, <2>2 DEF Stands, Vouches, Writes
  <2>5. DOMAIN Pub!Source' = DOMAIN Pub!Source
    BY DEF Pub!Source
  <2> QED BY <1>0, <2>1, <2>3, <2>4, <2>5 DEF Effect, PubTypes, RowsTyped
<1>19. CASE Pub!Readme
  <2>1. CASE Pub!Dies
    <3>1. /\ Pub!Now("readme") /\ Pub!Leaves(<<>>, FALSE)
      BY <1>19, <2>1 DEF Pub!Readme, Pub!Dies
    <3>4. DOMAIN <<>> = {}
      OBVIOUS
    <3>2. /\ pub_report' = [f \in Pub!File |-> pub_report[f]]
          /\ table' = table /\ snapshot' = snapshot /\ pub_makes' = pub_makes /\ Pub!Ends(FALSE)
      BY <3>1, <3>4 DEF Pub!Leaves, Pub!Ends
    <3>3. DOMAIN Pub!Source' = DOMAIN Pub!Source
      BY DEF Pub!Source
    <3> QED BY <1>0, <3>1, <3>2, <3>3 DEF Effect, PubTypes, RowsTyped
  <2>2. CASE ~ Pub!Dies
    <3>1. /\ Pub!Now("readme") /\ snapshot' = [m \in Pub!Selected |-> table[m]] /\ Pub!Ends(TRUE)
          /\ pub_report' = pub_report /\ table' = table /\ pub_makes' = pub_makes
      BY <1>19, <2>2 DEF Pub!Readme, Pub!Ends
    <3>2. Stands("readme")' /\ Writes("readme") = {}
      BY <3>1 DEF Stands, Vouches, Writes
    <3>3. DOMAIN Pub!Source' = DOMAIN Pub!Source
      BY DEF Pub!Source
    <3> QED BY <1>0, <3>1, <3>2, <3>3 DEF Effect, PubTypes, RowsTyped
  <2> QED BY <2>1, <2>2
<1> QED
  BY <1>1, <1>2, <1>3, <1>4, <1>5, <1>6, <1>7, <1>8, <1>9, <1>10, <1>11, <1>12, <1>13, <1>14, <1>15,
     <1>16, <1>17, <1>18, <1>19
  DEF Pub!Next

-----------------------------------------------------------------------------
\* What a command vouches for is not disturbed by another that comes after it.
Undisturbed(c, d) ==
  /\ Vouches(c) \cap Writes(d) = {}
  /\ c = "metrics" => d # "metrics" /\ Writes(d) = {}
  /\ c = "readme" => d \notin {"metrics", "readme"}

Command ==
  {"checked_in", "closure", "cross", "negative", "negative_summary", "bounded", "inventory", "upf",
   "firmware_soc", "firmware_c_check", "performance", "metrics", "readme", "docs", "normalize", "lint",
   "power_regress", "bug_validate", "solver", "axi_lite", "credit_mgr_edges", "async_cdc", "uvm_ci",
   "firmware_c_closure", "rv32m_unit", "rv32m_random", "rv32m_compiler", "rv32m_formal", "rv32m_mutations"}

Orderly(S) ==
  /\ S \in Seq(Command) /\ Len(S) \in Nat \ {0}
  /\ \A i, j \in 1 .. Len(S) : i < j => Undisturbed(S[i], S[j])

PubInv ==
  LET S == Pub!Commands(pub_target)
      left == Len(pub_todo)
  IN /\ PubTypes
     /\ pub_todo \in Seq(Command)
     /\ pub_verdict = "running" =>
          /\ left \in 1 .. Len(S)
          /\ \A i \in 1 .. left : pub_todo[i] = S[Len(S) - left + i]
          /\ \A i \in 1 .. Len(S) - left : Stands(S[i])
     /\ pub_verdict = "green" => \A i \in 1 .. Len(S) : Stands(S[i])

Shared == {"power_regress", "bug_validate", "solver", "axi_lite", "credit_mgr_edges"}

\* The one command, but for the shared ones, that writes a file.
Writer(f) ==
  CASE f \in {"regress", "coverage", "power"} -> "closure"
    [] f = "negative_regress" -> "negative"
    [] f = "negative" -> "negative_summary"
    [] f = "true_cross" -> "cross"
    [] f = "formal" -> "bounded"
    [] f \in {"rv32m_directed", "rv32m_coverage"} -> "rv32m_unit"
    [] f = "rv32m_mutation" -> "rv32m_mutations"
    [] f \in {"firmware", "firmware_coverage"} -> "firmware_soc"
    [] f = "firmware_c_directed" -> "firmware_c_check"
    [] f \in {"firmware_c", "firmware_c_random"} -> "firmware_c_closure"
    [] OTHER -> f

LEMMA OneWriter ==
  ASSUME NEW c \in Command \ Shared, NEW f \in Writes(c)
  PROVE  c = Writer(f)
BY DEF Command, Shared, Writes, Writer

\* Commands of one recipe write files of their own, and publish last.
Before(c, d) ==
  /\ c \in Command \ Shared /\ d \in Command \ Shared /\ c # d
  /\ c \in {"metrics", "readme"} => d \in {"readme", "normalize", "docs"}
  /\ c # "readme" \/ d # "metrics"

LEMMA OwnFiles ==
  ASSUME NEW c, NEW d, Before(c, d)
  PROVE  Undisturbed(c, d)
<1>1. Writes(c) \cap Writes(d) = {}
  BY OneWriter DEF Before
<1>2. d \in {"readme", "normalize", "docs"} => Writes(d) = {}
  BY DEF Writes
<1> QED BY <1>1, <1>2, FilesOfCommands DEF Undisturbed, Before

LEMMA RecipesOrderly == \A t \in Pub!Target : Orderly(Pub!Commands(t))
<1> SUFFICES ASSUME NEW t \in Pub!Target PROVE Orderly(Pub!Commands(t))
  OBVIOUS
<1> DEFINE S == Pub!Commands(t)
<1>1. CASE t = "project_check"
  <2>1. S = <<"closure", "cross", "negative", "negative_summary", "bounded", "inventory", "upf",
              "firmware_soc", "firmware_c_check", "performance", "metrics", "readme", "docs", "normalize">>
    BY <1>1 DEF Pub!Commands
  <2> HIDE DEF S
  <2>2. S \in Seq(Command)
    BY <2>1 DEF Command
  <2>3. /\ S[1] = "closure" /\ S[2] = "cross" /\ S[3] = "negative" /\ S[4] = "negative_summary"
        /\ S[5] = "bounded" /\ S[6] = "inventory" /\ S[7] = "upf" /\ S[8] = "firmware_soc"
        /\ S[9] = "firmware_c_check" /\ S[10] = "performance" /\ S[11] = "metrics" /\ S[12] = "readme"
        /\ S[13] = "docs" /\ S[14] = "normalize"
    BY <2>1
  <2>4. Len(S) = 14
    BY <2>1
  <2>5. ASSUME NEW i \in 1 .. 14, NEW j \in 1 .. 14, i < j PROVE Before(S[i], S[j])
    <3>1. S[i] # S[j]
      BY <2>3, <2>5
    <3>2. S[i] \in Command \ Shared /\ S[j] \in Command \ Shared
      BY <2>3 DEF Command, Shared
    <3>3. S[i] \in {"metrics", "readme"} => S[j] \in {"readme", "normalize", "docs"}
      BY <2>3, <2>5
    <3>4. S[i] # "readme" \/ S[j] # "metrics"
      BY <2>3, <2>5
    <3> QED BY <3>1, <3>2, <3>3, <3>4 DEF Before
  <2>6. Orderly(S)
    BY <2>2, <2>4, <2>5, OwnFiles DEF Orderly
  <2> QED BY <2>6 DEF S
<1>2. CASE t = "rv32m_release_check"
  <2>1. S = <<"lint">> \o Pub!Rv32mChecks
    BY <1>2 DEF Pub!Commands, Pub!CommandsOf
  <2> HIDE DEF S
  <2>2. <<"lint">> \in Seq(Command) /\ Pub!Rv32mChecks \in Seq(Command) /\ Len(<<"lint">>) = 1
    BY DEF Command, Pub!Rv32mChecks
  <2>3. S \in Seq(Command)
    BY <2>1, <2>2
  <2>4. Len(Pub!Rv32mChecks) = 5
    BY DEF Pub!Rv32mChecks
  <2>5. Len(S) = 6
    <3>1. Len(S) = Len(<<"lint">>) + Len(Pub!Rv32mChecks)
      BY <2>1, <2>2
    <3> QED BY <2>2, <2>4, <3>1
  <2>6. S[1] = "lint" /\ \A i \in 2 .. 6 : S[i] = Pub!Rv32mChecks[i - 1]
    BY <2>1, <2>2, <2>4
  <2>7. /\ S[1] = "lint" /\ S[2] = "rv32m_unit" /\ S[3] = "rv32m_random" /\ S[4] = "rv32m_compiler"
        /\ S[5] = "rv32m_formal" /\ S[6] = "rv32m_mutations"
    BY <2>6 DEF Pub!Rv32mChecks
  <2>8. ASSUME NEW i \in 1 .. 6, NEW j \in 1 .. 6, i < j PROVE Before(S[i], S[j])
    BY <2>7, <2>8 DEF Before, Command, Shared
  <2>9. Orderly(S)
    BY <2>3, <2>5, <2>8, OwnFiles DEF Orderly
  <2> QED BY <2>9 DEF S
<1>3. CASE t = "publish"
  <2>1. S = <<"metrics", "readme", "normalize", "docs">>
    BY <1>3 DEF Pub!Commands, Pub!CommandsOf
  <2> HIDE DEF S
  <2>2. S \in Seq(Command) /\ Len(S) = 4
    BY <2>1 DEF Command
  <2>3. \A i, j \in 1 .. 4 : i < j => Before(S[i], S[j])
    BY <2>1 DEF Before, Command, Shared
  <2>4. Orderly(S)
    BY <2>2, <2>3, OwnFiles DEF Orderly
  <2> QED BY <2>4 DEF S
<1>5. CASE t = "smoke_ci"
  <2>1. S = <<"readme", "docs">>
    BY <1>5 DEF Pub!Commands, Pub!CommandsOf
  <2> HIDE DEF S
  <2>2. S \in Seq(Command) /\ Len(S) = 2
    BY <2>1 DEF Command
  <2>3. \A i, j \in 1 .. 2 : i < j => Before(S[i], S[j])
    BY <2>1 DEF Before, Command, Shared
  <2>4. Orderly(S)
    BY <2>2, <2>3, OwnFiles DEF Orderly
  <2> QED BY <2>4 DEF S
<1>4. CASE t \in Pub!Single
  <2>1. t \in Command /\ t \notin {"project_check", "rv32m_release_check", "publish", "smoke_ci"}
    BY <1>4 DEF Pub!Single, Command
  <2>2. Pub!Commands(t) = <<t>>
    BY <2>1 DEF Pub!Commands, Pub!CommandsOf
  <2>3. <<t>> \in Seq(Command) /\ Len(<<t>>) = 1
    BY <2>1
  <2> QED BY <2>2, <2>3 DEF Orderly
<1> QED BY <1>1, <1>2, <1>3, <1>4, <1>5 DEF Pub!Target

LEMMA StandsStays ==
  ASSUME PubTypes, NEW c, NEW d, NEW ok, Effect(d, ok), Stands(c), Undisturbed(c, d)
  PROVE  Stands(c)'
<1>1. \A f \in Vouches(c) : pub_report'[f] = pub_report[f]
  BY FilesOfCommands DEF Effect, Undisturbed
<1>2. pub_makes' = pub_makes
  BY DEF Effect, Pub!Ends
<1>3. \A f \in Vouches(c) : Shows(pub_report[f], c)'
  BY <1>1, <1>2 DEF Stands, Shows, RowShown
<1>4. c = "closure" => "bug" \in DOMAIN pub_report'["regress"]
  BY <1>1 DEF Stands, Vouches, Writes
<1>5. ASSUME c = "metrics" PROVE table' = Pub!Table'
  <2>1. pub_report' = pub_report
    BY <1>5 DEF Effect, Undisturbed, PubTypes
  <2> QED BY <1>5, <2>1, SameTable DEF Effect, Undisturbed, Stands
<1>6. c = "readme" => \A m \in Pub!Selected : snapshot'[m] = table'[m]
  BY DEF Effect, Undisturbed, Stands
<1> QED BY <1>3, <1>4, <1>5, <1>6 DEF Stands

LEMMA PubInit == Pub!Init => PubInv
<1> SUFFICES ASSUME Pub!Init PROVE PubInv
  OBVIOUS
<1>1. /\ pub_makes = 0 /\ pub_target = "publish" /\ pub_todo = <<"checked_in">> /\ pub_verdict = "green"
      /\ pub_report = Pub!CheckedIn /\ table = Pub!Table /\ snapshot = [m \in Pub!Selected |-> table[m]]
  BY DEF Pub!Init
<1>2. ASSUME NEW f \in Pub!File PROVE RowsTyped(Pub!CheckedIn[f])
  <2>1. \A s \in Statuses : Pub!Row(s).status \in Statuses /\ Pub!Row(s).make \in 0 .. pub_makes
    BY <1>1 DEF Pub!Row
  <2>2. \A case : Pub!Expected(case) \in Statuses
    BY DEF Pub!Expected, Statuses
  <2>3. "PASS" \in Statuses
    BY DEF Statuses
  <2>4. CASE f \in {"regress", "formal"}
    <3>1. Pub!CheckedIn[f] = [c \in {"nominal", "bug"} |-> Pub!Row(Pub!Expected(c))]
      BY <2>4 DEF Pub!CheckedIn
    <3> QED BY <2>1, <2>2, <3>1 DEF RowsTyped
  <2>5. CASE f \in {"coverage", "power", "solver", "firmware_c", "negative", "async_cdc", "uvm_ci", "firmware"}
    <3>1. \A case \in DOMAIN Pub!CheckedIn[f] : Pub!CheckedIn[f][case] = Pub!Row("PASS")
      BY <2>5 DEF Pub!CheckedIn
    <3> QED BY <2>1, <2>3, <3>1 DEF RowsTyped
  <2>6. CASE f \notin {"regress", "formal", "coverage", "power", "solver", "firmware_c", "negative", "async_cdc",
                      "uvm_ci", "firmware"}
    <3>1. Pub!CheckedIn[f] = <<>> /\ DOMAIN <<>> = {}
      BY <2>6 DEF Pub!CheckedIn
    <3> QED BY <3>1 DEF RowsTyped
  <2> QED BY <2>4, <2>5, <2>6
<1>3. PubTypes
  BY <1>1, <1>2, MakesAssumption DEF PubTypes, Pub!CheckedIn, Pub!Target, Pub!Table, Pub!Selected
<1>4. Pub!Commands(pub_target) = <<"metrics", "readme", "normalize", "docs">>
  BY <1>1 DEF Pub!Commands, Pub!CommandsOf
<1>5. Stands("metrics") /\ Stands("readme") /\ Stands("normalize") /\ Stands("docs")
  BY <1>1 DEF Stands, Vouches, Writes
<1>6. pub_todo \in Seq(Command)
  BY <1>1 DEF Command
<1> QED BY <1>1, <1>3, <1>4, <1>5, <1>6 DEF PubInv

LEMMA PubStep == PubInv /\ [Pub!Next]_pubVars => PubInv'
<1> SUFFICES ASSUME PubInv, [Pub!Next]_pubVars PROVE PubInv'
  OBVIOUS
<1> DEFINE S == Pub!Commands(pub_target)
<1>1. CASE UNCHANGED pubVars
  <2>1. /\ pub_makes' = pub_makes /\ pub_target' = pub_target /\ pub_todo' = pub_todo /\ pub_report' = pub_report
        /\ table' = table /\ snapshot' = snapshot /\ pub_verdict' = pub_verdict
    BY <1>1 DEF pubVars
  <2>2. Pub!Table' = Pub!Table /\ Pub!Commands(pub_target)' = Pub!Commands(pub_target)
    BY <2>1, SameTable DEF Pub!Commands
  <2>3. \A c : Stands(c)' = Stands(c)
    BY <2>1, <2>2 DEF Stands, Shows, RowShown
  <2>4. PubTypes'
    BY <2>1 DEF PubInv, PubTypes, RowsTyped, Pub!Source
  <2> QED BY <2>1, <2>2, <2>3, <2>4 DEF PubInv
<1>2. ASSUME NEW t \in Pub!Target, Pub!Make(t) PROVE PubInv'
  <2>1. /\ pub_makes' = pub_makes + 1 /\ pub_target' = t /\ pub_todo' = Pub!Commands(t) /\ pub_verdict' = "running"
        /\ pub_report' = pub_report /\ table' = table /\ snapshot' = snapshot /\ pub_makes < MAKES
    BY <1>2 DEF Pub!Make
  <2>2. Orderly(Pub!Commands(t)) /\ Pub!Commands(pub_target)' = Pub!Commands(t)
    BY <2>1, RecipesOrderly DEF Pub!Commands
  <2>3. \A f \in Pub!File : RowsTyped(pub_report[f])'
    <3>1. pub_makes \in 0 .. MAKES /\ \A f \in Pub!File : RowsTyped(pub_report[f])
      BY DEF PubInv, PubTypes
    <3> QED BY <2>1, <3>1, MakesAssumption DEF RowsTyped
  <2>4. PubTypes'
    BY <2>1, <2>3, MakesAssumption DEF PubInv, PubTypes, Pub!Source
  <2> QED BY <2>1, <2>2, <2>4 DEF PubInv, Orderly
<1>3. ASSUME NEW c, NEW ok \in BOOLEAN, Effect(c, ok) PROVE PubInv'
  <2> DEFINE left == Len(pub_todo)
             n == Len(S)
  <2>1. /\ pub_verdict = "running" /\ c = Head(pub_todo) /\ pub_target' = pub_target /\ pub_makes' = pub_makes
        /\ pub_todo' = (IF ok THEN Tail(pub_todo) ELSE <<>>)
        /\ pub_verdict' = IF ~ok THEN "red" ELSE IF Len(pub_todo) = 1 THEN "green" ELSE "running"
    BY <1>3 DEF Effect, Pub!Now, Pub!Ends
  <2>2. S' = S /\ Orderly(S)
    BY <2>1, RecipesOrderly DEF Pub!Commands, PubInv, PubTypes
  <2>3. /\ n \in Nat \ {0} /\ left \in 1 .. n /\ pub_todo \in Seq(Command)
        /\ \A i \in 1 .. left : pub_todo[i] = S[n - left + i]
        /\ \A i \in 1 .. n - left : Stands(S[i])
    BY <2>1, <2>2 DEF PubInv, Orderly
  <2>4. PubTypes'
    <3>1. \A f \in Pub!File : RowsTyped(pub_report'[f])
      BY <1>3 DEF Effect
    <3>2. \A f \in Pub!File : RowsTyped(pub_report[f])'
      BY <2>1, <3>1 DEF RowsTyped
    <3> QED BY <1>3, <2>1, <3>2 DEF Effect, PubTypes, PubInv, Pub!Source
  <2>5. CASE ~ ok
    <3>1. <<>> \in Seq(Command)
      OBVIOUS
    <3> QED BY <2>1, <2>4, <2>5, <3>1 DEF PubInv
  <2>6. CASE ok
    <3>1. c = S[n - left + 1]
      BY <2>1, <2>3
    <3>2. Effect(c, TRUE)
      BY <1>3, <2>6
    <3>3. ASSUME NEW d, NEW i \in 1 .. n - left, d = S[i] PROVE Stands(d)'
      <4>1. Stands(d)
        BY <2>3, <3>3
      <4>3. \A x, y \in 1 .. n : x < y => Undisturbed(S[x], S[y])
        BY <2>2 DEF Orderly
      <4>4. n \in Nat /\ left \in 1 .. n
        BY <2>3
      <4>5. Undisturbed(d, c)
        <5> HIDE DEF n, left
        <5>1. i \in 1 .. n /\ n - left + 1 \in 1 .. n /\ i < n - left + 1
          BY <4>4
        <5> QED BY <3>1, <3>3, <4>3, <5>1
      <4>2. PubTypes
        BY DEF PubInv
      <4> QED BY <3>2, <4>1, <4>2, <4>5, StandsStays
    <3>4. Stands(c)'
      BY <3>2 DEF Effect
    <3>8. ASSUME NEW d, NEW i \in 1 .. n - left + 1, d = S[i] PROVE Stands(d)'
      <4>1. CASE i \in 1 .. n - left
        BY <3>3, <3>8, <4>1
      <4>2. CASE i = n - left + 1
        BY <3>1, <3>4, <3>8, <4>2
      <4>3. n \in Nat /\ left \in 1 .. n
        BY <2>3
      <4> HIDE DEF n, left
      <4> QED BY <4>1, <4>2, <4>3
    <3>9. \A i \in 1 .. n - left + 1 : Stands(S[i])'
      BY <2>2, <3>8
    <3>5. /\ Tail(pub_todo) \in Seq(Command) /\ Len(Tail(pub_todo)) = left - 1
          /\ \A i \in 1 .. left - 1 : Tail(pub_todo)[i] = S[n - (left - 1) + i]
      BY <2>3
    <3> HIDE DEF S
    <3>6. CASE left = 1
      <4>1. pub_verdict' = "green" /\ \A i \in 1 .. n : Stands(S[i])'
        BY <2>1, <2>3, <2>6, <3>6, <3>9
      <4> QED BY <2>1, <2>2, <2>4, <2>6, <3>5, <4>1 DEF PubInv, S
    <3>7. CASE left # 1
      <4>1. pub_verdict' = "running" /\ left - 1 \in 1 .. n /\ n - (left - 1) = n - left + 1
        <5>1. n \in Nat /\ left \in 1 .. n /\ left # 1
          BY <2>3, <3>7
        <5>2. pub_verdict' = "running"
          BY <2>1, <2>6, <3>7
        <5> HIDE DEF left, n
        <5> QED BY <5>1, <5>2
      <4> QED BY <2>1, <2>2, <2>4, <2>6, <3>5, <3>9, <4>1 DEF PubInv, S
    <3> QED BY <3>6, <3>7
  <2> QED BY <2>5, <2>6
<1> QED BY <1>1, <1>2, <1>3, PubEffect DEF pubVars, PubInv

-----------------------------------------------------------------------------
LEMMA ShownValue ==
  ASSUME NEW f, NEW c, Shows(pub_report[f], c), NEW R, R \subseteq Pub!Of(f), R # {}
  PROVE  /\ Pub!Value(R).from = {[make |-> pub_makes, command |-> c]}
         /\ Pub!Value(R).met = Pub!Value(R).of
<1>1. \A x \in R : x[1] = f /\ x[2] \in DOMAIN pub_report[f]
  BY DEF Pub!Of
<1>2. \A x \in R : RowShown(pub_report[x[1]][x[2]], x[2], c)
  BY <1>1 DEF Shows
<1>3. {x \in R : pub_report[x[1]][x[2]].status = Pub!Expected(x[2])} = R
  BY <1>2 DEF RowShown
<1>4. {[make |-> pub_report[x[1]][x[2]].make, command |-> pub_report[x[1]][x[2]].command] : x \in R}
        = {[make |-> pub_makes, command |-> c]}
  BY <1>2 DEF RowShown
<1> QED BY <1>3, <1>4 DEF Pub!Value

LEMMA CoreHolds == PubInv => Pub!CorePublished
<1> SUFFICES ASSUME PubInv, pub_verdict = "green", pub_target = "project_check" PROVE
    /\ \A m \in DOMAIN Pub!Core :
         /\ table[m].from = {[make |-> pub_makes, command |-> Pub!Core[m]]}
         /\ table[m].met = table[m].of
    /\ table = Pub!Table
    /\ \A m \in Pub!Selected : snapshot[m] = table[m]
  BY DEF Pub!CorePublished
<1> DEFINE S == Pub!Commands(pub_target)
<1>1. S = <<"closure", "cross", "negative", "negative_summary", "bounded", "inventory", "upf",
            "firmware_soc", "firmware_c_check", "performance", "metrics", "readme", "docs", "normalize">>
  BY DEF Pub!Commands
<1>2. \A i \in 1 .. Len(S) : Stands(S[i])
  BY DEF PubInv
<1> HIDE DEF S
<1>3. Len(S) = 14
  BY <1>1
<1>4. /\ S[1] = "closure" /\ S[4] = "negative_summary" /\ S[5] = "bounded" /\ S[8] = "firmware_soc"
      /\ S[11] = "metrics" /\ S[12] = "readme"
  BY <1>1
<1>5. /\ Stands("closure") /\ Stands("negative_summary") /\ Stands("bounded") /\ Stands("firmware_soc")
      /\ Stands("metrics") /\ Stands("readme")
  BY <1>2, <1>3, <1>4
<1>6. /\ Shows(pub_report["regress"], "closure") /\ Shows(pub_report["coverage"], "closure")
      /\ Shows(pub_report["power"], "closure") /\ "bug" \in DOMAIN pub_report["regress"]
  BY <1>5 DEF Stands, Vouches, Writes
<1>7. /\ Shows(pub_report["negative"], "negative_summary") /\ Shows(pub_report["formal"], "bounded")
      /\ Shows(pub_report["firmware"], "firmware_soc")
  BY <1>5 DEF Stands, Vouches, Writes
<1>8. table = Pub!Table /\ \A m \in Pub!Selected : snapshot[m] = table[m]
  BY <1>5 DEF Stands
<1>9. ASSUME NEW m \in DOMAIN Pub!Core
      PROVE  \E f, R : /\ Pub!Source[m] = R /\ R \subseteq Pub!Of(f) /\ R # {}
                       /\ Shows(pub_report[f], Pub!Core[m])
  <2>1. \A f : DOMAIN pub_report[f] # {} => Pub!Of(f) # {}
    BY DEF Pub!Of
  <2>2. CASE m = "expected_bug_failures"
    <3>1. <<"regress", "bug">> \in {x \in Pub!Of("regress") : Pub!Expected(x[2]) = "FAIL"}
      BY <1>6 DEF Pub!Of, Pub!Expected
    <3>2. Pub!Source[m] = {x \in Pub!Of("regress") : Pub!Expected(x[2]) = "FAIL"} /\ Pub!Core[m] = "closure"
      BY <2>2 DEF Pub!Source, Pub!Core
    <3> QED BY <1>6, <3>1, <3>2
  <2>3. CASE m = "stable_runs"
    BY <1>6, <2>1, <2>3 DEF Pub!Source, Pub!Core, Shows
  <2>4. CASE m = "functional_coverage"
    BY <1>6, <2>1, <2>4 DEF Pub!Source, Pub!Core, Shows
  <2>5. CASE m = "low_power_proxy_targets"
    BY <1>6, <2>1, <2>5 DEF Pub!Source, Pub!Core, Shows
  <2>6. CASE m = "bounded_property_checks"
    BY <1>7, <2>1, <2>6 DEF Pub!Source, Pub!Core, Shows
  <2>7. CASE m = "firmware_soc_scenarios"
    BY <1>7, <2>1, <2>7 DEF Pub!Source, Pub!Core, Shows
  <2>8. CASE m = "negative_tests"
    BY <1>7, <2>1, <2>8 DEF Pub!Source, Pub!Core, Shows
  <2> QED BY <2>2, <2>3, <2>4, <2>5, <2>6, <2>7, <2>8 DEF Pub!Core
<1>10. ASSUME NEW m \in DOMAIN Pub!Core
       PROVE  /\ table[m].from = {[make |-> pub_makes, command |-> Pub!Core[m]]}
              /\ table[m].met = table[m].of
  <2>1. m \in DOMAIN Pub!Source
    BY DEF Pub!Core, Pub!Source
  <2>2. table[m] = Pub!Value(Pub!Source[m])
    BY <1>8, <2>1 DEF Pub!Table
  <2>3. PICK f, R : /\ Pub!Source[m] = R /\ R \subseteq Pub!Of(f) /\ R # {}
                    /\ Shows(pub_report[f], Pub!Core[m])
    BY <1>9
  <2>4. /\ Pub!Value(R).from = {[make |-> pub_makes, command |-> Pub!Core[m]]}
        /\ Pub!Value(R).met = Pub!Value(R).of
    BY ONLY <2>3, ShownValue
  <2> QED BY <2>2, <2>3, <2>4
<1> QED BY <1>8, <1>10

LEMMA ChecksHold == PubInv => Pub!ChecksShown
<1> SUFFICES ASSUME PubInv, pub_verdict = "green", NEW f \in Pub!Evidence(pub_target)
             PROVE  /\ pub_report[f] # <<>>
                    /\ \A case \in DOMAIN pub_report[f] :
                         /\ pub_report[f][case].make = pub_makes
                         /\ pub_report[f][case].status = Pub!Expected(case)
  BY DEF Pub!ChecksShown
<1> DEFINE S == Pub!Commands(pub_target)
<1>1. \A i \in 1 .. Len(S) : Stands(S[i])
  BY DEF PubInv
<1>2. ASSUME NEW c, Stands(c), f \in Vouches(c) PROVE Shows(pub_report[f], c)
  BY <1>2 DEF Stands
<1>3. \E c : Stands(c) /\ f \in Vouches(c)
  <2>1. CASE pub_target = "rv32m_release_check"
    <3>1. S = <<"lint">> \o Pub!Rv32mChecks
      BY <2>1 DEF Pub!Commands, Pub!CommandsOf
    <3>2. <<"lint">> \in Seq(Command) /\ Pub!Rv32mChecks \in Seq(Command) /\ Len(<<"lint">>) = 1
      BY DEF Command, Pub!Rv32mChecks
    <3>3. Len(Pub!Rv32mChecks) = 5
      BY DEF Pub!Rv32mChecks
    <3> HIDE DEF S
    <3>4. Len(S) = Len(<<"lint">>) + Len(Pub!Rv32mChecks)
      BY <3>1, <3>2
    <3>8. \A i \in 1 .. 5 : S[i + 1] = Pub!Rv32mChecks[i]
      BY <3>1, <3>2, <3>3
    <3>5. \A i \in 1 .. 5 : Stands(Pub!Rv32mChecks[i])
      BY <1>1, <3>2, <3>3, <3>4, <3>8
    <3>6. /\ Stands("rv32m_unit") /\ Stands("rv32m_random") /\ Stands("rv32m_compiler")
          /\ Stands("rv32m_formal") /\ Stands("rv32m_mutations")
      BY <3>5 DEF Pub!Rv32mChecks
    <3>7. f \in {"rv32m_directed", "rv32m_coverage", "rv32m_random", "rv32m_compiler", "rv32m_formal",
                 "rv32m_mutation"}
      BY <2>1 DEF Pub!Evidence
    <3> QED BY <3>6, <3>7 DEF Vouches, Writes
  <2>2. CASE pub_target \in {"power_regress", "bug_validate", "async_cdc", "uvm_ci", "firmware_c_closure"}
    <3>1. S = <<pub_target>>
      BY <2>2 DEF Pub!Commands, Pub!CommandsOf
    <3>2. Stands(pub_target)
      BY <1>1, <3>1
    <3> QED BY <2>2, <3>2 DEF Vouches, Writes, Pub!Evidence
  <2>3. CASE pub_target \notin {"rv32m_release_check", "power_regress", "bug_validate", "async_cdc", "uvm_ci",
                                "firmware_c_closure"}
    BY <2>3 DEF Pub!Evidence
  <2> QED BY <2>1, <2>2, <2>3
<1>4. PICK c : Shows(pub_report[f], c)
  BY <1>2, <1>3
<1>5. DOMAIN <<>> = {}
  OBVIOUS
<1> QED BY <1>4, <1>5 DEF Shows, RowShown

LEMMA PubTyped == PubInv => Pub!TypeOK
<1> SUFFICES ASSUME PubInv PROVE Pub!TypeOK
  OBVIOUS
<1>1. PubTypes
  BY DEF PubInv
<1>2. pub_verdict = "running" => pub_todo # <<>>
  BY DEF PubInv
<1> QED BY <1>1, <1>2 DEF Pub!TypeOK, PubTypes, RowsTyped, Statuses

LEMMA PublicationHolds == Pub!Spec => [](Pub!TypeOK /\ Pub!PublishedStands)
<1>1. PubInv => Pub!TypeOK /\ Pub!PublishedStands
  BY PubTyped, CoreHolds, ChecksHold DEF Pub!PublishedStands
<1>3. PubInv /\ [Pub!Next]_(Pub!vars) => PubInv'
  BY PubStep DEF pubVars, Pub!vars
<1> QED BY PubInit, <1>1, <1>3, PTL DEF Pub!Spec

\* However many makes there were, whichever targets they were given and wherever
\* they failed: what a green project-check publishes was written in that very
\* make by the commands that judge it, and it meets what they require
\* (Makefile, gen_project_metrics.py, update_readme_metrics.py).
THEOREM GreenPublicationStands == EvidenceSpec => []PublishedStands
<1>1. Pub!TypeOK /\ Pub!PublishedStands => PublishedStands
  BY DEF PublishedStands
<1> QED BY <1>1, PublicationHolds, PartsBehave, PTL

-----------------------------------------------------------------------------
(* The compiled-firmware lane.                                               *)

\* The files that the simulations of a command are named by.
Stems(c) == {Firmware!Jobs(c)[i].stem : i \in 1 .. Len(Firmware!Jobs(c))}

\* What a row of a report that a command has accepted stands on.
Good(c, row) ==
  /\ row.status = "PASS" /\ row.test \in lane_fresh /\ row.test \in Stems(c)
  /\ row.hits = HITS[row.test]
  /\ \/ /\ trace[row.test].core = "sound" /\ (trace[row.test].clean \/ c = "soc")
        /\ trace[row.test].hits = HITS[row.test]
     \/ row.test = MUTATED /\ Firmware!Began("mutation")

\* What a command that has succeeded leaves, until the recipe ends.
LaneStands(c) ==
  /\ c \in Firmware!Summary =>
       /\ \A row \in lane_report[c].rows : Good(c, row)
       /\ \A point \in REQUIRED[c] : \E row \in lane_report[c].rows : point \in row.hits
  /\ c = "timer_coverage" =>
       \A point \in REQUIRED[c] : \E row \in lane_report["timer"].rows : point \in HITS[row.test]
  /\ c = "robustness" /\ begun # <<"robustness">> =>
       \A point \in REQUIRED[c] :
         Firmware!TwoOrMore({t \in Firmware!Test \cap lane_fresh :
                               point \in HITS[t] /\ trace[t].core = "sound" /\ trace[t].clean})

LaneTypes ==
  /\ lane_makes \in 0 .. MAKES
  /\ trace = [s \in Firmware!Stem |-> trace[s]]
  /\ \A s \in Firmware!Stem : trace[s].core \in {"none", "sound", "defective"} /\ trace[s].clean \in BOOLEAN
  /\ cover = [s \in Firmware!Stem |-> cover[s]]
  /\ lane_report = [c \in Firmware!Summary |-> lane_report[c]]
  /\ \A c \in Firmware!Summary : \A row \in lane_report[c].rows :
       row.test \in Firmware!Test /\ row.status \in {"PASS", "FAIL"}
  /\ lane_fresh \subseteq Firmware!Stem \cup Firmware!Summary
  /\ lane_verdict \in {"none", "running", "green", "red"}

\* The rows of the command that is running.
RowsSo(c) ==
  /\ lane_rows = [i \in 1 .. Len(lane_rows) |-> lane_rows[i]]
  /\ Len(lane_rows) \in 0 .. Len(Firmware!Jobs(c))
  /\ \A i \in 1 .. Len(lane_rows) :
       lane_rows[i].test = Firmware!Jobs(c)[i].test /\ lane_rows[i].status \in {"PASS", "FAIL"}
  /\ c \in Firmware!Summary /\ (\A i \in 1 .. Len(lane_rows) : lane_rows[i].status = "PASS") =>
       \A i \in 1 .. Len(lane_rows) : Good(c, lane_rows[i])

-----------------------------------------------------------------------------
LEMMA ElementsOf ==
  ASSUME NEW T, NEW s \in Seq(T)
  PROVE  Firmware!Elements(s) \subseteq T
BY DEF Firmware!Elements

LEMMA ElementsConcat ==
  ASSUME NEW T, NEW s \in Seq(T), NEW t \in Seq(T)
  PROVE  Firmware!Elements(s \o t) = Firmware!Elements(s) \cup Firmware!Elements(t)
<1>1. /\ Len(s \o t) = Len(s) + Len(t)
      /\ \A i \in 1 .. Len(s) : (s \o t)[i] = s[i]
      /\ \A i \in 1 .. Len(t) : (s \o t)[Len(s) + i] = t[i]
      /\ Len(s) \in Nat /\ Len(t) \in Nat
  OBVIOUS
<1>2. ASSUME NEW i \in 1 .. Len(s \o t) PROVE (s \o t)[i] \in Firmware!Elements(s) \cup Firmware!Elements(t)
  <2>1. CASE i \in 1 .. Len(s)
    BY <1>1, <2>1 DEF Firmware!Elements
  <2>2. CASE i \notin 1 .. Len(s)
    <3>1. i - Len(s) \in 1 .. Len(t) /\ i = Len(s) + (i - Len(s))
      BY <1>1, <2>2
    <3> QED BY <1>1, <3>1 DEF Firmware!Elements
  <2> QED BY <2>1, <2>2
<1>3. Firmware!Elements(s) \subseteq Firmware!Elements(s \o t)
  BY <1>1 DEF Firmware!Elements
<1>4. ASSUME NEW i \in 1 .. Len(t) PROVE t[i] \in Firmware!Elements(s \o t)
  <2>1. Len(s) + i \in 1 .. Len(s \o t)
    BY <1>1
  <2> QED BY <1>1, <2>1 DEF Firmware!Elements
<1> QED BY <1>2, <1>3, <1>4 DEF Firmware!Elements

Names == STRING \ ({Firmware!MutationIss, Firmware!RtlMutation} \cup Firmware!Summary)

LEMMA Lists ==
  /\ DIRECTED \in Seq(Names) /\ SEEDED \in Seq(Names) /\ VARIANTS \in Seq(Names)
  /\ TIMER \in Seq(Names) /\ PRIVILEGED \in Seq(Names) /\ SOC \in Seq(Names)
BY TestsAssumption DEF Names

LEMMA Tests ==
  /\ Firmware!Test = UNION {Firmware!Elements(DIRECTED), Firmware!Elements(SEEDED), Firmware!Elements(VARIANTS),
                            Firmware!Elements(TIMER), Firmware!Elements(PRIVILEGED), Firmware!Elements(SOC)}
  /\ Firmware!Test \subseteq Names
<1>1. Firmware!Test = Firmware!Elements(DIRECTED) \cup Firmware!Elements(SEEDED) \cup Firmware!Elements(VARIANTS)
                      \cup Firmware!Elements(TIMER) \cup Firmware!Elements(PRIVILEGED) \cup Firmware!Elements(SOC)
  <2> HIDE DEF Names
  <2> DEFINE l2 == DIRECTED \o SEEDED
             l3 == l2 \o VARIANTS
             l4 == l3 \o TIMER
             l5 == l4 \o PRIVILEGED
  <2>1. l2 \in Seq(Names) /\ Firmware!Elements(l2) = Firmware!Elements(DIRECTED) \cup Firmware!Elements(SEEDED)
    BY Lists, ElementsConcat
  <2> HIDE DEF l2
  <2>2. l3 \in Seq(Names) /\ Firmware!Elements(l3) = Firmware!Elements(l2) \cup Firmware!Elements(VARIANTS)
    BY <2>1, Lists, ElementsConcat
  <2> HIDE DEF l3
  <2>3. l4 \in Seq(Names) /\ Firmware!Elements(l4) = Firmware!Elements(l3) \cup Firmware!Elements(TIMER)
    BY <2>2, Lists, ElementsConcat
  <2> HIDE DEF l4
  <2>4. l5 \in Seq(Names) /\ Firmware!Elements(l5) = Firmware!Elements(l4) \cup Firmware!Elements(PRIVILEGED)
    BY <2>3, Lists, ElementsConcat
  <2> HIDE DEF l5
  <2>5. Firmware!Elements(l5 \o SOC) = Firmware!Elements(l5) \cup Firmware!Elements(SOC)
    BY <2>4, Lists, ElementsConcat
  <2>6. Firmware!Test = Firmware!Elements(l5 \o SOC)
    BY DEF Firmware!Test, l2, l3, l4, l5
  <2> QED BY <2>1, <2>2, <2>3, <2>4, <2>5, <2>6
<1>2. /\ Firmware!Elements(DIRECTED) \subseteq Names /\ Firmware!Elements(SEEDED) \subseteq Names
      /\ Firmware!Elements(VARIANTS) \subseteq Names /\ Firmware!Elements(TIMER) \subseteq Names
      /\ Firmware!Elements(PRIVILEGED) \subseteq Names /\ Firmware!Elements(SOC) \subseteq Names
  BY Lists, ElementsOf
<1> QED BY <1>1, <1>2

\* What each command simulates, and under which names.
SoundJobs(s, c) ==
  /\ Stems(c) = Firmware!Elements(s)
  /\ Len(Firmware!Jobs(c)) = Len(s)
  /\ \A i \in 1 .. Len(s) : Firmware!Jobs(c)[i] = [test |-> s[i], stem |-> s[i], core |-> "sound"]

LEMMA SoundSo ==
  ASSUME NEW s \in Seq(Names), NEW c, Firmware!Jobs(c) = Firmware!Sound(s)
  PROVE  SoundJobs(s, c)
<1>1. Len(Firmware!Jobs(c)) = Len(s)
  BY DEF Firmware!Sound
<1>2. \A i \in 1 .. Len(s) : Firmware!Jobs(c)[i] = [test |-> s[i], stem |-> s[i], core |-> "sound"]
  BY DEF Firmware!Sound, Firmware!Job
<1>3. Stems(c) = {Firmware!Jobs(c)[i].stem : i \in 1 .. Len(s)}
  BY <1>1 DEF Stems
<1>5. ASSUME NEW i \in 1 .. Len(s)
      PROVE  Firmware!Jobs(c)[i].stem = s[i]
  <2>1. Firmware!Jobs(c)[i] = [test |-> s[i], stem |-> s[i], core |-> "sound"]
    BY <1>2
  <2> QED BY ONLY <2>1
<1>4. Stems(c) = Firmware!Elements(s)
  BY <1>3, <1>5, Zenon DEF Firmware!Elements
<1> QED BY <1>1, <1>2, <1>4 DEF SoundJobs

\* The tests of --smoke.
LEMMA FirstTwo ==
  /\ <<DIRECTED[1], DIRECTED[2]>> \in Seq(Names)
  /\ Firmware!Elements(<<DIRECTED[1], DIRECTED[2]>>) \subseteq Firmware!Elements(DIRECTED)
<1> DEFINE two == <<DIRECTED[1], DIRECTED[2]>>
<1>1. {1, 2} \subseteq 1 .. Len(DIRECTED)
  BY TestsAssumption, Lists
<1>2. two \in Seq(Names)
  BY <1>1, Lists
<1>3. Firmware!Elements(two) = {DIRECTED[1], DIRECTED[2]}
  BY DEF Firmware!Elements
<1>4. {DIRECTED[1], DIRECTED[2]} \subseteq Firmware!Elements(DIRECTED)
  BY <1>1 DEF Firmware!Elements
<1> QED BY <1>2, <1>3, <1>4

LEMMA SmokeJobs == SoundJobs(<<DIRECTED[1], DIRECTED[2]>>, "smoke")
BY FirstTwo, SoundSo DEF Firmware!Jobs

LEMMA SummaryJobs ==
  /\ SoundJobs(DIRECTED, "directed") /\ SoundJobs(DIRECTED \o SEEDED, "closure")
  /\ SoundJobs(VARIANTS, "variants") /\ SoundJobs(TIMER, "timer")
  /\ SoundJobs(PRIVILEGED, "privileged") /\ SoundJobs(SOC, "soc")
<1>1. DIRECTED \o SEEDED \in Seq(Names)
  BY Lists
<1> QED BY <1>1, Lists, SoundSo DEF Firmware!Jobs

LEMMA StemsOf ==
  /\ Stems("directed") = Firmware!Elements(DIRECTED)
  /\ Stems("closure") = Firmware!Elements(DIRECTED) \cup Firmware!Elements(SEEDED)
  /\ Stems("variants") = Firmware!Elements(VARIANTS) /\ Stems("timer") = Firmware!Elements(TIMER)
  /\ Stems("privileged") = Firmware!Elements(PRIVILEGED) /\ Stems("soc") = Firmware!Elements(SOC)
  /\ Stems("smoke") \subseteq Firmware!Elements(DIRECTED)
  /\ Stems("mutation") = {MUTATED, Firmware!MutationIss} /\ Stems("rtl_mutation") = {Firmware!RtlMutation}
  /\ Stems("isa") = {} /\ Stems("timer_coverage") = {} /\ Stems("robustness") = {}
<1>1. Firmware!Elements(DIRECTED \o SEEDED) = Firmware!Elements(DIRECTED) \cup Firmware!Elements(SEEDED)
  BY Lists, ElementsConcat
<1>3. Stems("smoke") \subseteq Firmware!Elements(DIRECTED)
  BY FirstTwo, SmokeJobs DEF SoundJobs
<1>4. Stems("mutation") = {MUTATED, Firmware!MutationIss} /\ Stems("rtl_mutation") = {Firmware!RtlMutation}
  BY DEF Stems, Firmware!Jobs, Firmware!Job
<1>5. Stems("isa") = {} /\ Stems("timer_coverage") = {} /\ Stems("robustness") = {}
  BY DEF Stems, Firmware!Jobs
<1> QED BY <1>1, <1>3, <1>4, <1>5, SummaryJobs DEF SoundJobs

JobsTyped(c) ==
  /\ Len(Firmware!Jobs(c)) \in Nat
  /\ \A i \in 1 .. Len(Firmware!Jobs(c)) :
       /\ Firmware!Jobs(c)[i].test \in Firmware!Test
       /\ Firmware!Jobs(c)[i].stem \in Firmware!Stem \cap Stems(c)
       /\ Firmware!Jobs(c)[i].core \in {"sound", "defective"}
       /\ c \in Firmware!Summary =>
            Firmware!Jobs(c)[i].stem = Firmware!Jobs(c)[i].test /\ Firmware!Jobs(c)[i].core = "sound"

LEMMA SoundTyped ==
  ASSUME NEW s \in Seq(Names), NEW c, SoundJobs(s, c), Firmware!Elements(s) \subseteq Firmware!Test
  PROVE  JobsTyped(c)
<1>1. \A i \in 1 .. Len(s) : s[i] \in Firmware!Test
  BY DEF Firmware!Elements
<1>2. Firmware!Test \subseteq Firmware!Stem
  BY DEF Firmware!Stem
<1>3. \A i \in 1 .. Len(Firmware!Jobs(c)) : Firmware!Jobs(c)[i].stem \in Stems(c)
  BY DEF Stems
<1>4. Len(Firmware!Jobs(c)) = Len(s) /\ Len(s) \in Nat
  BY DEF SoundJobs
<1>5. ASSUME NEW i \in 1 .. Len(Firmware!Jobs(c))
      PROVE  /\ Firmware!Jobs(c)[i].test = s[i] /\ Firmware!Jobs(c)[i].stem = s[i]
             /\ Firmware!Jobs(c)[i].core = "sound"
  <2>1. Firmware!Jobs(c)[i] = [test |-> s[i], stem |-> s[i], core |-> "sound"]
    BY <1>4 DEF SoundJobs
  <2> QED BY ONLY <2>1
<1> QED BY <1>1, <1>2, <1>3, <1>4, <1>5 DEF JobsTyped

LEMMA JobsSo == \A c \in Firmware!Command : JobsTyped(c)
<1>1. /\ Firmware!Elements(DIRECTED) \subseteq Firmware!Test /\ Firmware!Elements(SEEDED) \subseteq Firmware!Test
      /\ Firmware!Elements(VARIANTS) \subseteq Firmware!Test /\ Firmware!Elements(TIMER) \subseteq Firmware!Test
      /\ Firmware!Elements(PRIVILEGED) \subseteq Firmware!Test /\ Firmware!Elements(SOC) \subseteq Firmware!Test
  BY Tests
<1>2. DIRECTED \o SEEDED \in Seq(Names) /\ Firmware!Elements(DIRECTED \o SEEDED) \subseteq Firmware!Test
  BY <1>1, Lists, ElementsConcat
<1>3. /\ JobsTyped("directed") /\ JobsTyped("closure") /\ JobsTyped("variants") /\ JobsTyped("timer")
      /\ JobsTyped("privileged") /\ JobsTyped("soc")
  BY <1>1, <1>2, Lists, SummaryJobs, SoundTyped
<1>4. JobsTyped("smoke")
  BY <1>1, FirstTwo, SmokeJobs, SoundTyped
<1>5. MUTATED \in Firmware!Test
  BY <1>1, TestsAssumption
<1>6. JobsTyped("mutation")
  <2>1. Firmware!Jobs("mutation") = <<Firmware!Job(MUTATED, MUTATED, "defective"),
                                      Firmware!Job(MUTATED, Firmware!MutationIss, "defective")>>
    BY DEF Firmware!Jobs
  <2> QED BY <1>5, <2>1, StemsOf DEF JobsTyped, Firmware!Job, Firmware!Stem, Firmware!Summary
<1>7. JobsTyped("rtl_mutation")
  <2>1. Firmware!Jobs("rtl_mutation") = <<Firmware!Job(MUTATED, Firmware!RtlMutation, "defective")>>
    BY DEF Firmware!Jobs
  <2> QED BY <1>5, <2>1, StemsOf DEF JobsTyped, Firmware!Job, Firmware!Stem, Firmware!Summary
<1>8. JobsTyped("isa") /\ JobsTyped("timer_coverage") /\ JobsTyped("robustness")
  BY DEF JobsTyped, Firmware!Jobs
<1> QED BY <1>3, <1>4, <1>6, <1>7, <1>8 DEF Firmware!Command, Firmware!Summary, Firmware!Judge

LEMMA SummaryStems ==
  ASSUME NEW c \in Firmware!Summary
  PROVE  Stems(c) \subseteq Firmware!Test /\ Firmware!Test \subseteq Firmware!Stem
BY StemsOf, Tests DEF Firmware!Summary, Firmware!Stem

-----------------------------------------------------------------------------
\* What one command vouches for is not disturbed by another that comes after it.
LaneBefore(c, d) ==
  /\ c \in Firmware!Command /\ d \in Firmware!Command /\ c # d /\ c # "robustness"
  /\ c \in Firmware!Summary => \A s \in Stems(c) \cap Stems(d) : s = MUTATED /\ d = "mutation"
  /\ c = "timer_coverage" => d # "timer"

LaneOrderly(S) ==
  /\ S \in Seq(Firmware!Command) /\ Len(S) \in Nat \ {0}
  /\ \A i, j \in 1 .. Len(S) : i < j => LaneBefore(S[i], S[j])
  /\ \A j \in 1 .. Len(S) :
       /\ S[j] = "timer_coverage" => \E i \in 1 .. j - 1 : S[i] = "timer"
       /\ S[j] = "robustness" /\ S # <<"robustness">> =>
            /\ \E i \in 1 .. j - 1 : S[i] = "closure"
            /\ \E i \in 1 .. j - 1 : S[i] = "variants"
            /\ \E i \in 1 .. j - 1 : S[i] = "timer"
            /\ \A i \in 1 .. Len(S) : S[i] # "mutation"

LEMMA Apart ==
  /\ Stems("closure") \cap Stems("variants") = {} /\ Stems("closure") \cap Stems("timer") = {}
  /\ Stems("closure") \cap Stems("privileged") = {}
  /\ Stems("directed") \cap Stems("variants") = {} /\ Stems("directed") \cap Stems("timer") = {}
  /\ Stems("variants") \cap Stems("timer") = {} /\ Stems("variants") \cap Stems("privileged") = {}
  /\ Stems("timer") \cap Stems("privileged") = {}
  /\ \A c \in Firmware!Summary : Stems(c) \cap Stems("rtl_mutation") = {} /\ Stems(c) \cap Stems("mutation") \subseteq {MUTATED}
<1> DEFINE lanes == <<Firmware!Elements(DIRECTED) \cup Firmware!Elements(SEEDED), Firmware!Elements(VARIANTS),
                   Firmware!Elements(TIMER), Firmware!Elements(PRIVILEGED)>>
<1>1. \A i, j \in 1 .. 4 : i # j => lanes[i] \cap lanes[j] = {}
  BY TestsAssumption
<1>2. /\ lanes[1] \cap lanes[2] = {} /\ lanes[1] \cap lanes[3] = {} /\ lanes[1] \cap lanes[4] = {}
      /\ lanes[2] \cap lanes[3] = {} /\ lanes[2] \cap lanes[4] = {} /\ lanes[3] \cap lanes[4] = {}
  BY <1>1
<1>3. /\ lanes[1] = Stems("closure") /\ lanes[2] = Stems("variants") /\ lanes[3] = Stems("timer")
      /\ lanes[4] = Stems("privileged") /\ Stems("directed") \subseteq Stems("closure")
  BY StemsOf
<1>4. ASSUME NEW c \in Firmware!Summary PROVE Stems(c) \subseteq Firmware!Test
  BY SummaryStems
<1>5. Firmware!MutationIss \notin Firmware!Test /\ Firmware!RtlMutation \notin Firmware!Test
  BY Tests DEF Names
<1> HIDE DEF lanes
<1> QED BY <1>2, <1>3, <1>4, <1>5, StemsOf

-----------------------------------------------------------------------------
LEMMA LaneRecipes == \A S \in Firmware!Recipes : LaneOrderly(S)
<1> SUFFICES ASSUME NEW S \in Firmware!Recipes PROVE LaneOrderly(S)
  OBVIOUS
<1>1. \A c, d \in Firmware!Command :
        \/ c \in {"directed", "closure"} /\ d \in {"isa", "mutation", "variants", "timer", "timer_coverage"}
        \/ c \in {"closure", "variants", "timer"} /\ d = "privileged"
        \/ c = "timer" /\ d = "variants"
        \/ c = "variants" /\ d \in {"timer", "timer_coverage"}
        \/ c = "timer" /\ d = "timer_coverage"
        \/ c = "timer_coverage" /\ d \in {"variants", "privileged"}
        \/ c # "robustness" /\ c # d /\ d \in {"rtl_mutation", "robustness"}
        \/ c \in {"isa", "mutation"} /\ c # d
        => LaneBefore(c, d)
  BY Apart, StemsOf DEF LaneBefore, Firmware!Command, Firmware!Summary, Firmware!Judge
<1>2. CASE S \in {<<"smoke">>, <<"directed">>, <<"closure">>, <<"soc">>, <<"variants">>, <<"mutation">>,
                  <<"privileged">>, <<"robustness">>}
  <2>1. PICK c \in Firmware!Command : S = <<c>> /\ c # "timer_coverage"
    BY <1>2 DEF Firmware!Command, Firmware!Summary, Firmware!Judge
  <2>2. Len(S) = 1 /\ S[1] = c /\ S \in Seq(Firmware!Command)
    BY <2>1
  <2> QED BY <2>1, <2>2 DEF LaneOrderly
<1>3. CASE S = <<"directed", "isa">>
  <2>1. S \in Seq(Firmware!Command)
    BY <1>3 DEF Firmware!Command, Firmware!Summary, Firmware!Judge
  <2>2. LaneBefore("directed", "isa")
    BY <1>1 DEF Firmware!Command, Firmware!Summary, Firmware!Judge
  <2>3. Len(S) = 2 /\ S[1] = "directed" /\ S[2] = "isa"
    BY <1>3
  <2> QED BY <2>1, <2>2, <2>3 DEF LaneOrderly
<1>4. CASE S = <<"timer", "timer_coverage">>
  <2>1. S \in Seq(Firmware!Command)
    BY <1>4 DEF Firmware!Command, Firmware!Summary, Firmware!Judge
  <2>2. LaneBefore("timer", "timer_coverage")
    BY <1>1 DEF Firmware!Command, Firmware!Summary, Firmware!Judge
  <2>3. Len(S) = 2 /\ S[1] = "timer" /\ S[2] = "timer_coverage"
    BY <1>4
  <2> QED BY <2>1, <2>2, <2>3 DEF LaneOrderly
<1>5. CASE S = <<"directed", "isa", "mutation", "timer", "timer_coverage", "variants">>
  <2>1. S \in Seq(Firmware!Command)
    BY <1>5 DEF Firmware!Command, Firmware!Summary, Firmware!Judge
  <2>2. /\ S[1] = "directed" /\ S[2] = "isa" /\ S[3] = "mutation" /\ S[4] = "timer" /\ S[5] = "timer_coverage"
        /\ S[6] = "variants"
    BY <1>5
  <2>3. Len(S) = 6
    BY <1>5
  <2>4. ASSUME NEW i \in 1 .. 6, NEW j \in 1 .. 6, i < j PROVE LaneBefore(S[i], S[j])
    <3>1. S[i] \in Firmware!Command /\ S[j] \in Firmware!Command
      BY <2>2 DEF Firmware!Command, Firmware!Summary, Firmware!Judge
    <3>2. S[i] # S[j] /\ \/ S[i] \in {"isa", "mutation"}
                         \/ S[i] = "directed"
                         \/ S[i] = "timer" /\ S[j] \in {"timer_coverage", "variants"}
                         \/ S[i] = "timer_coverage" /\ S[j] = "variants"
      BY <2>2, <2>4
    <3>3. S[i] = "directed" => S[j] \in {"isa", "mutation", "variants", "timer", "timer_coverage"}
      BY <2>2, <2>4
    <3> QED BY <1>1, <3>1, <3>2, <3>3
  <2>5. \A j \in 1 .. 6 : S[j] # "robustness" /\ (S[j] = "timer_coverage" => S[4] = "timer" /\ 4 \in 1 .. j - 1)
    BY <2>2
  <2> QED BY <2>1, <2>3, <2>4, <2>5 DEF LaneOrderly
<1>6. CASE S = <<"closure", "variants", "timer", "timer_coverage", "privileged", "rtl_mutation", "robustness">>
  <2>1. S \in Seq(Firmware!Command)
    BY <1>6 DEF Firmware!Command, Firmware!Summary, Firmware!Judge
  <2>2. /\ S[1] = "closure" /\ S[2] = "variants" /\ S[3] = "timer" /\ S[4] = "timer_coverage" /\ S[5] = "privileged"
        /\ S[6] = "rtl_mutation" /\ S[7] = "robustness"
    BY <1>6
  <2>3. Len(S) = 7
    BY <1>6
  <2>4. ASSUME NEW i \in 1 .. 7, NEW j \in 1 .. 7, i < j PROVE LaneBefore(S[i], S[j])
    <3>1. S[i] \in Firmware!Command /\ S[j] \in Firmware!Command
      BY <2>2 DEF Firmware!Command, Firmware!Summary, Firmware!Judge
    <3>2. S[i] # S[j] /\ S[i] # "robustness"
      BY <2>2, <2>4
    <3>3. \/ S[j] \in {"rtl_mutation", "robustness"}
          \/ S[i] = "closure" /\ S[j] \in {"variants", "timer", "timer_coverage", "privileged"}
          \/ S[i] = "variants" /\ S[j] \in {"timer", "timer_coverage", "privileged"}
          \/ S[i] = "timer" /\ S[j] \in {"timer_coverage", "privileged"}
          \/ S[i] = "timer_coverage" /\ S[j] = "privileged"
      BY <2>2, <2>4
    <3> QED BY <1>1, <3>1, <3>2, <3>3
  <2>5. \A j \in 1 .. 7 : /\ S[j] # "mutation"
                          /\ S[j] = "timer_coverage" => S[3] = "timer" /\ 3 \in 1 .. j - 1
                          /\ S[j] = "robustness" => /\ S[1] = "closure" /\ 1 \in 1 .. j - 1
                                                    /\ S[2] = "variants" /\ 2 \in 1 .. j - 1
                                                    /\ S[3] = "timer" /\ 3 \in 1 .. j - 1
    BY <2>2
  <2>6. \A j \in 1 .. 7 : S[j] = "robustness" =>
            /\ \E i \in 1 .. j - 1 : S[i] = "closure"
            /\ \E i \in 1 .. j - 1 : S[i] = "variants"
            /\ \E i \in 1 .. j - 1 : S[i] = "timer"
    BY <2>5
  <2> QED BY <2>1, <2>3, <2>4, <2>5, <2>6 DEF LaneOrderly
<1> QED BY <1>2, <1>3, <1>4, <1>5, <1>6 DEF Firmware!Recipes

-----------------------------------------------------------------------------
LEMMA LaneStays ==
  ASSUME NEW c, NEW d, LaneBefore(c, d), d = "mutation" => Firmware!Began(d), LaneStands(c), begun' = begun,
         lane_fresh \subseteq lane_fresh', \A s \in Firmware!Stem \ Stems(d) : trace'[s] = trace[s],
         \A e \in Firmware!Summary \ {d} : lane_report'[e] = lane_report[e]
  PROVE  LaneStands(c)'
<1>1. Firmware!Began("mutation")' = Firmware!Began("mutation")
  BY DEF Firmware!Began, Firmware!Elements
<1>2. ASSUME c \in Firmware!Summary, NEW row, Good(c, row) PROVE Good(c, row)'
  <2>1. CASE row.test \in Stems(d)
    <3>1. row.test = MUTATED /\ Firmware!Began("mutation")
      BY <1>2, <2>1 DEF Good, LaneBefore
    <3> QED BY <1>1, <1>2, <3>1 DEF Good
  <2>2. CASE row.test \notin Stems(d)
    <3>1. trace'[row.test] = trace[row.test]
      BY <1>2, <2>2, SummaryStems DEF Good
    <3> QED BY <1>1, <1>2, <3>1 DEF Good
  <2> QED BY <2>1, <2>2
<1>3. c \in Firmware!Summary => lane_report'[c] = lane_report[c]
  BY DEF LaneBefore
<1>4. c = "timer_coverage" => lane_report'["timer"] = lane_report["timer"]
  BY DEF LaneBefore, Firmware!Summary
<1>5. c # "robustness"
  BY DEF LaneBefore
<1> QED BY <1>2, <1>3, <1>4, <1>5 DEF LaneStands

LaneEnd(d, ok) ==
  /\ Firmware!Done(d) /\ Firmware!Ends(ok)
  /\ LaneTypes' /\ begun' = begun /\ trace' = trace
  /\ lane_fresh \subseteq lane_fresh'
  /\ lane_fresh' \cap Firmware!Summary \subseteq (lane_fresh \cap Firmware!Summary) \cup {d}
  /\ \A e \in Firmware!Summary \ {d} : lane_report'[e] = lane_report[e]
  /\ ok => LaneStands(d)'

\* A command that writes nothing.
LEMMA QuietEnd ==
  ASSUME LaneTypes, NEW d, Firmware!Done(d), NEW ok, Firmware!Ends(ok), ok => LaneStands(d),
         UNCHANGED <<lane_makes, begun, trace, cover, lane_report, lane_fresh>>
  PROVE  LaneEnd(d, TRUE) \/ LaneEnd(d, FALSE)
<1>1. LaneTypes'
  <2>1. lane_verdict' \in {"none", "running", "green", "red"}
    BY DEF Firmware!Ends
  <2> QED BY <2>1 DEF LaneTypes
<1>2. IF ok THEN Firmware!Ends(TRUE) ELSE Firmware!Ends(FALSE)
  BY DEF Firmware!Ends, Firmware!ExitCode
<1>3. LaneStands(d) => LaneStands(d)'
  <2>1. Firmware!Began("mutation")' = Firmware!Began("mutation")
    BY DEF Firmware!Began, Firmware!Elements
  <2>2. \A row : Good(d, row)' = Good(d, row)
    BY <2>1 DEF Good
  <2> QED BY <2>2 DEF LaneStands
<1> QED BY <1>1, <1>2, <1>3 DEF LaneEnd

LEMMA ReportEnd ==
  ASSUME LaneTypes, NEW c \in Firmware!Summary, RowsSo(c), Firmware!Report(c)
  PROVE  LaneEnd(c, TRUE) \/ LaneEnd(c, FALSE)
<1> DEFINE set == Firmware!Elements(lane_rows)
           ok == set = Firmware!Passed(set) /\ REQUIRED[c] \subseteq Firmware!Counted(c, set)
<1>1. /\ Firmware!Done(c) /\ Firmware!Ends(ok)
      /\ lane_report' = [lane_report EXCEPT ![c] = [rows |-> set, hits |-> Firmware!Counted(c, set)]]
      /\ lane_fresh' = lane_fresh \cup {c}
      /\ UNCHANGED <<lane_makes, begun, trace, cover>>
  BY DEF Firmware!Report
<1>2. \A i \in 1 .. Len(lane_rows) : lane_rows[i].test \in Firmware!Test /\ lane_rows[i].status \in {"PASS", "FAIL"}
  BY JobsSo DEF RowsSo, JobsTyped, Firmware!Command
<1>3. lane_report'[c].rows = set /\ \A e \in Firmware!Summary \ {c} : lane_report'[e] = lane_report[e]
  BY <1>1 DEF LaneTypes
<1>4. \A row \in set : row.test \in Firmware!Test /\ row.status \in {"PASS", "FAIL"}
  BY <1>2 DEF Firmware!Elements
<1>5. LaneTypes'
  <2>1. lane_verdict' \in {"none", "running", "green", "red"}
    BY <1>1 DEF Firmware!Ends
  <2>2. lane_report' = [e \in Firmware!Summary |-> lane_report'[e]]
    BY <1>1 DEF LaneTypes
  <2>3. \A e \in Firmware!Summary : \A row \in lane_report'[e].rows :
          row.test \in Firmware!Test /\ row.status \in {"PASS", "FAIL"}
    BY <1>3, <1>4 DEF LaneTypes
  <2> QED BY <1>1, <2>1, <2>2, <2>3 DEF LaneTypes
<1>6. ASSUME ok PROVE LaneStands(c)'
  <2>1. \A i \in 1 .. Len(lane_rows) : lane_rows[i].status = "PASS"
    BY <1>6 DEF Firmware!Passed, Firmware!Elements
  <2>2. \A row \in set : Good(c, row)
    BY <2>1 DEF RowsSo, Firmware!Elements
  <2>3. \A row \in set : Good(c, row)'
    <3>1. Firmware!Began("mutation")' = Firmware!Began("mutation")
      BY <1>1 DEF Firmware!Began, Firmware!Elements
    <3> QED BY <1>1, <2>2, <3>1 DEF Good
  <2>4. \A point \in REQUIRED[c] : \E row \in set : point \in row.hits
    <3>1. REQUIRED[c] \subseteq UNION {row.hits : row \in set}
      BY <1>6 DEF Firmware!Counted, Firmware!HitsOf
    <3> QED BY <3>1
  <2>5. c \notin {"timer_coverage", "robustness"}
    BY DEF Firmware!Summary
  <2> QED BY <1>3, <2>3, <2>4, <2>5 DEF LaneStands
<1>7. IF ok THEN Firmware!Ends(TRUE) ELSE Firmware!Ends(FALSE)
  BY <1>1 DEF Firmware!Ends, Firmware!ExitCode
<1>8. lane_fresh \subseteq lane_fresh' /\ lane_fresh' \cap Firmware!Summary \subseteq (lane_fresh \cap Firmware!Summary) \cup {c}
  BY <1>1
<1> HIDE DEF ok, set
<1> QED BY <1>1, <1>3, <1>5, <1>6, <1>7, <1>8 DEF LaneEnd

\* A report's rows name tests of its lane, and their traces show what they should.
LEMMA TracedSo ==
  ASSUME NEW c \in {"closure", "variants", "timer"}, LaneStands(c), NEW row \in lane_report[c].rows,
         c = "closure" => ~ Firmware!Began("mutation")
  PROVE  /\ row.status = "PASS" /\ row.test \in Firmware!Test \cap lane_fresh
         /\ row.hits = HITS[row.test] /\ trace[row.test].hits = HITS[row.test]
         /\ trace[row.test].core = "sound" /\ trace[row.test].clean
<1>1. Good(c, row)
  BY DEF LaneStands, Firmware!Summary
<1>2. Stems(c) \subseteq Firmware!Test
  BY StemsOf, Tests
<1>3. MUTATED \in Stems("closure")
  BY StemsOf, TestsAssumption
<1>4. row.test # MUTATED \/ ~ Firmware!Began("mutation")
  BY <1>1, <1>3, Apart DEF Good
<1> QED BY <1>1, <1>2, <1>4 DEF Good

LEMMA TimerEnd ==
  ASSUME LaneTypes, Firmware!TimerCoverage, LaneStands("timer")
  PROVE  LaneEnd("timer_coverage", TRUE) \/ LaneEnd("timer_coverage", FALSE)
<1> DEFINE ok == /\ Firmware!Passed(lane_report["timer"].rows) # {}
                 /\ REQUIRED["timer_coverage"] \subseteq Firmware!TraceHits("timer")
<1>1. /\ Firmware!Done("timer_coverage") /\ Firmware!Ends(ok)
      /\ UNCHANGED <<lane_makes, begun, trace, cover, lane_report, lane_fresh>>
  BY DEF Firmware!TimerCoverage
<1>2. ASSUME ok PROVE LaneStands("timer_coverage")
  <2>1. ASSUME NEW point \in REQUIRED["timer_coverage"]
        PROVE  \E row \in lane_report["timer"].rows : point \in HITS[row.test]
    <3>1. PICK row \in Firmware!Traced("timer") : point \in trace[row.test].hits
      BY <1>2 DEF Firmware!TraceHits
    <3>2. row \in lane_report["timer"].rows
      BY DEF Firmware!Traced, Firmware!Passed
    <3> QED BY <3>1, <3>2, TracedSo
  <2> QED BY <2>1 DEF LaneStands, Firmware!Summary
<1> HIDE DEF ok
<1> QED BY <1>1, <1>2, QuietEnd

LEMMA RobustEnd ==
  ASSUME LaneTypes, Firmware!Robustness,
         begun # <<"robustness">> =>
           LaneStands("closure") /\ LaneStands("variants") /\ LaneStands("timer") /\ ~ Firmware!Began("mutation")
  PROVE  LaneEnd("robustness", TRUE) \/ LaneEnd("robustness", FALSE)
<1> DEFINE ok == /\ lane_report["closure"].rows # {}
                 /\ \A point \in REQUIRED["robustness"] : Firmware!TwoOrMore(Firmware!Contributors(point))
<1>1. /\ Firmware!Done("robustness") /\ Firmware!Ends(ok)
      /\ UNCHANGED <<lane_makes, begun, trace, cover, lane_report, lane_fresh>>
  BY DEF Firmware!Robustness
<1>2. ASSUME ok, begun # <<"robustness">> PROVE
        \A point \in REQUIRED["robustness"] :
          Firmware!TwoOrMore({t \in Firmware!Test \cap lane_fresh :
                                point \in HITS[t] /\ trace[t].core = "sound" /\ trace[t].clean})
  <2> TAKE point \in REQUIRED["robustness"]
  <2> DEFINE good == {t \in Firmware!Test \cap lane_fresh :
                        point \in HITS[t] /\ trace[t].core = "sound" /\ trace[t].clean}
  <2>1. ASSUME NEW row \in lane_report["closure"].rows, point \in row.hits PROVE row.test \in good
    BY <1>2, <2>1, TracedSo
  <2>2. ASSUME NEW c \in {"variants", "timer"}, NEW row \in Firmware!Traced(c), point \in trace[row.test].hits
        PROVE  row.test \in good
    <3>1. row \in lane_report[c].rows
      BY DEF Firmware!Traced, Firmware!Passed
    <3> QED BY <1>2, <2>2, <3>1, TracedSo
  <2>3. Firmware!Contributors(point) \subseteq good
    BY <2>1, <2>2 DEF Firmware!Contributors
  <2>4. Firmware!TwoOrMore(Firmware!Contributors(point))
    BY <1>2
  <2> HIDE DEF good
  <2>5. Firmware!TwoOrMore(good)
    BY <2>3, <2>4 DEF Firmware!TwoOrMore
  <2> QED BY <2>5 DEF good
<1>3. ok => LaneStands("robustness")
  BY <1>2 DEF LaneStands, Firmware!Summary
<1> HIDE DEF ok
<1> QED BY <1>1, <1>3, QuietEnd

LEMMA OtherEnd ==
  ASSUME LaneTypes, Firmware!Smoke \/ Firmware!Mutation \/ Firmware!RtlMutationCheck \/ Firmware!Isa
  PROVE  \E d \in {"smoke", "mutation", "rtl_mutation", "isa"} : LaneEnd(d, TRUE) \/ LaneEnd(d, FALSE)
<1>1. \A d \in {"smoke", "mutation", "rtl_mutation", "isa"} : LaneStands(d)
  BY DEF LaneStands, Firmware!Summary
<1>2. CASE Firmware!Smoke
  <2> DEFINE ok == Firmware!Elements(lane_rows) = Firmware!Passed(Firmware!Elements(lane_rows))
  <2>1. /\ Firmware!Done("smoke") /\ Firmware!Ends(ok)
        /\ UNCHANGED <<lane_makes, begun, trace, cover, lane_report, lane_fresh>>
    BY <1>2 DEF Firmware!Smoke
  <2> HIDE DEF ok
  <2> QED BY <1>1, <2>1, QuietEnd
<1>3. CASE Firmware!Mutation
  <2> DEFINE ok == /\ lane_rows[1].status = "FAIL" /\ lane_rows[1].checker
                   /\ lane_rows[2].status = "FAIL" /\ lane_rows[2].dirty
  <2>1. /\ Firmware!Done("mutation") /\ Firmware!Ends(ok)
        /\ UNCHANGED <<lane_makes, begun, trace, cover, lane_report, lane_fresh>>
    BY <1>3 DEF Firmware!Mutation
  <2> HIDE DEF ok
  <2> QED BY <1>1, <2>1, QuietEnd
<1>4. CASE Firmware!RtlMutationCheck
  <2> DEFINE ok == lane_rows[1].status = "FAIL" /\ (lane_rows[1].dirty \/ lane_rows[1].checker)
  <2>1. /\ Firmware!Done("rtl_mutation") /\ Firmware!Ends(ok)
        /\ UNCHANGED <<lane_makes, begun, trace, cover, lane_report, lane_fresh>>
    BY <1>4 DEF Firmware!RtlMutationCheck
  <2> HIDE DEF ok
  <2> QED BY <1>1, <2>1, QuietEnd
<1>5. CASE Firmware!Isa
  <2> DEFINE ok == REQUIRED["isa"] \subseteq lane_report["closure"].hits
  <2>1. /\ Firmware!Done("isa") /\ Firmware!Ends(ok)
        /\ UNCHANGED <<lane_makes, begun, trace, cover, lane_report, lane_fresh>>
    BY <1>5 DEF Firmware!Isa
  <2> HIDE DEF ok
  <2> QED BY <1>1, <2>1, QuietEnd
<1> QED BY <1>2, <1>3, <1>4, <1>5

-----------------------------------------------------------------------------
LEMMA StemsNoSummary == Firmware!Stem \cap Firmware!Summary = {}
BY Tests DEF Names, Firmware!Stem, Firmware!Summary, Firmware!MutationIss, Firmware!RtlMutation

LEMMA SimulateSo ==
  ASSUME LaneTypes, NEW c \in Firmware!Command, RowsSo(c), Firmware!Simulate(c)
  PROVE  /\ LaneTypes' /\ RowsSo(c)'
         /\ UNCHANGED <<lane_makes, begun, todo, lane_report, lane_verdict>>
         /\ lane_fresh \subseteq lane_fresh' /\ lane_fresh' \cap Firmware!Summary = lane_fresh \cap Firmware!Summary
         /\ \A s \in Firmware!Stem \ Stems(c) : trace'[s] = trace[s]
<1> DEFINE n == Len(lane_rows)
           sim == Firmware!Jobs(c)[n + 1]
<1>1. PICK o \in Firmware!Outcome, checker \in BOOLEAN :
        LET shown == Firmware!Decoded(sim.test, o.result)
            status == IF c = "soc" THEN Firmware!SocStatus(o.result) ELSE Firmware!Status(o.result, o.clean)
        IN /\ checker => status # "PASS" /\ sim.core = "defective"
           /\ trace' = [trace EXCEPT ![sim.stem] = [core |-> sim.core, clean |-> o.clean, hits |-> shown]]
           /\ cover' = [cover EXCEPT ![sim.stem] = IF o.result = "none" THEN @ ELSE shown]
           /\ lane_fresh' = lane_fresh \cup {sim.stem}
           /\ lane_rows' = Append(lane_rows,
                [test |-> sim.test, status |-> IF status = "PASS" THEN "PASS" ELSE "FAIL",
                 hits |-> Firmware!Points(c, sim.test, o.result, cover'[sim.stem]),
                 dirty |-> ~o.clean, checker |-> checker])
  BY DEF Firmware!Simulate
<1>2. /\ UNCHANGED <<lane_makes, begun, todo, lane_report, lane_verdict>> /\ n < Len(Firmware!Jobs(c))
  BY DEF Firmware!Simulate
<1>3. n \in Nat /\ n + 1 \in 1 .. Len(Firmware!Jobs(c)) /\ JobsTyped(c)
  BY <1>2, JobsSo DEF RowsSo, JobsTyped
<1>4. /\ sim.test \in Firmware!Test /\ sim.stem \in Firmware!Stem \cap Stems(c) /\ sim.core \in {"sound", "defective"}
      /\ c \in Firmware!Summary => sim.stem = sim.test /\ sim.core = "sound"
  BY <1>3 DEF JobsTyped
<1>5. sim = Firmware!Jobs(c)[n + 1]
  OBVIOUS
<1> DEFINE status == IF c = "soc" THEN Firmware!SocStatus(o.result) ELSE Firmware!Status(o.result, o.clean)
           new == [test |-> sim.test, status |-> IF status = "PASS" THEN "PASS" ELSE "FAIL",
                   hits |-> Firmware!Points(c, sim.test, o.result, cover'[sim.stem]),
                   dirty |-> ~o.clean, checker |-> checker]
<1>6. /\ trace' = [trace EXCEPT ![sim.stem] = [core |-> sim.core, clean |-> o.clean,
                                               hits |-> Firmware!Decoded(sim.test, o.result)]]
      /\ cover' = [cover EXCEPT ![sim.stem] = IF o.result = "none" THEN @ ELSE Firmware!Decoded(sim.test, o.result)]
      /\ lane_fresh' = lane_fresh \cup {sim.stem} /\ lane_rows' = Append(lane_rows, new)
  BY <1>1
<1>7. o.clean \in BOOLEAN
  BY DEF Firmware!Outcome
<1>8. new.status = "PASS" /\ c \in Firmware!Summary => o.result = "PASS" /\ (o.clean \/ c = "soc")
  BY DEF Firmware!SocStatus, Firmware!Status
<1>9. new.test = sim.test /\ new.status \in {"PASS", "FAIL"}
  OBVIOUS
<1>10. new.status = "PASS" /\ c \in Firmware!Summary => new.hits = HITS[sim.test]
  <2>1. SUFFICES ASSUME o.result = "PASS" PROVE new.hits = HITS[sim.test]
    BY <1>8
  <2>2. cover'[sim.stem] = Firmware!Decoded(sim.test, o.result)
    BY <1>4, <1>6, <2>1 DEF LaneTypes
  <2>3. Firmware!Decoded(sim.test, o.result) = HITS[sim.test]
    BY <2>1 DEF Firmware!Decoded
  <2>4. Firmware!Points(c, sim.test, o.result, HITS[sim.test]) = HITS[sim.test]
    BY <2>3 DEF Firmware!Points
  <2> QED BY <2>2, <2>3, <2>4
<1> HIDE DEF sim, new
<1>11. LaneTypes'
  BY <1>2, <1>4, <1>6, <1>7 DEF LaneTypes
<1>12. \A s \in Firmware!Stem \ Stems(c) : trace'[s] = trace[s]
  BY <1>4, <1>6 DEF LaneTypes
<1>13. lane_fresh \subseteq lane_fresh' /\ lane_fresh' \cap Firmware!Summary = lane_fresh \cap Firmware!Summary
  BY <1>4, <1>6, StemsNoSummary
<1>14. RowsSo(c)'
  <2>1. /\ Len(lane_rows') = n + 1 /\ lane_rows' = [i \in 1 .. Len(lane_rows') |-> lane_rows'[i]]
        /\ \A i \in 1 .. n : lane_rows'[i] = lane_rows[i]
        /\ lane_rows'[n + 1] = new
    <3>1. lane_rows \in Seq({lane_rows[i] : i \in 1 .. n} \cup {new})
      <4>1. lane_rows \in [1 .. n -> {lane_rows[i] : i \in 1 .. n} \cup {new}]
        BY DEF RowsSo
      <4> QED BY <1>3, <4>1, SeqDef
    <3>2. lane_rows = [i \in 1 .. n |-> lane_rows[i]]
      BY DEF RowsSo
    <3> DEFINE T == {lane_rows[i] : i \in 1 .. n} \cup {new}
    <3>3. lane_rows \in Seq(T) /\ new \in T
      BY <3>1
    <3> HIDE DEF T
    <3>4. /\ Append(lane_rows, new) \in Seq(T) /\ Len(Append(lane_rows, new)) = n + 1
          /\ \A i \in 1 .. n : Append(lane_rows, new)[i] = lane_rows[i]
          /\ Append(lane_rows, new)[n + 1] = new
      BY <3>3
    <3>5. lane_rows' = [i \in 1 .. Len(lane_rows') |-> lane_rows'[i]]
      <4>1. lane_rows' \in Seq(T)
        BY <1>6, <3>4
      <4>2. lane_rows' \in [1 .. Len(lane_rows') -> T]
        BY <4>1, LenProperties
      <4> QED BY <4>2
    <3> QED BY <1>6, <3>4, <3>5
  <2>2. \A i \in 1 .. n + 1 : lane_rows'[i].test = Firmware!Jobs(c)[i].test /\ lane_rows'[i].status \in {"PASS", "FAIL"}
    BY <1>3, <1>5, <1>9, <2>1 DEF RowsSo
  <2>3. ASSUME c \in Firmware!Summary, \A i \in 1 .. n + 1 : lane_rows'[i].status = "PASS", NEW i \in 1 .. n + 1
        PROVE  Good(c, lane_rows[i])'
    <3>1. new.status = "PASS"
      BY <1>3, <2>1, <2>3
    <3>2. /\ trace'[sim.test].core = "sound" /\ (trace'[sim.test].clean \/ c = "soc")
          /\ trace'[sim.test].hits = HITS[sim.test] /\ sim.test \in lane_fresh' /\ new.hits = HITS[sim.test]
      BY <1>4, <1>6, <1>8, <1>10, <2>3, <3>1 DEF LaneTypes, Firmware!Decoded
    <3>3. CASE i = n + 1
      BY <1>4, <1>9, <2>1, <2>3, <3>1, <3>2, <3>3 DEF Good
    <3>4. CASE i \in 1 .. n
      <4>1. Good(c, lane_rows[i])
        BY <1>3, <2>1, <2>3, <3>4 DEF RowsSo
      <4>2. Firmware!Began("mutation")' = Firmware!Began("mutation")
        BY <1>2 DEF Firmware!Began, Firmware!Elements
      <4>3. lane_rows[i].test # sim.test => trace'[lane_rows[i].test] = trace[lane_rows[i].test]
        BY <1>4, <1>6, <2>3, <4>1, SummaryStems DEF LaneTypes, Good
      <4>4. lane_rows'[i] = lane_rows[i]
        BY <2>1, <3>4
      <4> QED BY <1>13, <3>2, <4>1, <4>2, <4>3, <4>4 DEF Good
    <3> QED BY <1>3, <3>3, <3>4
  <2> QED BY <1>2, <1>3, <2>1, <2>2, <2>3 DEF RowsSo
<1> QED BY <1>2, <1>11, <1>12, <1>13, <1>14

-----------------------------------------------------------------------------
\* The first k commands of the recipe are done and what they vouch for stands.
DoneSo(k) ==
  /\ lane_fresh \cap Firmware!Summary \subseteq {begun[i] : i \in 1 .. k}
  /\ \A i \in 1 .. k : LaneStands(begun[i])

LaneInv ==
  LET n == Len(begun)
      left == Len(todo)
  IN /\ LaneTypes
     /\ begun \in Firmware!Recipes \cup {<<>>} /\ todo \in Seq(Firmware!Command)
     /\ todo = <<>> => lane_rows = <<>>
     /\ todo # <<>> =>
          /\ begun \in Firmware!Recipes /\ lane_verdict = "running"
          /\ left \in 1 .. n /\ \A i \in 1 .. left : todo[i] = begun[n - left + i]
          /\ DoneSo(n - left) /\ RowsSo(Head(todo))
     /\ lane_verdict = "green" => begun \in Firmware!Recipes /\ DoneSo(n)

LEMMA NoRows == lane_rows = <<>> => \A c \in Firmware!Command : RowsSo(c)
<1> SUFFICES ASSUME lane_rows = <<>>, NEW c \in Firmware!Command PROVE RowsSo(c)
  OBVIOUS
<1>1. Len(lane_rows) = 0 /\ lane_rows = [i \in 1 .. 0 |-> lane_rows[i]]
  OBVIOUS
<1>2. Len(Firmware!Jobs(c)) \in Nat
  BY JobsSo DEF JobsTyped
<1> QED BY <1>1, <1>2 DEF RowsSo

LEMMA LaneInit == Firmware!Init => LaneInv
<1> SUFFICES ASSUME Firmware!Init PROVE LaneInv
  OBVIOUS
<1>1. LaneTypes
  <2>1. /\ trace = [s \in Firmware!Stem |-> trace[s]]
        /\ \A s \in Firmware!Stem : trace[s].core = "none" /\ trace[s].clean = FALSE
    BY DEF Firmware!Init, Firmware!None
  <2>2. cover = [s \in Firmware!Stem |-> cover[s]]
    BY DEF Firmware!Init
  <2>3. /\ lane_report = [c \in Firmware!Summary |-> lane_report[c]]
        /\ \A c \in Firmware!Summary : lane_report[c].rows = {}
    BY DEF Firmware!Init
  <2>4. lane_makes \in 0 .. MAKES /\ lane_fresh = {} /\ lane_verdict = "none"
    BY MakesAssumption DEF Firmware!Init
  <2> QED BY <2>1, <2>2, <2>3, <2>4 DEF LaneTypes
<1>2. <<>> \in Seq(Firmware!Command)
  OBVIOUS
<1> QED BY <1>1, <1>2 DEF Firmware!Init, LaneInv

LEMMA LaneEnds ==
  ASSUME LaneInv, todo # <<>>, NEW ok \in BOOLEAN, NEW d, d = Head(todo), LaneEnd(d, ok)
  PROVE  LaneInv'
<1> DEFINE n == Len(begun)
           left == Len(todo)
<1>1. /\ begun \in Firmware!Recipes /\ left \in 1 .. n /\ \A i \in 1 .. left : todo[i] = begun[n - left + i]
      /\ DoneSo(n - left) /\ todo \in Seq(Firmware!Command)
  BY DEF LaneInv
<1>2. LaneOrderly(begun) /\ n \in Nat \ {0}
  BY <1>1, LaneRecipes DEF LaneOrderly
<1>3. d = todo[1] /\ d = begun[n - left + 1] /\ d \in Firmware!Command
  BY <1>1
<1>4. /\ begun' = begun /\ trace' = trace /\ LaneTypes' /\ lane_fresh \subseteq lane_fresh'
      /\ lane_fresh' \cap Firmware!Summary \subseteq (lane_fresh \cap Firmware!Summary) \cup {d}
      /\ \A e \in Firmware!Summary \ {d} : lane_report'[e] = lane_report[e]
      /\ ok => LaneStands(d)'
  BY DEF LaneEnd
<1>7. /\ lane_rows' = <<>> /\ todo' = (IF ok THEN Tail(todo) ELSE <<>>)
      /\ lane_verdict' = (IF ~ok THEN "red" ELSE IF left = 1 THEN "green" ELSE "running")
  BY DEF LaneEnd, Firmware!Ends, Firmware!ExitCode
<1>8. PICK k : k = n - left + 1
  OBVIOUS
<1>9. /\ k \in 1 .. n /\ n - left = k - 1 /\ left = n - k + 1 /\ 1 .. n - left = 1 .. k - 1
      /\ 1 .. k - 1 \subseteq 1 .. n /\ \A i \in 1 .. k : i = k \/ i \in 1 .. k - 1
      /\ 1 .. k - 1 \subseteq 1 .. k
  <2> HIDE DEF n, left
  <2> QED BY <1>1, <1>2, <1>8
<1>10. d = begun[k]
  BY <1>3, <1>8
<1>5. CASE ~ok
  <2>1. <<>> \in Seq(Firmware!Command) /\ todo' = <<>> /\ lane_verdict' = "red"
    BY <1>5, <1>7
  <2> QED BY <1>1, <1>4, <1>7, <2>1 DEF LaneInv
<1>6. CASE ok
  <2>1. ASSUME NEW c, NEW i \in 1 .. k - 1, c = begun[i] PROVE LaneStands(c)'
    <3>1. LaneStands(c)
      BY <1>1, <1>9, <2>1 DEF DoneSo
    <3>2. LaneBefore(c, d)
      BY <1>2, <1>9, <1>10, <2>1 DEF LaneOrderly
    <3>3. d = "mutation" => Firmware!Began(d)
      BY <1>9, <1>10 DEF Firmware!Began, Firmware!Elements
    <3> QED BY <1>4, <3>1, <3>2, <3>3, LaneStays
  <2>2. ASSUME NEW c, NEW i \in 1 .. k, c = begun[i] PROVE LaneStands(c)'
    <3>1. CASE i = k
      BY <1>4, <1>6, <1>10, <2>2, <3>1
    <3>2. CASE i \in 1 .. k - 1
      BY <2>1, <2>2, <3>2
    <3> QED BY <1>9, <3>1, <3>2
  <2>3. lane_fresh' \cap Firmware!Summary \subseteq {begun[i] : i \in 1 .. k}
    <3>1. lane_fresh \cap Firmware!Summary \subseteq {begun[i] : i \in 1 .. k - 1}
      BY <1>1, <1>9 DEF DoneSo
    <3>2. k \in 1 .. k
      BY <1>9
    <3> QED BY <1>4, <1>9, <1>10, <3>1, <3>2
  <2>4. DoneSo(k)'
    BY <1>4, <2>2, <2>3 DEF DoneSo
  <2>5. /\ Tail(todo) \in Seq(Firmware!Command) /\ Len(Tail(todo)) = left - 1
        /\ \A i \in 1 .. left - 1 : Tail(todo)[i] = begun[n - (left - 1) + i]
    BY <1>1
  <2>8. \A c \in Firmware!Command : RowsSo(c)'
    <3>1. (lane_rows = <<>>)'
      BY <1>7
    <3>2. (\A c \in Firmware!Command : RowsSo(c))'
      BY <3>1, NoRows, PTL
    <3> QED BY <3>2
  <2>6. CASE left = 1
    <3>5. n = k
      <4> HIDE DEF n, left
      <4> QED BY <1>2, <1>8, <2>6
    <3>1. lane_verdict' = "green" /\ n = k /\ todo' = Tail(todo)
      BY <1>6, <1>7, <2>6, <3>5
    <3>2. todo' = <<>>
      BY <2>5, <2>6, <3>1
    <3>3. Len(begun') = k
      BY <1>4, <3>1
    <3>4. <<>> \in Seq(Firmware!Command)
      OBVIOUS
    <3> HIDE DEF n, left
    <3> QED BY <1>1, <1>4, <1>7, <2>4, <3>1, <3>2, <3>3, <3>4 DEF LaneInv
  <2>7. CASE left # 1
    <3>1. todo' = Tail(todo) /\ lane_verdict' = "running"
      BY <1>6, <1>7, <2>7
    <3>2. left - 1 \in 1 .. n /\ n - (left - 1) = k
      <4> HIDE DEF n, left
      <4> QED BY <1>1, <1>2, <1>8, <2>7
    <3>3. Tail(todo) # <<>>
      <4>1. left - 1 # 0 /\ Len(Tail(todo)) = left - 1
        <5> HIDE DEF left
        <5> QED BY <2>5, <3>2
      <4> HIDE DEF left
      <4> QED BY <4>1
    <3>4. Head(Tail(todo)) \in Firmware!Command
      BY <2>5, <3>3
    <3>5. RowsSo(Head(todo))'
      BY <2>8, <3>1, <3>4
    <3>6. Len(begun') = n /\ Len(todo') = left - 1
      BY <1>4, <2>5, <3>1
    <3>7. \A i \in 1 .. left - 1 : todo'[i] = begun'[n - (left - 1) + i]
      BY <1>4, <2>5, <3>1
    <3>8. todo' \in Seq(Firmware!Command) /\ todo' # <<>>
      BY <2>5, <3>1, <3>3
    <3> HIDE DEF n, left
    <3> QED BY <1>1, <1>4, <1>7, <2>4, <3>1, <3>2, <3>5, <3>6, <3>7, <3>8 DEF LaneInv
  <2> QED BY <2>6, <2>7
<1> QED BY <1>5, <1>6

-----------------------------------------------------------------------------
\* A simulation leaves alone what the commands before it vouch for.
LEMMA LaneSimulate ==
  ASSUME LaneInv, NEW c \in Firmware!Command, Firmware!Simulate(c)
  PROVE  LaneInv'
<1> DEFINE n == Len(begun)
           left == Len(todo)
<1>1. /\ todo # <<>> /\ Head(todo) = c
  BY DEF Firmware!Simulate, Firmware!Busy
<1>2. /\ begun \in Firmware!Recipes /\ lane_verdict = "running" /\ left \in 1 .. n
      /\ \A i \in 1 .. left : todo[i] = begun[n - left + i]
      /\ DoneSo(n - left) /\ RowsSo(c) /\ todo \in Seq(Firmware!Command) /\ LaneTypes
  BY <1>1 DEF LaneInv
<1>3. LaneOrderly(begun) /\ n \in Nat \ {0}
  BY <1>2, LaneRecipes DEF LaneOrderly
<1>4. /\ LaneTypes' /\ RowsSo(c)'
      /\ UNCHANGED <<lane_makes, begun, todo, lane_report, lane_verdict>>
      /\ lane_fresh \subseteq lane_fresh' /\ lane_fresh' \cap Firmware!Summary = lane_fresh \cap Firmware!Summary
      /\ \A s \in Firmware!Stem \ Stems(c) : trace'[s] = trace[s]
  BY <1>2, SimulateSo
<1>5. PICK k : k = n - left + 1
  OBVIOUS
<1>6. /\ k \in 1 .. n /\ n - left = k - 1 /\ 1 .. n - left = 1 .. k - 1
      /\ \A i \in 1 .. k - 1 : i \in 1 .. n /\ i < k
  <2> HIDE DEF n, left
  <2> QED BY <1>2, <1>3, <1>5
<1>7. c = begun[k]
  BY <1>1, <1>2, <1>5
<1>8. ASSUME NEW e, NEW i \in 1 .. k - 1, e = begun[i] PROVE LaneStands(e)'
  <2>1. LaneStands(e)
    BY <1>2, <1>6, <1>8 DEF DoneSo
  <2>2. LaneBefore(e, c)
    BY <1>3, <1>6, <1>7, <1>8 DEF LaneOrderly
  <2>3. c = "mutation" => Firmware!Began(c)
    BY <1>6, <1>7 DEF Firmware!Began, Firmware!Elements
  <2> QED BY <1>4, <2>1, <2>2, <2>3, LaneStays
<1>9. DoneSo(k - 1)'
  <2>1. lane_fresh \cap Firmware!Summary \subseteq {begun[i] : i \in 1 .. k - 1}
    BY <1>2, <1>6 DEF DoneSo
  <2> QED BY <1>4, <1>8, <2>1 DEF DoneSo
<1>10. RowsSo(Head(todo))'
  BY <1>1, <1>4
<1>11. Len(begun') = n /\ Len(todo') = left /\ begun' = begun /\ todo' = todo
  BY <1>4
<1>12. DoneSo(n - left)'
  <2>1. (n - left = k - 1)'
    BY <1>6, <1>11
  <2> HIDE DEF n, left
  <2> QED BY <1>9, <2>1
<1>13. lane_verdict' = "running" /\ \A i \in 1 .. left : todo'[i] = begun'[n - left + i]
  BY <1>2, <1>4
<1> QED BY <1>1, <1>2, <1>4, <1>10, <1>11, <1>12, <1>13 DEF LaneInv

LEMMA LaneRaise ==
  ASSUME LaneInv, Firmware!Raise
  PROVE  LaneInv'
<1>1. todo' = <<>> /\ lane_rows' = <<>> /\ lane_verdict' = "red" /\ <<>> \in Seq(Firmware!Command)
      /\ UNCHANGED <<lane_makes, begun, trace, cover, lane_report, lane_fresh>>
  BY DEF Firmware!Raise
<1>2. LaneTypes'
  BY <1>1 DEF LaneInv, LaneTypes
<1> QED BY <1>1, <1>2 DEF LaneInv

LEMMA LaneMake ==
  ASSUME LaneInv, Firmware!Make
  PROVE  LaneInv'
<1>1. /\ lane_makes < MAKES /\ lane_makes' = lane_makes + 1
      /\ todo' \in Firmware!Recipes /\ begun' = todo' /\ lane_fresh' = {} /\ lane_verdict' = "running"
      /\ todo = <<>> /\ UNCHANGED <<lane_rows, trace, cover, lane_report>>
  BY DEF Firmware!Make
<1>2. LaneTypes'
  <2>1. lane_makes' \in 0 .. MAKES
    BY <1>1, MakesAssumption DEF LaneInv, LaneTypes
  <2> QED BY <1>1, <2>1 DEF LaneInv, LaneTypes
<1>3. LaneOrderly(todo')
  BY <1>1, LaneRecipes
<1>4. PICK r : r = todo'
  OBVIOUS
<1>5. r \in Seq(Firmware!Command) /\ Len(r) \in Nat \ {0} /\ r # <<>>
  BY <1>3, <1>4 DEF LaneOrderly
<1>6. Head(r) \in Firmware!Command
  BY <1>5
<1>7. RowsSo(Head(r))'
  <2>1. (lane_rows = <<>>)'
    BY <1>1 DEF LaneInv
  <2>2. (\A c \in Firmware!Command : RowsSo(c))'
    BY <2>1, NoRows, PTL
  <2> QED BY <1>6, <2>2
<1>8. RowsSo(Head(todo))'
  BY <1>4, <1>7
<1>9. DoneSo(0)'
  <2>1. lane_fresh' \cap Firmware!Summary \subseteq {} /\ 1 .. 0 = {}
    BY <1>1
  <2> QED BY <2>1 DEF DoneSo
<1>10. PICK m : m = Len(r)
  OBVIOUS
<1>11. m \in 1 .. m /\ m - m = 0 /\ \A i \in 1 .. m : m - m + i = i
  BY <1>5, <1>10
<1>12. Len(begun)' = m /\ Len(todo)' = m
  BY <1>1, <1>4, <1>10
<1>13. DoneSo(Len(begun) - Len(todo))'
  <2>1. (Len(begun) - Len(todo) = 0)'
    BY <1>11, <1>12
  <2> QED BY <1>9, <2>1
<1>14. /\ (Len(todo) \in 1 .. Len(begun))'
       /\ (\A i \in 1 .. Len(todo) : todo[i] = begun[Len(begun) - Len(todo) + i])'
  BY <1>1, <1>11, <1>12
<1>15. todo' # <<>> /\ todo' \in Seq(Firmware!Command)
  BY <1>4, <1>5
<1> QED BY <1>1, <1>2, <1>8, <1>13, <1>14, <1>15 DEF LaneInv

LEMMA LaneStutter ==
  ASSUME LaneInv, UNCHANGED <<lane_makes, begun, todo, lane_rows, trace, cover, lane_report, lane_fresh, lane_verdict>>
  PROVE  LaneInv'
<1>1. \A c, row : Good(c, row)' = Good(c, row)
  BY DEF Good, Firmware!Began, Firmware!Elements
<1>2. \A c : LaneStands(c)' = LaneStands(c)
  BY <1>1 DEF LaneStands
<1>3. \A c : RowsSo(c)' = RowsSo(c)
  BY <1>1 DEF RowsSo
<1>4. \A k : DoneSo(k)' = DoneSo(k)
  BY <1>2 DEF DoneSo
<1>5. LaneTypes' = LaneTypes
  BY DEF LaneTypes
<1> QED BY <1>2, <1>3, <1>4, <1>5 DEF LaneInv

-----------------------------------------------------------------------------
\* The commands before the one that is running.
LEMMA BeforeHead ==
  ASSUME LaneInv, NEW d, todo # <<>>, Head(todo) = d
  PROVE  /\ d = "timer_coverage" => LaneStands("timer")
         /\ d = "robustness" /\ begun # <<"robustness">> =>
              LaneStands("closure") /\ LaneStands("variants") /\ LaneStands("timer") /\ ~ Firmware!Began("mutation")
<1> DEFINE n == Len(begun)
           left == Len(todo)
<1>1. /\ begun \in Firmware!Recipes /\ left \in 1 .. n /\ \A i \in 1 .. left : todo[i] = begun[n - left + i]
      /\ DoneSo(n - left)
  BY DEF LaneInv
<1>2. LaneOrderly(begun) /\ n \in Nat \ {0}
  BY <1>1, LaneRecipes DEF LaneOrderly
<1>3. PICK k : k = n - left + 1
  OBVIOUS
<1>4. k \in 1 .. n /\ n - left = k - 1
  <2> HIDE DEF n, left
  <2> QED BY <1>1, <1>2, <1>3
<1>5. d = begun[k]
  BY <1>1, <1>3
<1>6. ASSUME NEW c, \E i \in 1 .. k - 1 : begun[i] = c PROVE LaneStands(c)
  BY <1>1, <1>4, <1>6 DEF DoneSo
<1>7. d = "timer_coverage" => LaneStands("timer")
  BY <1>2, <1>4, <1>5, <1>6 DEF LaneOrderly
<1>8. ASSUME d = "robustness", begun # <<"robustness">>
      PROVE  LaneStands("closure") /\ LaneStands("variants") /\ LaneStands("timer") /\ ~ Firmware!Began("mutation")
  <2>1. /\ \E i \in 1 .. k - 1 : begun[i] = "closure"
        /\ \E i \in 1 .. k - 1 : begun[i] = "variants"
        /\ \E i \in 1 .. k - 1 : begun[i] = "timer"
        /\ \A i \in 1 .. n : begun[i] # "mutation"
    BY <1>2, <1>4, <1>5, <1>8 DEF LaneOrderly
  <2>2. ~ Firmware!Began("mutation")
    BY <2>1 DEF Firmware!Began, Firmware!Elements
  <2> QED BY <1>6, <2>1, <2>2
<1> QED BY <1>7, <1>8

LEMMA LaneAdvances == LaneInv /\ [Firmware!Next]_laneVars => LaneInv'
<1> SUFFICES ASSUME LaneInv, [Firmware!Next]_laneVars PROVE LaneInv'
  OBVIOUS
<1>0. LaneTypes
  BY DEF LaneInv
<1>1. ASSUME NEW d, NEW ok \in BOOLEAN, LaneEnd(d, ok) PROVE LaneInv'
  <2>1. todo # <<>> /\ Head(todo) = d
    BY <1>1 DEF LaneEnd, Firmware!Done, Firmware!Busy
  <2> QED BY <1>1, <2>1, LaneEnds
<1>2. ASSUME NEW c \in Firmware!Summary, Firmware!Report(c) PROVE LaneInv'
  <2>1. RowsSo(c)
    BY <1>2 DEF LaneInv, Firmware!Report, Firmware!Done, Firmware!Busy
  <2>2. LaneEnd(c, TRUE) \/ LaneEnd(c, FALSE)
    BY <1>0, <1>2, <2>1, ReportEnd
  <2> QED BY <1>1, <2>2
<1>3. CASE Firmware!CompiledReport \/ Firmware!VariantReport \/ Firmware!TimerReport \/ Firmware!PrivilegedReport \/ Firmware!SocReport
  <2>1. \E c \in Firmware!Summary : Firmware!Report(c)
    BY <1>3 DEF Firmware!Summary, Firmware!CompiledReport, Firmware!VariantReport, Firmware!TimerReport,
                Firmware!PrivilegedReport, Firmware!SocReport
  <2> QED BY <1>2, <2>1
<1>4. CASE Firmware!Smoke \/ Firmware!Mutation \/ Firmware!RtlMutationCheck \/ Firmware!Isa
  BY <1>0, <1>1, <1>4, OtherEnd
<1>5. CASE Firmware!TimerCoverage
  <2>1. todo # <<>> /\ Head(todo) = "timer_coverage"
    BY <1>5 DEF Firmware!TimerCoverage, Firmware!Done, Firmware!Busy
  <2>2. LaneStands("timer")
    BY <2>1, BeforeHead
  <2> QED BY <1>0, <1>1, <1>5, <2>2, TimerEnd
<1>6. CASE Firmware!Robustness
  <2>1. todo # <<>> /\ Head(todo) = "robustness"
    BY <1>6 DEF Firmware!Robustness, Firmware!Done, Firmware!Busy
  <2>2. begun # <<"robustness">> =>
          LaneStands("closure") /\ LaneStands("variants") /\ LaneStands("timer") /\ ~ Firmware!Began("mutation")
    BY <2>1, BeforeHead
  <2> QED BY <1>0, <1>1, <1>6, <2>2, RobustEnd
<1>7. CASE \E c \in Firmware!Command : Firmware!Simulate(c)
  BY <1>7, LaneSimulate
<1>8. CASE Firmware!Raise
  BY <1>8, LaneRaise
<1>9. CASE Firmware!Make
  BY <1>9, LaneMake
<1>10. CASE UNCHANGED laneVars
  <2>1. UNCHANGED <<lane_makes, begun, todo, lane_rows, trace, cover, lane_report, lane_fresh, lane_verdict>>
    BY <1>10 DEF laneVars
  <2> QED BY <2>1, LaneStutter
<1> QED BY <1>3, <1>4, <1>5, <1>6, <1>7, <1>8, <1>9, <1>10 DEF Firmware!Next

LEMMA LaneShows == LaneInv => Firmware!TypeOK /\ GreenStands
<1> SUFFICES ASSUME LaneInv PROVE Firmware!TypeOK /\ GreenStands
  OBVIOUS
<1>1. Firmware!TypeOK
  BY DEF LaneInv, LaneTypes, Firmware!TypeOK
<1>2. ASSUME lane_verdict = "green", NEW c, Firmware!Began(c) PROVE LaneStands(c)
  BY <1>2 DEF LaneInv, DoneSo, Firmware!Began, Firmware!Elements
<1>3. ASSUME lane_verdict = "green", NEW c \in lane_fresh \cap Firmware!Summary
      PROVE  LaneStands(c)
  <2>1. Firmware!Began(c)
    BY <1>3 DEF LaneInv, DoneSo, Firmware!Began, Firmware!Elements
  <2> QED BY <1>2, <1>3, <2>1
<1>4. ASSUME lane_verdict = "green", NEW c \in lane_fresh \cap Firmware!Summary, NEW row \in lane_report[c].rows
      PROVE  Good(c, row)
  BY <1>3, <1>4 DEF LaneStands
<1>5. Firmware!EvidenceStands
  BY <1>4 DEF Good, Firmware!EvidenceStands
<1>6. Firmware!CoverageIsOfThisRecipe
  <2> SUFFICES ASSUME lane_verdict = "green" PROVE Firmware!CoverageIsOfThisRecipe
    BY DEF Firmware!CoverageIsOfThisRecipe
  <2>1. ASSUME NEW c \in lane_fresh \cap Firmware!Summary, NEW point \in REQUIRED[c]
        PROVE  \E row \in Firmware!Passed(lane_report[c].rows) : row.test \in lane_fresh /\ point \in HITS[row.test]
    <3>1. PICK row \in lane_report[c].rows : point \in row.hits
      BY <1>3, <2>1 DEF LaneStands
    <3> QED BY <1>4, <3>1 DEF Good, Firmware!Passed
  <2>2. ASSUME Firmware!Began("timer_coverage"), NEW point \in REQUIRED["timer_coverage"]
        PROVE  \E row \in Firmware!Passed(lane_report["timer"].rows) : row.test \in lane_fresh /\ point \in HITS[row.test]
    <3>1. PICK row \in lane_report["timer"].rows : point \in HITS[row.test]
      BY <1>2, <2>2 DEF LaneStands
    <3>2. LaneStands("timer")
      <4>1. begun \in Firmware!Recipes
        BY DEF LaneInv
      <4>2. Firmware!Began("timer")
        BY <2>2, <4>1, LaneRecipes DEF LaneOrderly, Firmware!Began, Firmware!Elements
      <4> QED BY <1>2, <4>2
    <3>3. Good("timer", row)
      BY <3>1, <3>2 DEF LaneStands, Firmware!Summary
    <3> QED BY <3>1, <3>3 DEF Good, Firmware!Passed
  <2>3. ASSUME Firmware!Began("robustness"), begun # <<"robustness">>, NEW point \in REQUIRED["robustness"]
        PROVE  Firmware!TwoOrMore({t \in Firmware!Test \cap lane_fresh :
                                     point \in HITS[t] /\ trace[t].core = "sound" /\ trace[t].clean})
    BY <1>2, <2>3 DEF LaneStands
  <2> QED BY <2>1, <2>2, <2>3 DEF Firmware!CoverageIsOfThisRecipe
<1> QED BY <1>1, <1>5, <1>6 DEF GreenStands

LEMMA LaneHolds == Firmware!Spec => [](Firmware!TypeOK /\ GreenStands)
<1>1. Firmware!Init => LaneInv
  BY LaneInit
<1>2. LaneInv /\ [Firmware!Next]_(Firmware!vars) => LaneInv'
  BY LaneAdvances DEF laneVars, Firmware!vars
<1> QED BY <1>1, <1>2, LaneShows, PTL DEF Firmware!Spec

\* For every list of tests, whatever files older recipes and dead simulations
\* left: every row that a green recipe reported passed, its trace is still that
\* of a sound core and without a mismatch (but for the one the mutation check
\* runs over), and all the coverage it required was hit by tests that passed in
\* it (run_compiled_firmware.py, gen_firmware_robustness.py, Makefile).
THEOREM GreenFirmwareStands == EvidenceSpec => []GreenStands
<1>1. Firmware!TypeOK /\ GreenStands => GreenStands
  OBVIOUS
<1> QED BY <1>1, LaneHolds, PartsBehave, PTL

-----------------------------------------------------------------------------
(* Types of the closure gate.                                                *)

Jobs == [pc : Pc, at : RunId, rows : SUBSET ManifestRow]

\* The files of a run, and what is reported of them.
FilesTyped ==
  /\ log \in [Lane -> [RunId -> Verdict]]
  /\ cov_csv \in [Lane -> SUBSET RunId] /\ power_csv \in [Lane -> SUBSET RunId]
  /\ written \in [Lane -> SUBSET RunId]

ReportsTyped ==
  /\ manifest \subseteq ManifestRow /\ summary \in [Lane -> SUBSET SummaryRow]
  /\ coverage \in [Lane -> SUBSET Bin] /\ power \in [Lane -> SUBSET PowerBin]

HistoryTyped == Len(history) <= HISTORY_ROWS /\ \E set : history \in Seq(set)

GateSelfTyped ==
  /\ makes \in 0 .. MAKES /\ goal \in Goal \cup {"none"}
  /\ target \in [Lane -> {"skip", "todo", "running", "ran", "checked"} \cup Bad]
  /\ gate.mode \in {"none", "nonuvm", "uvm", "equivalence"}

GateTyped == job \in [Lane -> Jobs] /\ FilesTyped /\ ReportsTyped /\ HistoryTyped /\ GateSelfTyped

LEMMA GateTypedSo == GateTyped => TypeOK
BY DEF GateTyped, TypeOK, Jobs, Pc, FilesTyped, ReportsTyped, HistoryTyped, GateSelfTyped

LEMMA GoesTyped ==
  ASSUME job \in [Lane -> Jobs], NEW l \in Lane, NEW pc \in Pc, GoTo(l, pc)
  PROVE  job' \in [Lane -> Jobs]
<1>1. job' = [job EXCEPT ![l] = [job[l] EXCEPT !.pc = pc]]
  BY DEF GoTo
<1>2. [job[l] EXCEPT !.pc = pc] \in Jobs
  BY DEF Jobs
<1> QED BY <1>1, <1>2

LEMMA IdleTyped == \A pc \in Pc : Idle \in Jobs /\ [Idle EXCEPT !.pc = pc] \in Jobs
BY RunIdFacts DEF Idle, Jobs, Pc

LEMMA KeptFits ==
  ASSUME NEW set, NEW s \in Seq(set), NEW x, NEW n \in Nat \ {0}
  PROVE  Len(KeepLast(Append(s, x), n)) <= n
<1> DEFINE all == Append(s, x)
<1>1. all \in Seq(set \cup {x}) /\ Len(all) \in Nat
  <2>1. s \in Seq(set \cup {x})
    OBVIOUS
  <2> QED BY <2>1, AppendProperties
<1> HIDE DEF all
<1>2. CASE Len(all) <= n
  BY <1>2 DEF KeepLast, all
<1>3. CASE ~(Len(all) <= n)
  <2>1. Len(all) - n + 1 \in 1 .. Len(all)
    BY <1>1, <1>3
  <2>2. Len(SubSeq(all, Len(all) - n + 1, Len(all))) = n
    BY <1>1, <2>1, SubSeqProperties
  <2> QED BY <1>3, <2>2 DEF KeepLast, all
<1> QED BY <1>2, <1>3

LEMMA BinsOfRuns == \A r \in RunId : Runs[r].hits \subseteq Bin /\ Runs[r].power_hits \subseteq PowerBin
<1> DEFINE ids == Runs
<1>1. ids \in Seq(TestSpec)
  BY RunsAssumption
<1>2. RunId = 1 .. Len(ids)
  BY DEF RunId
<1> HIDE DEF ids
<1>3. \A r \in 1 .. Len(ids) : ids[r] \in TestSpec
  BY <1>1
<1>4. \A r \in 1 .. Len(ids) : ids[r].hits \subseteq Bin /\ ids[r].power_hits \subseteq PowerBin
  BY <1>3 DEF TestSpec
<1> QED BY <1>2, <1>4 DEF ids

LEMMA GateTypedInit == Init /\ MAKES \in Nat => GateTyped
<1> SUFFICES ASSUME Init, MAKES \in Nat PROVE GateTyped
  OBVIOUS
<1>1. job \in [Lane -> Jobs]
  <2>1. Idle \in Jobs
    BY RunIdFacts DEF Idle, Jobs, Pc
  <2> QED BY <2>1 DEF Init, RegressInit
<1>2. HistoryTyped
  <2>1. history = <<>> /\ \E set : history \in Seq(set)
    BY DEF Init, RegressInit
  <2> QED BY <2>1, SpecsAssumption DEF HistoryTyped
<1>3. FilesTyped
  BY DEF Init, RegressInit, Verdict, FilesTyped
<1>4. ReportsTyped
  BY DEF Init, RegressInit, ReportsTyped
<1>5. GateSelfTyped
  BY DEF Init, GateSelfTyped
<1> QED BY <1>1, <1>2, <1>3, <1>4, <1>5 DEF GateTyped

LEMMA SimulateTyped ==
  ASSUME job \in [Lane -> Jobs], FilesTyped, NEW l \in Lane, Simulate(l)
  PROVE  job' \in [Lane -> Jobs] /\ FilesTyped'
<1> DEFINE r == job[l].at
<1>1. r \in RunId /\ job[l].rows \subseteq ManifestRow
  BY DEF Jobs
<1>2. PICK o \in Outcome :
        /\ log' = [log EXCEPT ![l][r] = o.verdict]
        /\ cov_csv' = [cov_csv EXCEPT ![l] = IF o.wrote THEN @ \cup {r} ELSE @]
        /\ power_csv' = [power_csv EXCEPT ![l] = IF o.wrote /\ Runs[r].soc THEN @ \cup {r} ELSE @]
        /\ written' = [written EXCEPT ![l] = IF o.wrote THEN @ \cup {r} ELSE @]
  BY DEF Simulate
<1> DEFINE row == [lane |-> l, run |-> r, cov |-> r \in cov_csv'[l],
                   power |-> Runs[r].soc /\ r \in power_csv'[l]]
           next == [pc |-> IF r = Len(Runs) THEN "open_manifest" ELSE "run",
                    at |-> IF r = Len(Runs) THEN r ELSE r + 1, rows |-> job[l].rows \cup {row}]
<1>3. job' = [job EXCEPT ![l] = next]
  BY DEF Simulate
<1> HIDE DEF r
<1>4. row \in ManifestRow
  BY <1>1, RunIdFacts DEF ManifestRow
<1> HIDE DEF row
<1>5. next \in Jobs
  BY <1>1, <1>4, RunIdFacts DEF Jobs, Pc
<1> HIDE DEF next
<1>6. job' \in [Lane -> Jobs]
  BY <1>3, <1>5
<1>7. o.verdict \in Verdict
  BY DEF Outcome, Verdict
<1>8. FilesTyped'
  BY <1>1, <1>2, <1>7 DEF FilesTyped
<1> QED BY <1>6, <1>8

LEMMA ParseTyped ==
  ASSUME FilesTyped, ReportsTyped, NEW l \in Lane, Parse(l)
  PROVE  ReportsTyped'
<1> DEFINE new(row) == [lane |-> row.lane, run |-> row.run, cov |-> row.cov, power |-> row.power,
                        status |-> NormalizeStatus(log[row.lane][row.run])]
<1>1. /\ summary' = [summary EXCEPT ![l] = {new(row) : row \in manifest}]
      /\ UNCHANGED <<manifest, coverage, power>>
  BY DEF Parse
<1>2. \A row \in ManifestRow : new(row) \in SummaryRow
  BY DEF ManifestRow, SummaryRow, NormalizeStatus
<1> HIDE DEF new
<1>3. {new(row) : row \in manifest} \subseteq SummaryRow
  BY <1>2 DEF ReportsTyped
<1> QED BY <1>1, <1>3 DEF ReportsTyped

\* A generator that moves its lane on and changes reports only.
LEMMA ReportsStep ==
  ASSUME GateTyped, NEW l \in Lane, NEW pc \in Pc, GoTo(l, pc), UNCHANGED <<makes, goal, target, gate, files>>,
         ReportsTyped', HistoryTyped'
  PROVE  GateTyped'
<1>1. job' \in [Lane -> Jobs]
  BY GoesTyped DEF GateTyped
<1>2. FilesTyped' /\ GateSelfTyped'
  BY DEF GateTyped, FilesTyped, GateSelfTyped, files
<1> QED BY <1>1, <1>2 DEF GateTyped

LEMMA Unmoved ==
  ASSUME GateTyped
  PROVE  /\ UNCHANGED trend => HistoryTyped'
         /\ UNCHANGED <<manifest, reports>> => ReportsTyped'
BY DEF GateTyped, trend, reports, HistoryTyped, ReportsTyped

LEMMA ReportTyped ==
  ASSUME GateTyped, NEW l \in Lane, ReportStep(l), UNCHANGED <<makes, goal, target, gate>>
  PROVE  GateTyped'
<1> USE DEF GateTyped
<1>1. CASE OpenManifest(l)
  <2>1. ReportsTyped'
    BY <1>1 DEF OpenManifest, ReportsTyped, reports
  <2>2. GoTo(l, "write_manifest") /\ UNCHANGED <<files, trend>> /\ "write_manifest" \in Pc
    BY <1>1 DEF OpenManifest, Pc
  <2> QED BY <2>1, <2>2, ReportsStep, Unmoved
<1>2. CASE WriteManifest(l)
  <2>1. job[l].rows \subseteq ManifestRow
    BY DEF Jobs
  <2>2. ReportsTyped'
    BY <1>2, <2>1 DEF WriteManifest, ReportsTyped, reports
  <2>3. GoTo(l, "parse") /\ UNCHANGED <<files, trend>> /\ "parse" \in Pc
    BY <1>2 DEF WriteManifest, Pc
  <2> QED BY <2>2, <2>3, ReportsStep, Unmoved
<1>3. CASE Parse(l)
  <2>1. ReportsTyped'
    BY <1>3, ParseTyped
  <2>2. GoTo(l, "coverage") /\ UNCHANGED <<files, trend>> /\ "coverage" \in Pc
    BY <1>3 DEF Parse, Pc
  <2> QED BY <2>1, <2>2, ReportsStep, Unmoved
<1>4. CASE ReportCoverage(l)
  <2> DEFINE rows == {s \in summary[l] : s.cov /\ s.run \in cov_csv[s.lane]}
             hits == UNION {Runs[row.run].hits : row \in rows}
  <2>1. hits \subseteq Bin
    <3>1. \A row \in rows : row.run \in RunId
      BY DEF ReportsTyped, SummaryRow
    <3> HIDE DEF rows
    <3> QED BY <3>1, BinsOfRuns
  <2>2. coverage' = [coverage EXCEPT ![l] = hits] /\ UNCHANGED <<manifest, summary, power>>
    BY <1>4 DEF ReportCoverage
  <2> HIDE DEF hits
  <2>3. ReportsTyped'
    BY <2>1, <2>2 DEF ReportsTyped
  <2>4. GoTo(l, "power") /\ UNCHANGED <<files, trend>> /\ "power" \in Pc
    BY <1>4 DEF ReportCoverage, Pc
  <2> QED BY <2>3, <2>4, ReportsStep, Unmoved
<1>5. CASE ReportPower(l)
  <2> DEFINE rows == {s \in summary[l] : s.power /\ Runs[s.run].power_named /\ s.run \in power_csv[s.lane]}
             hits == UNION {Runs[row.run].power_hits : row \in rows}
  <2>1. hits \subseteq PowerBin
    <3>1. \A row \in rows : row.run \in RunId
      BY DEF ReportsTyped, SummaryRow
    <3> HIDE DEF rows
    <3> QED BY <3>1, BinsOfRuns
  <2>2. power' = [power EXCEPT ![l] = hits] /\ UNCHANGED <<manifest, summary, coverage>>
    BY <1>5 DEF ReportPower
  <2> HIDE DEF hits
  <2>3. ReportsTyped'
    BY <2>1, <2>2 DEF ReportsTyped
  <2>4. GoTo(l, "failures") /\ UNCHANGED <<files, trend>> /\ "failures" \in Pc
    BY <1>5 DEF ReportPower, Pc
  <2> QED BY <2>3, <2>4, ReportsStep, Unmoved
<1>6. CASE ReportFailures(l)
  <2>1. UNCHANGED <<files, manifest, summary, coverage, power, trend>>
    BY <1>6 DEF ReportFailures
  <2>2. ReportsTyped'
    BY <2>1 DEF ReportsTyped
  <2>3. GoTo(l, "history") \/ GoTo(l, "exit")
    BY <1>6 DEF ReportFailures
  <2>4. "history" \in Pc /\ "exit" \in Pc
    BY DEF Pc
  <2> QED BY <2>1, <2>2, <2>3, <2>4, ReportsStep, Unmoved
<1>7. CASE WriteHistory(l)
  <2>1. PICK set : history \in Seq(set)
    BY DEF HistoryTyped
  <2>2. PICK x : history' = history \/ history' = KeepLast(Append(history, x), HISTORY_ROWS)
    BY <1>7 DEF WriteHistory
  <2>3. HistoryTyped'
    <3>1. CASE history' = history
      BY <3>1 DEF HistoryTyped
    <3>2. CASE history' = KeepLast(Append(history, x), HISTORY_ROWS)
      <4>1. Len(history') <= HISTORY_ROWS
        BY <2>1, <3>2, KeptFits, SpecsAssumption
      <4>2. history' \in Seq(set \cup {x})
        BY <2>1, <3>2, KeptSnapshot, SpecsAssumption
      <4> QED BY <4>1, <4>2 DEF HistoryTyped
    <3> QED BY <2>2, <3>1, <3>2
  <2>4. GoTo(l, "targets") /\ UNCHANGED <<files, manifest, reports>> /\ "targets" \in Pc
    BY <1>7 DEF WriteHistory, Pc
  <2> QED BY <2>3, <2>4, ReportsStep, Unmoved
<1>8. CASE WriteTargets(l)
  <2>1. HistoryTyped'
    BY <1>8 DEF WriteTargets, HistoryTyped
  <2>2. GoTo(l, "matrix") /\ UNCHANGED <<files, manifest, reports>> /\ "matrix" \in Pc
    BY <1>8 DEF WriteTargets, Pc
  <2> QED BY <2>1, <2>2, ReportsStep, Unmoved
<1>9. CASE WriteMatrix(l)
  <2>1. HistoryTyped'
    BY <1>9 DEF WriteMatrix, HistoryTyped
  <2>2. GoTo(l, "exit") /\ UNCHANGED <<files, manifest, reports>> /\ "exit" \in Pc
    BY <1>9 DEF WriteMatrix, Pc
  <2> QED BY <2>1, <2>2, ReportsStep, Unmoved
<1> QED BY <1>1, <1>2, <1>3, <1>4, <1>5, <1>6, <1>7, <1>8, <1>9 DEF ReportStep

\* Make and its recipes move the target, and a lane's invocation comes and goes.
LEMMA RecipeTyped ==
  ASSUME GateTyped, NEW l \in Lane, RunSuite(l) \/ SuiteAborts(l) \/ SuiteExits(l) \/ CheckLane(l)
  PROVE  GateTyped'
<1> USE DEF GateTyped
<1>1. CASE RunSuite(l)
  <2>1. /\ target' = [target EXCEPT ![l] = "running"] /\ UNCHANGED <<makes, goal, gate>>
        /\ job' = [job EXCEPT ![l] = [Idle EXCEPT !.pc = "run"]] /\ written' = [written EXCEPT ![l] = {}]
        /\ UNCHANGED <<log, cov_csv, power_csv, manifest, reports, trend>>
    BY <1>1 DEF RunSuite, Start
  <2>2. [Idle EXCEPT !.pc = "run"] \in Jobs
    BY IdleTyped DEF Pc
  <2>3. job' \in [Lane -> Jobs]
    BY <2>1, <2>2
  <2>4. FilesTyped' /\ GateSelfTyped'
    BY <2>1 DEF FilesTyped, GateSelfTyped
  <2> QED BY <2>1, <2>3, <2>4, Unmoved
<1>2. CASE SuiteAborts(l) \/ SuiteExits(l)
  <2>1. /\ target' = [target EXCEPT ![l] = "failed"] \/ target' = [target EXCEPT ![l] = "ran"]
        /\ job' = [job EXCEPT ![l] = Idle] /\ UNCHANGED <<makes, goal, gate, files, manifest, reports, trend>>
    BY <1>2 DEF SuiteAborts, SuiteExits, Abort, Finish
  <2>2. Idle \in Jobs
    BY IdleTyped DEF Pc
  <2>3. job' \in [Lane -> Jobs]
    BY <2>1, <2>2
  <2>4. FilesTyped' /\ GateSelfTyped'
    BY <2>1 DEF FilesTyped, GateSelfTyped, Bad, files
  <2> QED BY <2>1, <2>3, <2>4, Unmoved
<1>3. CASE CheckLane(l)
  <2>1. /\ target' = [target EXCEPT ![l] = "checked"] \/ target' = [target EXCEPT ![l] = "rejected"]
        /\ gate'.mode \in {"nonuvm", "uvm"} /\ UNCHANGED <<regressVars, makes, goal>>
    BY <1>3 DEF CheckLane, Check
  <2>2. FilesTyped' /\ GateSelfTyped' /\ job' \in [Lane -> Jobs]
    BY <2>1 DEF FilesTyped, GateSelfTyped, Bad, files, regressVars
  <2> QED BY <2>1, <2>2, Unmoved DEF regressVars
<1> QED BY <1>1, <1>2, <1>3

LEMMA GateTypedStep == GateTyped /\ MAKES \in Nat /\ [Next]_vars => GateTyped'
<1> SUFFICES ASSUME GateTyped, MAKES \in Nat, [Next]_vars PROVE GateTyped'
  OBVIOUS
<1> USE DEF GateTyped
<1>1. ASSUME UNCHANGED regressVars, GateSelfTyped' PROVE GateTyped'
  <2>1. FilesTyped' /\ job' \in [Lane -> Jobs]
    BY <1>1 DEF FilesTyped, files, regressVars
  <2> QED BY <1>1, <2>1, Unmoved DEF regressVars
<1>2. CASE UNCHANGED vars
  BY <1>1, <1>2 DEF vars, GateSelfTyped
<1>3. ASSUME NEW g \in Goal, Make(g) PROVE GateTyped'
  <2>1. /\ makes' = makes + 1 /\ makes < MAKES /\ goal' = g
        /\ target' = [l \in Lane |-> IF l \in Needs(g) THEN "todo" ELSE "skip"]
        /\ UNCHANGED <<regressVars, gate>>
    BY <1>3 DEF Make
  <2>2. GateSelfTyped'
    BY <2>1 DEF GateSelfTyped
  <2> QED BY <1>1, <2>1, <2>2
<1>4. CASE Compare
  <2>1. gate'.mode = "equivalence" /\ goal' = "none" /\ UNCHANGED <<regressVars, makes, target>>
    BY <1>4 DEF Compare, Check
  <2> QED BY <1>1, <2>1 DEF GateSelfTyped
<1>5. CASE MakeEnds
  <2>1. goal' = "none" /\ UNCHANGED <<regressVars, makes, target, gate>>
    BY <1>5 DEF MakeEnds
  <2> QED BY <1>1, <2>1 DEF GateSelfTyped
<1>6. ASSUME NEW l \in Lane, SuiteStep(l) PROVE GateTyped'
  <2>1. UNCHANGED <<makes, goal, target, gate>> /\ (Simulate(l) \/ ReportStep(l))
    BY <1>6 DEF SuiteStep
  <2>2. CASE Simulate(l)
    <3>1. job' \in [Lane -> Jobs] /\ FilesTyped'
      BY <2>2, SimulateTyped
    <3>2. GateSelfTyped'
      BY <2>1 DEF GateSelfTyped
    <3>3. UNCHANGED <<manifest, reports, trend>>
      BY <2>2 DEF Simulate
    <3> QED BY <3>1, <3>2, <3>3, Unmoved
  <2> QED BY <2>1, <2>2, ReportTyped
<1> QED BY <1>2, <1>3, <1>4, <1>5, <1>6, RecipeTyped DEF Next, LaneStep

\* Every script's state has its type: reports only ever hold rows of the tests
\* there are, the history is never longer than it may be, and the checker's
\* registers and memory are words.
THEOREM EvidenceTyped == EvidenceSpec => []EvidenceTypeOK
<1>1. Spec => []TypeOK
  BY GateTypedInit, GateTypedStep, GateTypedSo, MakesAssumption, PTL DEF Spec
<1>2. Oracles!Spec => []Oracles!TypeOK
  <2>1. \A installed \in TOOLS : DOMAIN installed # {}
    BY ToolsAssumption
  <2> QED BY <2>1, OraclesTyped
<1>3. Rvfi!Spec => []Rvfi!TypeOK
  BY ImagesAssumption, Rvfi!RvfiTyped
<1>4. TypeOK /\ Stress!TypeOK /\ Oracles!TypeOK /\ Rvfi!TypeOK /\ Firmware!TypeOK /\ Pub!TypeOK
        /\ part \in {"gate", "stress", "oracles", "rvfi", "firmware", "metrics"} => EvidenceTypeOK
  BY DEF EvidenceTypeOK
<1> QED BY <1>1, <1>2, <1>3, <1>4, PartsBehave, StressHolds, LaneHolds, PublicationHolds, PTL

-----------------------------------------------------------------------------
(* The checker of the retirement trace.                                      *)

\* An altered trace is noticed wherever the alteration is made, also among the
\* other scripts (rv32_iss.py).
THEOREM AlterationsNoticed == EvidenceSpec => []AlterationCaught
<1>1. Rvfi!Spec => []Rvfi!AlterationCaught
  BY ImagesAssumption, Rvfi!AlterationsCaught
<1>2. Rvfi!AlterationCaught => AlterationCaught
  BY DEF AlterationCaught
<1> QED BY <1>1, <1>2, PartsBehave, PTL

\* A sound core is called wrong in three known places only, also among the other
\* scripts (rv32_iss.py).
THEOREM AlarmsKnown == EvidenceSpec => FalseAlarms
<1>1. Rvfi!Spec => Rvfi!FalseAlarms
  BY ImagesAssumption, Rvfi!FalseAlarmsKnown
<1> QED BY <1>1, PartsBehave, PTL DEF FalseAlarms
=============================================================================
