SPECIFICATION MCSpec
CONSTANTS
  Lane = {"nonuvm", "uvm"}
  Plain = "nonuvm"
  TEST_SPECS <- MCSpecs
  SUITE = "closure"
  b1 = b1
  b2 = b2
  p1 = p1
  Bin = {b1, b2}
  PowerBin = {p1}
  HISTORY_ROWS = 1
  PARALLEL = FALSE
  MAKES = 2
  FAMILIES <- MCFamilies
  MATRIX_RUNS = 1
  SPIKE_LOG <- MCSpikeLog
  RTL_TRACES <- MCTraces
  TOOLS <- MCTools
  MIN_COUNT = 2
  MAX_SUFFIX = 1
  IMAGES <- MCImages
  MAX_ROWS = 6
  RESETS = 1
  DIRECTED <- MCDirected
  SEEDED <- MCSeeded
  VARIANTS <- MCVariants
  TIMER <- MCTimer
  PRIVILEGED <- MCPrivileged
  SOC <- MCSoc
  MUTATED = "apb_wait_trap"
  HITS <- MCHits
  REQUIRED <- MCRequired
CHECK_DEADLOCK FALSE
INVARIANT EvidenceTypeOK
INVARIANT CheckedMeansMet
INVARIANT OldCoverageFromSilentBugRunsOnly
INVARIANT ReportsAgree
INVARIANT ManifestsSound
INVARIANT AcceptedDidTheSame
INVARIANT GreenIsRequired
INVARIANT AlterationCaught
INVARIANT FollowsCore
INVARIANT GreenStands
INVARIANT PublishedStands
PROPERTY FalseAlarms
PROPERTY LanesKeepTheContract
