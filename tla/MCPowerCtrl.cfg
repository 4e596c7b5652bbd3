SPECIFICATION Spec
CONSTANTS
  ISO_BEFORE_OFF_CYCLES = 2
  RESTORE_BEFORE_DEISO_CYCLES = 2
  TRANSITION_HOLD = 3
INVARIANT TypeOK
INVARIANT NoDeisolatedOffDomain
INVARIANT SwitchOnBeforeRestore
INVARIANT OrderlyRetention
PROPERTY IsolationBrackets
PROPERTY OrderlyRestore
PROPERTY Reaches
