SPECIFICATION Spec
CONSTANTS
  SUBMIT_QUEUE_DEPTH = 2
  COMP_QUEUE_DEPTH = 2
  SRAM_DEPTH = 4
  SUM_SPAN = 8
  REJECT_OVF_MAX = 0
  RuntimeError <- NoErrors
  Staging <- AroundTheEnd
INVARIANT TypeOK
INVARIANT RetireBelongsToActive
INVARIANT ActiveLegal
PROPERTY DriftOnlyByCollision
