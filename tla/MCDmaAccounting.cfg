SPECIFICATION Spec
CONSTANTS
  SUBMIT_QUEUE_DEPTH = 2
  COMP_QUEUE_DEPTH = 2
  SRAM_DEPTH = 4
  SUM_SPAN = 8
  REJECT_OVF_MAX = 1
  RuntimeError <- Timeouts
  Staging <- OneTag
PROPERTY AcceptedAccounting
