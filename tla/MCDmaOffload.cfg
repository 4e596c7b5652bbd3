SPECIFICATION FairSpec
CONSTANTS
  SUBMIT_QUEUE_DEPTH = 1
  COMP_QUEUE_DEPTH = 1
  SRAM_DEPTH = 4
  SUM_SPAN = 8
  REJECT_OVF_MAX = 0
  RuntimeError <- MCErrors
  Staging <- MCStaging
  DMA_TIMEOUT_CYCLES = 2
INVARIANT TypeOK
 
PROPERTY RaisesIrq
PROPERTY ImplementsQueues
PROPERTY Terminates
PROPERTY Serves
