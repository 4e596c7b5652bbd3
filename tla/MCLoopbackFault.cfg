SPECIFICATION Spec
CONSTANTS
  WORDS_PER_FLIT = 4
  BEATS_PER_FLIT = 17
  MAX_CREDITS = 256
  CREDIT_INIT = 128
  MAX_RETRIES = 4
  RETRY_HOLDOFF_CYC = 64
  TRAIN_TIMEOUT_CYC = 512
  RETRAIN_TIMEOUT_CYC = 256
  DEGRADED_WAIT_CYC = 1024
  TRAIN_SETTLE_CYCLES = 16
  WORDS_PER_BLOCK = 2
  AES_ROUNDS = 10
  CIPHER_FIFO_DEPTH = 32
  PHY_STAGES = 2
  CHANNEL_STAGES = 3
  MaxFaults = 1
  Lengths = {8}
  Offers = {TRUE}
  Nothing = Nothing
  Corrupt = Corrupt
INVARIANT CrcFailedNotCommitted
