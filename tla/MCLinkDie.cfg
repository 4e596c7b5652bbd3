SPECIFICATION Spec
CONSTANTS
  WORDS_PER_FLIT = 1
  BEATS_PER_FLIT = 2
  MAX_CREDITS = 2
  CREDIT_INIT = 1
  MAX_RETRIES = 1
  RETRY_HOLDOFF_CYC = 1
  TRAIN_TIMEOUT_CYC = 2
  RETRAIN_TIMEOUT_CYC = 2
  DEGRADED_WAIT_CYC = 2
  TRAIN_SETTLE_CYCLES = 2
  Nothing = Nothing
  Corrupt = Corrupt
  Word = {w1, w2}
  PeerWord = {p1}
INVARIANT TypeOK
INVARIANT ResendIsLast
INVARIANT NeverDegraded
PROPERTY ReplayFirst
PROPERTY Recovers
PROPERTY Replays
