---------------------------- MODULE LinkAdapter ----------------------------
(***************************************************************************)
(* One die's adapter as soc_die_a_top and soc_die_b_top wire it: packetizer*)
(* credit manager, transmitter, receiver, depacketizer, retry controller,  *)
(* link state machine and training timer.                                  *)
(*                                                                         *)
(* One step is one clock edge, on which every block takes its own step from*)
(* the registers of all.  A flit is the tuple of its words, a beat on the  *)
(* lanes <<flit, n>>, its n-th slice.                                      *)
(***************************************************************************)
EXTENDS Integers, Sequences

CONSTANTS
  WORDS_PER_FLIT,      \* words in a flit
  BEATS_PER_FLIT,      \* beats it takes on the lanes
  MAX_CREDITS,         \* what the credit manager saturates at
  CREDIT_INIT,         \* credits after reset
  MAX_RETRIES,         \* what the retry count saturates at
  RETRY_HOLDOFF_CYC,   \* edges without an error before the retry count decays
  TRAIN_TIMEOUT_CYC, RETRAIN_TIMEOUT_CYC, DEGRADED_WAIT_CYC,  \* of the link state machine
  TRAIN_SETTLE_CYCLES, \* edges of a link that is down after which it counts as trained
  Nothing,             \* no flit, no beat, no word
  Corrupt              \* a word of a flit whose CRC fails

ASSUME LinkAssumption ==
  /\ WORDS_PER_FLIT \in Nat \ {0}
  /\ BEATS_PER_FLIT \in Nat \ {0}
  /\ CREDIT_INIT \in Nat
  /\ MAX_CREDITS \in Nat
  /\ CREDIT_INIT <= MAX_CREDITS
  /\ MAX_RETRIES \in Nat
  /\ RETRY_HOLDOFF_CYC \in Nat
  /\ TRAIN_TIMEOUT_CYC \in Nat
  /\ RETRAIN_TIMEOUT_CYC \in Nat
  /\ DEGRADED_WAIT_CYC \in Nat
  /\ TRAIN_SETTLE_CYCLES \in Nat

VARIABLES
  pk,       \* flit_packetizer: words gathered, flit held for the transmitter
  credits,  \* credit_mgr
  tx,       \* ucie_tx: flit being sent, beats left, last new flit, resend pending and active
  rx,       \* ucie_rx: beats gathered, flit held for the depacketizer
  dp,       \* flit_depacketizer: words left to stream, crc_error
  retry,    \* retry_ctrl: count, holdoff, resend_request
  link      \* link_fsm: state, timer; and the top's training timer

adapterVars == <<pk, credits, tx, rx, dp, retry, link>>

-----------------------------------------------------------------------------
\* What a flit is to the depacketizer: its words, and whether its CRC fails.
\* Beats that are not one flit's, in order, never pass: that one such pattern
\* in 256 would is left out.
Assembled(beats) ==
  IF \A n \in 1 .. BEATS_PER_FLIT : beats[n] = <<beats[1][1], n>>
    THEN [words |-> beats[1][1], crcError |-> FALSE]
    ELSE [words |-> [n \in 1 .. WORDS_PER_FLIT |-> Corrupt], crcError |-> TRUE]

\* The wires between the blocks.
DataReady == pk.flit = Nothing
Sending == tx.left # 0
LaneBeat == IF Sending THEN <<tx.flit, BEATS_PER_FLIT - tx.left + 1>> ELSE Nothing
WordOut == IF dp.words # <<>> THEN Head(dp.words) ELSE Nothing
LinkUp == link.state = "ACTIVE"

\* Mutant of TrainingDone: only the other die's beats count as training.
TrainingDoneByBeats(beat) == beat # Nothing

TrainingDone(beat) == beat # Nothing \/ link.trained = TRAIN_SETTLE_CYCLES

\* Mutant of LinkReady: link_ready does not look at retry_in_progress.
LinkReadyInRetry(beat) ==
  \/ link.state = "ACTIVE"
  \/ link.state \in {"RETRAIN", "DEGRADED"} /\ TrainingDone(beat)

LinkReady(beat) ==
  /\ ~retry.resend
  /\ \/ link.state = "ACTIVE"
     \/ link.state \in {"RETRAIN", "DEGRADED"} /\ TrainingDone(beat)

MaySend(beat) == ~Sending /\ LinkReady(beat) /\ credits # 0

\* Mutant of LoadResend: a resend waits for a packetizer that holds nothing.
LoadResendWhenIdle(beat) == MaySend(beat) /\ tx.pending /\ pk.flit = Nothing

LoadResend(beat) == MaySend(beat) /\ tx.pending
LoadNew(beat) == MaySend(beat) /\ ~tx.pending /\ pk.flit # Nothing
FlitTaken == rx.flit # Nothing /\ dp.words = <<>>

-----------------------------------------------------------------------------
\* flit_packetizer.  word is the word offered, or Nothing.
Packetize(word, beat) ==
  IF word # Nothing /\ DataReady
    THEN LET words == Append(pk.words, word)
         IN pk' = IF Len(words) = WORDS_PER_FLIT THEN [words |-> <<>>, flit |-> words]
                  ELSE [pk EXCEPT !.words = words]
    ELSE pk' = IF LoadNew(beat) THEN [pk EXCEPT !.flit = Nothing] ELSE pk

\* Mutant of Account: the sum is not saturated.
AccountUnbounded(beat) ==
  credits' = credits - (IF LoadNew(beat) \/ tx.active THEN 1 ELSE 0)
                     + (IF FlitTaken THEN 1 ELSE 0)

\* credit_mgr.  A new flit costs a credit; a resend costs one on every edge
\* it is on the lanes; a flit received, from the other die, gives one back.
Account(beat) ==
  LET sum == credits - (IF LoadNew(beat) \/ tx.active THEN 1 ELSE 0)
                     + (IF FlitTaken THEN 1 ELSE 0)
  IN credits' = IF sum < 0 THEN 0 ELSE IF sum > MAX_CREDITS THEN MAX_CREDITS ELSE sum

\* Mutant of StillActive: resend_active_q outlives the resend.
ActiveForGood == tx.active

StillActive == tx.active /\ tx.left # 1

\* ucie_tx.
Transmit(beat) ==
  LET pending == tx.pending \/ (retry.resend /\ tx.last # Nothing)
  IN \/ /\ LoadResend(beat)
        /\ tx' = [tx EXCEPT !.flit = tx.last, !.left = BEATS_PER_FLIT,
                            !.pending = FALSE, !.active = TRUE]
     \/ /\ LoadNew(beat)
        /\ tx' = [tx EXCEPT !.flit = pk.flit, !.left = BEATS_PER_FLIT,
                            !.last = pk.flit, !.pending = pending]
     \/ /\ Sending
        /\ tx' = [tx EXCEPT !.left = tx.left - 1, !.pending = pending,
                            !.flit = IF tx.left = 1 THEN Nothing ELSE tx.flit,
                            !.active = StillActive]
     \/ /\ ~Sending /\ ~LoadResend(beat) /\ ~LoadNew(beat)
        /\ tx' = [tx EXCEPT !.pending = pending]

\* ucie_rx.  A beat that finds a flit held is lost, and the beats gathered
\* are dropped whenever the link is not up.
Receive(beat) ==
  LET beats == Append(rx.beats, beat)
      whole == Len(beats) = BEATS_PER_FLIT
  IN \/ /\ ~LinkUp
        /\ rx' = [beats |-> <<>>, flit |-> IF FlitTaken THEN Nothing ELSE rx.flit]
     \/ /\ LinkUp /\ beat # Nothing /\ rx.flit = Nothing
        /\ rx' = IF whole THEN [beats |-> <<>>, flit |-> Assembled(beats)]
                 ELSE [rx EXCEPT !.beats = beats]
     \/ /\ LinkUp /\ (beat = Nothing \/ rx.flit # Nothing)
        /\ rx' = IF FlitTaken THEN [rx EXCEPT !.flit = Nothing] ELSE rx

\* flit_depacketizer.  A flit whose CRC fails is streamed like any other.
Depacketize(ready) ==
  dp' = IF FlitTaken THEN rx.flit
        ELSE IF dp.words # <<>> /\ ready
          THEN [words |-> Tail(dp.words), crcError |-> dp.crcError /\ Len(dp.words) # 1]
        ELSE dp

\* retry_ctrl.
Retry(fault) ==
  retry' = IF fault \/ dp.crcError
             THEN [count |-> IF retry.count = MAX_RETRIES THEN retry.count ELSE retry.count + 1,
                   holdoff |-> RETRY_HOLDOFF_CYC, resend |-> TRUE]
           ELSE IF retry.holdoff # 0
             THEN [retry EXCEPT !.holdoff = retry.holdoff - 1, !.resend = FALSE]
           ELSE [count |-> IF retry.count = 0 THEN 0 ELSE retry.count - 1,
                 holdoff |-> 0, resend |-> FALSE]

\* Mutant of Trained: the timer is cleared whenever the lanes are silent.
TrainedByBeats(beat) ==
  IF LinkUp \/ beat = Nothing THEN 0 ELSE TRAIN_SETTLE_CYCLES

\* The training timer of the top.
Trained(beat) ==
  IF LinkUp THEN 0
  ELSE IF beat # Nothing THEN TRAIN_SETTLE_CYCLES
  ELSE IF link.trained # TRAIN_SETTLE_CYCLES THEN link.trained + 1
  ELSE link.trained

\* A state that ends with training, or falls back when its timer has run out.
Settle(done, fallback, wait) ==
  IF done THEN <<"ACTIVE", 0>>
  ELSE IF link.timer = 0 THEN <<fallback, wait>>
  ELSE <<link.state, link.timer - 1>>

\* link_fsm.  start_training is tied high.
NextState(beat, fault) ==
  IF link.state = "RESET" THEN <<"TRAIN", TRAIN_TIMEOUT_CYC>>
  ELSE IF link.state = "ACTIVE"
    THEN IF fault THEN <<"RETRAIN", RETRAIN_TIMEOUT_CYC>> ELSE <<"ACTIVE", link.timer>>
  ELSE IF link.state = "DEGRADED"
    THEN Settle(TrainingDone(beat) /\ ~fault, "TRAIN", TRAIN_TIMEOUT_CYC)
  ELSE Settle(TrainingDone(beat), "DEGRADED", DEGRADED_WAIT_CYC)

Link(beat, fault) ==
  link' = [state |-> NextState(beat, fault)[1], timer |-> NextState(beat, fault)[2],
           trained |-> Trained(beat)]

\* One edge: the word offered to the packetizer, the beat and the fault on the
\* lanes, and whether the word streamed out is taken.
AdapterEdge(word, beat, fault, ready) ==
  /\ Packetize(word, beat) /\ Account(beat) /\ Transmit(beat)
  /\ Receive(beat) /\ Depacketize(ready)
  /\ Retry(fault) /\ Link(beat, fault)

AdapterInit ==
  /\ pk = [words |-> <<>>, flit |-> Nothing]
  /\ credits = CREDIT_INIT
  /\ tx = [flit |-> Nothing, left |-> 0, last |-> Nothing, pending |-> FALSE, active |-> FALSE]
  /\ rx = [beats |-> <<>>, flit |-> Nothing]
  /\ dp = [words |-> <<>>, crcError |-> FALSE]
  /\ retry = [count |-> 0, holdoff |-> 0, resend |-> FALSE]
  /\ link = [state |-> "RESET", timer |-> 0, trained |-> 0]
=============================================================================
