--------------------------- MODULE LinkDie_proofs ---------------------------
(***************************************************************************)
(* Safety of one die's adapter, for every size of flit, every number of    *)
(* beats and credits, every timeout, and whatever the lanes, the source    *)
(* and the sink do.                                                        *)
(*                                                                         *)
(* TypeOK is inductive by itself, and so is ResendIsLast on top of it.     *)
(* NeverDegraded is not: TrainsInTime adds that while the link trains, the *)
(* edges left to it suffice for the training timer to settle.              *)
(***************************************************************************)
EXTENDS LinkDie, SequenceTheorems, TLAPS

TrainsInTime ==
  link.state \in {"TRAIN", "RETRAIN"} => link.timer + link.trained >= TRAIN_SETTLE_CYCLES

DieInv == TypeOK /\ ResendIsLast /\ NeverDegraded /\ TrainsInTime

-----------------------------------------------------------------------------
\* One lemma for each block's part of TypeOK.

\* The packetizer gathers fewer words than a flit has.
LEMMA PacketizeType ==
  ASSUME TypeOK, NEW word \in Word \cup {Nothing}, NEW beat, Packetize(word, beat)
  PROVE  /\ pk' \in [words : Seq(Word), flit : Flit \cup {Nothing}]
         /\ Len(pk'.words) < WORDS_PER_FLIT
<1> USE LinkAssumption
<1> DEFINE words == Append(pk.words, word)
<1>0. /\ pk \in [words : Seq(Word), flit : Flit \cup {Nothing}]
      /\ Len(pk.words) < WORDS_PER_FLIT
  BY DEF TypeOK
<1>1. CASE word # Nothing /\ DataReady
  <2>1. /\ words \in Seq(Word)
        /\ Len(words) = Len(pk.words) + 1
    <3>1. pk.words \in Seq(Word) /\ word \in Word
      BY <1>0, <1>1
    <3> QED BY <3>1, AppendProperties
  <2>2. CASE Len(words) = WORDS_PER_FLIT
    <3>1. words \in Flit
      <4> HIDE DEF words
      <4> QED BY <2>1, <2>2, LenProperties DEF Flit
    <3>2. pk' = [words |-> <<>>, flit |-> words]
      BY <1>1, <2>2 DEF Packetize
    <3> QED BY <3>1, <3>2
  <2>3. CASE Len(words) # WORDS_PER_FLIT
    <3>1. pk' = [pk EXCEPT !.words = words]
      BY <1>1, <2>3 DEF Packetize
    <3> HIDE DEF words
    <3>2. pk'.words = words /\ pk' \in [words : Seq(Word), flit : Flit \cup {Nothing}]
      BY <1>0, <2>1, <3>1
    <3>3. Len(pk.words) \in Nat /\ Len(words) \in Nat
      BY <1>0, <2>1, LenProperties
    <3> QED BY <1>0, <2>1, <2>3, <3>2, <3>3
  <2> QED BY <2>2, <2>3
<1>2. CASE ~(word # Nothing /\ DataReady)
  <2>1. pk' = [pk EXCEPT !.flit = Nothing] \/ pk' = pk
    BY <1>2 DEF Packetize
  <2> QED BY <1>0, <2>1
<1> QED BY <1>1, <1>2

\* The credit manager saturates at both ends.
LEMMA AccountType ==
  ASSUME TypeOK, NEW beat, Account(beat)
  PROVE  credits' \in 0 .. MAX_CREDITS
<1>1. credits \in 0 .. MAX_CREDITS
  BY DEF TypeOK
<1> DEFINE debit == IF LoadNew(beat) \/ tx.active THEN 1 ELSE 0
           return == IF FlitTaken THEN 1 ELSE 0
           sum == credits - debit + return
<1>2. debit \in {0, 1} /\ return \in {0, 1}
  OBVIOUS
<1>3. credits' = IF sum < 0 THEN 0 ELSE IF sum > MAX_CREDITS THEN MAX_CREDITS ELSE sum
  BY DEF Account
<1> HIDE DEF debit, return
<1> QED BY <1>1, <1>2, <1>3, LinkAssumption

\* The transmitter: its type, and ResendIsLast.
LEMMA TransmitKeeps ==
  ASSUME TypeOK, ResendIsLast, NEW beat, Transmit(beat)
  PROVE  /\ tx' \in [flit : Flit \cup {Nothing}, left : 0 .. BEATS_PER_FLIT,
                     last : Flit \cup {Nothing}, pending : BOOLEAN, active : BOOLEAN]
         /\ ResendIsLast'
<1> DEFINE TxType == [flit : Flit \cup {Nothing}, left : 0 .. BEATS_PER_FLIT,
                      last : Flit \cup {Nothing}, pending : BOOLEAN, active : BOOLEAN]
<1>0. /\ tx \in TxType
      /\ pk.flit \in Flit \cup {Nothing}
      /\ retry.resend \in BOOLEAN
  BY DEF TypeOK
<1> DEFINE pending == tx.pending \/ (retry.resend /\ tx.last # Nothing)
<1>1. pending \in BOOLEAN
  OBVIOUS
<1>a. BEATS_PER_FLIT \in 0 .. BEATS_PER_FLIT /\ BEATS_PER_FLIT # 0
  BY LinkAssumption
<1> HIDE DEF pending
<1>2. CASE LoadResend(beat) /\ tx' = [tx EXCEPT !.flit = tx.last, !.left = BEATS_PER_FLIT,
                                                 !.pending = FALSE, !.active = TRUE]
  <2>1. tx' \in TxType
    BY <1>0, <1>a, <1>2
  <2>2. tx'.left = BEATS_PER_FLIT /\ tx'.flit = tx.last /\ tx'.last = tx.last
    BY <1>0, <1>2
  <2> QED BY <1>a, <2>1, <2>2 DEF ResendIsLast
<1>3. CASE LoadNew(beat) /\ tx' = [tx EXCEPT !.flit = pk.flit, !.left = BEATS_PER_FLIT,
                                              !.last = pk.flit, !.pending = pending]
  <2>1. tx' \in TxType
    BY <1>0, <1>1, <1>a, <1>3
  <2>2. tx'.left = BEATS_PER_FLIT /\ tx'.flit = pk.flit /\ tx'.last = pk.flit
    BY <1>0, <1>3
  <2> QED BY <1>a, <2>1, <2>2 DEF ResendIsLast
<1>4. CASE Sending /\ tx' = [tx EXCEPT !.left = tx.left - 1, !.pending = pending,
                                        !.flit = IF tx.left = 1 THEN Nothing ELSE tx.flit,
                                        !.active = StillActive]
  <2>0. tx.left \in 1 .. BEATS_PER_FLIT
    BY <1>0, <1>4, LinkAssumption DEF Sending
  <2>1. StillActive \in BOOLEAN
    BY DEF StillActive
  <2>2. StillActive => tx.active /\ tx.left # 1
    BY DEF StillActive
  <2>3. /\ tx'.left = tx.left - 1 /\ tx'.last = tx.last
        /\ tx'.active = StillActive
        /\ tx'.flit = IF tx.left = 1 THEN Nothing ELSE tx.flit
    BY <1>0, <1>4
  <2>4. tx.left - 1 \in 0 .. BEATS_PER_FLIT
    BY <2>0, LinkAssumption
  <2>5. tx' \in TxType
    <3> HIDE DEF StillActive
    <3> QED BY <1>0, <1>1, <1>4, <2>1, <2>4
  <2>6. ResendIsLast'
    <3> SUFFICES ASSUME tx'.active PROVE tx'.left # 0 /\ tx'.flit = tx'.last
      BY DEF ResendIsLast
    <3>1. tx.active /\ tx.left # 1
      BY <2>2, <2>3
    <3>2. tx.flit = tx.last
      BY <3>1 DEF ResendIsLast
    <3> QED BY <2>0, <2>3, <3>1, <3>2
  <2> QED BY <2>5, <2>6
<1>5. CASE ~Sending /\ ~LoadResend(beat) /\ ~LoadNew(beat)
             /\ tx' = [tx EXCEPT !.pending = pending]
  <2>1. tx' \in TxType
    BY <1>0, <1>1, <1>5
  <2>2. /\ tx'.left = tx.left /\ tx'.flit = tx.flit /\ tx'.last = tx.last
        /\ tx'.active = tx.active
    BY <1>0, <1>5
  <2> QED BY <2>1, <2>2 DEF ResendIsLast
<1> QED BY <1>2, <1>3, <1>4, <1>5 DEF Transmit, pending

\* The receiver gathers fewer beats than a flit has.
LEMMA ReceiveType ==
  ASSUME TypeOK, NEW beat \in Incoming \cup {Nothing}, Receive(beat)
  PROVE  /\ rx' \in [beats : Seq(Incoming), flit : Received \cup {Nothing}]
         /\ Len(rx'.beats) < BEATS_PER_FLIT
<1> USE LinkAssumption
<1> DEFINE beats == Append(rx.beats, beat)
<1>0. /\ rx \in [beats : Seq(Incoming), flit : Received \cup {Nothing}]
      /\ Len(rx.beats) < BEATS_PER_FLIT
  BY DEF TypeOK
<1>1. CASE ~LinkUp
  <2>1. rx' = [beats |-> <<>>, flit |-> IF FlitTaken THEN Nothing ELSE rx.flit]
    BY <1>1 DEF Receive
  <2> QED BY <1>0, <2>1
<1>2. CASE LinkUp /\ beat # Nothing /\ rx.flit = Nothing
  <2>1. beats \in Seq(Incoming) /\ Len(beats) = Len(rx.beats) + 1
    <3>1. rx.beats \in Seq(Incoming) /\ beat \in Incoming
      BY <1>0, <1>2
    <3> QED BY <3>1, AppendProperties
  <2>2. CASE Len(beats) = BEATS_PER_FLIT
    <3>1. beats[1] \in Incoming
      BY <2>1, <2>2
    <3>2. beats[1][1] \in [1 .. WORDS_PER_FLIT -> PeerWord]
      BY <3>1 DEF Incoming
    <3>3. Assembled(beats) \in Received
      BY <3>2 DEF Assembled, Received
    <3>4. rx' = [beats |-> <<>>, flit |-> Assembled(beats)]
      BY <1>2, <2>2 DEF Receive
    <3> QED BY <3>3, <3>4
  <2>3. CASE Len(beats) # BEATS_PER_FLIT
    <3>1. rx' = [rx EXCEPT !.beats = beats]
      BY <1>2, <2>3 DEF Receive
    <3> HIDE DEF beats
    <3>2. rx'.beats = beats /\ rx' \in [beats : Seq(Incoming), flit : Received \cup {Nothing}]
      BY <1>0, <2>1, <3>1
    <3>3. Len(rx.beats) \in Nat /\ Len(beats) \in Nat
      BY <1>0, <2>1, LenProperties
    <3> QED BY <1>0, <2>1, <2>3, <3>2, <3>3
  <2> QED BY <2>2, <2>3
<1>3. CASE LinkUp /\ (beat = Nothing \/ rx.flit # Nothing)
  <2>1. rx' = [rx EXCEPT !.flit = Nothing] \/ rx' = rx
    BY <1>3 DEF Receive
  <2> QED BY <1>0, <2>1
<1> QED BY <1>1, <1>2, <1>3

\* The depacketizer streams at most a flit's words.
LEMMA DepacketizeType ==
  ASSUME TypeOK, NEW ready, Depacketize(ready)
  PROVE  /\ dp' \in [words : Seq(PeerWord \cup {Corrupt}), crcError : BOOLEAN]
         /\ Len(dp'.words) <= WORDS_PER_FLIT
<1> DEFINE W == PeerWord \cup {Corrupt}
<1>0. /\ dp \in [words : Seq(W), crcError : BOOLEAN] /\ Len(dp.words) <= WORDS_PER_FLIT
      /\ rx.flit \in Received \cup {Nothing}
      /\ WORDS_PER_FLIT \in Nat
  BY LinkAssumption DEF TypeOK
<1>1. CASE FlitTaken
  <2>1. rx.flit \in [words : [1 .. WORDS_PER_FLIT -> W], crcError : BOOLEAN]
    BY <1>0, <1>1 DEF FlitTaken, Received
  <2>2. rx.flit.words \in Seq(W) /\ Len(rx.flit.words) = WORDS_PER_FLIT
    BY <1>0, <2>1
  <2>3. dp' = rx.flit
    BY <1>1 DEF Depacketize
  <2> QED BY <1>0, <2>1, <2>2, <2>3
<1>2. CASE ~FlitTaken /\ dp.words # <<>> /\ ready
  <2>1. dp' = [words |-> Tail(dp.words), crcError |-> dp.crcError /\ Len(dp.words) # 1]
    BY <1>2 DEF Depacketize
  <2>2. Tail(dp.words) \in Seq(W) /\ Len(Tail(dp.words)) = Len(dp.words) - 1
    BY <1>0, <1>2, HeadTailProperties
  <2>3. Len(dp.words) \in Nat
    BY <1>0, LenProperties
  <2>4. (dp.crcError /\ Len(dp.words) # 1) \in BOOLEAN
    OBVIOUS
  <2>5. dp' \in [words : Seq(W), crcError : BOOLEAN] /\ dp'.words = Tail(dp.words)
    BY <2>1, <2>2, <2>4
  <2> QED BY <1>0, <2>2, <2>3, <2>5
<1>3. CASE ~FlitTaken /\ ~(dp.words # <<>> /\ ready)
  <2>1. dp' = dp
    BY <1>3 DEF Depacketize
  <2> QED BY <1>0, <2>1
<1> QED BY <1>1, <1>2, <1>3

\* The retry controller's counters stay in range.
LEMMA RetryType ==
  ASSUME TypeOK, NEW fault, Retry(fault)
  PROVE  retry' \in [count : 0 .. MAX_RETRIES, holdoff : 0 .. RETRY_HOLDOFF_CYC,
                     resend : BOOLEAN]
<1> USE LinkAssumption
<1>0. retry \in [count : 0 .. MAX_RETRIES, holdoff : 0 .. RETRY_HOLDOFF_CYC, resend : BOOLEAN]
  BY DEF TypeOK
<1>1. CASE fault \/ dp.crcError
  BY <1>0, <1>1 DEF Retry
<1>2. CASE ~(fault \/ dp.crcError) /\ retry.holdoff # 0
  <2>1. retry' = [retry EXCEPT !.holdoff = retry.holdoff - 1, !.resend = FALSE]
    BY <1>2 DEF Retry
  <2>2. retry.holdoff - 1 \in 0 .. RETRY_HOLDOFF_CYC
    BY <1>0, <1>2
  <2> QED BY <1>0, <2>1, <2>2
<1>3. CASE ~(fault \/ dp.crcError) /\ retry.holdoff = 0
  BY <1>0, <1>3 DEF Retry
<1> QED BY <1>1, <1>2, <1>3

\* The link state machine with the training timer: their type, and that
\* training ends in time.
LEMMA LinkKeeps ==
  ASSUME TypeOK, NeverDegraded, TrainsInTime,
         NEW beat, NEW fault, Link(beat, fault)
  PROVE  /\ link' \in [state : {"RESET", "TRAIN", "ACTIVE", "RETRAIN", "DEGRADED"},
                       timer : Nat, trained : 0 .. TRAIN_SETTLE_CYCLES]
         /\ NeverDegraded' /\ TrainsInTime'
<1> USE LinkAssumption, SettleAssumption DEF NeverDegraded, TrainsInTime
<1>0. link \in [state : {"RESET", "TRAIN", "ACTIVE", "RETRAIN", "DEGRADED"},
               timer : Nat, trained : 0 .. TRAIN_SETTLE_CYCLES]
  BY DEF TypeOK
<1>1. link' = [state |-> NextState(beat, fault)[1], timer |-> NextState(beat, fault)[2],
               trained |-> Trained(beat)]
  BY DEF Link
<1>2. Trained(beat) \in 0 .. TRAIN_SETTLE_CYCLES
  BY <1>0 DEF Trained
<1>3. CASE link.state = "RESET"
  <2>1. NextState(beat, fault) = <<"TRAIN", TRAIN_TIMEOUT_CYC>>
    BY <1>3 DEF NextState
  <2> QED BY <1>1, <1>2, <2>1
<1>4. CASE link.state = "ACTIVE"
  <2>1. \/ NextState(beat, fault) = <<"RETRAIN", RETRAIN_TIMEOUT_CYC>>
        \/ NextState(beat, fault) = <<"ACTIVE", link.timer>>
    BY <1>4 DEF NextState
  <2> QED BY <1>0, <1>1, <1>2, <2>1
<1>5. CASE link.state \in {"TRAIN", "RETRAIN"}
  <2>1. NextState(beat, fault) = Settle(TrainingDone(beat), "DEGRADED", DEGRADED_WAIT_CYC)
    BY <1>5 DEF NextState
  <2>2. CASE TrainingDone(beat)
    <3>1. NextState(beat, fault) = <<"ACTIVE", 0>>
      BY <2>1, <2>2 DEF Settle
    <3> QED BY <1>1, <1>2, <3>1
  <2>3. CASE ~TrainingDone(beat)
    <3>1. link.trained # TRAIN_SETTLE_CYCLES /\ beat = Nothing
      BY <2>3 DEF TrainingDone
    <3>2. Trained(beat) = link.trained + 1
      BY <1>5, <3>1 DEF Trained, LinkUp
    <3>3. link.timer # 0
      BY <1>0, <1>5, <3>1
    <3>4. NextState(beat, fault) = <<link.state, link.timer - 1>>
      BY <2>1, <2>3, <3>3 DEF Settle
    <3>5. link'.state = link.state /\ link'.timer = link.timer - 1
          /\ link'.trained = link.trained + 1
      BY <1>1, <3>2, <3>4
    <3>6. link.timer - 1 \in Nat
      BY <1>0, <3>3
    <3>7. TrainsInTime'
      BY <1>0, <1>5, <3>5
    <3> QED BY <1>0, <1>1, <1>2, <1>5, <3>4, <3>5, <3>6, <3>7
  <2> QED BY <2>2, <2>3
<1> QED BY <1>0, <1>3, <1>4, <1>5

-----------------------------------------------------------------------------
LEMMA InitKeeps == Init => DieInv
<1> SUFFICES ASSUME Init PROVE DieInv
  OBVIOUS
<1> USE LinkAssumption DEF Init, AdapterInit
<1>1. /\ pk \in [words : Seq(Word), flit : Flit \cup {Nothing}]
      /\ rx \in [beats : Seq(Incoming), flit : Received \cup {Nothing}]
      /\ dp \in [words : Seq(PeerWord \cup {Corrupt}), crcError : BOOLEAN]
  OBVIOUS
<1>2. Len(pk.words) = 0 /\ Len(rx.beats) = 0 /\ Len(dp.words) = 0
  OBVIOUS
<1>3. TypeOK
  BY <1>1, <1>2 DEF TypeOK
<1> QED BY <1>3 DEF DieInv, ResendIsLast, NeverDegraded, TrainsInTime

LEMMA EdgeKeeps ==
  ASSUME DieInv, Edge
  PROVE  DieInv'
<1> USE DEF DieInv
<1>1. PICK word \in Word \cup {Nothing}, ready \in BOOLEAN :
        AdapterEdge(word, lane.beat, lane.fault, ready)
  BY DEF Edge
<1>2. lane' \in Lane /\ lane.beat \in Incoming \cup {Nothing}
  BY DEF Edge, TypeOK, Lane
<1>3. /\ Packetize(word, lane.beat) /\ Account(lane.beat) /\ Transmit(lane.beat)
      /\ Receive(lane.beat) /\ Depacketize(ready)
      /\ Retry(lane.fault) /\ Link(lane.beat, lane.fault)
  BY <1>1 DEF AdapterEdge
<1>4. TypeOK'
  BY <1>2, <1>3, PacketizeType, AccountType, TransmitKeeps, ReceiveType, DepacketizeType,
     RetryType, LinkKeeps DEF TypeOK
<1> QED BY <1>3, <1>4, TransmitKeeps, LinkKeeps

LEMMA StutterKeeps ==
  ASSUME DieInv, UNCHANGED vars
  PROVE  DieInv'
BY DEF vars, adapterVars, DieInv, TypeOK, ResendIsLast, NeverDegraded, TrainsInTime

\* The inductive invariant holds of every edge of the adapter.
THEOREM InvHolds == Spec => []DieInv
<1>1. DieInv /\ [Edge]_vars => DieInv'
  BY EdgeKeeps, StutterKeeps
<1> QED BY InitKeeps, <1>1, PTL DEF Spec

\* Credits, counters, timers and everything gathered or held stay in their
\* types, p_credit_bound among them (credit_mgr, ucie_rx, retry_ctrl).
THEOREM LinkTypeCorrect == Spec => []TypeOK
<1>1. DieInv => TypeOK
  BY DEF DieInv
<1> QED BY <1>1, InvHolds, PTL

\* A resend debits credits only while the last flit itself is on the lanes
\* (resend_active_q of ucie_tx).
THEOREM ResendIsOfLastFlit == Spec => []ResendIsLast
<1>1. DieInv => ResendIsLast
  BY DEF DieInv
<1> QED BY <1>1, InvHolds, PTL

\* The training timer settles before training times out, so link_fsm never
\* falls back to DEGRADED, for every settling time within both timeouts.
THEOREM TrainingNeverTimesOut == Spec => []NeverDegraded
<1>1. DieInv => NeverDegraded
  BY DEF DieInv
<1> QED BY <1>1, InvHolds, PTL

-----------------------------------------------------------------------------
\* While a replay is owed the transmitter loads nothing but the last flit.
LEMMA TransmitReplays ==
  ASSUME TypeOK, NEW beat, Transmit(beat),
         retry.resend \/ tx.pending, tx.last # Nothing
  PROVE  /\ tx'.last = tx.last
         /\ tx'.left = BEATS_PER_FLIT => tx'.flit = tx.last
<1>0. /\ tx \in [flit : Flit \cup {Nothing}, left : 0 .. BEATS_PER_FLIT,
                 last : Flit \cup {Nothing}, pending : BOOLEAN, active : BOOLEAN]
      /\ BEATS_PER_FLIT \in Nat \ {0}
  BY LinkAssumption DEF TypeOK
<1> DEFINE pending == tx.pending \/ (retry.resend /\ tx.last # Nothing)
<1> HIDE DEF pending
<1>1. ~LoadNew(beat)
  BY DEF LoadNew, MaySend, LinkReady
<1>2. CASE tx' = [tx EXCEPT !.flit = tx.last, !.left = BEATS_PER_FLIT,
                            !.pending = FALSE, !.active = TRUE]
  BY <1>0, <1>2
<1>3. CASE tx' = [tx EXCEPT !.left = tx.left - 1, !.pending = pending,
                            !.flit = IF tx.left = 1 THEN Nothing ELSE tx.flit,
                            !.active = StillActive]
  <2>1. tx'.last = tx.last /\ tx'.left = tx.left - 1
    BY <1>0, <1>3
  <2> QED BY <1>0, <2>1
<1>4. CASE ~Sending /\ tx' = [tx EXCEPT !.pending = pending]
  <2>1. tx'.last = tx.last /\ tx'.left = 0
    BY <1>0, <1>4 DEF Sending
  <2> QED BY <1>0, <2>1
<1> QED BY <1>1, <1>2, <1>3, <1>4 DEF Transmit, pending

\* From the edge that reports an error until the replay is on the lanes, no
\* other flit is loaded and the last flit stays the last (ucie_tx, link_fsm).
THEOREM ReplayComesFirst == Spec => ReplayFirst
<1> DEFINE Replay ==
      (retry.resend \/ tx.pending) /\ tx.last # Nothing
        => /\ tx'.last = tx.last
           /\ tx'.left = BEATS_PER_FLIT => tx'.flit = tx.last
<1>1. DieInv /\ [Edge]_vars => [Replay]_vars
  <2> SUFFICES ASSUME DieInv, Edge PROVE Replay
    OBVIOUS
  <2>1. Transmit(lane.beat) /\ TypeOK
    BY DEF Edge, AdapterEdge, DieInv
  <2> QED BY <2>1, TransmitReplays
<1> QED BY <1>1, InvHolds, PTL DEF Spec, ReplayFirst
=============================================================================
