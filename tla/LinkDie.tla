------------------------------ MODULE LinkDie ------------------------------
(***************************************************************************)
(* One adapter among lanes, a source and a sink that do what they like.    *)
(* lane is what the wires show as the edge samples them; every step picks  *)
(* its next value.                                                         *)
(***************************************************************************)
EXTENDS LinkAdapter

CONSTANTS
  Word,     \* words the source offers
  PeerWord  \* words in the other die's flits

\* soc_die_a_top and soc_die_b_top leave link_fsm's timeouts at 512 and 256
\* and settle after 16.
ASSUME SettleAssumption ==
  /\ TRAIN_SETTLE_CYCLES <= TRAIN_TIMEOUT_CYC
  /\ TRAIN_SETTLE_CYCLES <= RETRAIN_TIMEOUT_CYC

VARIABLE lane  \* beat and fault on the receive lanes

vars == <<adapterVars, lane>>

\* The slices of the other die's flits, in any order.
Incoming == [1 .. WORDS_PER_FLIT -> PeerWord] \X (1 .. BEATS_PER_FLIT)

Lane == [beat : Incoming \cup {Nothing}, fault : BOOLEAN]

Edge ==
  /\ \E word \in Word \cup {Nothing}, ready \in BOOLEAN :
       AdapterEdge(word, lane.beat, lane.fault, ready)
  /\ lane' \in Lane

Init == AdapterInit /\ lane \in Lane

\* The clock runs.
Spec == Init /\ [][Edge]_vars /\ WF_vars(Edge)

-----------------------------------------------------------------------------
Flit == [1 .. WORDS_PER_FLIT -> Word]

\* What ucie_rx holds for the depacketizer.
Received == [words : [1 .. WORDS_PER_FLIT -> PeerWord \cup {Corrupt}], crcError : BOOLEAN]

TypeOK ==
  /\ pk \in [words : Seq(Word), flit : Flit \cup {Nothing}]
  /\ Len(pk.words) < WORDS_PER_FLIT
  /\ credits \in 0 .. MAX_CREDITS
  /\ tx \in [flit : Flit \cup {Nothing}, left : 0 .. BEATS_PER_FLIT,
             last : Flit \cup {Nothing}, pending : BOOLEAN, active : BOOLEAN]
  /\ rx \in [beats : Seq(Incoming), flit : Received \cup {Nothing}]
  /\ Len(rx.beats) < BEATS_PER_FLIT
  /\ dp \in [words : Seq(PeerWord \cup {Corrupt}), crcError : BOOLEAN]
  /\ Len(dp.words) <= WORDS_PER_FLIT
  /\ retry \in [count : 0 .. MAX_RETRIES, holdoff : 0 .. RETRY_HOLDOFF_CYC,
                resend : BOOLEAN]
  /\ link \in [state : {"RESET", "TRAIN", "ACTIVE", "RETRAIN", "DEGRADED"},
               timer : Nat, trained : 0 .. TRAIN_SETTLE_CYCLES]
  /\ lane \in Lane

\* p_retry_blocks_new_flit_before_replay and p_retry_replays_last_flit, from
\* the edge that reports the error on: until it has been sent again, the last
\* flit stays the last, and only it is loaded.
ReplayFirst ==
  [][(retry.resend \/ tx.pending) /\ tx.last # Nothing
       => /\ tx'.last = tx.last
          /\ tx'.left = BEATS_PER_FLIT => tx'.flit = tx.last]_vars

\* The resend bookkeeping agrees with what is on the lanes: a resend debits
\* credits only while the last flit itself is being sent.
ResendIsLast == tx.active => tx.left # 0 /\ tx.flit = tx.last

\* The training timer settles before training can time out: the fall-back
\* that link_fsm has for a link that does not train is never taken.
NeverDegraded == link.state # "DEGRADED"

\* When the lanes stop showing faults, the link comes up and stays up.
Recovers == <>[](~lane.fault) => <>[](link.state = "ACTIVE")

\* Once errors stop, a resend that is owed is made, unless the credits are
\* gone.
Replays ==
  <>[](~lane.fault /\ ~dp.crcError)
    => (tx.pending ~> (tx.active \/ credits = 0))
=============================================================================
