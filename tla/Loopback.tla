------------------------------ MODULE Loopback ------------------------------
(***************************************************************************)
(* soc_chiplet_top's data path: words that die A sends cross the link, are *)
(* encrypted on die B and come back.                                       *)
(*                                                                         *)
(* The source stands for the DMA engine with one descriptor: it offers its *)
(* words in order and takes every word that comes back.  Both dies leave   *)
(* reset on the same edge.  channel_model draws its faults from an LFSR;   *)
(* here any MaxFaults of the edges on which it may raise one do.           *)
(***************************************************************************)
EXTENDS Integers, Sequences, FiniteSets

CONSTANTS
  WORDS_PER_FLIT, BEATS_PER_FLIT, MAX_CREDITS, CREDIT_INIT, MAX_RETRIES,
  RETRY_HOLDOFF_CYC, TRAIN_TIMEOUT_CYC, RETRAIN_TIMEOUT_CYC, DEGRADED_WAIT_CYC,
  TRAIN_SETTLE_CYCLES,
  WORDS_PER_BLOCK, AES_ROUNDS, CIPHER_FIFO_DEPTH,
  PHY_STAGES, CHANNEL_STAGES,  \* edges a beat spends in each PHY and in the channel
  Lengths,  \* lengths the descriptor may have
  Offers,   \* whether the source offers a word on an edge: it may have to ({TRUE})
  MaxFaults,  \* faults the channel raises, at most
  Nothing, Corrupt

\* Words: of the descriptor, and encrypted.
Payload == Nat \cup ([1 .. WORDS_PER_BLOCK -> Nat] \X (1 .. WORDS_PER_BLOCK))

Flit == [1 .. WORDS_PER_FLIT -> Payload]

ASSUME LoopbackAssumption ==
  /\ {WORDS_PER_FLIT, BEATS_PER_FLIT, WORDS_PER_BLOCK, PHY_STAGES} \subseteq Nat \ {0}
  /\ {CHANNEL_STAGES, CIPHER_FIFO_DEPTH} \subseteq Nat
  /\ Lengths \subseteq Nat
  /\ Offers \subseteq BOOLEAN

\* What stands for no word, no flit and no beat is none of them.
ASSUME NothingAssumption ==
  Nothing \notin Payload \cup Flit \cup (Flit \X (1 .. BEATS_PER_FLIT)) \cup [words : Flit, crcError : {FALSE}]

VARIABLES
  length,  \* words of the descriptor
  sent,    \* words the packetizer has taken
  back,    \* words that have come back
  aPk, aCredits, aTx, aRx, aDp, aRetry, aLink,
  bPk, bCredits, bTx, bRx, bDp, bRetry, bLink,
  blk, aes, cipher,
  aToB, bToA,  \* beats in the PHYs and the channel, the next to arrive first
  faulty,  \* dies that the channel shows a fault
  faults   \* faults it has raised

A == INSTANCE LinkAdapter WITH pk <- aPk, credits <- aCredits, tx <- aTx, rx <- aRx,
                               dp <- aDp, retry <- aRetry, link <- aLink
B == INSTANCE LinkAdapter WITH pk <- bPk, credits <- bCredits, tx <- bTx, rx <- bRx,
                               dp <- bDp, retry <- bRetry, link <- bLink
Crypto == INSTANCE CryptoService WITH NoWord <- Nothing

vars == <<length, sent, back, aPk, aCredits, aTx, aRx, aDp, aRetry, aLink,
          bPk, bCredits, bTx, bRx, bDp, bRetry, bLink, blk, aes, cipher, aToB, bToA,
          faulty, faults>>

-----------------------------------------------------------------------------
AtA == Head(bToA)
AtB == Head(aToB)

Shift(lane, beat) == Append(Tail(lane), beat)

\* Dies whose beat is at the end of the channel: the fault that this may
\* raise passes the PHY's stages by, and reaches the die before its beat.
AtRisk ==
  {d \in {"A", "B"} :
     (IF d = "A" THEN bToA ELSE aToB)[PHY_STAGES + 1] # Nothing}

\* The i-th word that should come back: word sent i, encrypted in its block.
Expected(i) ==
  LET first == ((i - 1) \div WORDS_PER_BLOCK) * WORDS_PER_BLOCK
  IN Crypto!Ciphertext([k \in 1 .. WORDS_PER_BLOCK |-> first + k])[i - first]

Edge(offer, raised) ==
  LET word == IF offer /\ sent < length THEN sent + 1 ELSE Nothing
  IN /\ raised \subseteq AtRisk /\ faults + Cardinality(raised) <= MaxFaults
     /\ A!AdapterEdge(word, AtA, "A" \in faulty, TRUE)
     /\ B!AdapterEdge(Crypto!CipherOut, AtB, "B" \in faulty, Crypto!PlaintextReady)
     /\ Crypto!CryptoEdge(B!WordOut, B!DataReady)
     /\ aToB' = Shift(aToB, A!LaneBeat) /\ bToA' = Shift(bToA, B!LaneBeat)
     /\ faulty' = raised /\ faults' = faults + Cardinality(raised)
     /\ sent' = IF word # Nothing /\ A!DataReady THEN sent + 1 ELSE sent
     /\ back' = IF A!WordOut # Nothing THEN back + 1 ELSE back
     /\ UNCHANGED length

Quiet == [i \in 1 .. 2 * PHY_STAGES + CHANNEL_STAGES |-> Nothing]

Init ==
  /\ length \in Lengths /\ sent = 0 /\ back = 0
  /\ A!AdapterInit /\ B!AdapterInit /\ Crypto!CryptoInit
  /\ aToB = Quiet /\ bToA = Quiet
  /\ faulty = {} /\ faults = 0

Next == \E offer \in Offers, raised \in SUBSET {"A", "B"} : Edge(offer, raised)

\* The clock runs, and the source does not withhold a word for ever.
Spec == Init /\ [][Next]_vars /\ WF_vars(\E raised \in SUBSET {"A", "B"} : Edge(TRUE, raised))

-----------------------------------------------------------------------------
\* Credit-based flow control: no beat arrives at a receiver that is down or
\* still holds a flit, for it would be lost.
NoBeatLost ==
  /\ AtA # Nothing => A!LinkUp /\ aRx.flit = Nothing
  /\ AtB # Nothing => B!LinkUp /\ bRx.flit = Nothing

\* Words come back encrypted in their own blocks, each once, in the order in
\* which they were sent.
InOrder ==
  A!WordOut # Nothing => back < sent /\ A!WordOut = Expected(back + 1)

\* All words of the descriptor come back.
Returns == <>(back = length)

\* p_crc_failed_packet_not_committed: no word of a flit whose CRC failed is
\* encrypted, or stored by the source.
CrcFailedNotCommitted ==
  /\ A!WordOut # Nothing => ~aDp.crcError
  /\ B!WordOut # Nothing /\ Crypto!PlaintextReady => ~bDp.crcError
=============================================================================
