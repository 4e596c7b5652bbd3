-------------------------- MODULE Loopback_proofs --------------------------
(***************************************************************************)
(* What credit-based flow control is worth on lanes without faults, for    *)
(* every length, every size of flits, blocks and queue, and every delay of *)
(* the PHYs, the channel and the engine.                                   *)
(*                                                                         *)
(* A word is followed along its way: a way is a stream of words and a      *)
(* place in it for each end and each stage of the lanes (Path).  What an   *)
(* end holds is the stretch of the stream between its two places, and an   *)
(* edge moves the places (PathOn).  There are two ways, of plain words and *)
(* of encrypted ones, and die B's service between them (Along).            *)
(*                                                                         *)
(* Nothing holds a transmitter back when the other side is slow: what a    *)
(* receiver gives back to its own side are credits to send.  The theorems  *)
(* are therefore about behaviours in which die B keeps room, and about     *)
(* descriptors short enough for it to: of two flits whatever the sizes and *)
(* delays, of six with the sizes of the code.                              *)
(***************************************************************************)
EXTENDS Loopback, SequenceTheorems, FiniteSetTheorems, TLAPS

-----------------------------------------------------------------------------
(* Streams, and the two ends of a lane that send.                          *)

Stages == 2 * PHY_STAGES + CHANNEL_STAGES

\* A stream of words, the first of which is word 1.
Stream == [Nat \ {0} -> Payload]

\* A place in a stream: the words of the flits that have passed, and the beats
\* of the next flit that have.  What is past the first flit is past the second.
Place ==
  [word : {0, WORDS_PER_FLIT} \cup {n \in Nat : n >= 2 * WORDS_PER_FLIT},
   beat : 0 .. BEATS_PER_FLIT - 1]

Next1(p) ==
  IF p.beat + 1 = BEATS_PER_FLIT THEN [word |-> p.word + WORDS_PER_FLIT, beat |-> 0]
  ELSE [word |-> p.word, beat |-> p.beat + 1]

FlitAt(stream, n) == [k \in 1 .. WORDS_PER_FLIT |-> stream[n + k]]

BeatAt(stream, p) == <<FlitAt(stream, p.word), p.beat + 1>>

Transmitter ==
  [flit : Flit \cup {Nothing}, left : 0 .. BEATS_PER_FLIT, last : Flit \cup {Nothing},
   pending : {FALSE}, active : {FALSE}]

Packetizer == [words : Seq(Payload), flit : Flit \cup {Nothing}]

\* Words of the flit that one of the two holds.
Waiting(pk) == IF pk.flit = Nothing THEN 0 ELSE WORDS_PER_FLIT
InFlight(tx) == IF tx.left = 0 THEN 0 ELSE WORDS_PER_FLIT

\* The packetizer has taken n words of the stream, and passed m on.
Gathers(stream, n, m, pk) ==
  /\ m \in Nat
  /\ pk \in Packetizer
  /\ Len(pk.words) < WORDS_PER_FLIT
  /\ n = m + Waiting(pk) + Len(pk.words)
  /\ pk.flit # Nothing => pk.flit = FlitAt(stream, m)
  /\ \A k \in 1 .. Len(pk.words) : pk.words[k] = stream[m + Waiting(pk) + k]

\* The transmitter has taken m words of the stream, and is at p.
Feeds(stream, m, tx, p) ==
  /\ p \in Place
  /\ tx \in Transmitter
  /\ m = p.word + InFlight(tx)
  /\ tx.left = 0 => p.beat = 0
  /\ tx.left # 0 => p.beat = BEATS_PER_FLIT - tx.left /\ tx.flit = FlitAt(stream, p.word)

Packs(pk, pk1, word, load) ==
  pk1 = IF word # Nothing /\ pk.flit = Nothing
          THEN IF Len(pk.words) + 1 = WORDS_PER_FLIT
                 THEN [words |-> <<>>, flit |-> Append(pk.words, word)]
                 ELSE [pk EXCEPT !.words = Append(pk.words, word)]
        ELSE IF load THEN [pk EXCEPT !.flit = Nothing] ELSE pk

Transmits(flit, tx, tx1, load) ==
  /\ load => tx.left = 0 /\ flit # Nothing
  /\ tx1 = IF load THEN [tx EXCEPT !.flit = flit, !.left = BEATS_PER_FLIT, !.last = flit]
           ELSE IF tx.left # 0
             THEN [tx EXCEPT !.left = tx.left - 1, !.flit = IF tx.left = 1 THEN Nothing ELSE tx.flit]
           ELSE tx

On(tx, p) == IF tx.left # 0 THEN Next1(p) ELSE p

LEMMA Params ==
  /\ WORDS_PER_FLIT \in Nat /\ WORDS_PER_FLIT > 0
  /\ BEATS_PER_FLIT \in Nat /\ BEATS_PER_FLIT > 0
  /\ Stages \in Nat /\ Stages > 0
BY LoopbackAssumption DEF Stages

LEMMA PlaceNat == \A p \in Place : p.word \in Nat /\ p.beat \in 0 .. BEATS_PER_FLIT - 1
BY Params DEF Place

LEMMA OnPlace == ASSUME NEW p \in Place PROVE Next1(p) \in Place
BY Params DEF Place, Next1

LEMMA NoFlit == Nothing \notin Flit /\ Nothing \notin Payload
BY NothingAssumption

LEMMA FlitAtType ==
  ASSUME NEW stream \in Stream, NEW m \in Nat
  PROVE  FlitAt(stream, m) \in Flit
<1>1. \A k \in 1 .. WORDS_PER_FLIT : m + k \in Nat \ {0}
  BY Params
<1>2. \A k \in 1 .. WORDS_PER_FLIT : stream[m + k] \in Payload
  BY <1>1 DEF Stream
<1> QED BY <1>2 DEF FlitAt, Flit

\* Words become flits in order.
LEMMA GathersOn ==
  ASSUME NEW stream, NEW n \in Nat, NEW m, NEW pk, Gathers(stream, n, m, pk),
         NEW word, word # Nothing => word \in Payload /\ word = stream[n + 1],
         NEW load \in BOOLEAN, load => pk.flit # Nothing,
         NEW pk1, Packs(pk, pk1, word, load)
  PROVE  Gathers(stream, IF word # Nothing /\ pk.flit = Nothing THEN n + 1 ELSE n,
                 IF load THEN m + WORDS_PER_FLIT ELSE m, pk1)
<1>1. /\ m \in Nat
      /\ pk \in Packetizer /\ pk.words \in Seq(Payload) /\ pk.flit \in Flit \cup {Nothing}
      /\ Len(pk.words) \in Nat /\ Len(pk.words) < WORDS_PER_FLIT
      /\ n = m + Waiting(pk) + Len(pk.words)
      /\ pk.flit # Nothing => pk.flit = FlitAt(stream, m)
      /\ \A k \in 1 .. Len(pk.words) : pk.words[k] = stream[m + Waiting(pk) + k]
  <2>1. pk.words \in Seq(Payload) => Len(pk.words) \in Nat
    BY LenProperties
  <2> QED BY <2>1 DEF Gathers, Packetizer
<1>2. CASE ~(word # Nothing /\ pk.flit = Nothing) /\ ~load
  BY <1>2 DEF Packs
<1>3. CASE ~(word # Nothing /\ pk.flit = Nothing) /\ load
  <2>1. pk1 = [pk EXCEPT !.flit = Nothing]
    BY <1>3 DEF Packs
  <2>2. pk1 \in Packetizer /\ pk1.words = pk.words /\ pk1.flit = Nothing
    BY <1>1, <2>1 DEF Packetizer
  <2>3. Waiting(pk) = WORDS_PER_FLIT /\ Waiting(pk1) = 0
    BY <1>3, <2>2 DEF Waiting
  <2>4. m + WORDS_PER_FLIT \in Nat /\ m + WORDS_PER_FLIT + 0 = m + WORDS_PER_FLIT
    BY <1>1, Params
  <2> QED BY <1>1, <1>3, <2>2, <2>3, <2>4 DEF Gathers
<1>4. CASE word # Nothing /\ pk.flit = Nothing
  <2>1. ~load /\ Waiting(pk) = 0 /\ m + Waiting(pk) = m /\ n = m + Len(pk.words)
    BY <1>1, <1>4 DEF Waiting
  <2> DEFINE words == Append(pk.words, word)
  <2>2. /\ words \in Seq(Payload) /\ Len(words) = Len(pk.words) + 1
        /\ \A k \in 1 .. Len(pk.words) : words[k] = pk.words[k]
        /\ words[Len(pk.words) + 1] = word
    BY <1>1, <1>4, AppendProperties
  <2>3. \A k \in 1 .. Len(pk.words) + 1 : words[k] = stream[m + k]
    <3> HIDE DEF words
    <3>1. n + 1 = m + (Len(pk.words) + 1)
      BY <1>1, <2>1
    <3>2. \A k \in 1 .. Len(pk.words) + 1 : k \in 1 .. Len(pk.words) \/ k = Len(pk.words) + 1
      BY <1>1
    <3> QED BY <1>1, <1>4, <2>1, <2>2, <3>1, <3>2
  <2>4. CASE Len(pk.words) + 1 = WORDS_PER_FLIT
    <3>1. pk1 = [words |-> <<>>, flit |-> words]
      BY <1>4, <2>4 DEF Packs
    <3>2. words = FlitAt(stream, m) /\ words \in Flit
      <4> HIDE DEF words
      <4>1. /\ words = [k \in 1 .. WORDS_PER_FLIT |-> words[k]]
            /\ \A k \in 1 .. WORDS_PER_FLIT : words[k] \in Payload
        BY <2>2, <2>4, LenProperties, ElementOfSeq
      <4>2. \A k \in 1 .. WORDS_PER_FLIT : words[k] = stream[m + k]
        BY <2>3, <2>4
      <4> QED BY <4>1, <4>2 DEF FlitAt, Flit
    <3> HIDE DEF words
    <3>3. pk1 \in Packetizer /\ pk1.flit = words /\ pk1.words = <<>> /\ Len(pk1.words) = 0 /\ pk1.flit # Nothing
      BY <3>1, <3>2, NoFlit DEF Packetizer
    <3>4. Waiting(pk1) = WORDS_PER_FLIT /\ n + 1 = m + Waiting(pk1) + 0
      <4>1. Waiting(pk1) = WORDS_PER_FLIT
        BY <3>3 DEF Waiting
      <4> QED BY <1>1, <2>1, <2>4, <4>1, Params
    <3>5. \A k \in 1 .. 0 : FALSE
      OBVIOUS
    <3>6. Gathers(stream, n + 1, m, pk1)
      BY <1>1, <3>2, <3>3, <3>4, <3>5, Params DEF Gathers
    <3> QED BY <1>4, <2>1, <3>6
  <2>5. CASE Len(pk.words) + 1 # WORDS_PER_FLIT
    <3>1. pk1 = [pk EXCEPT !.words = words]
      BY <1>4, <2>5 DEF Packs
    <3> HIDE DEF words
    <3>2. pk1 \in Packetizer /\ pk1.flit = Nothing /\ pk1.words = words
      BY <1>1, <1>4, <2>2, <3>1 DEF Packetizer
    <3>3. Waiting(pk1) = 0 /\ m + 0 = m
      BY <1>1, <3>2 DEF Waiting
    <3>4. Len(words) < WORDS_PER_FLIT /\ n + 1 = m + Len(words)
      BY <1>1, <2>1, <2>2, <2>5, Params
    <3>5. Gathers(stream, n + 1, m, pk1)
      BY <1>1, <2>2, <2>3, <3>2, <3>3, <3>4 DEF Gathers
    <3> QED BY <1>4, <2>1, <3>5
  <2> QED BY <2>4, <2>5
<1> QED BY <1>2, <1>3, <1>4

\* A flit is sent whole, and the next follows it.
LEMMA FeedsOn ==
  ASSUME NEW stream, NEW m \in Nat, NEW tx, NEW p, Feeds(stream, m, tx, p),
         NEW flit, flit \in Flit \cup {Nothing}, flit # Nothing => flit = FlitAt(stream, m),
         NEW load \in BOOLEAN, NEW tx1, Transmits(flit, tx, tx1, load)
  PROVE  Feeds(stream, IF load THEN m + WORDS_PER_FLIT ELSE m, tx1, On(tx, p))
<1>1. /\ p \in Place /\ p.word \in Nat /\ p.beat \in 0 .. BEATS_PER_FLIT - 1
      /\ tx \in Transmitter /\ tx.left \in 0 .. BEATS_PER_FLIT /\ tx.flit \in Flit \cup {Nothing}
      /\ m = p.word + InFlight(tx)
      /\ tx.left = 0 => p.beat = 0
      /\ tx.left # 0 => p.beat = BEATS_PER_FLIT - tx.left /\ tx.flit = FlitAt(stream, p.word)
  BY PlaceNat DEF Feeds, Transmitter
<1>2. CASE load
  <2>1. /\ tx.left = 0 /\ flit # Nothing /\ On(tx, p) = p
        /\ tx1 = [tx EXCEPT !.flit = flit, !.left = BEATS_PER_FLIT, !.last = flit]
    BY <1>2 DEF Transmits, On
  <2>2. BEATS_PER_FLIT \in 0 .. BEATS_PER_FLIT /\ BEATS_PER_FLIT # 0
    BY Params
  <2>3. tx1 \in Transmitter /\ tx1.flit = flit /\ tx1.left = BEATS_PER_FLIT
    BY <1>1, <2>1, <2>2 DEF Transmitter
  <2>4. InFlight(tx) = 0 /\ InFlight(tx1) = WORDS_PER_FLIT /\ m = p.word
    BY <1>1, <2>1, <2>2, <2>3 DEF InFlight
  <2>5. p.beat = BEATS_PER_FLIT - BEATS_PER_FLIT
    BY <1>1, <2>1, Params
  <2> QED BY <1>1, <1>2, <2>1, <2>2, <2>3, <2>4, <2>5 DEF Feeds
<1>3. CASE ~load /\ tx.left = 0
  BY <1>3 DEF Transmits, On
<1>4. CASE ~load /\ tx.left # 0
  <2> DEFINE rest == tx.left - 1
             held == IF tx.left = 1 THEN Nothing ELSE tx.flit
  <2>1. tx1 = [tx EXCEPT !.left = rest, !.flit = held]
    BY <1>4 DEF Transmits
  <2>2. rest \in 0 .. BEATS_PER_FLIT /\ held \in Flit \cup {Nothing} /\ (rest # 0 => held = tx.flit)
    BY <1>1, <1>4, Params
  <2> HIDE DEF rest, held
  <2>3. tx1 \in Transmitter /\ tx1.left = rest /\ tx1.flit = held
    BY <1>1, <2>1, <2>2 DEF Transmitter
  <2>4. On(tx, p) = Next1(p) /\ Next1(p) \in Place /\ InFlight(tx) = WORDS_PER_FLIT
    BY <1>1, <1>4, OnPlace DEF On, InFlight
  <2>5. CASE rest = 0
    <3>1. p.beat + 1 = BEATS_PER_FLIT
      BY <1>1, <1>4, <2>5, Params DEF rest
    <3>2. Next1(p) = [word |-> p.word + WORDS_PER_FLIT, beat |-> 0]
      BY <3>1 DEF Next1
    <3>3. InFlight(tx1) = 0 /\ m = (p.word + WORDS_PER_FLIT) + 0
      BY <1>1, <2>3, <2>4, <2>5, Params DEF InFlight
    <3> QED BY <1>4, <2>3, <2>4, <2>5, <3>2, <3>3 DEF Feeds
  <2>6. CASE rest # 0
    <3>1. p.beat + 1 # BEATS_PER_FLIT /\ p.beat + 1 = BEATS_PER_FLIT - rest
      BY <1>1, <1>4, <2>6, Params DEF rest
    <3>2. Next1(p) = [word |-> p.word, beat |-> p.beat + 1]
      BY <3>1 DEF Next1
    <3>3. InFlight(tx1) = WORDS_PER_FLIT
      BY <2>3, <2>6 DEF InFlight
    <3> QED BY <1>1, <1>4, <2>2, <2>3, <2>4, <2>6, <3>1, <3>2, <3>3 DEF Feeds
  <2> QED BY <2>5, <2>6
<1> QED BY <1>2, <1>3, <1>4

-----------------------------------------------------------------------------
(* The two ends that receive.                                              *)

Beat == Flit \X (1 .. BEATS_PER_FLIT)

Whole == [words : Flit, crcError : {FALSE}]

Receiver == [beats : Seq(Beat), flit : Whole \cup {Nothing}]

Depacketizer == [words : Seq(Payload), crcError : {FALSE}]

WholeAt(stream, m) == [words |-> FlitAt(stream, m), crcError |-> FALSE]

\* Words of the flit it holds.
Unread(rx) == IF rx.flit = Nothing THEN 0 ELSE WORDS_PER_FLIT

\* The receiver is at p of the stream, and has passed m words on.
Gets(stream, m, rx, p) ==
  /\ m \in Nat
  /\ p \in Place
  /\ rx \in Receiver
  /\ p.word = m + Unread(rx)
  /\ Len(rx.beats) = p.beat
  /\ \A k \in 1 .. p.beat : rx.beats[k] = <<FlitAt(stream, p.word), k>>
  /\ rx.flit # Nothing => rx.flit = WholeAt(stream, m)

\* The depacketizer has taken m words of the stream, and given that many.
Gives(stream, given, m, dp) ==
  /\ given \in Nat
  /\ dp \in Depacketizer
  /\ m = given + Len(dp.words)
  /\ \A k \in 1 .. Len(dp.words) : dp.words[k] = stream[given + k]

Assembles(beats) ==
  IF \A n \in 1 .. BEATS_PER_FLIT : beats[n] = <<beats[1][1], n>>
    THEN [words |-> beats[1][1], crcError |-> FALSE]
    ELSE [words |-> [n \in 1 .. WORDS_PER_FLIT |-> Corrupt], crcError |-> TRUE]

Receives(rx, rx1, beat, taken) ==
  rx1 = IF beat # Nothing
          THEN IF Len(rx.beats) + 1 = BEATS_PER_FLIT
                 THEN [beats |-> <<>>, flit |-> Assembles(Append(rx.beats, beat))]
                 ELSE [rx EXCEPT !.beats = Append(rx.beats, beat)]
        ELSE IF taken THEN [rx EXCEPT !.flit = Nothing] ELSE rx

Streams(flit, dp, dp1, ready, taken) ==
  dp1 = IF taken THEN flit
        ELSE IF dp.words # <<>> /\ ready
          THEN [words |-> Tail(dp.words), crcError |-> dp.crcError /\ Len(dp.words) # 1]
        ELSE dp

LEMMA NoWhole == Nothing \notin Whole /\ Nothing \notin Beat
BY NothingAssumption DEF Whole, Beat

\* Beats become the flit they are of.
LEMMA GetsOn ==
  ASSUME NEW stream \in Stream, NEW m, NEW rx, NEW p, Gets(stream, m, rx, p),
         NEW beat, beat # Nothing => beat = BeatAt(stream, p) /\ rx.flit = Nothing,
         NEW taken \in BOOLEAN, taken => rx.flit # Nothing,
         NEW rx1, Receives(rx, rx1, beat, taken)
  PROVE  Gets(stream, IF taken THEN m + WORDS_PER_FLIT ELSE m, rx1, IF beat # Nothing THEN Next1(p) ELSE p)
<1>1. /\ m \in Nat
      /\ p \in Place /\ p.word \in Nat /\ p.beat \in 0 .. BEATS_PER_FLIT - 1
      /\ rx \in Receiver /\ rx.beats \in Seq(Beat) /\ rx.flit \in Whole \cup {Nothing}
      /\ p.word = m + Unread(rx)
      /\ Len(rx.beats) = p.beat
      /\ \A k \in 1 .. p.beat : rx.beats[k] = <<FlitAt(stream, p.word), k>>
      /\ rx.flit # Nothing => rx.flit = WholeAt(stream, m)
  BY PlaceNat DEF Gets, Receiver
<1>2. CASE beat = Nothing /\ ~taken
  BY <1>2 DEF Receives
<1>3. CASE beat = Nothing /\ taken
  <2>1. rx1 = [rx EXCEPT !.flit = Nothing]
    BY <1>3 DEF Receives
  <2>2. rx1 \in Receiver /\ rx1.beats = rx.beats /\ rx1.flit = Nothing
    BY <1>1, <2>1 DEF Receiver
  <2>3. Unread(rx) = WORDS_PER_FLIT /\ Unread(rx1) = 0
    BY <1>3, <2>2 DEF Unread
  <2>4. m + WORDS_PER_FLIT \in Nat /\ m + WORDS_PER_FLIT + 0 = m + WORDS_PER_FLIT
    BY <1>1, Params
  <2> QED BY <1>1, <1>3, <2>2, <2>3, <2>4 DEF Gets
<1>4. CASE beat # Nothing
  <2>1. ~taken /\ rx.flit = Nothing /\ Unread(rx) = 0 /\ p.word = m
    BY <1>1, <1>4 DEF Unread
  <2> DEFINE flit == FlitAt(stream, p.word)
             beats == Append(rx.beats, beat)
  <2>2. flit \in Flit
    BY <1>1, FlitAtType
  <2>3. beat = <<flit, p.beat + 1>> /\ p.beat + 1 \in 1 .. BEATS_PER_FLIT /\ beat \in Beat
    BY <1>1, <1>4, <2>2, Params DEF BeatAt, Beat
  <2>4. /\ beats \in Seq(Beat) /\ Len(beats) = p.beat + 1
        /\ \A k \in 1 .. p.beat : beats[k] = rx.beats[k]
        /\ beats[p.beat + 1] = beat
    BY <1>1, <2>3, AppendProperties
  <2> HIDE DEF flit, beats
  <2>5. \A k \in 1 .. p.beat + 1 : beats[k] = <<flit, k>>
    <3>1. \A k \in 1 .. p.beat + 1 : k \in 1 .. p.beat \/ k = p.beat + 1
      BY <1>1
    <3> QED BY <1>1, <2>3, <2>4, <3>1 DEF flit
  <2>6. CASE p.beat + 1 = BEATS_PER_FLIT
    <3>1. Next1(p) = [word |-> p.word + WORDS_PER_FLIT, beat |-> 0] /\ Next1(p) \in Place
      BY <1>1, <2>6, OnPlace DEF Next1
    <3>2. rx1 = [beats |-> <<>>, flit |-> Assembles(beats)]
      BY <1>1, <1>4, <2>6 DEF Receives, beats
    <3>3. Assembles(beats) = [words |-> flit, crcError |-> FALSE]
      <4>1. 1 \in 1 .. p.beat + 1 /\ beats[1] = <<flit, 1>> /\ beats[1][1] = flit
        BY <1>1, <2>5
      <4> QED BY <2>5, <2>6, <4>1 DEF Assembles
    <3>4. Assembles(beats) \in Whole /\ Assembles(beats) # Nothing
      <4>1. [words |-> flit, crcError |-> FALSE] \in Whole
        BY <2>2 DEF Whole
      <4> QED BY <3>3, <4>1, NoWhole
    <3>5. /\ rx1 \in Receiver /\ rx1.beats = <<>> /\ Len(rx1.beats) = 0
          /\ rx1.flit # Nothing /\ rx1.flit = WholeAt(stream, m)
      BY <2>1, <3>2, <3>3, <3>4 DEF Receiver, WholeAt, flit
    <3>6. Unread(rx1) = WORDS_PER_FLIT
      BY <3>5 DEF Unread
    <3>7. \A k \in 1 .. 0 : FALSE
      OBVIOUS
    <3> QED BY <1>1, <1>4, <2>1, <3>1, <3>5, <3>6, <3>7 DEF Gets
  <2>7. CASE p.beat + 1 # BEATS_PER_FLIT
    <3>1. Next1(p) = [word |-> p.word, beat |-> p.beat + 1] /\ Next1(p) \in Place
      BY <1>1, <2>7, OnPlace DEF Next1
    <3>2. rx1 = [rx EXCEPT !.beats = beats]
      BY <1>1, <1>4, <2>7 DEF Receives, beats
    <3>3. rx1 \in Receiver /\ rx1.beats = beats /\ rx1.flit = Nothing
      BY <1>1, <2>1, <2>4, <3>2 DEF Receiver
    <3>4. Unread(rx1) = 0 /\ m + 0 = m
      BY <1>1, <3>3 DEF Unread
    <3> QED BY <1>1, <1>4, <2>1, <2>4, <2>5, <3>1, <3>3, <3>4 DEF Gets, flit
  <2> QED BY <2>6, <2>7
<1> QED BY <1>2, <1>3, <1>4

\* A flit becomes words again, in order.
LEMMA GivesOn ==
  ASSUME NEW stream \in Stream, NEW given, NEW m \in Nat, NEW dp, Gives(stream, given, m, dp),
         NEW ready \in BOOLEAN, NEW taken \in BOOLEAN,
         NEW flit, taken => dp.words = <<>> /\ flit = WholeAt(stream, m),
         NEW dp1, Streams(flit, dp, dp1, ready, taken)
  PROVE  Gives(stream, IF dp.words # <<>> /\ ready THEN given + 1 ELSE given,
               IF taken THEN m + WORDS_PER_FLIT ELSE m, dp1)
<1>1. /\ given \in Nat
      /\ dp \in Depacketizer /\ dp.words \in Seq(Payload) /\ dp.crcError = FALSE /\ Len(dp.words) \in Nat
      /\ m = given + Len(dp.words)
      /\ \A k \in 1 .. Len(dp.words) : dp.words[k] = stream[given + k]
  <2>1. dp.words \in Seq(Payload) => Len(dp.words) \in Nat
    BY LenProperties
  <2> QED BY <2>1 DEF Gives, Depacketizer
<1>2. CASE taken
  <2>1. dp1 = WholeAt(stream, m) /\ dp.words = <<>> /\ given = m
    BY <1>1, <1>2 DEF Streams
  <2>2. FlitAt(stream, m) \in Flit
    BY FlitAtType
  <2> DEFINE words == FlitAt(stream, m)
  <2>3. /\ words \in Seq(Payload) /\ Len(words) = WORDS_PER_FLIT
        /\ \A k \in 1 .. WORDS_PER_FLIT : words[k] = stream[m + k]
    <3>1. words \in [1 .. WORDS_PER_FLIT -> Payload]
      BY <2>2 DEF Flit
    <3> QED BY <3>1, Params, SeqDef DEF FlitAt
  <2> HIDE DEF words
  <2>4. dp1.words = words /\ dp1.crcError = FALSE /\ dp1 \in Depacketizer
    BY <2>1, <2>3 DEF WholeAt, Depacketizer, words
  <2> QED BY <1>1, <1>2, <2>1, <2>3, <2>4 DEF Gives
<1>3. CASE ~taken /\ dp.words # <<>> /\ ready
  <2> DEFINE words == Tail(dp.words)
  <2>1. /\ words \in Seq(Payload) /\ Len(words) = Len(dp.words) - 1 /\ Len(dp.words) > 0
        /\ \A k \in 1 .. Len(words) : words[k] = dp.words[k + 1]
    BY <1>1, <1>3, HeadTailProperties, EmptySeq
  <2>2. dp1 = [words |-> words, crcError |-> FALSE]
    BY <1>1, <1>3 DEF Streams
  <2> HIDE DEF words
  <2>3. dp1 \in Depacketizer /\ dp1.words = words
    BY <2>1, <2>2 DEF Depacketizer
  <2>4. m = (given + 1) + Len(words) /\ given + 1 \in Nat
    BY <1>1, <2>1
  <2>5. \A k \in 1 .. Len(words) : words[k] = stream[(given + 1) + k]
    <3> TAKE k \in 1 .. Len(words)
    <3>1. k + 1 \in 1 .. Len(dp.words) /\ given + (k + 1) = (given + 1) + k
      BY <1>1, <2>1
    <3> QED BY <1>1, <2>1, <3>1
  <2> QED BY <1>3, <2>3, <2>4, <2>5 DEF Gives
<1>4. CASE ~taken /\ ~(dp.words # <<>> /\ ready)
  BY <1>4 DEF Streams
<1> QED BY <1>2, <1>3, <1>4

-----------------------------------------------------------------------------
(* The lanes, and a whole way from packetizer to depacketizer.             *)

\* What the transmitter puts on the lanes.
Shows(tx) == IF tx.left # 0 THEN <<tx.flit, BEATS_PER_FLIT - tx.left + 1>> ELSE Nothing

\* The lanes of which the transmitter is at the end: c[i] is the place in the
\* stream once the next i stages have been heard.  After a flit the lanes are
\* silent for an edge.
Carries(stream, n, tx, lane, c) ==
  /\ lane \in Seq(Beat \cup {Nothing})
  /\ Len(lane) = Stages
  /\ c \in [0 .. Stages -> Place]
  /\ \A i \in 0 .. Stages : c[i].word <= n
  /\ \A i \in 1 .. Stages :
       /\ lane[i] = Nothing => c[i] = c[i - 1]
       /\ lane[i] # Nothing =>
            /\ lane[i] = BeatAt(stream, c[i - 1])
            /\ c[i] = Next1(c[i - 1])
            /\ c[i - 1].word + WORDS_PER_FLIT <= n
            /\ c[i].beat = 0 => IF i = Stages THEN tx.left = 0 ELSE lane[i + 1] = Nothing

Shifted(lane, tx) == Append(Tail(lane), Shows(tx))

Moved(tx, c) == [i \in 0 .. Stages |-> IF i = Stages THEN On(tx, c[i]) ELSE c[i + 1]]

LEMMA CarriesOn ==
  ASSUME NEW stream \in Stream, NEW n \in Nat, NEW m \in Nat, m <= n, NEW n1 \in Nat, n <= n1,
         NEW tx, NEW lane, NEW c, Carries(stream, n, tx, lane, c), Feeds(stream, m, tx, c[Stages]),
         NEW flit, NEW load \in BOOLEAN, NEW tx1, Transmits(flit, tx, tx1, load)
  PROVE  /\ Carries(stream, n1, tx1, Shifted(lane, tx), Moved(tx, c))
         /\ Moved(tx, c)[0] = IF Head(lane) # Nothing THEN Next1(c[0]) ELSE c[0]
         /\ Head(lane) # Nothing => Head(lane) = BeatAt(stream, c[0])
<1> DEFINE lane1 == Shifted(lane, tx)
           c1 == Moved(tx, c)
           q == c[Stages]
<1>1. /\ lane \in Seq(Beat \cup {Nothing}) /\ Len(lane) = Stages /\ lane # <<>>
      /\ c \in [0 .. Stages -> Place]
      /\ \A i \in 0 .. Stages : c[i].word <= n
      /\ \A i \in 1 .. Stages :
           /\ lane[i] = Nothing => c[i] = c[i - 1]
           /\ lane[i] # Nothing =>
                /\ lane[i] = BeatAt(stream, c[i - 1])
                /\ c[i] = Next1(c[i - 1])
                /\ c[i - 1].word + WORDS_PER_FLIT <= n
                /\ c[i].beat = 0 => IF i = Stages THEN tx.left = 0 ELSE lane[i + 1] = Nothing
  <2>1. Len(<<>>) = 0
    OBVIOUS
  <2> QED BY <2>1, Params DEF Carries
<1>2. /\ q \in Place /\ q.word \in Nat /\ q.beat \in 0 .. BEATS_PER_FLIT - 1
      /\ tx \in Transmitter /\ tx.left \in 0 .. BEATS_PER_FLIT
      /\ m = q.word + InFlight(tx)
      /\ tx.left # 0 => q.beat = BEATS_PER_FLIT - tx.left /\ tx.flit = FlitAt(stream, q.word)
  BY PlaceNat DEF Feeds, Transmitter
<1>3. Shows(tx) \in Beat \cup {Nothing} /\ (Shows(tx) # Nothing <=> tx.left # 0)
      /\ (tx.left # 0 => Shows(tx) = BeatAt(stream, q))
  <2>1. CASE tx.left = 0
    BY <2>1 DEF Shows
  <2>2. CASE tx.left # 0
    <3>1. FlitAt(stream, q.word) \in Flit
      BY <1>2, FlitAtType
    <3>2. BEATS_PER_FLIT - tx.left + 1 = q.beat + 1 /\ q.beat + 1 \in 1 .. BEATS_PER_FLIT
      BY <1>2, <2>2, Params
    <3>3. Shows(tx) = BeatAt(stream, q) /\ Shows(tx) \in Beat
      BY <1>2, <2>2, <3>1, <3>2 DEF Shows, BeatAt, Beat
    <3> QED BY <2>2, <3>3, NoWhole
  <2> QED BY <2>1, <2>2
<1>4. /\ lane1 \in Seq(Beat \cup {Nothing}) /\ Len(lane1) = Stages
      /\ \A i \in 1 .. Stages - 1 : lane1[i] = lane[i + 1]
      /\ lane1[Stages] = Shows(tx)
      /\ Head(lane) = lane[1]
  <2> DEFINE rest == Tail(lane)
  <2>1. /\ rest \in Seq(Beat \cup {Nothing}) /\ Len(rest) = Stages - 1
        /\ \A i \in 1 .. Stages - 1 : rest[i] = lane[i + 1]
        /\ Head(lane) = lane[1]
    BY <1>1, HeadTailProperties
  <2> HIDE DEF rest
  <2>2. /\ Append(rest, Shows(tx)) \in Seq(Beat \cup {Nothing}) /\ Len(Append(rest, Shows(tx))) = Stages - 1 + 1
        /\ \A i \in 1 .. Stages - 1 : Append(rest, Shows(tx))[i] = rest[i]
        /\ Append(rest, Shows(tx))[Stages - 1 + 1] = Shows(tx)
    BY <1>3, <2>1, AppendProperties
  <2>3. lane1 = Append(rest, Shows(tx)) /\ Stages - 1 + 1 = Stages
    BY Params DEF Shifted, rest
  <2> QED BY <2>1, <2>2, <2>3
<1>5. /\ c1 \in [0 .. Stages -> Place]
      /\ \A i \in 0 .. Stages - 1 : c1[i] = c[i + 1]
      /\ c1[Stages] = On(tx, q)
  <2>1. On(tx, q) \in Place
    BY <1>2, OnPlace DEF On
  <2>2. \A i \in 0 .. Stages : i # Stages => i \in 0 .. Stages - 1 /\ i + 1 \in 0 .. Stages
    BY Params
  <2>3. \A i \in 0 .. Stages : (IF i = Stages THEN On(tx, c[i]) ELSE c[i + 1]) \in Place
    BY <1>1, <2>1, <2>2
  <2>4. \A i \in 0 .. Stages - 1 : i \in 0 .. Stages /\ i # Stages
    BY Params
  <2>5. Stages \in 0 .. Stages
    BY Params
  <2> QED BY <2>3, <2>4, <2>5 DEF Moved
<1> HIDE DEF lane1, c1, q
<1>6. tx.left # 0 => On(tx, q) = Next1(q) /\ q.word + WORDS_PER_FLIT <= n
  BY <1>2 DEF On, InFlight
<1>7. tx.left = 0 => On(tx, q) = q
  BY DEF On
<1>8. \A i \in 0 .. Stages : c1[i].word <= n
  <2>1. On(tx, q).word <= n
    <3>1. q.word <= n
      BY <1>1, Params DEF q
    <3>2. Next1(q).word \in {q.word, q.word + WORDS_PER_FLIT}
      BY DEF Next1
    <3> QED BY <1>2, <1>6, <1>7, <3>1, <3>2
  <2>2. \A i \in 0 .. Stages : i = Stages \/ (i \in 0 .. Stages - 1 /\ i + 1 \in 0 .. Stages)
    BY Params
  <2> QED BY <1>1, <1>5, <2>1, <2>2
<1>9. ASSUME NEW i \in 1 .. Stages
      PROVE  /\ lane1[i] = Nothing => c1[i] = c1[i - 1]
             /\ lane1[i] # Nothing =>
                  /\ lane1[i] = BeatAt(stream, c1[i - 1])
                  /\ c1[i] = Next1(c1[i - 1])
                  /\ c1[i - 1].word + WORDS_PER_FLIT <= n
                  /\ c1[i].beat = 0 => IF i = Stages THEN tx1.left = 0 ELSE lane1[i + 1] = Nothing
  <2>1. i - 1 \in 0 .. Stages - 1 /\ i - 1 + 1 = i
    BY Params
  <2>2. c1[i - 1] = c[i]
    BY <1>5, <2>1
  <2>3. CASE i # Stages
    <3>1. i \in 1 .. Stages - 1 /\ i \in 0 .. Stages - 1 /\ i + 1 \in 1 .. Stages /\ (i + 1) - 1 = i
      BY <2>3, Params
    <3>2. lane1[i] = lane[i + 1] /\ c1[i] = c[i + 1]
      BY <1>4, <1>5, <3>1
    <3>3. /\ lane[i + 1] = Nothing => c[i + 1] = c[i]
          /\ lane[i + 1] # Nothing =>
                /\ lane[i + 1] = BeatAt(stream, c[i])
                /\ c[i + 1] = Next1(c[i])
                /\ c[i].word + WORDS_PER_FLIT <= n
                /\ c[i + 1].beat = 0 => IF i + 1 = Stages THEN tx.left = 0 ELSE lane[i + 2] = Nothing
      <4>1. i + 1 + 1 = i + 2
        OBVIOUS
      <4> QED BY <1>1, <3>1, <4>1
    <3>4. lane[i + 1] # Nothing /\ c[i + 1].beat = 0 => lane1[i + 1] = Nothing
      <4>1. CASE i + 1 = Stages
        BY <1>3, <1>4, <3>3, <4>1
      <4>2. CASE i + 1 # Stages
        <5>1. i + 1 \in 1 .. Stages - 1 /\ i + 1 + 1 = i + 2
          BY <3>1, <4>2, Params
        <5> QED BY <1>4, <3>3, <4>2, <5>1
      <4> QED BY <4>1, <4>2
    <3> QED BY <2>2, <2>3, <3>2, <3>3, <3>4
  <2>4. CASE i = Stages
    <3>1. lane1[i] = Shows(tx) /\ c1[i] = On(tx, q) /\ c1[i - 1] = q
      BY <1>4, <1>5, <2>2, <2>4 DEF q
    <3>2. CASE tx.left = 0
      BY <1>3, <1>7, <3>1, <3>2
    <3>3. CASE tx.left # 0
      <4>1. Next1(q).beat = 0 => tx1.left = 0
        <5> SUFFICES ASSUME Next1(q).beat = 0 PROVE tx1.left = 0
          OBVIOUS
        <5>1. q.beat + 1 = BEATS_PER_FLIT
          BY <1>2 DEF Next1
        <5>2. tx.left = 1
          BY <1>2, <3>3, <5>1, Params
        <5>3. ~load /\ tx1 = [tx EXCEPT !.left = tx.left - 1, !.flit = Nothing]
          BY <3>3, <5>2 DEF Transmits
        <5> QED BY <1>2, <5>2, <5>3 DEF Transmitter
      <4> QED BY <1>3, <1>6, <2>4, <3>1, <3>3, <4>1
    <3> QED BY <3>2, <3>3
  <2> QED BY <2>3, <2>4
<1>10. Carries(stream, n1, tx1, lane1, c1)
  <2>1. \A i \in 0 .. Stages : c1[i].word <= n1
    <3>1. \A i \in 0 .. Stages : c1[i].word \in Nat
      BY <1>5, PlaceNat
    <3> QED BY <1>8, <3>1
  <2>2. \A i \in 1 .. Stages : c1[i - 1].word + WORDS_PER_FLIT <= n => c1[i - 1].word + WORDS_PER_FLIT <= n1
    <3>1. \A i \in 1 .. Stages : i - 1 \in 0 .. Stages
      BY Params
    <3>2. \A i \in 1 .. Stages : c1[i - 1].word \in Nat
      BY <1>5, <3>1, PlaceNat
    <3> QED BY <3>2, Params
  <2> QED BY <1>4, <1>5, <1>9, <2>1, <2>2 DEF Carries
<1>11. /\ c1[0] = IF Head(lane) # Nothing THEN Next1(c[0]) ELSE c[0]
       /\ Head(lane) # Nothing => Head(lane) = BeatAt(stream, c[0])
  <2>1. 0 \in 0 .. Stages - 1 /\ 1 \in 1 .. Stages /\ 0 + 1 = 1 /\ 1 - 1 = 0
    BY Params
  <2> QED BY <1>1, <1>4, <1>5, <2>1
<1> QED BY <1>10, <1>11 DEF lane1, c1

\* One direction, from the words a packetizer takes to those a depacketizer
\* gives.  The first flit is read as soon as it is whole, in the silence that
\* follows it.
Path(stream, n, given, pk, tx, lane, rx, dp, c) ==
  LET passed == c[Stages].word + InFlight(tx)
      read == c[0].word - Unread(rx)
  IN /\ Gathers(stream, n, passed, pk)
     /\ Feeds(stream, passed, tx, c[Stages])
     /\ Carries(stream, n, tx, lane, c)
     /\ Gets(stream, read, rx, c[0])
     /\ Gives(stream, given, read, dp)
     /\ rx.flit # Nothing /\ c[0].word = WORDS_PER_FLIT => dp.words = <<>> /\ Head(lane) = Nothing

\* What is under way is bounded by what has been taken.
Bounded(stream, n, given, tx, lane, rx, dp, c) ==
  /\ given \in Nat /\ Len(dp.words) \in Nat /\ given + Len(dp.words) <= n
  /\ dp.crcError = FALSE
  /\ c[0] \in Place /\ c[0].word <= n
  /\ dp.words # <<>> => /\ Head(dp.words) \in Payload
                        /\ Head(dp.words) = stream[given + 1]
                        /\ given + 1 <= n
  /\ rx.flit # Nothing => c[0].word >= WORDS_PER_FLIT
  /\ Head(lane) # Nothing => /\ c[0].word + WORDS_PER_FLIT <= n
                             /\ Head(lane) = BeatAt(stream, c[0])
  /\ c[Stages].word + InFlight(tx) \in Nat
  /\ c[Stages].word + InFlight(tx) <= n

LEMMA PathBounds ==
  ASSUME NEW stream \in Stream, NEW n \in Nat, NEW given, NEW pk, NEW tx, NEW lane, NEW rx, NEW dp, NEW c,
         Path(stream, n, given, pk, tx, lane, rx, dp, c)
  PROVE  Bounded(stream, n, given, tx, lane, rx, dp, c)
<1> DEFINE passed == c[Stages].word + InFlight(tx)
           read == c[0].word - Unread(rx)
<1>1. /\ Gathers(stream, n, passed, pk)
      /\ Carries(stream, n, tx, lane, c)
      /\ Gets(stream, read, rx, c[0])
      /\ Gives(stream, given, read, dp)
  BY DEF Path
<1> HIDE DEF passed, read
<1>2. c[0] \in Place /\ c[0].word \in Nat /\ c[0].word <= n
  <2>1. 0 \in 0 .. Stages
    BY Params
  <2> QED BY <1>1, <2>1, PlaceNat DEF Carries
<1>3. read \in Nat /\ c[0].word = read + Unread(rx) /\ Unread(rx) \in {0, WORDS_PER_FLIT} /\ read <= n
  <2>1. read \in Nat /\ c[0].word = read + Unread(rx)
    BY <1>1 DEF Gets
  <2>2. Unread(rx) \in {0, WORDS_PER_FLIT}
    BY DEF Unread
  <2> QED BY <1>2, <2>1, <2>2, Params
<1>4. /\ given \in Nat /\ dp.words \in Seq(Payload) /\ Len(dp.words) \in Nat /\ dp.crcError = FALSE
      /\ read = given + Len(dp.words)
      /\ \A k \in 1 .. Len(dp.words) : dp.words[k] = stream[given + k]
  <2>1. dp.words \in Seq(Payload) => Len(dp.words) \in Nat
    BY LenProperties
  <2> QED BY <1>1, <2>1 DEF Gives, Depacketizer
<1>5. dp.words # <<>> => /\ Head(dp.words) \in Payload
                         /\ Head(dp.words) = stream[given + 1]
                         /\ given + 1 <= n
  <2> SUFFICES ASSUME dp.words # <<>>
               PROVE  Head(dp.words) \in Payload /\ Head(dp.words) = stream[given + 1] /\ given + 1 <= n
    OBVIOUS
  <2>1. Len(dp.words) > 0 /\ Head(dp.words) \in Payload /\ Head(dp.words) = dp.words[1]
    BY <1>4, EmptySeq, HeadTailProperties
  <2>2. 1 \in 1 .. Len(dp.words)
    BY <1>4, <2>1
  <2> QED BY <1>3, <1>4, <2>1, <2>2
<1>6. rx.flit # Nothing => c[0].word >= WORDS_PER_FLIT
  BY <1>3, Params DEF Unread
<1>7. Head(lane) # Nothing => c[0].word + WORDS_PER_FLIT <= n /\ Head(lane) = BeatAt(stream, c[0])
  <2>1. 1 \in 1 .. Stages /\ 1 - 1 = 0
    BY Params
  <2>2. lane # <<>> /\ lane \in Seq(Beat \cup {Nothing})
    <3>1. Len(<<>>) = 0
      OBVIOUS
    <3> QED BY <1>1, <3>1, Params DEF Carries
  <2>3. Head(lane) = lane[1]
    BY <2>2, HeadTailProperties
  <2> QED BY <1>1, <2>1, <2>3 DEF Carries
<1>8. passed \in Nat /\ passed <= n
  <2>1. /\ passed \in Nat /\ pk.words \in Seq(Payload)
        /\ n = passed + Waiting(pk) + Len(pk.words) /\ Waiting(pk) \in {0, WORDS_PER_FLIT}
    BY <1>1 DEF Gathers, Packetizer, Waiting
  <2>2. Len(pk.words) \in Nat
    BY <2>1, LenProperties
  <2> QED BY <2>1, <2>2, Params
<1> QED BY <1>2, <1>3, <1>4, <1>5, <1>6, <1>7, <1>8 DEF passed, Bounded

\* A flit is followed by an edge on which no beat arrives.
LEMMA SilentAfter ==
  ASSUME NEW stream \in Stream, NEW n \in Nat, NEW tx, NEW lane, NEW c, Carries(stream, n, tx, lane, c),
         Head(lane) # Nothing, c[0].beat + 1 = BEATS_PER_FLIT
  PROVE  Head(Shifted(lane, tx)) = Nothing
<1>1. /\ 1 \in 1 .. Stages /\ 1 - 1 = 0 /\ 1 + 1 = 2
      /\ lane # <<>> /\ lane \in Seq(Beat \cup {Nothing}) /\ Len(lane) = Stages
  <2>1. Len(<<>>) = 0
    OBVIOUS
  <2> QED BY <2>1, Params DEF Carries
<1> DEFINE rest == Tail(lane)
<1>2. /\ Head(lane) = lane[1]
      /\ rest \in Seq(Beat \cup {Nothing}) /\ Len(rest) = Stages - 1
      /\ \A i \in 1 .. Stages - 1 : rest[i] = lane[i + 1]
  BY <1>1, HeadTailProperties
<1> HIDE DEF rest
<1>3. c[1] = Next1(c[0]) /\ (c[1].beat = 0 => IF 1 = Stages THEN tx.left = 0 ELSE lane[2] = Nothing)
  BY <1>1, <1>2 DEF Carries
<1>4. c[1].beat = 0
  BY <1>3 DEF Next1
<1>5. CASE Stages = 1
  <2>1. rest = <<>>
    BY <1>2, <1>5, EmptySeq
  <2>2. Shows(tx) = Nothing
    BY <1>3, <1>4, <1>5 DEF Shows
  <2>3. Head(Append(<<>>, Nothing)) = Nothing
    OBVIOUS
  <2> QED BY <2>1, <2>2, <2>3 DEF Shifted, rest
<1>6. CASE Stages # 1
  <2>1. rest # <<>> /\ 1 \in 1 .. Stages - 1 /\ 1 \in 1 .. Len(rest)
    <3>1. Len(<<>>) = 0
      OBVIOUS
    <3> QED BY <1>2, <1>6, <3>1, Params
  <2>2. rest[1] = Nothing
    BY <1>1, <1>2, <1>3, <1>4, <1>6, <2>1
  <2>3. Append(rest, Shows(tx))[1] = Nothing
    BY <1>2, <2>1, <2>2
  <2>4. Head(Append(rest, Shows(tx))) = Append(rest, Shows(tx))[1]
    BY <1>2
  <2> QED BY <2>3, <2>4 DEF Shifted, rest
<1> QED BY <1>5, <1>6

\* An edge, on which a word may be offered, a flit loaded or taken, and a word
\* given.  No beat finds a flit held.
Advances(stream, n, pk, tx, lane, rx, dp, word, load, ready, taken, pk1, tx1, rx1, dp1) ==
  /\ word # Nothing => word \in Payload /\ word = stream[n + 1]
  /\ load \in BOOLEAN /\ ready \in BOOLEAN /\ taken \in BOOLEAN
  /\ taken <=> rx.flit # Nothing /\ dp.words = <<>>
  /\ Head(lane) # Nothing => rx.flit = Nothing
  /\ Packs(pk, pk1, word, load) /\ Transmits(pk.flit, tx, tx1, load)
  /\ Receives(rx, rx1, Head(lane), taken) /\ Streams(rx.flit, dp, dp1, ready, taken)

Accepted(n, word, pk) == IF word # Nothing /\ pk.flit = Nothing THEN n + 1 ELSE n

Passed(given, dp, ready) == IF dp.words # <<>> /\ ready THEN given + 1 ELSE given

\* It takes the words along the path, and loses none.
LEMMA PathOn ==
  ASSUME NEW stream \in Stream, NEW n \in Nat, NEW given, NEW pk, NEW tx, NEW lane, NEW rx, NEW dp, NEW c,
         Path(stream, n, given, pk, tx, lane, rx, dp, c),
         NEW word, NEW load, NEW ready, NEW taken, NEW pk1, NEW tx1, NEW rx1, NEW dp1,
         Advances(stream, n, pk, tx, lane, rx, dp, word, load, ready, taken, pk1, tx1, rx1, dp1)
  PROVE  Path(stream, Accepted(n, word, pk), Passed(given, dp, ready),
              pk1, tx1, Shifted(lane, tx), rx1, dp1, Moved(tx, c))
<1>0. /\ word # Nothing => word \in Payload /\ word = stream[n + 1]
      /\ load \in BOOLEAN /\ ready \in BOOLEAN /\ taken \in BOOLEAN
      /\ taken <=> rx.flit # Nothing /\ dp.words = <<>>
      /\ Head(lane) # Nothing => rx.flit = Nothing
      /\ Packs(pk, pk1, word, load) /\ Transmits(pk.flit, tx, tx1, load)
      /\ Receives(rx, rx1, Head(lane), taken) /\ Streams(rx.flit, dp, dp1, ready, taken)
  BY DEF Advances
<1> DEFINE passed == c[Stages].word + InFlight(tx)
           read == c[0].word - Unread(rx)
           n1 == IF word # Nothing /\ pk.flit = Nothing THEN n + 1 ELSE n
           given1 == IF dp.words # <<>> /\ ready THEN given + 1 ELSE given
           passed1 == IF load THEN passed + WORDS_PER_FLIT ELSE passed
           read1 == IF taken THEN read + WORDS_PER_FLIT ELSE read
           lane1 == Shifted(lane, tx)
           c1 == Moved(tx, c)
<1>1. /\ Gathers(stream, n, passed, pk)
      /\ Feeds(stream, passed, tx, c[Stages])
      /\ Carries(stream, n, tx, lane, c)
      /\ Gets(stream, read, rx, c[0])
      /\ Gives(stream, given, read, dp)
      /\ rx.flit # Nothing /\ c[0].word = WORDS_PER_FLIT => dp.words = <<>> /\ Head(lane) = Nothing
  BY DEF Path
<1>2. passed \in Nat /\ passed <= n
  BY PathBounds DEF Bounded
<1>3. pk.flit \in Flit \cup {Nothing} /\ (pk.flit # Nothing => pk.flit = FlitAt(stream, passed))
  BY <1>1 DEF Gathers, Packetizer
<1>4. /\ read \in Nat /\ c[0].word = read + Unread(rx)
      /\ rx.flit # Nothing => rx.flit = WholeAt(stream, read)
  BY <1>1 DEF Gets
<1>5. n1 \in Nat /\ n <= n1
  OBVIOUS
<1> HIDE DEF passed, read, n1, given1
<1>6. load => pk.flit # Nothing
  BY <1>0 DEF Transmits
<1>7. Gathers(stream, n1, passed1, pk1)
  BY <1>0, <1>1, <1>6, GathersOn DEF n1
<1>8. c1[Stages] = On(tx, c[Stages])
  <2>1. Stages \in 0 .. Stages
    BY Params
  <2> QED BY <2>1 DEF Moved
<1>9. Feeds(stream, passed1, tx1, c1[Stages])
  BY <1>0, <1>1, <1>2, <1>3, <1>8, FeedsOn
<1>10. /\ Carries(stream, n1, tx1, lane1, c1)
       /\ c1[0] = IF Head(lane) # Nothing THEN Next1(c[0]) ELSE c[0]
       /\ Head(lane) # Nothing => Head(lane) = BeatAt(stream, c[0])
  BY <1>0, <1>1, <1>2, <1>5, CarriesOn
<1>11. Gets(stream, read1, rx1, c1[0])
  BY <1>0, <1>1, <1>10, GetsOn
<1>12. Gives(stream, given1, read1, dp1)
  BY <1>0, <1>1, <1>4, GivesOn DEF given1
<1>13. passed1 = c1[Stages].word + InFlight(tx1)
  BY <1>9 DEF Feeds
<1>14. read1 = c1[0].word - Unread(rx1)
  <2>1. c1[0].word = read1 + Unread(rx1) /\ read1 \in Nat
    BY <1>11 DEF Gets
  <2>2. Unread(rx1) \in Nat
    BY Params DEF Unread
  <2> QED BY <2>1, <2>2
<1>15. rx1.flit # Nothing /\ c1[0].word = WORDS_PER_FLIT => dp1.words = <<>> /\ Head(lane1) = Nothing
  <2> SUFFICES ASSUME rx1.flit # Nothing, c1[0].word = WORDS_PER_FLIT
               PROVE  dp1.words = <<>> /\ Head(lane1) = Nothing
    OBVIOUS
  <2>1. rx \in Receiver /\ Len(rx.beats) = c[0].beat /\ c[0].word \in Nat
    BY <1>1, PlaceNat DEF Gets
  <2>2. CASE Head(lane) = Nothing
    <3>1. c1[0] = c[0]
      BY <1>10, <2>2
    <3>2. CASE taken
      <4>1. rx1 = [rx EXCEPT !.flit = Nothing]
        BY <1>0, <2>2, <3>2 DEF Receives
      <4> QED BY <2>1, <4>1 DEF Receiver
    <3>3. CASE ~taken
      <4>1. rx1 = rx
        BY <1>0, <2>2, <3>3 DEF Receives
      <4> QED BY <1>0, <1>1, <3>1, <3>3, <4>1
    <3> QED BY <3>2, <3>3
  <2>3. CASE Head(lane) # Nothing
    <3>1. rx.flit = Nothing /\ ~taken
      BY <1>0, <2>3
    <3>2. c[0].beat + 1 = BEATS_PER_FLIT
      <4> SUFFICES ASSUME c[0].beat + 1 # BEATS_PER_FLIT PROVE FALSE
        OBVIOUS
      <4>1. rx1 = [rx EXCEPT !.beats = Append(rx.beats, Head(lane))]
        BY <1>0, <2>1, <2>3 DEF Receives
      <4> QED BY <2>1, <3>1, <4>1 DEF Receiver
    <3>3. Head(lane1) = Nothing
      BY <1>1, <2>3, <3>2, SilentAfter
    <3>4. c[0].word = 0
      <4>1. c1[0].word = c[0].word + WORDS_PER_FLIT
        BY <1>10, <2>3, <3>2 DEF Next1
      <4> QED BY <2>1, <4>1, Params
    <3>5. read = 0
      BY <1>4, <3>1, <3>4 DEF Unread
    <3>6. /\ given \in Nat /\ Len(dp.words) \in Nat /\ read = given + Len(dp.words) /\ dp.words \in Seq(Payload)
      BY <1>1, PathBounds DEF Gives, Depacketizer, Bounded
    <3>7. dp.words = <<>>
      BY <3>5, <3>6, EmptySeq
    <3>8. dp1 = dp
      BY <1>0, <3>1, <3>7 DEF Streams
    <3> QED BY <3>3, <3>7, <3>8
  <2> QED BY <2>2, <2>3
<1> HIDE DEF passed1, read1, lane1, c1
<1>16. Path(stream, n1, given1, pk1, tx1, lane1, rx1, dp1, c1)
  BY <1>7, <1>9, <1>10, <1>11, <1>12, <1>13, <1>14, <1>15 DEF Path
<1> QED BY <1>16 DEF n1, given1, lane1, c1, Accepted, Passed

\* A receiver whose words are taken at once is free when the next flit comes.
KeepsUp(lane, rx, dp) ==
  /\ rx.flit # Nothing => dp.words = <<>> /\ rx.beats = <<>> /\ Head(lane) = Nothing
  /\ dp.words # <<>> => Len(dp.words) + Len(rx.beats) <= WORDS_PER_FLIT

LEMMA KeepsUpOn ==
  ASSUME NEW stream \in Stream, NEW n \in Nat, NEW given, NEW pk, NEW tx, NEW lane, NEW rx, NEW dp, NEW c,
         Path(stream, n, given, pk, tx, lane, rx, dp, c), KeepsUp(lane, rx, dp),
         WORDS_PER_FLIT <= BEATS_PER_FLIT,
         NEW word, NEW load, NEW taken, NEW pk1, NEW tx1, NEW rx1, NEW dp1,
         Advances(stream, n, pk, tx, lane, rx, dp, word, load, TRUE, taken, pk1, tx1, rx1, dp1)
  PROVE  KeepsUp(Shifted(lane, tx), rx1, dp1)
<1>0. /\ taken \in BOOLEAN /\ (taken <=> rx.flit # Nothing /\ dp.words = <<>>)
      /\ Receives(rx, rx1, Head(lane), taken) /\ Streams(rx.flit, dp, dp1, TRUE, taken)
  BY DEF Advances
<1> DEFINE read == c[0].word - Unread(rx)
<1>1. /\ Carries(stream, n, tx, lane, c)
      /\ Gets(stream, read, rx, c[0])
      /\ Gives(stream, given, read, dp)
  BY DEF Path
<1>2. /\ rx \in Receiver /\ rx.beats \in Seq(Beat) /\ Len(rx.beats) = c[0].beat
      /\ c[0].beat \in 0 .. BEATS_PER_FLIT - 1
      /\ read \in Nat
      /\ rx.flit # Nothing => rx.flit = WholeAt(stream, read)
  BY <1>1, PlaceNat DEF Gets, Receiver
<1>3. dp \in Depacketizer /\ dp.words \in Seq(Payload) /\ Len(dp.words) \in Nat
  BY <1>1, PathBounds DEF Gives, Depacketizer, Bounded
<1> HIDE DEF read
<1>4. CASE taken
  <2>1. Head(lane) = Nothing /\ rx.beats = <<>>
    BY <1>0, <1>4 DEF KeepsUp
  <2>2. rx1 = [rx EXCEPT !.flit = Nothing]
    BY <1>0, <1>4, <2>1 DEF Receives
  <2>3. rx1.flit = Nothing /\ rx1.beats = <<>>
    BY <1>2, <2>1, <2>2 DEF Receiver
  <2>4. dp1.words = FlitAt(stream, read)
    BY <1>0, <1>2, <1>4 DEF Streams, WholeAt
  <2>5. Len(dp1.words) = WORDS_PER_FLIT
    BY <2>4, Params DEF FlitAt
  <2>6. Len(<<>>) = 0
    OBVIOUS
  <2> QED BY <1>0, <2>3, <2>5, <2>6, Params DEF KeepsUp
<1>5. CASE ~taken
  <2>1. rx.flit = Nothing
    BY <1>0, <1>5 DEF KeepsUp
  <2>2. /\ dp.words # <<>> => Len(dp1.words) = Len(dp.words) - 1 /\ dp1.words \in Seq(Payload)
        /\ dp.words = <<>> => dp1.words = <<>>
    BY <1>0, <1>3, <1>5, HeadTailProperties DEF Streams
  <2>3. dp.words # <<>> => Len(dp.words) > 0
    BY <1>3, EmptySeq
  <2>4. CASE Head(lane) = Nothing
    <3>1. rx1 = rx
      BY <1>0, <1>5, <2>4 DEF Receives
    <3>2. dp.words # <<>> => Len(dp.words) + c[0].beat <= WORDS_PER_FLIT
      BY <1>0, <1>2 DEF KeepsUp
    <3>3. dp1.words # <<>> => Len(dp1.words) + Len(rx1.beats) <= WORDS_PER_FLIT
      <4>1. Len(rx1.beats) = c[0].beat /\ c[0].beat \in Nat
        BY <1>2, <3>1, Params
      <4> QED BY <1>3, <2>2, <3>2, <4>1, Params
    <3> QED BY <1>0, <2>1, <3>1, <3>3 DEF KeepsUp
  <2>5. CASE Head(lane) # Nothing /\ c[0].beat + 1 # BEATS_PER_FLIT
    <3> DEFINE beats == Append(rx.beats, Head(lane))
    <3>1. rx1 = [rx EXCEPT !.beats = beats]
      BY <1>0, <1>2, <2>5 DEF Receives
    <3>2. Len(beats) = c[0].beat + 1
      BY <1>2, AppendProperties
    <3> HIDE DEF beats
    <3>3. rx1.flit = Nothing /\ rx1.beats = beats
      BY <1>2, <2>1, <3>1 DEF Receiver
    <3>4. dp.words # <<>> => Len(dp.words) + c[0].beat <= WORDS_PER_FLIT
      BY <1>0, <1>2 DEF KeepsUp
    <3>5. dp1.words # <<>> => Len(dp1.words) + Len(rx1.beats) <= WORDS_PER_FLIT
      BY <1>2, <1>3, <2>2, <3>2, <3>3, <3>4, Params
    <3> QED BY <1>0, <3>3, <3>5 DEF KeepsUp
  <2>6. CASE Head(lane) # Nothing /\ c[0].beat + 1 = BEATS_PER_FLIT
    <3>1. rx1.beats = <<>>
      BY <1>0, <1>2, <2>6 DEF Receives
    <3>2. Head(Shifted(lane, tx)) = Nothing
      BY <1>1, <2>6, SilentAfter
    <3>3. dp1.words = <<>>
      <4> SUFFICES ASSUME dp.words # <<>> PROVE dp1.words = <<>>
        BY <2>2
      <4>1. Len(dp.words) + c[0].beat <= WORDS_PER_FLIT
        BY <1>0, <1>2 DEF KeepsUp
      <4>2. Len(dp1.words) = 0
        BY <1>2, <1>3, <2>2, <2>3, <2>6, <4>1, Params
      <4> QED BY <2>2, <4>2, EmptySeq
    <3> QED BY <1>0, <3>1, <3>2, <3>3 DEF KeepsUp
  <2> QED BY <2>4, <2>5, <2>6
<1> QED BY <1>0, <1>4, <1>5

-----------------------------------------------------------------------------
(* What the words are, plain and encrypted.                                *)

LEMMA BlockParams == WORDS_PER_BLOCK \in Nat \ {0} /\ CIPHER_FIFO_DEPTH \in Nat
BY LoopbackAssumption

LEMMA DivZero == ASSUME NEW w \in Nat \ {0}, NEW a \in 0 .. w - 1 PROVE a \div w = 0
OBVIOUS

LEMMA DivBounds ==
  ASSUME NEW w \in Nat \ {0}, NEW a \in Nat
  PROVE  a \div w \in Nat /\ (a \div w) * w \in Nat /\ (a \div w) * w <= a /\ a < (a \div w) * w + w
OBVIOUS

LEMMA DivNext ==
  ASSUME NEW w \in Nat \ {0}, NEW a \in Nat
  PROVE  ((a + w) \div w) * w = (a \div w) * w + w
<1>1. (a + w) \div w = a \div w + 1 /\ a \div w \in Nat
  OBVIOUS
<1>2. \A q \in Nat : (q + 1) * w = q * w + w
  OBVIOUS
<1> QED BY <1>1, <1>2

\* The block of plaintext words that follows the first f.
Block(f) == [k \in 1 .. WORDS_PER_BLOCK |-> f + k]

\* f words are whole blocks.
Aligned(f) == \A k \in 1 .. WORDS_PER_BLOCK : ((f + k - 1) \div WORDS_PER_BLOCK) * WORDS_PER_BLOCK = f

Plain == [i \in Nat \ {0} |-> i]

Encrypted == [i \in Nat \ {0} |-> Expected(i)]

LEMMA AlignedZero == Aligned(0)
<1> SUFFICES ASSUME NEW k \in 1 .. WORDS_PER_BLOCK
             PROVE  ((0 + k - 1) \div WORDS_PER_BLOCK) * WORDS_PER_BLOCK = 0
  BY DEF Aligned
<1>1. 0 + k - 1 \in 0 .. WORDS_PER_BLOCK - 1
  BY BlockParams
<1>2. (0 + k - 1) \div WORDS_PER_BLOCK = 0
  BY <1>1, BlockParams, DivZero
<1> QED BY <1>2, BlockParams

LEMMA AlignedNext == ASSUME NEW f \in Nat, Aligned(f) PROVE Aligned(f + WORDS_PER_BLOCK)
<1> SUFFICES ASSUME NEW k \in 1 .. WORDS_PER_BLOCK
             PROVE  ((f + WORDS_PER_BLOCK + k - 1) \div WORDS_PER_BLOCK) * WORDS_PER_BLOCK = f + WORDS_PER_BLOCK
  BY DEF Aligned
<1> DEFINE a == f + k - 1
<1>1. a \in Nat /\ f + WORDS_PER_BLOCK + k - 1 = a + WORDS_PER_BLOCK
  BY BlockParams
<1>2. (a \div WORDS_PER_BLOCK) * WORDS_PER_BLOCK = f
  BY DEF Aligned
<1> HIDE DEF a
<1>3. ((a + WORDS_PER_BLOCK) \div WORDS_PER_BLOCK) * WORDS_PER_BLOCK = f + WORDS_PER_BLOCK
  BY <1>1, <1>2, BlockParams, DivNext
<1> QED BY <1>1, <1>3

LEMMA ExpectedIs ==
  ASSUME NEW i \in Nat \ {0}, NEW f \in Nat, f = ((i - 1) \div WORDS_PER_BLOCK) * WORDS_PER_BLOCK,
         i - f \in 1 .. WORDS_PER_BLOCK
  PROVE  Expected(i) = <<Block(f), i - f>>
BY DEF Expected, Crypto!Ciphertext, Block

LEMMA AlignedWord ==
  ASSUME NEW f \in Nat, Aligned(f), NEW k \in 1 .. WORDS_PER_BLOCK
  PROVE  Expected(f + k) = <<Block(f), k>> /\ Encrypted[f + k] = <<Block(f), k>>
<1>1. f + k \in Nat \ {0} /\ (f + k) - f = k
  BY BlockParams
<1>2. ((f + k - 1) \div WORDS_PER_BLOCK) * WORDS_PER_BLOCK = f
  BY DEF Aligned
<1> QED BY <1>1, <1>2, ExpectedIs DEF Encrypted

LEMMA StreamTypes == Plain \in Stream /\ Encrypted \in Stream
<1>1. Plain \in Stream
  BY DEF Plain, Stream, Payload
<1>2. ASSUME NEW i \in Nat \ {0} PROVE Expected(i) \in Payload
  <2> DEFINE f == ((i - 1) \div WORDS_PER_BLOCK) * WORDS_PER_BLOCK
  <2>1. i - 1 \in Nat
    OBVIOUS
  <2>2. f \in Nat /\ f <= i - 1 /\ i - 1 < f + WORDS_PER_BLOCK
    BY <2>1, BlockParams, DivBounds
  <2>3. \A g : g = f => g = ((i - 1) \div WORDS_PER_BLOCK) * WORDS_PER_BLOCK
    OBVIOUS
  <2> HIDE DEF f
  <2>4. i - f \in 1 .. WORDS_PER_BLOCK
    BY <2>2, BlockParams
  <2>5. Expected(i) = <<Block(f), i - f>>
    BY <2>2, <2>3, <2>4, ExpectedIs
  <2>6. Block(f) \in [1 .. WORDS_PER_BLOCK -> Nat]
    BY <2>2 DEF Block
  <2> QED BY <2>4, <2>5, <2>6 DEF Payload
<1>3. Encrypted \in Stream
  BY <1>2 DEF Encrypted, Stream
<1> QED BY <1>1, <1>3

-----------------------------------------------------------------------------
(* Die B's service.                                                        *)

Builder == [words : Seq(Nat), pending : BOOLEAN]

Engine == [round : Nat, block : Seq(Nat), done : BOOLEAN]

\* u words have come, of which s are in blocks that the engine has taken.  A
\* block that it has taken stays in the buffer until the next word comes.
Builds(u, s, bb) ==
  /\ s \in Nat
  /\ bb \in Builder
  /\ Len(bb.words) <= WORDS_PER_BLOCK
  /\ bb.pending => bb.words = Block(s) /\ u = s + WORDS_PER_BLOCK
  /\ ~bb.pending => IF Len(bb.words) = WORDS_PER_BLOCK THEN u = s
                     ELSE u = s + Len(bb.words) /\ \A k \in 1 .. Len(bb.words) : bb.words[k] = s + k

\* The engine has given the first f of these s words to the queue.
Encrypts(s, f, eng) ==
  /\ f \in Nat
  /\ eng \in Engine
  /\ eng.round # 0 => ~eng.done
  /\ IF eng.round # 0 \/ eng.done THEN s = f + WORDS_PER_BLOCK /\ eng.block = Block(f) ELSE s = f

\* x of these f words have left the queue.
Queues(f, x, fifo) ==
  /\ x \in Nat
  /\ f = x + Len(fifo)
  /\ Aligned(f)
  /\ fifo \in Seq(Payload)
  /\ \A k \in 1 .. Len(fifo) : fifo[k] = Encrypted[x + k]

LEMMA BuildsOn ==
  ASSUME NEW u \in Nat, NEW s, NEW bb, Builds(u, s, bb),
         NEW take \in BOOLEAN, NEW start \in BOOLEAN, start => bb.pending,
         NEW word, take => ~bb.pending /\ word = u + 1,
         NEW bb1,
         take => LET words == IF Len(bb.words) = WORDS_PER_BLOCK THEN <<word>> ELSE Append(bb.words, word)
                 IN  bb1 = [words |-> words, pending |-> Len(words) = WORDS_PER_BLOCK],
         ~take => bb1 = [bb EXCEPT !.pending = bb.pending /\ ~start]
  PROVE  Builds(IF take THEN u + 1 ELSE u, IF start THEN s + WORDS_PER_BLOCK ELSE s, bb1)
<1>1. /\ s \in Nat
      /\ bb \in Builder /\ bb.words \in Seq(Nat) /\ Len(bb.words) \in Nat /\ bb.pending \in BOOLEAN
      /\ Len(bb.words) <= WORDS_PER_BLOCK
      /\ bb.pending => bb.words = Block(s) /\ u = s + WORDS_PER_BLOCK
      /\ ~bb.pending => IF Len(bb.words) = WORDS_PER_BLOCK THEN u = s
                         ELSE u = s + Len(bb.words) /\ \A k \in 1 .. Len(bb.words) : bb.words[k] = s + k
  <2>1. \A w : w \in Seq(Nat) => Len(w) \in Nat
    BY LenProperties
  <2> QED BY <2>1 DEF Builds, Builder
<1>2. CASE ~take /\ ~start
  <2>1. bb1 = bb
    BY <1>1, <1>2 DEF Builder
  <2> QED BY <1>2, <2>1
<1>3. CASE ~take /\ start
  <2>1. bb1 = [bb EXCEPT !.pending = FALSE]
    BY <1>3
  <2>2. bb1 \in Builder /\ bb1.words = bb.words /\ ~bb1.pending
    BY <1>1, <2>1 DEF Builder
  <2>3. bb.pending /\ bb.words = Block(s)
    BY <1>1, <1>3
  <2>4. Len(bb.words) = WORDS_PER_BLOCK
    BY <2>3, BlockParams DEF Block
  <2>5. s + WORDS_PER_BLOCK \in Nat /\ u = s + WORDS_PER_BLOCK
    BY <1>1, <2>3, BlockParams
  <2> QED BY <1>1, <1>3, <2>2, <2>4, <2>5 DEF Builds
<1>4. CASE take
  <2>1. ~start /\ ~bb.pending /\ word = u + 1 /\ word \in Nat
    BY <1>4
  <2> DEFINE words == IF Len(bb.words) = WORDS_PER_BLOCK THEN <<word>> ELSE Append(bb.words, word)
  <2>2. bb1 = [words |-> words, pending |-> Len(words) = WORDS_PER_BLOCK]
    BY <1>4
  <2>3. /\ words \in Seq(Nat) /\ Len(words) \in 1 .. WORDS_PER_BLOCK
        /\ u + 1 = s + Len(words)
        /\ \A k \in 1 .. Len(words) : words[k] = s + k
    <3>1. CASE Len(bb.words) = WORDS_PER_BLOCK
      <4>1. words = <<word>> /\ u = s
        BY <1>1, <2>1, <3>1
      <4>2. <<word>> \in Seq(Nat) /\ Len(<<word>>) = 1 /\ \A k \in 1 .. 1 : <<word>>[k] = word
        BY <2>1
      <4>3. \A k \in 1 .. 1 : k = 1
        OBVIOUS
      <4> QED BY <1>1, <2>1, <4>1, <4>2, <4>3, BlockParams
    <3>2. CASE Len(bb.words) # WORDS_PER_BLOCK
      <4>1. /\ words = Append(bb.words, word) /\ u = s + Len(bb.words)
            /\ \A k \in 1 .. Len(bb.words) : bb.words[k] = s + k
        BY <1>1, <2>1, <3>2
      <4> HIDE DEF words
      <4>2. /\ words \in Seq(Nat) /\ Len(words) = Len(bb.words) + 1
            /\ \A k \in 1 .. Len(bb.words) : words[k] = bb.words[k]
            /\ words[Len(bb.words) + 1] = word
        BY <1>1, <2>1, <4>1, AppendProperties
      <4>3. \A k \in 1 .. Len(bb.words) + 1 : k \in 1 .. Len(bb.words) \/ k = Len(bb.words) + 1
        BY <1>1
      <4>4. word = s + (Len(bb.words) + 1)
        BY <1>1, <2>1, <4>1
      <4>5. Len(words) \in 1 .. WORDS_PER_BLOCK /\ u + 1 = s + Len(words)
        BY <1>1, <3>2, <4>1, <4>2, BlockParams
      <4>6. \A k \in 1 .. Len(words) : words[k] = s + k
        BY <4>1, <4>2, <4>3, <4>4
      <4> QED BY <4>2, <4>5, <4>6
    <3> QED BY <3>1, <3>2
  <2> HIDE DEF words
  <2>4. bb1 \in Builder /\ bb1.words = words /\ (bb1.pending <=> Len(words) = WORDS_PER_BLOCK)
    BY <2>2, <2>3 DEF Builder
  <2>5. Len(words) = WORDS_PER_BLOCK => words = Block(s)
    <3>1. words = [k \in 1 .. Len(words) |-> words[k]]
      BY <2>3, LenProperties
    <3> QED BY <2>3, <3>1 DEF Block
  <2> QED BY <1>1, <1>4, <2>1, <2>3, <2>4, <2>5 DEF Builds
<1> QED BY <1>2, <1>3, <1>4

Turns(eng, eng1, words, start) ==
  eng1 = IF start THEN [round |-> 1, block |-> words, done |-> FALSE]
         ELSE IF eng.round = 0 THEN [eng EXCEPT !.done = FALSE]
         ELSE IF eng.round < AES_ROUNDS THEN [eng EXCEPT !.round = eng.round + 1]
         ELSE [eng EXCEPT !.round = 0, !.done = TRUE]

LEMMA EncryptsOn ==
  ASSUME NEW s \in Nat, NEW f, NEW eng, Encrypts(s, f, eng),
         NEW start \in BOOLEAN, start => eng.round = 0,
         NEW words, start => words = Block(s) /\ words \in Seq(Nat),
         NEW eng1, Turns(eng, eng1, words, start)
  PROVE  Encrypts(IF start THEN s + WORDS_PER_BLOCK ELSE s,
                  IF eng.done THEN f + WORDS_PER_BLOCK ELSE f, eng1)
<1>1. /\ f \in Nat /\ f + WORDS_PER_BLOCK \in Nat
      /\ eng \in Engine /\ eng.round \in Nat /\ eng.done \in BOOLEAN /\ eng.block \in Seq(Nat)
      /\ eng.round # 0 => ~eng.done
      /\ IF eng.round # 0 \/ eng.done THEN s = f + WORDS_PER_BLOCK /\ eng.block = Block(f) ELSE s = f
  BY BlockParams DEF Encrypts, Engine
<1>2. CASE start
  <2>1. eng1 = [round |-> 1, block |-> words, done |-> FALSE] /\ words = Block(s) /\ words \in Seq(Nat)
    BY <1>2 DEF Turns
  <2>2. eng1 \in Engine /\ eng1.round = 1 /\ eng1.block = Block(s) /\ ~eng1.done
    <3>1. 1 \in Nat /\ FALSE \in BOOLEAN
      OBVIOUS
    <3>2. eng1 \in Engine
      BY <2>1, <3>1 DEF Engine
    <3> QED BY <2>1, <3>2
  <2>3. s = IF eng.done THEN f + WORDS_PER_BLOCK ELSE f
    BY <1>1, <1>2
  <2> QED BY <1>1, <1>2, <2>2, <2>3 DEF Encrypts
<1>3. CASE ~start /\ eng.round = 0
  <2>1. eng1 = [eng EXCEPT !.done = FALSE]
    BY <1>3 DEF Turns
  <2>2. eng1 \in Engine /\ eng1.round = 0 /\ ~eng1.done
    BY <1>1, <1>3, <2>1 DEF Engine
  <2> QED BY <1>1, <1>3, <2>2 DEF Encrypts
<1>4. CASE ~start /\ eng.round # 0 /\ eng.round < AES_ROUNDS
  <2> DEFINE next == eng.round + 1
  <2>1. eng1 = [eng EXCEPT !.round = next]
    BY <1>4 DEF Turns
  <2>2. next \in Nat /\ next # 0
    BY <1>1
  <2> HIDE DEF next
  <2>3. eng1 \in Engine /\ eng1.round = next /\ eng1.block = eng.block /\ eng1.done = eng.done
    BY <1>1, <2>1, <2>2 DEF Engine
  <2> QED BY <1>1, <1>4, <2>2, <2>3 DEF Encrypts
<1>5. CASE ~start /\ eng.round # 0 /\ ~(eng.round < AES_ROUNDS)
  <2>1. eng1 = [eng EXCEPT !.round = 0, !.done = TRUE]
    BY <1>5 DEF Turns
  <2>2. eng1 \in Engine
    BY <1>1, <2>1 DEF Engine
  <2>3. eng1.round = 0 /\ eng1.block = eng.block /\ eng1.done
    BY <1>1, <2>1 DEF Engine
  <2> QED BY <1>1, <1>5, <2>2, <2>3 DEF Encrypts
<1> QED BY <1>2, <1>3, <1>4, <1>5

Fills(fifo, fifo1, block, done, out) ==
  LET left == IF out THEN Tail(fifo) ELSE fifo
  IN fifo1 = IF done THEN left \o [k \in 1 .. WORDS_PER_BLOCK |-> <<block, k>>] ELSE left

LEMMA QueuesOn ==
  ASSUME NEW f \in Nat, NEW x, NEW fifo, Queues(f, x, fifo),
         NEW out \in BOOLEAN, out => fifo # <<>>,
         NEW done \in BOOLEAN, NEW block, done => block = Block(f),
         NEW fifo1, Fills(fifo, fifo1, block, done, out)
  PROVE  Queues(IF done THEN f + WORDS_PER_BLOCK ELSE f, IF out THEN x + 1 ELSE x, fifo1)
<1>1. /\ x \in Nat /\ fifo \in Seq(Payload) /\ Len(fifo) \in Nat
      /\ f = x + Len(fifo) /\ Aligned(f)
      /\ \A k \in 1 .. Len(fifo) : fifo[k] = Encrypted[x + k]
  <2>1. fifo \in Seq(Payload) => Len(fifo) \in Nat
    BY LenProperties
  <2> QED BY <2>1 DEF Queues
<1> DEFINE left == IF out THEN Tail(fifo) ELSE fifo
           x1 == IF out THEN x + 1 ELSE x
<1>2. /\ x1 \in Nat /\ left \in Seq(Payload) /\ Len(left) \in Nat
      /\ f = x1 + Len(left)
      /\ \A k \in 1 .. Len(left) : left[k] = Encrypted[x1 + k]
  <2>1. CASE ~out
    BY <1>1, <2>1
  <2>2. CASE out
    <3> DEFINE rest == Tail(fifo)
    <3>1. /\ rest \in Seq(Payload) /\ Len(rest) = Len(fifo) - 1 /\ Len(fifo) > 0
          /\ \A k \in 1 .. Len(rest) : rest[k] = fifo[k + 1]
      BY <1>1, <2>2, HeadTailProperties, EmptySeq
    <3>2. left = rest /\ x1 = x + 1
      BY <2>2
    <3> HIDE DEF rest, left, x1
    <3>3. \A k \in 1 .. Len(rest) : rest[k] = Encrypted[(x + 1) + k]
      <4> TAKE k \in 1 .. Len(rest)
      <4>1. k + 1 \in 1 .. Len(fifo) /\ x + (k + 1) = (x + 1) + k
        BY <1>1, <3>1
      <4> QED BY <1>1, <3>1, <4>1
    <3>4. Len(rest) \in Nat /\ f = (x + 1) + Len(rest) /\ x + 1 \in Nat
      BY <1>1, <3>1
    <3> QED BY <3>1, <3>2, <3>3, <3>4
  <2> QED BY <2>1, <2>2
<1>3. fifo1 = IF done THEN left \o [k \in 1 .. WORDS_PER_BLOCK |-> <<block, k>>] ELSE left
  BY DEF Fills
<1> HIDE DEF left, x1
<1>4. CASE ~done
  BY <1>1, <1>2, <1>3, <1>4 DEF Queues, x1
<1>5. CASE done
  <2> DEFINE new == [k \in 1 .. WORDS_PER_BLOCK |-> <<block, k>>]
  <2>1. /\ new \in Seq(Payload) /\ Len(new) = WORDS_PER_BLOCK
        /\ \A k \in 1 .. WORDS_PER_BLOCK : new[k] = Encrypted[f + k]
    <3>1. \A k \in 1 .. WORDS_PER_BLOCK : <<block, k>> = Encrypted[f + k]
      BY <1>1, <1>5, AlignedWord
    <3>2. \A k \in 1 .. WORDS_PER_BLOCK : f + k \in Nat \ {0}
      BY BlockParams
    <3>3. \A k \in 1 .. WORDS_PER_BLOCK : Encrypted[f + k] \in Payload
      BY <3>2, StreamTypes DEF Stream
    <3>4. new \in [1 .. WORDS_PER_BLOCK -> Payload]
      BY <3>1, <3>3
    <3> QED BY <3>1, <3>4, BlockParams, SeqDef
  <2> HIDE DEF new
  <2>2. /\ left \o new \in Seq(Payload) /\ Len(left \o new) = Len(left) + WORDS_PER_BLOCK
        /\ \A k \in 1 .. Len(left) + WORDS_PER_BLOCK :
             (left \o new)[k] = IF k <= Len(left) THEN left[k] ELSE new[k - Len(left)]
    BY <1>2, <2>1, ConcatProperties
  <2>3. \A k \in 1 .. Len(left) + WORDS_PER_BLOCK : (left \o new)[k] = Encrypted[x1 + k]
    <3> TAKE k \in 1 .. Len(left) + WORDS_PER_BLOCK
    <3>1. CASE k <= Len(left)
      BY <1>2, <2>2, <3>1, BlockParams
    <3>2. CASE ~(k <= Len(left))
      <4>1. k - Len(left) \in 1 .. WORDS_PER_BLOCK /\ f + (k - Len(left)) = x1 + k
        BY <1>2, <3>2, BlockParams
      <4> QED BY <2>1, <2>2, <3>2, <4>1
    <3> QED BY <3>1, <3>2
  <2>4. fifo1 = left \o new
    BY <1>3, <1>5 DEF new
  <2>5. Aligned(f + WORDS_PER_BLOCK)
    BY <1>1, AlignedNext
  <2>6. f + WORDS_PER_BLOCK = x1 + (Len(left) + WORDS_PER_BLOCK)
    BY <1>2, BlockParams
  <2> QED BY <1>2, <1>5, <2>2, <2>3, <2>4, <2>5, <2>6 DEF Queues, x1
<1> QED BY <1>4, <1>5

-----------------------------------------------------------------------------
(* What the two adapters and the service do on an edge.                    *)

NoRetry == [count |-> 0, holdoff |-> 0, resend |-> FALSE]

\* No faults: nothing is sent again, and the links come up on the same edge,
\* until which the lanes are silent.
Calm ==
  /\ faulty = {} /\ faults = 0
  /\ aRetry = NoRetry /\ bRetry = NoRetry
  /\ aLink = bLink
  /\ aLink.state # "ACTIVE" =>
       /\ aTx.left = 0 /\ bTx.left = 0
       /\ \A i \in 1 .. Stages : aToB[i] = Nothing /\ bToA[i] = Nothing
       /\ aRx.beats = <<>> /\ bRx.beats = <<>>

LEMMA TransmitsWithoutRetry ==
  ASSUME NEW tx \in Transmitter, NEW flit, NEW load \in BOOLEAN, load => tx.left = 0 /\ flit # Nothing, NEW tx1,
         \/ /\ load
            /\ tx1 = [tx EXCEPT !.flit = flit, !.left = BEATS_PER_FLIT, !.last = flit, !.pending = FALSE]
         \/ /\ tx.left # 0
            /\ tx1 = [tx EXCEPT !.left = tx.left - 1, !.pending = FALSE,
                                !.flit = IF tx.left = 1 THEN Nothing ELSE tx.flit, !.active = FALSE]
         \/ /\ tx.left = 0 /\ ~load
            /\ tx1 = [tx EXCEPT !.pending = FALSE]
  PROVE  Transmits(flit, tx, tx1, load)
<1>1. tx.pending = FALSE /\ tx.active = FALSE
  BY DEF Transmitter
<1>2. CASE load
  <2>1. tx1 = [tx EXCEPT !.flit = flit, !.left = BEATS_PER_FLIT, !.last = flit, !.pending = FALSE]
    BY <1>2
  <2>2. tx1 = [tx EXCEPT !.flit = flit, !.left = BEATS_PER_FLIT, !.last = flit]
    BY <1>1, <2>1 DEF Transmitter
  <2> QED BY <1>2, <2>2 DEF Transmits
<1>3. CASE ~load /\ tx.left # 0
  <2> DEFINE rest == tx.left - 1
             held == IF tx.left = 1 THEN Nothing ELSE tx.flit
  <2>1. tx1 = [tx EXCEPT !.left = rest, !.pending = FALSE, !.flit = held, !.active = FALSE]
    BY <1>3
  <2> HIDE DEF rest, held
  <2>2. tx1 = [tx EXCEPT !.left = rest, !.flit = held]
    BY <1>1, <2>1 DEF Transmitter
  <2> QED BY <1>3, <2>2 DEF Transmits, rest, held
<1>4. CASE ~load /\ tx.left = 0
  <2>1. tx1 = [tx EXCEPT !.pending = FALSE]
    BY <1>4
  <2>2. tx1 = tx
    BY <1>1, <2>1 DEF Transmitter
  <2> QED BY <1>4, <2>2 DEF Transmits
<1> QED BY <1>2, <1>3, <1>4

\* Die A's edge.
LEMMA AdapterOfA ==
  ASSUME Calm, aTx \in Transmitter, aPk \in Packetizer, aRx \in Receiver, aDp \in Depacketizer,
         NEW word, word # Nothing => word \in Payload,
         AtA # Nothing => aRx.flit = Nothing,
         aLink.state # "ACTIVE" => AtA = Nothing,
         A!AdapterEdge(word, AtA, "A" \in faulty, TRUE)
  PROVE  /\ Packs(aPk, aPk', word, A!LoadNew(AtA))
         /\ Transmits(aPk.flit, aTx, aTx', A!LoadNew(AtA))
         /\ Receives(aRx, aRx', AtA, A!FlitTaken)
         /\ Streams(aRx.flit, aDp, aDp', TRUE, A!FlitTaken)
         /\ aRetry' = NoRetry
         /\ A!LaneBeat = Shows(aTx)
         /\ aLink' = [state |-> A!NextState(AtA, FALSE)[1], timer |-> A!NextState(AtA, FALSE)[2],
                      trained |-> A!Trained(AtA)]
         /\ aLink.state = "ACTIVE" \/ A!LinkReady(AtA) => aLink'.state = "ACTIVE"
         /\ aLink.state # "ACTIVE" => aRx'.beats = <<>>
<1>1. /\ ("A" \in faulty) = FALSE
      /\ aRetry = NoRetry /\ aRetry.resend = FALSE /\ aRetry.holdoff = 0 /\ aRetry.count = 0
      /\ aTx.pending = FALSE /\ aTx.active = FALSE /\ aDp.crcError = FALSE
  <2>1. ~("A" \in faulty) /\ aRetry = NoRetry
    BY DEF Calm
  <2>2. aRetry.resend = FALSE /\ aRetry.holdoff = 0 /\ aRetry.count = 0
    BY <2>1 DEF NoRetry
  <2>3. aTx.pending = FALSE /\ aTx.active = FALSE
    BY DEF Transmitter
  <2>4. aDp.crcError = FALSE
    BY DEF Depacketizer
  <2> QED BY <2>1, <2>2, <2>3, <2>4
<1>2. Packs(aPk, aPk', word, A!LoadNew(AtA))
  <2>1. A!Packetize(word, AtA)
    BY DEF A!AdapterEdge
  <2>2. word # Nothing => Len(Append(aPk.words, word)) = Len(aPk.words) + 1
    BY AppendProperties DEF Packetizer
  <2>3. CASE word # Nothing /\ aPk.flit = Nothing
    <3> DEFINE words == Append(aPk.words, word)
    <3>1. aPk' = IF Len(words) = WORDS_PER_FLIT THEN [words |-> <<>>, flit |-> words]
                  ELSE [aPk EXCEPT !.words = words]
      BY <2>1, <2>3 DEF A!Packetize, A!DataReady
    <3> QED BY <2>2, <2>3, <3>1 DEF Packs
  <2>4. CASE ~(word # Nothing /\ aPk.flit = Nothing)
    BY <2>1, <2>4 DEF A!Packetize, A!DataReady, Packs
  <2> QED BY <2>3, <2>4
<1>3. Transmits(aPk.flit, aTx, aTx', A!LoadNew(AtA))
  <2>1. A!Transmit(AtA) /\ A!LoadNew(AtA) \in BOOLEAN
    BY DEF A!AdapterEdge, A!LoadNew
  <2>2. ~A!LoadResend(AtA) /\ ~A!StillActive /\ (A!Sending <=> aTx.left # 0)
    BY <1>1 DEF A!LoadResend, A!StillActive, A!Sending
  <2>3. A!LoadNew(AtA) => aTx.left = 0 /\ aPk.flit # Nothing
    BY DEF A!LoadNew, A!MaySend, A!Sending
  <2>4. \/ /\ A!LoadNew(AtA)
           /\ aTx' = [aTx EXCEPT !.flit = aPk.flit, !.left = BEATS_PER_FLIT,
                                 !.last = aPk.flit, !.pending = FALSE]
        \/ /\ aTx.left # 0
           /\ aTx' = [aTx EXCEPT !.left = aTx.left - 1, !.pending = FALSE,
                                 !.flit = IF aTx.left = 1 THEN Nothing ELSE aTx.flit, !.active = FALSE]
        \/ /\ aTx.left = 0 /\ ~A!LoadNew(AtA)
           /\ aTx' = [aTx EXCEPT !.pending = FALSE]
    <3>1. (aTx.pending \/ (aRetry.resend /\ aTx.last # Nothing)) = FALSE /\ A!StillActive = FALSE
      BY <1>1 DEF A!StillActive
    <3> QED BY <2>1, <2>2, <3>1 DEF A!Transmit
  <2> QED BY <2>1, <2>3, <2>4, TransmitsWithoutRetry
<1>4. A!FlitTaken \in BOOLEAN /\ (A!FlitTaken <=> aRx.flit # Nothing /\ aDp.words = <<>>)
  BY DEF A!FlitTaken
<1>5. Receives(aRx, aRx', AtA, A!FlitTaken) /\ (aLink.state # "ACTIVE" => aRx'.beats = <<>>)
  <2>1. A!Receive(AtA)
    BY DEF A!AdapterEdge
  <2>2. A!LinkUp <=> aLink.state = "ACTIVE"
    BY DEF A!LinkUp
  <2>3. CASE aLink.state # "ACTIVE"
    <3>1. aRx' = [beats |-> <<>>, flit |-> IF A!FlitTaken THEN Nothing ELSE aRx.flit]
      BY <2>1, <2>2, <2>3 DEF A!Receive
    <3>2. aRx.beats = <<>> /\ AtA = Nothing
      BY <2>3 DEF Calm
    <3>3. aRx' = IF A!FlitTaken THEN [aRx EXCEPT !.flit = Nothing] ELSE aRx
      BY <3>1, <3>2 DEF Receiver
    <3> QED BY <3>1, <3>2, <3>3 DEF Receives
  <2>4. CASE aLink.state = "ACTIVE" /\ AtA # Nothing
    <3> DEFINE beats == Append(aRx.beats, AtA)
    <3>1. aRx' = IF Len(beats) = BEATS_PER_FLIT THEN [beats |-> <<>>, flit |-> A!Assembled(beats)]
                 ELSE [aRx EXCEPT !.beats = beats]
      BY <2>1, <2>2, <2>4 DEF A!Receive
    <3>2. Len(beats) = Len(aRx.beats) + 1
      BY DEF Receiver
    <3>3. A!Assembled(beats) = Assembles(beats)
      BY DEF A!Assembled, Assembles
    <3> QED BY <2>4, <3>1, <3>2, <3>3 DEF Receives
  <2>5. CASE aLink.state = "ACTIVE" /\ AtA = Nothing
    BY <2>1, <2>2, <2>5 DEF A!Receive, Receives
  <2> QED BY <2>3, <2>4, <2>5
<1>6. Streams(aRx.flit, aDp, aDp', TRUE, A!FlitTaken)
  BY DEF A!AdapterEdge, A!Depacketize, Streams
<1>7. aRetry' = NoRetry
  BY <1>1 DEF A!AdapterEdge, A!Retry, NoRetry
<1>8. A!LaneBeat = Shows(aTx)
  BY DEF A!LaneBeat, A!Sending, Shows
<1>9. aLink' = [state |-> A!NextState(AtA, FALSE)[1], timer |-> A!NextState(AtA, FALSE)[2],
                trained |-> A!Trained(AtA)]
  BY <1>1 DEF A!AdapterEdge, A!Link
<1>10. aLink.state = "ACTIVE" \/ A!LinkReady(AtA) => aLink'.state = "ACTIVE"
  BY <1>9 DEF A!NextState, A!Settle, A!LinkReady
<1> QED BY <1>2, <1>3, <1>5, <1>6, <1>7, <1>8, <1>9, <1>10
\* Die B's edge.
LEMMA AdapterOfB ==
  ASSUME Calm, bTx \in Transmitter, bPk \in Packetizer, bRx \in Receiver, bDp \in Depacketizer,
         NEW word, word # Nothing => word \in Payload, NEW ready \in BOOLEAN,
         AtB # Nothing => bRx.flit = Nothing,
         bLink.state # "ACTIVE" => AtB = Nothing,
         B!AdapterEdge(word, AtB, "B" \in faulty, ready)
  PROVE  /\ Packs(bPk, bPk', word, B!LoadNew(AtB))
         /\ Transmits(bPk.flit, bTx, bTx', B!LoadNew(AtB))
         /\ Receives(bRx, bRx', AtB, B!FlitTaken)
         /\ Streams(bRx.flit, bDp, bDp', ready, B!FlitTaken)
         /\ bRetry' = NoRetry
         /\ B!LaneBeat = Shows(bTx)
         /\ bLink' = [state |-> B!NextState(AtB, FALSE)[1], timer |-> B!NextState(AtB, FALSE)[2],
                      trained |-> B!Trained(AtB)]
         /\ bLink.state = "ACTIVE" \/ B!LinkReady(AtB) => bLink'.state = "ACTIVE"
         /\ bLink.state # "ACTIVE" => bRx'.beats = <<>>
<1>1. /\ ("B" \in faulty) = FALSE
      /\ bRetry = NoRetry /\ bRetry.resend = FALSE /\ bRetry.holdoff = 0 /\ bRetry.count = 0
      /\ bTx.pending = FALSE /\ bTx.active = FALSE /\ bDp.crcError = FALSE
  <2>1. ~("B" \in faulty) /\ bRetry = NoRetry
    BY DEF Calm
  <2>2. bRetry.resend = FALSE /\ bRetry.holdoff = 0 /\ bRetry.count = 0
    BY <2>1 DEF NoRetry
  <2>3. bTx.pending = FALSE /\ bTx.active = FALSE
    BY DEF Transmitter
  <2>4. bDp.crcError = FALSE
    BY DEF Depacketizer
  <2> QED BY <2>1, <2>2, <2>3, <2>4
<1>2. Packs(bPk, bPk', word, B!LoadNew(AtB))
  <2>1. B!Packetize(word, AtB)
    BY DEF B!AdapterEdge
  <2>2. word # Nothing => Len(Append(bPk.words, word)) = Len(bPk.words) + 1
    BY AppendProperties DEF Packetizer
  <2>3. CASE word # Nothing /\ bPk.flit = Nothing
    <3> DEFINE words == Append(bPk.words, word)
    <3>1. bPk' = IF Len(words) = WORDS_PER_FLIT THEN [words |-> <<>>, flit |-> words]
                  ELSE [bPk EXCEPT !.words = words]
      BY <2>1, <2>3 DEF B!Packetize, B!DataReady
    <3> QED BY <2>2, <2>3, <3>1 DEF Packs
  <2>4. CASE ~(word # Nothing /\ bPk.flit = Nothing)
    BY <2>1, <2>4 DEF B!Packetize, B!DataReady, Packs
  <2> QED BY <2>3, <2>4
<1>3. Transmits(bPk.flit, bTx, bTx', B!LoadNew(AtB))
  <2>1. B!Transmit(AtB) /\ B!LoadNew(AtB) \in BOOLEAN
    BY DEF B!AdapterEdge, B!LoadNew
  <2>2. ~B!LoadResend(AtB) /\ ~B!StillActive /\ (B!Sending <=> bTx.left # 0)
    BY <1>1 DEF B!LoadResend, B!StillActive, B!Sending
  <2>3. B!LoadNew(AtB) => bTx.left = 0 /\ bPk.flit # Nothing
    BY DEF B!LoadNew, B!MaySend, B!Sending
  <2>4. \/ /\ B!LoadNew(AtB)
           /\ bTx' = [bTx EXCEPT !.flit = bPk.flit, !.left = BEATS_PER_FLIT,
                                 !.last = bPk.flit, !.pending = FALSE]
        \/ /\ bTx.left # 0
           /\ bTx' = [bTx EXCEPT !.left = bTx.left - 1, !.pending = FALSE,
                                 !.flit = IF bTx.left = 1 THEN Nothing ELSE bTx.flit, !.active = FALSE]
        \/ /\ bTx.left = 0 /\ ~B!LoadNew(AtB)
           /\ bTx' = [bTx EXCEPT !.pending = FALSE]
    <3>1. (bTx.pending \/ (bRetry.resend /\ bTx.last # Nothing)) = FALSE /\ B!StillActive = FALSE
      BY <1>1 DEF B!StillActive
    <3> QED BY <2>1, <2>2, <3>1 DEF B!Transmit
  <2> QED BY <2>1, <2>3, <2>4, TransmitsWithoutRetry
<1>4. B!FlitTaken \in BOOLEAN /\ (B!FlitTaken <=> bRx.flit # Nothing /\ bDp.words = <<>>)
  BY DEF B!FlitTaken
<1>5. Receives(bRx, bRx', AtB, B!FlitTaken) /\ (bLink.state # "ACTIVE" => bRx'.beats = <<>>)
  <2>1. B!Receive(AtB)
    BY DEF B!AdapterEdge
  <2>2. B!LinkUp <=> bLink.state = "ACTIVE"
    BY DEF B!LinkUp
  <2>3. CASE bLink.state # "ACTIVE"
    <3>1. bRx' = [beats |-> <<>>, flit |-> IF B!FlitTaken THEN Nothing ELSE bRx.flit]
      BY <2>1, <2>2, <2>3 DEF B!Receive
    <3>2. bRx.beats = <<>> /\ AtB = Nothing
      BY <2>3 DEF Calm
    <3>3. bRx' = IF B!FlitTaken THEN [bRx EXCEPT !.flit = Nothing] ELSE bRx
      BY <3>1, <3>2 DEF Receiver
    <3> QED BY <3>1, <3>2, <3>3 DEF Receives
  <2>4. CASE bLink.state = "ACTIVE" /\ AtB # Nothing
    <3> DEFINE beats == Append(bRx.beats, AtB)
    <3>1. bRx' = IF Len(beats) = BEATS_PER_FLIT THEN [beats |-> <<>>, flit |-> B!Assembled(beats)]
                 ELSE [bRx EXCEPT !.beats = beats]
      BY <2>1, <2>2, <2>4 DEF B!Receive
    <3>2. Len(beats) = Len(bRx.beats) + 1
      BY DEF Receiver
    <3>3. B!Assembled(beats) = Assembles(beats)
      BY DEF B!Assembled, Assembles
    <3> QED BY <2>4, <3>1, <3>2, <3>3 DEF Receives
  <2>5. CASE bLink.state = "ACTIVE" /\ AtB = Nothing
    BY <2>1, <2>2, <2>5 DEF B!Receive, Receives
  <2> QED BY <2>3, <2>4, <2>5
<1>6. Streams(bRx.flit, bDp, bDp', ready, B!FlitTaken)
  BY DEF B!AdapterEdge, B!Depacketize, Streams
<1>7. bRetry' = NoRetry
  BY <1>1 DEF B!AdapterEdge, B!Retry, NoRetry
<1>8. B!LaneBeat = Shows(bTx)
  BY DEF B!LaneBeat, B!Sending, Shows
<1>9. bLink' = [state |-> B!NextState(AtB, FALSE)[1], timer |-> B!NextState(AtB, FALSE)[2],
                trained |-> B!Trained(AtB)]
  BY <1>1 DEF B!AdapterEdge, B!Link
<1>10. bLink.state = "ACTIVE" \/ B!LinkReady(AtB) => bLink'.state = "ACTIVE"
  BY <1>9 DEF B!NextState, B!Settle, B!LinkReady
<1> QED BY <1>2, <1>3, <1>5, <1>6, <1>7, <1>8, <1>9, <1>10

BlockFits == aes.done => Len(cipher) + WORDS_PER_BLOCK <= CIPHER_FIFO_DEPTH

\* Die B's service encrypts the words in their order.
LEMMA ServiceOn ==
  ASSUME NEW u \in Nat, NEW x, NEW s, NEW f, Builds(u, s, blk), Encrypts(s, f, aes), Queues(f, x, cipher),
         BlockFits, NEW ready \in BOOLEAN,
         NEW word, word # Nothing => word = u + 1,
         Crypto!CryptoEdge(word, ready)
  PROVE  \E s1, f1 : /\ Builds(IF word # Nothing /\ Crypto!PlaintextReady THEN u + 1 ELSE u, s1, blk')
                     /\ Encrypts(s1, f1, aes')
                     /\ Queues(f1, IF ready /\ cipher # <<>> THEN x + 1 ELSE x, cipher')
<1> DEFINE take == word # Nothing /\ Crypto!PlaintextReady
           start == Crypto!AesStart
           out == ready /\ cipher # <<>>
           s1 == IF start THEN s + WORDS_PER_BLOCK ELSE s
           f1 == IF aes.done THEN f + WORDS_PER_BLOCK ELSE f
<1>1. /\ take \in BOOLEAN /\ start \in BOOLEAN /\ out \in BOOLEAN
      /\ start => blk.pending /\ aes.round = 0
      /\ take => ~blk.pending /\ word = u + 1
      /\ out => cipher # <<>>
  BY DEF Crypto!AesStart, Crypto!AesReady, Crypto!PlaintextReady
<1>2. /\ s \in Nat /\ f \in Nat /\ aes.done \in BOOLEAN
      /\ blk.pending => blk.words = Block(s)
      /\ blk.words \in Seq(Nat)
      /\ aes.done => aes.block = Block(f)
  BY DEF Builds, Builder, Encrypts, Engine
<1>3. Builds(IF take THEN u + 1 ELSE u, s1, blk')
  <2>1. Crypto!Gather(word)
    BY DEF Crypto!CryptoEdge
  <2>2. take => LET words == IF Len(blk.words) = WORDS_PER_BLOCK THEN <<word>> ELSE Append(blk.words, word)
                IN  blk' = [words |-> words, pending |-> Len(words) = WORDS_PER_BLOCK]
    BY <2>1 DEF Crypto!Gather
  <2>3. ~take => blk' = [blk EXCEPT !.pending = blk.pending /\ ~start]
    BY <2>1 DEF Crypto!Gather
  <2> HIDE DEF take, start
  <2> QED BY <1>1, <2>2, <2>3, BuildsOn
<1>4. Encrypts(s1, f1, aes')
  <2>1. Turns(aes, aes', blk.words, start)
    BY DEF Crypto!CryptoEdge, Crypto!Encrypt, Crypto!AesReady, Turns
  <2> HIDE DEF start
  <2> QED BY <1>1, <1>2, <2>1, EncryptsOn
<1>5. Queues(f1, IF out THEN x + 1 ELSE x, cipher')
  <2>1. Fills(cipher, cipher', aes.block, aes.done, out)
    <3>1. Crypto!Queue(ready)
      BY DEF Crypto!CryptoEdge
    <3>2. CASE aes.done
      <4>1. aes.done /\ Len(cipher) + WORDS_PER_BLOCK <= CIPHER_FIFO_DEPTH
        BY <3>2 DEF BlockFits
      <4> DEFINE left == IF out THEN Tail(cipher) ELSE cipher
      <4>2. cipher' = left \o Crypto!Ciphertext(aes.block)
        BY <3>1, <3>2, <4>1 DEF Crypto!Queue
      <4> HIDE DEF left
      <4>3. cipher' = left \o [k \in 1 .. WORDS_PER_BLOCK |-> <<aes.block, k>>]
        BY <4>2 DEF Crypto!Ciphertext
      <4> QED BY <3>2, <4>3 DEF left, Fills
    <3>3. CASE ~aes.done
      BY <3>1, <3>3 DEF Crypto!Queue, Fills
    <3> QED BY <3>2, <3>3
  <2> HIDE DEF out
  <2> QED BY <1>1, <1>2, <2>1, QueuesOn
<1> HIDE DEF s1, f1
<1> QED BY <1>3, <1>4, <1>5

-----------------------------------------------------------------------------
(* The invariant.                                                          *)

\* Where the words are: u have reached the service, x have left it, s are in
\* blocks that its engine has taken and f of these in its queue or past it.
Along(u, x, s, f, c, d) ==
  /\ u \in Nat /\ x \in Nat
  /\ Path(Plain, sent, u, aPk, aTx, aToB, bRx, bDp, c)
  /\ Builds(u, s, blk) /\ Encrypts(s, f, aes) /\ Queues(f, x, cipher)
  /\ Path(Encrypted, x, back, bPk, bTx, bToA, aRx, aDp, d)

Inv ==
  /\ length \in Lengths /\ sent \in Nat /\ sent <= length
  /\ Calm
  /\ KeepsUp(bToA, aRx, aDp)
  /\ \E u, x, s, f, c, d : Along(u, x, s, f, c, d)

\* Die B's receiver is free when a beat arrives, and its queue has room when a
\* block is done.
KeepsRoom ==
  /\ AtB # Nothing => bRx.flit = Nothing
  /\ BlockFits

LEMMA PathTypes ==
  ASSUME NEW stream, NEW n, NEW given, NEW pk, NEW tx, NEW lane, NEW rx, NEW dp, NEW c,
         Path(stream, n, given, pk, tx, lane, rx, dp, c)
  PROVE  /\ pk \in Packetizer /\ tx \in Transmitter /\ rx \in Receiver /\ dp \in Depacketizer
         /\ lane \in Seq(Beat \cup {Nothing}) /\ Len(lane) = Stages /\ lane # <<>> /\ Head(lane) = lane[1]
<1>1. lane \in Seq(Beat \cup {Nothing}) /\ Len(lane) = Stages /\ lane # <<>> /\ Head(lane) = lane[1]
  <2>1. Len(<<>>) = 0
    OBVIOUS
  <2>2. lane \in Seq(Beat \cup {Nothing}) /\ Len(lane) = Stages
    BY DEF Path, Carries
  <2>3. lane # <<>>
    BY <2>1, <2>2, Params
  <2> QED BY <2>2, <2>3, HeadTailProperties
<1> QED BY <1>1 DEF Path, Gathers, Feeds, Gets, Gives

\* The words that come to a service, or to the source, are the next.
LEMMA WordsOut ==
  ASSUME NEW u \in Nat, NEW x \in Nat, NEW s, NEW f, NEW c, NEW d, Along(u, x, s, f, c, d), sent \in Nat
  PROVE  /\ B!WordOut # Nothing <=> bDp.words # <<>>
         /\ B!WordOut # Nothing => B!WordOut = u + 1
         /\ A!WordOut # Nothing <=> aDp.words # <<>>
         /\ A!WordOut # Nothing => A!WordOut = Encrypted[back + 1] /\ back + 1 <= x
         /\ Crypto!CipherOut # Nothing <=> cipher # <<>>
         /\ Crypto!CipherOut # Nothing => Crypto!CipherOut \in Payload /\ Crypto!CipherOut = Encrypted[x + 1]
         /\ u <= sent /\ x <= f /\ f <= s /\ s <= u
         /\ aes.done => s = f + WORDS_PER_BLOCK
         /\ f = x + Len(cipher) /\ Len(cipher) \in Nat /\ f \in Nat /\ s \in Nat /\ back \in Nat
<1>1. /\ Path(Plain, sent, u, aPk, aTx, aToB, bRx, bDp, c)
      /\ Builds(u, s, blk) /\ Encrypts(s, f, aes) /\ Queues(f, x, cipher)
      /\ Path(Encrypted, x, back, bPk, bTx, bToA, aRx, aDp, d)
  BY DEF Along
<1>2. Plain \in Stream /\ Encrypted \in Stream
  BY StreamTypes
<1>3. /\ Len(bDp.words) \in Nat /\ u + Len(bDp.words) <= sent
      /\ bDp.words # <<>> => Head(bDp.words) \in Payload /\ Head(bDp.words) = Plain[u + 1]
  <2>1. Bounded(Plain, sent, u, aTx, aToB, bRx, bDp, c)
    BY <1>1, <1>2, PathBounds
  <2> QED BY <2>1 DEF Bounded
<1>4. /\ Len(aDp.words) \in Nat /\ back \in Nat /\ back + Len(aDp.words) <= x
      /\ aDp.words # <<>> => /\ Head(aDp.words) \in Payload /\ Head(aDp.words) = Encrypted[back + 1]
                             /\ back + 1 <= x
  <2>1. Bounded(Encrypted, x, back, bTx, bToA, aRx, aDp, d)
    BY <1>1, <1>2, PathBounds
  <2> QED BY <2>1 DEF Bounded
<1>5. B!WordOut # Nothing <=> bDp.words # <<>>
  BY <1>3, NoFlit DEF B!WordOut
<1>6. B!WordOut # Nothing => B!WordOut = u + 1
  <2>1. u + 1 \in Nat \ {0}
    OBVIOUS
  <2>2. Plain[u + 1] = u + 1
    BY <2>1 DEF Plain
  <2> QED BY <1>3, <2>2 DEF B!WordOut
<1>7. /\ A!WordOut # Nothing <=> aDp.words # <<>>
      /\ A!WordOut # Nothing => A!WordOut = Encrypted[back + 1] /\ back + 1 <= x
  BY <1>4, NoFlit DEF A!WordOut
<1>8. /\ cipher \in Seq(Payload) /\ Len(cipher) \in Nat /\ f = x + Len(cipher)
      /\ \A k \in 1 .. Len(cipher) : cipher[k] = Encrypted[x + k]
  <2>1. cipher \in Seq(Payload) => Len(cipher) \in Nat
    BY LenProperties
  <2> QED BY <1>1, <2>1 DEF Queues
<1>9. cipher # <<>> => Head(cipher) \in Payload /\ Head(cipher) = Encrypted[x + 1]
  <2> SUFFICES ASSUME cipher # <<>> PROVE Head(cipher) \in Payload /\ Head(cipher) = Encrypted[x + 1]
    OBVIOUS
  <2>1. Head(cipher) \in Payload /\ Head(cipher) = cipher[1] /\ Len(cipher) \in Nat \ {0}
    BY <1>8, HeadTailProperties, EmptySeq
  <2>2. 1 \in 1 .. Len(cipher)
    BY <2>1
  <2> QED BY <1>8, <2>1, <2>2
<1>10. /\ Crypto!CipherOut # Nothing <=> cipher # <<>>
       /\ Crypto!CipherOut # Nothing => Crypto!CipherOut \in Payload /\ Crypto!CipherOut = Encrypted[x + 1]
  BY <1>9, NoFlit DEF Crypto!CipherOut
<1>11. /\ f \in Nat /\ s \in Nat /\ f <= s
       /\ aes.done => s = f + WORDS_PER_BLOCK
  BY <1>1, BlockParams DEF Encrypts, Builds
<1>12. s <= u
  <2>1. blk.words \in Seq(Nat) /\ blk.pending \in BOOLEAN
    BY <1>1 DEF Builds, Builder
  <2>2. Len(blk.words) \in Nat
    BY <2>1, LenProperties
  <2>3. blk.pending => u = s + WORDS_PER_BLOCK
    BY <1>1 DEF Builds
  <2>4. ~blk.pending => u = s \/ u = s + Len(blk.words)
    BY <1>1 DEF Builds
  <2> QED BY <1>11, <2>1, <2>2, <2>3, <2>4, BlockParams
<1> QED BY <1>3, <1>4, <1>5, <1>6, <1>7, <1>8, <1>10, <1>11, <1>12

LEMMA NoFaultRaised ==
  ASSUME MaxFaults = 0, faults = 0, NEW raised \in SUBSET {"A", "B"}, faults + Cardinality(raised) <= MaxFaults
  PROVE  raised = {} /\ faults + Cardinality(raised) = 0
<1>1. IsFiniteSet({"A", "B"})
  <2>1. IsFiniteSet({} \cup {"A"})
    BY FS_EmptySet, FS_AddElement
  <2>2. IsFiniteSet(({} \cup {"A"}) \cup {"B"})
    BY <2>1, FS_AddElement
  <2>3. ({} \cup {"A"}) \cup {"B"} = {"A", "B"}
    OBVIOUS
  <2> QED BY <2>2, <2>3
<1>2. IsFiniteSet(raised)
  BY <1>1, FS_Subset
<1>3. Cardinality(raised) \in Nat
  BY <1>2, FS_CardinalityType
<1>4. Cardinality(raised) = 0
  BY <1>3
<1> QED BY <1>2, <1>4, FS_EmptySet

\* The channel raises no fault.
NoFaults == MaxFaults = 0

\* A flit takes no less time on the lanes than its words take to be read.
ReadsInTime == WORDS_PER_FLIT <= BEATS_PER_FLIT

LEMMA SilentLanes ==
  ASSUME Calm, NEW u, NEW x, NEW s, NEW f, NEW c, NEW d, Along(u, x, s, f, c, d), aLink.state # "ACTIVE"
  PROVE  AtA = Nothing /\ AtB = Nothing
<1>1. Head(aToB) = aToB[1] /\ Head(bToA) = bToA[1]
  BY PathTypes DEF Along
<1>2. 1 \in 1 .. Stages
  BY Params
<1> QED BY <1>1, <1>2 DEF Calm, AtA, AtB

LEMMA ShiftedSilent ==
  ASSUME NEW lane \in Seq(Beat \cup {Nothing}), Len(lane) = Stages, \A i \in 1 .. Stages : lane[i] = Nothing,
         NEW tx, tx.left = 0
  PROVE  \A i \in 1 .. Stages : Shifted(lane, tx)[i] = Nothing
<1> DEFINE rest == Tail(lane)
<1>1. lane # <<>>
  <2>1. Len(<<>>) = 0
    OBVIOUS
  <2> QED BY <2>1, Params
<1>2. /\ rest \in Seq(Beat \cup {Nothing}) /\ Len(rest) = Stages - 1
      /\ \A i \in 1 .. Len(rest) : rest[i] = lane[i + 1]
  BY <1>1, HeadTailProperties
<1> HIDE DEF rest
<1>3. \A i \in 1 .. Stages - 1 : rest[i] = Nothing
  <2> TAKE i \in 1 .. Stages - 1
  <2>1. i \in 1 .. Len(rest) /\ i + 1 \in 1 .. Stages
    BY <1>2, Params
  <2> QED BY <1>2, <2>1
<1>4. Shows(tx) = Nothing
  BY DEF Shows
<1>5. /\ \A i \in 1 .. Stages - 1 : Append(rest, Nothing)[i] = rest[i]
      /\ Append(rest, Nothing)[Stages - 1 + 1] = Nothing
  BY <1>2, AppendProperties
<1>6. \A i \in 1 .. Stages : i \in 1 .. Stages - 1 \/ i = Stages - 1 + 1
  BY Params
<1> QED BY <1>3, <1>4, <1>5, <1>6 DEF Shifted, rest

\* An edge keeps the invariant, and moves the places on the lanes to die B on.
LEMMA EdgeMoves ==
  ASSUME NoFaults, ReadsInTime, Inv, KeepsRoom,
         NEW u, NEW x, NEW s, NEW f, NEW c, NEW d, Along(u, x, s, f, c, d),
         NEW offer \in Offers, NEW raised \in SUBSET {"A", "B"}, Edge(offer, raised)
  PROVE  /\ Inv'
         /\ \E cc : cc = Moved(aTx, c) /\ (\E uu, xx, ss, ff, dd : Along(uu, xx, ss, ff, cc, dd))'
<1> DEFINE word == IF offer /\ sent < length THEN sent + 1 ELSE Nothing
<1>0. /\ length \in Lengths /\ sent \in Nat /\ length \in Nat /\ sent <= length
      /\ Calm /\ KeepsUp(bToA, aRx, aDp)
      /\ offer \in BOOLEAN
  BY LoopbackAssumption DEF Inv
<1>1. Along(u, x, s, f, c, d)
  OBVIOUS
<1>2. /\ u \in Nat /\ x \in Nat
      /\ Path(Plain, sent, u, aPk, aTx, aToB, bRx, bDp, c)
      /\ Builds(u, s, blk) /\ Encrypts(s, f, aes) /\ Queues(f, x, cipher)
      /\ Path(Encrypted, x, back, bPk, bTx, bToA, aRx, aDp, d)
  BY <1>1 DEF Along
<1>3. /\ aPk \in Packetizer /\ aTx \in Transmitter /\ aRx \in Receiver /\ aDp \in Depacketizer
      /\ bPk \in Packetizer /\ bTx \in Transmitter /\ bRx \in Receiver /\ bDp \in Depacketizer
      /\ aToB \in Seq(Beat \cup {Nothing}) /\ Len(aToB) = Stages
      /\ bToA \in Seq(Beat \cup {Nothing}) /\ Len(bToA) = Stages
  BY <1>2, PathTypes
<1>4. /\ B!WordOut # Nothing <=> bDp.words # <<>>
      /\ B!WordOut # Nothing => B!WordOut = u + 1
      /\ A!WordOut # Nothing <=> aDp.words # <<>>
      /\ Crypto!CipherOut # Nothing <=> cipher # <<>>
      /\ Crypto!CipherOut # Nothing => Crypto!CipherOut \in Payload /\ Crypto!CipherOut = Encrypted[x + 1]
  BY <1>0, <1>1, <1>2, WordsOut
<1>5. /\ raised \subseteq AtRisk /\ faults + Cardinality(raised) <= MaxFaults
      /\ A!AdapterEdge(word, AtA, "A" \in faulty, TRUE)
      /\ B!AdapterEdge(Crypto!CipherOut, AtB, "B" \in faulty, Crypto!PlaintextReady)
      /\ Crypto!CryptoEdge(B!WordOut, B!DataReady)
      /\ aToB' = Shift(aToB, A!LaneBeat) /\ bToA' = Shift(bToA, B!LaneBeat)
      /\ faulty' = raised /\ faults' = faults + Cardinality(raised)
      /\ sent' = IF word # Nothing /\ A!DataReady THEN sent + 1 ELSE sent
      /\ back' = IF A!WordOut # Nothing THEN back + 1 ELSE back
      /\ length' = length
  BY DEF Edge
<1>6. word # Nothing => word \in Payload /\ word = Plain[sent + 1] /\ sent + 1 <= length
  <2>1. sent + 1 \in Nat \ {0}
    BY <1>0
  <2> QED BY <1>0, <2>1 DEF Payload, Plain
<1> HIDE DEF word
<1>7. faulty' = {} /\ faults' = 0
  BY <1>0, <1>5, NoFaultRaised DEF NoFaults, Calm
<1>8. /\ AtA # Nothing => aRx.flit = Nothing
      /\ AtB # Nothing => bRx.flit = Nothing
      /\ aLink.state # "ACTIVE" => AtA = Nothing /\ AtB = Nothing
      /\ aLink = bLink
  BY <1>0, <1>1, SilentLanes DEF KeepsUp, KeepsRoom, AtA, Calm
<1>9. /\ Packs(aPk, aPk', word, A!LoadNew(AtA))
      /\ Transmits(aPk.flit, aTx, aTx', A!LoadNew(AtA))
      /\ Receives(aRx, aRx', AtA, A!FlitTaken)
      /\ Streams(aRx.flit, aDp, aDp', TRUE, A!FlitTaken)
      /\ aRetry' = NoRetry
      /\ A!LaneBeat = Shows(aTx)
      /\ aLink' = [state |-> A!NextState(AtA, FALSE)[1], timer |-> A!NextState(AtA, FALSE)[2],
                   trained |-> A!Trained(AtA)]
      /\ aLink.state = "ACTIVE" \/ A!LinkReady(AtA) => aLink'.state = "ACTIVE"
      /\ aLink.state # "ACTIVE" => aRx'.beats = <<>>
  BY <1>0, <1>3, <1>5, <1>6, <1>8, AdapterOfA
<1>10. /\ Packs(bPk, bPk', Crypto!CipherOut, B!LoadNew(AtB))
       /\ Transmits(bPk.flit, bTx, bTx', B!LoadNew(AtB))
       /\ Receives(bRx, bRx', AtB, B!FlitTaken)
       /\ Streams(bRx.flit, bDp, bDp', Crypto!PlaintextReady, B!FlitTaken)
       /\ bRetry' = NoRetry
       /\ B!LaneBeat = Shows(bTx)
       /\ bLink' = [state |-> B!NextState(AtB, FALSE)[1], timer |-> B!NextState(AtB, FALSE)[2],
                    trained |-> B!Trained(AtB)]
       /\ bLink.state = "ACTIVE" \/ B!LinkReady(AtB) => bLink'.state = "ACTIVE"
       /\ bLink.state # "ACTIVE" => bRx'.beats = <<>>
  <2>1. Crypto!PlaintextReady \in BOOLEAN
    BY DEF Crypto!PlaintextReady
  <2> QED BY <1>0, <1>3, <1>4, <1>5, <1>8, <2>1, AdapterOfB
<1>11. /\ A!LoadNew(AtA) \in BOOLEAN /\ B!LoadNew(AtB) \in BOOLEAN /\ Crypto!PlaintextReady \in BOOLEAN
       /\ A!FlitTaken \in BOOLEAN /\ (A!FlitTaken <=> aRx.flit # Nothing /\ aDp.words = <<>>)
       /\ B!FlitTaken \in BOOLEAN /\ (B!FlitTaken <=> bRx.flit # Nothing /\ bDp.words = <<>>)
       /\ A!DataReady <=> aPk.flit = Nothing
       /\ B!DataReady \in BOOLEAN
       /\ B!DataReady <=> bPk.flit = Nothing
  BY DEF A!LoadNew, B!LoadNew, Crypto!PlaintextReady, A!FlitTaken, B!FlitTaken, A!DataReady, B!DataReady
<1>12. aToB' = Shifted(aToB, aTx) /\ bToA' = Shifted(bToA, bTx)
  BY <1>5, <1>9, <1>10 DEF Shift, Shifted
<1>13. Plain \in Stream /\ Encrypted \in Stream
  BY StreamTypes
<1> DEFINE u1 == IF bDp.words # <<>> /\ Crypto!PlaintextReady THEN u + 1 ELSE u
           x1 == IF Crypto!CipherOut # Nothing /\ bPk.flit = Nothing THEN x + 1 ELSE x
<1> DEFINE ready == Crypto!PlaintextReady
           next == Crypto!CipherOut
<1>a. Advances(Plain, sent, aPk, aTx, aToB, bRx, bDp, word, A!LoadNew(AtA), ready, B!FlitTaken,
               aPk', aTx', bRx', bDp')
  BY <1>6, <1>8, <1>9, <1>10, <1>11 DEF Advances, AtB
<1>b. Advances(Encrypted, x, bPk, bTx, bToA, aRx, aDp, next, B!LoadNew(AtB), TRUE, A!FlitTaken,
               bPk', bTx', aRx', aDp')
  BY <1>4, <1>8, <1>9, <1>10, <1>11 DEF Advances, AtA
<1>14. Path(Plain, sent', u1, aPk', aTx', aToB', bRx', bDp', Moved(aTx, c))
  <2>1. sent' = Accepted(sent, word, aPk) /\ u1 = Passed(u, bDp, ready)
    BY <1>5, <1>11 DEF Accepted, Passed
  <2> HIDE DEF ready, next, u1
  <2>2. Path(Plain, Accepted(sent, word, aPk), Passed(u, bDp, ready),
             aPk', aTx', Shifted(aToB, aTx), bRx', bDp', Moved(aTx, c))
    BY <1>0, <1>2, <1>13, <1>a, PathOn
  <2> QED BY <1>12, <2>1, <2>2
<1>15. Path(Encrypted, x1, back', bPk', bTx', bToA', aRx', aDp', Moved(bTx, d))
  <2>1. x1 = Accepted(x, next, bPk) /\ back' = Passed(back, aDp, TRUE)
    BY <1>4, <1>5 DEF Accepted, Passed
  <2> HIDE DEF ready, next, x1
  <2>2. Path(Encrypted, Accepted(x, next, bPk), Passed(back, aDp, TRUE),
             bPk', bTx', Shifted(bToA, bTx), aRx', aDp', Moved(bTx, d))
    BY <1>2, <1>13, <1>b, PathOn
  <2> QED BY <1>12, <2>1, <2>2
<1>16. PICK s1, f1 : Builds(u1, s1, blk') /\ Encrypts(s1, f1, aes') /\ Queues(f1, x1, cipher')
  <2>1. \E s1, f1 : /\ Builds(IF B!WordOut # Nothing /\ Crypto!PlaintextReady THEN u + 1 ELSE u, s1, blk')
                    /\ Encrypts(s1, f1, aes')
                    /\ Queues(f1, IF B!DataReady /\ cipher # <<>> THEN x + 1 ELSE x, cipher')
    BY <1>2, <1>4, <1>5, <1>11, ServiceOn DEF KeepsRoom
  <2>2. /\ u1 = IF B!WordOut # Nothing /\ Crypto!PlaintextReady THEN u + 1 ELSE u
        /\ x1 = IF B!DataReady /\ cipher # <<>> THEN x + 1 ELSE x
    BY <1>4, <1>11
  <2> HIDE DEF u1, x1
  <2> QED BY <2>1, <2>2
<1>17. u1 \in Nat /\ x1 \in Nat
  BY <1>2
<1> HIDE DEF u1, x1
<1>18. \E cc : cc = Moved(aTx, c) /\ (\E uu, xx, ss, ff, dd : Along(uu, xx, ss, ff, cc, dd))'
  <2>1. PICK uu, xx, cc, dd : uu = u1 /\ xx = x1 /\ cc = Moved(aTx, c) /\ dd = Moved(bTx, d)
    OBVIOUS
  <2>2. /\ uu \in Nat /\ xx \in Nat
        /\ Path(Plain, sent', uu, aPk', aTx', aToB', bRx', bDp', cc)
        /\ Builds(uu, s1, blk') /\ Encrypts(s1, f1, aes') /\ Queues(f1, xx, cipher')
        /\ Path(Encrypted, xx, back', bPk', bTx', bToA', aRx', aDp', dd)
    BY <1>14, <1>15, <1>16, <1>17, <2>1
  <2>3. Along(uu, xx, s1, f1, cc, dd)'
    BY <2>2 DEF Along
  <2>4. (\E uu0, xx0, ss0, ff0, dd0 : Along(uu0, xx0, ss0, ff0, cc, dd0))'
    BY <2>3
  <2> QED BY <2>1, <2>4
<1>19. KeepsUp(bToA', aRx', aDp')
  <2> HIDE DEF next
  <2>1. KeepsUp(Shifted(bToA, bTx), aRx', aDp')
    BY <1>0, <1>2, <1>13, <1>b, KeepsUpOn DEF ReadsInTime
  <2> QED BY <1>12, <2>1
<1>20. Calm'
  <2>1. aLink' = bLink'
    <3>1. CASE aLink.state = "ACTIVE"
      <4>1. A!NextState(AtA, FALSE) = <<"ACTIVE", aLink.timer>> /\ A!Trained(AtA) = 0
        BY <3>1 DEF A!NextState, A!Trained, A!LinkUp
      <4>2. B!NextState(AtB, FALSE) = <<"ACTIVE", bLink.timer>> /\ B!Trained(AtB) = 0
        BY <1>8, <3>1 DEF B!NextState, B!Trained, B!LinkUp
      <4> QED BY <1>8, <1>9, <1>10, <4>1, <4>2
    <3>2. CASE aLink.state # "ACTIVE"
      <4>1. A!NextState(Nothing, FALSE) = B!NextState(Nothing, FALSE) /\ A!Trained(Nothing) = B!Trained(Nothing)
        BY <1>8 DEF A!NextState, A!Trained, A!LinkUp, A!Settle, A!TrainingDone,
                    B!NextState, B!Trained, B!LinkUp, B!Settle, B!TrainingDone
      <4> QED BY <1>8, <1>9, <1>10, <3>2, <4>1
    <3> QED BY <3>1, <3>2
  <2>2. ASSUME aLink'.state # "ACTIVE"
        PROVE  /\ aTx'.left = 0 /\ bTx'.left = 0
               /\ \A i \in 1 .. Stages : aToB'[i] = Nothing /\ bToA'[i] = Nothing
               /\ aRx'.beats = <<>> /\ bRx'.beats = <<>>
    <3>1. aLink.state # "ACTIVE" /\ bLink.state # "ACTIVE" /\ ~A!LinkReady(AtA) /\ ~B!LinkReady(AtB)
      BY <1>8, <1>9, <1>10, <2>1, <2>2
    <3>2. /\ aTx.left = 0 /\ bTx.left = 0
          /\ \A i \in 1 .. Stages : aToB[i] = Nothing /\ bToA[i] = Nothing
      BY <1>0, <3>1 DEF Calm
    <3>3. ~A!LoadNew(AtA) /\ ~B!LoadNew(AtB)
      BY <3>1 DEF A!LoadNew, B!LoadNew, A!MaySend, B!MaySend
    <3>4. aTx' = aTx /\ bTx' = bTx
      BY <1>9, <1>10, <3>2, <3>3 DEF Transmits
    <3>5. \A i \in 1 .. Stages : aToB'[i] = Nothing
      BY <1>3, <1>12, <3>2, ShiftedSilent
    <3>6. \A i \in 1 .. Stages : bToA'[i] = Nothing
      BY <1>3, <1>12, <3>2, ShiftedSilent
    <3> QED BY <1>9, <1>10, <3>1, <3>2, <3>4, <3>5, <3>6
  <2> QED BY <1>7, <1>9, <1>10, <2>1, <2>2 DEF Calm
<1>21. length' \in Lengths /\ sent' \in Nat /\ sent' <= length'
  BY <1>0, <1>5, <1>6
<1>22. (\E uu, xx, ss, ff, cc, dd : Along(uu, xx, ss, ff, cc, dd))'
  <2>1. PICK cc : (\E uu, xx, ss, ff, dd : Along(uu, xx, ss, ff, cc, dd))'
    BY <1>18
  <2> QED BY <2>1
<1> QED BY <1>18, <1>19, <1>20, <1>21, <1>22 DEF Inv

LEMMA EdgeKeeps ==
  ASSUME NoFaults, ReadsInTime, Inv, KeepsRoom,
         NEW offer \in Offers, NEW raised \in SUBSET {"A", "B"}, Edge(offer, raised)
  PROVE  Inv'
<1>1. PICK u, x, s, f, c, d : Along(u, x, s, f, c, d)
  BY DEF Inv
<1> QED BY <1>1, EdgeMoves

LEMMA InitKeeps == Init => Inv
<1> SUFFICES ASSUME Init PROVE Inv
  OBVIOUS
<1> DEFINE start == [i \in 0 .. Stages |-> [word |-> 0, beat |-> 0]]
<1>1. /\ length \in Lengths /\ length \in Nat /\ sent = 0 /\ back = 0
      /\ aToB = Quiet /\ bToA = Quiet /\ faulty = {} /\ faults = 0
      /\ A!AdapterInit /\ B!AdapterInit /\ Crypto!CryptoInit
  BY LoopbackAssumption DEF Init
<1>2. /\ aPk = [words |-> <<>>, flit |-> Nothing] /\ bPk = [words |-> <<>>, flit |-> Nothing]
      /\ aTx = [flit |-> Nothing, left |-> 0, last |-> Nothing, pending |-> FALSE, active |-> FALSE]
      /\ bTx = [flit |-> Nothing, left |-> 0, last |-> Nothing, pending |-> FALSE, active |-> FALSE]
      /\ aRx = [beats |-> <<>>, flit |-> Nothing] /\ bRx = [beats |-> <<>>, flit |-> Nothing]
      /\ aDp = [words |-> <<>>, crcError |-> FALSE] /\ bDp = [words |-> <<>>, crcError |-> FALSE]
      /\ aRetry = NoRetry /\ bRetry = NoRetry
      /\ aLink = bLink
  BY <1>1 DEF A!AdapterInit, B!AdapterInit, NoRetry
<1>3. /\ Quiet \in Seq(Beat \cup {Nothing}) /\ Len(Quiet) = Stages /\ Quiet # <<>>
      /\ \A i \in 1 .. Stages : Quiet[i] = Nothing
      /\ Head(Quiet) = Nothing
  <2>1. Quiet = [i \in 1 .. Stages |-> Nothing]
    BY DEF Quiet, Stages
  <2>2. Quiet \in Seq(Beat \cup {Nothing}) /\ Len(Quiet) = Stages
    BY <2>1, Params, SeqDef
  <2>3. Quiet # <<>>
    <3>1. Len(<<>>) = 0
      OBVIOUS
    <3> QED BY <2>2, <3>1, Params
  <2>4. 1 \in 1 .. Stages /\ Head(Quiet) = Quiet[1]
    BY <2>2, <2>3, Params, HeadTailProperties
  <2> QED BY <2>1, <2>2, <2>3, <2>4
<1>4. /\ start \in [0 .. Stages -> Place]
      /\ \A i \in 0 .. Stages : start[i] = [word |-> 0, beat |-> 0]
      /\ \A i \in 0 .. Stages : start[i].word = 0 /\ start[i].beat = 0
  <2>1. [word |-> 0, beat |-> 0] \in Place
    BY Params DEF Place
  <2> QED BY <2>1
<1> HIDE DEF start
<1>5. ASSUME NEW stream, NEW pk, NEW tx, NEW rx, NEW dp,
             pk = [words |-> <<>>, flit |-> Nothing],
             tx = [flit |-> Nothing, left |-> 0, last |-> Nothing, pending |-> FALSE, active |-> FALSE],
             rx = [beats |-> <<>>, flit |-> Nothing],
             dp = [words |-> <<>>, crcError |-> FALSE]
      PROVE  Path(stream, 0, 0, pk, tx, Quiet, rx, dp, start)
  <2>1. Len(<<>>) = 0 /\ \A k \in 1 .. 0 : FALSE
    OBVIOUS
  <2>2. 0 \in 0 .. Stages /\ Stages \in 0 .. Stages /\ start[0] \in Place /\ start[Stages] \in Place
    BY <1>4, Params
  <2>3. InFlight(tx) = 0 /\ Waiting(pk) = 0 /\ Unread(rx) = 0
    BY <1>5 DEF InFlight, Waiting, Unread
  <2>4. pk \in Packetizer /\ tx \in Transmitter
    BY <1>5, Params DEF Packetizer, Transmitter
  <2>5. rx \in Receiver /\ dp \in Depacketizer
    BY <1>5 DEF Receiver, Depacketizer
  <2>6. Gathers(stream, 0, 0, pk)
    BY <1>5, <2>1, <2>3, <2>4, Params DEF Gathers
  <2>7. Feeds(stream, 0, tx, start[Stages])
    BY <1>4, <1>5, <2>2, <2>3, <2>4 DEF Feeds
  <2>8. Carries(stream, 0, tx, Quiet, start)
    <3>1. \A i \in 1 .. Stages : i \in 0 .. Stages /\ i - 1 \in 0 .. Stages
      BY Params
    <3> QED BY <1>3, <1>4, <3>1 DEF Carries
  <2>9. Gets(stream, 0, rx, start[0])
    BY <1>4, <1>5, <2>1, <2>2, <2>3, <2>5 DEF Gets
  <2>10. Gives(stream, 0, 0, dp)
    BY <1>5, <2>1, <2>5 DEF Gives
  <2>11. start[Stages].word + InFlight(tx) = 0 /\ start[0].word - Unread(rx) = 0
    BY <1>4, <2>2, <2>3
  <2> QED BY <1>5, <2>6, <2>7, <2>8, <2>9, <2>10, <2>11 DEF Path
<1>6. /\ Path(Plain, sent, 0, aPk, aTx, aToB, bRx, bDp, start)
      /\ Path(Encrypted, 0, back, bPk, bTx, bToA, aRx, aDp, start)
  BY <1>1, <1>2, <1>5
<1>7. Builds(0, 0, blk) /\ Encrypts(0, 0, aes) /\ Queues(0, 0, cipher)
  <2>1. /\ blk = [words |-> <<>>, pending |-> FALSE]
        /\ aes = [round |-> 0, block |-> <<>>, done |-> FALSE]
        /\ cipher = <<>>
    BY <1>1 DEF Crypto!CryptoInit
  <2>2. Len(<<>>) = 0 /\ \A k \in 1 .. 0 : FALSE
    OBVIOUS
  <2>3. blk \in Builder /\ aes \in Engine
    BY <2>1 DEF Builder, Engine
  <2>4. Builds(0, 0, blk)
    BY <2>1, <2>2, <2>3, BlockParams DEF Builds
  <2>5. Encrypts(0, 0, aes)
    BY <2>1, <2>3 DEF Encrypts
  <2>6. Queues(0, 0, cipher)
    BY <2>1, <2>2, AlignedZero DEF Queues
  <2> QED BY <2>4, <2>5, <2>6
<1>8. \E u, x, s, f, c, d : Along(u, x, s, f, c, d)
  <2>1. Along(0, 0, 0, 0, start, start)
    BY <1>6, <1>7 DEF Along
  <2> QED BY <2>1
<1>9. Calm
  BY <1>1, <1>2, <1>3 DEF Calm
<1>10. KeepsUp(bToA, aRx, aDp)
  BY <1>1, <1>2, <1>3 DEF KeepsUp
<1> QED BY <1>1, <1>8, <1>9, <1>10 DEF Inv

LEMMA StutterKeeps == ASSUME Inv, UNCHANGED vars PROVE Inv'
BY DEF vars, Inv, Calm, Along

-----------------------------------------------------------------------------
(* What follows while die B keeps room.                                    *)

\* What the invariant says of die A, whose words are taken at once, and of the
\* words that come back.
LEMMA InvSays ==
  ASSUME Inv
  PROVE  /\ AtA # Nothing => A!LinkUp /\ aRx.flit = Nothing
         /\ AtB # Nothing => B!LinkUp
         /\ InOrder
<1>1. Calm /\ KeepsUp(bToA, aRx, aDp) /\ sent \in Nat
  BY DEF Inv
<1>2. PICK u, x, s, f, c, d : Along(u, x, s, f, c, d)
  BY DEF Inv
<1>3. u \in Nat /\ x \in Nat
  BY <1>2 DEF Along
<1>4. aLink.state # "ACTIVE" => AtA = Nothing /\ AtB = Nothing
  BY <1>1, <1>2, SilentLanes
<1>5. (AtA # Nothing => A!LinkUp /\ aRx.flit = Nothing) /\ (AtB # Nothing => B!LinkUp)
  BY <1>1, <1>4 DEF KeepsUp, AtA, A!LinkUp, B!LinkUp, Calm
<1>6. InOrder
  <2> SUFFICES ASSUME A!WordOut # Nothing
               PROVE  back < sent /\ A!WordOut = Expected(back + 1)
    BY DEF InOrder
  <2>1. /\ A!WordOut = Encrypted[back + 1] /\ back + 1 <= x
        /\ u <= sent /\ x <= f /\ f <= s /\ s <= u
        /\ f \in Nat /\ s \in Nat /\ back \in Nat
    BY <1>1, <1>2, <1>3, WordsOut
  <2>2. back + 1 \in Nat \ {0}
    BY <2>1
  <2>3. back < sent
    BY <1>1, <1>3, <2>1
  <2> QED BY <2>1, <2>2, <2>3 DEF Encrypted
<1> QED BY <1>5, <1>6

LEMMA InvWithRoom == ASSUME NoFaults, ReadsInTime PROVE Spec /\ []KeepsRoom => []Inv
<1>1. Inv /\ KeepsRoom /\ [Next]_vars => Inv'
  <2> SUFFICES ASSUME Inv, KeepsRoom, [Next]_vars PROVE Inv'
    OBVIOUS
  <2>1. CASE Next
    <3>1. PICK offer \in Offers, raised \in SUBSET {"A", "B"} : Edge(offer, raised)
      BY <2>1 DEF Next
    <3> QED BY <3>1, EdgeKeeps
  <2>2. CASE UNCHANGED vars
    BY <2>2, StutterKeeps
  <2> QED BY <2>1, <2>2
<1> QED BY <1>1, InitKeeps, PTL DEF Spec

\* As long as die B keeps room no beat is lost at either die (ucie_rx.sv:45):
\* without faults the link is up on both sides when a beat comes, and die A,
\* whose words are stored at once, is always ready for the next flit.
THEOREM NoBeatLostWithRoom ==
  ASSUME NoFaults, ReadsInTime
  PROVE  Spec /\ []KeepsRoom => []NoBeatLost
<1>1. Inv /\ KeepsRoom => NoBeatLost
  BY InvSays DEF KeepsRoom, NoBeatLost
<1> QED BY <1>1, InvWithRoom, PTL

\* Then too the words of a descriptor of any length come back encrypted in their
\* own blocks (die_b_system.sv), each once and in the order in which they were
\* sent.
THEOREM InOrderWithRoom ==
  ASSUME NoFaults, ReadsInTime
  PROVE  Spec /\ []KeepsRoom => []InOrder
<1>1. Inv => InOrder
  BY InvSays
<1> QED BY <1>1, InvWithRoom, PTL

-----------------------------------------------------------------------------
(* Descriptors for which it does.                                          *)

\* Descriptors of at most two whole flits that fit die B's queue.
ShortEnough == \A l \in Lengths : l < 3 * WORDS_PER_FLIT /\ l <= CIPHER_FIFO_DEPTH

\* The first flit is read in the silence behind it, before the second arrives,
\* and nothing comes behind the second.
LEMMA ShortHasRoom == ASSUME ShortEnough, Inv PROVE KeepsRoom
<1>1. /\ Calm /\ sent \in Nat /\ length \in Nat /\ sent <= length
      /\ length < 3 * WORDS_PER_FLIT /\ length <= CIPHER_FIFO_DEPTH
  BY LoopbackAssumption DEF Inv, ShortEnough
<1>2. PICK u, x, s, f, c, d : Along(u, x, s, f, c, d)
  BY DEF Inv
<1>3. u \in Nat /\ x \in Nat /\ Path(Plain, sent, u, aPk, aTx, aToB, bRx, bDp, c)
  BY <1>2 DEF Along
<1>4. AtB # Nothing => bRx.flit = Nothing
  <2> SUFFICES ASSUME AtB # Nothing, bRx.flit # Nothing PROVE FALSE
    OBVIOUS
  <2>1. Bounded(Plain, sent, u, aTx, aToB, bRx, bDp, c)
    BY <1>1, <1>3, StreamTypes, PathBounds
  <2>2. c[0] \in Place /\ c[0].word >= WORDS_PER_FLIT /\ c[0].word + WORDS_PER_FLIT <= sent
    BY <2>1 DEF Bounded, AtB
  <2>3. c[0].word \in {0, WORDS_PER_FLIT} \/ (c[0].word \in Nat /\ c[0].word >= 2 * WORDS_PER_FLIT)
    BY <2>2 DEF Place
  <2>4. c[0].word = WORDS_PER_FLIT
    BY <1>1, <2>2, <2>3, Params
  <2> QED BY <1>3, <2>4 DEF Path, AtB
<1>5. BlockFits
  <2> SUFFICES ASSUME aes.done PROVE Len(cipher) + WORDS_PER_BLOCK <= CIPHER_FIFO_DEPTH
    BY DEF BlockFits
  <2>1. /\ u <= sent /\ s <= u /\ s = f + WORDS_PER_BLOCK
        /\ f = x + Len(cipher) /\ Len(cipher) \in Nat /\ f \in Nat /\ s \in Nat
    BY <1>1, <1>2, <1>3, WordsOut
  <2> QED BY <1>1, <1>3, <2>1, BlockParams
<1> QED BY <1>4, <1>5 DEF KeepsRoom

LEMMA InvShort == ASSUME NoFaults, ReadsInTime, ShortEnough PROVE Spec => []Inv
<1>1. Inv /\ [Next]_vars => Inv'
  <2> SUFFICES ASSUME Inv, [Next]_vars PROVE Inv'
    OBVIOUS
  <2>1. KeepsRoom
    BY ShortHasRoom
  <2>2. CASE Next
    <3>1. PICK offer \in Offers, raised \in SUBSET {"A", "B"} : Edge(offer, raised)
      BY <2>2 DEF Next
    <3> QED BY <2>1, <3>1, EdgeKeeps
  <2>3. CASE UNCHANGED vars
    BY <2>3, StutterKeeps
  <2> QED BY <2>2, <2>3
<1> QED BY <1>1, InitKeeps, PTL DEF Spec

\* Credit-based flow control loses no beat of a descriptor of at most two whole
\* flits, whatever the delays of the channel, the PHYs and the engine.
THEOREM ShortLosesNoBeat ==
  ASSUME NoFaults, ReadsInTime, ShortEnough
  PROVE  Spec => []NoBeatLost
<1>1. Inv => NoBeatLost
  BY InvSays, ShortHasRoom DEF KeepsRoom, NoBeatLost
<1> QED BY <1>1, InvShort, PTL

\* Its words come back encrypted in their own blocks, each once and in order.
THEOREM ShortReturnsInOrder ==
  ASSUME NoFaults, ReadsInTime, ShortEnough
  PROVE  Spec => []InOrder
<1>1. Inv => InOrder
  BY InvSays
<1> QED BY <1>1, InvShort, PTL

-----------------------------------------------------------------------------
(* Bursts, with the sizes of the code.                                     *)
(*                                                                         *)
(* A flit takes 18 edges on the lanes, of which the last is silent, and its*)
(* two blocks keep the engine busy for 22.  Die B falls behind by 4 edges  *)
(* with each flit that follows another at once: it is on time for five of  *)
(* them and holds the sixth, whose turn comes too late for a seventh.      *)

CodeSizes ==
  /\ WORDS_PER_FLIT = 4 /\ BEATS_PER_FLIT = 17
  /\ WORDS_PER_BLOCK = 2 /\ AES_ROUNDS = 10 /\ CIPHER_FIFO_DEPTH = 32

\* Descriptors of at most six whole flits.
BurstEnough == \A l \in Lengths : l < 28

\* Blocks that n words of a flit become.
Blocks(n) == IF n > 2 THEN 2 ELSE IF n > 0 THEN 1 ELSE 0

\* Work of die B's service: the edges that its engine needs for the pending
\* block and for the n words of the depacketizer, half of whose first block may
\* have been gathered.
Work(n, half, pending, round) ==
  LET busy == IF round = 0 THEN 0 ELSE 11 - round
      gathering == IF n = 0 THEN 0 ELSE 2 - half
  IN 11 * Blocks(n) + IF pending THEN 11 + busy ELSE IF busy < gathering THEN gathering ELSE busy

\* A block is gathered as soon as the engine has taken the one before.
Keen(n, half, pending, round) ==
  /\ half \in {0, 1} /\ pending \in BOOLEAN /\ round \in 0 .. 10
  /\ \/ pending /\ half = 0 /\ n \in {0, 2, 4}
     \/ ~pending /\ half = 0 /\ n \in {0, 4}
     \/ ~pending /\ half = 1 /\ n = 3
     \/ ~pending /\ half = 0 /\ n = 2 /\ round = 1
     \/ ~pending /\ half = 1 /\ n = 1 /\ round = 2

\* The service on an edge on which the depacketizer takes no flit.
Works(n, half, pending, round, n1, half1, pending1, round1) ==
  /\ n1 = IF n # 0 /\ ~pending THEN n - 1 ELSE n
  /\ half1 = IF n # 0 /\ ~pending THEN 1 - half ELSE half
  /\ pending1 \in BOOLEAN
  /\ pending1 <=> IF n # 0 /\ ~pending THEN half = 1 ELSE pending /\ round # 0
  /\ round1 = IF pending /\ round = 0 THEN 1
              ELSE IF round \in {0, 10} THEN 0 ELSE round + 1

LEMMA WorkNat ==
  ASSUME NEW n, NEW half, NEW pending, NEW round, Keen(n, half, pending, round)
  PROVE  Work(n, half, pending, round) \in Nat
BY DEF Keen, Work, Blocks

\* An edge is an edge less of work.
LEMMA WorkOn ==
  ASSUME NEW n, NEW half, NEW pending, NEW round, Keen(n, half, pending, round),
         NEW n1, NEW half1, NEW pending1, NEW round1,
         Works(n, half, pending, round, n1, half1, pending1, round1)
  PROVE  /\ Keen(n1, half1, pending1, round1)
         /\ Work(n, half, pending, round) \in Nat
         /\ Work(n1, half1, pending1, round1) \in Nat
         /\ Work(n1, half1, pending1, round1) <= Work(n, half, pending, round)
         /\ Work(n, half, pending, round) # 0 =>
              Work(n1, half1, pending1, round1) = Work(n, half, pending, round) - 1
BY DEF Keen, Works, Work, Blocks

\* A flit is 22 of it, and 2 more to gather its first block when there is none.
LEMMA WorkOfFlit ==
  ASSUME NEW half, NEW pending, NEW round, Keen(0, half, pending, round)
  PROVE  /\ Keen(4, half, pending, round)
         /\ Work(4, half, pending, round) <= Work(0, half, pending, round) + 22
              \/ Work(4, half, pending, round) = 24
BY DEF Keen, Work, Blocks

\* The words of a flit have left the depacketizer 19 edges before its work ends.
LEMMA WorkLeft ==
  ASSUME NEW n, NEW half, NEW pending, NEW round, Keen(n, half, pending, round),
         Work(n, half, pending, round) <= 19
  PROVE  n = 0
BY DEF Keen, Work, Blocks

Half == IF Len(blk.words) = 1 THEN 1 ELSE 0

WorkOfB == Work(Len(bDp.words), Half, blk.pending, aes.round)

\* Die B is on time, its receiver being at p.
OnTime(p) ==
  /\ p.word \in {0, 4, 8, 12, 16, 20, 24}
  /\ p.word <= 20 =>
       /\ Keen(Len(bDp.words), Half, blk.pending, aes.round)
       /\ IF bRx.flit # Nothing THEN AtB = Nothing /\ p.beat = 0 /\ WorkOfB <= p.word - 1
          ELSE IF p.word = 0 THEN WorkOfB = 0
          ELSE WorkOfB <= p.word + 20 - p.beat

InvOnTime == Inv /\ \E u, x, s, f, c, d : Along(u, x, s, f, c, d) /\ OnTime(c[0])

\* It then has room for every beat, and its queue for every block.
LEMMA OnTimeHasRoom ==
  ASSUME CodeSizes, BurstEnough, Inv,
         NEW u, NEW x, NEW s, NEW f, NEW c, NEW d, Along(u, x, s, f, c, d), OnTime(c[0])
  PROVE  /\ KeepsRoom
         /\ AtB # Nothing => c[0].word <= 20
         /\ bRx.flit # Nothing /\ c[0].word <= 20 => bDp.words = <<>> /\ c[0].word >= 4
         /\ Crypto!PlaintextReady <=> ~blk.pending
<1>1. Calm /\ sent \in Nat /\ length \in Nat /\ sent <= length /\ length < 28
  BY LoopbackAssumption DEF Inv, BurstEnough
<1>2. u \in Nat /\ x \in Nat /\ Path(Plain, sent, u, aPk, aTx, aToB, bRx, bDp, c)
  BY DEF Along
<1>3. Bounded(Plain, sent, u, aTx, aToB, bRx, bDp, c)
  BY <1>1, <1>2, StreamTypes, PathBounds
<1>4. AtB # Nothing => c[0].word <= 20
  <2> SUFFICES ASSUME AtB # Nothing PROVE c[0].word <= 20
    OBVIOUS
  <2>1. c[0].word + 4 <= sent
    BY <1>3 DEF Bounded, AtB, CodeSizes
  <2> QED BY <1>1, <2>1 DEF OnTime
<1>5. bRx.flit # Nothing => c[0].word >= 4
  BY <1>3 DEF Bounded, CodeSizes
<1>6. AtB # Nothing => bRx.flit = Nothing
  BY <1>4 DEF OnTime
<1>7. ASSUME bRx.flit # Nothing, c[0].word <= 20 PROVE bDp.words = <<>>
  <2>1. Keen(Len(bDp.words), Half, blk.pending, aes.round) /\ WorkOfB <= c[0].word - 1
    BY <1>7 DEF OnTime
  <2>2. WorkOfB \in Nat
    BY <2>1, WorkNat DEF WorkOfB
  <2>3. WorkOfB <= 19
    BY <1>7, <2>1, <2>2 DEF OnTime
  <2>4. Len(bDp.words) = 0
    BY <2>1, <2>3, WorkLeft DEF WorkOfB
  <2>5. bDp.words \in Seq(Payload)
    <3>1. bDp \in Depacketizer
      BY <1>2, PathTypes
    <3> QED BY <3>1 DEF Depacketizer
  <2> QED BY <2>4, <2>5, EmptySeq
<1>8. /\ u <= sent /\ x <= f /\ f <= s /\ s <= u
      /\ aes.done => s = f + WORDS_PER_BLOCK
      /\ f = x + Len(cipher) /\ Len(cipher) \in Nat /\ f \in Nat /\ s \in Nat
  BY <1>1, <1>2, WordsOut
<1>9. BlockFits
  BY <1>1, <1>2, <1>8 DEF BlockFits, CodeSizes
<1>10. Len(cipher) <= CIPHER_FIFO_DEPTH - WORDS_PER_BLOCK
  BY <1>1, <1>2, <1>8 DEF CodeSizes
<1>11. Crypto!PlaintextReady <=> ~blk.pending
  BY <1>10 DEF Crypto!PlaintextReady
<1> QED BY <1>4, <1>5, <1>6, <1>7, <1>9, <1>11 DEF KeepsRoom

\* What die B's receiver, depacketizer and service do on an edge.
LEMMA EdgeOfB ==
  ASSUME Inv, KeepsRoom, NEW u, NEW x, NEW s, NEW f, NEW c, NEW d, Along(u, x, s, f, c, d),
         NEW offer, NEW raised, Edge(offer, raised)
  PROVE  /\ Receives(bRx, bRx', AtB, bRx.flit # Nothing /\ bDp.words = <<>>)
         /\ Streams(bRx.flit, bDp, bDp', Crypto!PlaintextReady, bRx.flit # Nothing /\ bDp.words = <<>>)
         /\ Crypto!CryptoEdge(B!WordOut, B!DataReady)
         /\ B!WordOut # Nothing <=> bDp.words # <<>>
         /\ aToB' = Shifted(aToB, aTx)
<1>1. Calm /\ sent \in Nat
  BY DEF Inv
<1>2. u \in Nat /\ x \in Nat
  BY DEF Along
<1>3. /\ bPk \in Packetizer /\ bTx \in Transmitter /\ bRx \in Receiver /\ bDp \in Depacketizer
  BY PathTypes DEF Along
<1>4. /\ B!WordOut # Nothing <=> bDp.words # <<>>
      /\ Crypto!CipherOut # Nothing => Crypto!CipherOut \in Payload
  BY <1>1, <1>2, WordsOut
<1>5. /\ AtB # Nothing => bRx.flit = Nothing
      /\ bLink.state # "ACTIVE" => AtB = Nothing
  BY <1>1, SilentLanes DEF KeepsRoom, Calm
<1>6. Crypto!PlaintextReady \in BOOLEAN
  BY DEF Crypto!PlaintextReady
<1>7. /\ B!AdapterEdge(Crypto!CipherOut, AtB, "B" \in faulty, Crypto!PlaintextReady)
      /\ Crypto!CryptoEdge(B!WordOut, B!DataReady)
      /\ aToB' = Shift(aToB, A!LaneBeat)
  BY DEF Edge
<1>8. /\ Receives(bRx, bRx', AtB, B!FlitTaken)
      /\ Streams(bRx.flit, bDp, bDp', Crypto!PlaintextReady, B!FlitTaken)
  BY <1>1, <1>3, <1>4, <1>5, <1>6, <1>7, AdapterOfB
<1>9. A!LaneBeat = Shows(aTx)
  BY DEF A!LaneBeat, A!Sending, Shows
<1> QED BY <1>4, <1>7, <1>8, <1>9 DEF B!FlitTaken, Shift, Shifted

\* The service works off its blocks.
LEMMA ServiceWorks ==
  ASSUME CodeSizes, NEW u \in Nat, NEW s, NEW f, Builds(u, s, blk), Encrypts(s, f, aes),
         Keen(Len(bDp.words), Half, blk.pending, aes.round),
         Crypto!PlaintextReady <=> ~blk.pending, B!WordOut # Nothing <=> Len(bDp.words) # 0,
         NEW ready, Crypto!CryptoEdge(B!WordOut, ready),
         NEW n1, n1 = IF Len(bDp.words) # 0 /\ ~blk.pending THEN Len(bDp.words) - 1 ELSE Len(bDp.words)
  PROVE  Works(Len(bDp.words), Half, blk.pending, aes.round, n1, Half', blk'.pending, aes'.round)
<1> DEFINE n == Len(bDp.words)
           word == B!WordOut
<1>1. /\ blk \in Builder /\ blk.words \in Seq(Nat) /\ Len(blk.words) \in 0 .. 2 /\ blk.pending \in BOOLEAN
      /\ blk.pending => Len(blk.words) = 2
  <2>1. blk \in Builder /\ blk.words \in Seq(Nat) /\ blk.pending \in BOOLEAN /\ Len(blk.words) <= 2
    BY DEF Builds, Builder, CodeSizes
  <2>2. Len(blk.words) \in Nat
    BY <2>1, LenProperties
  <2>3. blk.pending => Len(blk.words) = 2
    BY DEF Builds, Block, CodeSizes
  <2>4. Len(blk.words) \in 0 .. 2
    <3>1. \A k : k \in Nat /\ k <= 2 => k \in 0 .. 2
      OBVIOUS
    <3> QED BY <2>1, <2>2, <3>1
  <2> QED BY <2>1, <2>3, <2>4
<1>2. aes \in Engine /\ aes.round \in 0 .. 10
  BY DEF Encrypts, Keen
<1>3. Crypto!Gather(word) /\ Crypto!Encrypt
  BY DEF Crypto!CryptoEdge
<1>4. Crypto!AesStart <=> blk.pending /\ aes.round = 0
  BY DEF Crypto!AesStart, Crypto!AesReady
<1>5. CASE n # 0 /\ ~blk.pending
  <2> DEFINE words == IF Len(blk.words) = WORDS_PER_BLOCK THEN <<word>> ELSE Append(blk.words, word)
  <2>1. blk' = [words |-> words, pending |-> Len(words) = WORDS_PER_BLOCK]
    BY <1>3, <1>5 DEF Crypto!Gather
  <2>2. Len(words) = IF Len(blk.words) = 2 THEN 1 ELSE Len(blk.words) + 1
    <3>1. Len(<<word>>) = 1
      OBVIOUS
    <3>2. Len(Append(blk.words, word)) = Len(blk.words) + 1
      BY <1>1
    <3> QED BY <3>1, <3>2 DEF CodeSizes
  <2> HIDE DEF words
  <2>3. Len(blk'.words) = Len(words) /\ (blk'.pending <=> Len(words) = 2) /\ blk'.pending \in BOOLEAN
    BY <2>1 DEF CodeSizes
  <2>4. Half' = 1 - Half /\ (blk'.pending <=> Half = 1)
    <3>1. Half = (IF Len(blk.words) = 1 THEN 1 ELSE 0) /\ Half' = IF Len(words) = 1 THEN 1 ELSE 0
      BY <2>3 DEF Half
    <3>2. Len(words) = (IF Len(blk.words) = 1 THEN 2 ELSE 1)
      <4>1. \A k \in 0 .. 2 : (IF k = 2 THEN 1 ELSE k + 1) = (IF k = 1 THEN 2 ELSE 1)
        OBVIOUS
      <4> QED BY <1>1, <2>2, <4>1
    <3> QED BY <2>3, <3>1, <3>2
  <2>5. aes'.round = IF aes.round \in {0, 10} THEN 0 ELSE aes.round + 1
    BY <1>2, <1>3, <1>4, <1>5 DEF Crypto!Encrypt, Crypto!AesReady, Engine, CodeSizes
  <2> QED BY <1>5, <2>3, <2>4, <2>5 DEF Works
<1>6. CASE ~(n # 0 /\ ~blk.pending)
  <2>1. blk' = [blk EXCEPT !.pending = blk.pending /\ ~Crypto!AesStart]
    BY <1>3, <1>6 DEF Crypto!Gather
  <2>2. blk'.words = blk.words /\ blk'.pending = (blk.pending /\ ~Crypto!AesStart)
    BY <1>1, <2>1 DEF Builder
  <2>3. Half' = Half /\ blk'.pending \in BOOLEAN /\ (blk'.pending <=> blk.pending /\ aes.round # 0)
    BY <1>1, <1>4, <2>2 DEF Half
  <2>4. aes'.round = IF blk.pending /\ aes.round = 0 THEN 1
                     ELSE IF aes.round \in {0, 10} THEN 0 ELSE aes.round + 1
    BY <1>2, <1>3, <1>4 DEF Crypto!Encrypt, Crypto!AesReady, Engine, CodeSizes
  <2> QED BY <1>6, <2>3, <2>4 DEF Works
<1> QED BY <1>5, <1>6

\* An edge leaves it on time.
LEMMA EdgeOnTime ==
  ASSUME NoFaults, ReadsInTime, CodeSizes, BurstEnough, Inv,
         NEW u, NEW x, NEW s, NEW f, NEW c, NEW d, Along(u, x, s, f, c, d), OnTime(c[0]),
         NEW offer \in Offers, NEW raised \in SUBSET {"A", "B"}, Edge(offer, raised),
         NEW p, p = IF AtB # Nothing THEN Next1(c[0]) ELSE c[0]
  PROVE  OnTime(p)'
<1> DEFINE q == c[0]
           held == bRx.flit # Nothing
           n == Len(bDp.words)
           W == WorkOfB
           W1 == WorkOfB'
<1>1. /\ KeepsRoom
      /\ AtB # Nothing => q.word <= 20
      /\ held /\ q.word <= 20 => bDp.words = <<>> /\ q.word >= 4
      /\ Crypto!PlaintextReady <=> ~blk.pending
  BY OnTimeHasRoom
<1>2. /\ u \in Nat /\ Path(Plain, sent, u, aPk, aTx, aToB, bRx, bDp, c)
      /\ Builds(u, s, blk) /\ Encrypts(s, f, aes)
      /\ sent \in Nat
  BY DEF Along, Inv
<1>3. /\ Receives(bRx, bRx', AtB, held /\ bDp.words = <<>>)
      /\ Streams(bRx.flit, bDp, bDp', Crypto!PlaintextReady, held /\ bDp.words = <<>>)
      /\ Crypto!CryptoEdge(B!WordOut, B!DataReady)
      /\ B!WordOut # Nothing <=> bDp.words # <<>>
      /\ aToB' = Shifted(aToB, aTx)
  BY <1>1, EdgeOfB
<1>4. /\ bDp \in Depacketizer /\ bDp.words \in Seq(Payload) /\ n \in Nat /\ (bDp.words # <<>> <=> n # 0)
      /\ bRx \in Receiver /\ bRx.beats \in Seq(Beat) /\ Len(bRx.beats) = q.beat
      /\ held => bRx.flit \in Whole
      /\ q \in Place /\ q.word \in Nat /\ q.beat \in 0 .. 16
      /\ Carries(Plain, sent, aTx, aToB, c)
  <2>1. bDp \in Depacketizer /\ bRx \in Receiver
    BY <1>2, PathTypes
  <2>2. bDp.words \in Seq(Payload) /\ bRx.beats \in Seq(Beat) /\ (held => bRx.flit \in Whole)
    BY <2>1 DEF Depacketizer, Receiver
  <2>3. n \in Nat /\ (bDp.words # <<>> <=> n # 0)
    BY <2>2, EmptySeq, LenProperties
  <2>4. q \in Place /\ Len(bRx.beats) = q.beat /\ Carries(Plain, sent, aTx, aToB, c)
    BY <1>2 DEF Path, Gets
  <2>5. q.word \in Nat /\ q.beat \in 0 .. 16
    BY <2>4, PlaceNat DEF CodeSizes
  <2> QED BY <2>1, <2>2, <2>3, <2>4, <2>5
<1>5. q.word \in {0, 4, 8, 12, 16, 20, 24}
  BY DEF OnTime
<1>6. p \in Place /\ p.word \in {0, 4, 8, 12, 16, 20, 24} /\ p.word >= q.word
  <2>1. p \in Place
    BY <1>4, OnPlace
  <2>2. p.word = q.word \/ (AtB # Nothing /\ p.word = q.word + 4)
    BY DEF Next1, CodeSizes
  <2> QED BY <1>1, <1>5, <2>1, <2>2
<1> SUFFICES ASSUME p.word <= 20
             PROVE  /\ Keen(Len(bDp'.words), Half', blk'.pending, aes'.round)
                    /\ IF bRx'.flit # Nothing THEN AtB' = Nothing /\ p.beat = 0 /\ W1 <= p.word - 1
                       ELSE IF p.word = 0 THEN W1 = 0
                       ELSE W1 <= p.word + 20 - p.beat
  BY <1>6 DEF OnTime
<1>7. q.word <= 20
  BY <1>5, <1>6
<1>8. /\ Keen(n, Half, blk.pending, aes.round) /\ W \in Nat
      /\ IF held THEN AtB = Nothing /\ q.beat = 0 /\ W <= q.word - 1
         ELSE IF q.word = 0 THEN W = 0
         ELSE W <= q.word + 20 - q.beat
  BY <1>7, WorkNat DEF OnTime, WorkOfB
<1>9. PICK n1 : n1 = IF n # 0 /\ ~blk.pending THEN n - 1 ELSE n
  OBVIOUS
<1>10. Works(n, Half, blk.pending, aes.round, n1, Half', blk'.pending, aes'.round)
  BY <1>1, <1>2, <1>3, <1>4, <1>8, <1>9, ServiceWorks
<1> DEFINE W0 == Work(n1, Half', blk'.pending, aes'.round)
<1>11. /\ Keen(n1, Half', blk'.pending, aes'.round)
       /\ W0 \in Nat /\ W0 <= W /\ (W # 0 => W0 = W - 1)
  BY <1>8, <1>10, WorkOn DEF WorkOfB
<1>12. \A a \in Nat : W <= a + 1 => W0 <= a
  BY <1>8, <1>11
<1>13. W1 = Work(Len(bDp'.words), Half', blk'.pending, aes'.round)
  BY DEF WorkOfB
<1> HIDE DEF q, n, held, W, W1, W0
<1>14. CASE held
  <2>1. AtB = Nothing /\ bDp.words = <<>> /\ n = 0 /\ n1 = 0 /\ p = q /\ q.word >= 4
    BY <1>1, <1>4, <1>7, <1>8, <1>9, <1>14 DEF q
  <2>2. bRx' = [bRx EXCEPT !.flit = Nothing]
    BY <1>3, <1>14, <2>1 DEF Receives
  <2>3. bRx'.flit = Nothing
    BY <1>4, <2>2 DEF Receiver
  <2>4. bDp' = bRx.flit
    BY <1>3, <1>14, <2>1 DEF Streams
  <2>5. Len(bDp'.words) = 4
    <3>1. bDp'.words \in [1 .. 4 -> Payload]
      BY <1>4, <1>14, <2>4 DEF Whole, Flit, CodeSizes
    <3> QED BY <3>1
  <2>6. /\ Keen(4, Half', blk'.pending, aes'.round)
        /\ W1 <= W0 + 22 \/ W1 = 24
    BY <1>11, <1>13, <2>1, <2>5, WorkOfFlit DEF W0
  <2>7. W1 \in Nat
    BY <1>13, <2>5, <2>6, WorkNat
  <2>8. q.beat = 0 /\ W <= q.word - 1
    BY <1>8, <1>14
  <2>9. W1 <= p.word + 20 - p.beat
    <3>1. W0 <= q.word - 2 /\ q.word >= 4
      BY <1>4, <1>8, <1>12, <2>1, <2>8
    <3> QED BY <1>4, <1>11, <2>1, <2>6, <2>7, <2>8, <3>1
  <2> QED BY <2>1, <2>3, <2>5, <2>6, <2>9
<1>15. CASE ~held
  <2>1. Len(bDp'.words) = n1
    <3>1. CASE n # 0 /\ ~blk.pending
      <4>1. bDp'.words = Tail(bDp.words)
        BY <1>1, <1>3, <1>4, <1>15, <3>1 DEF Streams
      <4> QED BY <1>4, <1>9, <3>1, <4>1, HeadTailProperties DEF n
    <3>2. CASE ~(n # 0 /\ ~blk.pending)
      <4>1. bDp' = bDp
        BY <1>1, <1>3, <1>4, <1>15, <3>2 DEF Streams
      <4> QED BY <1>9, <3>2, <4>1 DEF n
    <3> QED BY <3>1, <3>2
  <2>2. Keen(Len(bDp'.words), Half', blk'.pending, aes'.round) /\ W1 = W0
    BY <1>11, <1>13, <2>1 DEF W0
  <2>3. CASE AtB = Nothing
    <3>1. bRx' = bRx /\ p = q
      BY <1>3, <1>15, <2>3 DEF Receives, q
    <3>2. bRx'.flit = Nothing
      BY <1>15, <3>1 DEF held
    <3>3. IF p.word = 0 THEN W1 = 0 ELSE W1 <= p.word + 20 - p.beat
      BY <1>4, <1>8, <1>11, <1>15, <2>2, <3>1
    <3> QED BY <2>2, <3>2, <3>3
  <2>4. CASE AtB # Nothing /\ q.beat # 16
    <3>1. p = [word |-> q.word, beat |-> q.beat + 1]
      BY <1>4, <2>4 DEF Next1, CodeSizes, q
    <3>2. bRx'.flit = Nothing
      <4> DEFINE beats == Append(bRx.beats, AtB)
      <4>1. bRx' = [bRx EXCEPT !.beats = beats]
        BY <1>3, <1>4, <2>4 DEF Receives, CodeSizes
      <4> HIDE DEF beats
      <4> QED BY <1>4, <1>15, <4>1 DEF Receiver, held
    <3>3. p.word = q.word /\ p.beat = q.beat + 1
      BY <3>1
    <3>4. CASE q.word = 0
      BY <1>8, <1>11, <1>15, <2>2, <3>2, <3>3, <3>4
    <3>5. CASE q.word # 0
      <4>1. W \in Nat /\ W <= q.word + 20 - q.beat /\ q.word \in Nat /\ q.beat \in 0 .. 16
        BY <1>4, <1>8, <1>15, <3>5
      <4>2. W <= (q.word + 20 - (q.beat + 1)) + 1 /\ q.word + 20 - (q.beat + 1) \in Nat
        BY <4>1
      <4> QED BY <1>12, <2>2, <3>2, <3>3, <3>5, <4>2
    <3> QED BY <3>4, <3>5
  <2>5. CASE AtB # Nothing /\ q.beat = 16
    <3>1. p = [word |-> q.word + 4, beat |-> 0]
      BY <1>4, <2>5 DEF Next1, CodeSizes, q
    <3>2. Head(aToB) # Nothing /\ c[0].beat + 1 = BEATS_PER_FLIT
      BY <2>5 DEF AtB, CodeSizes, q
    <3>3. AtB' = Nothing
      <4>1. Head(Shifted(aToB, aTx)) = Nothing
        BY <1>2, <1>4, <3>2, StreamTypes, SilentAfter
      <4> QED BY <1>3, <4>1 DEF AtB
    <3>4. p.word = q.word + 4 /\ p.beat = 0 /\ p.word - 1 \in Nat /\ p.word # 0
      BY <1>4, <3>1
    <3>5. W1 <= p.word - 1
      <4>1. CASE q.word = 0
        BY <1>8, <1>11, <1>15, <2>2, <3>4, <4>1
      <4>2. CASE q.word # 0
        <5>1. W <= (p.word - 1) + 1
          BY <1>4, <1>8, <1>15, <2>5, <3>4, <4>2
        <5> QED BY <1>12, <2>2, <3>4, <5>1
      <4> QED BY <4>1, <4>2
    <3>6. W1 <= p.word + 20 - p.beat
      <4>1. W1 \in Nat /\ p.word \in Nat
        BY <1>4, <1>11, <2>2, <3>4
      <4> QED BY <3>4, <3>5, <4>1
    <3> QED BY <2>2, <3>3, <3>4, <3>5, <3>6
  <2> QED BY <2>3, <2>4, <2>5
<1> QED BY <1>14, <1>15

LEMMA InitOnTime == ASSUME CodeSizes, Init PROVE InvOnTime
<1>1. Inv
  BY InitKeeps
<1>2. PICK u, x, s, f, c, d : Along(u, x, s, f, c, d)
  BY <1>1 DEF Inv
<1>3. sent = 0 /\ u \in Nat /\ Path(Plain, sent, u, aPk, aTx, aToB, bRx, bDp, c)
  BY <1>2 DEF Init, Along
<1>4. Bounded(Plain, sent, u, aTx, aToB, bRx, bDp, c)
  BY <1>3, StreamTypes, PathBounds
<1>5. c[0].word = 0
  BY <1>3, <1>4, PlaceNat DEF Bounded
<1>6. /\ bRx.flit = Nothing /\ bDp.words = <<>>
      /\ blk.words = <<>> /\ blk.pending = FALSE /\ aes.round = 0
  BY DEF Init, B!AdapterInit, Crypto!CryptoInit
<1>7. Len(bDp.words) = 0 /\ Half = 0
  BY <1>6 DEF Half
<1>8. Keen(0, 0, FALSE, 0) /\ Work(0, 0, FALSE, 0) = 0
  BY DEF Keen, Work, Blocks
<1>9. OnTime(c[0])
  BY <1>5, <1>6, <1>7, <1>8 DEF OnTime, WorkOfB
<1> QED BY <1>1, <1>2, <1>9 DEF InvOnTime

LEMMA StutterOnTime == ASSUME InvOnTime, UNCHANGED vars PROVE InvOnTime'
<1>1. PICK u, x, s, f, c, d : Along(u, x, s, f, c, d) /\ OnTime(c[0])
  BY DEF InvOnTime
<1>2. Inv'
  BY StutterKeeps DEF InvOnTime
<1>3. Along(u, x, s, f, c, d)' /\ OnTime(c[0])'
  BY <1>1 DEF vars, Along, OnTime, WorkOfB, Half, AtB
<1> QED BY <1>2, <1>3 DEF InvOnTime

LEMMA NextOnTime ==
  ASSUME NoFaults, CodeSizes, BurstEnough, InvOnTime, [Next]_vars
  PROVE  InvOnTime'
<1>1. CASE Next
  <2>1. PICK offer \in Offers, raised \in SUBSET {"A", "B"} : Edge(offer, raised)
    BY <1>1 DEF Next
  <2>2. PICK u, x, s, f, c, d : Along(u, x, s, f, c, d) /\ OnTime(c[0])
    BY DEF InvOnTime
  <2>3. Inv /\ ReadsInTime /\ KeepsRoom
    BY <2>2, OnTimeHasRoom DEF InvOnTime, ReadsInTime, CodeSizes
  <2>4. PICK cc : cc = Moved(aTx, c) /\ (\E uu, xx, ss, ff, dd : Along(uu, xx, ss, ff, cc, dd))'
    BY <2>1, <2>2, <2>3, EdgeMoves
  <2>5. Inv'
    BY <2>1, <2>2, <2>3, EdgeMoves
  <2>6. cc[0] = IF AtB # Nothing THEN Next1(c[0]) ELSE c[0]
    <3>1. /\ Path(Plain, sent, u, aPk, aTx, aToB, bRx, bDp, c)
          /\ sent \in Nat
      BY <2>2, <2>3 DEF Along, Inv
    <3>2. /\ 0 \in 0 .. Stages /\ 0 # Stages /\ 1 \in 1 .. Stages /\ 1 - 1 = 0 /\ 0 + 1 = 1
      BY Params
    <3>3. cc[0] = c[1]
      BY <2>4, <3>2 DEF Moved
    <3>4. /\ aToB[1] = Nothing => c[1] = c[0]
          /\ aToB[1] # Nothing => c[1] = Next1(c[0])
      BY <3>1, <3>2 DEF Path, Carries
    <3>5. AtB = aToB[1]
      BY <3>1, PathTypes DEF AtB
    <3> QED BY <3>3, <3>4, <3>5
  <2>7. PICK p : p = cc[0]
    OBVIOUS
  <2>8. OnTime(p)'
    BY <2>1, <2>2, <2>3, <2>6, <2>7, EdgeOnTime
  <2>9. (\E uu, xx, ss, ff, ccc, dd : Along(uu, xx, ss, ff, ccc, dd) /\ OnTime(ccc[0]))'
    <3>1. PICK uu, xx, ss, ff, dd : Along(uu, xx, ss, ff, cc, dd)'
      BY <2>4
    <3>2. OnTime(cc[0])'
      BY <2>7, <2>8
    <3> QED BY <3>1, <3>2
  <2> QED BY <2>5, <2>9 DEF InvOnTime
<1>2. CASE UNCHANGED vars
  BY <1>2, StutterOnTime
<1> QED BY <1>1, <1>2

LEMMA BurstOnTime == ASSUME NoFaults, CodeSizes, BurstEnough PROVE Spec => []InvOnTime
BY InitOnTime, NextOnTime, PTL DEF Spec

LEMMA BurstHasRoom == ASSUME CodeSizes, BurstEnough, InvOnTime PROVE Inv /\ KeepsRoom
<1>1. PICK u, x, s, f, c, d : Along(u, x, s, f, c, d) /\ OnTime(c[0])
  BY DEF InvOnTime
<1>2. Inv
  BY DEF InvOnTime
<1> QED BY <1>1, <1>2, OnTimeHasRoom

\* With the code's sizes of flits, blocks, engine and queue, credit-based flow
\* control loses no beat of a descriptor of at most 27 words, however the source
\* spaces them and whatever the delays of the channel and the PHYs (ucie_rx.sv:45,
\* aes128_iterative.sv).  The bound is exact: 28 words, offered at once, lose one.
THEOREM BurstLosesNoBeat ==
  ASSUME NoFaults, CodeSizes, BurstEnough
  PROVE  Spec => []NoBeatLost
<1>1. InvOnTime => NoBeatLost
  BY InvSays, BurstHasRoom DEF KeepsRoom, NoBeatLost
<1> QED BY <1>1, BurstOnTime, PTL

\* Its words come back encrypted in their own blocks, each once and in order.
THEOREM BurstReturnsInOrder ==
  ASSUME NoFaults, CodeSizes, BurstEnough
  PROVE  Spec => []InOrder
<1>1. InvOnTime => InOrder
  BY InvSays, BurstHasRoom
<1> QED BY <1>1, BurstOnTime, PTL

=============================================================================
