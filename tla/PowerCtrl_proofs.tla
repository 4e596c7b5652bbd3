-------------------------- MODULE PowerCtrl_proofs --------------------------
(***************************************************************************)
(* What holds of the power sequencer for every length of its two waits,    *)
(* and however the power state moves while it waits.                       *)
(*                                                                         *)
(* SequencerInv is inductive.  NoDeisolatedOffDomain by itself is not: it  *)
(* also takes that the target recorded when the sequencer left idle covers *)
(* the open domains and is covered by the powered ones, and that the       *)
(* powered domains are always a whole switch vector, which are nested.     *)
(*                                                                         *)
(* RetentionInv adds what an orderly input buys: while a power state is    *)
(* held as long as both waits, the sequencer is idle again before the next *)
(* is sampled, and then it stands where that state says.                   *)
(***************************************************************************)
EXTENDS PowerCtrl, TLAPS

\* The vectors the switches can hold: one for RUN, CRYPTO_ONLY and the rest.
Vectors == {Domain, Domain \ {"a_traffic"}, {}}

TargetInv ==
  /\ sw \in Vectors
  /\ seqTarget \in Vectors
  /\ seqState = "ISO_BEFORE_OFF" => open \subseteq seqTarget /\ seqTarget \subseteq sw
  /\ seqState = "RESTORE_BEFORE_DEISO" => seqTarget = sw

SequencerInv == TypeOK /\ TargetInv /\ NoDeisolatedOffDomain

-----------------------------------------------------------------------------
LEMMA SwitchVectorInVectors ==
  ASSUME NEW p PROVE SwitchVector(p) \in Vectors
BY DEF SwitchVector, Vectors

LEMMA VectorsAreDomains ==
  ASSUME NEW v \in Vectors PROVE v \subseteq Domain
BY DEF Vectors

LEMMA PulsesAreTyped ==
  /\ Saves \subseteq Pulse
  /\ Restores \subseteq Pulse
BY DEF Saves, Restores, Pulse

\* The sequencer, alone, keeps its registers in their ranges.
LEMMA SequenceTyped ==
  ASSUME TypeOK, Sequence
  PROVE  /\ seqState' \in {"IDLE", "ISO_BEFORE_OFF", "RESTORE_BEFORE_DEISO"}
         /\ seqTarget' \subseteq Domain
         /\ seqCount' \in Nat
         /\ sw' \subseteq Domain
         /\ open' \subseteq Domain
         /\ pulses' \subseteq Pulse
<1> USE PulsesAreTyped, CyclesAssumption
<1>1. SwitchVector(power) \subseteq Domain
  BY SwitchVectorInVectors, VectorsAreDomains
<1>2. CASE Isolate
  BY <1>1, <1>2 DEF Isolate, TypeOK
<1>3. CASE PowerUp
  BY <1>1, <1>3 DEF PowerUp, TypeOK, TurningOn
<1>4. CASE Settled
  BY <1>1, <1>4 DEF Settled, TypeOK
<1>5. CASE CountDown
  BY <1>5 DEF CountDown, TypeOK
<1>6. CASE SwitchOff
  BY <1>6 DEF SwitchOff, TypeOK
<1>7. CASE Deisolate
  BY <1>7 DEF Deisolate, TypeOK
<1> QED
  BY <1>2, <1>3, <1>4, <1>5, <1>6, <1>7 DEF Sequence

\* One step of the sequencer keeps the target between the clamps and the
\* switches.  Only Isolate and PowerUp choose a target: the first a smaller
\* vector than the powered one, the second a larger.
LEMMA SequenceKeepsTarget ==
  ASSUME SequencerInv, Sequence
  PROVE  TargetInv' /\ NoDeisolatedOffDomain'
<1>1. SwitchVector(power) \in Vectors
  BY SwitchVectorInVectors
<1>2. CASE Isolate
  <2>1. SwitchVector(power) \subseteq sw
    BY <1>1, <1>2 DEF Isolate, TurningOff, SequencerInv, TargetInv, Vectors
  <2>2. open' \subseteq SwitchVector(power)
    BY <1>2 DEF Isolate, TurningOff, SequencerInv, NoDeisolatedOffDomain
  <2> QED
    BY <1>1, <1>2, <2>1, <2>2
    DEF Isolate, SequencerInv, TargetInv, NoDeisolatedOffDomain
<1>3. CASE PowerUp
  <2>1. sw' = SwitchVector(power)
    BY <1>3 DEF PowerUp, TurningOff, TurningOn
  <2> QED
    BY <1>1, <1>3, <2>1
    DEF PowerUp, TurningOn, SequencerInv, TargetInv, NoDeisolatedOffDomain
<1>4. CASE Settled
  BY <1>1, <1>4 DEF Settled, SequencerInv, TargetInv, NoDeisolatedOffDomain
<1>5. CASE CountDown
  BY <1>5 DEF CountDown, SequencerInv, TargetInv, NoDeisolatedOffDomain
<1>6. CASE SwitchOff
  BY <1>6 DEF SwitchOff, SequencerInv, TargetInv, NoDeisolatedOffDomain
<1>7. CASE Deisolate
  BY <1>7 DEF Deisolate, SequencerInv, TargetInv, NoDeisolatedOffDomain
<1> QED
  BY <1>2, <1>3, <1>4, <1>5, <1>6, <1>7 DEF Sequence

\* The monitor, the hold counter and the input keep theirs.
LEMMA MonitorTyped ==
  ASSUME TypeOK, Monitor, HoldStep, InputStep
  PROVE  /\ power' \in PowerState
         /\ sleepSeen' \in BOOLEAN
         /\ restoreSeen' \in BOOLEAN
         /\ hold' \in 0 .. TRANSITION_HOLD
         /\ orderly' \in BOOLEAN
<1>1. power' \in PowerState /\ orderly' \in BOOLEAN
  BY DEF InputStep, TypeOK
<1>2. sleepSeen' \in BOOLEAN /\ restoreSeen' \in BOOLEAN
  BY DEF Monitor, TypeOK
<1>3. hold' \in 0 .. TRANSITION_HOLD
  BY CyclesAssumption DEF HoldStep, TypeOK
<1> QED
  BY <1>1, <1>2, <1>3

LEMMA SequencerInvInit == Init => SequencerInv
<1> SUFFICES ASSUME Init PROVE SequencerInv
  OBVIOUS
<1>1. /\ lastPower \in PowerState /\ power \in PowerState
      /\ seqState \in {"IDLE", "ISO_BEFORE_OFF", "RESTORE_BEFORE_DEISO"}
  BY DEF Init, PowerState
<1>2. seqCount \in Nat /\ hold \in 0 .. TRANSITION_HOLD
  BY CyclesAssumption DEF Init
<1>3. seqTarget \subseteq Domain /\ sw \subseteq Domain /\ open \subseteq Domain
  BY DEF Init
<1>4. /\ pulses \subseteq Pulse
      /\ sleepSeen \in BOOLEAN /\ restoreSeen \in BOOLEAN /\ orderly \in BOOLEAN
  BY DEF Init
<1>5. TargetInv /\ NoDeisolatedOffDomain
  BY DEF Init, TargetInv, NoDeisolatedOffDomain, Vectors
<1> QED
  BY <1>1, <1>2, <1>3, <1>4, <1>5 DEF SequencerInv, TypeOK

LEMMA SequencerInvStep == SequencerInv /\ [Edge]_vars => SequencerInv'
<1> SUFFICES ASSUME SequencerInv, [Edge]_vars PROVE SequencerInv'
  OBVIOUS
<1>1. CASE Edge
  <2>1. TypeOK'
    BY <1>1, SequenceTyped, MonitorTyped DEF Edge, SequencerInv, TypeOK
  <2> QED
    BY <1>1, <2>1, SequenceKeepsTarget DEF Edge, SequencerInv
<1>2. CASE UNCHANGED vars
  BY <1>2
  DEF vars, ctrlVars, monitorVars, SequencerInv, TypeOK, TargetInv, NoDeisolatedOffDomain
<1> QED
  BY <1>1, <1>2

LEMMA SequencerInvHolds == Spec => []SequencerInv
<1> QED
  BY SequencerInvInit, SequencerInvStep, PTL DEF Spec

\* The registers of the sequencer and of its monitor stay in their ranges.
THEOREM PowerTypeCorrect == Spec => []TypeOK
<1>1. SequencerInv => TypeOK
  BY DEF SequencerInv
<1> QED
  BY <1>1, SequencerInvHolds, PTL

\* p_no_deisolated_off_domain, for every length of the two waits: no domain
\* without power is ever left unclamped.
THEOREM ClampsCoverSwitches == Spec => []NoDeisolatedOffDomain
<1>1. SequencerInv => NoDeisolatedOffDomain
  BY DEF SequencerInv
<1> QED
  BY <1>1, SequencerInvHolds, PTL

\* A domain loses its power only while clamped, and loses its clamp only while
\* already powered: the clamp brackets the switch on every edge.
THEOREM ClampsBracketSwitches == Spec => IsolationBrackets
<1>1. SequencerInv /\ [Edge]_vars
        => [(sw \ sw') \cap open = {} /\ (open' \ open) \subseteq sw]_vars
  <2> SUFFICES ASSUME SequencerInv, Edge
               PROVE  (sw \ sw') \cap open = {} /\ (open' \ open) \subseteq sw
    BY DEF vars
  <2>1. CASE Isolate
    BY <2>1 DEF Isolate
  <2>2. CASE PowerUp
    BY <2>2 DEF PowerUp
  <2>3. CASE Settled
    BY <2>3 DEF Settled, TurningOff, TurningOn, SequencerInv, NoDeisolatedOffDomain
  <2>4. CASE CountDown
    BY <2>4 DEF CountDown
  <2>5. CASE SwitchOff
    BY <2>5 DEF SwitchOff, SequencerInv, TargetInv
  <2>6. CASE Deisolate
    BY <2>6 DEF Deisolate, SequencerInv, TargetInv
  <2> QED
    BY <2>1, <2>2, <2>3, <2>4, <2>5, <2>6 DEF Edge, Sequence
<1> QED
  BY <1>1, SequencerInvHolds, PTL DEF Spec, IsolationBrackets

\* Only PowerUp raises restore pulses, and it does so with every switch on.
LEMMA RestoreFindsPower ==
  ASSUME Sequence PROVE SwitchOnBeforeRestore'
<1>1. Saves \cap {"restore_dma_sleep", "restore_dma_mem"} = {}
  BY DEF Saves
<1>2. CASE PowerUp
  <2>1. CASE Restores = {}
    BY <1>1, <1>2, <2>1 DEF PowerUp, SwitchOnBeforeRestore
  <2>2. CASE Restores # {}
    <3>1. SwitchVector(power) = Domain
      BY <2>2 DEF Restores, WakingFromSleep, WakingFromDeep, SwitchVector
    <3> QED
      BY <1>2, <3>1 DEF PowerUp, TurningOn, SwitchOnBeforeRestore, Domain
  <2> QED
    BY <2>1, <2>2
<1>3. CASE ~PowerUp
  BY <1>1, <1>3
  DEF Sequence, Isolate, Settled, CountDown, SwitchOff, Deisolate, SwitchOnBeforeRestore
<1> QED
  BY <1>2, <1>3

\* p_switch_on_before_restore: no restore pulse is spent on a domain that has
\* no power to take the restored values.
THEOREM RestoreIsPowered == Spec => []SwitchOnBeforeRestore
<1>1. Init => SwitchOnBeforeRestore
  BY DEF Init, SwitchOnBeforeRestore
<1>2. SwitchOnBeforeRestore /\ [Edge]_vars => SwitchOnBeforeRestore'
  BY RestoreFindsPower DEF Edge, vars, ctrlVars, SwitchOnBeforeRestore
<1> QED
  BY <1>1, <1>2, PTL DEF Spec

-----------------------------------------------------------------------------
(* Retention under held and orderly changes.  When the hold outlasts both    *)
(* waits, the sequencer is idle whenever a new power state is sampled, so    *)
(* it never has to guess what it is leaving.                                 *)

HoldCoversWaits ==
  /\ TRANSITION_HOLD >= 1
  /\ ISO_BEFORE_OFF_CYCLES <= TRANSITION_HOLD
  /\ RESTORE_BEFORE_DEISO_CYCLES <= TRANSITION_HOLD

\* A change on the wires has been held for, and leaves or enters RUN.
ChangeIsOrderly == power # lastPower => hold = 0 /\ "RUN" \in {power, lastPower}

\* A sequence ends before the hold does, and at what was sampled last.
SequenceIsHeld ==
  seqState # "IDLE" => hold >= 1 /\ seqCount <= hold /\ seqTarget = SwitchVector(lastPower)

ClampsFollow ==
  /\ seqState = "IDLE" => sw = SwitchVector(lastPower) /\ open = sw
  /\ seqState = "ISO_BEFORE_OFF" => open = seqTarget

\* What the monitor and the pulses remember of the last low-power state.
MonitorFollows ==
  /\ lastPower = "SLEEP" => sleepSeen
  /\ "restore_dma_sleep" \in pulses => lastPower = "RUN"
  /\ seqState = "RESTORE_BEFORE_DEISO" /\ "a_dma" \notin open =>
       lastPower = "RUN" /\ (restoreSeen \/ "restore_dma_mem" \in pulses)

Orderly == ChangeIsOrderly /\ SequenceIsHeld /\ ClampsFollow /\ MonitorFollows

RetentionInv == SequencerInv /\ (orderly => Orderly) /\ OrderlyRetention

LEMMA ChangeStaysOrderly ==
  ASSUME SequencerInv, Orderly, Edge, orderly'
  PROVE  ChangeIsOrderly'
BY DEF Edge, InputStep, Held, ChangeIsOrderly

\* An idle sequencer starts with the hold, and both count down together.
LEMMA SequenceStaysHeld ==
  ASSUME HoldCoversWaits, SequencerInv, Orderly, Edge
  PROVE  SequenceIsHeld'
<1> USE CyclesAssumption DEF HoldCoversWaits, SequenceIsHeld, Edge, HoldStep, SequencerInv, TypeOK
<1>1. lastPower' = power
  OBVIOUS
<1>2. ASSUME seqState = "IDLE", SwitchVector(power) # sw
      PROVE  hold = 0 /\ power # lastPower
  BY <1>2 DEF Orderly, ClampsFollow, ChangeIsOrderly
<1>3. ASSUME seqState # "IDLE"
      PROVE  hold >= 1 /\ seqCount <= hold /\ seqTarget = SwitchVector(power)
  BY <1>3 DEF Orderly, ChangeIsOrderly
<1>4. CASE Isolate
  <2>1. hold' = TRANSITION_HOLD
    BY <1>2, <1>4 DEF Isolate, TurningOff
  <2> QED BY <1>1, <1>4, <2>1 DEF Isolate
<1>5. CASE PowerUp
  <2>1. hold' = TRANSITION_HOLD
    BY <1>2, <1>5 DEF PowerUp, TurningOn
  <2> QED BY <1>1, <1>5, <2>1 DEF PowerUp
<1>6. CASE Settled
  BY <1>6 DEF Settled
<1>7. CASE CountDown
  BY <1>1, <1>3, <1>7 DEF CountDown
<1>8. CASE SwitchOff \/ Deisolate
  BY <1>8 DEF SwitchOff, Deisolate
<1> QED BY <1>4, <1>5, <1>6, <1>7, <1>8 DEF Sequence

LEMMA ClampsStillFollow ==
  ASSUME SequencerInv, Orderly, Edge
  PROVE  ClampsFollow'
<1> USE DEF ClampsFollow, Edge
<1>1. SwitchVector(power) \in Vectors /\ sw \in Vectors
  BY SwitchVectorInVectors DEF SequencerInv, TargetInv
<1>2. seqState # "IDLE" => seqTarget = SwitchVector(power)
  BY DEF Orderly, SequenceIsHeld, ChangeIsOrderly, SequencerInv, TypeOK
<1>3. CASE Isolate
  <2>1. SwitchVector(power) \subseteq sw
    BY <1>1, <1>3 DEF Isolate, TurningOff, Vectors
  <2>2. open = sw
    BY <1>3 DEF Isolate, Orderly
  <2>3. open' = SwitchVector(power)
    BY <1>3, <2>1, <2>2 DEF Isolate, TurningOff
  <2> QED BY <1>3, <2>3 DEF Isolate
<1>4. CASE PowerUp
  BY <1>4 DEF PowerUp
<1>5. CASE Settled
  BY <1>5 DEF Settled
<1>6. CASE CountDown
  BY <1>6 DEF CountDown, Orderly
<1>7. CASE SwitchOff
  BY <1>2, <1>7 DEF SwitchOff
<1>8. CASE Deisolate
  BY <1>2, <1>8 DEF Deisolate, SequencerInv, TargetInv
<1> QED BY <1>3, <1>4, <1>5, <1>6, <1>7, <1>8 DEF Sequence

\* A power-up of the DMA domain is a wake to RUN, and restores.
LEMMA WakesRestore ==
  ASSUME SequencerInv, Orderly, PowerUp
  PROVE  /\ "restore_dma_sleep" \in pulses' => lastPower = "SLEEP" /\ power = "RUN"
         /\ Restores # {} => open' = {} /\ power = "RUN"
         /\ "a_dma" \notin open' => power = "RUN" /\ "restore_dma_mem" \in pulses'
<1> USE DEF PowerUp
<1>1. open' = SwitchVector(lastPower) /\ pulses' = Saves \cup Restores
  BY DEF Orderly, ClampsFollow
<1>2. power \in PowerState /\ lastPower \in PowerState
  BY DEF SequencerInv, TypeOK
<1>3. SwitchVector(power) # SwitchVector(lastPower)
  BY DEF Orderly, ClampsFollow, TurningOff, TurningOn
<1>4. power # lastPower /\ "RUN" \in {power, lastPower}
  BY <1>3 DEF Orderly, ChangeIsOrderly
<1>5. "restore_dma_sleep" \in pulses' => lastPower = "SLEEP" /\ power = "RUN"
  BY <1>1 DEF Saves, Restores, WakingFromSleep
<1>6. Restores # {} => lastPower \in {"SLEEP", "DEEP_SLEEP"} /\ power = "RUN"
  BY DEF Restores, WakingFromSleep, WakingFromDeep
<1>7. Restores # {} => open' = {}
  BY <1>1, <1>6 DEF SwitchVector
<1>8. ASSUME "a_dma" \notin open'
      PROVE  power = "RUN" /\ "restore_dma_mem" \in pulses'
  <2>1. lastPower \in {"SLEEP", "DEEP_SLEEP"}
    BY <1>1, <1>2, <1>8 DEF SwitchVector, Domain, PowerState
  <2>2. power = "RUN"
    BY <1>4, <2>1
  <2> QED BY <1>1, <2>1, <2>2 DEF Restores, WakingFromSleep, WakingFromDeep
<1> QED BY <1>5, <1>6, <1>7, <1>8

LEMMA MonitorStillFollows ==
  ASSUME SequencerInv, Orderly, Edge
  PROVE  MonitorFollows'
<1> USE DEF Edge
<1>1. lastPower' = power
  OBVIOUS
<1>2. power = "SLEEP" => sleepSeen'
  BY DEF Monitor
<1>3. "restore_dma_sleep" \in pulses' => power = "RUN"
  <2>1. "restore_dma_sleep" \notin Saves
    BY DEF Saves
  <2>2. CASE PowerUp
    BY <2>2, WakesRestore
  <2> QED
    BY <2>1, <2>2 DEF Sequence, Isolate, Settled, CountDown, SwitchOff, Deisolate
<1>4. ASSUME seqState' = "RESTORE_BEFORE_DEISO", "a_dma" \notin open'
      PROVE  power = "RUN" /\ (restoreSeen' \/ "restore_dma_mem" \in pulses')
  <2>1. CASE PowerUp
    BY <1>4, <2>1, WakesRestore
  <2>2. CASE ~PowerUp
    <3>1. CountDown /\ seqState = "RESTORE_BEFORE_DEISO" /\ "a_dma" \notin open
      BY <1>4, <2>2 DEF Sequence, Isolate, Settled, CountDown, SwitchOff, Deisolate
    <3>2. hold >= 1 /\ lastPower = "RUN" /\ (restoreSeen \/ "restore_dma_mem" \in pulses)
      BY <3>1 DEF Orderly, SequenceIsHeld, MonitorFollows
    <3>3. power = "RUN"
      BY <3>2 DEF Orderly, ChangeIsOrderly
    <3> QED BY <3>2, <3>3 DEF Monitor
  <2> QED BY <2>1, <2>2
<1> QED BY <1>1, <1>2, <1>3, <1>4 DEF MonitorFollows

LEMMA RetentionStaysOrderly ==
  ASSUME HoldCoversWaits, SequencerInv, Orderly, Edge, orderly'
  PROVE  OrderlyRetention'
<1> USE DEF Edge
<1>1. ASSUME Saves # {} PROVE "a_dma" \in sw'
  <2>1. lastPower = "RUN" /\ power \in {"SLEEP", "DEEP_SLEEP"}
    BY <1>1 DEF Saves, EnteringSleep, EnteringDeepSleep, Orderly, ChangeIsOrderly
  <2>2. seqState = "IDLE"
    BY <2>1 DEF Orderly, ChangeIsOrderly, SequenceIsHeld
  <2>3. sw = Domain /\ SwitchVector(power) = {}
    BY <2>1, <2>2 DEF Orderly, ClampsFollow, SwitchVector
  <2>4. TurningOff = Domain
    BY <2>3 DEF TurningOff
  <2>5. Isolate
    BY <2>2, <2>4 DEF Sequence, PowerUp, Settled, CountDown, SwitchOff, Deisolate, Domain
  <2> QED BY <2>3, <2>5 DEF Isolate, Domain
<1>2. pulses' = Saves \/ (PowerUp /\ pulses' = Saves \cup Restores)
  BY DEF Sequence, Isolate, PowerUp, Settled, CountDown, SwitchOff, Deisolate
<1>3. Saves \subseteq {"save_dma_sleep", "save_dma_mem"}
  BY DEF Saves
<1>4. Restores \subseteq {"restore_dma_sleep", "restore_dma_mem"}
  BY DEF Restores
<1>5. pulses' \cap {"save_dma_sleep", "save_dma_mem"} # {} => "a_dma" \in sw'
  BY <1>1, <1>2, <1>4
<1>6. pulses' \cap {"restore_dma_sleep", "restore_dma_mem"} # {} => "a_dma" \notin open'
  BY <1>2, <1>3, WakesRestore
<1>7. ASSUME "restore_dma_sleep" \in pulses' PROVE sleepSeen' /\ power' = "RUN"
  <2>1. PowerUp
    BY <1>2, <1>3, <1>7
  <2>2. lastPower = "SLEEP" /\ power = "RUN"
    BY <1>7, <2>1, WakesRestore
  <2>3. sleepSeen /\ "restore_dma_sleep" \notin pulses
    BY <2>2 DEF Orderly, MonitorFollows
  <2>4. sleepSeen'
    BY <2>2, <2>3 DEF Monitor
  <2>5. hold' = TRANSITION_HOLD
    BY <2>2 DEF HoldStep, Orderly, ChangeIsOrderly
  <2>6. power' # power => Held
    BY Zenon DEF InputStep
  <2>7. power' = power
    BY <2>5, <2>6, CyclesAssumption DEF Held, HoldCoversWaits
  <2> QED BY <2>2, <2>4, <2>7
<1> QED BY <1>5, <1>6, <1>7 DEF OrderlyRetention

LEMMA RetentionInvInit == Init => RetentionInv
<1> SUFFICES ASSUME Init PROVE RetentionInv
  OBVIOUS
<1>1. SequencerInv
  BY SequencerInvInit
<1>2. Orderly
  BY DEF Init, Orderly, ChangeIsOrderly, SequenceIsHeld, ClampsFollow, MonitorFollows, SwitchVector
<1>3. OrderlyRetention
  BY DEF Init, OrderlyRetention
<1> QED BY <1>1, <1>2, <1>3 DEF RetentionInv

LEMMA RetentionInvStep ==
  ASSUME HoldCoversWaits, RetentionInv, [Edge]_vars
  PROVE  RetentionInv'
<1>1. SequencerInv'
  BY SequencerInvStep DEF RetentionInv
<1>2. CASE Edge
  <2>1. orderly' => orderly
    BY <1>2 DEF Edge, InputStep
  <2>2. CASE orderly'
    BY <1>1, <1>2, <2>1, <2>2, ChangeStaysOrderly, SequenceStaysHeld, ClampsStillFollow,
       MonitorStillFollows, RetentionStaysOrderly
    DEF RetentionInv, Orderly
  <2>3. CASE ~orderly'
    BY <1>1, <2>3 DEF RetentionInv, OrderlyRetention
  <2> QED BY <2>2, <2>3
<1>3. CASE UNCHANGED vars
  BY <1>1, <1>3
  DEF vars, ctrlVars, monitorVars, RetentionInv, Orderly, ChangeIsOrderly, SequenceIsHeld,
      ClampsFollow, MonitorFollows, OrderlyRetention
<1> QED BY <1>2, <1>3

\* With a hold as long as both waits, as formal_power has it, and changes that
\* leave or enter RUN, the context is saved from a powered domain and given
\* back to an isolated one, after a SLEEP and in RUN.
THEOREM RetentionIsOrderly ==
  ASSUME HoldCoversWaits
  PROVE  Spec => []OrderlyRetention
<1>1. Init => RetentionInv
  BY RetentionInvInit
<1>2. RetentionInv /\ [Edge]_vars => RetentionInv'
  BY RetentionInvStep
<1>3. RetentionInv => OrderlyRetention
  BY DEF RetentionInv
<1> QED BY <1>1, <1>2, <1>3, PTL DEF Spec

\* Under the same hold the DMA domain is never unclamped after a low-power
\* state before a restore pulse: what p_restore_before_deiso promises, once
\* wakes through CRYPTO_ONLY are left out.
THEOREM RestorePrecedesDeisolation ==
  ASSUME HoldCoversWaits
  PROVE  Spec => OrderlyRestore
<1>1. Init => RetentionInv
  BY RetentionInvInit
<1>2. RetentionInv /\ [Edge]_vars => RetentionInv'
  BY RetentionInvStep
<1> DEFINE Restored ==
      orderly' /\ (open' \ open) \cap {"a_dma"} # {}
        => restoreSeen' \/ pulses' \cap {"restore_dma_sleep", "restore_dma_mem"} # {}
<1>3. RetentionInv /\ [Edge]_vars => [Restored]_vars
  <2> SUFFICES ASSUME RetentionInv, Edge, orderly', (open' \ open) \cap {"a_dma"} # {}
               PROVE  restoreSeen'
    OBVIOUS
  <2>1. SequencerInv /\ Orderly /\ "a_dma" \in open' /\ "a_dma" \notin open
    BY DEF RetentionInv, Edge, InputStep
  <2>2. Deisolate
    <3>1. ~Isolate /\ ~PowerUp /\ ~CountDown
      BY <2>1 DEF Isolate, PowerUp, CountDown
    <3>2. ~Settled
      BY <2>1 DEF Settled, TurningOff, TurningOn, Orderly, ClampsFollow
    <3>3. ~SwitchOff
      BY <2>1 DEF SwitchOff, Orderly, ClampsFollow
    <3> QED BY <3>1, <3>2, <3>3 DEF Edge, Sequence
  <2>3. /\ seqState = "RESTORE_BEFORE_DEISO" /\ lastPower = "RUN" /\ hold >= 1
        /\ restoreSeen \/ "restore_dma_mem" \in pulses
    BY <2>1, <2>2 DEF Deisolate, Orderly, SequenceIsHeld, MonitorFollows
  <2>4. power = "RUN"
    BY <2>1, <2>3 DEF Orderly, ChangeIsOrderly
  <2> QED BY <2>3, <2>4 DEF Edge, Monitor
<1> QED BY <1>1, <1>2, <1>3, PTL DEF Spec, OrderlyRestore
=============================================================================
