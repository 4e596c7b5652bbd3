----------------------------- MODULE PowerCtrl -----------------------------
(***************************************************************************)
(* chiplet_power_ctrl: the sequencer that drives the power switches, the   *)
(* isolation clamps and the retention pulses of the six switchable domains *)
(* from the two power_state wires, with the monitor registers of           *)
(* tb_power_ctrl_props beside it.                                          *)
(*                                                                         *)
(* One step is one clock edge.  power is the input as the edge samples it; *)
(* every step picks its next value.                                        *)
(***************************************************************************)
EXTENDS Integers

CONSTANTS
  ISO_BEFORE_OFF_CYCLES,       \* cycles between isolation and switch-off
  RESTORE_BEFORE_DEISO_CYCLES, \* cycles between switch-on and de-isolation
  TRANSITION_HOLD              \* edges formal_power holds a new power state for, after the first

ASSUME CyclesAssumption ==
  /\ ISO_BEFORE_OFF_CYCLES \in Nat
  /\ RESTORE_BEFORE_DEISO_CYCLES \in Nat
  /\ TRANSITION_HOLD \in Nat

VARIABLES
  power,         \* power_state
  lastPower,     \* power_state_q
  seqState,      \* seq_state_q
  seqTarget,     \* seq_target_sw_q, as the set of domains it switches on
  seqCount,      \* seq_count_q
  sw,            \* sw_q, the domains switched on
  open,          \* iso_n_q, the domains not isolated
  pulses,        \* save_dma_sleep, restore_dma_sleep, save_dma_mem, restore_dma_mem
  sleepSeen,     \* sleep_seen_q of the monitor
  restoreSeen,   \* restore_any_seen_q of the monitor
  hold,          \* transition_hold of formal_power
  orderly        \* power has only changed after hold, and always from or to RUN

ctrlVars == <<lastPower, seqState, seqTarget, seqCount, sw, open, pulses>>
monitorVars == <<sleepSeen, restoreSeen, hold, orderly>>
vars == <<power, ctrlVars, monitorVars>>

-----------------------------------------------------------------------------
PowerState == {"RUN", "CRYPTO_ONLY", "SLEEP", "DEEP_SLEEP"}

Domain == {"a_traffic", "a_dma", "a_link", "b_crypto", "b_link", "channel"}

Pulse == {"save_dma_sleep", "restore_dma_sleep", "save_dma_mem", "restore_dma_mem"}

SwitchVector(p) ==
  IF p = "RUN" THEN Domain
  ELSE IF p = "CRYPTO_ONLY" THEN Domain \ {"a_traffic"}
  ELSE {}

TurningOff == sw \ SwitchVector(power)
TurningOn == SwitchVector(power) \ sw

\* Mutant of EnteringSleep: the level, not the edge.
SleepLevel == power = "SLEEP"

EnteringSleep == lastPower # "SLEEP" /\ power = "SLEEP"
EnteringDeepSleep == lastPower \notin {"SLEEP", "DEEP_SLEEP"} /\ power = "DEEP_SLEEP"
WakingFromSleep == lastPower = "SLEEP" /\ power = "RUN"
WakingFromDeep == lastPower = "DEEP_SLEEP" /\ power = "RUN"

\* Mutant of Restores: the memories are only restored after SLEEP.
RestoresSleepOnly == IF WakingFromSleep THEN {"restore_dma_sleep", "restore_dma_mem"} ELSE {}

Restores == IF WakingFromSleep THEN {"restore_dma_sleep", "restore_dma_mem"}
            ELSE IF WakingFromDeep THEN {"restore_dma_mem"}
            ELSE {}

\* Mutant of Saves: the restore pulses do not wait for the sequencer either.
PulsesAnyTime == IF EnteringSleep THEN {"save_dma_sleep", "save_dma_mem"}
                 ELSE IF EnteringDeepSleep THEN {"save_dma_mem"}
                 ELSE Restores

Saves == IF EnteringSleep THEN {"save_dma_sleep", "save_dma_mem"}
         ELSE IF EnteringDeepSleep THEN {"save_dma_mem"}
         ELSE {}

-----------------------------------------------------------------------------
\* The cases of the sequencer.  Only PowerUp raises restore pulses: a wake
\* that arrives while the sequencer is busy raises none.

\* Mutant of Isolate: the switch goes first, the clamp with the next step.
SwitchBeforeIsolate ==
  /\ seqState = "IDLE" /\ TurningOff # {}
  /\ sw' = sw \ TurningOff
  /\ seqState' = "ISO_BEFORE_OFF" /\ seqCount' = ISO_BEFORE_OFF_CYCLES
  /\ seqTarget' = SwitchVector(power)
  /\ pulses' = Saves
  /\ UNCHANGED open

Isolate ==
  /\ seqState = "IDLE" /\ TurningOff # {}
  /\ open' = open \ TurningOff
  /\ seqState' = "ISO_BEFORE_OFF" /\ seqCount' = ISO_BEFORE_OFF_CYCLES
  /\ seqTarget' = SwitchVector(power)
  /\ pulses' = Saves
  /\ UNCHANGED sw

PowerUp ==
  /\ seqState = "IDLE" /\ TurningOff = {} /\ TurningOn # {}
  /\ sw' = sw \cup TurningOn
  /\ seqState' = "RESTORE_BEFORE_DEISO" /\ seqCount' = RESTORE_BEFORE_DEISO_CYCLES
  /\ seqTarget' = SwitchVector(power)
  /\ pulses' = Saves \cup Restores
  /\ UNCHANGED open

Settled ==
  /\ seqState = "IDLE" /\ TurningOff = {} /\ TurningOn = {}
  /\ sw' = SwitchVector(power) /\ open' = SwitchVector(power)
  /\ seqTarget' = SwitchVector(power)
  /\ pulses' = Saves
  /\ UNCHANGED <<seqState, seqCount>>

\* Mutant of CountDown: the count is not compared.
CountsPastZero ==
  /\ seqState # "IDLE"
  /\ seqCount' = seqCount - 1
  /\ pulses' = Saves
  /\ UNCHANGED <<seqState, seqTarget, sw, open>>

CountDown ==
  /\ seqState # "IDLE" /\ seqCount > 1
  /\ seqCount' = seqCount - 1
  /\ pulses' = Saves
  /\ UNCHANGED <<seqState, seqTarget, sw, open>>

\* Mutant of SwitchOff: the state of this edge is taken, not the recorded one.
SwitchToInput ==
  /\ seqState = "ISO_BEFORE_OFF" /\ seqCount <= 1
  /\ sw' = SwitchVector(power) /\ open' = SwitchVector(power)
  /\ seqState' = "IDLE" /\ seqCount' = 0
  /\ pulses' = Saves
  /\ UNCHANGED seqTarget

SwitchOff ==
  /\ seqState = "ISO_BEFORE_OFF" /\ seqCount <= 1
  /\ sw' = seqTarget /\ open' = seqTarget
  /\ seqState' = "IDLE" /\ seqCount' = 0
  /\ pulses' = Saves
  /\ UNCHANGED seqTarget

\* Mutant of Deisolate: the sequencer does not go back to idle.
DeisolateAndStay ==
  /\ seqState = "RESTORE_BEFORE_DEISO" /\ seqCount <= 1
  /\ open' = seqTarget
  /\ seqCount' = 0
  /\ pulses' = Saves
  /\ UNCHANGED <<sw, seqState, seqTarget>>

Deisolate ==
  /\ seqState = "RESTORE_BEFORE_DEISO" /\ seqCount <= 1
  /\ open' = seqTarget
  /\ seqState' = "IDLE" /\ seqCount' = 0
  /\ pulses' = Saves
  /\ UNCHANGED <<sw, seqTarget>>

Sequence == Isolate \/ PowerUp \/ Settled \/ CountDown \/ SwitchOff \/ Deisolate

-----------------------------------------------------------------------------
\* The monitor's registers: what has been seen since the last low-power state.
Monitor ==
  IF power = "SLEEP"
    THEN sleepSeen' = TRUE /\ restoreSeen' = FALSE
  ELSE IF power = "DEEP_SLEEP"
    THEN restoreSeen' = FALSE /\ UNCHANGED sleepSeen
  ELSE IF "restore_dma_sleep" \in pulses
    THEN sleepSeen' = FALSE /\ restoreSeen' = TRUE
  ELSE IF "restore_dma_mem" \in pulses
    THEN restoreSeen' = TRUE /\ UNCHANGED sleepSeen
  ELSE UNCHANGED <<sleepSeen, restoreSeen>>

\* formal_power counts from the edge that first sees a new power state.
HoldStep == hold' = IF hold # 0 THEN hold - 1
                    ELSE IF power # lastPower THEN TRANSITION_HOLD
                    ELSE 0

\* power' differs from power: the new value has been on the wires for no edge
\* yet, so the old one must have been sampled for the whole hold.
Held == hold' = 0

InputStep ==
  /\ power' \in PowerState
  /\ orderly' = (orderly /\ (power' # power => Held /\ "RUN" \in {power, power'}))

Edge == Sequence /\ lastPower' = power /\ Monitor /\ HoldStep /\ InputStep

Init ==
  /\ power \in PowerState /\ lastPower = "RUN"
  /\ seqState = "IDLE" /\ seqTarget = Domain /\ seqCount = 0
  /\ sw = Domain /\ open = Domain /\ pulses = {}
  /\ sleepSeen = FALSE /\ restoreSeen = FALSE
  /\ hold = 0 /\ orderly = TRUE

\* The clock runs: while the power state stays, the edges still come.
Spec == Init /\ [][Edge]_vars /\ WF_vars(Edge /\ UNCHANGED power)

\* Software that keeps every power state for the hold, as formal_power assumes.
HeldEdge == Edge /\ (power' # power => Held)

HeldSpec == Init /\ [][HeldEdge]_vars /\ WF_vars(Edge /\ UNCHANGED power)

-----------------------------------------------------------------------------
TypeOK ==
  /\ power \in PowerState
  /\ lastPower \in PowerState
  /\ seqState \in {"IDLE", "ISO_BEFORE_OFF", "RESTORE_BEFORE_DEISO"}
  /\ seqTarget \subseteq Domain
  /\ seqCount \in Nat
  /\ sw \subseteq Domain
  /\ open \subseteq Domain
  /\ pulses \subseteq Pulse
  /\ sleepSeen \in BOOLEAN
  /\ restoreSeen \in BOOLEAN
  /\ hold \in 0 .. TRANSITION_HOLD
  /\ orderly \in BOOLEAN

\* p_no_deisolated_off_domain: no domain whose switch is off is de-isolated.
NoDeisolatedOffDomain == open \subseteq sw

\* p_iso_before_switch_off, and its mirror image: a domain is isolated in the
\* cycle before it is switched off, and switched on in the cycle before it is
\* de-isolated, however the power state moves while the sequencer is busy.
IsolationBrackets ==
  [][(sw \ sw') \cap open = {} /\ (open' \ open) \subseteq sw]_vars

\* p_switch_on_before_restore: a restore pulse finds the domain powered.
SwitchOnBeforeRestore ==
  pulses \cap {"restore_dma_sleep", "restore_dma_mem"} # {} => "a_dma" \in sw

\* p_restore_before_deiso: the DMA domain is de-isolated after a low-power
\* state only once its context or its memories have been restored.
RestoreBeforeDeiso ==
  [][(open' \ open) \cap {"a_dma"} # {}
       => restoreSeen' \/ pulses' \cap {"restore_dma_sleep", "restore_dma_mem"} # {}]_vars

\* It holds as long as every change of the power state is held and leaves or
\* enters RUN.
OrderlyRestore ==
  [][orderly' /\ (open' \ open) \cap {"a_dma"} # {}
       => restoreSeen' \/ pulses' \cap {"restore_dma_sleep", "restore_dma_mem"} # {}]_vars

\* The retention registers save the DMA context only while its domain is
\* still powered, they give a context or the memories back only into a domain
\* that is still isolated, and p_sleep_restore_only_after_sleep: the context
\* only in RUN after a SLEEP.
OrderlyRetention ==
  orderly =>
    /\ pulses \cap {"save_dma_sleep", "save_dma_mem"} # {} => "a_dma" \in sw
    /\ pulses \cap {"restore_dma_sleep", "restore_dma_mem"} # {} => "a_dma" \notin open
    /\ "restore_dma_sleep" \in pulses => sleepSeen /\ power = "RUN"

\* A power state that stays is reached: switches and clamps end up as its
\* switch vector says, whatever the sequencer was doing before.
Reaches ==
  \A p \in PowerState :
    <>[](power = p) => <>[](sw = SwitchVector(p) /\ open = SwitchVector(p))
=============================================================================
