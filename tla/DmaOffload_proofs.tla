------------------------- MODULE DmaOffload_proofs --------------------------
(***************************************************************************)
(* The engine of dma_offload_ctrl keeps its registers consistent, and the  *)
(* whole block implements DmaQueues, for every ring depth, every set of    *)
(* descriptors and every timeout.                                          *)
(***************************************************************************)
EXTENDS DmaOffload, DmaRings_proofs

-----------------------------------------------------------------------------
\* The command as the rings see it: an acknowledgement does not touch them.
RingSide(c) == IF c.op = "ack" THEN [op |-> "idle"] ELSE c

LEMMA CommandStages ==
  ASSUME NEW c \in Command
  PROVE  /\ c.op = "stage" => c.desc \in Staging
         /\ RingSide(c) \in RingCommand
         /\ RingSide(c).op = "softReset" <=> c.op = "softReset"
BY DEF Command, RingCommand, RingSide

LEMMA SameRings ==
  ASSUME NEW c \in Command, NEW p, NEW launch, NEW fin
  PROVE  RingsStep(c, p, launch, fin) => Queues!RingsStep(RingSide(c), p, launch, fin)
<1> DEFINE d == RingSide(c)
<1>1. /\ d.op = "start" <=> c.op = "start"
      /\ d.op = "pop" <=> c.op = "pop"
      /\ d.op = "stage" <=> c.op = "stage"
      /\ d.op = "stage" => d = c
  BY DEF Command, RingCommand, RingSide
<1>2. Queues!SubmitError(p) = SubmitError(p)
  BY DEF SubmitError, Queues!SubmitError, StagedSum, Queues!StagedSum, SubmitFull, Queues!SubmitFull
<1>3. /\ Queues!Accepts(d, p) <=> Accepts(c, p)
      /\ Queues!Rejects(d, p) <=> Rejects(c, p)
      /\ Queues!Pops(d) <=> Pops(c)
      /\ Queues!RejectRecord(p) = RejectRecord(p)
      /\ Queues!CompFull <=> CompFull
  BY <1>1, <1>2 DEF Accepts, Queues!Accepts, Rejects, Queues!Rejects, Pops, Queues!Pops,
     RejectRecord, Queues!RejectRecord, CompEmpty, Queues!CompEmpty, CompFull, Queues!CompFull
<1>4. Queues!NoRecord = NoRecord
  BY DEF NoRecord, Queues!NoRecord
<1>5. Queues!Pushes(d, p, fin) <=> Pushes(c, p, fin)
  BY <1>3, <1>4 DEF Pushes, Queues!Pushes
<1>6. StagingStep(c) => Queues!StagingStep(d)
  BY <1>1 DEF StagingStep, Queues!StagingStep
<1>7. SubmitStep(c, p, launch) => Queues!SubmitStep(d, p, launch)
  BY <1>3 DEF SubmitStep, Queues!SubmitStep, NextPtr, Queues!NextPtr
<1>8. CompStep(c, p, fin) => Queues!CompStep(d, p, fin)
  BY <1>3, <1>4, <1>5 DEF CompStep, Queues!CompStep, NextPtr, Queues!NextPtr
<1>9. OverflowStep(c, p) => Queues!OverflowStep(d, p)
  BY <1>3 DEF OverflowStep, Queues!OverflowStep
<1> QED BY <1>6, <1>7, <1>8, <1>9 DEF RingsStep, Queues!RingsStep

-----------------------------------------------------------------------------
\* The inductive invariant: the registers are consistent, and what the engine
\* runs or can reach in the submit ring was let through by a doorbell.
OffloadInv ==
  /\ TypeOK
  /\ EngineConsistent
  /\ LegalSlots
  /\ busy => Legal(active)

LEMMA ResetRecord == NoRecord \in Record /\ ResetDescriptor \in Descriptor
BY ResetTypes

LEMMA DescriptorFields ==
  ASSUME NEW d \in Descriptor
  PROVE  d.tag \in Nat /\ d.len \in Nat
BY StagingAssumption, DepthAssumption DEF Descriptor, ResetDescriptor

\* Every operating edge steps the rings, so what holds of the rings and the
\* interrupt bits needs no look at the engine.
LEMMA QueueStepInv ==
  ASSUME OffloadInv, NEW c \in Command, NEW p \in PowerState, NEW launch \in BOOLEAN,
         NEW fin \in Record, launch => ~SubmitEmpty, fin # NoRecord => ~CompFull,
         QueueStep(c, p, launch, fin)
  PROVE  RingsTypeOK' /\ LegalSlots' /\ irqStatus' \subseteq IrqBit
<1>1. RingsTypeOK /\ LegalSlots /\ irqStatus \subseteq IrqBit
  BY DEF OffloadInv, TypeOK
<1>2. RingsStep(c, p, launch, fin) /\ IrqStep(c, p, fin)
  BY DEF QueueStep
<1>3. RingsTypeOK'
  BY <1>1, <1>2, CommandStages, RingsStepType
<1>4. LegalSlots'
  BY <1>1, <1>2, LegalSlotsStep DEF RingsStep
<1>5. irqStatus' \subseteq IrqBit
  BY <1>1, <1>2 DEF IrqStep, IrqOf, IrqBit
<1> QED BY <1>3, <1>4, <1>5

LEMMA EngineClearInv ==
  ASSUME EngineClear, RingsTypeOK', LegalSlots', irqStatus' \subseteq IrqBit
  PROVE  OffloadInv'
<1>1. TypeOK'
  <2>1. busy' \in BOOLEAN /\ stalled' \in BOOLEAN /\ state' \in EngineState
    BY DEF EngineClear, EngineState
  <2>2. active' \in Descriptor /\ retire' \in Record
    BY ResetRecord DEF EngineClear
  <2>3. send' \in Nat /\ recv' \in Nat /\ timeout' \in 0 .. DMA_TIMEOUT_CYCLES
    BY TimeoutAssumption DEF EngineClear
  <2> QED BY <2>1, <2>2, <2>3 DEF TypeOK
<1>2. EngineConsistent'
  BY DEF EngineClear, EngineConsistent
<1> QED BY <1>1, <1>2 DEF OffloadInv, EngineClear

\* The engine's registers while a descriptor runs, with the rings stepped.
LEMMA RunningInv ==
  ASSUME OffloadInv, RingsTypeOK', LegalSlots', irqStatus' \subseteq IrqBit,
         busy, ~stalled, UNCHANGED <<busy, active, stalled, retire>>,
         send' \in Nat, recv' \in Nat, timeout' \in 0 .. DMA_TIMEOUT_CYCLES,
         recv' < active.len,
         \/ state' = "SEND" /\ send' < active.len
         \/ state' = "WAIT_RETURN" /\ send' = active.len
  PROVE  OffloadInv'
<1>1. TypeOK'
  BY DEF OffloadInv, TypeOK, EngineState
<1>2. EngineConsistent'
  BY DEF OffloadInv, EngineConsistent
<1>3. busy' => Legal(active)'
  BY DEF OffloadInv, Legal, Passes
<1> QED BY <1>1, <1>2, <1>3 DEF OffloadInv

\* A descriptor ends: its record enters the completion ring, or waits.
LEMMA ConcludeInv ==
  ASSUME OffloadInv, NEW c \in Command, NEW p \in PowerState, busy, ~stalled,
         NEW r \in Record, r # NoRecord, NEW sent \in Nat, NEW received \in Nat,
         NEW time \in 0 .. DMA_TIMEOUT_CYCLES,
         r.words = received, r.status = "SUCCESS" <=> received = active.len,
         Conclude(c, p, r, sent, received, time)
  PROVE  OffloadInv'
<1>1. CASE ~CompFull
  <2>1. EngineClear /\ QueueStep(c, p, FALSE, r)
    BY <1>1 DEF Conclude
  <2>2. RingsTypeOK' /\ LegalSlots' /\ irqStatus' \subseteq IrqBit
    BY <1>1, <2>1, QueueStepInv
  <2> QED BY <2>1, <2>2, EngineClearInv
<1>2. CASE CompFull
  <2>1. /\ state' = "RETIRE_STALL" /\ stalled' = TRUE /\ retire' = r
        /\ send' = sent /\ recv' = received /\ timeout' = time
        /\ UNCHANGED <<busy, active>>
        /\ QueueStep(c, p, FALSE, NoRecord)
    BY <1>2 DEF Conclude
  <2>2. RingsTypeOK' /\ LegalSlots' /\ irqStatus' \subseteq IrqBit
    BY <2>1, ResetRecord, QueueStepInv
  <2>3. TypeOK'
    BY <2>1, <2>2 DEF OffloadInv, TypeOK, EngineState
  <2>4. EngineConsistent'
    BY <2>1 DEF OffloadInv, EngineConsistent
  <2>5. busy' => Legal(active)'
    BY <2>1 DEF OffloadInv, Legal, Passes
  <2> QED BY <2>2, <2>3, <2>4, <2>5 DEF OffloadInv
<1> QED BY <1>1, <1>2

LEMMA ElapsedType ==
  ASSUME timeout \in 0 .. DMA_TIMEOUT_CYCLES, NEW rx
  PROVE  Elapsed(rx) \in 0 .. DMA_TIMEOUT_CYCLES
BY TimeoutAssumption DEF Elapsed

-----------------------------------------------------------------------------
\* The record each way of ending a descriptor leaves, with the facts both the
\* invariant and the refinement need of it.
Ends(r, received) ==
  /\ r \in Record /\ r # NoRecord
  /\ r.words = received /\ (r.status = "SUCCESS" <=> received = active.len)
  /\ r \in Queues!Outcome(active)

LEMMA ErrorEnds ==
  ASSUME OffloadInv, state \in {"LAUNCH", "SEND", "WAIT_RETURN"}, NEW err \in RuntimeError
  PROVE  Ends(Completion("RUNTIME_ERROR", err, recv), recv)
<1> DEFINE r == Completion("RUNTIME_ERROR", err, recv)
<1>1. /\ active.tag \in Nat /\ active.len \in Nat
      /\ recv \in Nat /\ recv < active.len
  BY DescriptorFields DEF OffloadInv, TypeOK, EngineConsistent
<1>2. r \in Record /\ r # NoRecord
  BY <1>1, ErrorAssumption DEF Completion, Record, NoRecord
<1>3. r.words = recv /\ (r.status = "SUCCESS" <=> recv = active.len)
  BY <1>1 DEF Completion
<1>4. r = Queues!Completion(active, "RUNTIME_ERROR", err, recv) /\ recv \in 0 .. active.len - 1
  BY <1>1 DEF Completion, Queues!Completion
<1>5. r \in Queues!Outcome(active)
  BY <1>4 DEF Queues!Outcome
<1> QED BY <1>2, <1>3, <1>5 DEF Ends

LEMMA SuccessEnds ==
  ASSUME OffloadInv, state \in {"SEND", "WAIT_RETURN"}, recv + 1 >= active.len
  PROVE  Ends(Completion("SUCCESS", "NONE", recv + 1), recv + 1)
<1> DEFINE r == Completion("SUCCESS", "NONE", recv + 1)
<1>1. /\ active.tag \in Nat /\ active.len \in Nat
      /\ recv \in Nat /\ recv + 1 = active.len
  BY DescriptorFields DEF OffloadInv, TypeOK, EngineConsistent
<1>2. r \in Record /\ r # NoRecord
  BY <1>1 DEF Completion, Record, NoRecord
<1>3. r.words = recv + 1 /\ (r.status = "SUCCESS" <=> recv + 1 = active.len)
  BY <1>1 DEF Completion
<1>4. r = Queues!Completion(active, "SUCCESS", "NONE", active.len)
  BY <1>1 DEF Completion, Queues!Completion
<1>5. r \in Queues!Outcome(active)
  BY <1>4 DEF Queues!Outcome
<1> QED BY <1>2, <1>3, <1>5 DEF Ends

-----------------------------------------------------------------------------
\* What a step of the engine comes to for the queues: it takes a descriptor,
\* ends the one it has, lets a waiting record go, or keeps still.
Maps(c, p) ==
  \/ Queues!Launch(RingSide(c), p) \/ Queues!Finish(RingSide(c), p)
  \/ Queues!Stall(RingSide(c), p) \/ Queues!Release(RingSide(c), p)
  \/ Queues!Hold(RingSide(c), p)

LEMMA SameGuards ==
  /\ Queues!CompFull <=> CompFull
  /\ Queues!SubmitEmpty <=> SubmitEmpty
  /\ Queues!NoRecord = NoRecord
  /\ Queues!ResetDescriptor = ResetDescriptor
  /\ Queues!Stalled <=> retire # NoRecord
BY DEF CompFull, Queues!CompFull, SubmitEmpty, Queues!SubmitEmpty, NoRecord, Queues!NoRecord,
   ResetDescriptor, Queues!ResetDescriptor, Queues!Stalled

LEMMA ConcludeMaps ==
  ASSUME OffloadInv, NEW c \in Command, busy, ~stalled,
         NEW r, NEW sent, NEW received, NEW time, Ends(r, received),
         Conclude(c, "RUN", r, sent, received, time)
  PROVE  Maps(c, "RUN")
<1>1. ~Queues!Stalled
  BY SameGuards DEF OffloadInv, EngineConsistent
<1>2. CASE ~CompFull
  <2>1. Queues!EngineIdle
    BY <1>2, SameGuards DEF Conclude, EngineClear, Queues!EngineIdle
  <2>2. Queues!RingsStep(RingSide(c), "RUN", FALSE, r)
    BY <1>2, SameRings DEF Conclude, QueueStep
  <2>3. Queues!Finish(RingSide(c), "RUN")
    BY <1>1, <1>2, <2>1, <2>2, SameGuards DEF Queues!Finish, Ends
  <2> QED BY <2>3 DEF Maps
<1>3. CASE CompFull
  <2>1. Queues!RingsStep(RingSide(c), "RUN", FALSE, NoRecord)
    BY <1>3, SameRings DEF Conclude, QueueStep
  <2>2. Queues!Stall(RingSide(c), "RUN")
    BY <1>1, <1>3, <2>1, SameGuards DEF Conclude, Queues!Stall, Ends
  <2> QED BY <2>2 DEF Maps
<1> QED BY <1>2, <1>3

LEMMA HoldMaps ==
  ASSUME OffloadInv, NEW c \in Command, NEW p, ~Launches(p),
         Running(p) => ~stalled \/ CompFull,
         UNCHANGED <<busy, active, retire>>,
         QueueStep(c, p, FALSE, NoRecord)
  PROVE  Maps(c, p)
<1>1. Queues!RingsStep(RingSide(c), p, FALSE, NoRecord)
  BY SameRings DEF QueueStep
<1>2. stalled <=> Queues!Stalled
  BY SameGuards DEF OffloadInv, EngineConsistent
<1>3. ~Queues!Launches(p)
  BY <1>2, SameGuards DEF Launches, Queues!Launches
<1>4. Queues!Hold(RingSide(c), p)
  BY <1>1, <1>2, <1>3, SameGuards DEF Queues!Hold, Queues!engineVars, Running
<1> QED BY <1>4 DEF Maps

-----------------------------------------------------------------------------
\* Each action of the engine keeps the invariant and maps to the queues.
LEMMA OperateStep ==
  ASSUME OffloadInv, NEW c \in Command, NEW p \in PowerState, Operate(c, p)
  PROVE  OffloadInv' /\ Maps(c, p)
<1>1. /\ TypeOK /\ EngineConsistent
      /\ send \in Nat /\ recv \in Nat /\ timeout \in 0 .. DMA_TIMEOUT_CYCLES
      /\ active.len \in Nat
  BY DescriptorFields DEF OffloadInv, TypeOK
<1>2. CASE Launch(c, p)
  <2>1. /\ ~SubmitEmpty /\ ~stalled /\ ~busy /\ p = "RUN"
        /\ QueueStep(c, p, TRUE, NoRecord)
    BY <1>2 DEF Launch, Launches
  <2>2. RingsTypeOK' /\ LegalSlots' /\ irqStatus' \subseteq IrqBit
    BY <2>1, ResetRecord, QueueStepInv
  <2>3. active' \in Descriptor /\ Legal(active')
    <3>1. active' = submitSlots[submitHead]
      BY <1>2 DEF Launch
    <3>2. Legal(submitSlots[submitHead])
      BY <2>1, FrontLegal DEF OffloadInv, TypeOK
    <3>3. submitSlots[submitHead] \in Descriptor
      BY DepthAssumption DEF OffloadInv, TypeOK, RingsTypeOK
    <3> QED BY <3>1, <3>2, <3>3
  <2>4. active'.len \in Nat /\ active'.len # 0
    BY <2>3, DescriptorFields DEF Legal
  <2>5. TypeOK'
    BY <1>1, <1>2, <2>2, <2>3, TimeoutAssumption DEF Launch, TypeOK, EngineState
  <2>6. EngineConsistent'
    BY <1>1, <1>2, <2>1, <2>4 DEF Launch, EngineConsistent
  <2>7. OffloadInv'
    BY <2>2, <2>3, <2>5, <2>6 DEF OffloadInv, Legal, Passes
  <2>8. Queues!Launch(RingSide(c), p)
    <3>1. Queues!RingsStep(RingSide(c), p, TRUE, NoRecord)
      BY <2>1, SameRings DEF QueueStep
    <3>2. Queues!Launches(p)
      BY <1>1, <2>1, SameGuards DEF Queues!Launches, EngineConsistent
    <3> QED BY <1>2, <3>1, <3>2, SameGuards DEF Launch, Queues!Launch
  <2> QED BY <2>7, <2>8 DEF Maps
<1>3. CASE SourceFault(c, p)
  <2>1. /\ busy /\ p = "RUN" /\ state = "SEND"
        /\ ~stalled
    BY <1>1, <1>3 DEF SourceFault, Running, LooksAtSource, EngineConsistent
  <2>2. PICK err \in RuntimeError :
          Conclude(c, p, Completion("RUNTIME_ERROR", err, recv), send, recv, timeout)
    BY <1>3 DEF SourceFault
  <2>3. Ends(Completion("RUNTIME_ERROR", err, recv), recv)
    BY <2>1, ErrorEnds
  <2> QED BY <1>1, <2>1, <2>2, <2>3, ConcludeInv, ConcludeMaps DEF Ends
<1>4. CASE Timeout(c, p, BOOLEAN)
  <2>1. busy /\ p = "RUN" /\ ~stalled /\ state \in {"LAUNCH", "SEND", "WAIT_RETURN"}
    BY <1>1, <1>4 DEF Timeout, Running, TimedOut, EngineConsistent, TypeOK, EngineState
  <2>2. PICK rx \in BOOLEAN :
          Conclude(c, p, Completion("RUNTIME_ERROR", "TIMEOUT", recv), send, recv, Elapsed(rx))
    BY <1>4 DEF Timeout
  <2>3. Ends(Completion("RUNTIME_ERROR", "TIMEOUT", recv), recv)
    BY <2>1, ErrorEnds, TimeoutAssumption
  <2>4. Elapsed(rx) \in 0 .. DMA_TIMEOUT_CYCLES
    BY <1>1, ElapsedType
  <2> QED BY <1>1, <2>1, <2>2, <2>3, <2>4, ConcludeInv, ConcludeMaps DEF Ends
<1>5. CASE LaunchToSend(c, p, BOOLEAN)
  <2>1. /\ busy /\ ~stalled /\ ~Launches(p) /\ state' = "SEND"
        /\ UNCHANGED <<busy, active, send, recv, stalled, retire>>
        /\ QueueStep(c, p, FALSE, NoRecord)
    BY <1>1, <1>5 DEF LaunchToSend, Running, Launches, EngineConsistent
  <2>2. RingsTypeOK' /\ LegalSlots' /\ irqStatus' \subseteq IrqBit
    BY <2>1, ResetRecord, QueueStepInv
  <2>3. timeout' \in 0 .. DMA_TIMEOUT_CYCLES
    BY <1>1, <1>5, ElapsedType DEF LaunchToSend
  <2>4. send' = 0 /\ recv' = 0 /\ recv' < active.len
    BY <1>1, <1>5, <2>1 DEF LaunchToSend, EngineConsistent
  <2>5. OffloadInv'
    BY <1>1, <2>1, <2>2, <2>3, <2>4, RunningInv
  <2>6. Maps(c, p)
    BY <2>1, HoldMaps
  <2> QED BY <2>5, <2>6
<1>6. CASE Transfer(c, p, BOOLEAN)
  <2>1. busy /\ p = "RUN" /\ ~stalled /\ ~Launches(p) /\ state \in {"SEND", "WAIT_RETURN"}
    BY <1>1, <1>6 DEF Transfer, Running, Launches, EngineConsistent
  <2>2. PICK rx \in BOOLEAN, tx \in IF LooksAtSource THEN BOOLEAN ELSE {FALSE} :
          LET sent == IF tx THEN send + 1 ELSE send
              received == IF rx THEN recv + 1 ELSE recv
          IN \/ /\ rx /\ received >= active.len
                /\ Conclude(c, p, Completion("SUCCESS", "NONE", received),
                            sent, received, Elapsed(rx))
             \/ /\ ~(rx /\ received >= active.len)
                /\ send' = sent /\ recv' = received /\ timeout' = Elapsed(rx)
                /\ state' = IF tx /\ sent >= active.len THEN "WAIT_RETURN" ELSE state
                /\ UNCHANGED <<busy, active, stalled, retire>>
                /\ QueueStep(c, p, FALSE, NoRecord)
    BY <1>6 DEF Transfer
  <2> DEFINE sent == IF tx THEN send + 1 ELSE send
             received == IF rx THEN recv + 1 ELSE recv
  <2>3. sent \in Nat /\ received \in Nat /\ Elapsed(rx) \in 0 .. DMA_TIMEOUT_CYCLES
    BY <1>1, ElapsedType
  <2>4. CASE rx /\ received >= active.len
    <3>1. received = recv + 1
      BY <2>4
    <3>2. Ends(Completion("SUCCESS", "NONE", received), received)
      BY <2>1, <2>4, <3>1, SuccessEnds
    <3>3. Conclude(c, p, Completion("SUCCESS", "NONE", received), sent, received, Elapsed(rx))
      BY <2>2, <2>4
    <3> HIDE DEF sent, received
    <3> QED BY <2>1, <2>3, <3>2, <3>3, ConcludeInv, ConcludeMaps DEF Ends
  <2>5. CASE ~(rx /\ received >= active.len)
    <3>1. /\ send' = sent /\ recv' = received /\ timeout' = Elapsed(rx)
          /\ state' = IF tx /\ sent >= active.len THEN "WAIT_RETURN" ELSE state
          /\ UNCHANGED <<busy, active, stalled, retire>>
          /\ QueueStep(c, p, FALSE, NoRecord)
      BY <2>2, <2>5
    <3>2. RingsTypeOK' /\ LegalSlots' /\ irqStatus' \subseteq IrqBit
      BY <3>1, ResetRecord, QueueStepInv
    <3>3. recv' < active.len
      BY <1>1, <2>1, <2>5, <3>1 DEF EngineConsistent
    <3>4. \/ state' = "SEND" /\ send' < active.len
          \/ state' = "WAIT_RETURN" /\ send' = active.len
      <4>1. CASE state = "WAIT_RETURN"
        <5>1. tx = FALSE /\ send = active.len
          BY <1>1, <4>1 DEF LooksAtSource, EngineConsistent
        <5> QED BY <3>1, <4>1, <5>1
      <4>2. CASE state = "SEND"
        <5>1. send < active.len /\ tx \in BOOLEAN
          BY <1>1, <4>2 DEF EngineConsistent
        <5>2. CASE tx
          BY <1>1, <3>1, <4>2, <5>1, <5>2
        <5>3. CASE ~tx
          BY <1>1, <3>1, <4>2, <5>1, <5>3
        <5> QED BY <5>1, <5>2, <5>3
      <4> QED BY <2>1, <4>1, <4>2
    <3>5. send' \in Nat /\ recv' \in Nat /\ timeout' \in 0 .. DMA_TIMEOUT_CYCLES
      BY <2>3, <3>1
    <3>6. OffloadInv'
      BY <2>1, <3>1, <3>2, <3>3, <3>4, <3>5, RunningInv
    <3>7. Maps(c, p)
      BY <2>1, <3>1, HoldMaps
    <3> QED BY <3>6, <3>7
  <2> QED BY <2>4, <2>5
<1>7. CASE Retire(c, p)
  <2>1. /\ busy /\ p = "RUN" /\ stalled /\ ~CompFull
        /\ EngineClear /\ QueueStep(c, p, FALSE, retire)
    BY <1>1, <1>7 DEF Retire, Running, EngineConsistent
  <2>2. RingsTypeOK' /\ LegalSlots' /\ irqStatus' \subseteq IrqBit
    BY <1>1, <2>1, QueueStepInv DEF TypeOK
  <2>3. OffloadInv'
    BY <2>1, <2>2, EngineClearInv
  <2>4. Queues!Release(RingSide(c), p)
    <3>1. Queues!RingsStep(RingSide(c), p, FALSE, retire)
      BY <2>1, SameRings DEF QueueStep
    <3>2. Queues!EngineIdle
      BY <2>1, SameGuards DEF EngineClear, Queues!EngineIdle
    <3> QED BY <1>1, <2>1, <3>1, <3>2, SameGuards DEF Queues!Release, EngineConsistent
  <2> QED BY <2>3, <2>4 DEF Maps
<1>8. CASE Rest(c, p)
  <2>1. /\ ~Launches(p) /\ (Running(p) => CompFull)
        /\ UNCHANGED <<busy, active, state, send, recv, timeout, stalled, retire>>
        /\ QueueStep(c, p, FALSE, NoRecord)
    BY <1>8 DEF Rest, engineVars
  <2>2. RingsTypeOK' /\ LegalSlots' /\ irqStatus' \subseteq IrqBit
    BY <2>1, ResetRecord, QueueStepInv
  <2>3. TypeOK' /\ EngineConsistent' /\ (busy' => Legal(active'))
    BY <1>1, <2>1, <2>2 DEF OffloadInv, TypeOK, EngineConsistent
  <2>4. OffloadInv'
    BY <2>2, <2>3 DEF OffloadInv, Legal, Passes
  <2>5. Maps(c, p)
    BY <2>1, HoldMaps
  <2> QED BY <2>4, <2>5
<1> QED BY <1>2, <1>3, <1>4, <1>5, <1>6, <1>7, <1>8 DEF Operate

-----------------------------------------------------------------------------
LEMMA InitOffload == Init => OffloadInv /\ Queues!Init
<1> SUFFICES ASSUME Init PROVE OffloadInv /\ Queues!Init
  OBVIOUS
<1>1. RingsTypeOK
  BY DepthAssumption, ResetRecord DEF Init, RingsInit, RingsTypeOK
<1>2. TypeOK
  <2>1. busy \in BOOLEAN /\ stalled \in BOOLEAN /\ state \in EngineState
    BY DEF Init, EngineState
  <2>2. active \in Descriptor /\ retire \in Record /\ irqStatus \subseteq IrqBit
    BY ResetRecord DEF Init
  <2>3. send \in Nat /\ recv \in Nat /\ timeout \in 0 .. DMA_TIMEOUT_CYCLES
    BY TimeoutAssumption DEF Init
  <2> QED BY <1>1, <2>1, <2>2, <2>3 DEF TypeOK
<1>3. EngineConsistent
  BY DEF Init, EngineConsistent
<1>4. LegalSlots
  BY DEF Init, RingsInit, LegalSlots
<1>5. OffloadInv
  BY <1>2, <1>3, <1>4 DEF Init, OffloadInv
<1>6. Queues!Init
  BY SameGuards DEF Init, RingsInit, Queues!Init, Queues!RingsInit
<1> QED BY <1>5, <1>6

\* Both resets, and the edges on which nothing changes.
LEMMA ClearStep ==
  ASSUME OffloadInv, RingsClear, EngineClear, irqStatus' = {}, staged' \in Descriptor
  PROVE  OffloadInv' /\ Queues!RingsClear /\ Queues!EngineIdle
<1>1. RingsTypeOK'
  BY RingsClearType DEF OffloadInv, TypeOK
<1>2. LegalSlots'
  BY LegalSlotsReset DEF RingsClear
<1>3. OffloadInv'
  BY <1>1, <1>2, EngineClearInv
<1>4. Queues!RingsClear /\ Queues!EngineIdle
  BY SameGuards DEF RingsClear, Queues!RingsClear, EngineClear, Queues!EngineIdle
<1> QED BY <1>3, <1>4

LEMMA NextOffload ==
  ASSUME OffloadInv, [Next]_vars
  PROVE  OffloadInv' /\ [Queues!Next]_(Queues!vars)
<1>1. CASE UNCHANGED vars
  <2>1. OffloadInv'
    <3>1. RingsTypeOK' /\ LegalSlots'
      BY <1>1 DEF OffloadInv, TypeOK, RingsTypeOK, LegalSlots, vars, ringVars, submitVars, compVars
    <3>2. TypeOK' /\ EngineConsistent'
      BY <1>1, <3>1 DEF OffloadInv, TypeOK, EngineConsistent, vars, engineVars
    <3>3. busy' => Legal(active')
      BY <1>1 DEF OffloadInv, vars, engineVars
    <3> QED BY <3>1, <3>2, <3>3 DEF OffloadInv, Legal, Passes
  <2>2. UNCHANGED Queues!vars
    BY <1>1 DEF vars, ringVars, submitVars, compVars, engineVars, Queues!vars, Queues!ringVars,
       Queues!submitVars, Queues!compVars, Queues!engineVars
  <2> QED BY <2>1, <2>2
<1>2. ASSUME NEW c \in Command, NEW p \in PowerState, Operate(c, p)
      PROVE  OffloadInv' /\ Queues!Next
  <2>1. OffloadInv' /\ Maps(c, p)
    BY <1>2, OperateStep
  <2>2. p # "DEEP_SLEEP" /\ RingSide(c).op # "softReset" /\ RingSide(c) \in Queues!RingCommand
    BY <1>2, CommandStages DEF Operate, RingCommand, Queues!RingCommand
  <2>3. Queues!Operate(RingSide(c), p)
    BY <2>1, <2>2 DEF Maps, Queues!Operate
  <2>4. p \in Queues!PowerState
    BY DEF PowerState, Queues!PowerState
  <2> QED BY <2>1, <2>2, <2>3, <2>4 DEF Queues!Next, Queues!Edge
<1>3. ASSUME NEW c \in Command, NEW p \in PowerState, SoftReset(c, p)
      PROVE  OffloadInv' /\ Queues!Next
  <2>1. OffloadInv' /\ Queues!RingsClear /\ Queues!EngineIdle
    BY <1>3, ClearStep DEF SoftReset, OffloadInv, TypeOK, RingsTypeOK
  <2>2. RingSide(c) \in Queues!RingCommand /\ RingSide(c).op = "softReset"
    BY <1>3, CommandStages DEF SoftReset, RingCommand, Queues!RingCommand
  <2>3. Queues!SoftReset(RingSide(c), p) /\ p \in Queues!PowerState
    BY <1>3, <2>1, <2>2 DEF SoftReset, Queues!SoftReset, PowerState, Queues!PowerState
  <2> QED BY <2>1, <2>2, <2>3 DEF Queues!Next, Queues!Edge
<1>4. ASSUME NEW c \in Command, NEW p \in PowerState, DeepSleep(p)
      PROVE  OffloadInv' /\ Queues!Next
  <2>1. OffloadInv' /\ Queues!RingsClear /\ Queues!EngineIdle
    BY <1>4, ClearStep, ResetRecord DEF DeepSleep
  <2>2. RingSide(c) \in Queues!RingCommand
    BY CommandStages DEF RingCommand, Queues!RingCommand
  <2>3. Queues!DeepSleep(p) /\ p \in Queues!PowerState
    BY <1>4, <2>1, SameGuards DEF DeepSleep, Queues!DeepSleep, PowerState, Queues!PowerState
  <2> QED BY <2>1, <2>2, <2>3 DEF Queues!Next, Queues!Edge
<1> QED BY <1>1, <1>2, <1>3, <1>4 DEF Next, Edge

-----------------------------------------------------------------------------
\* The stall flag, the state and the retire registers never disagree, and the
\* counters never leave the active descriptor.
THEOREM EngineIsConsistent == Spec => []EngineConsistent
<1>1. OffloadInv => EngineConsistent
  BY DEF OffloadInv
<1>2. Init => OffloadInv
  BY InitOffload
<1>3. OffloadInv /\ [Next]_vars => OffloadInv'
  BY NextOffload
<1> QED BY <1>1, <1>2, <1>3, PTL DEF Spec

THEOREM OffloadTypeCorrect == Spec => []TypeOK
<1>1. OffloadInv => TypeOK
  BY DEF OffloadInv
<1>2. Init => OffloadInv
  BY InitOffload
<1>3. OffloadInv /\ [Next]_vars => OffloadInv'
  BY NextOffload
<1> QED BY <1>1, <1>2, <1>3, PTL DEF Spec

\* Whatever the engine does with timeouts, faults, stalls and return words,
\* the queues see a descriptor taken, kept, and ended with one record of its
\* own: the block implements DmaQueues, and what is proved there holds here.
THEOREM OffloadImplementsQueues == Spec => ImplementsQueues
<1>1. Init => OffloadInv /\ Queues!Init
  BY InitOffload
<1>2. OffloadInv /\ [Next]_vars => OffloadInv' /\ [Queues!Next]_(Queues!vars)
  BY NextOffload
<1> QED BY <1>1, <1>2, PTL DEF Spec, ImplementsQueues, Queues!Spec

\* A record that enters the completion ring leaves its interrupt bit set.
LEMMA StepRaisesIrq ==
  ASSUME TypeOK, NEW c, NEW p, NEW launch, NEW fin, QueueStep(c, p, launch, fin),
         NEW i \in DOMAIN comp, comp'[i] # comp[i]
  PROVE  IrqOf(comp'[i]) \subseteq irqStatus'
<1>1. CompStep(c, p, fin) /\ IrqStep(c, p, fin) /\ comp \in [0 .. COMP_QUEUE_DEPTH - 1 -> Record]
  BY DEF TypeOK, RingsTypeOK, QueueStep, RingsStep
<1>2. Pushes(c, p, fin)
  BY <1>1 DEF CompStep
<1>3. comp'[i] = IF fin # NoRecord THEN fin ELSE RejectRecord(p)
  BY <1>1, <1>2 DEF CompStep
<1>4. CASE fin # NoRecord
  BY <1>1, <1>3, <1>4 DEF IrqStep
<1>5. CASE fin = NoRecord
  <2>1. IrqOf(comp'[i]) = {"error"}
    BY <1>3, <1>5 DEF RejectRecord, IrqOf
  <2>2. Rejects(c, p) /\ ~CompFull
    BY <1>2, <1>5 DEF Pushes
  <2> QED BY <1>1, <2>1, <2>2 DEF IrqStep
<1> QED BY <1>4, <1>5

\* Software that acknowledges an interrupt on the very edge a record arrives
\* does not lose it: no completion is left behind without its bit.
THEOREM IrqNotLost == Spec => RaisesIrq
<1> DEFINE Raises == \A i \in DOMAIN comp :
                       comp'[i] # comp[i] => IrqOf(comp'[i]) \subseteq irqStatus'
<1>1. OffloadInv /\ [Next]_vars => [Raises]_vars
  <2> SUFFICES ASSUME OffloadInv, Next PROVE Raises
    OBVIOUS
  <2>1. TypeOK
    BY DEF OffloadInv
  <2>2. ASSUME NEW c \in Command, NEW p \in PowerState, Operate(c, p)
        PROVE  Raises
    <3>1. \E launch, fin : QueueStep(c, p, launch, fin)
      <4>1. \A r, s, n, t : Conclude(c, p, r, s, n, t) =>
               \E launch, fin : QueueStep(c, p, launch, fin)
        BY DEF Conclude
      <4>2. CASE Launch(c, p) \/ LaunchToSend(c, p, BOOLEAN) \/ Retire(c, p) \/ Rest(c, p)
        BY <4>2 DEF Launch, LaunchToSend, Retire, Rest
      <4>3. CASE SourceFault(c, p)
        BY <4>1, <4>3 DEF SourceFault
      <4>4. CASE Timeout(c, p, BOOLEAN)
        BY <4>1, <4>4 DEF Timeout
      <4>5. CASE Transfer(c, p, BOOLEAN)
        BY <4>1, <4>5 DEF Transfer
      <4> QED BY <2>2, <4>2, <4>3, <4>4, <4>5 DEF Operate
    <3> QED BY <2>1, <3>1, StepRaisesIrq
  <2>3. ASSUME RingsClear
        PROVE  Raises
    BY <2>3 DEF RingsClear
  <2> QED BY <2>2, <2>3 DEF Next, Edge, SoftReset, DeepSleep
<1>2. Init => OffloadInv
  BY InitOffload
<1>3. OffloadInv /\ [Next]_vars => OffloadInv'
  BY NextOffload
<1> QED BY <1>1, <1>2, <1>3, PTL DEF Spec, RaisesIrq
=============================================================================
