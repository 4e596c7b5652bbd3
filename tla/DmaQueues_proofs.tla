-------------------------- MODULE DmaQueues_proofs --------------------------
(***************************************************************************)
(* Theorems of DmaQueues for every ring depth, every set of descriptors    *)
(* and every width of the range sums.                                      *)
(***************************************************************************)
EXTENDS DmaQueues, DmaRings_proofs, SequenceTheorems

-----------------------------------------------------------------------------
LEMMA CommandStages ==
  ASSUME NEW c \in RingCommand
  PROVE  c.op = "stage" => c.desc \in Staging
BY DEF RingCommand

\* A record that ends a descriptor is a record, and not the reset value.
LEMMA OutcomeType ==
  ASSUME NEW d \in Descriptor, NEW r \in Outcome(d)
  PROVE  r \in Record /\ r # NoRecord
<1>1. d.tag \in Nat /\ d.len \in Nat
  BY StagingAssumption, DepthAssumption DEF Descriptor, ResetDescriptor
<1>2. CASE r = Completion(d, "SUCCESS", "NONE", d.len)
  BY <1>1, <1>2 DEF Completion, Record, NoRecord
<1>3. CASE \E e \in RuntimeError, n \in 0 .. d.len - 1 :
             r = Completion(d, "RUNTIME_ERROR", e, n)
  BY <1>1, <1>3, ErrorAssumption DEF Completion, Record, NoRecord
<1> QED BY <1>2, <1>3 DEF Outcome

-----------------------------------------------------------------------------
\* The inductive invariant: a record waits only for the active descriptor and
\* is one it may end with, and an idle engine holds no descriptor.
QueueInv == TypeOK /\ RetireBelongsToActive

LEMMA InitInv == Init => QueueInv
<1> SUFFICES ASSUME Init PROVE QueueInv
  OBVIOUS
<1>1. RingsTypeOK
  BY DepthAssumption, ResetTypes DEF Init, RingsInit, RingsTypeOK
<1>2. TypeOK
  BY <1>1, ResetTypes DEF Init, TypeOK
<1>3. RetireBelongsToActive
  BY DEF Init, RetireBelongsToActive, Stalled
<1> QED BY <1>2, <1>3 DEF QueueInv

\* The engine going idle re-establishes everything but the rings' types.
LEMMA EngineIdleInv ==
  ASSUME EngineIdle, RingsTypeOK'
  PROVE  QueueInv'
BY ResetTypes DEF EngineIdle, QueueInv, TypeOK, RetireBelongsToActive, Stalled

LEMMA OperateInv ==
  ASSUME QueueInv, NEW c \in RingCommand, NEW p \in PowerState, Operate(c, p)
  PROVE  QueueInv'
<1> USE DEF QueueInv
<1>1. CASE Launch(c, p)
  <2>1. RingsTypeOK'
    BY <1>1, CommandStages, RingsStepType, ResetTypes DEF TypeOK, Launch, Launches
  <2>2. active' \in Descriptor
    BY <1>1, DepthAssumption DEF TypeOK, RingsTypeOK, Launch
  <2> QED
    BY <1>1, <2>1, <2>2 DEF TypeOK, RetireBelongsToActive, Launch, Launches, Stalled
<1>2. CASE Finish(c, p)
  <2>1. PICK r \in Outcome(active) : RingsStep(c, p, FALSE, r)
    BY <1>2 DEF Finish
  <2>2. r \in Record
    BY <2>1, OutcomeType DEF TypeOK
  <2>3. RingsTypeOK'
    BY <1>2, <2>1, <2>2, CommandStages, RingsStepType DEF TypeOK, Finish
  <2> QED BY <1>2, <2>3, EngineIdleInv DEF Finish
<1>3. CASE Stall(c, p)
  <2>1. PICK r \in Outcome(active) : retire' = r
    BY <1>3 DEF Stall
  <2>2. r \in Record
    BY <2>1, OutcomeType DEF TypeOK
  <2>3. RingsTypeOK'
    BY <1>3, CommandStages, RingsStepType, ResetTypes DEF TypeOK, Stall
  <2>4. active' = active /\ busy' = busy /\ busy
    BY <1>3 DEF Stall
  <2>5. Outcome(active)' = Outcome(active)
    BY <2>4 DEF Outcome, Completion
  <2> QED
    BY <2>1, <2>2, <2>3, <2>4, <2>5 DEF TypeOK, RetireBelongsToActive
<1>4. CASE Release(c, p)
  <2>1. RingsTypeOK'
    BY <1>4, CommandStages, RingsStepType DEF TypeOK, Release
  <2> QED BY <1>4, <2>1, EngineIdleInv DEF Release
<1>5. CASE Hold(c, p)
  <2>1. RingsTypeOK'
    BY <1>5, CommandStages, RingsStepType, ResetTypes DEF TypeOK, Hold
  <2>2. Outcome(active)' = Outcome(active)
    BY <1>5 DEF Hold, engineVars, Outcome, Completion
  <2> QED
    BY <1>5, <2>1, <2>2 DEF TypeOK, RetireBelongsToActive, Stalled, Hold, engineVars
<1> QED BY <1>1, <1>2, <1>3, <1>4, <1>5 DEF Operate

LEMMA NextInv == QueueInv /\ [Next]_vars => QueueInv'
<1> SUFFICES ASSUME QueueInv, [Next]_vars PROVE QueueInv'
  OBVIOUS
<1>1. CASE UNCHANGED vars
  <2>1. Outcome(active)' = Outcome(active)
    BY <1>1 DEF vars, engineVars, Outcome, Completion
  <2> QED
    BY <1>1, <2>1 DEF QueueInv, TypeOK, RingsTypeOK, RetireBelongsToActive, Stalled,
       vars, ringVars, submitVars, compVars, engineVars
<1>2. ASSUME NEW c \in RingCommand, NEW p \in PowerState, Operate(c, p)
      PROVE  QueueInv'
  BY <1>2, OperateInv
<1>3. ASSUME NEW c \in RingCommand, NEW p \in PowerState, SoftReset(c, p)
      PROVE  QueueInv'
  BY <1>3, RingsClearType, EngineIdleInv DEF SoftReset, QueueInv, TypeOK, RingsTypeOK
<1>4. ASSUME NEW p \in PowerState, DeepSleep(p)
      PROVE  QueueInv'
  BY <1>4, RingsClearType, EngineIdleInv, ResetTypes DEF DeepSleep, QueueInv, TypeOK
<1> QED BY <1>1, <1>2, <1>3, <1>4 DEF Next, Edge

\* The rings never overflow or underflow and every register keeps its type:
\* the counts stay within the depths although a collision can leave them
\* different from the distance between their pointers.
THEOREM TypeCorrect == Spec => []TypeOK
<1>1. QueueInv => TypeOK
  BY DEF QueueInv
<1> QED BY InitInv, NextInv, <1>1, PTL DEF Spec

\* A stalled record belongs to the active descriptor for as long as it waits.
THEOREM RetireCorrect == Spec => []RetireBelongsToActive
<1>1. QueueInv => RetireBelongsToActive
  BY DEF QueueInv
<1> QED BY InitInv, NextInv, <1>1, PTL DEF Spec

-----------------------------------------------------------------------------
\* The engine pushes exactly when it gives up its descriptor, and a pop and a
\* doorbell cannot share an edge.
LEMMA OperateDrift ==
  ASSUME QueueInv, NEW c \in RingCommand, NEW p \in PowerState, Operate(c, p)
  PROVE  /\ SubmitDrift' = Bump(SubmitDrift, SUBMIT_QUEUE_DEPTH, Accepts(c, p) /\ Launches(p))
         /\ CompDrift' = Bump(CompDrift, COMP_QUEUE_DEPTH, Pops(c) /\ Retires)
<1> USE DEF QueueInv, TypeOK
<1>1. ASSUME NEW launch \in BOOLEAN, NEW fin, RingsStep(c, p, launch, fin),
             launch <=> Launches(p), fin # NoRecord <=> Retires,
             fin # NoRecord => ~CompFull
      PROVE  /\ SubmitDrift' = Bump(SubmitDrift, SUBMIT_QUEUE_DEPTH, Accepts(c, p) /\ Launches(p))
             /\ CompDrift' = Bump(CompDrift, COMP_QUEUE_DEPTH, Pops(c) /\ Retires)
  <2>1. (Accepts(c, p) /\ launch) <=> (Accepts(c, p) /\ Launches(p))
    BY <1>1
  <2>2. (Pops(c) /\ Pushes(c, p, fin)) <=> (Pops(c) /\ Retires)
    BY <1>1 DEF Pops, Pushes, Rejects
  <2>3. SubmitDrift' = Bump(SubmitDrift, SUBMIT_QUEUE_DEPTH, Accepts(c, p) /\ launch)
    BY <1>1, SubmitDriftStep DEF RingsStep, Launches
  <2>4. CompDrift' = Bump(CompDrift, COMP_QUEUE_DEPTH, Pops(c) /\ Pushes(c, p, fin))
    BY <1>1, CompDriftStep DEF RingsStep
  <2> QED BY <2>1, <2>2, <2>3, <2>4 DEF Bump
<1>2. CASE Launch(c, p)
  BY <1>1, <1>2 DEF Launch, Launches, Retires
<1>3. CASE Finish(c, p)
  <2>1. PICK r \in Outcome(active) : RingsStep(c, p, FALSE, r)
    BY <1>3 DEF Finish
  <2>2. r # NoRecord
    BY <2>1, OutcomeType
  <2> QED BY <1>1, <1>3, <2>1, <2>2 DEF Finish, Launches, Retires, EngineIdle
<1>4. CASE Stall(c, p)
  BY <1>1, <1>4 DEF Stall, Launches, Retires
<1>5. CASE Release(c, p)
  BY <1>1, <1>5 DEF Release, Launches, Retires, EngineIdle, Stalled
<1>6. CASE Hold(c, p)
  BY <1>1, <1>6 DEF Hold, Launches, Retires, engineVars
<1> QED BY <1>2, <1>3, <1>4, <1>5, <1>6 DEF Operate

\* Nothing but the two collisions, and a reset, ever moves a count away from
\* the distance between the pointers of its ring.
THEOREM CountsDriftOnlyByCollision == Spec => DriftOnlyByCollision
<1> DEFINE Drifts == \/ Clears
                     \/ \E c \in RingCommand, p \in PowerState :
                          /\ Operate(c, p)
                          /\ SubmitDrift' = Bump(SubmitDrift, SUBMIT_QUEUE_DEPTH,
                                                 Accepts(c, p) /\ Launches(p))
                          /\ CompDrift' = Bump(CompDrift, COMP_QUEUE_DEPTH, Pops(c) /\ Retires)
<1>1. QueueInv /\ [Next]_vars => [Drifts]_vars
  BY OperateDrift DEF Next, Edge, Clears
<1>2. QueueInv /\ [Next]_vars => QueueInv'
  BY NextInv
<1> QED BY InitInv, <1>1, <1>2, PTL DEF Spec, DriftOnlyByCollision

-----------------------------------------------------------------------------
\* The slots have to be followed one by one, because the counts do not tell
\* which of them are live.
LegalInv == QueueInv /\ LegalSlots /\ ActiveLegal

LEMMA LegalStep == LegalInv /\ [Next]_vars => LegalInv'
<1> SUFFICES ASSUME LegalInv, [Next]_vars PROVE LegalInv'
  OBVIOUS
<1>1. QueueInv'
  BY NextInv DEF LegalInv
<1>2. CASE UNCHANGED vars
  <2>1. LegalSlots' /\ ActiveLegal'
    BY <1>2 DEF LegalInv, LegalSlots, ActiveLegal, vars, ringVars, submitVars, engineVars
  <2> QED BY <1>1, <2>1 DEF LegalInv
<1>3. ASSUME NEW c \in RingCommand, NEW p \in PowerState, Operate(c, p)
      PROVE  LegalSlots' /\ ActiveLegal'
  <2>1. RingsTypeOK /\ LegalSlots /\ ActiveLegal
    BY DEF LegalInv, QueueInv, TypeOK
  <2>2. CASE Launch(c, p)
    <3>1. ~SubmitEmpty /\ SubmitStep(c, p, TRUE) /\ active' = submitSlots[submitHead]
      BY <2>2 DEF Launch, Launches, RingsStep
    <3>2. LegalSlots'
      BY <2>1, <3>1, LegalSlotsStep
    <3>3. Legal(active')
      BY <2>1, <3>1, FrontLegal
    <3> QED BY <3>2, <3>3 DEF ActiveLegal, Legal, Passes
  <2>3. CASE ~Launch(c, p)
    <3>1. SubmitStep(c, p, FALSE)
      BY <1>3, <2>3 DEF Operate, Finish, Stall, Release, Hold, RingsStep
    <3>2. (busy' = busy /\ active' = active) \/ ~busy'
      BY <1>3, <2>3 DEF Operate, Finish, Stall, Release, Hold, EngineIdle, engineVars
    <3>3. LegalSlots'
      BY <2>1, <3>1, LegalSlotsStep
    <3>4. ActiveLegal'
      BY <2>1, <3>2 DEF ActiveLegal, Legal, Passes
    <3> QED BY <3>3, <3>4
  <2> QED BY <2>2, <2>3
<1>4. ASSUME NEW c \in RingCommand, NEW p \in PowerState, SoftReset(c, p) \/ DeepSleep(p)
      PROVE  LegalSlots' /\ ActiveLegal'
  BY <1>4, LegalSlotsReset DEF SoftReset, DeepSleep, RingsClear, EngineIdle, ActiveLegal
<1> QED BY <1>1, <1>2, <1>3, <1>4 DEF Next, Edge, LegalInv

\* Every descriptor the engine runs was let through by a doorbell, however
\* far the count of the submit ring has drifted.
THEOREM ActiveIsLegal == Spec => []ActiveLegal
<1>1. Init => LegalInv
  BY InitInv DEF Init, RingsInit, LegalInv, LegalSlots, ActiveLegal
<1>2. LegalInv => ActiveLegal
  BY DEF LegalInv
<1> QED BY <1>1, <1>2, LegalStep, PTL DEF Spec

-----------------------------------------------------------------------------
\* A ring read from its head is a sequence, which a push makes longer at its
\* end and a pop shorter at its front.

\* A ring's contents are a sequence, as long as its count says.
LEMMA ContentsSeq ==
  ASSUME NEW depth \in Nat \ {0}, NEW head \in 0 .. depth - 1, NEW count \in 0 .. depth,
         NEW S, NEW slots \in [0 .. depth - 1 -> S]
  PROVE  /\ Contents(slots, head, count, depth) \in [1 .. count -> S]
         /\ Contents(slots, head, count, depth) \in Seq(S)
<1>1. \A i \in 1 .. count : Wrap(head + i - 1, depth) \in 0 .. depth - 1
  BY DEF Wrap
<1>2. Contents(slots, head, count, depth) \in [1 .. count -> S]
  BY <1>1 DEF Contents
<1>3. count \in Nat
  OBVIOUS
<1> QED BY <1>2, <1>3, SMT

\* What SMT will not derive by itself from a function over 1 .. n.
LEMMA LenOfSeq ==
  ASSUME NEW n \in Nat, NEW S, NEW s \in Seq(S), s \in [1 .. n -> S]
  PROVE  Len(s) = n
BY LenProperties

\* What is written at the tail of a ring that is not full joins its contents.
LEMMA ContentsPush ==
  ASSUME NEW depth \in Nat \ {0}, NEW head \in 0 .. depth - 1, NEW count \in 0 .. depth - 1,
         NEW S, NEW slots \in [0 .. depth - 1 -> S], NEW pushed \in [0 .. depth - 1 -> S],
         \A i \in 0 .. depth - 1 : i # Wrap(head + count, depth) => pushed[i] = slots[i]
  PROVE  Contents(pushed, head, count + 1, depth)
           = Append(Contents(slots, head, count, depth), pushed[Wrap(head + count, depth)])
<1> DEFINE tail == Wrap(head + count, depth)
           x == pushed[tail]
           s == Contents(slots, head, count, depth)
           t == Contents(pushed, head, count + 1, depth)
<1>1. tail \in 0 .. depth - 1 /\ count \in 0 .. depth /\ count + 1 \in 0 .. depth
  BY DEF Wrap
<1>2. x \in S
  BY <1>1
<1>3. /\ s \in Seq(S) /\ Len(s) = count
      /\ \A i \in 1 .. count : s[i] = slots[Wrap(head + i - 1, depth)]
  <2>1. s \in [1 .. count -> S] /\ s \in Seq(S)
    BY <1>1, ContentsSeq
  <2> QED BY <2>1, LenOfSeq DEF Contents
<1>4. /\ t \in Seq(S) /\ Len(t) = count + 1
      /\ \A i \in 1 .. count + 1 : t[i] = pushed[Wrap(head + i - 1, depth)]
  <2>1. t \in [1 .. count + 1 -> S] /\ t \in Seq(S)
    BY <1>1, <1>2, ContentsSeq
  <2> QED BY <2>1, LenOfSeq DEF Contents
<1> HIDE DEF s, t
<1>5. /\ Append(s, x) \in Seq(S) /\ Len(Append(s, x)) = count + 1
      /\ \A i \in 1 .. count + 1 : Append(s, x)[i] = IF i <= count THEN s[i] ELSE x
  BY <1>2, <1>3, AppendProperties
<1>6. \A i \in 1 .. count + 1 : t[i] = Append(s, x)[i]
  <2> TAKE i \in 1 .. count + 1
  <2>1. CASE i = count + 1
    BY <1>1, <1>4, <1>5, <2>1 DEF Wrap
  <2>2. CASE i # count + 1
    <3>1. Wrap(head + i - 1, depth) # tail /\ i \in 1 .. count
      BY <2>2 DEF Wrap
    <3>2. Wrap(head + i - 1, depth) \in 0 .. depth - 1
      BY DEF Wrap
    <3> QED BY <1>3, <1>4, <1>5, <3>1, <3>2
  <2> QED BY <2>1, <2>2
<1> QED BY <1>4, <1>5, <1>6, SeqEqual DEF s, t

\* What leaves at the head of a ring that is not empty is the first of its contents.
LEMMA ContentsPop ==
  ASSUME NEW depth \in Nat \ {0}, NEW head \in 0 .. depth - 1, NEW count \in 1 .. depth,
         NEW S, NEW slots \in [0 .. depth - 1 -> S]
  PROVE  /\ Contents(slots, head, count, depth) # <<>>
         /\ Head(Contents(slots, head, count, depth)) = slots[head]
         /\ Contents(slots, NextPtr(head, depth), count - 1, depth)
              = Tail(Contents(slots, head, count, depth))
         /\ Wrap(head + count, depth) = Wrap(NextPtr(head, depth) + (count - 1), depth)
<1> DEFINE s == Contents(slots, head, count, depth)
           t == Contents(slots, NextPtr(head, depth), count - 1, depth)
<1>1. NextPtr(head, depth) \in 0 .. depth - 1 /\ count - 1 \in 0 .. depth /\ count \in 0 .. depth
  BY DEF NextPtr
<1>2. /\ s \in Seq(S) /\ Len(s) = count
      /\ \A i \in 1 .. count : s[i] = slots[Wrap(head + i - 1, depth)]
  <2>1. s \in [1 .. count -> S] /\ s \in Seq(S)
    BY <1>1, ContentsSeq
  <2> QED BY <2>1, LenOfSeq DEF Contents
<1>3. /\ t \in Seq(S) /\ Len(t) = count - 1
      /\ \A i \in 1 .. count - 1 : t[i] = slots[Wrap(NextPtr(head, depth) + i - 1, depth)]
  <2>1. t \in [1 .. count - 1 -> S] /\ t \in Seq(S)
    BY <1>1, ContentsSeq
  <2> QED BY <1>1, <2>1, LenOfSeq DEF Contents
<1> HIDE DEF s, t
<1>4. s # <<>>
  BY <1>2
<1>5. /\ Tail(s) \in Seq(S) /\ Len(Tail(s)) = count - 1
      /\ \A i \in 1 .. count - 1 : Tail(s)[i] = s[i + 1]
  BY <1>2, <1>4, HeadTailProperties
<1>6. \A i \in 1 .. count - 1 :
        Wrap(NextPtr(head, depth) + i - 1, depth) = Wrap(head + (i + 1) - 1, depth)
  BY DEF NextPtr, Wrap
<1>7. t = Tail(s)
  <2>1. \A i \in 1 .. count - 1 : t[i] = Tail(s)[i]
    <3> TAKE i \in 1 .. count - 1
    <3>1. i + 1 \in 1 .. count
      OBVIOUS
    <3> QED BY <1>2, <1>3, <1>5, <1>6, <3>1
  <2> QED BY <1>3, <1>5, <2>1, SeqEqual
<1>8. Head(s) = slots[head]
  <2>1. Head(s) = s[1]
    BY <1>2, <1>4
  <2>2. Wrap(head + 1 - 1, depth) = head
    BY DEF Wrap
  <2> QED BY <1>2, <2>1, <2>2
<1>9. Wrap(head + count, depth) = Wrap(NextPtr(head, depth) + (count - 1), depth)
  BY DEF NextPtr, Wrap
<1> QED BY <1>4, <1>7, <1>8, <1>9 DEF s, t

-----------------------------------------------------------------------------
Pending == Contents(submitSlots, submitHead, submitCount, SUBMIT_QUEUE_DEPTH)
Done == Contents(comp, compHead, compCount, COMP_QUEUE_DEPTH)

\* In either ring the count is the distance from the head to the tail.
Aligned ==
  /\ submitTail = Wrap(submitHead + submitCount, SUBMIT_QUEUE_DEPTH)
  /\ compTail = Wrap(compHead + compCount, COMP_QUEUE_DEPTH)

SpacedInv == QueueInv /\ Aligned

\* What an edge adds to the rings and takes from the completion ring.
Accepted(c, p) == IF Accepts(c, p) THEN <<staged>> ELSE <<>>
Refused(c, p) == IF Rejects(c, p) /\ ~CompFull THEN <<RejectRecord(p)>> ELSE <<>>
Popped(c) == IF Pops(c) THEN 1 ELSE 0

\* Both rings are sequences as long as the registered counts.
LEMMA RingsAreSeqs ==
  RingsTypeOK => /\ Pending \in Seq(Descriptor) /\ Len(Pending) = submitCount
                 /\ Done \in Seq(Record) /\ Len(Done) = compCount
<1> SUFFICES ASSUME RingsTypeOK
             PROVE  /\ Pending \in Seq(Descriptor) /\ Len(Pending) = submitCount
                    /\ Done \in Seq(Record) /\ Len(Done) = compCount
  OBVIOUS
<1>1. Pending \in [1 .. submitCount -> Descriptor] /\ Pending \in Seq(Descriptor)
  BY DepthAssumption, ContentsSeq DEF RingsTypeOK, Pending
<1>2. Done \in [1 .. compCount -> Record] /\ Done \in Seq(Record)
  BY DepthAssumption, ContentsSeq DEF RingsTypeOK, Done
<1>3. submitCount \in Nat /\ compCount \in Nat
  BY DepthAssumption DEF RingsTypeOK
<1> QED BY <1>1, <1>2, <1>3, LenOfSeq

\* Dropping nothing, or the first.
LEMMA DropProperties ==
  ASSUME NEW S, NEW s \in Seq(S)
  PROVE  /\ Service!Drop(s, 0) = s
         /\ s # <<>> => Service!Drop(s, 1) = Tail(s)
<1>1. Service!Drop(s, 0) = s
  BY SubSeqFull DEF Service!Drop
<1>2. ASSUME s # <<>> PROVE Service!Drop(s, 1) = Tail(s)
  BY <1>2, TailIsSubSeq DEF Service!Drop
<1> QED BY <1>1, <1>2

\* The submit ring is a queue as long as no doorbell meets a launch.
LEMMA PendingStep ==
  ASSUME RingsTypeOK, Aligned, NEW c, NEW p, NEW launch \in BOOLEAN, launch => ~SubmitEmpty,
         ~(launch /\ Accepts(c, p)), SubmitStep(c, p, launch)
  PROVE  /\ submitTail' = Wrap(submitHead' + submitCount', SUBMIT_QUEUE_DEPTH)
         /\ launch => /\ Pending # <<>> /\ Head(Pending) = submitSlots[submitHead]
                      /\ Pending' = Tail(Pending) \o Accepted(c, p)
         /\ ~launch => Pending' = Pending \o Accepted(c, p)
<1> DEFINE D == SUBMIT_QUEUE_DEPTH
<1>1. /\ D \in Nat \ {0}
      /\ submitHead \in 0 .. D - 1 /\ submitTail \in 0 .. D - 1 /\ submitCount \in 0 .. D
      /\ submitSlots \in [0 .. D - 1 -> Descriptor] /\ staged \in Descriptor
      /\ submitTail = Wrap(submitHead + submitCount, D)
  BY DepthAssumption DEF RingsTypeOK, Aligned
<1>2. Pending \in Seq(Descriptor)
  BY RingsAreSeqs
<1>3. CASE launch
  <2>1. submitCount \in 1 .. D
    BY <1>1, <1>3 DEF SubmitEmpty
  <2>2. /\ submitSlots' = submitSlots /\ submitTail' = submitTail
        /\ submitHead' = NextPtr(submitHead, D) /\ submitCount' = submitCount - 1
        /\ Accepted(c, p) = <<>>
    BY <1>3 DEF SubmitStep, Accepted
  <2>3. /\ Pending # <<>> /\ Head(Pending) = submitSlots[submitHead]
        /\ Pending' = Tail(Pending)
        /\ submitTail' = Wrap(submitHead' + submitCount', D)
    BY <1>1, <2>1, <2>2, ContentsPop DEF Pending
  <2>4. Tail(Pending) \o <<>> = Tail(Pending)
    BY <1>2, <2>3, HeadTailProperties, ConcatEmptySeq
  <2> QED BY <1>3, <2>2, <2>3, <2>4
<1>4. CASE ~launch /\ Accepts(c, p)
  <2>1. submitCount \in 0 .. D - 1
    BY <1>1, <1>4, AcceptsIntoFreeSlot DEF SubmitFull
  <2>2. /\ submitSlots' = [submitSlots EXCEPT ![submitTail] = staged]
        /\ submitTail' = NextPtr(submitTail, D)
        /\ submitHead' = submitHead /\ submitCount' = submitCount + 1
        /\ Accepted(c, p) = <<staged>>
    BY <1>4 DEF SubmitStep, Accepted
  <2>3. /\ Pending' = Append(Pending, staged)
        /\ submitTail' = Wrap(submitHead' + submitCount', D)
    <3>1. /\ submitSlots' \in [0 .. D - 1 -> Descriptor]
          /\ submitSlots'[Wrap(submitHead + submitCount, D)] = staged
          /\ \A i \in 0 .. D - 1 :
               i # Wrap(submitHead + submitCount, D) => submitSlots'[i] = submitSlots[i]
      BY <1>1, <2>2
    <3>2. Contents(submitSlots', submitHead, submitCount + 1, D)
            = Append(Contents(submitSlots, submitHead, submitCount, D),
                     submitSlots'[Wrap(submitHead + submitCount, D)])
      BY <1>1, <2>1, <3>1, ContentsPush
    <3>3. NextPtr(submitTail, D) = Wrap(submitHead + (submitCount + 1), D)
      BY <1>1, <2>1 DEF NextPtr, Wrap
    <3> QED BY <2>2, <3>1, <3>2, <3>3 DEF Pending
  <2>4. Append(Pending, staged) = Pending \o <<staged>>
    BY <1>1, <1>2, AppendIsConcat
  <2> QED BY <1>4, <2>2, <2>3, <2>4
<1>5. CASE ~launch /\ ~Accepts(c, p)
  <2>1. UNCHANGED submitVars /\ Accepted(c, p) = <<>>
    BY <1>5 DEF SubmitStep, Accepted, submitVars
  <2>2. Pending' = Pending
    BY <2>1 DEF Pending, submitVars
  <2>3. Pending \o <<>> = Pending
    BY <1>2, ConcatEmptySeq
  <2> QED BY <1>1, <1>5, <2>1, <2>2, <2>3 DEF submitVars
<1> QED BY <1>3, <1>4, <1>5

\* So is the completion ring as long as no retired record meets a pop or a
\* refusal.
LEMMA DoneStep ==
  ASSUME RingsTypeOK, Aligned, NEW c, NEW p, NEW fin \in Record, fin # NoRecord => ~CompFull,
         fin # NoRecord => ~Pops(c) /\ ~Rejects(c, p), CompStep(c, p, fin)
  PROVE  /\ compTail' = Wrap(compHead' + compCount', COMP_QUEUE_DEPTH)
         /\ Pops(c) => Done # <<>> /\ Accepted(c, p) = <<>> /\ Refused(c, p) = <<>>
         /\ fin = NoRecord => Done' = Service!Drop(Done, Popped(c)) \o Refused(c, p)
         /\ fin # NoRecord =>
              Done' = Append(Service!Drop(Done, Popped(c)) \o Refused(c, p), fin)
<1> DEFINE D == COMP_QUEUE_DEPTH
<1>1. /\ D \in Nat \ {0}
      /\ compHead \in 0 .. D - 1 /\ compTail \in 0 .. D - 1 /\ compCount \in 0 .. D
      /\ comp \in [0 .. D - 1 -> Record]
      /\ compTail = Wrap(compHead + compCount, D)
  BY DepthAssumption DEF RingsTypeOK, Aligned
<1>2. Done \in Seq(Record)
  BY RingsAreSeqs
<1>3. Pops(c) => Accepted(c, p) = <<>> /\ Refused(c, p) = <<>> /\ ~Pushes(c, p, fin)
  BY DEF Pops, Accepted, Refused, Accepts, Rejects, Pushes
<1>4. CASE Pops(c)
  <2>1. compCount \in 1 .. D
    BY <1>1, <1>4 DEF Pops, CompEmpty
  <2>2. /\ comp' = comp /\ compTail' = compTail
        /\ compHead' = NextPtr(compHead, D) /\ compCount' = compCount - 1
        /\ fin = NoRecord
    BY <1>3, <1>4 DEF CompStep
  <2>3. /\ Done # <<>> /\ Done' = Tail(Done)
        /\ compTail' = Wrap(compHead' + compCount', D)
    BY <1>1, <2>1, <2>2, ContentsPop DEF Done
  <2>4. Service!Drop(Done, Popped(c)) = Tail(Done)
    BY <1>2, <1>4, <2>3, DropProperties DEF Popped
  <2>5. Tail(Done) \o <<>> = Tail(Done)
    BY <1>2, <2>3, HeadTailProperties, ConcatEmptySeq
  <2> QED BY <1>3, <1>4, <2>2, <2>3, <2>4, <2>5
<1>5. CASE ~Pops(c)
  <2>1. Service!Drop(Done, Popped(c)) = Done
    BY <1>2, <1>5, DropProperties DEF Popped
  <2>2. Done \o <<>> = Done
    BY <1>2, ConcatEmptySeq
  <2>3. ASSUME NEW r \in Record, ~CompFull,
               comp' = [comp EXCEPT ![compTail] = r], compTail' = NextPtr(compTail, D),
               compHead' = compHead, compCount' = compCount + 1
        PROVE  /\ Done' = Append(Done, r)
               /\ compTail' = Wrap(compHead' + compCount', D)
    <3>1. compCount \in 0 .. D - 1
      BY <1>1, <2>3 DEF CompFull
    <3>2. /\ comp' \in [0 .. D - 1 -> Record]
          /\ comp'[Wrap(compHead + compCount, D)] = r
          /\ \A i \in 0 .. D - 1 : i # Wrap(compHead + compCount, D) => comp'[i] = comp[i]
      BY <1>1, <2>3
    <3>3. Contents(comp', compHead, compCount + 1, D)
            = Append(Contents(comp, compHead, compCount, D), comp'[Wrap(compHead + compCount, D)])
      BY <1>1, <3>1, <3>2, ContentsPush
    <3>4. NextPtr(compTail, D) = Wrap(compHead + (compCount + 1), D)
      BY <1>1, <3>1 DEF NextPtr, Wrap
    <3> QED BY <2>3, <3>2, <3>3, <3>4 DEF Done
  <2>4. CASE fin # NoRecord
    <3>1. Refused(c, p) = <<>>
      BY <2>4 DEF Refused
    <3>2. /\ Done' = Append(Done, fin)
          /\ compTail' = Wrap(compHead' + compCount', D)
      BY <1>5, <2>3, <2>4 DEF CompStep, Pushes
    <3> QED BY <1>5, <2>1, <2>2, <2>4, <3>1, <3>2
  <2>5. CASE fin = NoRecord /\ Rejects(c, p) /\ ~CompFull
    <3>1. RejectRecord(p) \in Record /\ Refused(c, p) = <<RejectRecord(p)>>
      BY <2>5, RejectRecordType DEF RingsTypeOK, Refused
    <3>2. /\ Done' = Append(Done, RejectRecord(p))
          /\ compTail' = Wrap(compHead' + compCount', D)
      BY <1>5, <2>3, <2>5, <3>1 DEF CompStep, Pushes
    <3>3. Append(Done, RejectRecord(p)) = Done \o <<RejectRecord(p)>>
      BY <1>2, <3>1, AppendIsConcat
    <3> QED BY <1>5, <2>1, <2>5, <3>1, <3>2, <3>3
  <2>6. CASE fin = NoRecord /\ ~(Rejects(c, p) /\ ~CompFull)
    <3>1. UNCHANGED compVars /\ Refused(c, p) = <<>>
      BY <1>5, <2>6 DEF CompStep, Pushes, Refused, compVars
    <3>2. Done' = Done
      BY <3>1 DEF Done, compVars
    <3> QED BY <1>1, <1>5, <2>1, <2>2, <2>6, <3>1, <3>2 DEF compVars
  <2> QED BY <2>4, <2>5, <2>6
<1> QED BY <1>4, <1>5

Current == IF busy THEN <<active>> ELSE <<>>

\* What an edge adds and takes is what the service lets software have.
LEMMA SoftwareActs ==
  ASSUME RingsTypeOK, NEW c, NEW p
  PROVE  /\ Accepted(c, p) \in Service!Maybe(Staging)
         /\ Refused(c, p) \in Service!Maybe(Refusal)
         /\ Popped(c) \in {0, 1} /\ (Popped(c) = 1 => Pops(c))
<1>1. ASSUME Accepts(c, p) PROVE staged \in Staging
  <2>1. staged.len # 0
    BY <1>1 DEF Accepts, SubmitError
  <2> QED BY <2>1 DEF RingsTypeOK, Descriptor, ResetDescriptor
<1>2. ASSUME Rejects(c, p) PROVE RejectRecord(p) \in Refusal
  <2>1. SubmitError(p) \in RejectError
    BY <1>2 DEF Rejects, SubmitError, RejectError
  <2> QED BY <2>1 DEF RejectRecord, Refusal, RingsTypeOK
<1> QED BY <1>1, <1>2 DEF Accepted, Refused, Popped, Service!Maybe

\* An edge without collisions is one step of the service.
LEMMA OperateServes ==
  ASSUME SpacedInv, NEW c \in RingCommand, NEW p \in PowerState,
         Operate(c, p), ~Collides(c, p)
  PROVE  Aligned' /\ Service!Advance
<1>1. RingsTypeOK /\ active \in Descriptor /\ retire \in Record
  BY DEF SpacedInv, QueueInv, TypeOK
<1>2. Aligned
  BY DEF SpacedInv
<1>3. /\ Accepted(c, p) \in Service!Maybe(Staging)
      /\ Refused(c, p) \in Service!Maybe(Refusal)
      /\ Popped(c) \in {0, 1} /\ (Popped(c) = 1 => Pops(c))
  BY <1>1, SoftwareActs
<1>4. ASSUME NEW fin \in Record, RingsStep(c, p, FALSE, fin), ~Launches(p),
             fin # NoRecord => Retires /\ ~CompFull
      PROVE  /\ Aligned'
             /\ Pending' = Pending \o Accepted(c, p)
             /\ Pops(c) => Done # <<>> /\ Accepted(c, p) = <<>> /\ Refused(c, p) = <<>>
             /\ fin = NoRecord => Done' = Service!Drop(Done, Popped(c)) \o Refused(c, p)
             /\ fin # NoRecord =>
                  Done' = Append(Service!Drop(Done, Popped(c)) \o Refused(c, p), fin)
  <2>1. fin # NoRecord => ~Pops(c) /\ ~Rejects(c, p)
    BY <1>4 DEF Collides
  <2>2. SubmitStep(c, p, FALSE) /\ CompStep(c, p, fin)
    BY <1>4 DEF RingsStep
  <2> QED BY <1>1, <1>2, <1>4, <2>1, <2>2, PendingStep, DoneStep DEF Aligned
<1>5. CASE Launch(c, p)
  <2>1. /\ RingsStep(c, p, TRUE, NoRecord) /\ ~SubmitEmpty /\ ~Accepts(c, p)
        /\ ~busy /\ busy' /\ active' = submitSlots[submitHead]
    BY <1>5 DEF Launch, Launches, Collides
  <2>2. SubmitStep(c, p, TRUE) /\ CompStep(c, p, NoRecord)
    BY <2>1 DEF RingsStep
  <2>3. /\ submitTail' = Wrap(submitHead' + submitCount', SUBMIT_QUEUE_DEPTH)
        /\ Pending # <<>> /\ Head(Pending) = submitSlots[submitHead]
        /\ Pending' = Tail(Pending) \o Accepted(c, p)
    BY <1>1, <1>2, <2>1, <2>2, PendingStep
  <2>4. /\ compTail' = Wrap(compHead' + compCount', COMP_QUEUE_DEPTH)
        /\ Pops(c) => Done # <<>> /\ Accepted(c, p) = <<>> /\ Refused(c, p) = <<>>
        /\ Done' = Service!Drop(Done, Popped(c)) \o Refused(c, p)
    BY <1>1, <1>2, <2>2, ResetTypes, DoneStep
  <2>5. Current = <<>> /\ Current' = <<Head(Pending)>>
    BY <2>1, <2>3 DEF Current
  <2> QED BY <1>3, <2>3, <2>4, <2>5 DEF Aligned, Service!Advance, Pending, Done, Current
<1>6. ASSUME NEW r \in Outcome(active), RingsStep(c, p, FALSE, r), EngineIdle, busy, ~CompFull
      PROVE  Aligned' /\ Service!Advance
  <2>1. r \in Record /\ r # NoRecord /\ ~Launches(p) /\ Retires
    BY <1>1, <1>6, OutcomeType DEF Launches, Retires, EngineIdle
  <2>2. /\ Aligned'
        /\ Pending' = Pending \o Accepted(c, p)
        /\ Pops(c) => Done # <<>> /\ Accepted(c, p) = <<>> /\ Refused(c, p) = <<>>
        /\ Done' = Append(Service!Drop(Done, Popped(c)) \o Refused(c, p), r)
    BY <1>4, <1>6, <2>1
  <2>3. Current # <<>> /\ Current[1] = active /\ Current' = <<>>
    BY <1>6 DEF Current, EngineIdle
  <2> QED BY <1>3, <1>6, <2>2, <2>3 DEF Service!Advance, Pending, Done, Current
<1>7. CASE Finish(c, p)
  BY <1>6, <1>7 DEF Finish
<1>8. CASE Release(c, p)
  BY <1>6, <1>8 DEF Release, SpacedInv, QueueInv, RetireBelongsToActive
<1>9. CASE Stall(c, p) \/ Hold(c, p)
  <2>1. /\ RingsStep(c, p, FALSE, NoRecord) /\ ~Launches(p)
        /\ busy' = busy /\ active' = active
    BY <1>9 DEF Stall, Hold, Launches, engineVars
  <2>2. /\ Aligned'
        /\ Pending' = Pending \o Accepted(c, p)
        /\ Pops(c) => Done # <<>> /\ Accepted(c, p) = <<>> /\ Refused(c, p) = <<>>
        /\ Done' = Service!Drop(Done, Popped(c)) \o Refused(c, p)
    BY <1>4, <2>1, ResetTypes
  <2>3. Current' = Current
    BY <2>1 DEF Current
  <2> QED BY <1>3, <2>2, <2>3 DEF Service!Advance, Pending, Done, Current
<1> QED BY <1>5, <1>7, <1>8, <1>9 DEF Operate

\* A reset leaves three empty sequences.
LEMMA ClearServes ==
  ASSUME RingsClear, EngineIdle
  PROVE  Aligned' /\ Service!Reset
<1>1. Aligned'
  BY DepthAssumption DEF RingsClear, Aligned, Wrap
<1>2. Pending' = <<>> /\ Done' = <<>> /\ Current' = <<>>
  BY DEF RingsClear, EngineIdle, Pending, Done, Current, Contents
<1> QED BY <1>1, <1>2 DEF Service!Reset, Pending, Done, Current

\* With resets, and with the depths that bound the sequences.
LEMMA SpacedStepServes ==
  ASSUME SpacedInv, [SpacedNext]_vars
  PROVE  SpacedInv' /\ [Service!ServiceNext]_(Service!serviceVars)
<1>1. QueueInv'
  BY NextInv DEF SpacedInv, SpacedNext, Next
<1>2. CASE UNCHANGED vars
  BY <1>1, <1>2
  DEF vars, ringVars, submitVars, compVars, engineVars, SpacedInv, Aligned, Service!serviceVars
<1>3. CASE SpacedNext
  <2>1. Aligned' /\ (Service!Advance \/ Service!Reset)
    BY <1>3, OperateServes, ClearServes DEF SpacedNext, Edge, SoftReset, DeepSleep
  <2>2. Len(Pending') <= SUBMIT_QUEUE_DEPTH /\ Len(Done') <= COMP_QUEUE_DEPTH
    <3>1. RingsTypeOK'
      BY <1>1 DEF QueueInv, TypeOK
    <3>2. (/\ Pending \in Seq(Descriptor) /\ Len(Pending) = submitCount
           /\ Done \in Seq(Record) /\ Len(Done) = compCount)'
      BY <3>1, RingsAreSeqs, PTL
    <3> QED BY <3>1, <3>2, DepthAssumption DEF RingsTypeOK
  <2> QED BY <1>1, <2>1, <2>2 DEF SpacedInv, Service!ServiceNext, Pending, Done
<1> QED BY <1>2, <1>3

\* Software that keeps off the colliding edges is served in order, and every
\* descriptor it had accepted ends in exactly one record, for every depth of
\* the rings, whatever software, the engine and the power state do meanwhile.
THEOREM SpacedQueuesServe == SpacedSpec => OrderedService
<1>1. Init => SpacedInv /\ Service!ServiceInit
  <2> SUFFICES ASSUME Init PROVE SpacedInv /\ Service!ServiceInit
    OBVIOUS
  <2>1. Aligned
    BY DepthAssumption DEF Init, RingsInit, Aligned, Wrap
  <2>2. Pending = <<>> /\ Done = <<>> /\ Current = <<>>
    BY DEF Init, RingsInit, Pending, Done, Current, Contents
  <2> QED BY InitInv, <2>1, <2>2 DEF SpacedInv, Service!ServiceInit, Pending, Done, Current
<1>2. SpacedInv /\ [SpacedNext]_vars
        => SpacedInv' /\ [Service!ServiceNext]_(Service!serviceVars)
  BY SpacedStepServes
<1> QED BY <1>1, <1>2, PTL DEF SpacedSpec, OrderedService, Service!ServiceSpec
=============================================================================
