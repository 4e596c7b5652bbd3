-------------------------- MODULE DmaRings_proofs ---------------------------
(***************************************************************************)
(* What one clock edge does to the rings, for every depth and every set of *)
(* descriptors: lemmas the proofs about DmaQueues and DmaOffload share.    *)
(***************************************************************************)
EXTENDS DmaRings, TLAPS

-----------------------------------------------------------------------------
\* A ring pointer moves inside its ring.
LEMMA NextPtrInRing ==
  ASSUME NEW depth \in Nat \ {0}, NEW ptr \in 0 .. depth - 1
  PROVE  NextPtr(ptr, depth) \in 0 .. depth - 1
BY DEF NextPtr

\* A submission is accepted only when a slot is free.
LEMMA AcceptsIntoFreeSlot ==
  ASSUME NEW c, NEW p, Accepts(c, p)
  PROVE  ~SubmitFull
BY DEF Accepts, SubmitError

\* The record of a refused submission is a record.
LEMMA RejectRecordType ==
  ASSUME staged \in Descriptor, NEW c, NEW p, Rejects(c, p)
  PROVE  RejectRecord(p) \in Record
<1>1. staged.tag \in Nat
  BY StagingAssumption, DepthAssumption DEF Descriptor, ResetDescriptor
<1>2. SubmitError(p) \in RejectError
  BY DEF Rejects, SubmitError, RejectError
<1> QED BY <1>1, <1>2 DEF RejectRecord, Record

\* An operating edge keeps the rings well typed, if the engine launches only
\* from a submit ring that is not empty and retires only a record into a
\* completion ring that is not full.
LEMMA RingsStepType ==
  ASSUME RingsTypeOK, NEW c, NEW p, NEW launch \in BOOLEAN,
         NEW fin \in Record, c.op = "stage" => c.desc \in Staging,
         launch => ~SubmitEmpty, fin # NoRecord => ~CompFull,
         RingsStep(c, p, launch, fin)
  PROVE  RingsTypeOK'
<1> USE DepthAssumption
<1>1. /\ NextPtr(submitTail, SUBMIT_QUEUE_DEPTH) \in 0 .. SUBMIT_QUEUE_DEPTH - 1
      /\ NextPtr(submitHead, SUBMIT_QUEUE_DEPTH) \in 0 .. SUBMIT_QUEUE_DEPTH - 1
      /\ NextPtr(compTail, COMP_QUEUE_DEPTH) \in 0 .. COMP_QUEUE_DEPTH - 1
      /\ NextPtr(compHead, COMP_QUEUE_DEPTH) \in 0 .. COMP_QUEUE_DEPTH - 1
  BY NextPtrInRing DEF RingsTypeOK
<1>2. staged' \in Descriptor
  BY DEF RingsTypeOK, RingsStep, StagingStep, Descriptor
<1>3. submitSlots' \in [0 .. SUBMIT_QUEUE_DEPTH - 1 -> Descriptor]
  BY DEF RingsTypeOK, RingsStep, SubmitStep
<1>4. /\ submitHead' \in 0 .. SUBMIT_QUEUE_DEPTH - 1
      /\ submitTail' \in 0 .. SUBMIT_QUEUE_DEPTH - 1
  BY <1>1 DEF RingsTypeOK, RingsStep, SubmitStep
<1>5. submitCount' \in 0 .. SUBMIT_QUEUE_DEPTH
  <2>1. CASE launch
    BY <2>1 DEF RingsTypeOK, RingsStep, SubmitStep, SubmitEmpty
  <2>2. CASE ~launch /\ Accepts(c, p)
    BY <2>2, AcceptsIntoFreeSlot DEF RingsTypeOK, RingsStep, SubmitStep, SubmitFull
  <2>3. CASE ~launch /\ ~Accepts(c, p)
    BY <2>3 DEF RingsTypeOK, RingsStep, SubmitStep
  <2> QED BY <2>1, <2>2, <2>3
<1>6. comp' \in [0 .. COMP_QUEUE_DEPTH - 1 -> Record]
  <2>1. Pushes(c, p, fin) =>
          (IF fin # NoRecord THEN fin ELSE RejectRecord(p)) \in Record
    BY RejectRecordType DEF RingsTypeOK, Pushes
  <2> QED BY <2>1 DEF RingsTypeOK, RingsStep, CompStep
<1>7. /\ compHead' \in 0 .. COMP_QUEUE_DEPTH - 1
      /\ compTail' \in 0 .. COMP_QUEUE_DEPTH - 1
  BY <1>1 DEF RingsTypeOK, RingsStep, CompStep
<1>8. compCount' \in 0 .. COMP_QUEUE_DEPTH
  <2>1. CASE Pushes(c, p, fin)
    BY <2>1 DEF RingsTypeOK, RingsStep, CompStep, Pushes, CompFull
  <2>2. CASE ~Pushes(c, p, fin) /\ Pops(c)
    BY <2>2 DEF RingsTypeOK, RingsStep, CompStep, Pops, CompEmpty
  <2>3. CASE ~Pushes(c, p, fin) /\ ~Pops(c)
    BY <2>3 DEF RingsTypeOK, RingsStep, CompStep
  <2> QED BY <2>1, <2>2, <2>3
<1>9. rejectOverflow' \in 0 .. REJECT_OVF_MAX
  BY DEF RingsTypeOK, RingsStep, OverflowStep
<1> QED BY <1>2, <1>3, <1>4, <1>5, <1>6, <1>7, <1>8, <1>9 DEF RingsTypeOK

\* Soft reset and DEEP_SLEEP keep the rings well typed.
LEMMA RingsClearType ==
  ASSUME RingsTypeOK, RingsClear, staged' \in Descriptor
  PROVE  RingsTypeOK'
BY DepthAssumption DEF RingsTypeOK, RingsClear

LEMMA ResetTypes == ResetDescriptor \in Descriptor /\ NoRecord \in Record
BY DEF Descriptor, Record, NoRecord

\* What an operating edge does to the distance between the pointers of the
\* submit ring and its count: only an accepted doorbell on a launch edge
\* pulls them apart.
LEMMA SubmitDriftStep ==
  ASSUME RingsTypeOK, NEW c, NEW p, NEW launch \in BOOLEAN,
         launch => ~SubmitEmpty, SubmitStep(c, p, launch)
  PROVE  SubmitDrift' = Bump(SubmitDrift, SUBMIT_QUEUE_DEPTH, Accepts(c, p) /\ launch)
<1> DEFINE D == SUBMIT_QUEUE_DEPTH
<1>1. /\ D \in Nat \ {0}
      /\ submitHead \in 0 .. D - 1 /\ submitTail \in 0 .. D - 1
      /\ submitCount \in 0 .. D
      /\ launch => submitCount # 0
      /\ Accepts(c, p) => submitCount # D
  BY DepthAssumption, AcceptsIntoFreeSlot DEF RingsTypeOK, SubmitEmpty, SubmitFull
<1>2. CASE launch /\ Accepts(c, p)
  <2>1. /\ submitHead' = NextPtr(submitHead, D)
        /\ submitTail' = NextPtr(submitTail, D)
        /\ submitCount' = submitCount - 1
    BY <1>2 DEF SubmitStep
  <2> QED BY <1>1, <1>2, <2>1 DEF SubmitDrift, Bump, Wrap, NextPtr
<1>3. CASE launch /\ ~Accepts(c, p)
  <2>1. /\ submitHead' = NextPtr(submitHead, D)
        /\ submitTail' = submitTail
        /\ submitCount' = submitCount - 1
    BY <1>3 DEF SubmitStep
  <2> QED BY <1>1, <1>3, <2>1 DEF SubmitDrift, Bump, Wrap, NextPtr
<1>4. CASE ~launch /\ Accepts(c, p)
  <2>1. /\ submitHead' = submitHead
        /\ submitTail' = NextPtr(submitTail, D)
        /\ submitCount' = submitCount + 1
    BY <1>4 DEF SubmitStep
  <2> QED BY <1>1, <1>4, <2>1 DEF SubmitDrift, Bump, Wrap, NextPtr
<1>5. CASE ~launch /\ ~Accepts(c, p)
  <2>1. /\ submitHead' = submitHead
        /\ submitTail' = submitTail
        /\ submitCount' = submitCount
    BY <1>5 DEF SubmitStep
  <2> QED BY <1>1, <1>5, <2>1 DEF SubmitDrift, Bump, Wrap
<1> QED BY <1>2, <1>3, <1>4, <1>5

\* The same for the completion ring: only a pop on the edge of a push does.
LEMMA CompDriftStep ==
  ASSUME RingsTypeOK, NEW c, NEW p, NEW fin, fin # NoRecord => ~CompFull, CompStep(c, p, fin)
  PROVE  CompDrift' = Bump(CompDrift, COMP_QUEUE_DEPTH, Pops(c) /\ Pushes(c, p, fin))
<1> DEFINE D == COMP_QUEUE_DEPTH
<1>1. /\ D \in Nat \ {0}
      /\ compHead \in 0 .. D - 1 /\ compTail \in 0 .. D - 1
      /\ compCount \in 0 .. D
      /\ Pushes(c, p, fin) => compCount # D
      /\ Pops(c) => compCount # 0
  BY DepthAssumption DEF RingsTypeOK, Pushes, Pops, CompFull, CompEmpty
<1>2. CASE Pushes(c, p, fin) /\ Pops(c)
  <2>1. /\ compHead' = NextPtr(compHead, D)
        /\ compTail' = NextPtr(compTail, D)
        /\ compCount' = compCount + 1
    BY <1>2 DEF CompStep
  <2> QED BY <1>1, <1>2, <2>1 DEF CompDrift, Bump, Wrap, NextPtr
<1>3. CASE Pushes(c, p, fin) /\ ~Pops(c)
  <2>1. /\ compHead' = compHead
        /\ compTail' = NextPtr(compTail, D)
        /\ compCount' = compCount + 1
    BY <1>3 DEF CompStep
  <2> QED BY <1>1, <1>3, <2>1 DEF CompDrift, Bump, Wrap, NextPtr
<1>4. CASE ~Pushes(c, p, fin) /\ Pops(c)
  <2>1. /\ compHead' = NextPtr(compHead, D)
        /\ compTail' = compTail
        /\ compCount' = compCount - 1
    BY <1>4 DEF CompStep
  <2> QED BY <1>1, <1>4, <2>1 DEF CompDrift, Bump, Wrap, NextPtr
<1>5. CASE ~Pushes(c, p, fin) /\ ~Pops(c)
  <2>1. /\ compHead' = compHead
        /\ compTail' = compTail
        /\ compCount' = compCount
    BY <1>5 DEF CompStep
  <2> QED BY <1>1, <1>5, <2>1 DEF CompDrift, Bump, Wrap
<1> QED BY <1>2, <1>3, <1>4, <1>5

\* A sum that fits nine bits is kept as it is.
LEMMA NoWrap ==
  ASSUME NEW x \in 0 .. SUM_SPAN - 1
  PROVE  x % SUM_SPAN = x
BY DepthAssumption

-----------------------------------------------------------------------------
\* What the doorbell lets through is legal.
LEMMA AcceptedLegal ==
  ASSUME staged \in Descriptor, NEW c, NEW p, Accepts(c, p)
  PROVE  Legal(staged)
<1>1. SubmitError(p) = "NONE"
  BY DEF Accepts
<1>2. /\ staged.len # 0 /\ staged.len % 2 # 1
      /\ ~(StagedSum(staged.src) > SRAM_DEPTH \/ StagedSum(staged.dst) > SRAM_DEPTH)
  BY <1>1 DEF SubmitError
<1>3. staged # ResetDescriptor
  BY <1>2 DEF ResetDescriptor
<1>4. /\ staged.src \in 0 .. SRAM_DEPTH - 1
      /\ staged.dst \in 0 .. SRAM_DEPTH - 1
      /\ staged.len \in 0 .. SUM_SPAN - 1
  BY <1>3, StagingAssumption DEF Descriptor
<1>5. staged.len % 2 = 0
  BY <1>2, <1>4, DepthAssumption
<1>6. ASSUME NEW base \in 0 .. SRAM_DEPTH - 1, ~(StagedSum(base) > SRAM_DEPTH)
      PROVE  Passes(base + staged.len)
  <2> SUFFICES ASSUME base + staged.len \in SRAM_DEPTH + 1 .. SUM_SPAN - 1
               PROVE  FALSE
    BY DEF Passes
  <2>1. base + staged.len \in 0 .. SUM_SPAN - 1 /\ base + staged.len > SRAM_DEPTH
    BY <1>4, <1>6, DepthAssumption
  <2>2. StagedSum(base) = base + staged.len
    BY <2>1, NoWrap DEF StagedSum
  <2> QED BY <1>6, <2>1, <2>2
<1>7. Passes(staged.src + staged.len) /\ Passes(staged.dst + staged.len)
  BY <1>2, <1>4, <1>6
<1> QED BY <1>2, <1>5, <1>7 DEF Legal

\* The slots the engine can reach were written by a doorbell.  A drifted
\* count is too low, so it never reaches past the tail; once the tail has
\* gone round, every slot has been written.
LegalSlots ==
  \/ \A i \in 0 .. SUBMIT_QUEUE_DEPTH - 1 : Legal(submitSlots[i])
  \/ /\ submitHead + submitCount <= submitTail
     /\ \A i \in 0 .. submitTail - 1 : Legal(submitSlots[i])

LEMMA FrontLegal ==
  ASSUME RingsTypeOK, LegalSlots, ~SubmitEmpty
  PROVE  Legal(submitSlots[submitHead])
BY DepthAssumption DEF RingsTypeOK, LegalSlots, SubmitEmpty

LEMMA LegalSlotsStep ==
  ASSUME RingsTypeOK, LegalSlots, NEW c, NEW p, NEW launch \in BOOLEAN,
         launch => ~SubmitEmpty, SubmitStep(c, p, launch)
  PROVE  LegalSlots'
<1> DEFINE D == SUBMIT_QUEUE_DEPTH
<1>1. /\ D \in Nat \ {0}
      /\ submitHead \in 0 .. D - 1 /\ submitTail \in 0 .. D - 1
      /\ submitCount \in 0 .. D
      /\ submitSlots \in [0 .. D - 1 -> Descriptor]
      /\ launch => submitCount # 0
  BY DepthAssumption DEF RingsTypeOK, SubmitEmpty
<1>2. \A i \in 0 .. D - 1 : Legal(submitSlots[i]) => Legal(submitSlots'[i])
  <2>1. CASE Accepts(c, p)
    <3>1. Legal(staged)
      BY <2>1, AcceptedLegal DEF RingsTypeOK
    <3>2. submitSlots' = [submitSlots EXCEPT ![submitTail] = staged]
      BY <2>1 DEF SubmitStep
    <3> QED BY <1>1, <3>1, <3>2
  <2>2. CASE ~Accepts(c, p)
    BY <2>2 DEF SubmitStep
  <2> QED BY <2>1, <2>2
<1>3. Accepts(c, p) => Legal(submitSlots'[submitTail])
  <2> SUFFICES ASSUME Accepts(c, p) PROVE Legal(submitSlots'[submitTail])
    OBVIOUS
  <2>1. Legal(staged)
    BY AcceptedLegal DEF RingsTypeOK
  <2>2. submitSlots' = [submitSlots EXCEPT ![submitTail] = staged]
    BY DEF SubmitStep
  <2> QED BY <1>1, <2>1, <2>2
<1>4. CASE \A i \in 0 .. D - 1 : Legal(submitSlots[i])
  BY <1>2, <1>4 DEF LegalSlots
<1>5. CASE /\ submitHead + submitCount <= submitTail
           /\ \A i \in 0 .. submitTail - 1 : Legal(submitSlots[i])
  <2>1. CASE Accepts(c, p) /\ submitTail = D - 1
    BY <1>1, <1>2, <1>3, <1>5, <2>1 DEF LegalSlots
  <2>2. CASE Accepts(c, p) /\ submitTail # D - 1
    <3>1. submitTail' = submitTail + 1
      BY <2>2 DEF SubmitStep, NextPtr
    <3>2. submitHead' + submitCount' <= submitTail'
      BY <1>1, <1>5, <2>2, <3>1 DEF SubmitStep, NextPtr
    <3>3. \A i \in 0 .. submitTail' - 1 : Legal(submitSlots'[i])
      BY <1>1, <1>2, <1>3, <1>5, <2>2, <3>1
    <3> QED BY <3>2, <3>3 DEF LegalSlots
  <2>3. CASE ~Accepts(c, p)
    <3>1. submitTail' = submitTail
      BY <2>3 DEF SubmitStep
    <3>2. submitHead' + submitCount' <= submitTail'
      BY <1>1, <1>5, <2>3, <3>1 DEF SubmitStep, NextPtr
    <3>3. \A i \in 0 .. submitTail' - 1 : Legal(submitSlots'[i])
      BY <1>1, <1>2, <1>5, <3>1
    <3> QED BY <3>2, <3>3 DEF LegalSlots
  <2> QED BY <2>1, <2>2, <2>3
<1> QED BY <1>4, <1>5 DEF LegalSlots

LEMMA LegalSlotsReset ==
  ASSUME submitHead' = 0, submitTail' = 0, submitCount' = 0
  PROVE  LegalSlots'
BY DEF LegalSlots
=============================================================================
