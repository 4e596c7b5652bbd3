------------------------------ MODULE DmaRings ------------------------------
(***************************************************************************)
(* The submit ring and the completion ring of dma_offload_ctrl, with the   *)
(* staging registers and the submission checks in front of them.           *)
(*                                                                         *)
(* The rings live in one always_ff block: within a clock edge every        *)
(* condition reads the registers as they were before the edge, and when    *)
(* two statements assign one register the later statement wins.  The       *)
(* operators below give each register its value after an edge in which     *)
(* the command c arrives under the power state p, the engine does or does  *)
(* not take a descriptor (launch), and it does or does not retire a        *)
(* completion record (fin).                                                *)
(***************************************************************************)
EXTENDS Integers, Sequences

CONSTANTS
  SUBMIT_QUEUE_DEPTH, \* slots of the submit ring
  COMP_QUEUE_DEPTH,   \* slots of the completion ring
  SRAM_DEPTH,         \* words of the source and of the destination memory
  SUM_SPAN,           \* 2^9: a length, and base plus length, have 9 bits, a base has 8
  REJECT_OVF_MAX,     \* 2^32 - 1: where reject_overflow_count_q saturates
  RuntimeError,       \* the runtime errors in play: ERR_TIMEOUT, ERR_MEM_PARITY, ERR_MEM_INVALID
  Staging             \* the descriptors software may stage

ASSUME DepthAssumption ==
  /\ SUBMIT_QUEUE_DEPTH \in Nat \ {0}
  /\ COMP_QUEUE_DEPTH \in Nat \ {0}
  /\ REJECT_OVF_MAX \in Nat
  /\ SRAM_DEPTH \in Nat \ {0}
  /\ SUM_SPAN = 2 * SRAM_DEPTH

ASSUME ErrorAssumption == RuntimeError \subseteq {"TIMEOUT", "MEM_PARITY", "MEM_INVALID"}

ASSUME StagingAssumption ==
  Staging \subseteq [src: 0 .. SRAM_DEPTH - 1, dst: 0 .. SRAM_DEPTH - 1,
                     len: 0 .. SUM_SPAN - 1, tag: Nat]

VARIABLES
  staged,         \* staged_src_base_q, staged_dst_base_q, staged_len_words_q, staged_tag_q
  submitSlots,    \* submit_src_base_q[], submit_dst_base_q[], submit_len_words_q[], submit_tag_q[]
  submitHead,     \* submit_head_q
  submitTail,     \* submit_tail_q
  submitCount,    \* submit_count_q
  comp,           \* comp_tag_q[], comp_status_q[], comp_err_code_q[], comp_words_q[]
  compHead,       \* comp_head_q
  compTail,       \* comp_tail_q
  compCount,      \* comp_count_q
  rejectOverflow  \* reject_overflow_count_q

submitVars == <<submitSlots, submitHead, submitTail, submitCount>>
compVars == <<comp, compHead, compTail, compCount>>
ringVars == <<staged, submitVars, compVars, rejectOverflow>>

-----------------------------------------------------------------------------
PowerState == {"RUN", "CRYPTO_ONLY", "SLEEP", "DEEP_SLEEP"}

ResetDescriptor == [src |-> 0, dst |-> 0, len |-> 0, tag |-> 0]

Descriptor == Staging \cup {ResetDescriptor}

RejectError == {"ODD_LEN", "RANGE", "QUEUE_FULL", "SUBMIT_BLOCKED"}

Record == [tag: Nat, status: {"RSVD", "SUCCESS", "RUNTIME_ERROR", "SUBMIT_REJECT"},
           err: {"NONE"} \cup RejectError \cup RuntimeError, words: Nat]

\* The reset value of the retire registers and of a completion slot; no
\* completion is ever pushed with it.
NoRecord == [tag |-> 0, status |-> "RSVD", err |-> "NONE", words |-> 0]

\* One write through the CSR port in one cycle: a staging register, the start
\* or the soft reset bit of CTRL, or COMP_POP.  "idle" is every other access.
RingCommand == [op: {"idle", "start", "pop", "softReset"}]
               \cup [op: {"stage"}, desc: Staging]

-----------------------------------------------------------------------------
SubmitEmpty == submitCount = 0
SubmitFull == submitCount = SUBMIT_QUEUE_DEPTH
CompEmpty == compCount = 0
CompFull == compCount = COMP_QUEUE_DEPTH

NextPtr(ptr, depth) == IF ptr = depth - 1 THEN 0 ELSE ptr + 1

\* Mutant of StagedSum: the sum has only the bits of a base.
StagedSumNarrow(base) == (base + staged.len) % SRAM_DEPTH

\* base + len as the 9-bit staged_src_sum and staged_dst_sum hold it.
StagedSum(base) == (base + staged.len) % SUM_SPAN

SubmitError(p) ==
  IF p = "CRYPTO_ONLY" THEN "SUBMIT_BLOCKED"
  ELSE IF staged.len = 0 \/ staged.len % 2 = 1 THEN "ODD_LEN"
  ELSE IF StagedSum(staged.src) > SRAM_DEPTH \/ StagedSum(staged.dst) > SRAM_DEPTH THEN "RANGE"
  ELSE IF SubmitFull THEN "QUEUE_FULL"
  ELSE "NONE"

\* Mutant of Accepts: a full ring still takes the descriptor.
AcceptsWhenFull(c, p) == c.op = "start" /\ SubmitError(p) \in {"NONE", "QUEUE_FULL"}

Accepts(c, p) == c.op = "start" /\ SubmitError(p) = "NONE"

Rejects(c, p) == c.op = "start" /\ SubmitError(p) # "NONE"

RejectRecord(p) ==
  [tag |-> staged.tag, status |-> "SUBMIT_REJECT", err |-> SubmitError(p), words |-> 0]

Pops(c) == c.op = "pop" /\ ~CompEmpty

-----------------------------------------------------------------------------
StagingStep(c) == staged' = IF c.op = "stage" THEN c.desc ELSE staged

\* Mutant of SubmitStep: a launch does not move the head.
HeadStays(c, p, launch) ==
  /\ submitSlots' = IF Accepts(c, p) THEN [submitSlots EXCEPT ![submitTail] = staged]
                                     ELSE submitSlots
  /\ submitTail' = IF Accepts(c, p) THEN NextPtr(submitTail, SUBMIT_QUEUE_DEPTH)
                                    ELSE submitTail
  /\ submitHead' = submitHead
  /\ submitCount' = IF launch THEN submitCount - 1
                    ELSE IF Accepts(c, p) THEN submitCount + 1
                    ELSE submitCount

\* The launch is the last statement of the block: its decrement of the count
\* overrides the increment of an accepted doorbell.
SubmitStep(c, p, launch) ==
  /\ submitSlots' = IF Accepts(c, p) THEN [submitSlots EXCEPT ![submitTail] = staged]
                                     ELSE submitSlots
  /\ submitTail' = IF Accepts(c, p) THEN NextPtr(submitTail, SUBMIT_QUEUE_DEPTH)
                                    ELSE submitTail
  /\ submitHead' = IF launch THEN NextPtr(submitHead, SUBMIT_QUEUE_DEPTH) ELSE submitHead
  /\ submitCount' = IF launch THEN submitCount - 1
                    ELSE IF Accepts(c, p) THEN submitCount + 1
                    ELSE submitCount

\* The engine's push_completion comes after the doorbell's, and both come
\* after COMP_POP: a retired record takes the slot of a reject of the same
\* edge, and any push overrides the decrement of a pop.
Pushes(c, p, fin) == fin # NoRecord \/ (Rejects(c, p) /\ ~CompFull)

CompStep(c, p, fin) ==
  /\ comp' = IF Pushes(c, p, fin)
               THEN [comp EXCEPT ![compTail] = IF fin # NoRecord THEN fin ELSE RejectRecord(p)]
               ELSE comp
  /\ compTail' = IF Pushes(c, p, fin) THEN NextPtr(compTail, COMP_QUEUE_DEPTH) ELSE compTail
  /\ compHead' = IF Pops(c) THEN NextPtr(compHead, COMP_QUEUE_DEPTH) ELSE compHead
  /\ compCount' = IF Pushes(c, p, fin) THEN compCount + 1
                  ELSE IF Pops(c) THEN compCount - 1
                  ELSE compCount

OverflowStep(c, p) ==
  rejectOverflow' = IF Rejects(c, p) /\ CompFull /\ rejectOverflow # REJECT_OVF_MAX
                      THEN rejectOverflow + 1
                      ELSE rejectOverflow

RingsStep(c, p, launch, fin) ==
  /\ StagingStep(c)
  /\ SubmitStep(c, p, launch)
  /\ CompStep(c, p, fin)
  /\ OverflowStep(c, p)

\* Mutant of RingsClear: the head of the submit ring is forgotten.
ClearKeepsHead ==
  /\ submitTail' = 0 /\ submitCount' = 0
  /\ compHead' = 0 /\ compTail' = 0 /\ compCount' = 0
  /\ UNCHANGED <<submitHead, submitSlots, comp, rejectOverflow>>

\* Soft reset and DEEP_SLEEP zero the pointers and the counts and leave the
\* slots and the overflow count alone; only DEEP_SLEEP zeroes the staging.
RingsClear ==
  /\ submitHead' = 0 /\ submitTail' = 0 /\ submitCount' = 0
  /\ compHead' = 0 /\ compTail' = 0 /\ compCount' = 0
  /\ UNCHANGED <<submitSlots, comp, rejectOverflow>>

RingsInit ==
  /\ staged = ResetDescriptor
  /\ submitSlots = [i \in 0 .. SUBMIT_QUEUE_DEPTH - 1 |-> ResetDescriptor]
  /\ submitHead = 0 /\ submitTail = 0 /\ submitCount = 0
  /\ comp = [i \in 0 .. COMP_QUEUE_DEPTH - 1 |-> NoRecord]
  /\ compHead = 0 /\ compTail = 0 /\ compCount = 0
  /\ rejectOverflow = 0

-----------------------------------------------------------------------------
RingsTypeOK ==
  /\ staged \in Descriptor
  /\ submitSlots \in [0 .. SUBMIT_QUEUE_DEPTH - 1 -> Descriptor]
  /\ submitHead \in 0 .. SUBMIT_QUEUE_DEPTH - 1
  /\ submitTail \in 0 .. SUBMIT_QUEUE_DEPTH - 1
  /\ submitCount \in 0 .. SUBMIT_QUEUE_DEPTH
  /\ comp \in [0 .. COMP_QUEUE_DEPTH - 1 -> Record]
  /\ compHead \in 0 .. COMP_QUEUE_DEPTH - 1
  /\ compTail \in 0 .. COMP_QUEUE_DEPTH - 1
  /\ compCount \in 0 .. COMP_QUEUE_DEPTH
  /\ rejectOverflow \in 0 .. REJECT_OVF_MAX

\* An index, a distance or a drift brought back into 0 .. depth - 1 from at
\* most one depth outside.
Wrap(x, depth) == IF x < 0 THEN x + depth ELSE IF x >= depth THEN x - depth ELSE x

\* How far the registered counts have drifted from the pointers: 0 in a ring
\* whose count is the distance from its head to its tail.  A drifted submit
\* count is too low (descriptors stranded), a drifted completion count too
\* high (records that are not there).
SubmitDrift ==
  Wrap(Wrap(submitTail - submitHead, SUBMIT_QUEUE_DEPTH) - submitCount, SUBMIT_QUEUE_DEPTH)

CompDrift ==
  Wrap(compCount - Wrap(compTail - compHead, COMP_QUEUE_DEPTH), COMP_QUEUE_DEPTH)

\* A drift after an edge that did or did not move the count off its pointers.
Bump(drift, depth, collision) == Wrap(drift + (IF collision THEN 1 ELSE 0), depth)

\* The ends ERR_RANGE lets through: inside the memory or at its end, and those
\* so far behind it that the sum wraps.
Passes(end) == end \notin SRAM_DEPTH + 1 .. SUM_SPAN - 1

\* The descriptors that neither ERR_ODD_LEN nor ERR_RANGE refuses.
Legal(d) ==
  /\ d.len # 0 /\ d.len % 2 = 0
  /\ Passes(d.src + d.len) /\ Passes(d.dst + d.len)
=============================================================================
