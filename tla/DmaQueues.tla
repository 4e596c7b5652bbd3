------------------------------ MODULE DmaQueues ------------------------------
(***************************************************************************)
(* The queues of dma_offload_ctrl with the engine between them reduced to  *)
(* what the queues see of it: it takes the oldest descriptor, keeps it for *)
(* any number of cycles, and ends it with one completion record, which     *)
(* waits in the retire registers while the completion ring is full.        *)
(*                                                                         *)
(* One step is one clock edge.  DmaOffload is the same block with the      *)
(* engine in full and is shown to implement this module.                   *)
(***************************************************************************)
EXTENDS DmaRings

VARIABLES
  busy,    \* active_valid_q
  active,  \* active_src_base_q, active_dst_base_q, active_len_words_q, active_tag_q
  retire   \* the retire_* registers while comp_full_stall_q is set, else NoRecord

engineVars == <<busy, active, retire>>
vars == <<ringVars, engineVars>>

-----------------------------------------------------------------------------
Stalled == retire # NoRecord

Completion(d, status, err, words) ==
  [tag |-> d.tag, status |-> status, err |-> err, words |-> words]

\* The records a descriptor may end with: all its words returned, or a
\* runtime error with the number of words returned so far.
Outcome(d) ==
  {Completion(d, "SUCCESS", "NONE", d.len)} \cup
  {Completion(d, "RUNTIME_ERROR", e, n) : e \in RuntimeError, n \in 0 .. d.len - 1}

Launches(p) == ~busy /\ p = "RUN" /\ ~Stalled /\ ~SubmitEmpty

\* Mutant of EngineIdle: the retire registers are not cleared.
IdleKeepsRetire == busy' = FALSE /\ active' = ResetDescriptor /\ retire' = retire

EngineIdle == busy' = FALSE /\ active' = ResetDescriptor /\ retire' = NoRecord

-----------------------------------------------------------------------------
\* The engine's share of a clock edge, one action for each thing it may do.

Launch(c, p) ==
  /\ Launches(p)
  /\ busy' = TRUE
  /\ active' = submitSlots[submitHead]
  /\ UNCHANGED retire
  /\ RingsStep(c, p, TRUE, NoRecord)

Finish(c, p) ==
  /\ p = "RUN" /\ busy /\ ~Stalled /\ ~CompFull
  /\ EngineIdle
  /\ \E r \in Outcome(active) : RingsStep(c, p, FALSE, r)

Stall(c, p) ==
  /\ p = "RUN" /\ busy /\ ~Stalled /\ CompFull
  /\ \E r \in Outcome(active) : retire' = r
  /\ UNCHANGED <<busy, active>>
  /\ RingsStep(c, p, FALSE, NoRecord)

Release(c, p) ==
  /\ p = "RUN" /\ busy /\ Stalled /\ ~CompFull
  /\ EngineIdle
  /\ RingsStep(c, p, FALSE, retire)

\* Nothing leaves the engine: it is idle or at work, it waits for room, or
\* the power state is not RUN.
Hold(c, p) ==
  /\ ~Launches(p)
  /\ ~(p = "RUN" /\ busy /\ Stalled /\ ~CompFull)
  /\ UNCHANGED engineVars
  /\ RingsStep(c, p, FALSE, NoRecord)

Operate(c, p) ==
  /\ p # "DEEP_SLEEP" /\ c.op # "softReset"
  /\ Launch(c, p) \/ Finish(c, p) \/ Stall(c, p) \/ Release(c, p) \/ Hold(c, p)

\* CTRL bit 1: everything queued, active or completed is dropped.
SoftReset(c, p) ==
  /\ p # "DEEP_SLEEP" /\ c.op = "softReset"
  /\ RingsClear
  /\ EngineIdle
  /\ UNCHANGED staged

\* In DEEP_SLEEP the block ignores the port and clears its context every cycle.
DeepSleep(p) ==
  /\ p = "DEEP_SLEEP"
  /\ RingsClear
  /\ EngineIdle
  /\ staged' = ResetDescriptor

Init ==
  /\ RingsInit
  /\ busy = FALSE
  /\ active = ResetDescriptor
  /\ retire = NoRecord

Edge(c, p) == Operate(c, p) \/ SoftReset(c, p) \/ DeepSleep(p)

Next == \E c \in RingCommand, p \in PowerState : Edge(c, p)

Spec == Init /\ [][Next]_vars

-----------------------------------------------------------------------------
\* The edges on which two assignments to one register meet: a doorbell is
\* accepted while the engine launches, or a retired record is pushed while
\* software pops or while a rejected doorbell pushes its own record.
Retires == busy /\ ~busy'

Collides(c, p) ==
  \/ Accepts(c, p) /\ Launches(p)
  \/ Retires /\ Pops(c)
  \/ Retires /\ Rejects(c, p)

\* Software that keeps its doorbells and pops off those edges.
SpacedNext == \E c \in RingCommand, p \in PowerState :
                Edge(c, p) /\ ~(Operate(c, p) /\ Collides(c, p))

SpacedSpec == Init /\ [][SpacedNext]_vars

-----------------------------------------------------------------------------
TypeOK ==
  /\ RingsTypeOK
  /\ busy \in BOOLEAN
  /\ active \in Descriptor
  /\ retire \in Record

\* A record waits in the retire registers only while its descriptor is still
\* the active one, and it is a record that descriptor may end with; the
\* active registers are zero while no descriptor is active.
RetireBelongsToActive ==
  /\ Stalled => busy /\ retire \in Outcome(active)
  /\ ~busy => active = ResetDescriptor

\* The counts agree with the pointers but for the collisions: an accepted
\* doorbell on the edge of a launch strands one descriptor, a pop on the edge
\* of a retirement leaves one phantom record, and nothing else ever moves a
\* count away from the distance between its pointers.
Clears == (\E c \in RingCommand, p \in PowerState : SoftReset(c, p) \/ DeepSleep(p))

DriftOnlyByCollision ==
  [][\/ Clears
     \/ \E c \in RingCommand, p \in PowerState :
          /\ Operate(c, p)
          /\ SubmitDrift' = Bump(SubmitDrift, SUBMIT_QUEUE_DEPTH, Accepts(c, p) /\ Launches(p))
          /\ CompDrift' = Bump(CompDrift, COMP_QUEUE_DEPTH, Pops(c) /\ Retires)]_vars

\* CHIPLET_ASSERT_DMA_ACCEPTED_ACCOUNTING: the descriptors accepted are those
\* completed, the active one and the queued ones.  As a step: what is queued
\* or active grows by what is accepted and shrinks by what retires.
Held == submitCount + (IF busy THEN 1 ELSE 0)

AcceptedAccounting ==
  [][\/ Clears
     \/ Held' - Held = (IF submitTail' # submitTail THEN 1 ELSE 0)
                       - (IF Retires THEN 1 ELSE 0)]_vars

\* p_completion_front_stable_until_pop: the record software sees at the head
\* of a non-empty completion ring stays as it is until it is popped.
SoftwareView(r) == <<r.tag, r.status, r.words>>

FrontStable ==
  [][\/ Clears \/ CompEmpty \/ compHead' # compHead
     \/ SoftwareView(comp'[compHead]) = SoftwareView(comp[compHead])]_vars

\* Whatever the counts have drifted to, the engine never runs a descriptor
\* that ERR_ODD_LEN or ERR_RANGE refuses: it has a whole number of AES blocks
\* of two words, at least one, and either its words lie inside both memories
\* or base plus length overflows nine bits, the one way past the end.
ActiveLegal == busy => Legal(active)

-----------------------------------------------------------------------------
\* The rings as the sequences of DmaService.
Contents(slots, head, count, depth) ==
  [i \in 1 .. count |-> slots[Wrap(head + i - 1, depth)]]

Refusal == [tag: {d.tag : d \in Descriptor}, status: {"SUBMIT_REJECT"},
            err: RejectError, words: {0}]

Service == INSTANCE DmaService WITH
  Descriptors <- Staging,
  Ends <- Outcome,
  Refusals <- Refusal,
  PendingMax <- SUBMIT_QUEUE_DEPTH,
  DoneMax <- COMP_QUEUE_DEPTH,
  pending <- Contents(submitSlots, submitHead, submitCount, SUBMIT_QUEUE_DEPTH),
  current <- IF busy THEN <<active>> ELSE <<>>,
  done <- Contents(comp, compHead, compCount, COMP_QUEUE_DEPTH)

\* Away from the collisions the rings serve software in order and exactly once.
OrderedService == Service!ServiceSpec
=============================================================================
