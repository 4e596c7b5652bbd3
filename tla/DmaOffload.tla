----------------------------- MODULE DmaOffload -----------------------------
(***************************************************************************)
(* dma_offload_ctrl with its engine in full: the rings of DmaRings, the    *)
(* engine's state machine with its send, receive and timeout counters, the *)
(* retire registers and the interrupt status.                              *)
(*                                                                         *)
(* One step is one clock edge.  The power state p and the CSR write c are  *)
(* inputs of every edge.  Whether the transmit side takes a word, whether  *)
(* a return word is offered and whether the next source word is faulty are *)
(* inputs of the edges on which the engine looks at them.                  *)
(***************************************************************************)
EXTENDS DmaRings

CONSTANT DMA_TIMEOUT_CYCLES \* RUN cycles without a return word before ERR_TIMEOUT

ASSUME TimeoutAssumption == DMA_TIMEOUT_CYCLES \in Nat \ {0} /\ "TIMEOUT" \in RuntimeError

VARIABLES
  busy,      \* active_valid_q
  active,    \* active_src_base_q, active_dst_base_q, active_len_words_q, active_tag_q
  state,     \* state_q
  send,      \* send_count_q
  recv,      \* recv_count_q
  timeout,   \* timeout_q
  stalled,   \* comp_full_stall_q
  retire,    \* retire_tag_q, retire_status_q, retire_err_code_q, retire_words_q
  irqStatus  \* irq_status_q

engineVars == <<busy, active, state, send, recv, timeout, stalled, retire>>
vars == <<ringVars, engineVars, irqStatus>>

-----------------------------------------------------------------------------
IrqBit == {"done", "error"}

Command == RingCommand \cup [op: {"ack"}, bits: SUBSET IrqBit]

EngineState == {"IDLE", "LAUNCH", "SEND", "WAIT_RETURN", "RETIRE_STALL"}

Completion(status, err, words) ==
  [tag |-> active.tag, status |-> status, err |-> err, words |-> words]

Running(p) == busy /\ p = "RUN"

\* Mutant of Launches: an empty ring is told by its pointers, as a full one is.
LaunchesByPointers(p) == ~busy /\ p = "RUN" /\ ~stalled /\ submitHead # submitTail

Launches(p) == ~busy /\ p = "RUN" /\ ~stalled /\ ~SubmitEmpty

\* The word tx_index points at has bad parity or lies in an invalid bank.
LooksAtSource == state = "SEND" /\ send < active.len

\* Mutant of TimedOut: the timer is only looked at while waiting for returns.
TimedOutWaiting == state = "WAIT_RETURN" /\ timeout = DMA_TIMEOUT_CYCLES

TimedOut == state # "RETIRE_STALL" /\ timeout = DMA_TIMEOUT_CYCLES

-----------------------------------------------------------------------------
\* irq_status_q: the write-one-to-clear comes first in the block, so a bit
\* that is set on the same edge stays set.
IrqOf(r) == IF r.status = "SUCCESS" THEN {"done"} ELSE {"error"}

\* Mutant of IrqStep: the acknowledgement comes last.
AckWins(c, p, fin) ==
  irqStatus' = (irqStatus
                \cup (IF Rejects(c, p) /\ ~CompFull THEN {"error"} ELSE {})
                \cup (IF fin # NoRecord THEN IrqOf(fin) ELSE {}))
               \ (IF c.op = "ack" THEN c.bits ELSE {})

IrqStep(c, p, fin) ==
  irqStatus' = (irqStatus \ (IF c.op = "ack" THEN c.bits ELSE {}))
               \cup (IF Rejects(c, p) /\ ~CompFull THEN {"error"} ELSE {})
               \cup (IF fin # NoRecord THEN IrqOf(fin) ELSE {})

QueueStep(c, p, launch, fin) == RingsStep(c, p, launch, fin) /\ IrqStep(c, p, fin)

EngineClear ==
  /\ busy' = FALSE /\ active' = ResetDescriptor /\ state' = "IDLE"
  /\ send' = 0 /\ recv' = 0 /\ timeout' = 0
  /\ stalled' = FALSE /\ retire' = NoRecord

\* Mutant of Conclude: the last word is not counted when the record has to wait.
ConcludeUncounted(c, p, r, sent, received, time) ==
  \/ /\ ~CompFull
     /\ EngineClear
     /\ QueueStep(c, p, FALSE, r)
  \/ /\ CompFull
     /\ state' = "RETIRE_STALL" /\ stalled' = TRUE /\ retire' = r
     /\ send' = sent /\ recv' = recv /\ timeout' = time
     /\ UNCHANGED <<busy, active>>
     /\ QueueStep(c, p, FALSE, NoRecord)

\* The descriptor ends with the record r: pushed at once if there is room,
\* else kept in the retire registers with the counters as given.
Conclude(c, p, r, sent, received, time) ==
  \/ /\ ~CompFull
     /\ EngineClear
     /\ QueueStep(c, p, FALSE, r)
  \/ /\ CompFull
     /\ state' = "RETIRE_STALL" /\ stalled' = TRUE /\ retire' = r
     /\ send' = sent /\ recv' = received /\ timeout' = time
     /\ UNCHANGED <<busy, active>>
     /\ QueueStep(c, p, FALSE, NoRecord)

\* Mutant of Elapsed: the timer does not stop at its limit.
ElapsedFreely(rx) == IF rx THEN 0 ELSE timeout + 1

Elapsed(rx) == IF rx THEN 0
               ELSE IF timeout # DMA_TIMEOUT_CYCLES THEN timeout + 1 ELSE timeout

-----------------------------------------------------------------------------
\* The engine's share of an edge.  Moves is what the link may do on it: move a
\* word on one of its streams (TRUE) or not (FALSE).

Launch(c, p) ==
  /\ Launches(p)
  /\ busy' = TRUE /\ active' = submitSlots[submitHead] /\ state' = "LAUNCH"
  /\ send' = 0 /\ recv' = 0 /\ timeout' = 0
  /\ UNCHANGED <<stalled, retire>>
  /\ QueueStep(c, p, TRUE, NoRecord)

\* A return word that arrives on this edge is taken from the link and lost.
SourceFault(c, p) ==
  /\ Running(p) /\ LooksAtSource
  /\ \E err \in RuntimeError \ {"TIMEOUT"} :
       Conclude(c, p, Completion("RUNTIME_ERROR", err, recv), send, recv, timeout)

\* The timer is compared before this edge's return word restarts it: the
\* word is taken from the link and lost.
Timeout(c, p, Moves) ==
  /\ Running(p) /\ TimedOut
  /\ \E rx \in Moves :
       Conclude(c, p, Completion("RUNTIME_ERROR", "TIMEOUT", recv), send, recv, Elapsed(rx))

\* rx_stream_ready is already high: a word offered here restarts the timer
\* and is lost.
LaunchToSend(c, p, Moves) ==
  /\ Running(p) /\ state = "LAUNCH" /\ ~TimedOut
  /\ state' = "SEND"
  /\ \E rx \in Moves : timeout' = Elapsed(rx)
  /\ UNCHANGED <<busy, active, send, recv, stalled, retire>>
  /\ QueueStep(c, p, FALSE, NoRecord)

\* DMA_SEND and DMA_WAIT_RETURN with a sound source word: one word may leave
\* and one may come back.
Transfer(c, p, Moves) ==
  /\ Running(p) /\ state \in {"SEND", "WAIT_RETURN"} /\ ~TimedOut
  /\ \E rx \in Moves, tx \in IF LooksAtSource THEN Moves ELSE {FALSE} :
       LET sent == IF tx THEN send + 1 ELSE send
           received == IF rx THEN recv + 1 ELSE recv
       IN \/ /\ rx /\ received >= active.len
             /\ Conclude(c, p, Completion("SUCCESS", "NONE", received),
                         sent, received, Elapsed(rx))
          \/ /\ ~(rx /\ received >= active.len)
             /\ send' = sent /\ recv' = received /\ timeout' = Elapsed(rx)
             /\ state' = IF tx /\ sent >= active.len THEN "WAIT_RETURN" ELSE state
             /\ UNCHANGED <<busy, active, stalled, retire>>
             /\ QueueStep(c, p, FALSE, NoRecord)

\* Mutant of Retire: the waiting record does not look for room.
RetireBlindly(c, p) ==
  /\ Running(p) /\ state = "RETIRE_STALL"
  /\ EngineClear
  /\ QueueStep(c, p, FALSE, retire)

Retire(c, p) ==
  /\ Running(p) /\ state = "RETIRE_STALL" /\ ~CompFull
  /\ EngineClear
  /\ QueueStep(c, p, FALSE, retire)

\* Nothing to run, no power to run it, or no room for its record.
Rest(c, p) ==
  /\ ~Launches(p)
  /\ Running(p) => state = "RETIRE_STALL" /\ CompFull
  /\ UNCHANGED engineVars
  /\ QueueStep(c, p, FALSE, NoRecord)

Operate(c, p) ==
  /\ p # "DEEP_SLEEP" /\ c.op # "softReset"
  /\ \/ Launch(c, p) \/ SourceFault(c, p) \/ Timeout(c, p, BOOLEAN)
     \/ LaunchToSend(c, p, BOOLEAN) \/ Transfer(c, p, BOOLEAN)
     \/ Retire(c, p) \/ Rest(c, p)

SoftReset(c, p) ==
  /\ p # "DEEP_SLEEP" /\ c.op = "softReset"
  /\ RingsClear
  /\ EngineClear
  /\ irqStatus' = {}
  /\ UNCHANGED staged

DeepSleep(p) ==
  /\ p = "DEEP_SLEEP"
  /\ RingsClear
  /\ EngineClear
  /\ irqStatus' = {}
  /\ staged' = ResetDescriptor

Init ==
  /\ RingsInit
  /\ busy = FALSE /\ active = ResetDescriptor /\ state = "IDLE"
  /\ send = 0 /\ recv = 0 /\ timeout = 0
  /\ stalled = FALSE /\ retire = NoRecord
  /\ irqStatus = {}

Edge(c, p) == Operate(c, p) \/ SoftReset(c, p) \/ DeepSleep(p)

Next == \E c \in Command, p \in PowerState : Edge(c, p)

Spec == Init /\ [][Next]_vars

\* An edge in RUN without a CSR write on which the link moves no word and the
\* source is sound: the engine gets no help from outside.
Idle == [op |-> "idle"]
Pop == [op |-> "pop"]

Quiet ==
  \/ Launch(Idle, "RUN") \/ Retire(Idle, "RUN")
  \/ Timeout(Idle, "RUN", {FALSE}) \/ LaunchToSend(Idle, "RUN", {FALSE})
  \/ Transfer(Idle, "RUN", {FALSE})

\* Such edges come again and again, and software does not leave a completion
\* ring that is not empty unpopped for ever.
FairSpec ==
  /\ Spec
  /\ SF_vars(Quiet)
  /\ WF_vars(~CompEmpty /\ \E p \in PowerState : Operate(Pop, p))

-----------------------------------------------------------------------------
TypeOK ==
  /\ RingsTypeOK
  /\ busy \in BOOLEAN
  /\ active \in Descriptor
  /\ state \in EngineState
  /\ send \in Nat
  /\ recv \in Nat
  /\ timeout \in 0 .. DMA_TIMEOUT_CYCLES
  /\ stalled \in BOOLEAN
  /\ retire \in Record
  /\ irqStatus \subseteq IrqBit

\* The three registers that say a record waits for room agree, and the
\* engine's counters stay inside the active descriptor: words are sent only
\* while some are left, a descriptor with all its words back is never left
\* running, and the counters are zero when nothing is active.
EngineConsistent ==
  /\ busy <=> state # "IDLE"
  /\ stalled <=> state = "RETIRE_STALL"
  /\ stalled <=> retire # NoRecord
  /\ state = "LAUNCH" => send = 0 /\ recv = 0
  /\ state = "SEND" => send < active.len
  /\ state = "WAIT_RETURN" => send = active.len
  /\ state \in {"LAUNCH", "SEND", "WAIT_RETURN"} => recv < active.len
  /\ stalled => retire.words = recv /\ (retire.status = "SUCCESS" <=> recv = active.len)
  /\ state = "IDLE" => send = 0 /\ recv = 0 /\ timeout = 0

\* W1C against set: a record that enters the completion ring leaves its
\* interrupt bit set, whatever software acknowledges on that edge.
RaisesIrq ==
  [][\A i \in DOMAIN comp :
       comp'[i] # comp[i] => IrqOf(comp'[i]) \subseteq irqStatus']_vars

\* timeout_runtime_error_check: a descriptor that is launched ends, with the
\* return words or without them.
Terminates == busy ~> ~busy

\* A queued descriptor is launched unless a reset drops the queue.
Serves == submitCount > 0 ~> (busy \/ submitCount = 0)

\* The block implements its queues.
Queues == INSTANCE DmaQueues

ImplementsQueues == Queues!Spec
=============================================================================
