----------------------------- MODULE DmaService -----------------------------
(***************************************************************************)
(* What the DMA queues promise software: descriptors are served one at a   *)
(* time in the order they were accepted, each accepted descriptor leaves   *)
(* exactly one completion record, records are read in the order they were  *)
(* written and none appears, changes or vanishes otherwise.  A reset drops *)
(* everything at once.                                                     *)
(***************************************************************************)
EXTENDS Integers, Sequences

CONSTANTS
  Descriptors,        \* the descriptors that may be accepted
  Ends(_),            \* the completion records a descriptor may end with
  Refusals,           \* the records of refused submissions
  PendingMax,         \* how many descriptors may wait
  DoneMax             \* how many records may wait

VARIABLES
  pending,  \* accepted descriptors that have not started, oldest first
  current,  \* <<d>> while descriptor d is being served, else <<>>
  done      \* completion records software has not popped, oldest first

serviceVars == <<pending, current, done>>

ServiceInit == pending = <<>> /\ current = <<>> /\ done = <<>>

\* What may happen between two observations: software has a descriptor
\* accepted, has one refused, or pops a record; the engine starts, ends or
\* keeps a descriptor.
Maybe(S) == {<<>>} \cup {<<x>> : x \in S}

Drop(s, n) == SubSeq(s, n + 1, Len(s))

Advance ==
  \E accepted \in Maybe(Descriptors), refused \in Maybe(Refusals), popped \in {0, 1} :
    /\ popped = 1 => accepted = <<>> /\ refused = <<>> /\ done # <<>>
    /\ \/ /\ current = <<>> /\ pending # <<>>
          /\ current' = <<Head(pending)>>
          /\ pending' = Tail(pending) \o accepted
          /\ done' = Drop(done, popped) \o refused
       \/ /\ current # <<>>
          /\ current' = <<>>
          /\ pending' = pending \o accepted
          /\ \E r \in Ends(current[1]) : done' = Append(Drop(done, popped) \o refused, r)
       \/ /\ current' = current
          /\ pending' = pending \o accepted
          /\ done' = Drop(done, popped) \o refused

Reset == pending' = <<>> /\ current' = <<>> /\ done' = <<>>

ServiceNext ==
  /\ Advance \/ Reset
  /\ Len(pending') <= PendingMax
  /\ Len(done') <= DoneMax

ServiceSpec == ServiceInit /\ [][ServiceNext]_serviceVars
=============================================================================
