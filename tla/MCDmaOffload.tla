---------------------------- MODULE MCDmaOffload ----------------------------
EXTENDS DmaOffload

\* One legal descriptor of two words; reset stages one of length zero.
MCStaging == {[src |-> 0, dst |-> 2, len |-> 2, tag |-> 1]}

MCErrors == {"TIMEOUT", "MEM_PARITY"}
=============================================================================
