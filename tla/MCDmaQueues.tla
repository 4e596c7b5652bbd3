---------------------------- MODULE MCDmaQueues ----------------------------
EXTENDS DmaQueues

\* The memories have four words, so a base and a length fit in three bits.
\* A descriptor of length zero, refused with ERR_ODD_LEN, is staged by reset.
First == [src |-> 0, dst |-> 2, len |-> 2, tag |-> 1]

Second == [src |-> 2, dst |-> 0, len |-> 2, tag |-> 2]

\* Reaches past the end of the destination.
Beyond == [src |-> 0, dst |-> 2, len |-> 4, tag |-> 1]

\* Reaches so far past the end that base plus length wraps.
Wrapped == [src |-> 2, dst |-> 2, len |-> 6, tag |-> 1]

OneTag == {First}

TwoTags == {First, Second}

AroundTheEnd == {First, Beyond, Wrapped}

Timeouts == {"TIMEOUT"}

NoErrors == {}
=============================================================================
