--------------------------- MODULE CryptoService ---------------------------
(***************************************************************************)
(* die_b_system with its aes128_iterative: plaintext words are gathered to *)
(* blocks, encrypted one block at a time, and queued as ciphertext words.  *)
(*                                                                         *)
(* Encryption is kept abstract: the k-th ciphertext word of a block is     *)
(* <<block, k>>, which depends on every word of the block.                 *)
(***************************************************************************)
EXTENDS Integers, Sequences

CONSTANTS
  WORDS_PER_BLOCK,    \* words in an AES block
  AES_ROUNDS,         \* edges the engine is busy with a block
  CIPHER_FIFO_DEPTH,  \* ciphertext words the queue holds
  NoWord              \* no word offered

VARIABLES
  blk,    \* block_buffer_q: words gathered; block_pending_q
  aes,    \* the engine: round (0 when ready), block, done
  cipher  \* ciphertext words queued

cryptoVars == <<blk, aes, cipher>>

-----------------------------------------------------------------------------
Ciphertext(block) == [k \in 1 .. WORDS_PER_BLOCK |-> <<block, k>>]

CipherOut == IF cipher # <<>> THEN Head(cipher) ELSE NoWord
AesReady == aes.round = 0

\* Mutant of AesStart: a block is started over one that is being encrypted.
StartWhileBusy == blk.pending

AesStart == blk.pending /\ AesReady

\* Mutant of PlaintextReady: no block is gathered while one is encrypted.
ReadyUnlessBusy == ~blk.pending /\ AesReady

PlaintextReady == ~blk.pending /\ Len(cipher) <= CIPHER_FIFO_DEPTH - WORDS_PER_BLOCK

\* Mutant of Gather: the block stays pending when the engine starts.
GatherKeepsPending(word) ==
  IF word # NoWord /\ PlaintextReady
    THEN LET words == IF Len(blk.words) = WORDS_PER_BLOCK THEN <<word>>
                      ELSE Append(blk.words, word)
         IN blk' = [words |-> words, pending |-> Len(words) = WORDS_PER_BLOCK]
    ELSE blk' = blk

\* Phase 1 of die_b_system: the block builder.
Gather(word) ==
  IF word # NoWord /\ PlaintextReady
    THEN LET words == IF Len(blk.words) = WORDS_PER_BLOCK THEN <<word>>
                      ELSE Append(blk.words, word)
         IN blk' = [words |-> words, pending |-> Len(words) = WORDS_PER_BLOCK]
    ELSE blk' = [blk EXCEPT !.pending = blk.pending /\ ~AesStart]

\* aes128_iterative: one round on each edge, done for one edge at the end.
Encrypt ==
  aes' = IF AesStart THEN [round |-> 1, block |-> blk.words, done |-> FALSE]
         ELSE IF AesReady THEN [aes EXCEPT !.done = FALSE]
         ELSE IF aes.round < AES_ROUNDS THEN [aes EXCEPT !.round = aes.round + 1]
         ELSE [aes EXCEPT !.round = 0, !.done = TRUE]

\* Phases 2 and 3: a word leaves, a block arrives.  A block that finds too
\* little room, as of before this edge, is lost.
Queue(ready) ==
  LET left == IF ready /\ cipher # <<>> THEN Tail(cipher) ELSE cipher
  IN cipher' = IF aes.done /\ Len(cipher) + WORDS_PER_BLOCK <= CIPHER_FIFO_DEPTH
                 THEN left \o Ciphertext(aes.block)
                 ELSE left

CryptoEdge(word, ready) == Gather(word) /\ Encrypt /\ Queue(ready)

CryptoInit ==
  /\ blk = [words |-> <<>>, pending |-> FALSE]
  /\ aes = [round |-> 0, block |-> <<>>, done |-> FALSE]
  /\ cipher = <<>>
=============================================================================
