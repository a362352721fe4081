------------------------------ MODULE MCRings -------------------------------
(* Both rings for TLC: each behaviour is one of RingPointer or of RingBytes, *)
(* with the constants of the configuration.                                *)
EXTENDS RingPointer

CONSTANTS b1, b2, Blocks, Amounts, Writers, Readers, blockSize, SLOP, blockLocked
\* blocks of one to three bytes
ShortBlocks == {<<b1>>, <<b1, b2>>, <<b2, b1, b2>>}

VARIABLES ring,    \* which of them: never changes
          blockLock, nextPut, nextGet, blockMark, bytes, blockPc,
          value, nbytes, count, ncopied, oldGet, blockOk, got

byteVars == <<blockLock, nextPut, nextGet, blockMark, bytes, blockPc, value, nbytes, count,
              ncopied, oldGet, blockOk, got>>

B == INSTANCE RingBytes WITH
    Size <- blockSize, locked <- blockLocked, Puts <- Blocks,
    Putters <- Writers, Getters <- Readers,
    lock <- blockLock, highWaterMark <- blockMark, buffer <- bytes, pc <- blockPc, ok <- blockOk

ASSUME B!RingAssumption

RingsInit == ring \in {"pointers", "bytes"} /\ Init /\ B!Init
RingsNext == \/ ring = "pointers" /\ Next /\ UNCHANGED <<ring, byteVars>>
             \/ ring = "bytes" /\ B!Next /\ UNCHANGED <<ring, vars>>
RingsSpec == RingsInit /\ [][RingsNext]_<<ring, vars, byteVars>>

\* The property of the same name of RingBytes: put and get of blocks are those of a queue.
BytesImplementFifo == B!BytesImplementFifo
=============================================================================
