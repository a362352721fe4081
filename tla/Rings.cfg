\* Two threads push and two pop pointers under the spin lock, or one thread puts blocks of
\* several sizes and one gets bytes without a lock.
SPECIFICATION RingsSpec
CONSTANTS
    Size = 2
    locked = TRUE
    Elements = {e1, e2}
    Pushers = {w1, w2}
    Poppers = {r1, r2}
    b1 = b1
    b2 = b2
    Blocks <- ShortBlocks
    Amounts = {1, 3}
    Writers = {w}
    Readers = {r}
    blockSize = 3
    SLOP = 2
    blockLocked = FALSE
PROPERTIES
    ImplementsFifo
    BytesImplementFifo
