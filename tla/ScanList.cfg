\* One thread scans a list of up to three records while another thread, and the
\* processing of two of the records, write scan fields.
SPECIFICATION Spec
CONSTANTS
    Records = {a, b, c}
    Lists = {l1, l2}
    Phases = {0, 1}
    Scanners = {s1}
    Scans <- One
    Putters = {t1}
    LockSet <- TwoLockSets
    None = None
    a = a
    b = b
    l1 = l1
    l2 = l2
    s1 = s1
    s2 = s2
CONSTRAINT PhasesOnFirst
SYMMETRY Symmetric
INVARIANTS
    Inv
    InPhaseOrder
PROPERTIES
    StaysOnList
    NothingSkipped
