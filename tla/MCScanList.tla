----------------------------- MODULE MCScanList -----------------------------
(* Instances of ScanList for TLC.                                          *)
EXTENDS ScanList, TLC

CONSTANTS a, b,    \* two records of Records
          l1, l2,  \* two lists of Lists
          s1, s2   \* two of Scanners

\* two threads, of a callback priority with parallel threads, scan one list
BothOne == [s \in Scanners |-> l1]
One == [s \in Scanners |-> l1]

\* a put from one of a and b can reach the other
TwoLockSets == [r \in Records |-> IF r \in {a, b} THEN {a, b} ELSE {r}]
Symmetric == Permutations({a, b})
\* State constraint: PHAS varies only on the list that is scanned.
PhasesOnFirst == \A r \in Records : scan[r] = l1 \/ phas[r] = 0
=============================================================================
