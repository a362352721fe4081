----------------------------- MODULE MCCallback -----------------------------
(* Instances of Callback for TLC.                                          *)
EXTENDS Callback, TLC

CONSTANT cbLow  \* one of Callbacks

\* two threads serve the first priority, one each of the others
MixedThreads == [p \in Prios |-> IF p = 0 THEN 2 ELSE 1]
\* one thread for each priority, as by default
DefaultThreads == [p \in Prios |-> 1]
\* the last priority for all callbacks but cbLow
Priorities == [c \in Callbacks |-> IF c = cbLow THEN 0 ELSE NUM_CALLBACK_PRIORITIES - 1]

=============================================================================
