----------------------------- MODULE MCDbEvent -----------------------------
(* Instances of DbEvent for TLC.                                           *)
EXTENDS DbEvent, TLC

CONSTANTS c1, c2

\* threads that add and cancel
TcpCalls == [t \in Clients |-> {"add", "cancel"}]
\* ... and switch flow control
FlowCalls == [t \in Clients |-> {"add", "cancel", "flow"}]
\* the TCP thread until the connection ends, beside the access security thread
\* and a thread that offloads labor
CloseCalls == (c1 :> {"add", "cancel", "close"}) @@
              (c2 :> {"labor", "grant", "revoke"})

SubSymmetry == Permutations(Subs)
============================================================================
