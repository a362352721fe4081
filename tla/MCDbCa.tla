------------------------------- MODULE MCDbCa -------------------------------
(* Instances of DbCa for TLC.                                              *)
EXTENDS DbCa

RW == {"read", "write"}
Link(use, want, calls, links, shapes, rights, losses, refusals) ==
    [use |-> use, want |-> want, calls |-> calls, links |-> links, shapes |-> shapes,
     rights |-> rights, lost |-> losses, refused |-> refusals]

All == {"remove", "pause", "sync", "shutdown"}
LinkInstances == {
    Link("cp", "native", {"remove", "shutdown"}, 2, {"num"}, {RW}, 0, 0),
    Link("cp", "native", {}, 1, {"num"}, {RW, {"write"}}, 1, 1),
    Link("cp", "string", {}, 1, {"num", "enum"}, {RW}, 1, 0),
    Link("in", "native", All, 2, {"num"}, {RW, {}}, 0, 0),
    Link("in", "string", {"remove"}, 1, {"num", "enum"}, {RW}, 1, 0),
    Link("out", "native", {"remove"}, 1, {"num", "enum"}, {RW, {"read"}}, 1, 0),
    Link("async", "native", {"remove"}, 2, {"num"}, {RW, {"read"}}, 1, 0),
    Link("async", "string", {"remove"}, 2, {"enum"}, {RW}, 2, 0)}

Async3 == {Link("async", "native", {"remove"}, 3, {"num"}, {RW}, 0, 0)}

\* a put under way as the IOC is shut down
AsyncShutdown == {Link("async", "native", {"remove", "shutdown"}, 1, {"num"}, {RW}, 0, 0)}
=============================================================================
