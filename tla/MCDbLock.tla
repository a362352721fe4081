------------------------------ MODULE MCDbLock ------------------------------
(* Instances of DbLock for TLC.                                            *)
EXTENDS DbLock

One(r) == [kind |-> "one", rec |-> r]
Many(recs, again, inner) == [kind |-> "many", recs |-> recs, again |-> again, inner |-> inner]
Put(r, k, s) == [kind |-> "put", rec |-> r, field |-> k, to |-> s]
Case(links, a, b, c) == [links |-> links, jobs |-> <<a, b, c>>]

Cases == {
    \* a link goes from one record to another while both are locked
    Case(<<<<1, 1, 2>>>>, <<Put(1, 1, 3)>>, <<One(2), One(3)>>, <<Many(<<3, 2>>, 0, 0)>>),
    \* two puts between the same lock sets, from both ends
    Case(<<>>, <<Put(1, 1, 2), Put(1, 1, 0)>>, <<Put(2, 1, 1)>>, <<One(2)>>),
    \* a chain is cut, and a locker is used again
    Case(<<<<1, 1, 2>>, <<2, 1, 3>>>>, <<Put(1, 1, 0)>>, <<Many(<<1, 3>>, 1, 0)>>, <<One(3)>>),
    \* records linked by two ways, and a link to the record itself
    Case(<<<<1, 1, 2>>, <<1, 2, 3>>, <<3, 1, 2>>, <<3, 2, 3>>>>,
         <<Put(1, 1, 0), Put(3, 1, 0), Put(3, 2, 1)>>, <<Many(<<2, 1>>, 0, 1)>>, <<>>),
    \* three links that close a ring
    Case(<<>>, <<Put(1, 1, 2)>>, <<Put(2, 1, 3)>>, <<Put(3, 1, 1)>>),
    \* split, merged and split again, while a locker is used twice
    Case(<<<<1, 1, 2>>>>, <<Put(1, 1, 0), Put(2, 1, 3), Put(2, 1, 0)>>,
         <<Many(<<3, 2>>, 1, 0)>>, <<One(2), One(1)>>)}
=============================================================================
