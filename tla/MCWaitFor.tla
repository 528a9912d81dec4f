----------------------------- MODULE MCWaitFor -----------------------------
(***************************************************************************)
(* Small instances of WaitFor for TLC.                                     *)
(***************************************************************************)
EXTENDS WaitFor

Poll(kind, i, n) == [kind |-> kind, interval |-> i, checks |-> n, timeout |-> 0]
Log(kind, t)     == [kind |-> kind, interval |-> 0, checks |-> 0, timeout |-> t]

\* No, one and several checks, an interval of zero, a timeout of zero and one
\* that leaves time for the container to write and to exit.
SomeWaits ==
    {Poll(k, i, n) : k \in {"running", "exited"}, i \in {1, 2}, n \in {0, 1, 3}}
    \cup {Poll("running", 0, 1), Log("nowait", 0)}
    \cup {Log(k, t) : k \in {"message", "assert"}, t \in {0, 2}}
=============================================================================
