-------------------------- MODULE MCScopedNetworks --------------------------
(***************************************************************************)
(* Small instances of ScopedNetworks for TLC.                              *)
(***************************************************************************)
EXTENDS ScopedNetworks

CONSTANTS b1, b2, b3, t1, t2, t3, t4, t5, s1, s2, c1

\* Two tests in the first two binaries, one in the third; t4 is in a namespace
\* of its own.
ThreeBinaries == [t \in Tests |-> IF t \in {t1, t2} THEN b1 ELSE IF t = t5 THEN b3 ELSE b2]
OneApart == [t \in Tests |-> IF t = t4 THEN s2 ELSE s1]

\* The first and the third binary run in one container, the second on the host.
TwoInside == [b \in Binaries |-> IF b = b2 THEN NoSelf ELSE c1]

\* Which test creates its network when is left open, so that one order of the
\* strings stands for all of them.
OneOrder == [w \in Nets |-> CASE w = t1 -> 3 [] w = t2 -> 1 [] w = t3 -> 2 [] w = t4 -> 6
                              [] w = t5 -> 7 [] w = s1 -> 4 [] w = s2 -> 5]
=============================================================================
