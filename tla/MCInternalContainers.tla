------------------------ MODULE MCInternalContainers ------------------------
(***************************************************************************)
(* Small instances of InternalContainers for TLC.                          *)
(***************************************************************************)
EXTENDS InternalContainers

CONSTANTS t1, t2, t3, a, b

TwoTests   == {t1, t2}
ThreeTests == {t1, t2, t3}

\* Every test uses the one container a, relaxed.
UsesA   == [t \in Tests |-> {a}]
NoneStrict == [t \in Tests |-> <<>>]

\* t1 and t2 share a and b; t1 starts a strictly and b relaxed, t2 both relaxed.
UsesAB  == [t \in Tests |-> {a, b}]
StrictA == [t \in Tests |-> IF t = t1 THEN <<a>> ELSE <<>>]

\* The default: all tests in the one singular network.
OneNetwork  == {"singular"}
AllSingular == [t \in Tests |-> "singular"]

\* Every test in an isolated network of its own.
OwnNetworks == Tests
AllIsolated == [t \in Tests |-> t]

\* t1 isolated, the others in the singular network.
MixedNetworks == {"singular", "own"}
MixedOf       == [t \in Tests |-> IF t = t1 THEN "own" ELSE "singular"]
JustT1        == {t1}

NoIsolated == {}
=============================================================================
