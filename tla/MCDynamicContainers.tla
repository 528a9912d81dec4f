------------------------- MODULE MCDynamicContainers -------------------------
(***************************************************************************)
(* Small instances of DynamicContainers for TLC.                           *)
(***************************************************************************)
EXTENDS DynamicContainers, TLC

CONSTANTS t1, t2, t3, d, e

\* Two tests share the dynamic d, two the external e.
ChainUses == [t \in Tests |-> CASE t = t1 -> {d} [] t = t2 -> {d, e} [] t = t3 -> {e}]

\* The first test starts d strictly, the others relaxed.
StrictD == [t \in Tests |-> IF t = t1 THEN <<d>> ELSE <<>>]

\* Every test uses d alone, relaxed.
OnlyD == [t \in Tests |-> {d}]
NoneStrict == [t \in Tests |-> <<>>]

\* The networks of a namespace, of another one, and one of the user.
SharedNetworks == {"singular", "other", "external"}

Isolated(t) == [mode |-> "Isolated", network |-> t]
Singular(w) == [mode |-> "Singular", network |-> w]
External    == [mode |-> "External", network |-> "external"]

AllIsolated == [t \in Tests |-> Isolated(t)]

\* A test of a namespace that shares d with an isolated one, which shares e with
\* another; two tests in one external network and one in another namespace.
MixedSettings ==
    {(t1 :> Singular("singular")) @@ (t2 :> Isolated(t2)) @@ (t3 :> Isolated(t3)),
     (t1 :> External) @@ (t2 :> External) @@ (t3 :> Singular("other"))}
JustIsolated == {AllIsolated}
=============================================================================
