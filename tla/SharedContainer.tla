--------------------------- MODULE SharedContainer ---------------------------
(***************************************************************************)
(* What a static container promises the tests that share it, without the   *)
(* registry that keeps the promise: a name stands for at most one running  *)
(* container at a time, a user enters its body with the container that     *)
(* runs under each of its names, nothing is taken down while a user is in  *)
(* its body with it, and what was taken down never runs again.             *)
(*                                                                         *)
(* InternalContainers implements this specification (its Shared).          *)
(***************************************************************************)
CONSTANTS
    Users,       \* those who share
    Names,       \* what they share
    Needs,       \* Needs[u]: the names user u shares
    Containers,  \* the containers there can be under a name
    None         \* no container

VARIABLES
    life,    \* life[n][c]: "new", "live" or "gone"
    phase,   \* phase[u]: "before", "using" or "after"
    using    \* using[u][n]: the container user u has under name n

vars == <<life, phase, using>>

Init ==
    /\ life = [n \in Names |-> [c \in Containers |-> "new"]]
    /\ phase = [u \in Users |-> "before"]
    /\ using = [u \in Users |-> [n \in Names |-> None]]

\* A container starts to run under a name that has none.
Bring(n, c) ==
    /\ life[n][c] = "new"
    /\ \A d \in Containers : life[n][d] # "live"
    /\ life' = [life EXCEPT ![n][c] = "live"]
    /\ UNCHANGED <<phase, using>>

\* A user enters its body with the running container of each of its names.
Enter(u) ==
    /\ phase[u] = "before"
    /\ phase' = [phase EXCEPT ![u] = "using"]
    /\ \E held \in [Names -> Containers \cup {None}] :
          /\ using' = [using EXCEPT ![u] = held]
          /\ \A n \in Names : IF n \in Needs[u]
                              THEN held[n] # None /\ life[n][held[n]] = "live"
                              ELSE held[n] = None
    /\ UNCHANGED life

\* A user that could not get its containers does without its body.
Abandon(u) ==
    /\ phase[u] = "before"
    /\ phase' = [phase EXCEPT ![u] = "after"]
    /\ UNCHANGED <<life, using>>

Leave(u) ==
    /\ phase[u] = "using"
    /\ phase' = [phase EXCEPT ![u] = "after"]
    /\ using' = [using EXCEPT ![u] = [n \in Names |-> None]]
    /\ UNCHANGED life

\* A container that no user has goes for good.
Retire(n, c) ==
    /\ \A u \in Users : using[u][n] # c
    /\ life' = [life EXCEPT ![n][c] = "gone"]
    /\ UNCHANGED <<phase, using>>

Next ==
    \/ \E n \in Names, c \in Containers : Bring(n, c) \/ Retire(n, c)
    \/ \E u \in Users : Enter(u) \/ Abandon(u) \/ Leave(u)

Spec == Init /\ [][Next]_vars

\* A body does not keep its containers forever.
FairSpec == Spec /\ \A u \in Users : WF_vars(Leave(u))
=============================================================================
