------------------------ MODULE SharedContainerProofs ------------------------
(***************************************************************************)
(* The registry of internal static containers implements SharedContainer:  *)
(* for any tests, names, policies and failures each of its steps is a step *)
(* of the abstract specification or leaves what it speaks of alone.        *)
(***************************************************************************)
EXTENDS InternalContainersProofs

\* The mapped state, cell by cell.
LEMMA Mapping ==
  /\ \A n \in Names, c \in Tests :
        /\ Life[n][c] = "live" <=> daemon[n][c] = "running"
        /\ Life[n][c] = "gone" <=> daemon[n][c] = "removed"
        /\ Life[n][c] = "new" <=> daemon[n][c] \notin {"running", "removed"}
  /\ \A t \in Tests :
        /\ Phase[t] = "before" <=> pc[t] \in {"ignite", "orbit"}
        /\ Phase[t] = "using" <=> pc[t] = "body"
        /\ Phase[t] = "after" <=> pc[t] \notin {"ignite", "orbit", "body"}
        /\ \A n \in Names :
              Using[t][n] = IF pc[t] = "body" /\ n \in Uses[t] THEN hid[t][n] ELSE NoId
BY DEF Life, Phase, Using

\* A step that starts and removes nothing leaves the lives alone.
LEMMA LifeStays ==
  ASSUME \A n \in Names, c \in Tests :
            \/ daemon'[n][c] = daemon[n][c]
            \/ {daemon[n][c], daemon'[n][c]} \cap {"running", "removed"} = {}
  PROVE  Life' = Life
BY DEF Life

\* So does one that stays outside of bodies for the users.
LEMMA UsersStay ==
  ASSUME \A t \in Tests :
            \/ pc'[t] = pc[t] /\ (pc[t] = "body" => hid'[t] = hid[t])
            \/ {pc[t], pc'[t]} \subseteq {"ignite", "orbit"}
            \/ {pc[t], pc'[t]} \cap {"ignite", "orbit", "body"} = {}
  PROVE  UNCHANGED <<Phase, Using>>
<1>1. Phase' = Phase
  BY DEF Phase
<1>2. Using' = Using
  BY DEF Using
<1>3. QED
  BY <1>1, <1>2

\* A test that leaves ignite or orbit for anything but its body abandons.
LEMMA Abandons ==
  ASSUME TypeOK, NEW t \in Tests, pc[t] \in {"ignite", "orbit"},
         NEW p \in Phases \ {"ignite", "orbit", "body"}, pc' = [pc EXCEPT ![t] = p],
         hid' = hid, Life' = Life
  PROVE  Shared!Abandon(t)
<1>1. Using' = Using
  BY DEF Using, TypeOK
<1>2. Phase' = [Phase EXCEPT ![t] = "after"]
  BY DEF Phase, TypeOK, Phases
<1>3. QED
  BY <1>1, <1>2, Mapping DEF Shared!Abandon

\* A test that enters its body enters it with running containers.
LEMMA Enters ==
  ASSUME TypeOK, IInv, IInv', NEW t \in Tests, Orbited(t)
  PROVE  Shared!Enter(t)
<1> DEFINE held == [n \in Names |-> IF n \in Uses[t] THEN hid[t][n] ELSE NoId]
<1>1. /\ pc[t] = "orbit" /\ pc' = [pc EXCEPT ![t] = "body"]
      /\ UNCHANGED <<slot, hid, daemon>>
  BY DEF Orbited, docker
<1>2. Phase' = [Phase EXCEPT ![t] = "using"]
  BY <1>1 DEF Phase, TypeOK, Phases
<1>3. Using' = [Using EXCEPT ![t] = held]
  BY <1>1 DEF Using, TypeOK
<1>4. held \in [Names -> Tests \cup {NoId}]
  BY DEF TypeOK, IdOrNone
<1>5. \A n \in Uses[t] : n \in Names /\ hid[t][n] # NoId /\ daemon[n][hid[t][n]] = "running"
  <2> SUFFICES ASSUME NEW n \in Uses[t]
               PROVE  n \in Names /\ hid[t][n] # NoId /\ daemon[n][hid[t][n]] = "running"
    OBVIOUS
  <2>1. n \in Names /\ pc'[t] = "body"
    BY <1>1, UsesAssumption DEF TypeOK
  <2>2. slot'[t][n] = "running" /\ hid'[t][n] # NoId
    BY <2>1 DEF IInv, SlotsHaveIds
  <2>3. Claimant(t, n)'
    BY <2>1, <2>2 DEF Claimant, ClaimPhases
  <2>4. QED
    BY <1>1, <2>1, <2>2, <2>3 DEF IInv, ClaimsAgree
<1>6. \A n \in Names : IF n \in Uses[t] THEN held[n] # NoId /\ Life[n][held[n]] = "live"
                                        ELSE held[n] = NoId
  BY <1>5, Mapping DEF TypeOK, IdOrNone
<1>7. Life' = Life
  BY <1>1 DEF Life
<1>8. QED
  BY <1>1, <1>2, <1>3, <1>4, <1>6, <1>7, Mapping DEF Shared!Enter

\* A test whose body ends lets go of its containers.
LEMMA Leaves ==
  ASSUME TypeOK, NEW t \in Tests, BodyEnds(t)
  PROVE  Shared!Leave(t)
<1>1. pc[t] = "body" /\ pc' = [pc EXCEPT ![t] = "disconnect"] /\ UNCHANGED <<hid, daemon>>
  BY DEF BodyEnds, docker
<1>2. Phase' = [Phase EXCEPT ![t] = "after"]
  BY <1>1 DEF Phase, TypeOK, Phases
<1>3. Using' = [Using EXCEPT ![t] = [n \in Names |-> NoId]]
  BY <1>1 DEF Using, TypeOK
<1>4. Life' = Life
  BY <1>1 DEF Life
<1>5. QED
  BY <1>1, <1>2, <1>3, <1>4, Mapping DEF Shared!Leave

\* The first start of a container brings it up under a name that has none.
LEMMA Brings ==
  ASSUME TypeOK, OnePerName, NEW n \in Names, NEW c \in Tests, DaemonStarts(n, c),
         UNCHANGED <<Phase, Using>>
  PROVE  Shared!Bring(n, c) \/ UNCHANGED Shared!vars
<1>1. CASE daemon[n][c] = "running"
  <2>1. Life' = Life
    BY <1>1, LifeStays DEF DaemonStarts, TypeOK
  <2>2. QED
    BY <2>1 DEF Shared!vars
<1>2. CASE daemon[n][c] = "created"
  <2>1. \A d \in Tests : daemon[n][d] # "running"
    BY <1>2 DEF OnePerName, Exists
  <2>2. Life' = [Life EXCEPT ![n][c] = "live"]
    BY DEF DaemonStarts, Life, TypeOK
  <2>3. QED
    BY <1>2, <2>1, <2>2, Mapping DEF Shared!Bring
<1>3. QED
  BY <1>1, <1>2 DEF DaemonStarts, Exists

\* A removal takes no container away from a body.
LEMMA Retires ==
  ASSUME TypeOK, IInv, NEW n \in Names, NEW c \in Tests, DaemonRemoves(n, c),
         UNCHANGED <<Phase, Using>>
  PROVE  Shared!Retire(n, c)
<1>1. Life' = [Life EXCEPT ![n][c] = "gone"]
  BY DEF DaemonRemoves, Life, TypeOK
<1>2. \A u \in Tests : Using[u][n] # c
  BY Mapping, TestsAssumption DEF DaemonRemoves, Claimant, ClaimPhases
<1>3. QED
  BY <1>1, <1>2 DEF Shared!Retire

\* A create hands out what exists, or fails; only a counter that overflows ends
\* the test.
LEMMA CreateRefines ==
  ASSUME TypeOK, IInv, NEW t \in Tests, NEW n \in Names, Create(t, n)
  PROVE  Shared!Abandon(t) \/ UNCHANGED Shared!vars
<1>1. pc[t] = "ignite"
  BY DEF Create
<1>2. Life' = Life
  <2>1. CASE CreateFresh(t, n)
    <3>1. daemon[n][t] = "absent"
      BY DEF Create, IInv, SlotsHaveIds
    <3>2. daemon' = [daemon EXCEPT ![n][t] = "created"]
      BY <2>1 DEF CreateFresh
    <3>3. QED
      BY <3>1, <3>2, LifeStays DEF TypeOK
  <2>2. CASE ~CreateFresh(t, n)
    <3>1. daemon' = daemon
      BY <2>2 DEF Create, CreateRefused, JoinLive, JoinUnconnected, JoinFailed, docker
    <3>2. QED
      BY <3>1, LifeStays
  <2>3. QED
    BY <2>1, <2>2
<1>3. \/ pc' = pc /\ \A u \in Tests : u = t \/ hid'[u] = hid[u]
      \/ pc' = [pc EXCEPT ![t] = "panicked"] /\ hid' = hid
  <2>1. CASE CreateRefused(t, n) \/ JoinUnconnected(t, n) \/ JoinFailed(t, n)
    BY <2>1 DEF CreateRefused, JoinUnconnected, JoinFailed
  <2>2. CASE CreateFresh(t, n)
    BY <2>2 DEF CreateFresh, TypeOK
  <2>3. CASE JoinLive(t, n)
    BY <2>3 DEF JoinLive, TypeOK
  <2>4. QED
    BY <2>1, <2>2, <2>3 DEF Create
<1>4. CASE pc' = pc /\ \A u \in Tests : u = t \/ hid'[u] = hid[u]
  <2>1. UNCHANGED <<Phase, Using>>
    BY <1>1, <1>4, UsersStay
  <2>2. QED
    BY <1>2, <2>1 DEF Shared!vars
<1>5. CASE pc' = [pc EXCEPT ![t] = "panicked"] /\ hid' = hid
  BY <1>1, <1>2, <1>5, Abandons DEF Phases
<1>6. QED
  BY <1>3, <1>4, <1>5

\* A start brings the container up, fails, or unwinds the test.
LEMMA StartRefines ==
  ASSUME TypeOK, IInv, OnePerName, NEW t \in Tests, NEW n \in Names, Start(t, n)
  PROVE  \/ \E c \in Tests : Shared!Bring(n, c)
         \/ Shared!Abandon(t)
         \/ UNCHANGED Shared!vars
<1>1. CASE StartBegins(t, n)
  <2>1. cid[n] \in Tests /\ DaemonStarts(n, cid[n])
    BY <1>1 DEF StartBegins, DaemonStarts, IInv, LiveEntry, TypeOK, IdOrNone
  <2>2. UNCHANGED <<Phase, Using>>
    BY <1>1, UsersStay DEF StartBegins
  <2>3. QED
    BY <2>1, <2>2, Brings
<1>2. CASE WaitPanics(t, n) /\ pc' # pc
  <2>1. /\ pc[t] = "orbit" /\ pc' = [pc EXCEPT ![t] = "panicked"]
        /\ UNCHANGED <<hid, daemon>>
    BY <1>2 DEF WaitPanics, docker
  <2>2. Life' = Life
    BY <2>1, LifeStays
  <2>3. QED
    BY <2>1, <2>2, Abandons DEF Phases
<1>3. CASE ~StartBegins(t, n) /\ pc' = pc
  <2>1. UNCHANGED <<pc, hid, daemon>>
    BY <1>3 DEF Start, StartRefused, StartDecided, WaitSucceeds, WaitFails, WaitPanics,
                DropTask, docker
  <2>2. UNCHANGED <<Phase, Using>> /\ Life' = Life
    BY <2>1, UsersStay, LifeStays
  <2>3. QED
    BY <2>2 DEF Shared!vars
<1>4. QED
  BY <1>1, <1>2, <1>3
  DEF Start, StartRefused, StartDecided, WaitSucceeds, WaitFails, DropTask

\* Every step of the registry is a step of SharedContainer or a stutter.
LEMMA StepRefines ==
  ASSUME OverflowChecks, TypeOK, IInv, OnePerName, [Next]_vars
  PROVE  [Shared!Next]_(Shared!vars)
<1>1. ASSUME NEW t \in Tests, NEW n \in Names, Create(t, n)
      PROVE  Shared!Next \/ UNCHANGED Shared!vars
  BY <1>1, CreateRefines DEF Shared!Next
<1>2. ASSUME NEW t \in Tests, NEW n \in Names, Start(t, n)
      PROVE  Shared!Next \/ UNCHANGED Shared!vars
  BY <1>2, StartRefines DEF Shared!Next
<1>3. ASSUME NEW t \in Tests, IgniteFails(t) \/ OrbitFails(t)
      PROVE  Shared!Next
  <2>1. /\ pc[t] \in {"ignite", "orbit"} /\ pc' = [pc EXCEPT ![t] = "disconnect"]
        /\ UNCHANGED <<hid, daemon>>
    BY <1>3 DEF IgniteFails, OrbitFails, docker
  <2>2. Life' = Life
    BY <2>1, LifeStays
  <2>3. Shared!Abandon(t)
    BY <2>1, <2>2, Abandons DEF Phases
  <2>4. QED
    BY <2>3 DEF Shared!Next
<1>4. ASSUME NEW t \in Tests, Orbited(t) PROVE Shared!Next
  <2>1. IInv'
    BY InvInductive
  <2>2. Shared!Enter(t)
    BY <1>4, <2>1, Enters
  <2>3. QED
    BY <2>2 DEF Shared!Next
<1>5. ASSUME NEW t \in Tests, BodyEnds(t) PROVE Shared!Next
  BY <1>5, Leaves DEF Shared!Next
<1>6. ASSUME NEW t \in Tests, NEW n \in Names, NEW c \in Tests, Remove(t, n, c)
      PROVE  Shared!Next \/ UNCHANGED Shared!vars
  <2>1. UNCHANGED <<Phase, Using>>
    BY <1>6, UsersStay DEF Remove
  <2>2. CASE daemon' = daemon
    BY <2>1, <2>2, LifeStays DEF Shared!vars
  <2>3. CASE DaemonRemoves(n, c)
    BY <2>1, <2>3, Retires DEF Shared!Next
  <2>4. QED
    BY <1>6, <2>2, <2>3 DEF Remove, DaemonRemoves, IInv, RemovalSafe
<1>7. ASSUME NEW t \in Tests,
             Ignited(t) \/ Disconnect(t) \/ Decrement(t) \/ TeardownNetwork(t)
      PROVE  UNCHANGED Shared!vars
  <2>1. /\ UNCHANGED <<hid, daemon>>
        /\ \/ pc[t] = "ignite" /\ pc' = [pc EXCEPT ![t] = "orbit"]
           \/ pc[t] = "disconnect" /\ pc' = [pc EXCEPT ![t] = "decrement"]
           \/ pc[t] = "decrement" /\ pc' = [pc EXCEPT ![t] = "remove"]
           \/ pc[t] = "remove" /\ pc' = [pc EXCEPT ![t] = "done"]
    BY <1>7 DEF Ignited, Disconnect, Decrement, TeardownNetwork, docker
  <2>2. UNCHANGED <<Phase, Using>>
    BY <2>1, UsersStay DEF TypeOK
  <2>3. Life' = Life
    BY <2>1, LifeStays
  <2>4. QED
    BY <2>2, <2>3 DEF Shared!vars
<1>8. CASE UNCHANGED vars
  <2>1. UNCHANGED <<pc, hid, daemon>>
    BY <1>8 DEF vars, docker
  <2>2. UNCHANGED <<Phase, Using>> /\ Life' = Life
    BY <2>1, UsersStay, LifeStays
  <2>3. QED
    BY <2>2 DEF Shared!vars
<1>9. QED
  BY <1>1, <1>2, <1>3, <1>4, <1>5, <1>6, <1>7, <1>8 DEF Next, TestStep, Exit

\* The registry implements SharedContainer: on every behaviour, whatever fails
\* and however the tests interleave, what they see of a static container is one
\* running container per name, handed to every body, kept while a body has it
\* and never run again after its removal.
THEOREM RefinesShared == OverflowChecks => (Spec => Shared!Spec)
<1> SUFFICES ASSUME OverflowChecks PROVE Spec => Shared!Spec
  OBVIOUS
<1>1. Init => Shared!Init
  BY DEF Init, Shared!Init, Life, Phase, Using
<1>2. TypeOK /\ IInv /\ OnePerName /\ [Next]_vars => [Shared!Next]_(Shared!vars)
  BY StepRefines
<1>3. QED
  BY <1>1, <1>2, InvCorrect, TypeCorrect, OnePerNameCorrect, PTL DEF Spec, Shared!Spec
=============================================================================
