---------------------- MODULE InternalContainersProofs ----------------------
(***************************************************************************)
(* Proofs about the registry of internal static containers, for any number *)
(* of tests, names and networks, any assignment of policies and any set of *)
(* faults.                                                                 *)
(***************************************************************************)
EXTENDS InternalContainers, FiniteSetTheorems, TLAPS

-----------------------------------------------------------------------------
\* Functions and sets keep their types under the updates the actions make.

\* Adding an element of S to a subset of S leaves a subset of S.
LEMMA SubsetAdd ==
  ASSUME NEW S, NEW A \in SUBSET S, NEW x \in S
  PROVE  A \cup {x} \in SUBSET S
  OBVIOUS

\* Removing elements from a subset of S leaves a subset of S.
LEMMA SubsetRemove ==
  ASSUME NEW S, NEW A \in SUBSET S, NEW B
  PROVE  A \ B \in SUBSET S
  OBVIOUS

\* Setting one cell of a function of functions keeps its type.
LEMMA SetCell ==
  ASSUME NEW D, NEW E, NEW R, NEW f \in [D -> [E -> R]], NEW x, NEW y, NEW v \in R
  PROVE  [f EXCEPT ![x][y] = v] \in [D -> [E -> R]]
  OBVIOUS

\* Adding a network to one cell of attached keeps its type, whether or not the
\* cell exists.
LEMMA AddToCell ==
  ASSUME NEW D, NEW E, NEW R, NEW f \in [D -> [E -> SUBSET R]],
         NEW x \in D, NEW y, NEW v \in R
  PROVE  [f EXCEPT ![x][y] = @ \cup {v}] \in [D -> [E -> SUBSET R]]
  OBVIOUS

-----------------------------------------------------------------------------
\* The initial state is well typed.
LEMMA InitType == Init => TypeOK
  BY CounterAssumption, TestsAssumption
  DEF Init, TypeOK, Statuses, Phases, Slots, IdOrNone

\* Incrementing and decrementing a u8 stays within the u8.
LEMMA CounterType ==
  ASSUME NEW c \in 0..CounterMax
  PROVE  Incremented(c) \in 0..CounterMax /\ Decremented(c) \in 0..CounterMax
  BY CounterAssumption DEF Incremented, Decremented

\* Moving one composition on keeps the type of slot.
LEMMA SlotType ==
  ASSUME TypeOK, NEW t \in Tests, NEW n \in Names, NEW s \in Slots, SetSlot(t, n, s)
  PROVE  slot' \in [Tests -> [Names -> Slots]]
  BY SetCell DEF TypeOK, SetSlot

\* create keeps the types.
LEMMA CreateType ==
  ASSUME TypeOK, NEW t \in Tests, NEW n \in Names, Create(t, n)
  PROVE  TypeOK'
<1>1. CASE CreateRefused(t, n)
  BY <1>1, CounterAssumption
  DEF CreateRefused, SetSlot, docker, TypeOK, Statuses, Slots, IdOrNone
<1>2. CASE CreateFresh(t, n)
  <2>1. {NetworkOf[t]} \in SUBSET Networks /\ {t} \in SUBSET Tests
    BY NetworkAssumption
  <2>2. attached' \in [Names -> [Tests -> SUBSET Networks]]
    BY <1>2, <2>1 DEF CreateFresh, TypeOK
  <2>3. claims' \in [Names -> SUBSET Tests]
    BY <1>2, <2>1 DEF CreateFresh, TypeOK
  <2>4. hid' \in [Tests -> [Names -> IdOrNone]]
    <3>1. hid' = hid \/ hid' = [hid EXCEPT ![t][n] = t]
      BY <1>2 DEF CreateFresh
    <3>2. hid \in [Tests -> [Names -> IdOrNone]] /\ t \in IdOrNone
      BY DEF TypeOK, IdOrNone
    <3>3. [hid EXCEPT ![t][n] = t] \in [Tests -> [Names -> IdOrNone]]
      BY <3>2
    <3>4. QED
      BY <3>1, <3>2, <3>3
  <2>5. slot' \in [Tests -> [Names -> Slots]]
    BY <1>2, SlotType DEF CreateFresh, Slots
  <2>6. counter' \in [Names -> 0..CounterMax]
    BY <1>2, CounterAssumption DEF CreateFresh, TypeOK
  <2>7. QED
    BY <1>2, <2>2, <2>3, <2>4, <2>5, <2>6
    DEF CreateFresh, TypeOK, Statuses, IdOrNone
<1>3. CASE JoinLive(t, n)
  <2>1. attached' \in [Names -> [Tests -> SUBSET Networks]]
    <3>1. NetworkOf[t] \in Networks /\ attached \in [Names -> [Tests -> SUBSET Networks]]
      BY NetworkAssumption DEF TypeOK
    <3>2. QED
      BY <1>3, <3>1, AddToCell DEF JoinLive
  <2>2. claims' \in [Names -> SUBSET Tests]
    <3>1. claims[n] \cup {t} \in SUBSET Tests
      BY SubsetAdd DEF TypeOK
    <3>2. claims' = claims \/ claims' = [claims EXCEPT ![n] = claims[n] \cup {t}]
      BY <1>3 DEF JoinLive
    <3>3. QED
      BY <3>1, <3>2 DEF TypeOK
  <2>3. counter' \in [Names -> 0..CounterMax]
    <3>1. Incremented(counter[n]) \in 0..CounterMax
      BY CounterType DEF TypeOK
    <3>2. QED
      BY <1>3, <3>1 DEF JoinLive, TypeOK
  <2>4. hid' \in [Tests -> [Names -> IdOrNone]]
    <3>1. hid' = hid \/ hid' = [hid EXCEPT ![t][n] = cid[n]]
      BY <1>3 DEF JoinLive
    <3>2. hid \in [Tests -> [Names -> IdOrNone]] /\ cid[n] \in IdOrNone
      BY DEF TypeOK
    <3>3. [hid EXCEPT ![t][n] = cid[n]] \in [Tests -> [Names -> IdOrNone]]
      BY <3>2
    <3>4. QED
      BY <3>1, <3>2, <3>3
  <2>5. slot' \in [Tests -> [Names -> Slots]]
    <3>1. slot' = slot \/ SetSlot(t, n, "pending")
      BY <1>3 DEF JoinLive
    <3>2. QED
      BY <3>1, SlotType DEF Slots, TypeOK
  <2>7. pc' \in [Tests -> Phases]
    BY <1>3 DEF JoinLive, TypeOK, Phases
  <2>6. QED
    BY <2>1, <2>2, <2>3, <2>4, <2>5, <2>7, <1>3 DEF JoinLive, TypeOK
<1>4. CASE JoinUnconnected(t, n)
  BY <1>4 DEF JoinUnconnected, SetSlot, registry, docker, TypeOK, Slots
<1>5. CASE JoinFailed(t, n)
  <2>1. claims[n] \cup {t} \in SUBSET Tests
    BY SubsetAdd DEF TypeOK
  <2>2. Incremented(counter[n]) \in 0..CounterMax
    BY CounterType DEF TypeOK
  <2>3. claims' \in [Names -> SUBSET Tests] /\ counter' \in [Names -> 0..CounterMax]
    BY <1>5, <2>1, <2>2 DEF JoinFailed, TypeOK
  <2>4. slot' \in [Tests -> [Names -> Slots]]
    <3>1. slot' = slot \/ SetSlot(t, n, "failed")
      BY <1>5 DEF JoinFailed
    <3>2. QED
      BY <3>1, SlotType DEF Slots, TypeOK
  <2>5. pc' \in [Tests -> Phases]
    BY <1>5 DEF JoinFailed, TypeOK, Phases
  <2>6. QED
    BY <1>5, <2>3, <2>4, <2>5 DEF JoinFailed, docker, TypeOK
<1>6. QED
  BY <1>1, <1>2, <1>3, <1>4, <1>5 DEF Create

\* start keeps the types.
LEMMA StartType ==
  ASSUME TypeOK, NEW t \in Tests, NEW n \in Names, Start(t, n)
  PROVE  TypeOK'
<1> USE DEF TypeOK, Statuses, Phases, Slots, IdOrNone, SetSlot
<1>1. CASE StartBegins(t, n)
  BY <1>1 DEF StartBegins, registry
<1>2. CASE StartRefused(t, n)
  BY <1>2 DEF StartRefused, RecordFailure, docker
<1>3. CASE StartDecided(t, n)
  BY <1>3 DEF StartDecided, registry, docker
<1>4. CASE WaitSucceeds(t, n)
  BY <1>4 DEF WaitSucceeds, docker
<1>5. CASE WaitFails(t, n)
  BY <1>5 DEF WaitFails, RecordFailure, docker
<1>6. CASE WaitPanics(t, n)
  BY <1>6 DEF WaitPanics, registry, docker
<1>7. CASE DropTask(t, n)
  BY <1>7 DEF DropTask, registry, docker
<1>8. QED
  BY <1>1, <1>2, <1>3, <1>4, <1>5, <1>6, <1>7 DEF Start

\* Every step keeps the types.
LEMMA TypeInductive == TypeOK /\ [Next]_vars => TypeOK'
<1> SUFFICES ASSUME TypeOK, [Next]_vars PROVE TypeOK'
  OBVIOUS
<1>1. ASSUME NEW t \in Tests, TestStep(t) PROVE TypeOK'
  <2> USE CounterAssumption, NetworkAssumption, TestsAssumption
      DEF CounterAssumption, TestsAssumption, NetworkAssumption,
        TypeOK, Statuses, Phases, Slots, IdOrNone
  <2>1. CASE \E n \in Names : Create(t, n)
    BY <2>1, CreateType
  <2>2. CASE Ignited(t)
    BY <2>2 DEF Ignited, registry, docker, TypeOK, Phases, Slots
  <2>3. CASE IgniteFails(t)
    BY <2>3 DEF IgniteFails, registry, docker, TypeOK, Phases
  <2>4. CASE \E n \in Names : Start(t, n)
    BY <2>4, StartType
  <2>5. CASE Orbited(t)
    BY <2>5 DEF Orbited, registry, docker, TypeOK, Phases
  <2>6. CASE OrbitFails(t)
    BY <2>6 DEF OrbitFails, registry, docker, TypeOK, Phases
  <2>7. CASE BodyEnds(t)
    BY <2>7 DEF BodyEnds, registry, docker, TypeOK, Phases
  <2>8. CASE Disconnect(t)
    <3>1. attached \in [Names -> [Tests -> SUBSET Networks]]
      BY DEF TypeOK
    <3>2. attached' \in [Names -> [Tests -> SUBSET Networks]]
      <4>1. \A n \in Names, c \in Tests :
              /\ attached[n][c] \in SUBSET Networks
              /\ attached[n][c] \ {NetworkOf[t]} \in SUBSET Networks
        BY <3>1
      <4>2. PICK failed \in SUBSET Names :
              attached' = [n \in Names |-> [c \in Tests |->
                             IF DisconnectsFrom(t, n) /\ n \notin failed /\ c = cid[n]
                             THEN attached[n][c] \ {NetworkOf[t]}
                             ELSE attached[n][c]]]
        BY <2>8 DEF Disconnect
      <4>3. QED
        BY <4>1, <4>2
    <3>3. QED
      BY <2>8, <3>2 DEF Disconnect, registry, TypeOK, Phases
  <2>9. CASE Decrement(t)
    <3>1. counter' \in [Names -> 0..CounterMax]
      BY <2>9, CounterType DEF Decrement, TypeOK
    <3>2. claims' \in [Names -> SUBSET Tests]
      BY <2>9, SubsetRemove DEF Decrement, TypeOK
    <3>3. status' \in [Names -> Statuses] /\ cid' \in [Names -> IdOrNone]
      BY <2>9 DEF Decrement, TypeOK, Statuses, IdOrNone
    <3>4. removing' \in [Tests -> SUBSET (Names \X Tests)]
      BY <2>9 DEF Decrement, TypeOK
    <3>5. QED
      BY <2>9, <3>1, <3>2, <3>3, <3>4 DEF Decrement, docker, TypeOK, Phases
  <2>10. CASE \E n \in Names, c \in Tests : Remove(t, n, c)
    <3>1. PICK n \in Names, c \in Tests : Remove(t, n, c)
      BY <2>10
    <3>2. removing[t] \ {<<n, c>>} \in SUBSET (Names \X Tests)
      BY SubsetRemove DEF TypeOK
    <3>3. removing' \in [Tests -> SUBSET (Names \X Tests)]
      BY <3>1, <3>2 DEF Remove, TypeOK
    <3>4. attached' \in [Names -> [Tests -> SUBSET Networks]]
      <4>1. attached' = attached \/ attached' = [attached EXCEPT ![n][c] = {}]
        BY <3>1 DEF Remove
      <4>2. attached \in [Names -> [Tests -> SUBSET Networks]]
        BY DEF TypeOK
      <4>3. [attached EXCEPT ![n][c] = {}] \in [Names -> [Tests -> SUBSET Networks]]
        BY <4>2
      <4>4. QED
        BY <4>1, <4>2, <4>3
    <3>5. daemon' \in [Names -> [Tests -> {"absent", "created", "running", "removed"}]]
      <4>1. daemon' = daemon \/ daemon' = [daemon EXCEPT ![n][c] = "removed"]
        BY <3>1 DEF Remove
      <4>2. daemon \in [Names -> [Tests -> {"absent", "created", "running", "removed"}]]
        BY DEF TypeOK
      <4>3. [daemon EXCEPT ![n][c] = "removed"]
              \in [Names -> [Tests -> {"absent", "created", "running", "removed"}]]
        BY <4>2
      <4>4. QED
        BY <4>1, <4>2, <4>3
    <3>6. QED
      BY <3>1, <3>3, <3>4, <3>5 DEF Remove, registry, TypeOK
  <2>11. CASE TeardownNetwork(t)
    BY <2>11, NetworkAssumption DEF TeardownNetwork, registry, TypeOK, Phases
  <2>12. QED
    BY <1>1, <2>1, <2>2, <2>3, <2>4, <2>5, <2>6, <2>7, <2>8, <2>9, <2>10, <2>11
    DEF TestStep
<1>2. CASE UNCHANGED vars
  BY <1>2 DEF vars, registry, docker, TypeOK
<1>3. QED
  BY <1>1, <1>2 DEF Next, Exit

\* The registry, the engines and the daemon keep their types on every
\* behaviour, with wrapping or panicking counters alike.
THEOREM TypeCorrect == Spec => []TypeOK
<1>1. QED
  BY InitType, TypeInductive, PTL DEF Spec

-----------------------------------------------------------------------------
\* The inductive invariant.  One lemma per kind of step.

\* Counting the members of a set of tests.
LEMMA Counting ==
  ASSUME NEW S \in SUBSET Tests, NEW t \in Tests
  PROVE  /\ Cardinality(S) \in Nat
         /\ Cardinality(S) = 0 <=> S = {}
         /\ Cardinality({t}) = 1
         /\ t \notin S => Cardinality(S \cup {t}) = Cardinality(S) + 1
         /\ t \in S => Cardinality(S \ {t}) = Cardinality(S) - 1
<1>1. IsFiniteSet(S)
  BY TestsAssumption, FS_Subset
<1>2. Cardinality({t}) = 1
  BY FS_Singleton
<1>3. QED
  BY <1>1, <1>2, FS_CardinalityType, FS_EmptySet, FS_AddElement, FS_RemoveElement

\* The invariant holds of the empty registry.
LEMMA InitInv == Init => IInv
<1> SUFFICES ASSUME Init PROVE IInv
  OBVIOUS
<1>1. CounterExact
  BY FS_EmptySet DEF Init, CounterExact
<1>2. ClaimsCounted /\ ClaimsAgree /\ LiveEntry /\ NoEntry
  BY DEF Init, ClaimsCounted, ClaimsAgree, LiveEntry, NoEntry, Claimant
<1>3. LockHeld /\ RemovalSafe /\ SlotsHaveIds
  BY DEF Init, LockHeld, RemovalSafe, SlotsHaveIds
<1>4. QED
  BY <1>1, <1>2, <1>3 DEF IInv

\* A test moves to another phase and nothing else the invariant reads changes:
\* it must not become a claimant by that, and must not enter its body early.
LEMMA PhaseStep ==
  ASSUME TypeOK, IInv, NEW t \in Tests, NEW p \in Phases,
         pc' = [pc EXCEPT ![t] = p],
         UNCHANGED <<registry, slot, hid, removing, daemon>>,
         p \in ClaimPhases => pc[t] \in ClaimPhases,
         p = "body" => AllRunning(t)
  PROVE  IInv'
<1>1. \A u \in Tests, m \in Names : Claimant(u, m)' => Claimant(u, m)
  BY DEF TypeOK, Claimant
<1>2. CounterExact'
  BY DEF IInv, CounterExact, registry
<1>3. ClaimsCounted'
  BY <1>1 DEF IInv, ClaimsCounted, registry
<1>4. ClaimsAgree'
  BY <1>1 DEF IInv, ClaimsAgree, Exists
<1>5. LiveEntry' /\ NoEntry'
  BY <1>1 DEF IInv, LiveEntry, NoEntry, Exists, registry
<1>6. LockHeld'
  BY DEF IInv, LockHeld, registry
<1>7. RemovalSafe'
  BY <1>1 DEF IInv, RemovalSafe, registry
<1>8. SlotsHaveIds'
  BY DEF IInv, SlotsHaveIds, TypeOK, AllRunning
<1>9. QED
  BY <1>2, <1>3, <1>4, <1>5, <1>6, <1>7, <1>8 DEF IInv

\* A composition moves on without touching the registry.
LEMMA SlotStep ==
  ASSUME TypeOK, IInv, NEW t \in Tests, NEW n \in Names,
         NEW s \in {"failed", "running", "error", "dropped"}, SetSlot(t, n, s),
         UNCHANGED <<registry, pc, hid, removing, daemon>>,
         slot[t][n] # "running",
         s = "failed" \/ slot[t][n] \notin {"idle", "failed"},
         s = "running" => status[n] = "Operational"
  PROVE  IInv'
<1>1. \A u \in Tests, m \in Names :
        slot'[u][m] = IF u = t /\ m = n THEN s ELSE slot[u][m]
  BY DEF SetSlot, TypeOK
<1>2. \A u \in Tests, m \in Names : Claimant(u, m)' <=> Claimant(u, m)
  BY DEF Claimant
<1>3. CounterExact'
  BY DEF IInv, CounterExact, registry
<1>4. ClaimsCounted'
  BY <1>1, <1>2 DEF IInv, ClaimsCounted, registry
<1>5. ClaimsAgree'
  BY <1>1, <1>2 DEF IInv, ClaimsAgree, LiveEntry, Exists
<1>6. LiveEntry' /\ NoEntry'
  BY <1>2 DEF IInv, LiveEntry, NoEntry, Exists, registry
<1>7. LockHeld'
  BY <1>1 DEF IInv, LockHeld, registry
<1>8. RemovalSafe'
  BY <1>2 DEF IInv, RemovalSafe, registry
<1>9. SlotsHaveIds'
  BY <1>1 DEF IInv, SlotsHaveIds
<1>10. QED
  BY <1>3, <1>4, <1>5, <1>6, <1>7, <1>8, <1>9 DEF IInv

\* What create may assume: the test is igniting and has not created n yet.
Creating(t, n) ==
    /\ pc[t] = "ignite" /\ n \in Uses[t] /\ slot[t][n] = "idle"
    /\ ~Locked

\* Nobody claims an entry that is absent or Cleaned.
LEMMA NoClaimants ==
  ASSUME OverflowChecks, IInv, NEW n \in Names, status[n] \in {"Absent", "Cleaned"}
  PROVE  claims[n] = {} /\ \A u \in Tests : ~Claimant(u, n)
  BY DEF IInv, CounterExact, ClaimsCounted

\* A refused creation leaves an entry that counts the creator and nobody else.
LEMMA CreateRefusedInv ==
  ASSUME OverflowChecks, TypeOK, IInv, NEW t \in Tests, NEW n \in Names,
         Creating(t, n), CreateRefused(t, n)
  PROVE  IInv'
<1>1. /\ \A u \in Tests, m \in Names :
            slot'[u][m] = IF u = t /\ m = n THEN "failed" ELSE slot[u][m]
      /\ \A m \in Names :
            /\ status'[m] = IF m = n THEN "Failed" ELSE status[m]
            /\ cid'[m] = IF m = n THEN NoId ELSE cid[m]
            /\ counter'[m] = IF m = n THEN 1 ELSE counter[m]
            /\ claims'[m] = IF m = n THEN {t} ELSE claims[m]
      /\ UNCHANGED <<pc, hid, removing, daemon>>
  BY DEF CreateRefused, SetSlot, TypeOK, docker
<1>2. \A u \in Tests, m \in Names : Claimant(u, m)' <=> Claimant(u, m)
  BY <1>1 DEF Claimant
<1>3. \A u \in Tests : ~Claimant(u, n)
  BY NoClaimants DEF CreateRefused
<1>4. CounterExact'
  <2>1. Cardinality({t}) = 1
    BY Counting
  <2>2. QED
    BY <1>1, <2>1 DEF IInv, CounterExact
<1>5. ClaimsCounted'
  BY <1>1, <1>2, <1>3 DEF IInv, ClaimsCounted
<1>6. ClaimsAgree'
  BY <1>1, <1>2 DEF IInv, ClaimsAgree, Exists
<1>7. LiveEntry' /\ NoEntry'
  BY <1>1, <1>2 DEF IInv, LiveEntry, NoEntry, Exists
<1>8. LockHeld'
  BY <1>1 DEF Creating, Locked, LockHeld
<1>9. RemovalSafe'
  BY <1>1, <1>2 DEF IInv, RemovalSafe
<1>10. SlotsHaveIds'
  BY <1>1 DEF IInv, SlotsHaveIds, Creating
<1>11. QED
  BY <1>4, <1>5, <1>6, <1>7, <1>8, <1>9, <1>10 DEF IInv

\* A fresh container has an id nobody holds and nobody is removing.
LEMMA CreateFreshInv ==
  ASSUME OverflowChecks, TypeOK, IInv, NEW t \in Tests, NEW n \in Names,
         Creating(t, n), CreateFresh(t, n)
  PROVE  IInv'
<1>1. /\ \A m \in Names :
            /\ status'[m] = IF m = n THEN "Pending" ELSE status[m]
            /\ cid'[m] = IF m = n THEN t ELSE cid[m]
            /\ counter'[m] = IF m = n THEN 1 ELSE counter[m]
            /\ claims'[m] = IF m = n THEN {t} ELSE claims[m]
      /\ UNCHANGED <<pc, removing>>
  BY DEF CreateFresh, TypeOK
<1>2. \A u \in Tests, m \in Names :
        /\ u # t \/ m # n => slot'[u][m] = slot[u][m] /\ hid'[u][m] = hid[u][m]
        /\ daemon'[m][u] = IF m = n /\ u = t THEN "created" ELSE daemon[m][u]
  BY DEF CreateFresh, SetSlot, TypeOK
<1>3. \/ slot'[t][n] = "pending" /\ hid'[t][n] = t
      \/ slot'[t][n] = "failed" /\ hid'[t][n] = hid[t][n]
  BY DEF CreateFresh, SetSlot, TypeOK
<1>4. /\ \A u \in Tests, m \in Names : u # t \/ m # n => (Claimant(u, m)' <=> Claimant(u, m))
      /\ \A u \in Tests : ~Claimant(u, n)
      /\ Claimant(t, n)' => slot'[t][n] = "pending" /\ hid'[t][n] = t
  <2>1. \A u \in Tests : ~Claimant(u, n)
    BY NoClaimants DEF CreateFresh
  <2>2. hid[t][n] = NoId
    BY <2>1 DEF Claimant, Creating, ClaimPhases
  <2>3. QED
    BY <1>1, <1>2, <1>3, <2>1, <2>2 DEF Claimant
<1>5. daemon[n][t] = "absent"
  BY DEF IInv, SlotsHaveIds, Creating
<1>6. t # NoId
  BY TestsAssumption
<1>7. CounterExact'
  <2>1. Cardinality({t}) = 1
    BY Counting
  <2>2. QED
    BY <1>1, <2>1 DEF IInv, CounterExact
<1>8. ClaimsCounted'
  BY <1>1, <1>2, <1>3, <1>4 DEF IInv, ClaimsCounted
<1>9. ClaimsAgree'
  <2> SUFFICES ASSUME NEW m \in Names, NEW u \in Tests, Claimant(u, m)'
               PROVE  /\ Exists(m, hid[u][m])'
                      /\ slot'[u][m] = "running" => daemon'[m][hid'[u][m]] = "running"
                      /\ \A v \in Tests : Claimant(v, m)' => hid'[v][m] = hid'[u][m]
    BY DEF ClaimsAgree
  <2>1. CASE m = n
    <3>1. u = t
      BY <1>4, <2>1
    <3>2. QED
      BY <1>2, <1>4, <2>1, <3>1 DEF Exists
  <2>2. CASE m # n
    <3>1. hid[u][m] \in Tests
      BY <1>4, <2>2 DEF Claimant, TypeOK, IdOrNone
    <3>2. QED
      BY <1>2, <1>4, <2>2, <3>1 DEF IInv, ClaimsAgree, Exists
  <2>3. QED
    BY <2>1, <2>2
<1>10. LiveEntry'
  <2> SUFFICES ASSUME NEW m \in Names, status'[m] \in {"Pending", "Operational"}
               PROVE  /\ cid'[m] # NoId
                      /\ Exists(m, cid[m])'
                      /\ status'[m] = "Operational" => daemon'[m][cid'[m]] = "running"
                      /\ \A u \in Tests : Claimant(u, m)' => hid'[u][m] = cid'[m]
    BY DEF LiveEntry
  <2>1. CASE m = n
    BY <1>1, <1>2, <1>4, <1>6, <2>1 DEF Exists
  <2>2. CASE m # n
    <3>1. cid[m] \in Tests
      BY <1>1, <2>2 DEF IInv, LiveEntry, TypeOK, IdOrNone
    <3>2. QED
      BY <1>1, <1>2, <1>4, <2>2, <3>1 DEF IInv, LiveEntry, Exists
  <2>3. QED
    BY <2>1, <2>2
<1>11. NoEntry'
  BY <1>1 DEF IInv, NoEntry
<1>12. LockHeld'
  <2>1. \A u \in Tests, m \in Names : slot'[u][m] # "starting"
    BY <1>2, <1>3 DEF Creating, Locked
  <2>2. QED
    BY <2>1 DEF LockHeld
<1>13. RemovalSafe'
  <2> SUFFICES ASSUME NEW r \in Tests, NEW m \in Names, NEW c \in Tests,
                      <<m, c>> \in removing[r]
               PROVE  /\ daemon'[m][c] # "absent"
                      /\ \A u \in Tests : Claimant(u, m)' => hid'[u][m] # c
                      /\ status'[m] \in {"Pending", "Operational"} => cid'[m] # c
    BY <1>1 DEF RemovalSafe
  <2>1. daemon[m][c] # "absent"
    BY DEF IInv, RemovalSafe
  <2>2. m # n \/ c # t
    BY <1>5, <2>1
  <2>3. QED
    BY <1>1, <1>2, <1>4, <2>1, <2>2 DEF IInv, RemovalSafe
<1>14. SlotsHaveIds'
  BY <1>1, <1>2, <1>3, <1>6 DEF IInv, SlotsHaveIds, Creating
<1>15. QED
  BY <1>7, <1>8, <1>9, <1>10, <1>11, <1>12, <1>13, <1>14 DEF IInv

\* A join that is counted: the new claimant holds the container of the live
\* entry, as everybody else does.
LEMMA JoinLiveInv ==
  ASSUME OverflowChecks, TypeOK, IInv, NEW t \in Tests, NEW n \in Names,
         Creating(t, n), JoinLive(t, n)
  PROVE  IInv'
<1>1. CASE IncrementPanics(counter[n])
  <2>1. /\ pc' = [pc EXCEPT ![t] = "panicked"]
        /\ UNCHANGED <<registry, slot, hid, removing, daemon>>
    BY <1>1 DEF JoinLive, registry
  <2>2. QED
    BY <2>1, PhaseStep DEF Creating, ClaimPhases, Phases
<1>2. CASE ~IncrementPanics(counter[n])
  <2>1. /\ \A u \in Tests, m \in Names :
              /\ slot'[u][m] = IF u = t /\ m = n THEN "pending" ELSE slot[u][m]
              /\ hid'[u][m] = IF u = t /\ m = n THEN cid[n] ELSE hid[u][m]
        /\ \A m \in Names :
              /\ counter'[m] = IF m = n THEN Incremented(counter[n]) ELSE counter[m]
              /\ claims'[m] = IF m = n THEN claims[n] \cup {t} ELSE claims[m]
        /\ UNCHANGED <<status, cid, pc, removing, daemon>>
    BY <1>2 DEF JoinLive, SetSlot, TypeOK
  <2>2. \A u \in Tests, m \in Names : u # t \/ m # n => (Claimant(u, m)' <=> Claimant(u, m))
    BY <2>1 DEF Claimant
  <2>3. /\ cid[n] # NoId /\ Exists(n, cid[n])
        /\ \A u \in Tests : Claimant(u, n) => hid[u][n] = cid[n]
    BY DEF IInv, LiveEntry, JoinLive
  <2>4. t \notin claims[n]
    BY DEF IInv, ClaimsCounted, Creating
  <2>5. CounterExact'
    <3>1. Cardinality(claims[n] \cup {t}) = Cardinality(claims[n]) + 1
      BY <2>4, Counting DEF TypeOK
    <3>2. counter[n] = Cardinality(claims[n]) /\ counter[n] # CounterMax
      BY <1>2 DEF IInv, CounterExact, IncrementPanics
    <3>3. counter'[n] = Cardinality(claims'[n])
      BY <2>1, <3>1, <3>2 DEF Incremented
    <3>4. QED
      BY <2>1, <3>3 DEF IInv, CounterExact, JoinLive
  <2>6. ClaimsCounted'
    BY <2>1, <2>2 DEF IInv, ClaimsCounted
  <2>7. ClaimsAgree'
    BY <2>1, <2>2, <2>3 DEF IInv, ClaimsAgree, Exists
  <2>8. LiveEntry' /\ NoEntry'
    BY <2>1, <2>2 DEF IInv, LiveEntry, NoEntry, Exists
  <2>9. LockHeld'
    BY <2>1 DEF IInv, LockHeld
  <2>10. RemovalSafe'
    BY <2>1, <2>2 DEF IInv, RemovalSafe, JoinLive
  <2>11. SlotsHaveIds'
    BY <2>1, <2>3 DEF IInv, SlotsHaveIds, Creating
  <2>12. QED
    BY <2>5, <2>6, <2>7, <2>8, <2>9, <2>10, <2>11 DEF IInv
<1>3. QED
  BY <1>1, <1>2

\* A join of a failed entry is counted and makes no claimant.
LEMMA JoinFailedInv ==
  ASSUME OverflowChecks, TypeOK, IInv, NEW t \in Tests, NEW n \in Names,
         Creating(t, n), JoinFailed(t, n)
  PROVE  IInv'
<1>1. CASE IncrementPanics(counter[n])
  <2>1. /\ pc' = [pc EXCEPT ![t] = "panicked"]
        /\ UNCHANGED <<registry, slot, hid, removing, daemon>>
    BY <1>1 DEF JoinFailed, registry, docker
  <2>2. QED
    BY <2>1, PhaseStep DEF Creating, ClaimPhases, Phases
<1>2. CASE ~IncrementPanics(counter[n])
  <2>1. /\ \A u \in Tests, m \in Names :
              slot'[u][m] = IF u = t /\ m = n THEN "failed" ELSE slot[u][m]
        /\ \A m \in Names :
              /\ counter'[m] = IF m = n THEN Incremented(counter[n]) ELSE counter[m]
              /\ claims'[m] = IF m = n THEN claims[n] \cup {t} ELSE claims[m]
        /\ UNCHANGED <<status, cid, pc, hid, removing, daemon>>
    BY <1>2 DEF JoinFailed, SetSlot, TypeOK, docker
  <2>2. \A u \in Tests, m \in Names : Claimant(u, m)' <=> Claimant(u, m)
    BY <2>1 DEF Claimant
  <2>3. t \notin claims[n]
    BY DEF IInv, ClaimsCounted, Creating
  <2>4. CounterExact'
    <3>1. Cardinality(claims[n] \cup {t}) = Cardinality(claims[n]) + 1
      BY <2>3, Counting DEF TypeOK
    <3>2. counter[n] = Cardinality(claims[n]) /\ counter[n] # CounterMax
      BY <1>2 DEF IInv, CounterExact, IncrementPanics
    <3>3. counter'[n] = Cardinality(claims'[n])
      BY <2>1, <3>1, <3>2 DEF Incremented
    <3>4. QED
      BY <2>1, <3>3 DEF IInv, CounterExact, JoinFailed
  <2>5. ClaimsCounted'
    BY <2>1, <2>2 DEF IInv, ClaimsCounted
  <2>6. ClaimsAgree'
    BY <2>1, <2>2 DEF IInv, ClaimsAgree, Exists
  <2>7. LiveEntry' /\ NoEntry'
    BY <2>1, <2>2 DEF IInv, LiveEntry, NoEntry, Exists
  <2>8. LockHeld'
    BY <2>1 DEF IInv, LockHeld
  <2>9. RemovalSafe'
    BY <2>1, <2>2 DEF IInv, RemovalSafe
  <2>10. SlotsHaveIds'
    BY <2>1 DEF IInv, SlotsHaveIds, Creating
  <2>11. QED
    BY <2>4, <2>5, <2>6, <2>7, <2>8, <2>9, <2>10 DEF IInv
<1>3. QED
  BY <1>1, <1>2

\* create preserves the invariant.
LEMMA CreateInv ==
  ASSUME OverflowChecks, TypeOK, IInv, NEW t \in Tests, NEW n \in Names, Create(t, n)
  PROVE  IInv'
<1>1. Creating(t, n)
  BY DEF Create, Creating
<1>2. CASE JoinUnconnected(t, n)
  BY <1>1, <1>2, SlotStep DEF JoinUnconnected, Creating, docker
<1>3. QED
  BY <1>1, <1>2, CreateRefusedInv, CreateFreshInv, JoinLiveInv, JoinFailedInv DEF Create

\* Spawning the relaxed starts preserves the invariant.
LEMMA IgnitedInv ==
  ASSUME TypeOK, IInv, NEW t \in Tests, Ignited(t)
  PROVE  IInv'
<1>1. /\ \A u \in Tests, m \in Names :
            slot'[u][m] = IF u = t /\ m \in Relaxed(t) THEN "spawned" ELSE slot[u][m]
      /\ \A u \in Tests : pc'[u] = IF u = t THEN "orbit" ELSE pc[u]
      /\ UNCHANGED <<registry, hid, removing, daemon>>
  BY DEF Ignited, TypeOK, docker
<1>2. \A m \in Relaxed(t) : m \in Uses[t] /\ slot[t][m] = "pending"
  BY DEF Ignited, Relaxed
<1>3. pc[t] = "ignite"
  BY DEF Ignited
<1>4. \A u \in Tests, m \in Names : Claimant(u, m)' <=> Claimant(u, m)
  BY <1>1, <1>3 DEF Claimant, ClaimPhases
<1>5. CounterExact'
  BY <1>1 DEF IInv, CounterExact, registry
<1>6. ClaimsCounted'
  BY <1>1, <1>4 DEF IInv, ClaimsCounted, registry
<1>7. ClaimsAgree'
  BY <1>1, <1>4 DEF IInv, ClaimsAgree, Exists
<1>8. LiveEntry' /\ NoEntry'
  BY <1>1, <1>4 DEF IInv, LiveEntry, NoEntry, Exists, registry
<1>9. LockHeld'
  BY <1>1 DEF IInv, LockHeld, registry
<1>10. RemovalSafe'
  BY <1>1, <1>4 DEF IInv, RemovalSafe, registry
<1>11. SlotsHaveIds'
  <2> SUFFICES ASSUME NEW u \in Tests, NEW m \in Names
               PROVE  /\ slot'[u][m] \notin {"idle", "failed"} => hid'[u][m] # NoId
                      /\ slot'[u][m] = "idle" => daemon'[m][u] = "absent"
                      /\ pc'[u] = "body" /\ m \in Uses[u] => slot'[u][m] = "running"
    BY DEF SlotsHaveIds
  <2>1. CASE u = t /\ m \in Relaxed(t)
    BY <1>1, <1>2, <2>1 DEF IInv, SlotsHaveIds
  <2>2. CASE ~(u = t /\ m \in Relaxed(t))
    BY <1>1, <2>2 DEF IInv, SlotsHaveIds
  <2>3. QED
    BY <2>1, <2>2
<1>12. QED
  BY <1>5, <1>6, <1>7, <1>8, <1>9, <1>10, <1>11 DEF IInv

\* A composition that may be started, or is being started, holds an id and its
\* test is not in its body.
LEMMA StartableHasId ==
  ASSUME TypeOK, IInv, NEW t \in Tests, NEW n \in Names,
         Startable(t, n) \/ slot[t][n] = "starting"
  PROVE  /\ hid[t][n] # NoId
         /\ slot[t][n] \in {"pending", "spawned", "starting"}
         /\ pc[t] = "body" => n \notin Uses[t]
  BY DEF IInv, SlotsHaveIds, Startable

\* Taking the lock to start a Pending container preserves the invariant.
LEMMA StartBeginsInv ==
  ASSUME TypeOK, IInv, NEW t \in Tests, NEW n \in Names, StartBegins(t, n)
  PROVE  IInv'
<1>1. /\ hid[t][n] # NoId /\ slot[t][n] \in {"pending", "spawned", "starting"}
      /\ pc[t] = "body" => n \notin Uses[t]
  BY StartableHasId DEF StartBegins
<1>2. cid[n] \in Tests /\ daemon[n][cid[n]] \in {"created", "running"}
  BY DEF StartBegins, IInv, LiveEntry, TypeOK, IdOrNone, Exists
<1>3. /\ \A u \in Tests, m \in Names :
            slot'[u][m] = IF u = t /\ m = n THEN "starting" ELSE slot[u][m]
      /\ \A m \in Names, c \in Tests :
            daemon'[m][c] = IF m = n /\ c = cid[n] THEN "running" ELSE daemon[m][c]
      /\ UNCHANGED <<registry, pc, hid, removing>>
  BY <1>2 DEF StartBegins, SetSlot, TypeOK
<1>4. \A u \in Tests, m \in Names : Claimant(u, m)' <=> Claimant(u, m)
  BY <1>3 DEF Claimant
<1>5. CounterExact'
  BY <1>3 DEF IInv, CounterExact, registry
<1>6. ClaimsCounted'
  BY <1>3, <1>4, <1>1 DEF IInv, ClaimsCounted, registry
<1>7. \A m \in Names, c \in Tests : Exists(m, c) => Exists(m, c)'
  BY <1>3 DEF Exists
<1>8. ClaimsAgree'
  <2> SUFFICES ASSUME NEW m \in Names, NEW u \in Tests, Claimant(u, m)
               PROVE  /\ Exists(m, hid[u][m])'
                      /\ slot'[u][m] = "running" => daemon'[m][hid'[u][m]] = "running"
                      /\ \A v \in Tests : Claimant(v, m) => hid'[v][m] = hid'[u][m]
    BY <1>4 DEF ClaimsAgree
  <2>1. hid[u][m] \in Tests
    BY DEF Claimant, TypeOK, IdOrNone
  <2>2. QED
    BY <1>3, <1>7, <2>1 DEF IInv, ClaimsAgree, Exists
<1>9. LiveEntry' /\ NoEntry'
  <2>1. \A m \in Names : status[m] \in {"Pending", "Operational"} => cid[m] \in Tests
    BY DEF IInv, LiveEntry, TypeOK, IdOrNone
  <2>2. QED
    BY <1>3, <1>4, <2>1 DEF IInv, LiveEntry, NoEntry, Exists, registry
<1>10. LockHeld'
  BY <1>2, <1>3 DEF LockHeld, StartBegins, Locked, registry
<1>11. RemovalSafe'
  BY <1>3, <1>4 DEF IInv, RemovalSafe, registry
<1>12. SlotsHaveIds'
  BY <1>1, <1>2, <1>3 DEF IInv, SlotsHaveIds
<1>13. QED
  BY <1>5, <1>6, <1>8, <1>9, <1>10, <1>11, <1>12 DEF IInv

\* A failed start releases the lock and turns a Pending entry into Failed.
LEMMA StartFailureInv ==
  ASSUME TypeOK, IInv, NEW t \in Tests, NEW n \in Names,
         status[n] = "Pending", RecordFailure(t, n), SetSlot(t, n, "error"),
         UNCHANGED <<pc, hid, removing, daemon>>,
         \/ Startable(t, n) /\ ~Locked
         \/ slot[t][n] = "starting"
  PROVE  IInv'
<1>1. /\ hid[t][n] # NoId /\ slot[t][n] \in {"pending", "spawned", "starting"}
      /\ pc[t] = "body" => n \notin Uses[t]
  BY StartableHasId
<1>2. /\ \A u \in Tests, m \in Names :
            slot'[u][m] = IF u = t /\ m = n THEN "error" ELSE slot[u][m]
      /\ \A m \in Names :
            /\ status'[m] = IF m = n THEN "Failed" ELSE status[m]
            /\ cid'[m] = IF m = n THEN hid[t][n] ELSE cid[m]
      /\ UNCHANGED <<counter, claims>>
  BY DEF RecordFailure, SetSlot, TypeOK
<1>3. \A u \in Tests, m \in Names : Claimant(u, m)' <=> Claimant(u, m)
  BY DEF Claimant
<1>4. CounterExact'
  BY <1>2 DEF IInv, CounterExact
<1>5. ClaimsCounted'
  BY <1>2, <1>3, <1>1 DEF IInv, ClaimsCounted
<1>6. ClaimsAgree'
  BY <1>2, <1>3 DEF IInv, ClaimsAgree, Exists
<1>7. LiveEntry' /\ NoEntry'
  BY <1>2, <1>3 DEF IInv, LiveEntry, NoEntry, Exists
<1>8. LockHeld'
  <2>1. \A u \in Tests, m \in Names : slot'[u][m] # "starting"
    BY <1>2 DEF IInv, LockHeld, Locked
  <2>2. QED
    BY <2>1 DEF LockHeld
<1>9. RemovalSafe'
  BY <1>2, <1>3 DEF IInv, RemovalSafe
<1>10. SlotsHaveIds'
  BY <1>1, <1>2 DEF IInv, SlotsHaveIds
<1>11. QED
  BY <1>4, <1>5, <1>6, <1>7, <1>8, <1>9, <1>10 DEF IInv

\* A successful wait releases the lock and makes the entry Operational.
LEMMA WaitSucceedsInv ==
  ASSUME TypeOK, IInv, NEW t \in Tests, NEW n \in Names, WaitSucceeds(t, n)
  PROVE  IInv'
<1>1. /\ hid[t][n] # NoId /\ slot[t][n] = "starting"
      /\ pc[t] = "body" => n \notin Uses[t]
  BY StartableHasId DEF WaitSucceeds
<1>2. status[n] = "Pending" /\ daemon[n][cid[n]] = "running"
  BY <1>1 DEF IInv, LockHeld
<1>3. /\ \A u \in Tests, m \in Names :
            slot'[u][m] = IF u = t /\ m = n THEN "running" ELSE slot[u][m]
      /\ \A m \in Names : status'[m] = IF m = n THEN "Operational" ELSE status[m]
      /\ UNCHANGED <<cid, counter, claims, pc, hid, removing, daemon>>
  BY DEF WaitSucceeds, SetSlot, TypeOK, docker
<1>4. \A u \in Tests, m \in Names : Claimant(u, m)' <=> Claimant(u, m)
  BY <1>3 DEF Claimant
<1>5. CounterExact'
  BY <1>2, <1>3 DEF IInv, CounterExact
<1>6. ClaimsCounted'
  BY <1>3, <1>4 DEF IInv, ClaimsCounted
<1>7. ClaimsAgree'
  BY <1>2, <1>3, <1>4 DEF IInv, ClaimsAgree, LiveEntry, Exists
<1>8. LiveEntry' /\ NoEntry'
  BY <1>2, <1>3, <1>4 DEF IInv, LiveEntry, NoEntry, Exists
<1>9. LockHeld'
  <2>1. \A u \in Tests, m \in Names : slot'[u][m] # "starting"
    BY <1>1, <1>3 DEF IInv, LockHeld
  <2>2. QED
    BY <2>1 DEF LockHeld
<1>10. RemovalSafe'
  BY <1>2, <1>3, <1>4 DEF IInv, RemovalSafe
<1>11. SlotsHaveIds'
  BY <1>1, <1>3 DEF IInv, SlotsHaveIds
<1>12. QED
  BY <1>5, <1>6, <1>7, <1>8, <1>9, <1>10, <1>11 DEF IInv

\* A panicking wait releases the lock, and may end the test without cleanup.
LEMMA WaitPanicsInv ==
  ASSUME TypeOK, IInv, NEW t \in Tests, NEW n \in Names, WaitPanics(t, n)
  PROVE  IInv'
<1>1. /\ hid[t][n] # NoId /\ slot[t][n] = "starting"
      /\ pc[t] = "body" => n \notin Uses[t]
  BY StartableHasId DEF WaitPanics
<1>2. /\ \A u \in Tests, m \in Names :
            slot'[u][m] = IF u = t /\ m = n THEN "error" ELSE slot[u][m]
      /\ \A u \in Tests :
            \/ pc'[u] = pc[u]
            \/ pc[u] = "orbit" /\ pc'[u] = "panicked"
      /\ UNCHANGED <<registry, hid, removing, daemon>>
  BY DEF WaitPanics, SetSlot, TypeOK, docker
<1>3. \A u \in Tests, m \in Names : Claimant(u, m)' <=> Claimant(u, m)
  BY <1>2 DEF Claimant, ClaimPhases
<1>4. CounterExact'
  BY <1>2 DEF IInv, CounterExact, registry
<1>5. ClaimsCounted'
  BY <1>2, <1>3 DEF IInv, ClaimsCounted, registry
<1>6. ClaimsAgree'
  BY <1>2, <1>3 DEF IInv, ClaimsAgree, Exists
<1>7. LiveEntry' /\ NoEntry'
  BY <1>2, <1>3 DEF IInv, LiveEntry, NoEntry, Exists, registry
<1>8. LockHeld'
  BY <1>2 DEF IInv, LockHeld, registry
<1>9. RemovalSafe'
  BY <1>2, <1>3 DEF IInv, RemovalSafe, registry
<1>10. SlotsHaveIds'
  BY <1>1, <1>2 DEF IInv, SlotsHaveIds
<1>11. QED
  BY <1>4, <1>5, <1>6, <1>7, <1>8, <1>9, <1>10 DEF IInv

\* start preserves the invariant.
LEMMA StartInv ==
  ASSUME TypeOK, IInv, NEW t \in Tests, NEW n \in Names, Start(t, n)
  PROVE  IInv'
<1>1. CASE StartBegins(t, n)
  BY <1>1, StartBeginsInv
<1>2. CASE StartRefused(t, n)
  BY <1>2, StartFailureInv DEF StartRefused, docker
<1>3. CASE StartDecided(t, n)
  <2>1. slot[t][n] \in {"pending", "spawned"}
    BY <1>3 DEF StartDecided, Startable
  <2>2. UNCHANGED <<registry, pc, hid, removing, daemon>>
    BY <1>3 DEF StartDecided, docker
  <2>3. CASE status[n] = "Operational"
    BY <1>3, <2>1, <2>2, <2>3, SlotStep DEF StartDecided
  <2>4. CASE status[n] # "Operational"
    BY <1>3, <2>1, <2>2, <2>4, SlotStep DEF StartDecided
  <2>5. QED
    BY <2>3, <2>4
<1>4. CASE WaitSucceeds(t, n)
  BY <1>4, WaitSucceedsInv
<1>5. CASE WaitFails(t, n)
  <2>1. status[n] = "Pending"
    BY <1>5 DEF WaitFails, IInv, LockHeld
  <2>2. QED
    BY <1>5, <2>1, StartFailureInv DEF WaitFails, docker
<1>6. CASE WaitPanics(t, n)
  BY <1>6, WaitPanicsInv
<1>7. CASE DropTask(t, n)
  <2>1. slot[t][n] \in {"spawned", "starting"} /\ SetSlot(t, n, "dropped")
    BY <1>7 DEF DropTask
  <2>2. UNCHANGED <<registry, pc, hid, removing, daemon>>
    BY <1>7 DEF DropTask, docker
  <2>3. QED
    BY <2>1, <2>2, SlotStep
<1>8. QED
  BY <1>1, <1>2, <1>3, <1>4, <1>5, <1>6, <1>7 DEF Start

\* The heart of the argument.  A test only discounts itself from a name it is a
\* claimant of, so the count reaches zero exactly when it was the last one.
LEMMA DecrementInv ==
  ASSUME OverflowChecks, TypeOK, IInv, NEW t \in Tests, Decrement(t)
  PROVE  IInv'
<1>1. /\ pc[t] = "decrement"
      /\ \A u \in Tests : pc'[u] = IF u = t THEN "remove" ELSE pc[u]
      /\ UNCHANGED <<slot, hid, daemon>>
  BY DEF Decrement, TypeOK, docker
<1>2. \A m \in Names :
        /\ counter'[m] = IF InCleanup(t, m) THEN Decremented(counter[m]) ELSE counter[m]
        /\ claims'[m] = IF InCleanup(t, m) THEN claims[m] \ {t} ELSE claims[m]
        /\ status'[m] = IF LastUser(t, m) THEN "Cleaned" ELSE status[m]
        /\ cid'[m] = IF LastUser(t, m) THEN NoId ELSE cid[m]
  BY DEF Decrement
<1>3. \A u \in Tests, m \in Names : Claimant(u, m)' <=> Claimant(u, m) /\ u # t
  BY <1>1 DEF Claimant, ClaimPhases
<1>4. \A m \in Names : InCleanup(t, m) =>
        /\ Claimant(t, m) /\ t \in claims[m]
        /\ hid[t][m] = cid[m] /\ cid[m] # NoId
  BY <1>1 DEF InCleanup, Debris, Claimant, ClaimPhases, IInv, ClaimsCounted
<1>5. \A m \in Names : InCleanup(t, m) =>
        /\ counter'[m] = Cardinality(claims'[m])
        /\ LastUser(t, m) <=> claims'[m] = {}
  <2> SUFFICES ASSUME NEW m \in Names, InCleanup(t, m)
               PROVE  /\ counter'[m] = Cardinality(claims'[m])
                      /\ LastUser(t, m) <=> claims'[m] = {}
    OBVIOUS
  <2>1. /\ counter[m] = Cardinality(claims[m]) /\ claims[m] \in SUBSET Tests
        /\ claims[m] \ {t} \in SUBSET Tests /\ t \in claims[m]
    BY <1>4 DEF IInv, CounterExact, TypeOK
  <2>2. /\ Cardinality(claims[m]) \in Nat
        /\ Cardinality(claims[m]) = 0 <=> claims[m] = {}
        /\ Cardinality(claims[m] \ {t}) = Cardinality(claims[m]) - 1
        /\ Cardinality(claims[m] \ {t}) = 0 <=> claims[m] \ {t} = {}
    BY <2>1, Counting
  <2>3. counter[m] # 0
    BY <2>1, <2>2
  <2>4. Decremented(counter[m]) = Cardinality(claims[m] \ {t})
    BY <2>1, <2>2, <2>3 DEF Decremented
  <2>5. QED
    BY <1>2, <2>2, <2>4 DEF LastUser
<1>6. CounterExact'
  <2> SUFFICES ASSUME NEW m \in Names
               PROVE  /\ counter'[m] = Cardinality(claims'[m])
                      /\ (claims'[m] = {}) <=> (status'[m] \in {"Absent", "Cleaned"})
    BY DEF CounterExact
  <2>1. CASE InCleanup(t, m)
    BY <1>2, <1>4, <1>5, <2>1 DEF IInv, CounterExact
  <2>2. CASE ~InCleanup(t, m)
    BY <1>2, <2>2 DEF IInv, CounterExact, LastUser
  <2>3. QED
    BY <2>1, <2>2
<1>7. ClaimsCounted'
  BY <1>1, <1>2, <1>3 DEF IInv, ClaimsCounted
<1>8. ClaimsAgree'
  BY <1>1, <1>3 DEF IInv, ClaimsAgree, Exists
<1>9. LiveEntry' /\ NoEntry'
  <2>1. LiveEntry'
    <3> SUFFICES ASSUME NEW m \in Names, status'[m] \in {"Pending", "Operational"}
                 PROVE  /\ cid'[m] # NoId /\ Exists(m, cid[m])'
                        /\ status'[m] = "Operational" => daemon'[m][cid'[m]] = "running"
                        /\ \A u \in Tests : Claimant(u, m)' => hid'[u][m] = cid'[m]
      BY DEF LiveEntry
    <3>1. status'[m] = status[m] /\ cid'[m] = cid[m] /\ hid' = hid /\ daemon' = daemon
      BY <1>1, <1>2
    <3>2. QED
      BY <1>3, <3>1 DEF IInv, LiveEntry, Exists
  <2>2. NoEntry'
    BY <1>1, <1>2, <1>3 DEF IInv, NoEntry, Exists
  <2>3. QED
    BY <2>1, <2>2
<1>10. LockHeld'
  BY <1>1 DEF Decrement, Locked, LockHeld
<1>11. RemovalSafe'
  <2> SUFFICES ASSUME NEW r \in Tests, NEW m \in Names, NEW c \in Tests,
                      <<m, c>> \in removing'[r]
               PROVE  /\ daemon'[m][c] # "absent"
                      /\ \A u \in Tests : Claimant(u, m)' => hid'[u][m] # c
                      /\ status'[m] \in {"Pending", "Operational"} => cid'[m] # c
    BY DEF RemovalSafe
  <2>1. CASE r = t
    <3>1. LastUser(t, m) /\ c = cid[m]
      BY <2>1 DEF Decrement, TypeOK
    <3>2. Claimant(t, m) /\ c = hid[t][m] /\ claims'[m] = {}
      BY <3>1, <1>4, <1>5 DEF LastUser
    <3>3. \A u \in Tests : ~Claimant(u, m)'
      BY <1>7, <3>2 DEF ClaimsCounted
    <3>4. daemon[m][c] # "absent"
      BY <3>2 DEF IInv, ClaimsAgree, Exists
    <3>5. QED
      BY <1>1, <1>2, <3>1, <3>3, <3>4
  <2>2. CASE r # t
    <3>1. <<m, c>> \in removing[r]
      BY <2>2 DEF Decrement, TypeOK
    <3>2. /\ daemon[m][c] # "absent"
          /\ \A u \in Tests : Claimant(u, m) => hid[u][m] # c
          /\ status[m] \in {"Pending", "Operational"} => cid[m] # c
      BY <3>1 DEF IInv, RemovalSafe
    <3>3. \A u \in Tests : Claimant(u, m)' => hid'[u][m] # c
      BY <1>1, <1>3, <3>2
    <3>4. status'[m] \in {"Pending", "Operational"} => cid'[m] # c
      BY <1>2, <3>2
    <3>5. QED
      BY <1>1, <3>2, <3>3, <3>4
  <2>3. QED
    BY <2>1, <2>2
<1>12. SlotsHaveIds'
  BY <1>1 DEF IInv, SlotsHaveIds
<1>13. QED
  BY <1>6, <1>7, <1>8, <1>9, <1>10, <1>11, <1>12 DEF IInv

\* The removal that runs without the lock hits a container nobody claims.
LEMMA RemoveInv ==
  ASSUME TypeOK, IInv, NEW t \in Tests, NEW n \in Names, NEW c \in Tests,
         Remove(t, n, c)
  PROVE  IInv'
<1>1. /\ \A m \in Names, d \in Tests :
            \/ daemon'[m][d] = daemon[m][d]
            \/ m = n /\ d = c /\ daemon'[m][d] = "removed"
      /\ \A r \in Tests : removing'[r] \subseteq removing[r]
      /\ UNCHANGED <<registry, pc, slot, hid>>
  BY DEF Remove, TypeOK
<1>2. /\ daemon[n][c] # "absent"
      /\ \A u \in Tests : Claimant(u, n) => hid[u][n] # c
      /\ status[n] \in {"Pending", "Operational"} => cid[n] # c
  BY DEF IInv, RemovalSafe, Remove
<1>3. \A u \in Tests, m \in Names : Claimant(u, m)' <=> Claimant(u, m)
  BY <1>1 DEF Claimant
<1>4. CounterExact'
  BY <1>1 DEF IInv, CounterExact, registry
<1>5. ClaimsCounted'
  BY <1>1, <1>3 DEF IInv, ClaimsCounted, registry
<1>6. ClaimsAgree'
  <2> SUFFICES ASSUME NEW m \in Names, NEW u \in Tests, Claimant(u, m)
               PROVE  /\ Exists(m, hid[u][m])'
                      /\ slot'[u][m] = "running" => daemon'[m][hid'[u][m]] = "running"
                      /\ \A v \in Tests : Claimant(v, m) => hid'[v][m] = hid'[u][m]
    BY <1>3 DEF ClaimsAgree
  <2>1. hid[u][m] \in Tests /\ (m # n \/ hid[u][m] # c)
    BY <1>2 DEF Claimant, TypeOK, IdOrNone
  <2>2. QED
    BY <1>1, <2>1 DEF IInv, ClaimsAgree, Exists
<1>7. LiveEntry' /\ NoEntry'
  <2>1. \A m \in Names : status[m] \in {"Pending", "Operational"} =>
          cid[m] \in Tests /\ daemon'[m][cid[m]] = daemon[m][cid[m]]
    BY <1>1, <1>2 DEF IInv, LiveEntry, TypeOK, IdOrNone
  <2>2. QED
    BY <1>1, <1>3, <2>1 DEF IInv, LiveEntry, NoEntry, Exists, registry
<1>8. LockHeld'
  <2>1. \A m \in Names : status[m] = "Pending" => daemon'[m][cid[m]] = daemon[m][cid[m]]
    BY <1>1, <1>2 DEF IInv, LiveEntry, TypeOK, IdOrNone
  <2>2. QED
    BY <1>1, <2>1 DEF IInv, LockHeld, registry
<1>9. RemovalSafe'
  BY <1>1, <1>3 DEF IInv, RemovalSafe, registry
<1>10. SlotsHaveIds'
  BY <1>1, <1>2 DEF IInv, SlotsHaveIds
<1>11. QED
  BY <1>4, <1>5, <1>6, <1>7, <1>8, <1>9, <1>10 DEF IInv

\* Every step preserves the invariant.
LEMMA InvInductive ==
  ASSUME OverflowChecks
  PROVE  TypeOK /\ IInv /\ [Next]_vars => IInv'
<1> SUFFICES ASSUME TypeOK, IInv, [Next]_vars PROVE IInv'
  OBVIOUS
<1>1. ASSUME NEW t \in Tests, TestStep(t) PROVE IInv'
  <2>1. CASE \E n \in Names : Create(t, n)
    BY <2>1, CreateInv
  <2>2. CASE Ignited(t)
    BY <2>2, IgnitedInv
  <2>3. CASE IgniteFails(t)
    BY <2>3, PhaseStep DEF IgniteFails, docker, Phases, ClaimPhases
  <2>4. CASE \E n \in Names : Start(t, n)
    BY <2>4, StartInv
  <2>5. CASE Orbited(t)
    BY <2>5, PhaseStep DEF Orbited, docker, Phases, ClaimPhases
  <2>6. CASE OrbitFails(t)
    BY <2>6, PhaseStep DEF OrbitFails, docker, Phases, ClaimPhases
  <2>7. CASE BodyEnds(t)
    BY <2>7, PhaseStep DEF BodyEnds, docker, Phases, ClaimPhases
  <2>8. CASE Disconnect(t)
    BY <2>8, PhaseStep DEF Disconnect, Phases, ClaimPhases
  <2>9. CASE Decrement(t)
    BY <2>9, DecrementInv
  <2>10. CASE \E n \in Names, c \in Tests : Remove(t, n, c)
    BY <2>10, RemoveInv
  <2>11. CASE TeardownNetwork(t)
    BY <2>11, PhaseStep DEF TeardownNetwork, Phases, ClaimPhases
  <2>12. QED
    BY <1>1, <2>1, <2>2, <2>3, <2>4, <2>5, <2>6, <2>7, <2>8, <2>9, <2>10, <2>11
    DEF TestStep
<1>2. CASE UNCHANGED vars
  BY <1>2 DEF vars, registry, docker, IInv, CounterExact, ClaimsCounted, ClaimsAgree,
     LiveEntry, NoEntry, LockHeld, RemovalSafe, SlotsHaveIds, Claimant, Exists
<1>3. QED
  BY <1>1, <1>2 DEF Next, Exit

\* The inductive invariant holds on every behaviour of a build with overflow
\* checks.
THEOREM InvCorrect == OverflowChecks => (Spec => []IInv)
<1> SUFFICES ASSUME OverflowChecks PROVE Spec => []IInv
  OBVIOUS
<1>1. QED
  BY InitInv, InvInductive, TypeCorrect, PTL DEF Spec

\* No interleaving of creates, starts, failures and cleanups of any number of
\* tests takes a container away from a test that is still in its body.
THEOREM BodyContainerAliveCorrect == OverflowChecks => (Spec => []BodyContainerAlive)
<1> SUFFICES ASSUME OverflowChecks PROVE Spec => []BodyContainerAlive
  OBVIOUS
<1>1. TypeOK /\ IInv => BodyContainerAlive
  BY UsesAssumption
  DEF BodyContainerAlive, IInv, SlotsHaveIds, ClaimsAgree, Claimant, ClaimPhases
<1>2. QED
  BY <1>1, InvCorrect, TypeCorrect, PTL

\* Two bodies that use the same static name use the same container.
THEOREM BodiesShareContainerCorrect == OverflowChecks => (Spec => []BodiesShareContainer)
<1> SUFFICES ASSUME OverflowChecks PROVE Spec => []BodiesShareContainer
  OBVIOUS
<1>1. TypeOK /\ IInv => BodiesShareContainer
  BY UsesAssumption
  DEF BodiesShareContainer, IInv, SlotsHaveIds, ClaimsAgree, Claimant, ClaimPhases
<1>2. QED
  BY <1>1, InvCorrect, TypeCorrect, PTL

\* completion_counter counts the tests that have not cleaned up yet, and is
\* zero only where there is no entry to decrement.
THEOREM CounterExactCorrect == Spec => []CounterExact
<1>1. CASE OverflowChecks
  <2>1. IInv => CounterExact
    BY DEF IInv
  <2>2. QED
    BY <1>1, <2>1, InvCorrect, PTL
<1>2. CASE ~OverflowChecks
  <2>1. CounterExact
    BY <1>2 DEF CounterExact
  <2>2. QED
    BY <2>1, PTL
<1>3. QED
  BY <1>1, <1>2

-----------------------------------------------------------------------------
\* The containers of the daemon.

\* What a step does to the daemon: it creates a container under a free name,
\* starts the one of a Pending entry, removes one that nobody claims, or
\* nothing.
DaemonCreates(n, t) ==
    /\ ~NameTaken(n) /\ daemon[n][t] = "absent"
    /\ daemon' = [daemon EXCEPT ![n][t] = "created"]
DaemonStarts(n, c) ==
    /\ Exists(n, c)
    /\ daemon' = [daemon EXCEPT ![n][c] = "running"]
DaemonRemoves(n, c) ==
    /\ \A u \in Tests : Claimant(u, n) => hid[u][n] # c
    /\ daemon' = [daemon EXCEPT ![n][c] = "removed"]

\* No other step touches the daemon's containers.
LEMMA DaemonStep ==
  ASSUME TypeOK, IInv, [Next]_vars
  PROVE  \/ daemon' = daemon
         \/ \E n \in Names, c \in Tests :
               DaemonCreates(n, c) \/ DaemonStarts(n, c) \/ DaemonRemoves(n, c)
<1>1. ASSUME NEW t \in Tests, NEW n \in Names, Create(t, n)
      PROVE  daemon' = daemon \/ DaemonCreates(n, t)
  <2>1. CASE CreateFresh(t, n)
    BY <1>1, <2>1 DEF CreateFresh, DaemonCreates, Create, IInv, SlotsHaveIds
  <2>2. CASE ~CreateFresh(t, n)
    BY <1>1, <2>2 DEF Create, CreateRefused, JoinLive, JoinUnconnected, JoinFailed, docker
  <2>3. QED
    BY <2>1, <2>2
<1>2. ASSUME NEW t \in Tests, NEW n \in Names, Start(t, n)
      PROVE  daemon' = daemon \/ \E c \in Tests : DaemonStarts(n, c)
  <2>1. CASE StartBegins(t, n)
    <3>1. cid[n] \in Tests /\ Exists(n, cid[n])
      BY <2>1 DEF StartBegins, IInv, LiveEntry, TypeOK, IdOrNone
    <3>2. DaemonStarts(n, cid[n])
      BY <2>1, <3>1 DEF StartBegins, DaemonStarts
    <3>3. QED
      BY <3>1, <3>2
  <2>2. CASE ~StartBegins(t, n)
    BY <1>2, <2>2
    DEF Start, StartRefused, StartDecided, WaitSucceeds, WaitFails, WaitPanics, DropTask, docker
  <2>3. QED
    BY <2>1, <2>2
<1>3. ASSUME NEW t \in Tests, NEW n \in Names, NEW c \in Tests, Remove(t, n, c)
      PROVE  daemon' = daemon \/ DaemonRemoves(n, c)
  BY <1>3 DEF Remove, DaemonRemoves, IInv, RemovalSafe
<1>4. ASSUME NEW t \in Tests,
             \/ Ignited(t) \/ IgniteFails(t) \/ Orbited(t) \/ OrbitFails(t) \/ BodyEnds(t)
             \/ Disconnect(t) \/ Decrement(t) \/ TeardownNetwork(t)
      PROVE  daemon' = daemon
  BY <1>4 DEF Ignited, IgniteFails, Orbited, OrbitFails, BodyEnds, Disconnect, Decrement,
              TeardownNetwork, docker
<1>5. CASE UNCHANGED vars
  BY <1>5 DEF vars, docker
<1>6. QED
  BY <1>1, <1>2, <1>3, <1>4, <1>5 DEF Next, TestStep, Exit

\* A name has one container from the start, and every step keeps it so.
LEMMA OnePerNameInductive ==
  ASSUME TypeOK, IInv, OnePerName, [Next]_vars
  PROVE  OnePerName'
<1>1. ASSUME NEW n \in Names, NEW c \in Tests, DaemonCreates(n, c) PROVE OnePerName'
  BY <1>1 DEF DaemonCreates, NameTaken, OnePerName, Exists, TypeOK
<1>2. ASSUME NEW n \in Names, NEW c \in Tests, DaemonStarts(n, c) \/ DaemonRemoves(n, c)
      PROVE  OnePerName'
  <2>1. \A m \in Names, d \in Tests : Exists(m, d)' => Exists(m, d)
    <3>1. \A m \in Names, d \in Tests : daemon'[m][d] = daemon[m][d] \/ (m = n /\ d = c)
      BY <1>2 DEF DaemonStarts, DaemonRemoves, TypeOK
    <3>2. Exists(n, c) \/ daemon'[n][c] = "removed"
      BY <1>2 DEF DaemonStarts, DaemonRemoves, TypeOK
    <3>3. QED
      BY <3>1, <3>2 DEF Exists
  <2>2. QED
    BY <2>1 DEF OnePerName
<1>3. CASE daemon' = daemon
  BY <1>3 DEF OnePerName, Exists
<1>4. QED
  BY <1>1, <1>2, <1>3, DaemonStep

\* On every behaviour a name stands for one container at a time.
THEOREM OnePerNameCorrect == OverflowChecks => (Spec => []OnePerName)
<1> SUFFICES ASSUME OverflowChecks PROVE Spec => []OnePerName
  OBVIOUS
<1>1. Init => OnePerName
  BY DEF Init, OnePerName, Exists
<1>2. TypeOK /\ IInv /\ OnePerName /\ [Next]_vars => OnePerName'
  BY OnePerNameInductive
<1>3. QED
  BY <1>1, <1>2, InvCorrect, TypeCorrect, PTL DEF Spec

=============================================================================
