------------------------ MODULE InternalCleanupProofs ------------------------
(***************************************************************************)
(* More about the registry of internal static containers: what may outlive *)
(* the tests, that a container is started once, and what becomes of the    *)
(* isolated networks.                                                      *)
(***************************************************************************)
EXTENDS InternalContainersProofs

\* What a start does to the registry: it stores a failure under the caller's
\* id, makes a Pending entry Operational, or nothing.
LEMMA StartEffect ==
  ASSUME TypeOK, IInv, NEW t \in Tests, NEW n \in Names, Start(t, n)
  PROVE  /\ UNCHANGED <<counter, claims, hid, removing, attached, deleted>>
         /\ \/ UNCHANGED <<status, cid>>
            \/ /\ status[n] = "Pending" /\ hid[t][n] # NoId
               /\ status' = [status EXCEPT ![n] = "Failed"]
               /\ cid' = [cid EXCEPT ![n] = hid[t][n]]
            \/ /\ status[n] = "Pending" /\ cid' = cid
               /\ status' = [status EXCEPT ![n] = "Operational"]
         /\ pc' = pc \/ (pc[t] = "orbit" /\ pc' = [pc EXCEPT ![t] = "panicked"])
<1>1. CASE StartBegins(t, n) \/ StartDecided(t, n) \/ WaitPanics(t, n) \/ DropTask(t, n)
  BY <1>1 DEF StartBegins, StartDecided, WaitPanics, DropTask, registry, docker
<1>2. CASE StartRefused(t, n) \/ WaitFails(t, n)
  <2>1. slot[t][n] \notin {"idle", "failed"} /\ status[n] = "Pending"
    BY <1>2 DEF StartRefused, WaitFails, Startable, IInv, LockHeld
  <2>2. hid[t][n] # NoId
    BY <2>1 DEF IInv, SlotsHaveIds
  <2>3. QED
    BY <1>2, <2>1, <2>2 DEF StartRefused, WaitFails, RecordFailure, docker
<1>3. CASE WaitSucceeds(t, n)
  BY <1>3 DEF WaitSucceeds, docker, IInv, LockHeld
<1>4. QED
  BY <1>1, <1>2, <1>3 DEF Start

\* The steps of a test that leave the registry alone.
Moves(t) ==
    \/ Ignited(t) \/ IgniteFails(t) \/ Orbited(t) \/ OrbitFails(t) \/ BodyEnds(t)
    \/ Disconnect(t) \/ TeardownNetwork(t)

\* They move the test on along its phases.
LEMMA MoveEffect ==
  ASSUME NEW t \in Tests, Moves(t)
  PROVE  /\ UNCHANGED <<status, cid, counter, claims, hid, removing, daemon>>
         /\ \E p \in Phases :
               /\ pc' = [pc EXCEPT ![t] = p]
               /\ p # "remove" /\ pc[t] # "done"
               /\ p = "done" => pc[t] = "remove" /\ removing[t] = {}
               /\ pc[t] = "remove" => p = "done"
BY DEF Moves, Ignited, IgniteFails, Orbited, OrbitFails, BodyEnds, Disconnect, TeardownNetwork,
       registry, docker, Phases

-----------------------------------------------------------------------------
\* Nothing leaks.

\* Every step keeps the tests that stay counted after their cleanup apart from
\* the id of the entry.
LEMMA UncountedInductive ==
  ASSUME OverflowChecks, TypeOK, IInv, Uncounted, [Next]_vars
  PROVE  Uncounted'
<1>1. ASSUME NEW t \in Tests, NEW n \in Names, Create(t, n) PROVE Uncounted'
  <2>1. /\ pc[t] = "ignite"
        /\ pc' = pc \/ pc' = [pc EXCEPT ![t] = "panicked"]
        /\ \A u \in Tests, m \in Names : u = t \/ hid'[u][m] = hid[u][m]
        /\ \A m \in Names : \/ claims'[m] \subseteq {t}
                            \/ /\ claims'[m] \subseteq claims[m] \cup {t}
                               /\ status'[m] = status[m] /\ cid'[m] = cid[m]
    <3>1. CASE CreateRefused(t, n)
      BY <1>1, <3>1 DEF Create, CreateRefused, TypeOK
    <3>2. CASE CreateFresh(t, n)
      BY <1>1, <3>2 DEF Create, CreateFresh, TypeOK
    <3>3. CASE JoinLive(t, n)
      <4>1. /\ pc[t] = "ignite" /\ (pc' = pc \/ pc' = [pc EXCEPT ![t] = "panicked"])
            /\ UNCHANGED <<status, cid>>
            /\ hid' = hid \/ hid' = [hid EXCEPT ![t][n] = cid[n]]
            /\ claims' = claims \/ claims' = [claims EXCEPT ![n] = @ \cup {t}]
        BY <1>1, <3>3 DEF Create, JoinLive
      <4>2. \A m \in Names : claims'[m] = claims[m] \/ claims'[m] = claims[m] \cup {t}
        BY <4>1 DEF TypeOK
      <4>3. \A u \in Tests, m \in Names : u = t \/ hid'[u][m] = hid[u][m]
        BY <4>1 DEF TypeOK
      <4>4. QED
        BY <4>1, <4>2, <4>3
    <3>4. CASE JoinUnconnected(t, n)
      BY <1>1, <3>4 DEF Create, JoinUnconnected, registry
    <3>5. CASE JoinFailed(t, n)
      <4>1. /\ pc[t] = "ignite" /\ (pc' = pc \/ pc' = [pc EXCEPT ![t] = "panicked"])
            /\ UNCHANGED <<hid, status, cid>>
            /\ claims' = claims \/ claims' = [claims EXCEPT ![n] = @ \cup {t}]
        BY <1>1, <3>5 DEF Create, JoinFailed
      <4>2. \A m \in Names : claims'[m] = claims[m] \/ claims'[m] = claims[m] \cup {t}
        BY <4>1 DEF TypeOK
      <4>3. QED
        BY <4>1, <4>2
    <3>6. QED
      BY <1>1, <3>1, <3>2, <3>3, <3>4, <3>5 DEF Create
  <2>2. \A u \in Tests : pc'[u] \in {"remove", "done"} => u # t /\ pc[u] = pc'[u]
    BY <2>1 DEF TypeOK
  <2> SUFFICES ASSUME NEW u \in Tests, NEW m \in Names,
                      pc'[u] \in {"remove", "done"}, u \in claims'[m]
               PROVE  \/ hid'[u][m] = NoId
                      \/ status'[m] = "Failed" /\ hid'[u][m] # cid'[m]
    BY DEF Uncounted
  <2>3. /\ u # t /\ pc[u] \in {"remove", "done"} /\ hid'[u][m] = hid[u][m]
        /\ u \in claims[m] /\ status'[m] = status[m] /\ cid'[m] = cid[m]
    BY <2>1, <2>2
  <2>4. QED
    BY <2>3 DEF Uncounted
<1>2. ASSUME NEW t \in Tests, NEW n \in Names, Start(t, n) PROVE Uncounted'
  <2>1. \A u \in Tests : pc'[u] \in {"remove", "done"} => pc[u] = pc'[u]
    BY <1>2, StartEffect DEF TypeOK
  <2>2. claims' = claims /\ hid' = hid
    BY <1>2, StartEffect
  <2> SUFFICES ASSUME NEW u \in Tests, NEW m \in Names,
                      pc[u] \in {"remove", "done"}, u \in claims[m], hid[u][m] # NoId
               PROVE  status'[m] = "Failed" /\ hid[u][m] # cid'[m]
    BY <2>1, <2>2 DEF Uncounted
  <2>3. status[m] = "Failed" /\ hid[u][m] # cid[m]
    BY DEF Uncounted
  <2>4. status'[m] = status[m] /\ cid'[m] = cid[m]
    BY <1>2, <2>3, StartEffect DEF TypeOK
  <2>5. QED
    BY <2>3, <2>4
<1>3. ASSUME NEW t \in Tests, Moves(t) PROVE Uncounted'
  BY <1>3, MoveEffect DEF Uncounted, TypeOK
<1>4. ASSUME NEW t \in Tests, Decrement(t) PROVE Uncounted'
  <2>1. /\ pc[t] = "decrement" /\ hid' = hid
        /\ \A u \in Tests : pc'[u] = IF u = t THEN "remove" ELSE pc[u]
        /\ \A m \in Names :
              /\ claims'[m] = IF InCleanup(t, m) THEN claims[m] \ {t} ELSE claims[m]
              /\ status'[m] = IF LastUser(t, m) THEN "Cleaned" ELSE status[m]
              /\ cid'[m] = IF LastUser(t, m) THEN NoId ELSE cid[m]
    BY <1>4 DEF Decrement, TypeOK
  <2>2. IInv'
    BY InvInductive
  <2> SUFFICES ASSUME NEW u \in Tests, NEW m \in Names,
                      pc'[u] \in {"remove", "done"}, u \in claims'[m], hid[u][m] # NoId
               PROVE  status'[m] = "Failed" /\ hid[u][m] # cid'[m]
    BY <2>1 DEF Uncounted
  <2>3. ~LastUser(t, m)
    BY <2>1, <2>2 DEF IInv, CounterExact
  <2>4. CASE u = t
    <3>1. ~InCleanup(t, m) /\ t \in claims[m] /\ hid[t][m] # cid[m]
      BY <2>1, <2>4 DEF InCleanup, Debris
    <3>2. Claimant(t, m)
      BY <2>1, <2>4 DEF Claimant, ClaimPhases
    <3>3. status[m] \notin {"Absent", "Cleaned", "Pending", "Operational"}
      BY <3>1, <3>2 DEF IInv, CounterExact, LiveEntry
    <3>4. status[m] = "Failed"
      BY <3>3 DEF TypeOK, Statuses
    <3>5. status'[m] = status[m] /\ cid'[m] = cid[m]
      BY <2>1, <2>3
    <3>6. QED
      BY <2>4, <3>1, <3>4, <3>5
  <2>5. CASE u # t
    <3>1. /\ pc[u] \in {"remove", "done"} /\ u \in claims[m]
          /\ status'[m] = status[m] /\ cid'[m] = cid[m]
      BY <2>1, <2>3, <2>5
    <3>2. QED
      BY <3>1 DEF Uncounted
  <2>6. QED
    BY <2>4, <2>5
<1>5. ASSUME NEW t \in Tests, NEW n \in Names, NEW c \in Tests, Remove(t, n, c)
      PROVE  Uncounted'
  BY <1>5 DEF Remove, registry, Uncounted
<1>6. CASE UNCHANGED vars
  BY <1>6 DEF vars, registry, Uncounted
<1>7. QED
  BY <1>1, <1>2, <1>3, <1>4, <1>5, <1>6 DEF Next, TestStep, Exit, Moves

\* A daemon that removes what it is told to.
RemovalWorks == "remove" \notin Faults

\* A step that makes no container and takes no entry and no removal back.
LEMMA RemovalStays ==
  ASSUME RemovalPending,
         \A n \in Names, c \in Tests : Exists(n, c)' => Exists(n, c),
         \A n \in Names : cid'[n] = NoId => cid[n] = NoId,
         \A r \in Tests : pc[r] = "remove" /\ removing[r] # {} =>
                             pc'[r] = "remove" /\ removing'[r] = removing[r]
  PROVE  RemovalPending'
BY DEF RemovalPending

\* Every step leaves the containers that have no entry to somebody who is about
\* to remove them.
LEMMA RemovalPendingInductive ==
  ASSUME OverflowChecks, RemovalWorks, TypeOK, IInv, OnePerName, RemovalPending, [Next]_vars
  PROVE  RemovalPending'
<1>1. ASSUME NEW t \in Tests, NEW n \in Names, Create(t, n) PROVE RemovalPending'
  <2>1. /\ removing' = removing
        /\ pc[t] = "ignite" /\ (pc' = pc \/ pc' = [pc EXCEPT ![t] = "panicked"])
    BY <1>1 DEF Create, CreateRefused, CreateFresh, JoinLive, JoinUnconnected, JoinFailed
  <2>2. \A r \in Tests : pc[r] = "remove" => pc'[r] = "remove"
    BY <2>1 DEF TypeOK
  <2>3. CASE CreateFresh(t, n)
    <3>1. /\ ~NameTaken(n) /\ cid' = [cid EXCEPT ![n] = t]
          /\ daemon' = [daemon EXCEPT ![n][t] = "created"]
      BY <2>3 DEF CreateFresh
    <3>2. \A m \in Names, c \in Tests :
             Exists(m, c)' => (m = n /\ cid'[m] # NoId) \/ (Exists(m, c) /\ cid'[m] = cid[m])
      BY <3>1, TestsAssumption DEF Exists, TypeOK
    <3>3. QED
      BY <2>1, <2>2, <3>2 DEF RemovalPending
  <2>4. CASE ~CreateFresh(t, n)
    <3>1. daemon' = daemon
      BY <1>1, <2>4 DEF Create, CreateRefused, JoinLive, JoinUnconnected, JoinFailed, docker
    <3>2. \A m \in Names : cid'[m] = cid[m]
      BY <1>1, <2>4 DEF Create, CreateRefused, JoinLive, JoinUnconnected, JoinFailed, registry,
                        IInv, NoEntry, TypeOK
    <3>3. QED
      BY <2>1, <2>2, <3>1, <3>2, RemovalStays DEF Exists
  <2>5. QED
    BY <2>3, <2>4
<1>2. ASSUME NEW t \in Tests, NEW n \in Names, Start(t, n) PROVE RemovalPending'
  <2>1. \A m \in Names, c \in Tests : Exists(m, c)' => Exists(m, c)
    <3>1. CASE StartBegins(t, n)
      <4>1. Exists(n, cid[n]) /\ cid[n] \in Tests
        BY <3>1 DEF StartBegins, IInv, LiveEntry, TypeOK, IdOrNone
      <4>2. \A m \in Names, c \in Tests :
               daemon'[m][c] = daemon[m][c] \/ (m = n /\ c = cid[n])
        BY <3>1 DEF StartBegins, TypeOK
      <4>3. QED
        BY <4>1, <4>2 DEF Exists
    <3>2. CASE ~StartBegins(t, n)
      BY <1>2, <3>2 DEF Start, StartRefused, StartDecided, WaitSucceeds, WaitFails, WaitPanics,
                        DropTask, docker, Exists
    <3>3. QED
      BY <3>1, <3>2
  <2>2. \A m \in Names : cid'[m] = NoId => cid[m] = NoId
    BY <1>2, StartEffect DEF TypeOK
  <2>3. \A r \in Tests : pc[r] = "remove" => pc'[r] = "remove" /\ removing'[r] = removing[r]
    BY <1>2, StartEffect DEF TypeOK
  <2>4. QED
    BY <2>1, <2>2, <2>3, RemovalStays
<1>3. ASSUME NEW t \in Tests, Moves(t) PROVE RemovalPending'
  <2>1. \A r \in Tests : pc[r] = "remove" /\ removing[r] # {} =>
                            pc'[r] = "remove" /\ removing'[r] = removing[r]
    BY <1>3, MoveEffect DEF TypeOK
  <2>2. UNCHANGED <<cid, daemon>>
    BY <1>3, MoveEffect
  <2>3. QED
    BY <2>1, <2>2, RemovalStays DEF Exists
<1>4. ASSUME NEW t \in Tests, Decrement(t) PROVE RemovalPending'
  <2>1. /\ pc[t] = "decrement" /\ UNCHANGED <<daemon, hid>>
        /\ \A u \in Tests : pc'[u] = IF u = t THEN "remove" ELSE pc[u]
        /\ \A m \in Names : cid'[m] = IF LastUser(t, m) THEN NoId ELSE cid[m]
        /\ \A u \in Tests : u # t => removing'[u] = removing[u]
        /\ \A m \in Names, c \in Tests :
              LastUser(t, m) /\ c = cid[m] => <<m, c>> \in removing'[t]
    BY <1>4 DEF Decrement, TypeOK, docker
  <2> SUFFICES ASSUME NEW n \in Names, NEW c \in Tests, Exists(n, c), cid'[n] = NoId
               PROVE  \E r \in Tests : pc'[r] = "remove" /\ <<n, c>> \in removing'[r]
    BY <2>1 DEF RemovalPending, Exists
  <2>2. CASE LastUser(t, n)
    <3>1. Claimant(t, n) /\ hid[t][n] = cid[n] /\ hid[t][n] \in Tests
      BY <2>1, <2>2 DEF LastUser, InCleanup, Debris, Claimant, ClaimPhases, TypeOK, IdOrNone
    <3>2. c = cid[n]
      BY <3>1 DEF IInv, ClaimsAgree, OnePerName
    <3>3. QED
      BY <2>1, <2>2, <3>2
  <2>3. CASE ~LastUser(t, n)
    BY <2>1, <2>3 DEF RemovalPending
  <2>4. QED
    BY <2>2, <2>3
<1>5. ASSUME NEW t \in Tests, NEW n \in Names, NEW c \in Tests, Remove(t, n, c)
      PROVE  RemovalPending'
  <2>1. /\ UNCHANGED <<cid, pc>>
        /\ daemon' = [daemon EXCEPT ![n][c] = "removed"]
        /\ removing' = [removing EXCEPT ![t] = @ \ {<<n, c>>}]
    BY <1>5 DEF Remove, RemovalWorks, registry
  <2>2. \A m \in Names, d \in Tests : Exists(m, d)' => Exists(m, d) /\ <<m, d>> # <<n, c>>
    BY <2>1 DEF Exists, TypeOK
  <2>3. \A r \in Tests, m \in Names, d \in Tests :
          <<m, d>> \in removing[r] /\ <<m, d>> # <<n, c>> => <<m, d>> \in removing'[r]
    BY <2>1 DEF TypeOK
  <2>4. QED
    BY <2>1, <2>2, <2>3 DEF RemovalPending
<1>6. CASE UNCHANGED vars
  BY <1>6, RemovalStays DEF vars, registry, docker, Exists
<1>7. QED
  BY <1>1, <1>2, <1>3, <1>4, <1>5, <1>6 DEF Next, TestStep, Exit, Moves

\* If the daemon removes what it is told to, a container outlives the tests only
\* where a test was counted that could not discount itself.
THEOREM NothingLeakedCorrect == OverflowChecks /\ RemovalWorks => (Spec => []NothingLeaked)
<1> SUFFICES ASSUME OverflowChecks, RemovalWorks PROVE Spec => []NothingLeaked
  OBVIOUS
<1>1. Init => Uncounted /\ RemovalPending
  BY DEF Init, Uncounted, RemovalPending, Exists
<1>2. TypeOK /\ IInv /\ Uncounted /\ [Next]_vars => Uncounted'
  BY UncountedInductive
<1>3. TypeOK /\ IInv /\ OnePerName /\ RemovalPending /\ [Next]_vars => RemovalPending'
  BY RemovalPendingInductive
<1>4. TypeOK /\ IInv /\ Uncounted /\ RemovalPending => NothingLeaked
  <2> SUFFICES ASSUME TypeOK, IInv, Uncounted, RemovalPending, AllEnded,
                      NEW n \in Names, NameTaken(n)
               PROVE  \E t \in claims[n] : pc[t] = "panicked" \/ hid[t][n] # cid[n]
    BY DEF NothingLeaked
  <2>1. cid[n] # NoId
    BY DEF NameTaken, RemovalPending, AllEnded, Ended
  <2>2. PICK t \in claims[n] : TRUE
    BY <2>1 DEF IInv, NoEntry, CounterExact
  <2>3. t \in Tests /\ pc[t] \in {"done", "panicked"}
    BY DEF TypeOK, AllEnded, Ended
  <2>4. QED
    BY <2>1, <2>2, <2>3 DEF Uncounted
<1>5. QED
  BY <1>1, <1>2, <1>3, <1>4, InvCorrect, TypeCorrect, OnePerNameCorrect, PTL DEF Spec

-----------------------------------------------------------------------------
\* A container is started once.

\* No test has a StartPolicy::Strict container: no start is left behind by the
\* early return of orbiting.
NoStrictStarts == "strict" \notin Faults /\ \A t \in Tests : Strict[t] = <<>>

\* What a create does to the tests: the caller's composition gets its
\* container or its error, nobody else notices.
LEMMA CreateEffect ==
  ASSUME TypeOK, NEW t \in Tests, NEW n \in Names, Create(t, n)
  PROVE  /\ pc[t] = "ignite" /\ n \in Uses[t] /\ slot[t][n] = "idle" /\ ~Locked
         /\ UNCHANGED <<removing, deleted>>
         /\ pc' = pc \/ pc' = [pc EXCEPT ![t] = "panicked"]
         /\ \A u \in Tests, m \in Names :
               \/ slot'[u][m] = slot[u][m]
               \/ u = t /\ m = n /\ slot'[u][m] \in {"pending", "failed"}
         /\ \A u \in Tests, m \in Names :
               \/ hid'[u][m] = hid[u][m]
               \/ u = t /\ m = n /\ slot'[u][m] = "pending" /\ hid'[u][m] = cid'[m]
<1>1. /\ pc[t] = "ignite" /\ n \in Uses[t] /\ slot[t][n] = "idle" /\ ~Locked
      /\ UNCHANGED <<removing, deleted>>
      /\ pc' = pc \/ pc' = [pc EXCEPT ![t] = "panicked"]
      /\ \/ UNCHANGED <<slot, hid>>
         \/ SetSlot(t, n, "failed") /\ hid' = hid
         \/ /\ SetSlot(t, n, "pending") /\ hid' = [hid EXCEPT ![t][n] = cid'[n]]
  BY DEF Create, CreateRefused, CreateFresh, JoinLive, JoinUnconnected, JoinFailed, TypeOK,
         registry, docker
<1>2. CASE UNCHANGED <<slot, hid>>
  BY <1>1, <1>2
<1>3. CASE SetSlot(t, n, "failed") /\ hid' = hid
  BY <1>1, <1>3 DEF SetSlot, TypeOK
<1>4. CASE SetSlot(t, n, "pending") /\ hid' = [hid EXCEPT ![t][n] = cid'[n]]
  <2>1. \A u \in Tests, m \in Names :
           slot'[u][m] = IF u = t /\ m = n THEN "pending" ELSE slot[u][m]
    BY <1>4 DEF SetSlot, TypeOK
  <2>2. \A u \in Tests, m \in Names :
           hid'[u][m] = IF u = t /\ m = n THEN cid'[n] ELSE hid[u][m]
    BY <1>4 DEF TypeOK
  <2>3. QED
    BY <1>1, <2>1, <2>2
<1>5. QED
  BY <1>1, <1>2, <1>3, <1>4

\* What a start does to the tests: it moves one composition on, one whose task
\* is under way or whose strict turn it is.
LEMMA StartSlots ==
  ASSUME TypeOK, NEW t \in Tests, NEW n \in Names, Start(t, n)
  PROVE  /\ \A u \in Tests, m \in Names : slot'[u][m] = slot[u][m] \/ (u = t /\ m = n)
         /\ slot'[t][n] \in {"starting", "running", "error", "dropped"}
         /\ slot[t][n] \in {"spawned", "starting"} \/ (slot[t][n] = "pending" /\ IsStrict(t, n))
         /\ slot'[t][n] = "starting" => StartBegins(t, n)
         /\ slot'[t][n] = "dropped" => Ended(t)
         /\ slot'[t][n] = "running" => status'[n] = "Operational"
<1>1. PICK s \in {"starting", "running", "error", "dropped"} :
         /\ SetSlot(t, n, s)
         /\ s = "starting" => StartBegins(t, n)
         /\ s = "dropped" => Ended(t)
         /\ s = "running" => status'[n] = "Operational"
  BY DEF Start, StartBegins, StartRefused, StartDecided, WaitSucceeds, WaitFails, WaitPanics,
         DropTask, Ended, TypeOK, registry
<1>2. slot[t][n] \in {"spawned", "starting"} \/ (slot[t][n] = "pending" /\ IsStrict(t, n))
  BY DEF Start, StartBegins, StartRefused, StartDecided, WaitSucceeds, WaitFails, WaitPanics,
         DropTask, Startable, IsStrict
<1>3. \A u \in Tests, m \in Names : slot'[u][m] = IF u = t /\ m = n THEN s ELSE slot[u][m]
  BY <1>1 DEF SetSlot, TypeOK
<1>4. QED
  BY <1>1, <1>2, <1>3

\* What the other steps do to them: ignite spawns the starts.
LEMMA OtherSlots ==
  ASSUME TypeOK, NEW t \in Tests,
         Moves(t) \/ Decrement(t) \/ \E n \in Names, c \in Tests : Remove(t, n, c)
  PROVE  \/ slot' = slot
         \/ /\ pc[t] = "ignite" /\ pc' = [pc EXCEPT ![t] = "orbit"]
            /\ \A n \in Uses[t] : slot[t][n] = "pending"
            /\ \A u \in Tests, m \in Names :
                  slot'[u][m] = IF u = t /\ m \in Relaxed(t) THEN "spawned" ELSE slot[u][m]
<1>1. CASE Ignited(t)
  BY <1>1 DEF Ignited, TypeOK
<1>2. CASE ~Ignited(t)
  BY <1>2 DEF Moves, IgniteFails, Orbited, OrbitFails, BodyEnds, Disconnect, TeardownNetwork,
              Decrement, Remove
<1>3. QED
  BY <1>1, <1>2

\* Without strict starts every task is joined in the phase that spawned it.
LEMMA JoinedStartsInductive ==
  ASSUME NoStrictStarts, TypeOK, JoinedStarts, [Next]_vars
  PROVE  JoinedStarts'
<1>0. \A t \in Tests, n \in Names : ~IsStrict(t, n)
  BY DEF NoStrictStarts, IsStrict
<1>1. ASSUME NEW t \in Tests, NEW n \in Names, Create(t, n) PROVE JoinedStarts'
  <2>1. \A u \in Tests : pc'[u] = pc[u] \/ (u = t /\ pc[u] = "ignite")
    <3>1. pc[t] = "ignite" /\ (pc' = pc \/ pc' = [pc EXCEPT ![t] = "panicked"])
      BY <1>1, CreateEffect
    <3>2. QED
      BY <3>1 DEF TypeOK
  <2>2. \A u \in Tests, m \in Names :
          slot'[u][m] \in {"spawned", "starting"} => slot[u][m] \in {"spawned", "starting"}
    BY <1>1, CreateEffect
  <2>3. QED
    BY <2>1, <2>2 DEF JoinedStarts
<1>2. ASSUME NEW t \in Tests, NEW n \in Names, Start(t, n) PROVE JoinedStarts'
  <2>1. pc' = pc
    BY <1>0, <1>2 DEF Start, StartBegins, StartRefused, StartDecided, WaitSucceeds, WaitFails,
                      WaitPanics, DropTask
  <2>2. \A u \in Tests, m \in Names :
          slot'[u][m] \in {"spawned", "starting"} => slot[u][m] \in {"spawned", "starting"}
    BY <1>0, <1>2, StartSlots
  <2>3. QED
    BY <2>1, <2>2 DEF JoinedStarts
<1>3. ASSUME NEW t \in Tests, Ignited(t) PROVE JoinedStarts'
  BY <1>3 DEF Ignited, JoinedStarts, Relaxed, TypeOK
<1>4. ASSUME NEW t \in Tests, Orbited(t) \/ OrbitFails(t) PROVE JoinedStarts'
  <2>1. /\ slot' = slot
        /\ \A n \in Uses[t] : slot[t][n] \in {"running", "error"}
        /\ \A u \in Tests : u # t => pc'[u] = pc[u]
    <3>1. slot' = slot /\ \A u \in Tests : u # t => pc'[u] = pc[u]
      BY <1>4 DEF Orbited, OrbitFails, TypeOK
    <3>2. \A n \in Uses[t] : ~IsStrict(t, n)
      BY <1>0, UsesAssumption
    <3>3. \A n \in Uses[t] : slot[t][n] \in {"running", "error"}
      BY <1>4, <3>2 DEF Orbited, OrbitFails, AllRunning, NoStrictStarts
    <3>4. QED
      BY <3>1, <3>3
  <2>2. QED
    BY <2>1 DEF JoinedStarts
<1>5. ASSUME NEW t \in Tests,
             IgniteFails(t) \/ BodyEnds(t) \/ Disconnect(t) \/ Decrement(t) \/ TeardownNetwork(t)
      PROVE  JoinedStarts'
  <2>1. slot' = slot /\ \A u \in Tests : pc[u] = "orbit" => pc'[u] = "orbit"
    BY <1>5 DEF IgniteFails, BodyEnds, Disconnect, Decrement, TeardownNetwork, TypeOK
  <2>2. QED
    BY <2>1 DEF JoinedStarts
<1>6. ASSUME NEW t \in Tests, NEW n \in Names, NEW c \in Tests, Remove(t, n, c)
      PROVE  JoinedStarts'
  BY <1>6 DEF Remove, JoinedStarts
<1>7. CASE UNCHANGED vars
  BY <1>7 DEF vars, JoinedStarts
<1>8. QED
  BY <1>1, <1>2, <1>3, <1>4, <1>5, <1>6, <1>7 DEF Next, TestStep, Exit

\* A step after which every Pending entry was Pending before, with the same
\* container in the same state, and no wait has ended.
LEMMA PendingStays ==
  ASSUME PendingNotStarted,
         \A n \in Names : status'[n] = "Pending" =>
            /\ status[n] = "Pending" /\ cid'[n] = cid[n]
            /\ daemon'[n][cid[n]] = daemon[n][cid[n]]
            /\ \A t \in Tests : slot[t][n] = "starting" => slot'[t][n] = "starting"
  PROVE  PendingNotStarted'
BY DEF PendingNotStarted

\* If no WaitFor panics and no task is left behind, a started container leaves
\* Pending before the lock is released.
LEMMA PendingNotStartedInductive ==
  ASSUME NoStrictStarts, "panic" \notin Faults, OverflowChecks, TypeOK, IInv,
         JoinedStarts, PendingNotStarted, [Next]_vars
  PROVE  PendingNotStarted'
<1>1. ASSUME NEW t \in Tests, NEW n \in Names, Create(t, n) PROVE PendingNotStarted'
  <2>1. \A u \in Tests, m \in Names : slot[u][m] # "starting"
    BY <1>1 DEF Create, Locked
  <2>2. CASE CreateFresh(t, n)
    <3>1. /\ \A m \in Names : m # n => status'[m] = status[m] /\ cid'[m] = cid[m]
          /\ cid'[n] = t /\ daemon'[n][t] = "created"
          /\ \A m \in Names : m # n => daemon'[m] = daemon[m]
      BY <2>2 DEF CreateFresh, TypeOK
    <3>2. QED
      BY <2>1, <3>1 DEF PendingNotStarted
  <2>3. CASE ~CreateFresh(t, n)
    <3>1. /\ daemon' = daemon
          /\ \A m \in Names : status'[m] = "Pending" => status[m] = "Pending" /\ cid'[m] = cid[m]
      BY <1>1, <2>3 DEF Create, CreateRefused, JoinLive, JoinUnconnected, JoinFailed, registry,
                        docker, TypeOK
    <3>2. QED
      BY <2>1, <3>1, PendingStays
  <2>4. QED
    BY <2>2, <2>3
<1>2. ASSUME NEW t \in Tests, NEW n \in Names, Start(t, n) PROVE PendingNotStarted'
  <2>1. CASE StartBegins(t, n)
    <3>1. /\ slot'[t][n] = "starting" /\ UNCHANGED <<status, cid>>
          /\ \A m \in Names : m # n => daemon'[m] = daemon[m]
          /\ \A u \in Tests, m \in Names : slot[u][m] # "starting"
      BY <2>1 DEF StartBegins, SetSlot, Locked, registry, TypeOK
    <3>2. QED
      BY <3>1 DEF PendingNotStarted
  <2>2. CASE StartDecided(t, n)
    <3>1. /\ UNCHANGED <<status, cid, daemon>>
          /\ \A u \in Tests, m \in Names : slot[u][m] # "starting"
      BY <2>2 DEF StartDecided, Locked, registry, docker
    <3>2. QED
      BY <3>1, PendingStays
  <2>3. CASE StartRefused(t, n) \/ WaitFails(t, n) \/ WaitSucceeds(t, n)
    <3>1. /\ daemon' = daemon /\ status'[n] # "Pending"
          /\ \A m \in Names : m # n => status'[m] = status[m] /\ cid'[m] = cid[m]
      BY <2>3 DEF StartRefused, WaitFails, WaitSucceeds, RecordFailure, docker, TypeOK
    <3>2. \A u \in Tests, m \in Names : m # n => slot'[u][m] = slot[u][m]
      BY <1>2, StartSlots
    <3>3. QED
      BY <3>1, <3>2, PendingStays
  <2>4. ~WaitPanics(t, n) /\ ~DropTask(t, n)
    BY DEF WaitPanics, DropTask, JoinedStarts
  <2>5. QED
    BY <1>2, <2>1, <2>2, <2>3, <2>4 DEF Start
<1>3. ASSUME NEW t \in Tests, Moves(t) PROVE PendingNotStarted'
  <2>1. UNCHANGED <<status, cid, daemon>>
    BY <1>3, MoveEffect
  <2>2. \A u \in Tests, m \in Names : slot[u][m] = "starting" => slot'[u][m] = "starting"
    BY <1>3, OtherSlots DEF JoinedStarts
  <2>3. QED
    BY <2>1, <2>2, PendingStays
<1>4. ASSUME NEW t \in Tests, Decrement(t) PROVE PendingNotStarted'
  <2>1. /\ UNCHANGED <<slot, daemon>>
        /\ \A m \in Names : status'[m] = "Pending" => status[m] = "Pending" /\ cid'[m] = cid[m]
    BY <1>4 DEF Decrement, docker
  <2>2. QED
    BY <2>1, PendingStays
<1>5. ASSUME NEW t \in Tests, NEW n \in Names, NEW c \in Tests, Remove(t, n, c)
      PROVE  PendingNotStarted'
  <2>1. UNCHANGED <<status, cid, slot>>
    BY <1>5 DEF Remove, registry
  <2>2. status[n] = "Pending" => cid[n] # c
    BY <1>5 DEF Remove, IInv, RemovalSafe
  <2>3. \A m \in Names, d \in Tests : daemon'[m][d] = daemon[m][d] \/ (m = n /\ d = c)
    BY <1>5 DEF Remove, TypeOK
  <2>4. \A m \in Names : status[m] = "Pending" => cid[m] \in Tests
    BY DEF IInv, LiveEntry, TypeOK, IdOrNone
  <2>5. QED
    BY <2>1, <2>2, <2>3, <2>4, PendingStays
<1>6. CASE UNCHANGED vars
  BY <1>6, PendingStays DEF vars, registry, docker
<1>7. QED
  BY <1>1, <1>2, <1>3, <1>4, <1>5, <1>6 DEF Next, TestStep, Exit, Moves

\* Where no WaitFor panics and no strict start leaves a task behind, only the
\* first test to reach start issues it, for any number of tests and names.
THEOREM StartedOnceCorrect ==
  OverflowChecks /\ NoStrictStarts /\ "panic" \notin Faults => (Spec => StartedOnce)
<1> SUFFICES ASSUME OverflowChecks, NoStrictStarts, "panic" \notin Faults
             PROVE  Spec => StartedOnce
  OBVIOUS
<1>1. Init => JoinedStarts /\ PendingNotStarted
  BY DEF Init, JoinedStarts, PendingNotStarted
<1>2. TypeOK /\ JoinedStarts /\ [Next]_vars => JoinedStarts'
  BY JoinedStartsInductive
<1>3. TypeOK /\ IInv /\ JoinedStarts /\ PendingNotStarted /\ [Next]_vars => PendingNotStarted'
  BY PendingNotStartedInductive
<1>4. TypeOK /\ PendingNotStarted /\ [Next]_vars =>
         [\A t \in Tests, n \in Names :
             slot[t][n] # "starting" /\ slot'[t][n] = "starting"
                => daemon[n][cid[n]] = "created"]_vars
  <2> SUFFICES ASSUME TypeOK, PendingNotStarted, Next, NEW t \in Tests, NEW n \in Names,
                      slot[t][n] # "starting", slot'[t][n] = "starting"
               PROVE  daemon[n][cid[n]] = "created"
    OBVIOUS
  <2>1. PICK u \in Tests : TestStep(u)
    BY DEF Next, Exit, vars
  <2>2. PICK m \in Names : Start(u, m)
    <3>1. ASSUME NEW m \in Names, Create(u, m) PROVE FALSE
      BY <3>1, CreateEffect
    <3>2. ~(Moves(u) \/ Decrement(u) \/ \E m \in Names, c \in Tests : Remove(u, m, c))
      BY OtherSlots
    <3>3. QED
      BY <2>1, <3>1, <3>2 DEF TestStep, Moves
  <2>3. u = t /\ m = n /\ StartBegins(t, n)
    BY <2>2, StartSlots
  <2>4. QED
    BY <2>3 DEF StartBegins, Locked, PendingNotStarted
<1>5. QED
  BY <1>1, <1>2, <1>3, <1>4, InvCorrect, TypeCorrect, PTL DEF Spec, StartedOnce

-----------------------------------------------------------------------------
\* Isolated networks.

\* Isolated networks are the networks of one test.
LEMMA OwnNetwork ==
  ASSUME NEW t \in Isolated, NEW u \in Tests, NetworkOf[u] = NetworkOf[t]
  PROVE  u = t
BY NetworkAssumption

\* What a create connects: the container it hands out, to the caller's network.
LEMMA CreateAttaches ==
  ASSUME OverflowChecks, TypeOK, IInv, NEW t \in Tests, NEW n \in Names, Create(t, n)
  PROVE  /\ \A m \in Names, c \in Tests :
               \/ attached'[m][c] = attached[m][c]
               \/ m = n /\ attached'[m][c] = attached[m][c] \cup {NetworkOf[t]}
                  /\ (c = hid'[t][n] \/ slot'[t][n] = "failed" \/ pc'[t] = "panicked")
               \/ m = n /\ attached'[m][c] = {NetworkOf[t]} /\ ~NameTaken(n)
                  /\ (c = hid'[t][n] \/ slot'[t][n] = "failed")
         /\ \/ hid'[t][n] = hid[t][n]
            \/ hid'[t][n] \in Tests /\
               (t \in Isolated => NetworkOf[t] \in attached'[n][hid'[t][n]])
<1>1. CASE CreateRefused(t, n) \/ JoinUnconnected(t, n) \/ JoinFailed(t, n)
  BY <1>1 DEF CreateRefused, JoinUnconnected, JoinFailed, docker
<1>2. CASE CreateFresh(t, n)
  <2>1. \A m \in Names, c \in Tests :
           attached'[m][c] = IF m = n /\ c = t THEN {NetworkOf[t]} ELSE attached[m][c]
    BY <1>2 DEF CreateFresh, TypeOK
  <2>2. ~NameTaken(n) /\ (hid' = [hid EXCEPT ![t][n] = t] \/ (SetSlot(t, n, "failed") /\ hid' = hid))
    BY <1>2 DEF CreateFresh
  <2>3. hid'[t][n] = t \/ (slot'[t][n] = "failed" /\ hid'[t][n] = hid[t][n])
    BY <2>2 DEF SetSlot, TypeOK
  <2>4. QED
    BY <2>1, <2>2, <2>3
<1>3. CASE JoinLive(t, n)
  <2>1. cid[n] \in Tests
    BY <1>3 DEF JoinLive, IInv, LiveEntry, TypeOK, IdOrNone
  <2>2. /\ attached' = attached \/ attached' = [attached EXCEPT ![n][cid[n]] = @ \cup {NetworkOf[t]}]
        /\ t \in Isolated => attached' = [attached EXCEPT ![n][cid[n]] = @ \cup {NetworkOf[t]}]
        /\ \/ pc' = [pc EXCEPT ![t] = "panicked"] /\ hid' = hid
           \/ hid' = [hid EXCEPT ![t][n] = cid[n]]
    BY <1>3 DEF JoinLive, AttachesOnJoin
  <2>3. (pc'[t] = "panicked" /\ hid'[t][n] = hid[t][n]) \/ hid'[t][n] = cid[n]
    BY <2>2 DEF TypeOK
  <2>4. \A m \in Names, c \in Tests :
          \/ attached'[m][c] = attached[m][c]
          \/ m = n /\ c = cid[n] /\ attached'[m][c] = attached[m][c] \cup {NetworkOf[t]}
    BY <2>1, <2>2 DEF TypeOK
  <2>5. t \in Isolated => NetworkOf[t] \in attached'[n][cid[n]]
    BY <2>1, <2>2 DEF TypeOK
  <2>6. QED
    BY <2>1, <2>3, <2>4, <2>5
<1>4. QED
  BY <1>1, <1>2, <1>3 DEF Create

\* The steps of a test that are not a create.
Later(t) ==
    \/ Moves(t) \/ Decrement(t)
    \/ \E n \in Names : Start(t, n)
    \/ \E n \in Names, c \in Tests : Remove(t, n, c)

\* What the other steps do to the connections: a test disconnects its own
\* network, a removal those of a container nobody claims.
LEMMA OtherAttached ==
  ASSUME TypeOK, IInv, NEW t \in Tests, Later(t)
  PROVE  \A m \in Names, c \in Tests :
            \/ attached'[m][c] = attached[m][c]
            \/ pc'[t] = "decrement" /\ attached'[m][c] = attached[m][c] \ {NetworkOf[t]}
            \/ attached'[m][c] = {} /\ \A u \in Tests : Claimant(u, m) => hid[u][m] # c
<1>1. CASE Disconnect(t)
  <2>1. pc'[t] = "decrement"
    BY <1>1 DEF Disconnect, TypeOK
  <2>2. PICK failed \in SUBSET Names :
          attached' = [m \in Names |-> [c \in Tests |->
                         IF DisconnectsFrom(t, m) /\ m \notin failed /\ c = cid[m]
                         THEN attached[m][c] \ {NetworkOf[t]}
                         ELSE attached[m][c]]]
    BY <1>1 DEF Disconnect
  <2>3. QED
    BY <2>1, <2>2
<1>2. ASSUME NEW n \in Names, NEW c \in Tests, Remove(t, n, c)
      PROVE  \A m \in Names, d \in Tests :
                \/ attached'[m][d] = attached[m][d]
                \/ attached'[m][d] = {} /\ \A u \in Tests : Claimant(u, m) => hid[u][m] # d
  <2>1. attached' = attached \/ attached' = [attached EXCEPT ![n][c] = {}]
    BY <1>2 DEF Remove
  <2>2. \A u \in Tests : Claimant(u, n) => hid[u][n] # c
    BY <1>2 DEF Remove, IInv, RemovalSafe
  <2>3. \A m \in Names, d \in Tests :
           attached'[m][d] = attached[m][d] \/ (m = n /\ d = c /\ attached'[m][d] = {})
    BY <2>1 DEF TypeOK
  <2>4. QED
    BY <2>2, <2>3
<1>3. ASSUME NEW n \in Names, Start(t, n) PROVE attached' = attached
  BY <1>3, StartEffect
<1>4. CASE (Moves(t) /\ ~Disconnect(t)) \/ Decrement(t)
  BY <1>4 DEF Moves, Ignited, IgniteFails, Orbited, OrbitFails, BodyEnds, TeardownNetwork,
              Decrement, docker
<1>5. QED
  BY <1>1, <1>2, <1>3, <1>4 DEF Later

\* Who is a claimant was one before, unless it has just been created; nobody
\* comes back to a body.
LEMMA ReachingPhases ==
  ASSUME TypeOK, IInv, NEW t \in Tests, Later(t)
  PROVE  /\ hid' = hid
         /\ \A u \in Tests : pc'[u] \in {"ignite", "orbit", "body"} =>
                                pc[u] \in {"ignite", "orbit", "body"}
<1>1. ASSUME NEW n \in Names, Start(t, n)
      PROVE  hid' = hid /\ (pc' = pc \/ pc' = [pc EXCEPT ![t] = "panicked"])
  BY <1>1, StartEffect
<1>2. CASE Moves(t) \/ Decrement(t) \/ \E n \in Names, c \in Tests : Remove(t, n, c)
  BY <1>2 DEF Moves, Ignited, IgniteFails, Orbited, OrbitFails, BodyEnds, Disconnect,
              TeardownNetwork, Decrement, Remove, TypeOK
<1>3. QED
  BY <1>1, <1>2 DEF TypeOK, Later

\* Every step keeps the containers of an isolated test in its network until it
\* disconnects them.
LEMMA IsolatedReachableInductive ==
  ASSUME OverflowChecks, TypeOK, IInv, IsolatedReachable, [Next]_vars
  PROVE  IsolatedReachable'
<1>0. Isolated \subseteq Tests
  BY NetworkAssumption
<1>1. ASSUME NEW t \in Tests, NEW n \in Names, Create(t, n) PROVE IsolatedReachable'
  <2> SUFFICES ASSUME NEW u \in Isolated, NEW m \in Names, hid'[u][m] # NoId,
                      pc'[u] \in {"ignite", "orbit", "body"}
               PROVE  NetworkOf[u] \in attached'[m][hid'[u][m]]
    BY DEF IsolatedReachable
  <2>1. pc[u] \in {"ignite", "orbit", "body"}
    <3>1. pc' = pc \/ pc' = [pc EXCEPT ![t] = "panicked"]
      BY <1>1, CreateEffect
    <3>2. QED
      BY <1>0, <3>1 DEF TypeOK
  <2>2. CASE hid'[u][m] = hid[u][m]
    <3>1. Claimant(u, m) /\ hid[u][m] \in Tests /\ NetworkOf[u] \in attached[m][hid[u][m]]
      BY <1>0, <2>1, <2>2 DEF Claimant, ClaimPhases, IsolatedReachable, TypeOK, IdOrNone
    <3>2. NameTaken(m)
      BY <1>0, <3>1 DEF NameTaken, IInv, ClaimsAgree
    <3>3. QED
      BY <1>1, <2>2, <3>1, <3>2, CreateAttaches
  <2>3. CASE hid'[u][m] # hid[u][m]
    <3>1. u = t /\ m = n
      BY <1>0, <1>1, <2>3, CreateEffect
    <3>2. QED
      BY <1>1, <2>3, <3>1, CreateAttaches
  <2>4. QED
    BY <2>2, <2>3
<1>2. ASSUME NEW t \in Tests, Later(t)
      PROVE  IsolatedReachable'
  <2> SUFFICES ASSUME NEW u \in Isolated, NEW m \in Names, hid'[u][m] # NoId,
                      pc'[u] \in {"ignite", "orbit", "body"}
               PROVE  NetworkOf[u] \in attached'[m][hid'[u][m]]
    BY DEF IsolatedReachable
  <2>1. hid' = hid /\ pc[u] \in {"ignite", "orbit", "body"}
    BY <1>0, <1>2, ReachingPhases
  <2>2. Claimant(u, m) /\ hid[u][m] \in Tests /\ NetworkOf[u] \in attached[m][hid[u][m]]
    BY <1>0, <2>1 DEF Claimant, ClaimPhases, IsolatedReachable, TypeOK, IdOrNone
  <2>3. pc'[t] = "decrement" => NetworkOf[t] # NetworkOf[u]
    BY OwnNetwork
  <2>4. QED
    BY <1>0, <1>2, <2>1, <2>2, <2>3, OtherAttached
<1>3. CASE UNCHANGED vars
  BY <1>3 DEF vars, docker, IsolatedReachable
<1>4. QED
  BY <1>1, <1>2, <1>3 DEF Next, TestStep, Exit, Moves, Later

\* Whatever fails, a test with an isolated network finds every container it was
\* handed in that network until it disconnects it.
THEOREM IsolatedReachableCorrect == OverflowChecks => (Spec => []IsolatedReachable)
<1> SUFFICES ASSUME OverflowChecks PROVE Spec => []IsolatedReachable
  OBVIOUS
<1>1. Init => IsolatedReachable
  BY NetworkAssumption DEF Init, IsolatedReachable
<1>2. TypeOK /\ IInv /\ IsolatedReachable /\ [Next]_vars => IsolatedReachable'
  BY IsolatedReachableInductive
<1>3. QED
  BY <1>1, <1>2, InvCorrect, TypeCorrect, PTL DEF Spec

\* If all tests are isolated, every body reaches its static containers.
THEOREM ReachableFromBodyCorrect ==
  OverflowChecks /\ Tests \subseteq Isolated => (Spec => []ReachableFromBody)
<1> SUFFICES ASSUME OverflowChecks, Tests \subseteq Isolated PROVE Spec => []ReachableFromBody
  OBVIOUS
<1>1. IInv /\ IsolatedReachable => ReachableFromBody
  <2> SUFFICES ASSUME IInv, IsolatedReachable, NEW t \in Tests, pc[t] = "body", NEW n \in Uses[t]
               PROVE  NetworkOf[t] \in attached[n][hid[t][n]]
    BY DEF ReachableFromBody
  <2>1. n \in Names
    BY UsesAssumption
  <2>2. hid[t][n] # NoId
    BY <2>1 DEF IInv, SlotsHaveIds
  <2>3. QED
    BY <2>1, <2>2 DEF IsolatedReachable
<1>2. QED
  BY <1>1, InvCorrect, IsolatedReachableCorrect, PTL

\* They forget no composition and no panic.
LEMMA LaterSlots ==
  ASSUME TypeOK, IInv, NEW t \in Tests, Later(t)
  PROVE  \A u \in Tests :
            /\ pc[u] = "panicked" => pc'[u] = "panicked"
            /\ \A m \in Names : slot[u][m] # "idle" => slot'[u][m] # "idle"
            /\ \A m \in Uses[u] : slot[u][m] = "failed" => slot'[u][m] = "failed"
<1>0. \A u \in Tests : Uses[u] \subseteq Names
  BY UsesAssumption
<1>1. ASSUME NEW n \in Names, Start(t, n)
      PROVE  \A u \in Tests :
                /\ pc[u] = "panicked" => pc'[u] = "panicked"
                /\ \A m \in Names : slot[u][m] \in {"idle", "failed"} => slot'[u][m] = slot[u][m]
                /\ \A m \in Names : slot[u][m] # "idle" => slot'[u][m] # "idle"
  <2>1. pc' = pc \/ pc' = [pc EXCEPT ![t] = "panicked"]
    BY <1>1, StartEffect
  <2>2. \A u \in Tests : pc[u] = "panicked" => pc'[u] = "panicked"
    BY <2>1 DEF TypeOK
  <2>3. QED
    BY <1>1, <2>2, StartSlots
<1>2. CASE Moves(t) \/ Decrement(t) \/ \E n \in Names, c \in Tests : Remove(t, n, c)
  <2>1. \A u \in Tests : pc[u] = "panicked" => pc'[u] = "panicked"
    BY <1>2 DEF Moves, Ignited, IgniteFails, Orbited, OrbitFails, BodyEnds, Disconnect,
                TeardownNetwork, Decrement, Remove, TypeOK
  <2>2. QED
    BY <1>0, <1>2, <2>1, OtherSlots DEF Relaxed
<1>3. QED
  BY <1>0, <1>1, <1>2 DEF Later

\* Every step connects an isolated network only to a container its test is
\* handed.
LEMMA AttachedToOwnInductive ==
  ASSUME OverflowChecks, TypeOK, IInv, AttachedToOwn, [Next]_vars
  PROVE  AttachedToOwn'
<1>0. Isolated \subseteq Tests
  BY NetworkAssumption
<1>1. ASSUME NEW t \in Tests, NEW n \in Names, Create(t, n) PROVE AttachedToOwn'
  <2> SUFFICES ASSUME NEW u \in Isolated, NEW m \in Names, NEW c \in Tests,
                      NetworkOf[u] \in attached'[m][c]
               PROVE  /\ m \in Uses[u]
                      /\ slot'[u][m] # "idle" \/ pc'[u] = "panicked"
                      /\ hid'[u][m] = c \/ slot'[u][m] = "failed" \/ pc'[u] = "panicked"
    BY DEF AttachedToOwn
  <2>1. pc[u] = "panicked" => pc'[u] = "panicked"
    <3>1. pc' = pc \/ pc' = [pc EXCEPT ![t] = "panicked"]
      BY <1>1, CreateEffect
    <3>2. QED
      BY <1>0, <3>1 DEF TypeOK
  <2>2. CASE NetworkOf[u] \in attached[m][c]
    <3>1. /\ m \in Uses[u] /\ (slot[u][m] # "idle" \/ pc[u] = "panicked")
          /\ hid[u][m] = c \/ slot[u][m] = "failed" \/ pc[u] = "panicked"
      BY <2>2 DEF AttachedToOwn
    <3>2. CASE u = t /\ m = n
      BY <1>1, <3>1, <3>2, CreateEffect
    <3>3. CASE ~(u = t /\ m = n)
      BY <1>0, <1>1, <2>1, <3>1, <3>3, CreateEffect
    <3>4. QED
      BY <3>2, <3>3
  <2>3. CASE NetworkOf[u] \notin attached[m][c]
    <3>1. m = n /\ NetworkOf[u] = NetworkOf[t]
      BY <1>1, <2>3, CreateAttaches
    <3>2. u = t
      BY <3>1, OwnNetwork
    <3>3. c = hid'[t][n] \/ slot'[t][n] = "failed" \/ pc'[t] = "panicked"
      BY <1>1, <2>3, <3>1, CreateAttaches
    <3>4. slot'[t][n] # "idle" \/ pc'[t] = "panicked"
      <4>1. CASE hid'[t][n] = hid[t][n]
        BY <1>1, <2>3, <3>1, <3>2, <3>3, <4>1
        DEF Create, CreateRefused, CreateFresh, JoinLive, JoinUnconnected, JoinFailed, SetSlot,
            docker, TypeOK
      <4>2. CASE hid'[t][n] # hid[t][n]
        BY <1>1, <4>2, CreateEffect
      <4>3. QED
        BY <4>1, <4>2
    <3>5. QED
      BY <1>1, <3>1, <3>2, <3>3, <3>4, CreateEffect
  <2>4. QED
    BY <2>2, <2>3
<1>2. ASSUME NEW t \in Tests, Later(t) PROVE AttachedToOwn'
  <2> SUFFICES ASSUME NEW u \in Isolated, NEW m \in Names, NEW c \in Tests,
                      NetworkOf[u] \in attached'[m][c]
               PROVE  /\ m \in Uses[u]
                      /\ slot'[u][m] # "idle" \/ pc'[u] = "panicked"
                      /\ hid'[u][m] = c \/ slot'[u][m] = "failed" \/ pc'[u] = "panicked"
    BY DEF AttachedToOwn
  <2>1. NetworkOf[u] \in attached[m][c]
    BY <1>2, OtherAttached
  <2>2. /\ m \in Uses[u] /\ (slot[u][m] # "idle" \/ pc[u] = "panicked")
        /\ hid[u][m] = c \/ slot[u][m] = "failed" \/ pc[u] = "panicked"
    BY <2>1 DEF AttachedToOwn
  <2>3. hid' = hid
    BY <1>2, ReachingPhases
  <2>4. QED
    BY <1>0, <1>2, <2>2, <2>3, LaterSlots
<1>3. CASE UNCHANGED vars
  BY <1>3 DEF vars, docker, AttachedToOwn
<1>4. QED
  BY <1>1, <1>2, <1>3 DEF Next, TestStep, Exit, Moves, Later

\* Every step keeps the entry of a container that a claimant has running.
LEMMA RunningEntryInductive ==
  ASSUME OverflowChecks, TypeOK, IInv, RunningEntry, [Next]_vars
  PROVE  RunningEntry'
<1>0. IInv'
  BY InvInductive
<1>1. ASSUME NEW t \in Tests, NEW n \in Names, Create(t, n) PROVE RunningEntry'
  <2> SUFFICES ASSUME NEW u \in Tests, NEW m \in Names, Claimant(u, m)', slot'[u][m] = "running"
               PROVE  status'[m] = "Operational" /\ cid'[m] = hid'[u][m]
    BY DEF RunningEntry
  <2>1. slot[u][m] = "running" /\ hid'[u][m] = hid[u][m]
    BY <1>1, CreateEffect
  <2>2. Claimant(u, m)
    <3>1. pc[t] = "ignite" /\ (pc' = pc \/ pc' = [pc EXCEPT ![t] = "panicked"])
      BY <1>1, CreateEffect
    <3>2. pc[u] \in ClaimPhases
      BY <3>1 DEF TypeOK, Claimant, ClaimPhases
    <3>3. QED
      BY <2>1, <3>2 DEF Claimant
  <2>3. status[m] = "Operational" /\ cid[m] = hid[u][m]
    BY <2>1, <2>2 DEF RunningEntry
  <2>4. status'[m] = status[m] /\ cid'[m] = cid[m]
    BY <1>1, <2>3 DEF Create, CreateRefused, CreateFresh, JoinLive, JoinUnconnected, JoinFailed,
                      registry, TypeOK
  <2>5. QED
    BY <2>1, <2>3, <2>4
<1>2. ASSUME NEW t \in Tests, NEW n \in Names, Start(t, n) PROVE RunningEntry'
  <2> SUFFICES ASSUME NEW u \in Tests, NEW m \in Names, Claimant(u, m)', slot'[u][m] = "running"
               PROVE  status'[m] = "Operational" /\ cid'[m] = hid'[u][m]
    BY DEF RunningEntry
  <2>1. hid' = hid /\ (pc' = pc \/ pc' = [pc EXCEPT ![t] = "panicked"])
    BY <1>2, StartEffect
  <2>2. CASE slot[u][m] = "running"
    <3>1. pc[u] \in ClaimPhases \/ u = t
      BY <2>1 DEF TypeOK, Claimant
    <3>2. pc[t] = "orbit" \/ pc' = pc
      BY <1>2, StartEffect
    <3>3. Claimant(u, m)
      BY <2>1, <3>1, <3>2 DEF Claimant, ClaimPhases
    <3>4. status[m] = "Operational" /\ cid[m] = hid[u][m]
      BY <2>2, <3>3 DEF RunningEntry
    <3>5. status'[m] = status[m] /\ cid'[m] = cid[m]
      BY <1>2, <3>4, StartEffect DEF TypeOK
    <3>6. QED
      BY <2>1, <3>4, <3>5
  <2>3. CASE slot[u][m] # "running"
    <3>1. status'[m] = "Operational"
      BY <1>2, <2>3, StartSlots
    <3>2. QED
      BY <1>0, <3>1 DEF IInv, LiveEntry
  <2>4. QED
    BY <2>2, <2>3
<1>3. ASSUME NEW t \in Tests, Moves(t) PROVE RunningEntry'
  <2>1. UNCHANGED <<status, cid, hid>>
    BY <1>3, MoveEffect
  <2>2. \A u \in Tests, m \in Names : slot'[u][m] = "running" => slot[u][m] = "running"
    BY <1>3, OtherSlots
  <2>3. \A u \in Tests : pc'[u] \in ClaimPhases => pc[u] \in ClaimPhases
    <3>1. PICK p \in Phases : /\ pc' = [pc EXCEPT ![t] = p] /\ pc[t] # "done"
                              /\ pc[t] = "remove" => p = "done"
      BY <1>3, MoveEffect
    <3>2. QED
      BY <3>1 DEF TypeOK, Phases, ClaimPhases
  <2>4. QED
    BY <2>1, <2>2, <2>3 DEF RunningEntry, Claimant
<1>4. ASSUME NEW t \in Tests, Decrement(t) PROVE RunningEntry'
  <2> SUFFICES ASSUME NEW u \in Tests, NEW m \in Names, Claimant(u, m)', slot'[u][m] = "running"
               PROVE  status'[m] = "Operational" /\ cid'[m] = hid'[u][m]
    BY DEF RunningEntry
  <2>1. /\ UNCHANGED <<slot, hid>>
        /\ \A v \in Tests : pc'[v] \in ClaimPhases => pc[v] \in ClaimPhases
        /\ LastUser(t, m) => status'[m] = "Cleaned"
        /\ ~LastUser(t, m) => status'[m] = status[m] /\ cid'[m] = cid[m]
    BY <1>4 DEF Decrement, TypeOK, ClaimPhases
  <2>2. u \in claims'[m]
    BY <1>0 DEF IInv, ClaimsCounted
  <2>3. status'[m] # "Cleaned"
    BY <1>0, <2>2 DEF IInv, CounterExact
  <2>4. QED
    BY <2>1, <2>3 DEF RunningEntry, Claimant
<1>5. ASSUME NEW t \in Tests, NEW n \in Names, NEW c \in Tests, Remove(t, n, c)
      PROVE  RunningEntry'
  BY <1>5 DEF Remove, registry, RunningEntry, Claimant
<1>6. CASE UNCHANGED vars
  BY <1>6 DEF vars, registry, RunningEntry, Claimant
<1>7. QED
  BY <1>1, <1>2, <1>3, <1>4, <1>5, <1>6 DEF Next, TestStep, Exit, Moves

\* What a test ends with and what its network is connected to at that time.
EndPhases == {"decrement", "remove", "done"}

\* Every disconnect works and the prune strategy deletes the network.
NetworkWorks == Faults \cap {"disconnect", "keep"} = {}

\* Every step leaves the network of an isolated test unconnected once the test
\* has disconnected what it had running.
LEMMA DisconnectedInductive ==
  ASSUME OverflowChecks, NoStrictStarts, NetworkWorks, TypeOK, IInv,
         AttachedToOwn, RunningEntry, JoinedStarts, Disconnected, [Next]_vars
  PROVE  Disconnected'
<1>0. Isolated \subseteq Tests /\ \A u \in Tests : Uses[u] \subseteq Names
  BY NetworkAssumption, UsesAssumption
<1> DEFINE Unattached(u) == \A m \in Names, c \in Tests : NetworkOf[u] \notin attached[m][c]
<1>1. ASSUME NEW t \in Tests, NEW n \in Names, Create(t, n) PROVE Disconnected'
  <2> SUFFICES ASSUME NEW u \in Isolated, pc'[u] \in EndPhases, AllRunning(u)'
               PROVE  Unattached(u)' /\ (pc'[u] = "done" => NetworkOf[u] \in deleted')
    BY DEF Disconnected, EndPhases
  <2>1. /\ pc[t] = "ignite" /\ (pc' = pc \/ pc' = [pc EXCEPT ![t] = "panicked"])
        /\ deleted' = deleted
    BY <1>1, CreateEffect
  <2>2. u # t /\ pc[u] = pc'[u]
    BY <1>0, <2>1 DEF TypeOK, EndPhases
  <2>3. AllRunning(u)
    BY <1>0, <1>1, <2>2, CreateEffect DEF AllRunning
  <2>4. Unattached(u) /\ (pc[u] = "done" => NetworkOf[u] \in deleted)
    BY <2>2, <2>3 DEF Disconnected, EndPhases
  <2>5. NetworkOf[t] # NetworkOf[u]
    BY <2>2, OwnNetwork
  <2>6. Unattached(u)'
    BY <1>1, <2>4, <2>5, CreateAttaches
  <2>7. QED
    BY <2>1, <2>2, <2>4, <2>6
<1>2. ASSUME NEW t \in Tests, Later(t), ~Disconnect(t), ~TeardownNetwork(t) PROVE Disconnected'
  <2> SUFFICES ASSUME NEW u \in Isolated, pc'[u] \in EndPhases, AllRunning(u)'
               PROVE  Unattached(u)' /\ (pc'[u] = "done" => NetworkOf[u] \in deleted')
    BY DEF Disconnected, EndPhases
  <2>1. /\ deleted' = deleted /\ pc[u] \in EndPhases
        /\ pc'[u] = "done" => pc[u] = "done"
    <3>1. ASSUME NEW n \in Names, Start(t, n)
          PROVE  deleted' = deleted /\ (pc' = pc \/ pc' = [pc EXCEPT ![t] = "panicked"])
      BY <3>1, StartEffect
    <3>2. CASE \E n \in Names : Start(t, n)
      BY <1>0, <3>1, <3>2 DEF TypeOK, EndPhases
    <3>3. CASE \/ Moves(t) \/ Decrement(t) \/ \E n \in Names, c \in Tests : Remove(t, n, c)
      BY <1>0, <1>2, <3>3 DEF Moves, Ignited, IgniteFails, Orbited, OrbitFails, BodyEnds,
                  Decrement, Remove, TypeOK, EndPhases, docker
    <3>4. QED
      BY <1>2, <3>2, <3>3 DEF Later
  <2>2. AllRunning(u)
    <3>1. \A m \in Names : slot'[u][m] = "running" => slot[u][m] = "running"
      <4>1. ASSUME NEW n \in Names, Start(t, n), u = t PROVE slot'[u][n] = "running" => slot[u][n] = "running"
        <5>1. slot[t][n] \in {"spawned", "starting"}
          BY <4>1, StartSlots DEF NoStrictStarts, IsStrict
        <5>2. pc[t] = "orbit"
          BY <5>1 DEF JoinedStarts
        <5>3. QED
          BY <2>1, <4>1, <5>2 DEF EndPhases
      <4>2. CASE \E n \in Names : Start(t, n)
        BY <1>0, <4>1, <4>2, StartSlots
      <4>3. CASE Moves(t) \/ Decrement(t) \/ \E n \in Names, c \in Tests : Remove(t, n, c)
        BY <1>0, <4>3, OtherSlots
      <4>4. QED
        BY <1>2, <4>2, <4>3 DEF Later
    <3>2. QED
      BY <1>0, <3>1 DEF AllRunning
  <2>3. Unattached(u) /\ (pc[u] = "done" => NetworkOf[u] \in deleted)
    BY <2>1, <2>2 DEF Disconnected, EndPhases
  <2>4. Unattached(u)'
    BY <1>2, <2>3, OtherAttached
  <2>5. QED
    BY <2>1, <2>3, <2>4
<1>3. ASSUME NEW t \in Tests, Disconnect(t) PROVE Disconnected'
  <2> SUFFICES ASSUME NEW u \in Isolated, pc'[u] \in EndPhases, AllRunning(u)'
               PROVE  Unattached(u)' /\ (pc'[u] = "done" => NetworkOf[u] \in deleted')
    BY DEF Disconnected, EndPhases
  <2>1. /\ UNCHANGED <<slot, deleted>> /\ pc[t] = "disconnect"
        /\ \A v \in Tests : pc'[v] = IF v = t THEN "decrement" ELSE pc[v]
        /\ \A m \in Names, c \in Tests :
              attached'[m][c] = IF DisconnectsFrom(t, m) /\ c = cid[m]
                                THEN attached[m][c] \ {NetworkOf[t]} ELSE attached[m][c]
    <3>1. /\ UNCHANGED <<slot, deleted>> /\ pc[t] = "disconnect"
          /\ pc' = [pc EXCEPT ![t] = "decrement"]
      BY <1>3 DEF Disconnect
    <3>2. attached' = [m \in Names |-> [c \in Tests |->
                         IF DisconnectsFrom(t, m) /\ c = cid[m]
                         THEN attached[m][c] \ {NetworkOf[t]} ELSE attached[m][c]]]
      <4>1. PICK failed \in SUBSET Names :
              /\ failed = {}
              /\ attached' = [m \in Names |-> [c \in Tests |->
                                IF DisconnectsFrom(t, m) /\ m \notin failed /\ c = cid[m]
                                THEN attached[m][c] \ {NetworkOf[t]} ELSE attached[m][c]]]
        BY <1>3 DEF Disconnect, NetworkWorks
      <4>2. QED
        BY <4>1
    <3>3. \A v \in Tests : pc'[v] = IF v = t THEN "decrement" ELSE pc[v]
      BY <3>1 DEF TypeOK
    <3>4. QED
      BY <3>1, <3>2, <3>3
  <2>2. AllRunning(u)
    BY <2>1 DEF AllRunning
  <2>3. CASE u # t
    <3>1. pc[u] = pc'[u]
      BY <1>0, <2>1, <2>3
    <3>2. Unattached(u) /\ (pc[u] = "done" => NetworkOf[u] \in deleted)
      BY <2>2, <3>1 DEF Disconnected, EndPhases
    <3>3. Unattached(u)'
      BY <2>1, <3>2
    <3>4. QED
      BY <2>1, <3>1, <3>2, <3>3
  <2>4. CASE u = t
    <3> SUFFICES ASSUME NEW m \in Names, NEW c \in Tests, NetworkOf[u] \in attached'[m][c]
                 PROVE  FALSE
      BY <2>1, <2>4
    <3>1. NetworkOf[u] \in attached[m][c]
      BY <2>1
    <3>2. m \in Uses[u] /\ slot[u][m] = "running"
      BY <2>2, <3>1 DEF AttachedToOwn, AllRunning
    <3>3. hid[u][m] = c /\ c # NoId
      BY <2>1, <2>4, <3>1, <3>2, TestsAssumption DEF AttachedToOwn
    <3>4. Claimant(u, m)
      BY <2>1, <2>4, <3>3 DEF Claimant, ClaimPhases
    <3>5. status[m] = "Operational" /\ cid[m] = hid[u][m]
      BY <1>0, <3>2, <3>4 DEF RunningEntry
    <3>6. DisconnectsFrom(t, m) /\ c = cid[m]
      BY <2>4, <3>3, <3>5 DEF DisconnectsFrom, InCleanup, Debris
    <3>7. QED
      BY <2>1, <2>4, <3>6
  <2>5. QED
    BY <2>3, <2>4
<1>4. ASSUME NEW t \in Tests, TeardownNetwork(t) PROVE Disconnected'
  <2> SUFFICES ASSUME NEW u \in Isolated, pc'[u] \in EndPhases, AllRunning(u)'
               PROVE  Unattached(u)' /\ (pc'[u] = "done" => NetworkOf[u] \in deleted')
    BY DEF Disconnected, EndPhases
  <2>1. /\ UNCHANGED <<slot, attached>> /\ pc[t] = "remove" /\ deleted \subseteq deleted'
        /\ \A v \in Tests : pc'[v] = IF v = t THEN "done" ELSE pc[v]
        /\ t \in Isolated /\ ~NetworkBusy(NetworkOf[t]) => NetworkOf[t] \in deleted'
    BY <1>4 DEF TeardownNetwork, TypeOK, NetworkWorks
  <2>2. pc[u] \in EndPhases /\ AllRunning(u)
    BY <1>0, <2>1 DEF AllRunning, EndPhases
  <2>3. Unattached(u) /\ (pc[u] = "done" => NetworkOf[u] \in deleted)
    BY <2>2 DEF Disconnected, EndPhases
  <2>4. ~NetworkBusy(NetworkOf[u])
    BY <2>3 DEF NetworkBusy
  <2>5. QED
    BY <1>0, <2>1, <2>3, <2>4
<1>5. CASE UNCHANGED vars
  BY <1>5 DEF vars, docker, Disconnected, AllRunning
<1>6. QED
  BY <1>1, <1>2, <1>3, <1>4, <1>5 DEF Next, TestStep, Exit, Moves, Later

\* If the daemon disconnects what it is told to, the prune strategy keeps nothing
\* and no strict start leaves a task behind, teardown deletes the isolated network of every test that got all
\* its containers running, however the tests share them.
THEOREM IsolatedNetworkDeletedCorrect ==
  OverflowChecks /\ NoStrictStarts /\ NetworkWorks
     => (Spec => []IsolatedNetworkDeleted)
<1> SUFFICES ASSUME OverflowChecks, NoStrictStarts, NetworkWorks
             PROVE  Spec => []IsolatedNetworkDeleted
  OBVIOUS
<1>1. Init => AttachedToOwn /\ RunningEntry /\ JoinedStarts /\ Disconnected
  BY NetworkAssumption DEF Init, AttachedToOwn, RunningEntry, JoinedStarts, Disconnected, Claimant
<1>2. TypeOK /\ IInv /\ AttachedToOwn /\ [Next]_vars => AttachedToOwn'
  BY AttachedToOwnInductive
<1>3. TypeOK /\ IInv /\ RunningEntry /\ [Next]_vars => RunningEntry'
  BY RunningEntryInductive
<1>4. TypeOK /\ JoinedStarts /\ [Next]_vars => JoinedStarts'
  BY JoinedStartsInductive
<1>5. TypeOK /\ IInv /\ AttachedToOwn /\ RunningEntry /\ JoinedStarts /\ Disconnected /\ [Next]_vars
         => Disconnected'
  BY DisconnectedInductive
<1>6. Disconnected => IsolatedNetworkDeleted
  BY DEF Disconnected, IsolatedNetworkDeleted
<1>7. QED
  BY <1>1, <1>2, <1>3, <1>4, <1>5, <1>6, InvCorrect, TypeCorrect, PTL DEF Spec

=============================================================================
