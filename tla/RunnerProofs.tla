---------------------------- MODULE RunnerProofs ----------------------------
(***************************************************************************)
(* Proofs about Runner: for any number of compositions of any kind, start  *)
(* policy and handle, the types are right, the teardown leaves nothing     *)
(* behind and gives every static container back.                           *)
(***************************************************************************)
EXTENDS Runner, TLAPS

\* What the removal of volumes rests on: the daemon does as it is told, and an
\* internal container that other tests may share has no volume of this test.
RemovalWorks == "remove" \notin Faults
VolumesPrivate ==
    Faults \cap {"shared", "connect"} # {} => \A i \in Comps : Kind[i] = "internal" => VolumesOf[i] = {}

-----------------------------------------------------------------------------
\* Types.

\* The initial state is well typed.
LEMMA InitType == Init => TypeOK
BY ConfigAssumption DEF Init, TypeOK, Phases, Transitional

\* Every step keeps the types.
LEMMA TypeInductive == TypeOK /\ [Next]_vars => TypeOK'
<1> SUFFICES ASSUME TypeOK, [Next]_vars PROVE TypeOK'
  OBVIOUS
<1> USE DEF TypeOK, Phases, Transitional, images, engine, statics, docker
<1>1. CASE Prepare
  BY <1>1 DEF Prepare, FailEarly
<1>2. CASE PullImages
  BY <1>2 DEF PullImages
<1>2f. ASSUME NEW i \in Comps, Fetch(i) PROVE TypeOK'
  <2>1. CASE CheckImage(i)
    BY <2>1 DEF CheckImage
  <2>2. CASE PullImage(i)
    BY <2>2 DEF PullImage, Repositories
  <2>3. CASE InspectImage(i)
    BY <2>3 DEF InspectImage
  <2>4. CASE FetchFails(i)
    BY <2>4 DEF FetchFails
  <2>5. QED
    BY <1>2f, <2>1, <2>2, <2>3, <2>4 DEF Fetch
<1>3. CASE ResolveNetwork
  BY <1>3 DEF ResolveNetwork
<1>4. CASE ResolveNetworkFails
  BY <1>4 DEF ResolveNetworkFails, FailEarly
<1>5. ASSUME NEW i \in Comps, Create(i) PROVE TypeOK'
  BY <1>5 DEF Create, CreateOwn, CreateJoined, IncludeExternal, Internal, Dynamic, CreateFails, CreateStray, Volumes
<1>6. CASE Ignited
  BY <1>6 DEF Ignited
<1>7. CASE IgniteFails
  BY <1>7 DEF IgniteFails, IgnitingDebris, StartupLogs
<1>8. ASSUME NEW i \in Comps, Start(i) PROVE TypeOK'
  BY <1>8 DEF Start, StartBegins, StartRefused, WaitReturns, WaitPanics, DropTask
<1>9. CASE Orbited
  BY <1>9 DEF Orbited, Started
<1>10. CASE OrbitFails
  BY <1>10 DEF OrbitFails, IgnitingDebris, StartupLogs
<1>11. CASE Inspected
  BY <1>11 DEF Inspected
<1>12. CASE InspectFails
  BY <1>12 DEF InspectFails, OrbitingDebris
<1>13. CASE BodyEnds
  BY <1>13 DEF BodyEnds, OrbitingDebris, BodyLogs
<1>13l. ASSUME NEW i \in Comps, HandleLog(i) PROVE TypeOK'
  BY <1>13l DEF HandleLog
<1>13h. CASE LogsHandled
  BY <1>13h DEF LogsHandled
<1>14. CASE StaticCleanup
  BY <1>14 DEF StaticCleanup
<1>15. CASE Prune
  BY <1>15 DEF Prune
<1>16. ASSUME NEW i \in Comps, StopOne(i) PROVE TypeOK'
  BY <1>16 DEF StopOne
<1>17. ASSUME NEW i \in Comps, RemoveOne(i) PROVE TypeOK'
  BY <1>17 DEF RemoveOne
<1>18. CASE TeardownNetwork
  BY <1>18 DEF TeardownNetwork
<1>19. CASE RemoveVolumes
  BY <1>19 DEF RemoveVolumes
<1>19e. ASSUME NEW i \in Comps, Exits(i) PROVE TypeOK'
  BY <1>19e DEF Exits, TypeOK
<1>19o. ASSUME NEW i \in Comps, Operate(i) PROVE TypeOK'
  BY <1>19o DEF Operate, TypeOK
<1>20. CASE UNCHANGED vars
  BY <1>20 DEF vars
<1>21. QED
  BY <1>1, <1>2, <1>2f, <1>3, <1>4, <1>5, <1>6, <1>7, <1>8, <1>9, <1>10, <1>11, <1>12, <1>13, <1>13l, <1>13h, <1>14, <1>15, <1>16, <1>17, <1>18, <1>19, <1>19e, <1>19o, <1>20
  DEF Next, Run, Done

\* Every variable of the runner, the engine and the daemon keeps its type.
THEOREM TypeCorrect == Spec => []TypeOK
<1>1. QED
  BY InitType, TypeInductive, PTL DEF Spec

-----------------------------------------------------------------------------
\* The static containers.

\* Nothing has been obtained in the initial state.
LEMMA InitHandBack == Init => HandBackInv
BY DEF Init, HandBackInv, NothingBeforeIgnite, ObtainedIsDebris, StaticHandedBack,
       Returned, Obtained

\* Every step keeps the way of a static container into the debris and from
\* there to the registries.
LEMMA HandBackInductive == TypeOK /\ HandBackInv /\ [Next]_vars => HandBackInv'
<1> SUFFICES ASSUME TypeOK, HandBackInv, [Next]_vars PROVE HandBackInv'
  OBVIOUS
<1> USE DEF HandBackInv, NothingBeforeIgnite, ObtainedIsDebris, StaticHandedBack,
            Returned, Obtained, Body, images, engine, statics, docker
<1>1. CASE Prepare
  BY <1>1 DEF Prepare, FailEarly
<1>2. CASE PullImages
  BY <1>2 DEF PullImages
<1>2f. ASSUME NEW i \in Comps, Fetch(i) PROVE HandBackInv'
  BY <1>2f DEF Fetch, CheckImage, PullImage, InspectImage, FetchFails
<1>3. CASE ResolveNetwork
  BY <1>3 DEF ResolveNetwork
<1>4. CASE ResolveNetworkFails
  BY <1>4 DEF ResolveNetworkFails, FailEarly
<1>5. ASSUME NEW i \in Comps, Create(i) PROVE HandBackInv'
  BY <1>5 DEF Create
<1>6. CASE Ignited
  BY <1>6 DEF Ignited
<1>7. CASE IgniteFails
  BY <1>7 DEF IgniteFails, IgnitingDebris
<1>8. ASSUME NEW i \in Comps, Start(i) PROVE HandBackInv'
  BY <1>8 DEF Start, StartBegins, StartRefused, WaitReturns, WaitPanics, DropTask, TypeOK
<1>9. CASE Orbited
  BY <1>9 DEF Orbited, Started, TypeOK
<1>10. CASE OrbitFails
  BY <1>10 DEF OrbitFails, IgnitingDebris
<1>11. CASE Inspected
  BY <1>11 DEF Inspected
<1>12. CASE InspectFails
  BY <1>12 DEF InspectFails, OrbitingDebris
<1>13. CASE BodyEnds
  BY <1>13 DEF BodyEnds, OrbitingDebris
<1>13l. ASSUME NEW i \in Comps, HandleLog(i) PROVE HandBackInv'
  BY <1>13l DEF HandleLog
<1>13h. CASE LogsHandled
  BY <1>13h DEF LogsHandled
<1>14. CASE StaticCleanup
  BY <1>14 DEF StaticCleanup
<1>15. CASE Prune
  BY <1>15 DEF Prune
<1>16. ASSUME NEW i \in Comps, StopOne(i) PROVE HandBackInv'
  BY <1>16 DEF StopOne
<1>17. ASSUME NEW i \in Comps, RemoveOne(i) PROVE HandBackInv'
  BY <1>17 DEF RemoveOne
<1>18. CASE TeardownNetwork
  BY <1>18 DEF TeardownNetwork
<1>19. CASE RemoveVolumes
  BY <1>19 DEF RemoveVolumes
<1>19e. ASSUME NEW i \in Comps, Exits(i) PROVE HandBackInv'
  BY <1>19e DEF Exits, TypeOK
<1>19o. ASSUME NEW i \in Comps, Operate(i) PROVE HandBackInv'
  BY <1>19o DEF Operate, TypeOK
<1>20. CASE UNCHANGED vars
  BY <1>20 DEF vars
<1>21. QED
  BY <1>1, <1>2, <1>2f, <1>3, <1>4, <1>5, <1>6, <1>7, <1>8, <1>9, <1>10, <1>11, <1>12, <1>13, <1>13l, <1>13h, <1>14, <1>15, <1>16, <1>17, <1>18, <1>19, <1>19e, <1>19o, <1>20
  DEF Next, Run, Done

\* The invariant holds on every behaviour.
THEOREM HandBackCorrect == Spec => []HandBackInv
<1>1. QED
  BY InitHandBack, TypeCorrect, HandBackInductive, PTL DEF Spec

\* Whichever path a run leaves by, short of unwinding, every static container
\* it got hold of has been given back to STATIC_CONTAINERS.cleanup.
THEOREM StaticHandedBackCorrect == Spec => []StaticHandedBack
<1>1. HandBackInv => StaticHandedBack
  BY DEF HandBackInv
<1>2. QED
  BY <1>1, HandBackCorrect, PTL

-----------------------------------------------------------------------------
\* The teardown.

\* Nothing is there to be torn down in the initial state.
LEMMA InitTeardown == Init => TeardownInv
BY InitHandBack DEF Init, TeardownInv, CreatedIsKept, RemovalComplete, NothingLeft,
                    Returned, Begun, Exists, Body

\* Every step keeps the invariant of the teardown.
LEMMA TeardownInductive ==
  ASSUME TypeOK, TeardownInv, [Next]_vars, RemovalWorks, VolumesPrivate
  PROVE  TeardownInv'
<1> DEFINE Rest == CreatedIsKept /\ RemovalComplete /\ NothingLeft
<1>0. HandBackInv'
  BY HandBackInductive DEF TeardownInv
<1> USE DEF TeardownInv, HandBackInv, NothingBeforeIgnite, ObtainedIsDebris,
            CreatedIsKept, RemovalComplete, NothingLeft, Returned, Removes,
            TestFailed, Begun, Exists, Obtained, Body, Internal, Dynamic, images, engine, statics, docker
<1>1. ASSUME Prepare PROVE Rest'
  BY <1>1 DEF Prepare, FailEarly
<1>2. ASSUME PullImages PROVE Rest'
  BY <1>2 DEF PullImages
<1>2f. ASSUME NEW i \in Comps, Fetch(i) PROVE Rest'
  BY <1>2f DEF Fetch, CheckImage, PullImage, InspectImage, FetchFails
<1>3. ASSUME ResolveNetwork PROVE Rest'
  BY <1>3 DEF ResolveNetwork
<1>4. ASSUME ResolveNetworkFails PROVE Rest'
  BY <1>4 DEF ResolveNetworkFails, FailEarly, RemovalWorks
<1>5. ASSUME NEW i \in Comps, Create(i) PROVE Rest'
  BY <1>5 DEF Create, CreateOwn, CreateJoined, IncludeExternal, Internal, Dynamic, CreateFails, CreateStray, TypeOK
<1>6. ASSUME Ignited PROVE Rest'
  BY <1>6 DEF Ignited
<1>7. ASSUME IgniteFails PROVE Rest'
  BY <1>7 DEF IgniteFails, IgnitingDebris
<1>8. ASSUME NEW i \in Comps, Start(i) PROVE Rest'
  BY <1>8 DEF Start, StartBegins, StartRefused, WaitReturns, WaitPanics, DropTask, TypeOK
<1>9. ASSUME Orbited PROVE Rest'
  BY <1>9 DEF Orbited, Started, TypeOK
<1>10. ASSUME OrbitFails PROVE Rest'
  BY <1>10 DEF OrbitFails, IgnitingDebris
<1>11. ASSUME Inspected PROVE Rest'
  BY <1>11 DEF Inspected
<1>12. ASSUME InspectFails PROVE Rest'
  BY <1>12 DEF InspectFails, OrbitingDebris
<1>13. ASSUME BodyEnds PROVE Rest'
  BY <1>13 DEF BodyEnds, OrbitingDebris
<1>13l. ASSUME NEW i \in Comps, HandleLog(i) PROVE Rest'
  BY <1>13l DEF HandleLog
<1>13h. ASSUME LogsHandled PROVE Rest'
  BY <1>13h DEF LogsHandled
<1>14. ASSUME StaticCleanup PROVE Rest'
  <2>1. PICK last \in SUBSET (debris \cap Internal) :
          /\ "shared" \in Faults \/ last = debris \cap Internal
          /\ ctr' = [i \in Comps |-> IF i \in last THEN "removed" ELSE ctr[i]]
    BY <1>14 DEF StaticCleanup
  <2>2. /\ pc = "static" /\ pc' = "prune"
        /\ UNCHANGED <<result, prune, kept, debris, todo, net, vols>>
    BY <1>14 DEF StaticCleanup
  <2>3. \A i \in Comps : /\ Exists(i)' => i \notin last /\ Exists(i)
                         /\ ctr'[i] = "prior" => ctr[i] = "prior"
    BY <2>1
  <2>4. \A i \in Comps \ Body : Exists(i) => \/ i \in Dynamic
                                             \/ i \in debris \cap Internal
                                             \/ i \in Internal /\ "connect" \in Faults
    BY <2>2, CompsAssumption DEF Kinds, Internal
  <2>5. \A i \in Comps \ Body : Exists(i)' => i \in Dynamic \/ VolumesOf[i] = {}
    BY <2>1, <2>3, <2>4 DEF VolumesPrivate, Internal
  <2>6. QED
    BY <2>2, <2>3, <2>5
<1>15. ASSUME Prune PROVE Rest'
  BY <1>15 DEF Prune, LeaveRunning, StopOnly
<1>16. ASSUME NEW i \in Comps, StopOne(i) PROVE Rest'
  BY <1>16 DEF StopOne, TypeOK
<1>17. ASSUME NEW i \in Comps, RemoveOne(i) PROVE Rest'
  BY <1>17 DEF RemoveOne, RemovalWorks, TypeOK
<1>18. ASSUME TeardownNetwork PROVE Rest'
  BY <1>18 DEF TeardownNetwork, NetworkBusy, RemovalWorks
<1>19. ASSUME RemoveVolumes PROVE Rest'
  BY <1>19 DEF RemoveVolumes, RemovalWorks
<1>19e. ASSUME NEW i \in Comps, Exits(i) PROVE Rest'
  BY <1>19e DEF Exits, TypeOK
<1>19o. ASSUME NEW i \in Comps, Operate(i) PROVE Rest'
  BY <1>19o DEF Operate, TypeOK
<1>20. ASSUME UNCHANGED vars PROVE Rest'
  BY <1>20 DEF vars
<1>21. QED
  BY <1>0, <1>1, <1>2, <1>2f, <1>3, <1>4, <1>5, <1>6, <1>7, <1>8, <1>9, <1>10, <1>11, <1>12, <1>13, <1>13l, <1>13h, <1>14, <1>15, <1>16, <1>17, <1>18, <1>19, <1>19e, <1>19o, <1>20
  DEF Next, Run, Done

\* At every moment of the teardown, what is left is still to be removed by it.
THEOREM TeardownCorrect ==
  RemovalWorks /\ VolumesPrivate => (Spec => []TeardownInv)
<1> SUFFICES ASSUME RemovalWorks, VolumesPrivate PROVE Spec => []TeardownInv
  OBVIOUS
<1>1. TypeOK /\ TeardownInv /\ [Next]_vars => TeardownInv'
  BY TeardownInductive
<1>2. QED
  BY InitTeardown, TypeCorrect, <1>1, PTL DEF Spec

\* However a run fails, and whatever starts it has detached, no container,
\* isolated network or volume of it is left once it has returned.
THEOREM NothingLeftCorrect ==
  RemovalWorks /\ VolumesPrivate => (Spec => []NothingLeft)
<1>1. TeardownInv => NothingLeft
  BY DEF TeardownInv
<1>2. QED
  BY <1>1, TeardownCorrect, PTL

-----------------------------------------------------------------------------
\* The images.

\* Every step of the pulls establishes what the next one relies on.
LEMMA ImagesInductive ==
  ASSUME TypeOK, ImagesInv, [Next]_vars
  PROVE  ImagesInv'
<1> USE DEF ImagesInv, images, engine, statics, docker
<1>1. ASSUME Prepare PROVE ImagesInv'
  BY <1>1 DEF Prepare, FailEarly
<1>2. ASSUME PullImages PROVE ImagesInv'
  BY <1>2 DEF PullImages
<1>2f. ASSUME NEW i \in Comps, Fetch(i) PROVE ImagesInv'
  <2>1. CASE CheckImage(i)
    <3>1. /\ FALSE \in should_pull(i) => ImageOf[i] \in present
          /\ TRUE \notin should_pull(i) /\ FALSE \notin should_pull(i) => MayLack(i)
      BY DEF should_pull, MayLack
    <3>2. /\ UNCHANGED <<pc, image, present>> /\ fetch[i] = "check" /\ pc = "pull"
          /\ \A j \in Comps \ {i} : fetch'[j] = fetch[j]
          /\ \/ fetch'[i] = "pull"
             \/ fetch'[i] = "inspect" /\ FALSE \in should_pull(i)
             \/ fetch'[i] = "done" /\ TRUE \notin should_pull(i) /\ FALSE \notin should_pull(i)
      BY <2>1 DEF CheckImage, TypeOK
    <3>3. QED
      BY <3>1, <3>2
  <2>2. CASE PullImage(i)
    <3>1. /\ UNCHANGED <<pc, image>> /\ pc = "pull" /\ present \subseteq present'
          /\ ImageOf[i] \in present' \/ "pull" \in Faults
          /\ \A j \in Comps : fetch'[j] = IF j = i THEN "inspect" ELSE fetch[j]
      BY <2>2 DEF PullImage, TypeOK
    <3>2. QED
      BY <3>1
  <2>3. CASE InspectImage(i)
    <3>1. /\ UNCHANGED <<pc, present>> /\ pc = "pull" /\ fetch[i] = "inspect"
          /\ image' = IF ImageOf[i] \in present THEN image \cup {i} ELSE image
          /\ \A j \in Comps : fetch'[j] = IF j = i THEN "done" ELSE fetch[j]
      BY <2>3 DEF InspectImage, TypeOK
    <3>2. QED
      BY <3>1 DEF MayLack
  <2>4. CASE FetchFails(i)
    <3>1. /\ UNCHANGED <<pc, image, present>> /\ pc = "pull" /\ MayLack(i)
          /\ \A j \in Comps : fetch'[j] = IF j = i THEN "done" ELSE fetch[j]
      BY <2>4 DEF FetchFails, MayLack, TypeOK
    <3>2. QED
      BY <3>1
  <2>5. QED
    BY <1>2f, <2>1, <2>2, <2>3, <2>4 DEF Fetch
<1>3. ASSUME ResolveNetwork PROVE ImagesInv'
  BY <1>3 DEF ResolveNetwork
<1>4. ASSUME ResolveNetworkFails PROVE ImagesInv'
  BY <1>4 DEF ResolveNetworkFails, FailEarly
<1>5. ASSUME NEW i \in Comps, Create(i) PROVE ImagesInv'
  BY <1>5 DEF Create, CreateOwn, CreateJoined, IncludeExternal, Internal, Dynamic, CreateFails, CreateStray
<1>6. ASSUME Ignited PROVE ImagesInv'
  BY <1>6 DEF Ignited
<1>7. ASSUME IgniteFails PROVE ImagesInv'
  BY <1>7 DEF IgniteFails, IgnitingDebris
<1>8. ASSUME NEW i \in Comps, Start(i) PROVE ImagesInv'
  BY <1>8 DEF Start, StartBegins, StartRefused, WaitReturns, WaitPanics, DropTask
<1>9. ASSUME Orbited PROVE ImagesInv'
  BY <1>9 DEF Orbited, Started
<1>10. ASSUME OrbitFails PROVE ImagesInv'
  BY <1>10 DEF OrbitFails, IgnitingDebris
<1>11. ASSUME Inspected PROVE ImagesInv'
  BY <1>11 DEF Inspected
<1>12. ASSUME InspectFails PROVE ImagesInv'
  BY <1>12 DEF InspectFails, OrbitingDebris
<1>13. ASSUME BodyEnds PROVE ImagesInv'
  BY <1>13 DEF BodyEnds, OrbitingDebris
<1>13l. ASSUME NEW i \in Comps, HandleLog(i) PROVE ImagesInv'
  BY <1>13l DEF HandleLog
<1>13h. ASSUME LogsHandled PROVE ImagesInv'
  BY <1>13h DEF LogsHandled
<1>14. ASSUME StaticCleanup PROVE ImagesInv'
  BY <1>14 DEF StaticCleanup
<1>15. ASSUME Prune PROVE ImagesInv'
  BY <1>15 DEF Prune
<1>16. ASSUME NEW i \in Comps, StopOne(i) PROVE ImagesInv'
  BY <1>16 DEF StopOne
<1>17. ASSUME NEW i \in Comps, RemoveOne(i) PROVE ImagesInv'
  BY <1>17 DEF RemoveOne
<1>18. ASSUME TeardownNetwork PROVE ImagesInv'
  BY <1>18 DEF TeardownNetwork
<1>19. ASSUME RemoveVolumes PROVE ImagesInv'
  BY <1>19 DEF RemoveVolumes
<1>19e. ASSUME NEW i \in Comps, Exits(i) PROVE ImagesInv'
  BY <1>19e DEF Exits, TypeOK
<1>19o. ASSUME NEW i \in Comps, Operate(i) PROVE ImagesInv'
  BY <1>19o DEF Operate, TypeOK
<1>20. ASSUME UNCHANGED vars PROVE ImagesInv'
  BY <1>20 DEF vars
<1>21. QED
  BY <1>1, <1>2, <1>2f, <1>3, <1>4, <1>5, <1>6, <1>7, <1>8, <1>9, <1>10, <1>11, <1>12, <1>13, <1>13l, <1>13h, <1>14, <1>15, <1>16, <1>17, <1>18, <1>19, <1>19e, <1>19o, <1>20
  DEF Next, Run, Done

\* However the pulls interleave, a composition has an image id iff the daemon has
\* its image, save for the errors that are dropped and the images that come too
\* late, whatever the sources and policies are.
THEOREM ImagesResolvedCorrect == Spec => []ImagesResolved
<1>1. Init => ImagesInv
  BY DEF Init, ImagesInv
<1>2. TypeOK /\ ImagesInv /\ [Next]_vars => ImagesInv'
  BY ImagesInductive
<1>3. ImagesInv => ImagesResolved
  BY DEF ImagesInv, ImagesResolved
<1>4. QED
  BY <1>1, <1>2, <1>3, TypeCorrect, PTL DEF Spec

-----------------------------------------------------------------------------
\* The containers of the body.

\* Every step keeps what has been waited for until the teardown.
LEMMA StartsInductive ==
  ASSUME TypeOK, StartsInv, [Next]_vars
  PROVE  StartsInv'
<1> USE DEF StartsInv, Starting, Begun, images, engine, statics, docker
<1>1. ASSUME Prepare PROVE StartsInv'
  BY <1>1 DEF Prepare, FailEarly
<1>2. ASSUME PullImages PROVE StartsInv'
  BY <1>2 DEF PullImages
<1>2f. ASSUME NEW i \in Comps, Fetch(i) PROVE StartsInv'
  <2>1. UNCHANGED <<pc, kept, task, ctr, todo>>
    BY <1>2f DEF Fetch, CheckImage, PullImage, InspectImage, FetchFails
  <2>2. QED
    BY <2>1
<1>3. ASSUME ResolveNetwork PROVE StartsInv'
  BY <1>3 DEF ResolveNetwork
<1>4. ASSUME ResolveNetworkFails PROVE StartsInv'
  BY <1>4 DEF ResolveNetworkFails, FailEarly
<1>5. ASSUME NEW i \in Comps, Create(i) PROVE StartsInv'
  BY <1>5 DEF Create, CreateOwn, CreateJoined, IncludeExternal, Internal, Dynamic, CreateFails, CreateStray, TypeOK
<1>6. ASSUME Ignited PROVE StartsInv'
  BY <1>6 DEF Ignited, TypeOK
<1>7. ASSUME IgniteFails PROVE StartsInv'
  BY <1>7 DEF IgniteFails, IgnitingDebris
<1>8. ASSUME NEW i \in Comps, Start(i) PROVE StartsInv'
  BY <1>8
  DEF Start, StartBegins, StartRefused, WaitReturns, WaitPanics, DropTask, Startable, Strict, TypeOK
<1>9. ASSUME Orbited PROVE StartsInv'
  <2>1. /\ pc = "orbit" /\ pc' = "inspect" /\ StartOk /\ UNCHANGED <<task, ctr>>
        /\ \A j \in Comps : kept'[j] = Started(j)
    BY <1>9 DEF Orbited
  <2>2. \A j \in Comps : kept[j] \in {"Pending", "StaticExternal"}
    BY <2>1
  <2>3. \A j \in Comps : kept'[j] = "Running" \/ (kept'[j] = "StaticExternal" /\ kept[j] = "StaticExternal")
    BY <2>1, <2>2 DEF Started
  <2>4. \A j \in Comps : ctr[j] = "prior" \/ (kept'[j] = "Running" /\ task[j] = "ok")
    BY <2>1, <2>2 DEF Started, StartOk
  <2>5. ASSUME NEW j \in Comps, Handle[j] \notin lookup_collisions PROVE kept'[j] = "Running"
    <3>1. \A k \in 1..(j - 1) : k \in Comps /\ k # j
      BY CompsAssumption DEF Comps
    <3>2. \A k \in 1..(j - 1) : Handle[k] # Handle[j]
      BY <2>5, <3>1 DEF lookup_collisions
    <3>3. Externals(Handle[j]) \cap 1..(j - 1) = {}
      BY <3>2 DEF Externals
    <3>4. QED
      BY <2>1, <2>2, <3>3 DEF Started
  <2>6. QED
    BY <2>1, <2>3, <2>4, <2>5
<1>10. ASSUME OrbitFails PROVE StartsInv'
  BY <1>10 DEF OrbitFails, IgnitingDebris
<1>11. ASSUME Inspected PROVE StartsInv'
  BY <1>11 DEF Inspected
<1>12. ASSUME InspectFails PROVE StartsInv'
  BY <1>12 DEF InspectFails, OrbitingDebris
<1>13. ASSUME BodyEnds PROVE StartsInv'
  BY <1>13 DEF BodyEnds, OrbitingDebris
<1>13l. ASSUME NEW i \in Comps, HandleLog(i) PROVE StartsInv'
  BY <1>13l DEF HandleLog
<1>13h. ASSUME LogsHandled PROVE StartsInv'
  BY <1>13h DEF LogsHandled
<1>14. ASSUME StaticCleanup PROVE StartsInv'
  BY <1>14 DEF StaticCleanup, Internal, TypeOK
<1>15. ASSUME Prune PROVE StartsInv'
  BY <1>15 DEF Prune
<1>16. ASSUME NEW i \in Comps, StopOne(i) PROVE StartsInv'
  BY <1>16 DEF StopOne, TypeOK
<1>17. ASSUME NEW i \in Comps, RemoveOne(i) PROVE StartsInv'
  BY <1>17 DEF RemoveOne, Body, TypeOK
<1>18. ASSUME TeardownNetwork PROVE StartsInv'
  BY <1>18 DEF TeardownNetwork
<1>19. ASSUME RemoveVolumes PROVE StartsInv'
  BY <1>19 DEF RemoveVolumes
<1>19e. ASSUME NEW i \in Comps, Exits(i) PROVE StartsInv'
  BY <1>19e DEF Exits, TypeOK
<1>19o. ASSUME NEW i \in Comps, Operate(i) PROVE StartsInv'
  BY <1>19o DEF Operate, TypeOK
<1>20. ASSUME UNCHANGED vars PROVE StartsInv'
  BY <1>20 DEF vars
<1>21. QED
  BY <1>1, <1>2, <1>2f, <1>3, <1>4, <1>5, <1>6, <1>7, <1>8, <1>9, <1>10, <1>11, <1>12, <1>13, <1>13l, <1>13h, <1>14, <1>15, <1>16, <1>17, <1>18, <1>19, <1>19e, <1>19o, <1>20
  DEF Next, Run, Done

\* On every behaviour a start that has been waited for has a container nobody
\* has stopped or removed until the teardown begins.
THEOREM StartsCorrect == Spec => []StartsInv
<1>1. Init => StartsInv
  BY DEF Init, StartsInv, Starting
<1>2. TypeOK /\ StartsInv /\ [Next]_vars => StartsInv'
  BY StartsInductive
<1>3. QED
  BY <1>1, <1>2, TypeCorrect, PTL DEF Spec

\* In the body a handle that is no collision resolves to the container of its
\* own composition, which was there before or has been waited for and still
\* exists, for any vector of compositions and any handles.
THEOREM HandleResolvesCorrect == Spec => []HandleResolves
<1>1. TypeOK /\ StartsInv => HandleResolves
  <2> SUFFICES ASSUME TypeOK, StartsInv, pc = "body", NEW i \in Comps,
                      Handle[i] \notin lookup_collisions
               PROVE  /\ try_handle(Handle[i]) = {i}
                      /\ ctr[i] = "prior" \/ (task[i] = "ok" /\ Begun(i))
    BY DEF HandleResolves
  <2>1. kept[i] = "Running" /\ (ctr[i] = "prior" \/ (task[i] = "ok" /\ Begun(i)))
    BY DEF StartsInv
  <2>2. \A j \in Comps : Handle[j] = Handle[i] => j = i
    BY DEF lookup_collisions
  <2>3. \A j \in 1..(i - 1) : j \in Comps /\ j # i
    BY CompsAssumption DEF Comps
  <2>4. Resolves(Handle[i], i)
    BY <2>2, <2>3 DEF Resolves
  <2>5. \A j \in Comps : Resolves(Handle[i], j) => j = i
    BY <2>2 DEF Resolves
  <2>6. QED
    BY <2>1, <2>4, <2>5 DEF try_handle
<1>2. QED
  BY <1>1, StartsCorrect, TypeCorrect, PTL

-----------------------------------------------------------------------------
\* What a failed body leaves.

\* The named volumes belong to containers that the run creates itself.
VolumesOwn ==
    \A i \in Comps : /\ Kind[i] = "external" => VolumesOf[i] = {}
                     /\ Kind[i] = "internal" /\ "shared" \in Faults => VolumesOf[i] = {}
                     /\ Kind[i] = "dynamic" /\ Faults \cap {"shared", "prior"} # {} => VolumesOf[i] = {}

\* Every step keeps the containers and the volumes of a failed body as its
\* strategy asks.
LEMMA FailureInductive ==
  ASSUME VolumesOwn, TypeOK, HandBackInv, StartsInv, FailureInv, [Next]_vars
  PROVE  FailureInv'
<1> USE DEF FailureInv, KeptOnFailure, TestFailed, Starting, Obtained, Begun, Exists, Body,
            images, engine, statics, docker
<1>1. ASSUME Prepare PROVE FailureInv'
  BY <1>1 DEF Prepare, FailEarly
<1>2. ASSUME PullImages PROVE FailureInv'
  BY <1>2 DEF PullImages
<1>2f. ASSUME NEW i \in Comps, Fetch(i) PROVE FailureInv'
  BY <1>2f DEF Fetch, CheckImage, PullImage, InspectImage, FetchFails
<1>3. ASSUME ResolveNetwork PROVE FailureInv'
  BY <1>3 DEF ResolveNetwork
<1>4. ASSUME ResolveNetworkFails PROVE FailureInv'
  BY <1>4 DEF ResolveNetworkFails, FailEarly
<1>5. ASSUME NEW i \in Comps, Create(i) PROVE FailureInv'
  BY <1>5
  DEF Create, CreateOwn, CreateJoined, IncludeExternal, Internal, Dynamic, CreateFails, CreateStray, TypeOK, VolumesOwn
<1>6. ASSUME Ignited PROVE FailureInv'
  BY <1>6 DEF Ignited
<1>7. ASSUME IgniteFails PROVE FailureInv'
  BY <1>7 DEF IgniteFails, IgnitingDebris
<1>8. ASSUME NEW i \in Comps, Start(i) PROVE FailureInv'
  BY <1>8
  DEF Start, StartBegins, StartRefused, WaitReturns, WaitPanics, DropTask, Startable, Strict, TypeOK
<1>9. ASSUME Orbited PROVE FailureInv'
  BY <1>9 DEF Orbited, Started, StartsInv
<1>10. ASSUME OrbitFails PROVE FailureInv'
  BY <1>10 DEF OrbitFails, IgnitingDebris
<1>11. ASSUME Inspected PROVE FailureInv'
  BY <1>11 DEF Inspected
<1>12. ASSUME InspectFails PROVE FailureInv'
  BY <1>12 DEF InspectFails, OrbitingDebris
<1>13. ASSUME BodyEnds PROVE FailureInv'
  BY <1>13 DEF BodyEnds, OrbitingDebris, StartsInv
<1>13l. ASSUME NEW i \in Comps, HandleLog(i) PROVE FailureInv'
  BY <1>13l DEF HandleLog
<1>13h. ASSUME LogsHandled PROVE FailureInv'
  BY <1>13h DEF LogsHandled
<1>14. ASSUME StaticCleanup PROVE FailureInv'
  BY <1>14 DEF StaticCleanup, Internal
<1>15. ASSUME Prune PROVE FailureInv'
  BY <1>15 DEF Prune, LeaveRunning, StopOnly, TypeOK, PruneStrategy, Volumes
<1>16. ASSUME NEW i \in Comps, StopOne(i) PROVE FailureInv'
  BY <1>16 DEF StopOne, TypeOK
<1>17. ASSUME NEW i \in Comps, RemoveOne(i) PROVE FailureInv'
  BY <1>17 DEF RemoveOne, TypeOK
<1>18. ASSUME TeardownNetwork PROVE FailureInv'
  BY <1>18 DEF TeardownNetwork, TypeOK, Volumes
<1>19. ASSUME RemoveVolumes PROVE FailureInv'
  BY <1>19 DEF RemoveVolumes
<1>19e. ASSUME NEW i \in Comps, Exits(i) PROVE FailureInv'
  BY <1>19e DEF Exits, TypeOK
<1>19o. ASSUME NEW i \in Comps, Operate(i) PROVE FailureInv'
  BY <1>19o DEF Operate, TypeOK
<1>20. ASSUME UNCHANGED vars PROVE FailureInv'
  BY <1>20 DEF vars
<1>21. QED
  BY <1>1, <1>2, <1>2f, <1>3, <1>4, <1>5, <1>6, <1>7, <1>8, <1>9, <1>10, <1>11, <1>12, <1>13, <1>13l, <1>13h, <1>14, <1>15, <1>16, <1>17, <1>18, <1>19, <1>19e, <1>19o, <1>20
  DEF Next, Run, Done

\* A failed body leaves its containers running, or stopped, as the strategy
\* promises, and all its volumes, for any number of compositions.
THEOREM KeptOnFailureCorrect == VolumesOwn => (Spec => []KeptOnFailure)
<1> SUFFICES ASSUME VolumesOwn PROVE Spec => []KeptOnFailure
  OBVIOUS
<1>1. Init => FailureInv
  BY DEF Init, FailureInv, KeptOnFailure, TestFailed, Obtained
<1>2. TypeOK /\ HandBackInv /\ StartsInv /\ FailureInv /\ [Next]_vars => FailureInv'
  BY FailureInductive
<1>3. FailureInv => KeptOnFailure
  BY DEF FailureInv
<1>4. QED
  BY <1>1, <1>2, <1>3, HandBackCorrect, StartsCorrect, TypeCorrect, PTL DEF Spec

-----------------------------------------------------------------------------
\* The logs.

\* Every step keeps the strict starts in their order.
LEMMA StrictInductive ==
  ASSUME TypeOK, StartsInv, StrictInv, [Next]_vars
  PROVE  StrictInv'
<1>0. \A i, j \in Comps : i < j \/ i = j \/ j < i
  BY CompsAssumption DEF Comps
<1> USE DEF StrictInv, Strict, images, engine, statics, docker
<1>1. ASSUME Prepare PROVE StrictInv'
  BY <1>1 DEF Prepare, FailEarly, StartsInv, Starting
<1>2. ASSUME PullImages PROVE StrictInv'
  BY <1>2 DEF PullImages
<1>2f. ASSUME NEW i \in Comps, Fetch(i) PROVE StrictInv'
  <2>1. UNCHANGED <<pc, kept, task>>
    BY <1>2f DEF Fetch, CheckImage, PullImage, InspectImage, FetchFails
  <2>2. QED
    BY <2>1
<1>3. ASSUME ResolveNetwork PROVE StrictInv'
  BY <1>3 DEF ResolveNetwork
<1>4. ASSUME ResolveNetworkFails PROVE StrictInv'
  BY <1>4 DEF ResolveNetworkFails, FailEarly, StartsInv, Starting
<1>5. ASSUME NEW i \in Comps, Create(i) PROVE StrictInv'
  BY <1>5
  DEF Create, CreateOwn, CreateJoined, IncludeExternal, Internal, Dynamic, CreateFails, CreateStray, StartsInv, Starting
<1>6. ASSUME Ignited PROVE StrictInv'
  BY <1>6 DEF Ignited, StartsInv, Starting, TypeOK
<1>7. ASSUME IgniteFails PROVE StrictInv'
  BY <1>7 DEF IgniteFails, IgnitingDebris, StartsInv, Starting
<1>8. ASSUME NEW i \in Comps, Start(i) PROVE StrictInv'
  BY <1>8, <1>0
  DEF Start, StartBegins, StartRefused, WaitReturns, WaitPanics, DropTask, Startable, TypeOK
<1>9. ASSUME Orbited PROVE StrictInv'
  BY <1>9 DEF Orbited, Started, StartOk
<1>10. ASSUME OrbitFails PROVE StrictInv'
  BY <1>10, <1>0 DEF OrbitFails, IgnitingDebris, StartErr
<1>11. ASSUME Inspected PROVE StrictInv'
  BY <1>11 DEF Inspected
<1>12. ASSUME InspectFails PROVE StrictInv'
  BY <1>12 DEF InspectFails, OrbitingDebris
<1>13. ASSUME BodyEnds PROVE StrictInv'
  BY <1>13 DEF BodyEnds, OrbitingDebris
<1>13l. ASSUME NEW i \in Comps, HandleLog(i) PROVE StrictInv'
  BY <1>13l DEF HandleLog
<1>13h. ASSUME LogsHandled PROVE StrictInv'
  BY <1>13h DEF LogsHandled
<1>14. ASSUME StaticCleanup PROVE StrictInv'
  BY <1>14 DEF StaticCleanup
<1>15. ASSUME Prune PROVE StrictInv'
  BY <1>15 DEF Prune
<1>16. ASSUME NEW i \in Comps, StopOne(i) PROVE StrictInv'
  BY <1>16 DEF StopOne
<1>17. ASSUME NEW i \in Comps, RemoveOne(i) PROVE StrictInv'
  BY <1>17 DEF RemoveOne
<1>18. ASSUME TeardownNetwork PROVE StrictInv'
  BY <1>18 DEF TeardownNetwork
<1>19. ASSUME RemoveVolumes PROVE StrictInv'
  BY <1>19 DEF RemoveVolumes
<1>19e. ASSUME NEW i \in Comps, Exits(i) PROVE StrictInv'
  BY <1>19e DEF Exits, TypeOK
<1>19o. ASSUME NEW i \in Comps, Operate(i) PROVE StrictInv'
  BY <1>19o DEF Operate, TypeOK
<1>20. ASSUME UNCHANGED vars PROVE StrictInv'
  BY <1>20 DEF vars
<1>21. QED
  BY <1>1, <1>2, <1>2f, <1>3, <1>4, <1>5, <1>6, <1>7, <1>8, <1>9, <1>10, <1>11, <1>12, <1>13, <1>13l, <1>13h, <1>14, <1>15, <1>16, <1>17, <1>18, <1>19, <1>19e, <1>19o, <1>20
  DEF Next, Run, Done

\* Every step keeps the account of which logs have been handled and which are
\* due.
LEMMA LogInductive ==
  ASSUME TypeOK, HandBackInv, StartsInv, StrictInv, LogInv, [Next]_vars
  PROVE  LogInv'
<1> USE DEF LogInv, Starting, DueLogs, StartupLogs, BodyLogs, Unlogged,
            images, engine, statics, docker
<1>1. ASSUME Prepare PROVE LogInv'
  BY <1>1 DEF Prepare, FailEarly, HandBackInv, NothingBeforeIgnite
<1>2. ASSUME PullImages PROVE LogInv'
  BY <1>2 DEF PullImages
<1>2f. ASSUME NEW i \in Comps, Fetch(i) PROVE LogInv'
  <2>1. UNCHANGED <<pc, result, kept, logged, todo, debris, ctr>>
    BY <1>2f DEF Fetch, CheckImage, PullImage, InspectImage, FetchFails
  <2>2. QED
    BY <2>1
<1>3. ASSUME ResolveNetwork PROVE LogInv'
  BY <1>3 DEF ResolveNetwork
<1>4. ASSUME ResolveNetworkFails PROVE LogInv'
  BY <1>4 DEF ResolveNetworkFails, FailEarly, HandBackInv, NothingBeforeIgnite
<1>5. ASSUME NEW i \in Comps, Create(i) PROVE LogInv'
  BY <1>5 DEF Create, CreateOwn, CreateJoined, IncludeExternal, Internal, Dynamic, CreateFails, CreateStray, TypeOK
<1>6. ASSUME Ignited PROVE LogInv'
  BY <1>6 DEF Ignited
<1>7. ASSUME IgniteFails PROVE LogInv'
  BY <1>7 DEF IgniteFails, IgnitingDebris
<1>8. ASSUME NEW i \in Comps, Start(i) PROVE LogInv'
  BY <1>8
  DEF Start, StartBegins, StartRefused, WaitReturns, WaitPanics, DropTask, StrictInv, TypeOK
<1>9. ASSUME Orbited PROVE LogInv'
  <2>1. /\ pc = "orbit" /\ pc' = "inspect" /\ result = "none" /\ logged = {}
        /\ UNCHANGED <<result, logged, todo, debris, ctr>>
        /\ \A j \in Comps : kept'[j] = Started(j)
    BY <1>9 DEF Orbited
  <2>2. \A j \in Comps : kept'[j] # "Pending" /\ (kept'[j] = "Running" \/ kept'[j] = kept[j])
    BY <2>1 DEF Started
  <2>3. \A j \in debris : kept'[j] \in {"Pending", "Running", "StaticExternal"}
    BY <2>2 DEF TypeOK
  <2>4. QED
    BY <2>1, <2>2, <2>3
<1>10. ASSUME OrbitFails PROVE LogInv'
  BY <1>10 DEF OrbitFails, IgnitingDebris
<1>11. ASSUME Inspected PROVE LogInv'
  BY <1>11 DEF Inspected
<1>12. ASSUME InspectFails PROVE LogInv'
  BY <1>12 DEF InspectFails, OrbitingDebris
<1>13. ASSUME BodyEnds PROVE LogInv'
  BY <1>13 DEF BodyEnds, OrbitingDebris
<1>13l. ASSUME NEW i \in Comps, HandleLog(i) PROVE LogInv'
  BY <1>13l DEF HandleLog
<1>13h. ASSUME LogsHandled PROVE LogInv'
  BY <1>13h DEF LogsHandled
<1>14. ASSUME StaticCleanup PROVE LogInv'
  BY <1>14 DEF StaticCleanup, StartsInv, Internal, TypeOK
<1>15. ASSUME Prune PROVE LogInv'
  BY <1>15 DEF Prune
<1>16. ASSUME NEW i \in Comps, StopOne(i) PROVE LogInv'
  BY <1>16 DEF StopOne, StartsInv, Body, TypeOK
<1>17. ASSUME NEW i \in Comps, RemoveOne(i) PROVE LogInv'
  BY <1>17 DEF RemoveOne, StartsInv, Body, TypeOK
<1>18. ASSUME TeardownNetwork PROVE LogInv'
  BY <1>18 DEF TeardownNetwork
<1>19. ASSUME RemoveVolumes PROVE LogInv'
  BY <1>19 DEF RemoveVolumes
<1>19e. ASSUME NEW i \in Comps, Exits(i) PROVE LogInv'
  BY <1>19e DEF Exits, TypeOK
<1>19o. ASSUME NEW i \in Comps, Operate(i) PROVE LogInv'
  BY <1>19o DEF Operate, TypeOK
<1>20. ASSUME UNCHANGED vars PROVE LogInv'
  BY <1>20 DEF vars
<1>21. QED
  BY <1>1, <1>2, <1>2f, <1>3, <1>4, <1>5, <1>6, <1>7, <1>8, <1>9, <1>10, <1>11, <1>12, <1>13, <1>13l, <1>13h, <1>14, <1>15, <1>16, <1>17, <1>18, <1>19, <1>19e, <1>19o, <1>20
  DEF Next, Run, Done

\* No container is stopped or removed before its log has been handled as its
\* LogPolicy says, and no log is handled that the policy does not ask for, for
\* any number of compositions and on every path a run ends by.
THEOREM LogsAsPolicyCorrect == Spec => []LogsAsPolicy
<1>1. Init => StrictInv /\ LogInv
  BY DEF Init, StrictInv, LogInv, Starting
<1>2. TypeOK /\ StartsInv /\ StrictInv /\ [Next]_vars => StrictInv'
  BY StrictInductive
<1>3. TypeOK /\ HandBackInv /\ StartsInv /\ StrictInv /\ LogInv /\ [Next]_vars => LogInv'
  BY LogInductive
<1>4. TypeOK /\ LogInv => LogsAsPolicy
  <2> SUFFICES ASSUME TypeOK, LogInv PROVE LogsAsPolicy
    OBVIOUS
  <2>1. ASSUME NEW i \in Comps, ctr[i] \in {"stopped", "removed"}, i \notin logged
        PROVE  CASE kept[i] = "Pending" -> LogPolicy[i] = "None"
                 [] kept[i] = "Running" /\ result = "ok"    -> LogPolicy[i] # "Always"
                 [] kept[i] = "Running" /\ result = "panic" ->
                       LogPolicy[i] \notin {"Always", "OnError"}
                 [] OTHER -> result = "error"
    <3>1. /\ kept[i] \in {"Pending", "Running"}
          /\ \/ result \in {"ok", "error", "panic"} /\ logged = DueLogs
             \/ result = "error" /\ kept[i] # "Pending"
      BY <2>1 DEF LogInv, Unlogged
    <3>2. result \in {"ok", "panic"} => kept[i] = "Running"
      BY <3>1 DEF LogInv
    <3>3. QED
      BY <2>1, <3>1, <3>2 DEF DueLogs, StartupLogs, BodyLogs
  <2>2. ASSUME NEW i \in logged
        PROVE  /\ LogPolicy[i] = "OnError" => result # "ok"
               /\ LogPolicy[i] = "OnStartupError" => result = "error"
               /\ LogPolicy[i] # "None"
    <3>1. result \in {"ok", "error", "panic"} /\ i \in DueLogs
      BY <2>2 DEF LogInv, Unlogged, Starting, TypeOK, Phases
    <3>2. QED
      BY <3>1 DEF DueLogs, StartupLogs, BodyLogs
  <2>3. QED
    BY <2>1, <2>2 DEF LogsAsPolicy
<1>5. QED
  BY <1>1, <1>2, <1>3, <1>4, HandBackCorrect, StartsCorrect, TypeCorrect, PTL DEF Spec

=============================================================================
