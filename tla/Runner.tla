------------------------------- MODULE Runner -------------------------------
(***************************************************************************)
(* One DockerTest run: Runner::run_impl (src/src/runner.rs), the Engine it *)
(* drives (src/src/engine.rs) and the daemon calls they make.              *)
(*                                                                         *)
(* A composition is its index in Engine.kept.  run_impl is sequential, but *)
(* the creates of a join_all, the spawned starts of relaxed containers and *)
(* the removals of a join_all interleave, and a spawned start outlives the *)
(* phase that spawned it when a strict start fails first.                  *)
(*                                                                         *)
(* The registries of static containers are seen here only through what     *)
(* their create, start and cleanup return; InternalContainers models one.  *)
(***************************************************************************)
EXTENDS Integers, FiniteSets

CONSTANTS
    N,              \* number of compositions
    Kind,           \* Kind[i]: "body", or its StaticManagementPolicy
    Policy,         \* Policy[i]: StartPolicy
    Handle,         \* Handle[i]: Composition::handle
    Inject,         \* Inject[i]: the handles of its inject_container_name_env
    VolumesOf,      \* VolumesOf[i]: its named volumes
    LogPolicy,      \* LogPolicy[i]: of its LogOptions, "None" if it has none
    ImageOf,        \* ImageOf[i]: its image
    Source,         \* Source[i]: of the image, or the default source
    PullPolicy,     \* PullPolicy[i]: of the image
    Local,          \* the images the daemon has when the run begins
    Isolated,       \* TRUE: Network::Isolated, FALSE: Singular or External
    SelfContainer,  \* TRUE: the test binary runs in a container itself
    Strategies,     \* the values of DOCKERTEST_PRUNE considered
    Faults          \* the kinds of failure the environment may inject

Comps == 1..N
Kinds == {"body", "internal", "external", "dynamic"}
PruneStrategy == {"RunningRegardless", "RunningOnFailure", "StopOnFailure",
                  "RemoveRegardless"}
FaultKinds == {"pull", "auth", "network", "create", "connect", "start", "wait",
               "panic", "inspect", "shared", "prior", "exit", "operate", "remove"}
Policies == {"Always", "OnError", "OnStartupError", "None"}
Repositories == {ImageOf[i] : i \in Comps}
Volumes == UNION {VolumesOf[i] : i \in Comps}

ASSUME CompsAssumption ==
    /\ N \in Nat
    /\ Kind \in [Comps -> Kinds]
    /\ Policy \in [Comps -> {"Relaxed", "Strict"}]
ASSUME ImageAssumption ==
    /\ Source \in [Comps -> {"Local", "DockerHub", "Credentials", "DockerLogin"}]
    /\ PullPolicy \in [Comps -> {"Never", "Always", "IfNotPresent"}]
ASSUME LogAssumption == LogPolicy \in [Comps -> Policies]
ASSUME ConfigAssumption ==
    /\ Isolated \in BOOLEAN /\ SelfContainer \in BOOLEAN
    /\ Strategies \subseteq PruneStrategy
    /\ Faults \subseteq FaultKinds

VARIABLES
    pc,      \* the await run_impl is at
    result,  \* what it has found out about the test so far
    prune,   \* env_prune_strategy()
    image,   \* the compositions whose image has an id
    fetch,   \* how far pull_image of a composition has come
    present, \* the images the daemon has
    kept,    \* Engine.phase.kept, "Composition" before ignite
    task,    \* the start future of a composition
    logged,  \* the compositions whose log has been handled
    debris,  \* Debris.kept and Debris.external
    todo,    \* the futures of the teardown's join_all still to finish
    handed,  \* the compositions given to STATIC_CONTAINERS.cleanup
    linked,  \* those of them it left in the network of the test
    ctr,     \* the daemon's container of a composition
    net,     \* the isolated network
    vols     \* the named volumes that exist

images == <<image, fetch, present>>
engine == <<images, kept, task, logged>>
statics == <<handed, linked>>
docker == <<ctr, net, vols>>
vars == <<pc, result, prune, engine, debris, todo, statics, docker>>

Phases == {"prepare", "pull", "network", "ignite", "orbit", "inspect", "body",
           "logs", "static", "prune", "stop", "remove", "volumes", "ended"}
Transitional == {"Composition", "CreationFailure", "Pending", "StaticExternal",
                 "Running"}

TypeOK ==
    /\ pc \in Phases
    /\ result \in {"none", "ok", "error", "panic", "unwound"}
    /\ prune \in PruneStrategy
    /\ image \in SUBSET Comps
    /\ fetch \in [Comps -> {"check", "pull", "inspect", "done"}]
    /\ present \in SUBSET (Local \cup Repositories)
    /\ kept \in [Comps -> Transitional]
    /\ task \in [Comps -> {"none", "spawned", "waiting", "ok", "error", "panic",
                           "dropped"}]
    /\ logged \in SUBSET Comps
    /\ debris \in SUBSET Comps /\ todo \in SUBSET Comps
    /\ handed \in SUBSET Comps /\ linked \in SUBSET Comps
    /\ ctr \in [Comps -> {"absent", "prior", "created", "running", "paused",
                          "exited", "stopped", "removed"}]
    /\ net \in {"absent", "created", "deleted"}
    /\ vols \in SUBSET Volumes

Init ==
    /\ pc = "prepare" /\ result = "none"
    /\ prune \in Strategies
    /\ image = {} /\ present = Local
    /\ fetch = [i \in Comps |-> "check"]
    /\ kept = [i \in Comps |-> "Composition"]
    /\ task = [i \in Comps |-> "none"]
    /\ logged = {}
    /\ debris = {} /\ todo = {} /\ handed = {} /\ linked = {}
    /\ ctr = [i \in Comps |-> "absent"]
    /\ net = "absent"
    /\ vols = {}

-----------------------------------------------------------------------------
\* Helpers.

Body == {i \in Comps : Kind[i] = "body"}
Internal == {i \in Comps : Kind[i] = "internal"}
Dynamic == {i \in Comps : Kind[i] = "dynamic"}

\* The test, or another one it shares the container with, has started it and
\* nobody stops or removes it: it may have exited, as after an ExitedWait, or be
\* paused by the body.  A "prior" container was there before the tests.
Begun(i) == ctr[i] \in {"running", "paused", "exited"}
Exists(i) == Begun(i) \/ ctr[i] \in {"created", "stopped"}

\* The Keeper that bootstrap builds: the first composition of a handle is
\* looked up, a handle met again is a collision.
lookup_collisions == {h \in {Handle[i] : i \in Comps} :
                         \E i, j \in Comps : i # j /\ Handle[i] = h /\ Handle[j] = h}
Resolves(h, i) == Handle[i] = h /\ \A j \in 1..(i - 1) : Handle[j] # h

\* What DockerOperations::try_handle finds in the body, at most one container.
try_handle(h) ==
    {i \in Comps : h \notin lookup_collisions /\ Resolves(h, i) /\ kept[i] = "Running"}

\* run_impl returns Err through a `?`: there is no teardown.
FailEarly == pc' = "ended" /\ result' = "error"

-----------------------------------------------------------------------------
\* Up to the network.

\* resolve_named_volumes, bootstrap, resolve_final_container_name and
\* resolve_inject_container_name_env: nothing is created yet.
Prepare ==
    /\ pc = "prepare"
    /\ IF \A i \in Comps : \A h \in Inject[i] :
              h \notin lookup_collisions /\ \E j \in Comps : Resolves(h, j)
       THEN pc' = "pull" /\ UNCHANGED result
       ELSE FailEarly
    /\ UNCHANGED <<prune, engine, debris, todo, statics, docker>>

\* Mutant: the arms of IfNotPresent are swapped.
should_pullSwapped(i) ==
    LET exists == ImageOf[i] \in present
    IN  IF Source[i] = "Local" \/ PullPolicy[i] = "Never" THEN {b \in {FALSE} : exists}
        ELSE IF PullPolicy[i] = "Always" THEN {TRUE} ELSE {exists}

\* Image::should_pull and is_valid_pull_policy: the answer, or none if it is an
\* error.
should_pull(i) ==
    LET exists == ImageOf[i] \in present
    IN  IF Source[i] = "Local" \/ PullPolicy[i] = "Never" THEN {b \in {FALSE} : exists}
        ELSE IF PullPolicy[i] = "Always" THEN {TRUE} ELSE {~exists}

\* does_image_exist, the decision and resolve_auth, which only reads a
\* `docker login` that may be missing.
CheckImage(i) ==
    /\ pc = "pull" /\ fetch[i] = "check"
    /\ fetch' = [fetch EXCEPT ![i] = IF TRUE \in should_pull(i) THEN "pull"
                                     ELSE IF FALSE \in should_pull(i) THEN "inspect"
                                     ELSE "done"]
    /\ UNCHANGED <<pc, result, prune, image, present, kept, task, logged, debris, todo, statics, docker>>

\* do_pull: the stream may end without an error and without an image.
PullImage(i) ==
    /\ pc = "pull" /\ fetch[i] = "pull"
    /\ fetch' = [fetch EXCEPT ![i] = "inspect"]
    /\ \/ present' = present \cup {ImageOf[i]}
       \/ "pull" \in Faults /\ UNCHANGED present
    /\ UNCHANGED <<pc, result, prune, image, kept, task, logged, debris, todo, statics, docker>>

\* get_image_id, after which the image has its id.
InspectImage(i) ==
    /\ pc = "pull" /\ fetch[i] = "inspect"
    /\ fetch' = [fetch EXCEPT ![i] = "done"]
    /\ image' = IF ImageOf[i] \in present THEN image \cup {i} ELSE image
    /\ UNCHANGED <<pc, result, prune, present, kept, task, logged, debris, todo, statics, docker>>

\* The look-up, the credentials, the pull or the inspection fail.
FetchFails(i) ==
    /\ pc = "pull" /\ fetch[i] # "done"
    /\ "pull" \in Faults \/ ("auth" \in Faults /\ fetch[i] = "pull" /\ Source[i] = "DockerLogin")
    /\ fetch' = [fetch EXCEPT ![i] = "done"]
    /\ UNCHANGED <<pc, result, prune, image, present, kept, task, logged, debris, todo, statics, docker>>

Fetch(i) == CheckImage(i) \/ PullImage(i) \/ InspectImage(i) \/ FetchFails(i)

\* join_all of the pulls; their results are dropped.
PullImages ==
    /\ pc = "pull" /\ \A i \in Comps : fetch[i] = "done"
    /\ pc' = "network"
    /\ UNCHANGED <<result, prune, engine, debris, todo, statics, docker>>

ResolveNetwork ==
    /\ pc = "network"
    /\ IF Isolated THEN net' = "created" ELSE UNCHANGED net
    /\ pc' = "ignite"
    /\ UNCHANGED <<result, prune, engine, debris, todo, statics, ctr, vols>>

\* Creating the network fails, or connecting our own container to it does;
\* then it is removed again.
ResolveNetworkFails ==
    /\ pc = "network" /\ Isolated /\ "network" \in Faults
    /\ \/ UNCHANGED net
       \/ SelfContainer /\ net' = "deleted"
       \/ SelfContainer /\ "remove" \in Faults /\ net' = "created"
    /\ FailEarly
    /\ UNCHANGED <<prune, engine, debris, todo, statics, ctr, vols>>

-----------------------------------------------------------------------------
\* Engine::ignite.

\* The daemon creates the container and with it its named volumes.
CreateOwn(i) ==
    /\ Kind[i] # "external" /\ i \in image
    /\ kept' = [kept EXCEPT ![i] = "Pending"]
    /\ ctr' = [ctr EXCEPT ![i] = "created"]
    /\ vols' = vols \cup VolumesOf[i]

\* An internal or dynamic container that another test has created and perhaps
\* started.
CreateJoined(i) ==
    /\ i \in Internal \cup Dynamic /\ "shared" \in Faults
    /\ kept' = [kept EXCEPT ![i] = "Pending"]
    /\ \E s \in {"created", "running"} : ctr' = [ctr EXCEPT ![i] = s]
    /\ UNCHANGED vols

\* An external container, or a dynamic one that ran prior to the tests.
IncludeExternal(i) ==
    /\ Kind[i] = "external" \/ (i \in Dynamic /\ "prior" \in Faults)
    /\ kept' = [kept EXCEPT ![i] = "StaticExternal"]
    /\ ctr' = [ctr EXCEPT ![i] = "prior"]
    /\ UNCHANGED vols

CreateFails(i) ==
    /\ "create" \in Faults \/ (Kind[i] # "external" /\ i \notin image)
    /\ kept' = [kept EXCEPT ![i] = "CreationFailure"]
    /\ UNCHANGED <<ctr, vols>>

\* The registry creates the container and cannot connect it: the test gets the
\* error, the container stays, with an entry if it is an internal one.
CreateStray(i) ==
    /\ i \in Internal \cup Dynamic /\ i \in image /\ "connect" \in Faults
    /\ kept' = [kept EXCEPT ![i] = "CreationFailure"]
    /\ ctr' = [ctr EXCEPT ![i] = "created"]
    /\ vols' = vols \cup VolumesOf[i]

Create(i) ==
    /\ pc = "ignite" /\ kept[i] = "Composition"
    /\ \/ CreateOwn(i)
       \/ CreateJoined(i)
       \/ IncludeExternal(i)
       \/ CreateFails(i)
       \/ CreateStray(i)
    /\ UNCHANGED <<pc, result, prune, images, task, logged, debris, todo, statics, net>>

\* Mutants: only what runs is kept, or external containers are forgotten.
IgnitingDebrisRunning == {i \in Comps : kept[i] = "Running"}
IgnitingDebrisOwn == {i \in Comps : kept[i] \in {"Running", "Pending"}}

\* Engine<Igniting>::decommission keeps what has been created, whether it
\* runs or not.
IgnitingDebris == {i \in Comps : kept[i] \in {"Running", "Pending", "StaticExternal"}}

\* What handle_startup_logs handles: the policy is not asked.
StartupLogs == {i \in Comps : kept[i] \in {"Running", "Pending"} /\ LogPolicy[i] # "None"}

\* Every create succeeded: orbiting spawns the relaxed starts.
Ignited ==
    /\ pc = "ignite" /\ \A i \in Comps : kept[i] \in {"Pending", "StaticExternal"}
    /\ pc' = "orbit"
    /\ task' = [i \in Comps |->
                  IF kept[i] = "Pending" /\ Policy[i] = "Relaxed" THEN "spawned"
                                                                  ELSE "none"]
    /\ UNCHANGED <<result, prune, images, kept, logged, debris, todo, statics, docker>>

IgniteFails ==
    /\ pc = "ignite"
    /\ \A i \in Comps : kept[i] # "Composition"
    /\ \E i \in Comps : kept[i] = "CreationFailure"
    /\ debris' = IgnitingDebris
    /\ pc' = "logs" /\ result' = "error"
    /\ todo' = StartupLogs
    /\ UNCHANGED <<prune, engine, statics, docker>>

-----------------------------------------------------------------------------
\* PendingContainer::start of one composition, polled by its own task
\* (relaxed) or by run_impl (strict).

Strict == {i \in Comps : kept[i] = "Pending" /\ Policy[i] = "Strict"}

Startable(i) ==
    \/ task[i] = "spawned"
    \/ /\ pc = "orbit" /\ i \in Strict /\ task[i] = "none"
       /\ \A j \in Strict : j < i => task[j] = "ok"

\* Of a static container another test may have started it already.
StartBegins(i) ==
    /\ Startable(i) /\ (ctr[i] = "created" \/ Begun(i))
    /\ ctr' = [ctr EXCEPT ![i] = IF @ = "created" THEN "running" ELSE @]
    /\ task' = [task EXCEPT ![i] = "waiting"]
    /\ UNCHANGED <<pc, result, prune, images, kept, logged, debris, todo, statics, net, vols>>

\* The daemon refuses, for instance because the container has been removed.
StartRefused(i) ==
    /\ Startable(i) /\ ("start" \in Faults \/ ~Exists(i))
    /\ task' = [task EXCEPT ![i] = "error"]
    /\ UNCHANGED <<pc, result, prune, images, kept, logged, debris, todo, statics, docker>>

\* Mutant: a failed wait restarts the container, without limit.
WaitReturnsRestarts(i) ==
    /\ task[i] = "waiting"
    /\ \/ task' = [task EXCEPT ![i] = "ok"] /\ UNCHANGED ctr
       \/ /\ "wait" \in Faults /\ ctr[i] = "running"
          /\ task' = [task EXCEPT ![i] = IF Policy[i] = "Strict" THEN "none" ELSE "spawned"]
          /\ ctr' = [ctr EXCEPT ![i] = "created"]
    /\ UNCHANGED <<pc, result, prune, images, kept, logged, debris, todo, statics, net, vols>>

\* WaitFor::wait_for_ready returns; what it waits for may be that the container
\* exits, or may no longer come once it has.
WaitReturns(i) ==
    /\ task[i] = "waiting"
    /\ \/ task' = [task EXCEPT ![i] = "ok"]
       \/ /\ "wait" \in Faults \/ ctr[i] # "running"
          /\ task' = [task EXCEPT ![i] = "error"]
    /\ UNCHANGED <<pc, result, prune, images, kept, logged, debris, todo, statics, docker>>

\* It panics: in a spawned task that is a JoinError, in a strict start it
\* unwinds run_impl.
WaitPanics(i) ==
    /\ task[i] = "waiting" /\ "panic" \in Faults
    /\ task' = [task EXCEPT ![i] = "panic"]
    /\ IF Policy[i] = "Strict" THEN pc' = "ended" /\ result' = "unwound"
                               ELSE UNCHANGED <<pc, result>>
    /\ UNCHANGED <<prune, images, kept, logged, debris, todo, statics, docker>>

\* The runtime of DockerTest::run drops what is left when the test is over.
DropTask(i) ==
    /\ pc = "ended" /\ task[i] \in {"spawned", "waiting"}
    /\ task' = [task EXCEPT ![i] = "dropped"]
    /\ UNCHANGED <<pc, result, prune, images, kept, logged, debris, todo, statics, docker>>

\* The container exits by itself.
Exits(i) ==
    /\ "exit" \in Faults /\ ctr[i] = "running"
    /\ ctr' = [ctr EXCEPT ![i] = "exited"]
    /\ UNCHANGED <<pc, result, prune, engine, debris, todo, statics, net, vols>>

\* The body calls pause, unpause or kill of an OperationalContainer.
Operate(i) ==
    /\ pc = "body" /\ "operate" \in Faults /\ kept[i] = "Running"
    /\ \/ ctr[i] = "running" /\ ctr' = [ctr EXCEPT ![i] = "paused"]
       \/ ctr[i] = "paused" /\ ctr' = [ctr EXCEPT ![i] = "running"]
       \/ ctr[i] \in {"running", "paused"} /\ ctr' = [ctr EXCEPT ![i] = "exited"]
    /\ UNCHANGED <<pc, result, prune, engine, debris, todo, statics, net, vols>>

Start(i) ==
    \/ StartBegins(i)
    \/ StartRefused(i)
    \/ WaitReturns(i)
    \/ WaitPanics(i)
    \/ DropTask(i)

-----------------------------------------------------------------------------
\* Engine::orbiting and Engine::inspect.

\* Mutants: the strict containers are not put back, or an external one leaves
\* the Sentinel in its place.
StartedRelaxed(i) == IF Policy[i] = "Relaxed" THEN "Running" ELSE kept[i]
StartedSentinel(i) == IF kept[i] = "Pending" THEN "Running" ELSE "Sentinel"

\* The StaticExternal entries of a handle.
Externals(h) == {j \in Comps : kept[j] = "StaticExternal" /\ Handle[j] = h}

\* start_containers puts what has started at its place in kept: a Pending by
\* its id, a StaticExternal by its handle, which is looked for from the front,
\* once for each of the two registries that has it.
Started(i) ==
    LET before == Externals(Handle[i]) \cap 1..(i - 1)
        both   == \E j, k \in Externals(Handle[i]) : Kind[j] # Kind[k]
    IN  IF \/ kept[i] = "Pending"
           \/ kept[i] = "StaticExternal" /\ before = {}
           \/ kept[i] = "StaticExternal" /\ both /\ \E j \in before : before = {j}
        THEN "Running" ELSE kept[i]

StartOk == \A i \in Comps : kept[i] = "Pending" => task[i] = "ok"

Orbited ==
    /\ pc = "orbit" /\ StartOk
    /\ kept' = [i \in Comps |-> Started(i)]
    /\ pc' = "inspect"
    /\ UNCHANGED <<result, prune, images, task, logged, debris, todo, statics, docker>>

\* The first strict error returns at once and leaves the relaxed starts
\* detached; relaxed errors are gathered when all of them have been joined.
StartErr ==
    \/ \E i \in Strict : task[i] = "error"
    \/ /\ \A i \in Comps : kept[i] = "Pending" => task[i] \in {"ok", "error", "panic"}
       /\ \E i \in Comps : task[i] \in {"error", "panic"}

OrbitFails ==
    /\ pc = "orbit" /\ StartErr
    /\ debris' = IgnitingDebris
    /\ pc' = "logs" /\ result' = "error"
    /\ todo' = StartupLogs
    /\ UNCHANGED <<prune, engine, statics, docker>>

\* Mutant: static containers are forgotten when the body ends.
OrbitingDebrisBody == {i \in Body : kept[i] = "Running"}

\* Engine<Orbiting>::decommission only keeps what runs, or is external.
OrbitingDebris == {i \in Comps : kept[i] \in {"Running", "StaticExternal"}}

Inspected ==
    /\ pc = "inspect"
    /\ pc' = "body"
    /\ UNCHANGED <<result, prune, engine, debris, todo, statics, docker>>

\* The daemon cannot inspect one of the containers, or a host port does not
\* parse.
InspectRefused == "inspect" \in Faults

InspectFails ==
    /\ pc = "inspect" /\ InspectRefused
    /\ debris' = OrbitingDebris
    /\ pc' = "static" /\ result' = "error"
    /\ UNCHANGED <<prune, engine, todo, statics, docker>>

\* Mutant: handle_logs is not told whether the test failed.
BodyLogsUntold(failed) == {i \in Comps : kept[i] = "Running" /\ LogPolicy[i] = "Always"}

\* What handle_logs handles.
BodyLogs(failed) ==
    {i \in Comps : /\ kept[i] = "Running"
                   /\ LogPolicy[i] = "Always" \/ (LogPolicy[i] = "OnError" /\ failed)}

\* The spawned test body returns or panics.
BodyEnds ==
    /\ pc = "body"
    /\ result' \in {"ok", "panic"}
    /\ debris' = OrbitingDebris
    /\ pc' = "logs"
    /\ todo' = BodyLogs(result' = "panic")
    /\ UNCHANGED <<prune, engine, statics, docker>>

-----------------------------------------------------------------------------
\* handle_startup_logs and handle_logs, one container after the other, while
\* detached starts go on: CleanupContainer::handle_log takes one entry of the
\* stream, or waits five seconds for one, and its errors are only reported.

HandleLog(i) ==
    /\ pc = "logs" /\ i \in todo /\ \A j \in todo : i <= j
    /\ todo' = todo \ {i}
    /\ logged' = logged \cup {i}
    /\ UNCHANGED <<pc, result, prune, images, kept, task, debris, statics, docker>>

LogsHandled ==
    /\ pc = "logs" /\ todo = {}
    /\ pc' = "static"
    /\ UNCHANGED <<result, prune, engine, debris, todo, statics, docker>>

-----------------------------------------------------------------------------
\* Runner::teardown.

\* The argument of teardown: only a failed test body counts.
TestFailed == result = "panic"

\* What stays in the network of the test: a dynamic container, whose name is
\* looked up among ids, an internal one not known to be operational, or any
\* that the daemon does not disconnect.
StaysLinked(i) == i \in Dynamic \/ (i \in Internal /\ task[i] # "ok")

\* disconnect_static_containers, once no start holds the lock of a registry it
\* needs: an internal container that no other test uses is removed, the others
\* are disconnected.
StaticCleanup ==
    /\ pc = "static"
    /\ \A i \in Internal : task[i] # "waiting"
    /\ Isolated => \A i \in Dynamic : task[i] # "waiting"
    /\ handed' = debris \ Body
    /\ \E last \in SUBSET (debris \cap Internal) :
          /\ "shared" \in Faults \/ last = debris \cap Internal
          /\ ctr' = [i \in Comps |-> IF i \in last THEN "removed" ELSE ctr[i]]
          /\ linked' \in SUBSET {i \in (debris \ Body) \ last :
                                   StaysLinked(i) \/ "remove" \in Faults}
          /\ debris \cap Dynamic \subseteq linked'
    /\ pc' = "prune"
    /\ UNCHANGED <<result, prune, engine, debris, todo, net, vols>>

\* Mutant: the failure of the test is not looked at.
LeaveRunningNever == prune = "RunningRegardless"

LeaveRunning ==
    \/ prune = "RunningRegardless"
    \/ prune = "RunningOnFailure" /\ TestFailed

StopOnly == prune = "StopOnFailure" /\ TestFailed

\* Static containers are never stopped or removed here.
Prune ==
    /\ pc = "prune"
    /\ pc' = IF LeaveRunning THEN "ended" ELSE IF StopOnly THEN "stop" ELSE "remove"
    /\ todo' = IF LeaveRunning THEN {} ELSE debris \cap Body
    /\ UNCHANGED <<result, prune, engine, debris, statics, docker>>

\* The results of stop_container and remove_container are dropped.
StopOne(i) ==
    /\ pc = "stop" /\ i \in todo
    /\ todo' = todo \ {i}
    /\ \/ ctr' = [ctr EXCEPT ![i] = IF @ \in {"running", "paused"} THEN "stopped" ELSE @]
       \/ "remove" \in Faults /\ UNCHANGED ctr
    /\ UNCHANGED <<pc, result, prune, engine, debris, statics, net, vols>>

RemoveOne(i) ==
    /\ pc = "remove" /\ i \in todo
    /\ todo' = todo \ {i}
    /\ \/ ctr' = [ctr EXCEPT ![i] = "removed"]
       \/ "remove" \in Faults /\ UNCHANGED ctr
    /\ UNCHANGED <<pc, result, prune, engine, debris, statics, net, vols>>

\* The daemon keeps a network that a running container is connected to.
NetworkBusy == \E i \in Body \cup linked : ctr[i] \in {"prior", "running", "paused"}

TeardownNetwork ==
    /\ pc \in {"stop", "remove"} /\ todo = {}
    /\ \/ net' = IF net = "created" /\ ~NetworkBusy THEN "deleted" ELSE net
       \/ "remove" \in Faults /\ UNCHANGED net
    /\ pc' = IF pc = "stop" THEN "ended" ELSE "volumes"
    /\ UNCHANGED <<result, prune, engine, debris, todo, statics, ctr, vols>>

\* The daemon keeps a volume that a container uses.
RemoveVolumes ==
    /\ pc = "volumes"
    /\ \/ vols' = {v \in vols : \E i \in Comps : Exists(i) /\ v \in VolumesOf[i]}
       \/ "remove" \in Faults /\ UNCHANGED vols
    /\ pc' = "ended"
    /\ UNCHANGED <<result, prune, engine, debris, todo, statics, ctr, net>>

-----------------------------------------------------------------------------
TaskLeft == \E i \in Comps : task[i] \in {"spawned", "waiting"}
Done == pc = "ended" /\ ~TaskLeft /\ UNCHANGED vars

Run ==
    \/ Prepare
    \/ \E i \in Comps : Fetch(i)
    \/ PullImages
    \/ ResolveNetwork
    \/ ResolveNetworkFails
    \/ \E i \in Comps : Create(i)
    \/ Ignited
    \/ IgniteFails
    \/ Orbited
    \/ OrbitFails
    \/ Inspected
    \/ InspectFails
    \/ BodyEnds
    \/ \E i \in Comps : HandleLog(i)
    \/ LogsHandled
    \/ StaticCleanup
    \/ Prune
    \/ \E i \in Comps : StopOne(i) \/ RemoveOne(i)
    \/ TeardownNetwork
    \/ RemoveVolumes

Next ==
    \/ Run
    \/ \E i \in Comps : Start(i) \/ Exits(i) \/ Operate(i)
    \/ Done

Spec == Init /\ [][Next]_vars

\* The runtime polls whatever is ready, WaitFor conditions and the test body
\* return, the daemon answers.
FairSpec == Spec /\ WF_vars(Run) /\ \A i \in Comps : WF_vars(Start(i))
-----------------------------------------------------------------------------
\* Properties.

\* The run returned and the prune strategy asks for everything to be removed.
Removes == prune = "RemoveRegardless" \/ (prune # "RunningRegardless" /\ ~TestFailed)
Returned == pc = "ended" /\ result # "unwound"

\* teardown leaves nothing behind wherever run_impl failed: also when relaxed
\* starts it has detached are still running next to the removal and after it,
\* no container, isolated network or volume of the test is left, then or later.
\* Only a static container that outlives the test, dynamic or still used by
\* other tests, may hold the network, and only a dynamic one a volume.
NothingLeft ==
    Returned /\ Removes =>
        /\ \A i \in Body : ~Exists(i)
        /\ net = "created" => linked # {}
        /\ vols \subseteq UNION {VolumesOf[i] : i \in Dynamic}

\* "Ensure we cleanup static container regardless of prune strategy"
\* (runner.rs:343): every static container the run got hold of, on whichever
\* path it left ignite, orbiting or the body, is given back to the registries.
StaticHandedBack ==
    Returned => \A i \in Comps \ Body :
        kept[i] \in {"Pending", "Running", "StaticExternal"} => i \in handed

\* In the body each handle that is no collision resolves to the container of
\* its own composition, which was there before, or has been started, waited for
\* and not removed, though it may have exited or be paused: the kept vector
\* stays in the order the Keeper was built from.
HandleResolves ==
    pc = "body" => \A i \in Comps :
        \/ Handle[i] \in lookup_collisions
        \/ /\ try_handle(Handle[i]) = {i}
           /\ ctr[i] = "prior" \/ (task[i] = "ok" /\ Begun(i))

\* A failed body keeps what the strategy promises: containers nobody has stopped
\* for the running strategies, containers that still exist and, unless the daemon
\* fails to stop them, do not run for StopOnFailure, the volumes for both.
KeptOnFailure ==
    pc = "ended" /\ TestFailed /\ prune # "RemoveRegardless" =>
        /\ \A i \in Body :
              \/ prune # "StopOnFailure" /\ Begun(i)
              \/ prune = "StopOnFailure" /\ ctr[i] \in {"stopped", "exited"}
              \/ prune = "StopOnFailure" /\ "remove" \in Faults /\ Exists(i)
        /\ vols = Volumes

\* Wherever it fails, every run ends and so do the starts it has spawned:
\* nothing it awaits is left to a task that nobody polls.
EventuallyEnded == <>[](pc = "ended" /\ ~TaskLeft)

\* "Teardown each started container after test is terminated - both successfully
\* and on test failure" (README.md:12), a panicking WaitFor included.
TornDownAlways ==
    pc = "ended" /\ ~TaskLeft /\ prune = "RemoveRegardless" =>
        \A i \in Body : ~Exists(i)

\* No container is stopped or removed before its log has been handled as its
\* LogPolicy says, on whichever path the run ends, except that a failed
\* inspection handles none; and no log is handled without an error it is for.
LogsAsPolicy ==
    \A i \in Comps :
        /\ ctr[i] \in {"stopped", "removed"} /\ i \notin logged =>
              CASE kept[i] = "Pending" -> LogPolicy[i] = "None"
                [] kept[i] = "Running" /\ result = "ok"    -> LogPolicy[i] # "Always"
                [] kept[i] = "Running" /\ result = "panic" ->
                      LogPolicy[i] \notin {"Always", "OnError"}
                [] OTHER -> result = "error"
        /\ i \in logged => /\ LogPolicy[i] = "OnError" => result # "ok"
                           /\ LogPolicy[i] = "OnStartupError" => result = "error"
                           /\ LogPolicy[i] # "None"

\* The ways a composition ends up without an image id.
MayLack(i) ==
    \/ "pull" \in Faults
    \/ "auth" \in Faults /\ Source[i] = "DockerLogin"
    \/ /\ ImageOf[i] \notin Local
       /\ Source[i] = "Local" \/ PullPolicy[i] = "Never"

\* However the pulls of a join_all interleave, a composition has an image id iff
\* the daemon has its image, unless an error was dropped, or the image came by
\* another composition too late for one that must not pull it.
ImagesResolved ==
    pc \notin {"prepare", "pull", "ended"} => \A i \in Comps :
        /\ i \in image => ImageOf[i] \in present
        /\ i \in image \/ MayLack(i)

-----------------------------------------------------------------------------
\* The inductive invariants behind StaticHandedBack and NothingLeft.

Obtained(i) == kept[i] \in {"Pending", "Running", "StaticExternal"}

\* Before ignite nothing has been created.
NothingBeforeIgnite ==
    pc \in {"prepare", "pull", "network"} =>
        /\ \A i \in Comps : kept[i] = "Composition" /\ ctr[i] = "absent"
        /\ net = "absent" /\ vols = {}

\* What the run has obtained reaches the debris: nothing is still Pending in
\* Orbiting, whose decommission would drop it.  From the debris the static
\* containers reach the registries.
ObtainedIsDebris ==
    /\ pc \in {"inspect", "body"} => \A i \in Comps : kept[i] # "Pending"
    /\ pc \in {"logs", "static", "prune"} => \A i \in Comps : Obtained(i) => i \in debris
    /\ pc \in {"prune", "stop", "remove", "volumes"} =>
          \A i \in Comps \ Body : Obtained(i) => i \in handed

HandBackInv ==
    /\ NothingBeforeIgnite
    /\ ObtainedIsDebris
    /\ StaticHandedBack

\* What exists is held by the kept vector, save an internal or dynamic container
\* that could not be connected; no container of the test was there before it.
CreatedIsKept ==
    /\ \A i \in Comps : Exists(i) =>
          \/ Kind[i] # "external" /\ kept[i] \in {"Pending", "Running"}
          \/ i \in Internal \cup Dynamic /\ "connect" \in Faults
    /\ \A i \in Body : ctr[i] # "prior"

\* What the teardown has yet to remove in each of its steps; an internal
\* container that outlives the test keeps no volume of it.
RemovalComplete ==
    /\ pc = "stop" => ~Removes
    /\ pc = "remove" => \A i \in Body : Exists(i) => i \in todo
    /\ pc = "volumes" => /\ net = "created" => linked # {}
                         /\ \A i \in Body : ~Exists(i)
    /\ pc \in {"prune", "stop", "remove", "volumes"} =>
          \A i \in Comps \ Body : Exists(i) => i \in Dynamic \/ VolumesOf[i] = {}

TeardownInv ==
    /\ HandBackInv
    /\ CreatedIsKept
    /\ RemovalComplete
    /\ NothingLeft

-----------------------------------------------------------------------------
\* The inductive invariants behind ImagesResolved, HandleResolves,
\* KeptOnFailure and LogsAsPolicy.

\* What each step of pull_image has established when the next one begins.
ImagesInv ==
    /\ Local \subseteq present
    /\ pc \notin {"prepare", "pull", "ended"} => \A i \in Comps : fetch[i] = "done"
    /\ \A i \in Comps :
          /\ i \in image => ImageOf[i] \in present
          /\ fetch[i] = "inspect" => ImageOf[i] \in present \/ "pull" \in Faults
          /\ fetch[i] = "done" => i \in image \/ MayLack(i)

Starting == {"prepare", "pull", "network", "ignite"}

\* A start that has been waited for has a container nobody has stopped until the
\* teardown begins, and orbiting leaves every container of the test in that state.
StartsInv ==
    /\ pc \in Starting => \A i \in Comps : task[i] = "none"
    /\ pc = "orbit" => \A i \in Comps : kept[i] \in {"Pending", "StaticExternal"}
    /\ pc \in {"stop", "remove"} => todo \subseteq Body
    /\ \A i \in Comps :
          /\ kept[i] = "StaticExternal" => ctr[i] = "prior"
          /\ ctr[i] = "prior" => /\ Kind[i] \in {"external", "dynamic"}
                                 /\ kept[i] \in {"StaticExternal", "Running"}
                                 /\ task[i] = "none"
    /\ pc \in {"orbit", "inspect", "body", "logs", "static"} =>
          \A i \in Comps : task[i] \in {"waiting", "ok"} => Begun(i)
    /\ pc \in {"inspect", "body"} => \A i \in Comps :
          /\ ctr[i] = "prior" \/ (kept[i] = "Running" /\ task[i] = "ok")
          /\ kept[i] \in {"Running", "StaticExternal"}
          /\ Handle[i] \notin lookup_collisions => kept[i] = "Running"

\* The volumes of what the run has obtained exist until they are removed, and
\* the containers of a failed body stay as they are until somebody stops them.
FailureInv ==
    /\ pc = "ended" \/ \A i \in Comps : Obtained(i) => VolumesOf[i] \subseteq vols
    /\ pc \in {"remove", "volumes"} => ~TestFailed \/ prune = "RemoveRegardless"
    /\ TestFailed =>
          /\ pc \notin Starting \cup {"orbit", "inspect", "body"}
          /\ \A i \in Comps : Obtained(i)
          /\ \A i \in Body : task[i] = "ok" /\ kept[i] = "Running"
          /\ pc \in {"logs", "static", "prune"} => \A i \in Body : i \in debris /\ Begun(i)
          /\ pc = "stop" => /\ prune = "StopOnFailure"
                            /\ \A i \in Body : \/ i \in todo /\ Begun(i)
                                               \/ i \notin todo /\ ctr[i] \in {"stopped", "exited"}
                                               \/ "remove" \in Faults /\ Exists(i)
    /\ KeptOnFailure

\* The strict starts go one after the other, so none is under way when the
\* first of them fails.
StrictInv ==
    /\ \A i \in Comps : Policy[i] = "Strict" => task[i] # "spawned"
    /\ \A i \in Comps : Policy[i] = "Strict" /\ task[i] = "waiting" => pc = "orbit"
    /\ pc = "orbit" => /\ \A i, j \in Strict : j < i /\ task[i] # "none" => task[j] = "ok"
                       /\ \A i \in Comps : task[i] # "none" => kept[i] = "Pending"

\* The logs that handle_startup_logs or handle_logs takes on.
DueLogs == IF result = "error" THEN StartupLogs ELSE BodyLogs(result = "panic")

\* No teardown, or one after a failed inspection, which handles no log.
Unlogged == logged = {} /\ \A i \in Comps : kept[i] # "Pending"

\* The logs are handled between the last change of kept and the first stop.
LogInv ==
    /\ pc \in Starting \cup {"orbit", "inspect", "body"} => result = "none" /\ logged = {}
    /\ pc \in {"inspect", "body"} \/ result \in {"ok", "panic"} =>
          \A i \in Comps : kept[i] # "Pending"
    /\ pc = "logs" => result \in {"ok", "error", "panic"} /\ todo \cup logged = DueLogs
    /\ pc \in {"static", "prune", "stop", "remove", "volumes"} =>
          \/ result \in {"ok", "error", "panic"} /\ logged = DueLogs
          \/ result = "error" /\ Unlogged
    /\ pc = "ended" =>
          \/ result \in {"ok", "error", "panic"} /\ logged = DueLogs
          \/ result = "error" /\ Unlogged
          \/ result = "unwound" /\ logged = {} /\ \A i \in Comps : ctr[i] \notin {"stopped", "removed"}
    /\ pc \in {"stop", "remove"} => todo \subseteq debris \cap Body
    /\ \A i \in debris : kept[i] \in {"Pending", "Running", "StaticExternal"}
    /\ \A i \in Comps : ctr[i] \in {"stopped", "removed"} =>
          /\ kept[i] \in {"Pending", "Running"}
          /\ pc \in {"prune", "stop", "remove", "volumes", "ended"}

=============================================================================
