# A TLA+ model of dockertest-rs

dockertest-rs runs a Rust test against docker containers: it creates them, starts
them, waits until they are ready, runs the test body and tears everything down.
A test binary runs many such tests at once, each on its own thread with its own
tokio runtime, and they meet in process-wide registries of *static* containers.
This directory holds TLA+ modules translated from the code under `src/src/`, the
TLC configurations that check them and the TLAPS proofs about them.

Line references are to the files under `src/src/` unless a path says otherwise.

## 1. Inventory

| Component | State | Operations | Talks to |
|---|---|---|---|
| `runner.rs`, `dockertest.rs` | configuration of one test, its network name, `named_volumes`, prune strategy | `try_new`, `run_impl`, `resolve_network`, `resolve_named_volumes`, `teardown`, `teardown_network` | engine, docker client, `STATIC_CONTAINERS`, `SCOPED_NETWORKS` |
| `engine.rs` | `Keeper` (handle table), the `kept` vector of `Transitional`s, `Debris` | `bootstrap`, `pull_images`, `ignite`, `orbiting`, `inspect`, `decommission`, `resolve_handle`, `disconnect_static_containers` | docker client, container start |
| `static_container/internal.rs` | one `RwLock`ed map: status, ids and a `u8` `completion_counter` per name | `create`, `start`, `cleanup` (`disconnect`, `decrement_completion_counters`, removals) | docker client; called by every test |
| `static_container/dynamic.rs`, `docker/static_container.rs` | `RwLock`ed map of containers that outlive the binary | `create`, `start`, `disconnect` | as above |
| `static_container/external.rs` | `RwLock`ed map of containers the user manages | `include`, `containers`, `disconnect` | as above |
| `static_container/mod.rs` | the three registries, the process-wide singletons | `create`, `start`, `cleanup`, `external_containers` | the registries |
| `static_container/network.rs`, `docker/network.rs` | per namespace the singular network's id or its failure; daemon networks | `create_singular_network`, `create_network`, `delete_network`, connects | daemon |
| `container/*.rs` | `PendingContainer`, `OperationalContainer` (`assumed_state`), `CleanupContainer` | `start`, `pause`, `unpause`, `kill`, `handle_log` | docker client |
| `waitfor/*.rs` | timeouts, retry counts | `wait_for_ready` of each condition | daemon |
| `image.rs`, `docker/image.rs` | the retrieved image id | `pull_image`, `should_pull` | daemon |
| `composition.rs`, `specification.rs` | builder data | setters | - |

What is hard about it:

* **Sharing.** An internal static container is created by whichever test comes first,
  started by whichever reaches `start` first and removed by whichever discounts
  itself last. The entry is marked `Cleaned` under the lock, the container is removed
  without it. The lock is held while one container's `WaitFor` runs.
* **Partial failure.** Creation, start, `WaitFor`, inspection, disconnect, removal and
  the test body can each fail, with several containers at different stages. The
  debris has to hold what exists, on every path.
* **Detached work.** Relaxed starts are spawned; when a strict start fails their
  `JoinHandle`s are dropped and they run on beside the teardown and after it.
* **Order.** The network and the volumes can only go after the containers; `kept`
  must stay in the order the handle table indexes.
* **Check, then act, without a lock on the daemon.** Test binaries that know nothing of each
  other look up and create one network; a dynamic container is inspected and then
  removed or reused; clones of a container agree on a state before the daemon does.
* **Timers.** A timeout races the message it waits for; a poll may miss a state.
* **Counters.** `completion_counter` is a `u8` that panics or wraps, depending on the
  build.

What makes each component correct:

* registry of internal containers: a container is not taken from a running body,
  bodies that use one name see one container, the counter counts, nothing is started
  twice, and when all is over nothing is left;
* runner and engine: whatever fails, the run ends, its containers, network and volumes
  are gone (or kept, as the prune strategy says), static containers are given back,
  and a handle resolves to its own container;
* registries of dynamic and external containers: what is removed is what was inspected, a body
  keeps the container it was given, all starts have one result;
* networks: a body's containers are in its network, isolated networks are deleted, tests
  of one namespace share one singular network;
* wait conditions: they return, in time, and `Ok` only if the container is ready;
* container object: the assumed state is the real one whenever nobody is in a call, the
  host ports are those the daemon published;
* logs and images: a log is handled before its container goes and only for an error it
  is for; every composition whose image is there gets its id.

`PROJECT.json` lists the hazards with their lines and the properties that cover them.

## 2. Modules

| Module | What it is |
|---|---|
| `SharedContainer` | abstract: what a static container promises the tests that share it |
| `InternalContainers` | the internal registry, all tests of a binary that share it, and the daemon as far as they see it; implements `SharedContainer` |
| `DynamicContainers` | the dynamic and the external registry, likewise |
| `ScopedNetworks` | the singular networks, tests of several binaries |
| `Runner` | one `DockerTest` run: `run_impl`, the engine, images, logs, teardown |
| `OperationalContainer` | host ports, `pause`, `unpause`, `kill` on clones of one container object |
| `WaitFor` | one call of a wait condition, or of `assert_message` |
| `InternalContainersProofs`, `DynamicContainersProofs`, `ScopedNetworksProofs`, `RunnerProofs`, `OperationalContainerProofs`, `WaitForProofs` | theorems about them |
| `InternalCleanupProofs` | further theorems about `InternalContainers`: leaks, starts and isolated networks |
| `SharedContainerProofs` | `InternalContainers` implements `SharedContainer`, step by step |
| `MC...` | their instances for TLC |

How they meet. `Runner` lets `create`, `start` and `cleanup` of a static container have any outcome
`InternalContainers` and `DynamicContainers` can produce (created by us or by another test, found
running, created but not connected, started or refused, removed now or kept, disconnected or
not). A
wait that succeeds, fails or panics in the other modules is the outcome of a `WaitFor` call.
`OperationalContainer` begins where `Runner` inspects, with the expected state of a wait that
`WaitFor` shows to be right. `ScopedNetworks` is what `resolve_network` of `Runner` calls
without an isolated network.

### InternalContainers

The variables follow the code: `status`, `cid` and `counter` are the fields of an
`InternalContainer` in the map; `pc`, `slot` and `hid` are one test's position in
`run_impl`, the stage of each of its compositions and the id in its
`PendingContainer`; `removing` is what `decrement_completion_counters` returned and is
not yet removed; `daemon`, `attached` and `deleted` are docker. `claims` is a history
variable: which tests are in the count.

Atomicity follows the lock. `create`, `disconnect` and
`decrement_completion_counters` hold it throughout, so each is one action. `start` on
a `Pending` entry holds it while it waits for readiness, so it is two actions
(`StartBegins`, then `WaitSucceeds`, `WaitFails` or `WaitPanics`) and `Locked` blocks all
others in between. The removals run unlocked, one action each. The order in which
tokio's lock serves waiters is left open.

A container id is the pair (name, creating test), since a test creates a name at
most once. Restriction: a test has at most one composition per static name.

**Refinement.** `SharedContainer` knows no registry, counter or lock: a container is new, live or
gone, a user enters its body with the live container of each of its names, leaves it, and
nothing is retired that a user has. `Life`, `Phase` and `Using` map the daemon's containers, the
phases and the ids handed out to it, and `ImplementsShared` is its `FairSpec` under that mapping.

### DynamicContainers

`status` and `cid` are the entries of both maps (a name belongs to one of them) and `maker` is a
history variable, the test that made an entry. `setting` is the `Network` of each `DockerTest`: the
tests of a binary may differ in it, and be isolated, in the singular network of a namespace
or in an external one. `pc`, `slot` and `hid` are a test as before, `ctr`, `id` and `attached` what the
daemon has under a name, which may be a container from before (`Prior`), running, paused or
stopped. A container may exit, be paused and be unpaused at any time, and the user may start
one from before (`Outside`).

`create` asks the daemon under the lock, with a branch for each answer (`FoundRunning`,
`FoundOther`, `NotFound`, `CreateRefused`; `CreateJoin` for a name that has an entry). A container that
is found in any other state than running is removed by a second daemon call (`FoundOther`, then
`RemoveFound`), between which the container may change and the lock is held; `found` is the id
that was inspected. After the removal the code goes on to connect that id: the connect fails, so this create fails
and the next one may create. `start` is split at its wait; strict starts are awaited by
`run_impl`, one after the other, relaxed ones are spawned. `Cleanup` contains the disconnect of both
registries as written: the dynamic one looks up names among ids, so it disconnects nothing.
`TeardownNetwork` may be skipped, as two prune strategies do.

### ScopedNetworks

One map and one lock per binary (`singular`, `holder`), the daemon's networks (`exists`) and the
execution containers in them (`members`). A test keeps the lock over all its daemon calls, so
those are separate actions: look-up, creation, the 409 conflict, the look-up after it,
`add_self_to_network`. The daemon either enforces unique names or may create a second network
of a name (`unique`); networks may be pruned by others. A creation time is its place in
the order of the strings, which is arbitrary. The code panics if the network that
caused a conflict is gone when it is looked up (`ConflictGone`).

### Runner

`pc` is the await at which `run_impl` stands, `fetch`, `image` and `present` the pulls, `kept` the
engine's vector, `task` the start future of a composition, `logged` whose log was handled,
`debris` what `decommission` returned, `todo` the futures of the teardown's `join_all` not yet
finished, `handed` what `STATIC_CONTAINERS.cleanup` was given and `linked` which of it the registry
left in the test's network, `ctr`, `net` and `vols` docker. The pulls, the creates of `ignite`, the
relaxed starts and the removals interleave; the rest of `run_impl` is sequential. `?`-returns before
`ignite` end the run without teardown (`FailEarly`); a panic in a strict start ends it by
unwinding.

An image is checked, pulled and looked up in three actions per composition, so that two
compositions of one image interfere as they do in the code. Logs are handled in phase `logs`,
for the error at hand and as each `LogPolicy` says, before anything is removed; a failing
inspection skips it, as the code does.

A composition is its index. Two abstractions: handles are values, not strings, and
external compositions with one handle are one container. A dynamic composition is a kind of
its own: it is created, joined or found running from before (fault `prior`), is never removed and
always stays in an isolated network. A container may exit at any time (`Exits`), as one with an
`ExitedWait` does before the body begins, and the body may pause, unpause and kill its containers
(`Operate`); a wait on a container that no longer runs may fail. Containers from before the test
are the user's and stay as they are.

### OperationalContainer

`ports` is filled from `portmap` key by key in any order, since `try_from` iterates over a
`HashMap`. `assumed` is `assumed_state`; `goto_state` checks and sets it in one action (it holds
the mutex), the daemon carries the call out in another, in any order. A call may be refused,
fail, or be dropped by its caller, and the container may exit or, if nobody waited for it,
not be in its expected state: `disturbed` records that something of the kind has happened.

### WaitFor

`Begin`, `Inspect`, `Decide`, `Tick` and `GiveUp` are the polling loop, `Read`, `StreamEnds` and `Timeout` the
log stream; beside them the container comes up, writes and exits, the stream delivers with
delay, ends or breaks, and a clock in seconds advances. A timer fires at its time or later.
An entry of the log is what `take_while` can tell apart: from the source asked for or not,
with the message, without it, or no UTF-8. `tokio::time::timeout` polls the stream before its
timer, so `Timeout` needs a stream that is pending; tokio's cooperative budget, which may make
a stream of very many ready entries yield early, is left out, and so is a message split over
two frames.

### Faults

`Faults` is the set of failures the environment may inject. A fault is always an error
branch that exists in the code: a daemon call that returns `Err`, a `WaitFor` that
returns `Err` or panics, a stream that breaks, a caller that drops its future. Failures
that follow from the state (a name that is taken, a network that is gone, a container that was
removed) happen whatever `Faults` says.

## 3. What the runs check

Passing runs:

| Run | Instance | Shows |
|---|---|---|
| `internal_faults` | 3 tests, 1 name, one test isolated and strict, every fault but a failing removal, `CounterMax` 2; 233,939 states | `BodyContainerAlive`, `BodiesShareContainer`, `CounterExact`, `NothingLeaked` (what is left was left by a test that could not discount itself), the inductive invariant `IInv`, that every test ends, and `ImplementsShared` |
| `internal_isolated` | 3 tests, 1 name, each test in its own network, failing ignite, inspection and removal; 26,477 states | `ReachableFromBody`, `IsolatedNetworkDeleted`, `StartedOnce` |
| `dynamic` | 3 tests, a dynamic and an external name, each found running, paused, stopped or not; two assignments of networks (singular beside isolated; external beside another namespace), a strict start; every fault but a failing disconnect; 460,935 states | `RemovesWhatItInspected`, `BodyContainerKept`, `StartAgreed`, `ReachableFromBody`, `OnlyDynamicHoldNetwork`, `IInv`, and that every test ends |
| `networks` | 5 tests, 3 binaries, 2 namespaces, two binaries in one container, both kinds of daemon, every fault; 222,278 states | `SharedInBinary`, `SharedByName`, `RaceHarmless`, and that every test is answered |
| `runner_teardown` | a strict, a relaxed, an internal and a dynamic composition; containers that exit; every fault but a failing removal; two strategies; isolated network, binary in a container; 1,194,306 states | `NothingLeft`, `StaticHandedBack`, the inductive invariant `TeardownInv`, and that the run ends |
| `runner_prune` | 6 compositions with colliding handles, one container twice external and once dynamic and a shared image; containers that exit or that the body pauses and kills; all strategies, log and pull policies; removals that fail; 966,703 states | `KeptOnFailure`, `HandleResolves`, `LogsAsPolicy`, `ImagesResolved` |
| `operational` | 3 clones with 2 calls each, every fault, port maps with both protocols, IPv6, unpublished and malformed keys; 152,130 states | `AgreesAtRest`, `SomeCallAccepted`, `KillIsFinal`, `HostPortFaithful`, `IInv` |
| `waitfor` | every condition with 0, 1 and 3 checks, intervals 0, 1 and 2, timeouts 0 and 2; logs of 2 entries; 132,404 states | `OkMeansReady`, `PollVerdict`, `MessageVerdict`, and that every wait returns |

Bounds. Three tests are the fewest in which one leaves while a second uses and a third
joins the container, and in which a `u8` of `CounterMax` 2 overflows with a user to spare;
one name suffices because entries only interact through the lock. The runner
instances have one composition for each path through `ignite`, `orbiting` and `teardown`
(strict before relaxed, so that a detached start exists; a shared volume; every static kind in
one of the two). `dynamic` has a test that joins an entry of another network in either direction.
A create that the daemon refuses outright leaves nothing behind; the run leaves that fault out
and has the refused connects, which leave a container, for the failing creates. In `networks` two tests of one binary meet two of another and one of a third, so that
a conflict, a lost race and a test that comes after either occur together. `MaxCalls` 2
with three clones lets a pause and an unpause overlap with a kill; `MaxLog` 2 has a message
before and after an entry that cannot be read; `Horizon` 4 is past every timeout and the last
check of every poll in the instance (the module assumes so). The other modules are finite
without a bound: each test runs once.

Liveness. `FairSpec` assumes weak fairness of each test's next step; in `Runner` of `run_impl` and of
each start task separately; in `WaitFor` of the call and of the clock. The code
justifies it: each test has its own thread and runtime, which polls what is ready; tokio's
`RwLock` is fair, so a waiter gets the lock once it is released. It also assumes that the test
body and, outside `WaitFor`, the wait conditions return and that the daemon answers; dockertest
sets no timeout of its own around any of them, so a `WaitFor` of the user's that never returns
does block every other test at the lock. Nothing assumes that a failure does not happen, that
a container comes up, writes or exits, or that its log is delivered. `OperationalContainer`
states no fairness: nothing in it has to happen.

## 4. Where code and documentation disagree

Each is a run that TLC must find violated, on the smallest instance that shows it.

| Run | The text | What the code does |
|---|---|---|
| `find_disconnect` | "Static containers have to be apart of all the test networks such that they are reachable from all tests" (internal.rs:136) | `disconnect` (internal.rs:218) takes the container out of the network in every network mode: in a singular network the first test to end cuts it off from the other bodies |
| `find_recreate` | "The remaining tests should create the container again" (internal.rs:45) | between `Cleaned` and the unlocked removal (internal.rs:118-121) the name is taken; the create fails and the entry is `Failed` for good |
| `find_panic_leak` | "Teardown each started container ... both successfully and on test failure" (src/README.md:12) | a strict start is awaited by `run_impl` itself; a panic there skips the teardown |
| `find_dynamic_network` | "The network will be deleted once the test body exits" (dockertest.rs:57) | `disconnect` (dynamic.rs:166) looks the names that key the map up among container ids, so a dynamic container stays in the isolated network and the daemon keeps that |

`find_disconnect` and `internal_isolated` check the same `ReachableFromBody`: it holds with
isolated networks and fails with a shared one. `find_dynamic_network` checks the
`IsolatedNetworkDeleted` of `DynamicContainers`; `OnlyDynamicHoldNetwork` in `dynamic` says that nothing
else keeps a network.

Smaller disagreements the models contain as the code has them, without a run of their own:

* a test that joins a `Failed` entry is counted (internal.rs:157) but gets no id to discount
  itself with, so the container may stay, against internal.rs:52; `NothingLeaked` bounds this;
* a start detached by a strict failure finds the entry its own test has cleaned, which
  "should never occur" (internal.rs:101);
* failures before the body call `teardown(_, false)`, so `running_on_failure` keeps nothing for them,
  against lib.rs:81;
* a static container keeps the volumes of the test that created it, against lib.rs:75 ("remove
  all containers and created volumes");
* the polling waits sleep one interval after their last check (status.rs:71-88), so a state
  reached then is missed; `PollVerdict` states the window exactly;
* `handle_log` handles one entry where its comment speaks of the last received one
  (cleanup.rs:141);
* a failed inspection handles no log, whatever the `LogPolicy` (runner.rs:251);
* a test that is not isolated joins a container whose entry a test of another network has made,
  and nobody connects it to the network of the joining one (dynamic.rs:53-58, external.rs:27-29), against
  "responsible for adding it to the network" (docker/static_container.rs:79); `ReachableFromBody` states
  this exception. `InternalContainers` has the same line (internal.rs:146);
* a dynamic container that is not running is removed with force (docker/static_container.rs:58-64), one
  that is paused, or that the user starts between the inspection and the removal, included,
  although dockertest "will never attempt to terminate the container" (specification.rs:398), "does not
  remove it" (composition.rs:55) and manages it "for creation, but not deletion" (lib.rs:47);
  `RemovesWhatItInspected` says what is left: the container is the one that was inspected;
* a named volume of a dynamic container stays with it, against lib.rs:75 as well;
* two binaries in one execution container: the loser of the race for the network cannot
  connect it a second time and stores `Failed` (network.rs:80), the exception in `RaceHarmless`.

## 5. What is proved

All theorems hold for any number of tests, names, networks, binaries, compositions, clones and
calls, any start policies and any `Faults`, under the named `ASSUME`s of the modules and
nothing else unless stated.

**InternalContainersProofs**

* `TypeCorrect`: `Spec => []TypeOK`.
* `InvCorrect`, and from it `BodyContainerAliveCorrect`, `BodiesShareContainerCorrect`,
  `CounterExactCorrect` and `OnePerNameCorrect` (the daemon has at most one container of a name),
  under the hypothesis `OverflowChecks` (the debug build, in which tests usually run). The hypothesis is needed: with a wrapping counter the 256th
  user makes the count start again at zero, and the next test to leave removes the
  container under the others. TLC shows this with three tests, `CounterMax` 1 and
  `OverflowChecks` FALSE.

`BodyContainerAlive` is not inductive: nothing in it prevents a removal that is already
decided. `IInv` adds who may still use what. A *claimant* is a test that holds an id and
has not passed its decrement. Claimants are counted (`ClaimsCounted`), so a count that
reaches zero leaves no claimant (`CounterExact`, by the cardinality of `claims`); all
claimants of a name hold one existing container (`ClaimsAgree`), the one of the entry
while it is live (`LiveEntry`, `NoEntry`); what is about to be removed belongs to no
claimant and is not handed out any more (`RemovalSafe`); the waiting start holds the
lock alone (`LockHeld`); and a body runs only on started compositions (`SlotsHaveIds`). The
proof has one lemma per action and one step per conjunct it can disturb.

**SharedContainerProofs**

* `RefinesShared`: `OverflowChecks => (Spec => Shared!Spec)`. The mapping takes a container's state in
  the daemon to new, live or gone, and a test's position to before, using or after. A successful
  `StartBegins` is `Bring` (no other container of the name is live: `OnePerName`), `Orbited` is `Enter` (each
  container it holds runs: `IInv` after the step), the end of a body is
  `Leave`, a failed ignite or orbit is `Abandon`, a removal that works is `Retire` (`RemovalSafe`: no
  body has it); everything else stutters. The run's `ImplementsShared` adds the abstract
  specification's fairness, which is left to TLC.

**InternalCleanupProofs** (all with `OverflowChecks`)

* `NothingLeakedCorrect`, if removals work. A container has an entry or a removal pending
  (`RemovalPending`), and a test that is still counted after its cleanup was never handed the id
  of the entry (`Uncounted`): at the end only such a test keeps an entry.
* `StartedOnceCorrect`, if no `WaitFor` panics and no test has strict starts. A `Pending` entry
  that nobody waits for has not been started (`PendingNotStarted`). Both hypotheses are
  needed: a panic releases the lock and leaves a started container `Pending`, and so does a
  start that is dropped with its runtime after a strict failure has detached it.
* `IsolatedReachableCorrect`: whatever fails, an isolated test has each container it was handed
  in its network until it disconnects it; and `ReachableFromBodyCorrect`, if every test is isolated
  (`find_disconnect` shows that a shared network breaks it).
* `IsolatedNetworkDeletedCorrect`, if disconnects work, the prune strategy keeps no network
  (`NetworkWorks`) and no test has strict starts: a network is
  only on what its test was handed (`AttachedToOwn`), a claimant whose start succeeded finds
  the entry `Operational` (`RunningEntry`), which is the only status in which `disconnect` acts, and every
  start has been joined by then (`JoinedStarts`). With a strict start it fails: a detached start may make
  the entry `Operational` after its own test has skipped it in `disconnect`, and the container then
  runs on in that network.

**DynamicContainersProofs**

* `InvCorrect`, and from it `BodyContainerKeptCorrect`, `StartAgreedCorrect` and the action property
  `RemovesWhatItInspectedCorrect`.
* `ReachableFromBodyCorrect`, for any networks of the tests and any failures: an isolated test, and one
  that joins an entry of its own network, finds its containers there. For a test of another
  non-isolated network it is false, and the formula excepts that.
* `OnlyDynamicHoldNetworkCorrect`, if disconnects work (`"disconnect" \notin Faults`).

`IInv` says that an entry names the container the daemon has (`EntryCurrent`), that a test was
given the id of the entry (`HandedCurrent`), that the status remembers how a start came out
(`StartRecorded`), and that a pending removal or a waiting start holds the lock alone (`LockHeld`): what
was inspected is still what has the name when it is removed, and no second start overwrites
the recorded result. All branches of `create` are summarised once (`CreateEffect`): they leave an
entry alone or make one for what the daemon has. For the networks, `ConnectedInv` says that an
entry is connected to the network of its maker, unless that is isolated or the user's part,
and that what an isolated test was handed is in its network, which `CreateConnects` shows for
every branch, and `LaterEffect` that only the cleanup of an isolated test undoes one, its own. `HeldInv`
says that an external container is out of the network once its test has cleaned up, and that
what is live has an entry if it is in a network at all, so a network that is not deleted is
on a dynamic container.

**ScopedNetworksProofs**

* `SharedInBinaryCorrect`, `SharedByNameCorrect` and `RaceHarmlessCorrect`.

A test between its daemon calls holds its binary's lock and the map has no answer yet
(`LockHeld`), so an answer is stored once and is what everybody returns (`ReturnsEntry`). Across
binaries, every network in a map or a hand has the right name and exists unless pruned
(`AllProper`), and there is one per name if the daemon keeps names unique (`OnePerName`). Every step
of `create_singular_network` returns or goes on to the next call (`CallEffect`), and a return without
a network has one of four reasons (`Refused`). `RaceInv` explains each: a `Failed` entry and
a vanished network go back to a fault or a prune, and a container is only in a network that
a binary in it has in its map. The joining test's own map has none, so it was another binary in
the same container (`RefusedExplained`).

**RunnerProofs**

* `TypeCorrect`: `Spec => []TypeOK`.
* `StaticHandedBackCorrect`: whichever way a run returns, the static containers it got
  hold of are given back. `HandBackInv` follows a container through `kept`, `debris` and
  `handed`; the point is that nothing is `Pending` in `Orbiting`, whose `decommission`
  would drop it.
* `NothingLeftCorrect`: no container, isolated network or volume of the test is left, then
  or later, but the network and the volumes that a dynamic container holds, or the network if
  other tests still use an internal one, under `RemovalWorks` (the daemon does what it is told; removal errors are
  dropped by the code) and `VolumesPrivate` (an internal container, which may outlive the test, has no
  volume of it, see section 4). `TeardownInv` adds to
  `HandBackInv` that what exists is in `kept` and what each teardown step still has to
  remove (`TeardownCorrect`, under the same hypotheses). A detached start cannot bring a
  container back, because it can only start one that exists.
* `ImagesResolvedCorrect`: `ImagesInv` carries through the steps of `pull_image` that an image found or pulled
  is there, and that a composition left without an id has an excuse (`MayLack`).
* `HandleResolvesCorrect`, from `StartsCorrect`: a container whose start was waited for exists and has been stopped or
  removed by nobody until the teardown begins, though it may have exited or be paused, and
  everything is `Running` in `kept` when the body begins (`StartsInv`).
* `KeptOnFailureCorrect`, under `VolumesOwn` (only containers that the run creates itself have named volumes;
  a volume of one that another test created or that was there before does not exist for this
  run to keep). `FailureInv` follows containers and volumes through the teardown of a failed body.
* `LogsAsPolicyCorrect`: strict starts go one by one (`StrictInv`), so nothing changes in `kept`
  between the choice of the logs and the first stop, and at every stop the logs handled are
  exactly those due (`LogInv`).

**OperationalContainerProofs**

* `InvCorrect`, and from it `AgreesAtRestCorrect`, `SomeCallAcceptedCorrect`, `KillIsFinalCorrect`.
* `HostPortFaithfulCorrect`, for any port map and order of iteration: `PortsInv` is the property restricted to
  the keys read so far.

`Balance` counts: until something is disturbed, [assumed is Paused] plus the unpauses in flight
equals [the daemon's is Paused] plus the pauses in flight, and only a kill in flight, at most
one, makes the assumed state `Exited` before the daemon's. The proof is arithmetic on the
cardinalities of the sets of callers (`AwaitingChanges`).

**WaitForProofs**

* `TypeCorrect`, `OkMeansReadyCorrect`, `PollVerdictCorrect`, `MessageVerdictCorrect`.

What an inspection saw stays true (`SeenHolds`); the k-th check is made when it is due, and a
container not seen in its state got there after that check (`Paced`); while the log is read
nothing that was read decides (`NothingYet`); a stream that ends is complete
(`EndIsComplete`).

Every safety property and action property of the passing runs is stated by a theorem. Only
model-checked: the liveness properties (`EventuallyEnded`, `EventuallyAnswered`, `EventuallyReturns`) and
the fairness that `ImplementsShared` adds to `RefinesShared`; liveness under fairness is outside
the reach of this prover. Theorems with a hypothesis on `Faults` or on the constants say
what fails without it, here or in section 4; the runs that check the same property
satisfy it. The invariants the proofs rest on stand in the modules they are about, so that TLC
can check them too (add an `INVARIANT` line to the run's configuration), save the basic ones of
`ScopedNetworks` and `WaitFor`, which are in their proof modules.

## 6. What is not modelled

* `Composition`, `Specification` and `DockerTest` builders: plain data without state that another step
  reads. Handles, start, log and pull policies, volumes and injections are constants of `Runner`.
* Two compositions of one static name in one test: they count twice and are discounted
  once (the ids are a set), so the container stays. The registries' models give a
  test one composition per name.
* How requests are built, the address of a container, where a log entry is written, error
  values, random suffixes: no state another step reads.
* Crash recovery: nothing is persisted. A container left by an earlier binary appears only
  as a create that fails, or in `DynamicContainers` as `Prior`; a network as one that exists.
* How the docker client connects to the daemon.
* `ReachableFromBody` of `InternalContainers` is checked with isolated networks only (it fails in a
  shared one, section 4); that a non-isolated test may join an internal container of another
  network (internal.rs:146) has no property of its own there (see `DynamicContainers`).
* In `DynamicContainers` a name has one management policy for all tests, nobody but the tests removes or creates a
  container while they run, and the user starts only what was there before.
* Met in the code and not given a property: a container whose last current user leaves is removed
  and created again for the next test (internal.rs:241).

## 7. Plan

1. `InternalContainers` and `Runner` with their runs and first theorems: done.
2. `OperationalContainer`, `WaitFor`, `DynamicContainers` with the external registry, `ScopedNetworks`, images and
   logs in `Runner`: done, with theorems about each new module.
3. `SharedContainer` and the refinement: model-checked with its fairness, its steps proved.
4. Theorems for all safety properties of the passing runs: done.
5. Left: the fault hypotheses of `StartedOnceCorrect` and `IsolatedNetworkDeletedCorrect` could be narrowed
   from tests without strict starts to those that do not mix strict and relaxed ones, of which
   nothing is ever detached.

## 8. Running it

    tlc -config InternalFaults.cfg MCInternalContainers
    tlc -config Dynamic.cfg MCDynamicContainers
    tlapm InternalContainersProofs.tla

and likewise for the others; `PROJECT.json` names the module of each configuration and, for
every property, a mutated definition that breaks it; the mutants stand next to the
definitions they replace.
