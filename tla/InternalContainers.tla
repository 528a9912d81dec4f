------------------------- MODULE InternalContainers -------------------------
(***************************************************************************)
(* The registry of internally managed static containers                    *)
(* (src/src/static_container/internal.rs) and the tests of one test binary *)
(* that share it.                                                          *)
(*                                                                         *)
(* One RwLock guards the whole map.  create, disconnect and                *)
(* decrement_completion_counters each run under it from their first to     *)
(* their last access, and what they await there (daemon calls) touches     *)
(* only containers no other unlocked step touches, so each is one action.  *)
(* start holds the write lock while it waits for the container to become   *)
(* ready, so it is split in two and the lock is visible between.  The      *)
(* order in which waiters obtain the lock is left arbitrary.               *)
(*                                                                         *)
(* A daemon container id is abstracted to the pair (name, test that        *)
(* created it): a test creates a static name at most once.                 *)
(***************************************************************************)
EXTENDS Integers, FiniteSets, Sequences

CONSTANTS
    Tests,           \* the DockerTest instances of the binary
    Names,           \* final names of internal static containers
    Uses,            \* Uses[t]: the names test t has a composition for
    Strict,          \* Strict[t]: its StartPolicy::Strict names, in order
    Networks,        \* docker networks
    NetworkOf,       \* NetworkOf[t]: the network of test t
    Isolated,        \* the tests that run with Network::Isolated
    CounterMax,      \* u8::MAX in the code
    OverflowChecks,  \* TRUE: u8 overflow panics (debug); FALSE: it wraps
    Faults,          \* the kinds of failure the environment may inject
    NoId             \* the None of Option<container id>

ASSUME TestsAssumption == IsFiniteSet(Tests) /\ NoId \notin Tests
ASSUME UsesAssumption == Uses \in [Tests -> SUBSET Names]
ASSUME StrictAssumption ==
    \A t \in Tests : \A i \in 1..Len(Strict[t]) : Strict[t][i] \in Uses[t]
ASSUME NetworkAssumption ==
    /\ NetworkOf \in [Tests -> Networks]
    /\ Isolated \subseteq Tests
    /\ \A t \in Isolated, u \in Tests : NetworkOf[u] = NetworkOf[t] => u = t
ASSUME CounterAssumption == CounterMax \in Nat \ {0} /\ OverflowChecks \in BOOLEAN

FaultKinds == {"create", "connect", "start", "wait", "panic", "disconnect",
               "remove", "keep", "ignite", "strict", "inspect"}

ASSUME FaultsAssumption == Faults \subseteq FaultKinds

VARIABLES
    \* The shared map, one entry per name.
    status,     \* the InternalStatus variant, "Absent" if there is no entry
    cid,        \* InternalStatus::container_id()
    counter,    \* completion_counter
    claims,     \* history: the tests counted and not yet discounted
    \* Each test's own engine.
    pc,         \* how far run_impl has come
    slot,       \* the test's composition of a name: Transitional and its task
    hid,        \* the id in its PendingContainer
    removing,   \* responsible_to_remove, still to be removed
    \* The docker daemon.
    daemon,     \* daemon[n][c]: state of the container of name n created by c
    attached,   \* attached[n][c]: the networks it is connected to
    deleted     \* the networks that have been removed

registry == <<status, cid, counter, claims>>
docker   == <<daemon, attached, deleted>>
vars     == <<registry, pc, slot, hid, removing, docker>>

Statuses == {"Absent", "Pending", "Operational", "Cleaned", "Failed"}
Phases   == {"ignite", "orbit", "body", "disconnect", "decrement", "remove",
             "done", "panicked"}
Slots    == {"idle", "failed", "pending", "spawned", "starting", "running",
             "error", "dropped"}
IdOrNone == Tests \cup {NoId}

TypeOK ==
    /\ status \in [Names -> Statuses]
    /\ cid \in [Names -> IdOrNone]
    /\ counter \in [Names -> 0..CounterMax]
    /\ claims \in [Names -> SUBSET Tests]
    /\ pc \in [Tests -> Phases]
    /\ slot \in [Tests -> [Names -> Slots]]
    /\ hid \in [Tests -> [Names -> IdOrNone]]
    /\ removing \in [Tests -> SUBSET (Names \X Tests)]
    /\ daemon \in [Names -> [Tests -> {"absent", "created", "running", "removed"}]]
    /\ attached \in [Names -> [Tests -> SUBSET Networks]]
    /\ deleted \in SUBSET Networks

Init ==
    /\ status = [n \in Names |-> "Absent"]
    /\ cid = [n \in Names |-> NoId]
    /\ counter = [n \in Names |-> 0]
    /\ claims = [n \in Names |-> {}]
    /\ pc = [t \in Tests |-> "ignite"]
    /\ slot = [t \in Tests |-> [n \in Names |-> "idle"]]
    /\ hid = [t \in Tests |-> [n \in Names |-> NoId]]
    /\ removing = [t \in Tests |-> {}]
    /\ daemon = [n \in Names |-> [c \in Tests |-> "absent"]]
    /\ attached = [n \in Names |-> [c \in Tests |-> {}]]
    /\ deleted = {}

-----------------------------------------------------------------------------
\* Helpers.

\* The write lock is held across an await only by a start that waits for
\* readiness.
Locked == \E t \in Tests, n \in Names : slot[t][n] = "starting"

\* The daemon keeps one container per name.
Exists(n, c) == daemon[n][c] \in {"created", "running"}
NameTaken(n) == \E c \in Tests : Exists(n, c)

\* Mutants: a test that joins is not counted, is counted twice, or is not
\* discounted.
IncrementedNot(c) == c
IncrementedTwice(c) == c + 2
DecrementedNot(c) == c

\* completion_counter arithmetic on a u8.
Incremented(c) == IF c = CounterMax THEN 0 ELSE c + 1
Decremented(c) == IF c = 0 THEN CounterMax ELSE c - 1
IncrementPanics(c) == OverflowChecks /\ c = CounterMax

\* Mutant: joining never connects.
AttachesNever(t) == FALSE

\* Only Network::Isolated connects a container that already exists.
AttachesOnJoin(t) == t \in Isolated

IsStrict(t, n) == \E i \in 1..Len(Strict[t]) : Strict[t][i] = n
Relaxed(t) == {n \in Uses[t] : ~IsStrict(t, n)}

SetSlot(t, n, s) == slot' = [slot EXCEPT ![t][n] = s]

\* The ids decommission leaves in the debris of test t, as the set of names
\* whose composition was created: to_cleanup contains hid[t][n] for those.
Debris(t) == {n \in Names : hid[t][n] # NoId}
InCleanup(t, n) == n \in Debris(t) /\ cid[n] = hid[t][n]

-----------------------------------------------------------------------------
\* InternalContainers::create, called from Engine::ignite.

\* No entry, or a Cleaned one, and the daemon refuses to create the container.
CreateRefused(t, n) ==
    /\ status[n] \in {"Absent", "Cleaned"}
    /\ NameTaken(n) \/ "create" \in Faults
    /\ status' = [status EXCEPT ![n] = "Failed"]
    /\ cid' = [cid EXCEPT ![n] = NoId]
    /\ counter' = [counter EXCEPT ![n] = 1]
    /\ claims' = [claims EXCEPT ![n] = {t}]
    /\ SetSlot(t, n, "failed")
    /\ UNCHANGED <<pc, hid, removing, docker>>

\* No entry, or a Cleaned one: create the container in this test's network
\* and insert it as Pending.  If the connect that follows fails, the entry
\* stays and the caller gets the error.
CreateFresh(t, n) ==
    /\ status[n] \in {"Absent", "Cleaned"}
    /\ ~NameTaken(n)
    /\ status' = [status EXCEPT ![n] = "Pending"]
    /\ cid' = [cid EXCEPT ![n] = t]
    /\ counter' = [counter EXCEPT ![n] = 1]
    /\ claims' = [claims EXCEPT ![n] = {t}]
    /\ daemon' = [daemon EXCEPT ![n][t] = "created"]
    /\ attached' = [attached EXCEPT ![n][t] = {NetworkOf[t]}]
    /\ \/ /\ SetSlot(t, n, "pending")
          /\ hid' = [hid EXCEPT ![t][n] = t]
       \/ /\ "connect" \in Faults
          /\ SetSlot(t, n, "failed")
          /\ UNCHANGED hid
    /\ UNCHANGED <<pc, removing, deleted>>

\* Mutant: the join hands out the caller's id, not the one of the entry.
JoinLiveOwnId(t, n) ==
    /\ status[n] \in {"Pending", "Operational"}
    /\ ~IncrementPanics(counter[n])
    /\ counter' = [counter EXCEPT ![n] = Incremented(@)]
    /\ claims' = [claims EXCEPT ![n] = @ \cup {t}]
    /\ SetSlot(t, n, "pending")
    /\ hid' = [hid EXCEPT ![t][n] = t]
    /\ UNCHANGED <<status, cid, pc, removing, docker>>

\* Another test created the container: connect it to an isolated network,
\* count this test, hand out a clone of the PendingContainer.
JoinLive(t, n) ==
    /\ status[n] \in {"Pending", "Operational"}
    /\ attached' = IF AttachesOnJoin(t)
                   THEN [attached EXCEPT ![n][cid[n]] = @ \cup {NetworkOf[t]}]
                   ELSE attached
    /\ IF IncrementPanics(counter[n])
       THEN /\ pc' = [pc EXCEPT ![t] = "panicked"]
            /\ UNCHANGED <<counter, claims, slot, hid>>
       ELSE /\ counter' = [counter EXCEPT ![n] = Incremented(@)]
            /\ claims' = [claims EXCEPT ![n] = @ \cup {t}]
            /\ SetSlot(t, n, "pending")
            /\ hid' = [hid EXCEPT ![t][n] = cid[n]]
            /\ UNCHANGED pc
    /\ UNCHANGED <<status, cid, removing, daemon, deleted>>

\* The connect of a join fails: nothing has been counted.
JoinUnconnected(t, n) ==
    /\ status[n] \in {"Pending", "Operational"}
    /\ AttachesOnJoin(t) /\ "connect" \in Faults
    /\ SetSlot(t, n, "failed")
    /\ UNCHANGED <<registry, pc, hid, removing, docker>>

\* A failed container counts the test and returns the stored error.
JoinFailed(t, n) ==
    /\ status[n] = "Failed"
    /\ IF IncrementPanics(counter[n])
       THEN /\ pc' = [pc EXCEPT ![t] = "panicked"]
            /\ UNCHANGED <<counter, claims, slot>>
       ELSE /\ counter' = [counter EXCEPT ![n] = Incremented(@)]
            /\ claims' = [claims EXCEPT ![n] = @ \cup {t}]
            /\ SetSlot(t, n, "failed")
            /\ UNCHANGED pc
    /\ UNCHANGED <<status, cid, hid, removing, docker>>

Create(t, n) ==
    /\ pc[t] = "ignite" /\ n \in Uses[t] /\ slot[t][n] = "idle"
    /\ ~Locked
    /\ \/ CreateRefused(t, n)
       \/ CreateFresh(t, n)
       \/ JoinLive(t, n)
       \/ JoinUnconnected(t, n)
       \/ JoinFailed(t, n)

-----------------------------------------------------------------------------
\* The engine phases around the registry.

AllCreated(t) == \A n \in Uses[t] : slot[t][n] # "idle"

\* Every create of the join_all succeeded: spawn the relaxed starts.
Ignited(t) ==
    /\ pc[t] = "ignite" /\ AllCreated(t)
    /\ \A n \in Uses[t] : slot[t][n] = "pending"
    /\ pc' = [pc EXCEPT ![t] = "orbit"]
    /\ slot' = [slot EXCEPT ![t] =
                  [n \in Names |-> IF n \in Relaxed(t) THEN "spawned" ELSE @[n]]]
    /\ UNCHANGED <<registry, hid, removing, docker>>

\* At least one create failed, of these or of another container of the test.
IgniteFails(t) ==
    /\ pc[t] = "ignite" /\ AllCreated(t)
    /\ "ignite" \in Faults \/ \E n \in Uses[t] : slot[t][n] = "failed"
    /\ pc' = [pc EXCEPT ![t] = "disconnect"]
    /\ UNCHANGED <<registry, slot, hid, removing, docker>>

\* A start future of test t for n may be polled: a spawned relaxed task at any
\* time, even after the test that spawned it has dropped its JoinHandle; the
\* strict ones one after the other.
Startable(t, n) ==
    \/ slot[t][n] = "spawned"
    \/ /\ pc[t] = "orbit" /\ slot[t][n] = "pending"
       /\ \E i \in 1..Len(Strict[t]) :
             /\ Strict[t][i] = n
             /\ \A j \in 1..(i - 1) : slot[t][Strict[t][j]] = "running"

\* InternalContainers::start on a Pending entry: the daemon starts the
\* container, and the wait begins with the lock held.
StartBegins(t, n) ==
    /\ Startable(t, n) /\ ~Locked
    /\ status[n] = "Pending"
    /\ attached[n][cid[n]] \cap deleted = {}
    /\ daemon' = [daemon EXCEPT ![n][cid[n]] = "running"]
    /\ SetSlot(t, n, "starting")
    /\ UNCHANGED <<registry, pc, hid, removing, attached, deleted>>

\* The status a failed start leaves, with the id of the caller's own container.
RecordFailure(t, n) ==
    /\ status' = [status EXCEPT ![n] = "Failed"]
    /\ cid' = [cid EXCEPT ![n] = hid[t][n]]
    /\ UNCHANGED <<counter, claims>>

\* The daemon refuses to start it: a network it belongs to is gone, it is
\* already running, or any other daemon error.
StartRefused(t, n) ==
    /\ Startable(t, n) /\ ~Locked
    /\ status[n] = "Pending"
    /\ \/ attached[n][cid[n]] \cap deleted # {}
       \/ daemon[n][cid[n]] = "running"
       \/ "start" \in Faults
    /\ RecordFailure(t, n)
    /\ SetSlot(t, n, "error")
    /\ UNCHANGED <<pc, hid, removing, docker>>

\* start on an entry another test has already decided.
StartDecided(t, n) ==
    /\ Startable(t, n) /\ ~Locked
    /\ status[n] # "Pending"
    /\ SetSlot(t, n, IF status[n] = "Operational" THEN "running" ELSE "error")
    /\ UNCHANGED <<registry, pc, hid, removing, docker>>

\* Mutant: a successful start does not store Operational.
WaitSucceedsUnrecorded(t, n) ==
    /\ slot[t][n] = "starting"
    /\ SetSlot(t, n, "running")
    /\ UNCHANGED <<registry, pc, hid, removing, docker>>

\* The WaitFor condition holds.
WaitSucceeds(t, n) ==
    /\ slot[t][n] = "starting"
    /\ status' = [status EXCEPT ![n] = "Operational"]
    /\ SetSlot(t, n, "running")
    /\ UNCHANGED <<cid, counter, claims, pc, hid, removing, docker>>

\* Mutant: a failed wait is not recorded and the start is tried again.
WaitFailsRetried(t, n) ==
    /\ slot[t][n] = "starting"
    /\ "wait" \in Faults
    /\ SetSlot(t, n, IF IsStrict(t, n) THEN "pending" ELSE "spawned")
    /\ UNCHANGED <<registry, pc, hid, removing, docker>>

\* The WaitFor condition returns an error.
WaitFails(t, n) ==
    /\ slot[t][n] = "starting"
    /\ "wait" \in Faults
    /\ RecordFailure(t, n)
    /\ SetSlot(t, n, "error")
    /\ UNCHANGED <<pc, hid, removing, docker>>

\* A panicking WaitFor releases the lock and leaves the entry Pending.  In a
\* spawned task it surfaces as a JoinError, in a strict start, which run_impl
\* polls itself while it is in orbit, it unwinds run_impl.
WaitPanics(t, n) ==
    /\ slot[t][n] = "starting"
    /\ "panic" \in Faults
    /\ IsStrict(t, n) => pc[t] = "orbit"
    /\ SetSlot(t, n, "error")
    /\ pc' = IF IsStrict(t, n) THEN [pc EXCEPT ![t] = "panicked"] ELSE pc
    /\ UNCHANGED <<registry, hid, removing, docker>>

\* A detached task dies with the runtime of its test.
DropTask(t, n) ==
    /\ pc[t] \in {"done", "panicked"}
    /\ slot[t][n] \in {"spawned", "starting"}
    /\ SetSlot(t, n, "dropped")
    /\ UNCHANGED <<registry, pc, hid, removing, docker>>

Start(t, n) ==
    \/ StartBegins(t, n)
    \/ StartRefused(t, n)
    \/ StartDecided(t, n)
    \/ WaitSucceeds(t, n)
    \/ WaitFails(t, n)
    \/ WaitPanics(t, n)
    \/ DropTask(t, n)

\* Mutant: the relaxed starts are not joined.
AllRunningStrict(t) == \A n \in Uses[t] : IsStrict(t, n) => slot[t][n] = "running"

AllRunning(t) == \A n \in Uses[t] : slot[t][n] = "running"

\* orbiting and inspect succeed: the test body runs.
Orbited(t) ==
    /\ pc[t] = "orbit" /\ AllRunning(t)
    /\ pc' = [pc EXCEPT ![t] = "body"]
    /\ UNCHANGED <<registry, slot, hid, removing, docker>>

\* The first strict error returns at once and detaches the relaxed tasks;
\* a relaxed error is seen when every start has been joined.
OrbitFails(t) ==
    /\ pc[t] = "orbit"
    /\ \/ \E n \in Uses[t] : IsStrict(t, n) /\ slot[t][n] = "error"
       \/ /\ \E n \in Uses[t] : slot[t][n] = "error"
          /\ \A n \in Uses[t] : slot[t][n] \in {"running", "error"}
       \/ /\ "strict" \in Faults
          /\ \A n \in Uses[t] : IsStrict(t, n) => slot[t][n] # "starting"
       \/ "inspect" \in Faults /\ AllRunning(t)
    /\ pc' = [pc EXCEPT ![t] = "disconnect"]
    /\ UNCHANGED <<registry, slot, hid, removing, docker>>

\* The body returns or panics: the registry does not care which.
BodyEnds(t) ==
    /\ pc[t] = "body"
    /\ pc' = [pc EXCEPT ![t] = "disconnect"]
    /\ UNCHANGED <<registry, slot, hid, removing, docker>>

-----------------------------------------------------------------------------
\* InternalContainers::cleanup, called from teardown.

\* Mutant: the disconnect is in the wrong arm of the match.
DisconnectsPending(t, n) == status[n] = "Pending" /\ InCleanup(t, n)

\* Only an Operational container is disconnected, from the test's network,
\* in every network mode.
DisconnectsFrom(t, n) == status[n] = "Operational" /\ InCleanup(t, n)

Disconnect(t) ==
    /\ pc[t] = "disconnect" /\ ~Locked
    /\ pc' = [pc EXCEPT ![t] = "decrement"]
    /\ \E failed \in SUBSET Names :
          /\ "disconnect" \in Faults \/ failed = {}
          /\ attached' = [n \in Names |-> [c \in Tests |->
                            IF DisconnectsFrom(t, n) /\ n \notin failed /\ c = cid[n]
                            THEN attached[n][c] \ {NetworkOf[t]}
                            ELSE attached[n][c]]]
    /\ UNCHANGED <<registry, slot, hid, removing, daemon, deleted>>

\* Mutants: the counter is tested before it is decremented, or not at all.
LastUserBefore(t, n) == InCleanup(t, n) /\ counter[n] = 0
LastUserAnyway(t, n) == InCleanup(t, n)

\* The names whose counter this test brings to zero.
LastUser(t, n) == InCleanup(t, n) /\ Decremented(counter[n]) = 0

Decrement(t) ==
    /\ pc[t] = "decrement" /\ ~Locked
    /\ pc' = [pc EXCEPT ![t] = "remove"]
    /\ counter' = [n \in Names |-> IF InCleanup(t, n) THEN Decremented(counter[n])
                                                     ELSE counter[n]]
    /\ claims' = [n \in Names |-> IF InCleanup(t, n) THEN claims[n] \ {t}
                                                    ELSE claims[n]]
    /\ status' = [n \in Names |-> IF LastUser(t, n) THEN "Cleaned" ELSE status[n]]
    /\ cid' = [n \in Names |-> IF LastUser(t, n) THEN NoId ELSE cid[n]]
    /\ removing' = [removing EXCEPT ![t] =
                      {id \in Names \X Tests :
                          LastUser(t, id[1]) /\ id[2] = cid[id[1]]}]
    /\ UNCHANGED <<slot, hid, docker>>

\* remove_container runs without the lock; its failure is only logged.
Remove(t, n, c) ==
    /\ pc[t] = "remove" /\ <<n, c>> \in removing[t]
    /\ removing' = [removing EXCEPT ![t] = @ \ {<<n, c>>}]
    /\ \/ /\ daemon' = [daemon EXCEPT ![n][c] = "removed"]
          /\ attached' = [attached EXCEPT ![n][c] = {}]
       \/ "remove" \in Faults /\ UNCHANGED <<daemon, attached>>
    /\ UNCHANGED <<registry, pc, slot, hid, deleted>>

\* The daemon refuses to delete a network a running container is connected to.
NetworkBusy(w) ==
    \E n \in Names, c \in Tests : daemon[n][c] = "running" /\ w \in attached[n][c]

\* A prune strategy that keeps what runs does not come here: fault "keep".
TeardownNetwork(t) ==
    /\ pc[t] = "remove" /\ removing[t] = {}
    /\ pc' = [pc EXCEPT ![t] = "done"]
    /\ \/ deleted' = IF t \in Isolated /\ ~NetworkBusy(NetworkOf[t])
                     THEN deleted \cup {NetworkOf[t]}
                     ELSE deleted
       \/ "keep" \in Faults /\ UNCHANGED deleted
    /\ UNCHANGED <<registry, slot, hid, removing, daemon, attached>>

-----------------------------------------------------------------------------
Ended(t) == pc[t] \in {"done", "panicked"}
TaskLeft == \E t \in Tests, n \in Names : slot[t][n] \in {"spawned", "starting"}

TestStep(t) ==
    \/ \E n \in Names : Create(t, n)
    \/ Ignited(t)
    \/ IgniteFails(t)
    \/ \E n \in Names : Start(t, n)
    \/ Orbited(t)
    \/ OrbitFails(t)
    \/ BodyEnds(t)
    \/ Disconnect(t)
    \/ Decrement(t)
    \/ \E n \in Names, c \in Tests : Remove(t, n, c)
    \/ TeardownNetwork(t)

\* Every test has ended and the binary is about to exit.
AllEnded == (\A t \in Tests : Ended(t)) /\ ~TaskLeft
Exit == AllEnded /\ UNCHANGED vars

Next == (\E t \in Tests : TestStep(t)) \/ Exit

Spec == Init /\ [][Next]_vars

\* Every test is a thread of its own whose runtime polls what is ready, the
\* test bodies and the WaitFor conditions return, the daemon answers.
FairSpec == Spec /\ \A t \in Tests : WF_vars(TestStep(t))

-----------------------------------------------------------------------------
\* Properties.

\* cleanup never takes a shared container away from a test that is still in its
\* body: however the tests' creates, starts, failures and cleanups interleave,
\* each container a running body uses has been started and is not removed
\* (containers that exit by themselves are in Runner and DynamicContainers).
BodyContainerAlive ==
    \A t \in Tests : pc[t] = "body" =>
        \A n \in Uses[t] : /\ hid[t][n] # NoId
                           /\ daemon[n][hid[t][n]] = "running"

\* Two bodies that use the same static name talk to one and the same container.
BodiesShareContainer ==
    \A t, u \in Tests : pc[t] = "body" /\ pc[u] = "body" =>
        \A n \in Uses[t] \cap Uses[u] : hid[t][n] = hid[u][n]

\* With overflow checks completion_counter is exactly the number of tests that
\* have been counted and not discounted, and an entry has users unless it is
\* absent or Cleaned, so that the decrement never underflows.
CounterExact ==
    OverflowChecks =>
        \A n \in Names : /\ counter[n] = Cardinality(claims[n])
                         /\ (claims[n] = {}) <=> (status[n] \in {"Absent", "Cleaned"})

\* Only the first test to reach start issues it: no start ever reaches a
\* container that has been started before.
StartedOnce ==
    [][\A t \in Tests, n \in Names :
          slot[t][n] # "starting" /\ slot'[t][n] = "starting"
             => daemon[n][cid[n]] = "created"]_vars

\* "Static containers have to be apart of all the test networks such that they
\* are reachable from all tests" (internal.rs:136): during a body every static
\* container it uses is connected to the network of the test.
ReachableFromBody ==
    \A t \in Tests : pc[t] = "body" =>
        \A n \in Uses[t] : NetworkOf[t] \in attached[n][hid[t][n]]

\* "The network will be deleted once the test body exits" (dockertest.rs:57):
\* no static container shared with other tests keeps the isolated network of a
\* test that got all its containers running.
IsolatedNetworkDeleted ==
    \A t \in Isolated : pc[t] = "done" /\ AllRunning(t) => NetworkOf[t] \in deleted

\* With a daemon that removes what it is told to, a container outlives the tests
\* only if some test was counted for it and could not discount itself: it
\* panicked, or the entry does not hold the id it was handed (it joined a Failed
\* entry, its connect failed, or a detached start stored an older id).
NothingLeaked ==
    AllEnded => \A n \in Names : NameTaken(n) =>
        \E t \in claims[n] : pc[t] = "panicked" \/ hid[t][n] # cid[n]

\* Whatever fails, every test ends: the lock is always released again.
EventuallyEnded == <>[]AllEnded

\* "The remaining tests should create the container again during container
\* creation" (internal.rs:45): a create that finds a Cleaned entry, with a
\* daemon that refuses nothing by itself, does not fail.
CleanedIsCreatedAgain ==
    [][\A n \in Names : status[n] = "Cleaned" => status'[n] # "Failed"]_status

-----------------------------------------------------------------------------
\* The registry implements SharedContainer: a container lives from its start to
\* its removal, and a test uses the ids it was handed while it is in its body.

Life == [n \in Names |-> [c \in Tests |->
            CASE daemon[n][c] = "running" -> "live"
              [] daemon[n][c] = "removed" -> "gone"
              [] OTHER -> "new"]]

Phase == [t \in Tests |-> CASE pc[t] \in {"ignite", "orbit"} -> "before"
                             [] pc[t] = "body" -> "using"
                             [] OTHER -> "after"]

Using == [t \in Tests |-> [n \in Names |->
             IF pc[t] = "body" /\ n \in Uses[t] THEN hid[t][n] ELSE NoId]]

Shared == INSTANCE SharedContainer
              WITH Users <- Tests, Needs <- Uses, Containers <- Tests,
                   None <- NoId, life <- Life, phase <- Phase, using <- Using

\* Whatever fails and however tests interleave, what they see of a static
\* container is what SharedContainer promises: one running container per name,
\* handed to every body, kept while a body has it, never run again after its
\* removal; and every body that has it lets go of it.
ImplementsShared == Shared!FairSpec

-----------------------------------------------------------------------------
\* The inductive invariant behind BodyContainerAlive.

\* The phases before a test's decrement, and the one that never gets there.
ClaimPhases == {"ignite", "orbit", "body", "disconnect", "decrement", "panicked"}

\* Test t has been counted for n and its cleanup has not discounted it yet.
Claimant(t, n) == hid[t][n] # NoId /\ pc[t] \in ClaimPhases

\* A claimant is in the count, and nobody is counted before its create.
ClaimsCounted ==
    \A t \in Tests, n \in Names :
        /\ Claimant(t, n) => t \in claims[n]
        /\ t \in claims[n] => slot[t][n] # "idle"

\* All claimants of a name hold the same container, and it exists.
ClaimsAgree ==
    \A n \in Names, t \in Tests : Claimant(t, n) =>
        /\ Exists(n, hid[t][n])
        /\ slot[t][n] = "running" => daemon[n][hid[t][n]] = "running"
        /\ \A u \in Tests : Claimant(u, n) => hid[u][n] = hid[t][n]

\* A live entry holds an existing container, the one its claimants hold.
LiveEntry ==
    \A n \in Names : status[n] \in {"Pending", "Operational"} =>
        /\ cid[n] # NoId
        /\ Exists(n, cid[n])
        /\ status[n] = "Operational" => daemon[n][cid[n]] = "running"
        /\ \A t \in Tests : Claimant(t, n) => hid[t][n] = cid[n]

\* An absent or Cleaned entry has no id.
NoEntry ==
    \A n \in Names : status[n] \in {"Absent", "Cleaned"} => cid[n] = NoId

\* A start that waits holds the lock alone, on a Pending entry that runs.
LockHeld ==
    \A t \in Tests, n \in Names : slot[t][n] = "starting" =>
        /\ status[n] = "Pending" /\ daemon[n][cid[n]] = "running"
        /\ \A u \in Tests, m \in Names : slot[u][m] = "starting" => u = t /\ m = n

\* What somebody is about to remove was created, belongs to no claimant and is
\* no longer handed out.
RemovalSafe ==
    \A t \in Tests, n \in Names, c \in Tests : <<n, c>> \in removing[t] =>
        /\ daemon[n][c] # "absent"
        /\ \A u \in Tests : Claimant(u, n) => hid[u][n] # c
        /\ status[n] \in {"Pending", "Operational"} => cid[n] # c

\* A composition that got past create holds an id, one that has not did not
\* create anything, and a body runs on started containers only.
SlotsHaveIds ==
    \A t \in Tests, n \in Names :
        /\ slot[t][n] \notin {"idle", "failed"} => hid[t][n] # NoId
        /\ slot[t][n] = "idle" => daemon[n][t] = "absent"
        /\ pc[t] = "body" /\ n \in Uses[t] => slot[t][n] = "running"

IInv ==
    /\ CounterExact
    /\ ClaimsCounted
    /\ ClaimsAgree
    /\ LiveEntry
    /\ NoEntry
    /\ LockHeld
    /\ RemovalSafe
    /\ SlotsHaveIds

-----------------------------------------------------------------------------
\* What NothingLeaked, IsolatedNetworkDeleted and StartedOnce rest on beside it.

\* The daemon keeps at most one container of a name.
OnePerName == \A n \in Names, c, d \in Tests : Exists(n, c) /\ Exists(n, d) => c = d

\* A container without an entry is about to be removed.
RemovalPending ==
    \A n \in Names, c \in Tests : Exists(n, c) =>
        \/ cid[n] # NoId
        \/ \E r \in Tests : pc[r] = "remove" /\ <<n, c>> \in removing[r]

\* Who is still counted after its cleanup was never handed the id of the entry.
Uncounted ==
    \A t \in Tests, n \in Names : pc[t] \in {"remove", "done"} /\ t \in claims[n] =>
        \/ hid[t][n] = NoId
        \/ status[n] = "Failed" /\ hid[t][n] # cid[n]

\* An isolated network is on the containers its test has been handed, until the
\* test disconnects them.
AttachedToOwn ==
    \A t \in Isolated, n \in Names, c \in Tests : NetworkOf[t] \in attached[n][c] =>
        /\ n \in Uses[t]
        /\ slot[t][n] # "idle" \/ pc[t] = "panicked"
        /\ hid[t][n] = c \/ slot[t][n] = "failed" \/ pc[t] = "panicked"
IsolatedReachable ==
    \A t \in Isolated, n \in Names :
        hid[t][n] # NoId /\ pc[t] \in {"ignite", "orbit", "body"} =>
            NetworkOf[t] \in attached[n][hid[t][n]]

\* A claimant that has its container running finds it Operational.
RunningEntry ==
    \A t \in Tests, n \in Names : Claimant(t, n) /\ slot[t][n] = "running" =>
        status[n] = "Operational" /\ cid[n] = hid[t][n]

\* Without strict starts no task outlives the phase that joins it.
JoinedStarts ==
    \A t \in Tests, n \in Names : slot[t][n] \in {"spawned", "starting"} =>
        pc[t] = "orbit" /\ n \in Uses[t]

\* What a test had running it has disconnected before it deletes its network.
Disconnected ==
    \A t \in Isolated : pc[t] \in {"decrement", "remove", "done"} /\ AllRunning(t) =>
        /\ \A n \in Names, c \in Tests : NetworkOf[t] \notin attached[n][c]
        /\ pc[t] = "done" => NetworkOf[t] \in deleted

\* A Pending entry that nobody waits for has not been started.
PendingNotStarted ==
    \A n \in Names : status[n] = "Pending" =>
        \/ daemon[n][cid[n]] = "created"
        \/ \E t \in Tests : slot[t][n] = "starting"

=============================================================================
