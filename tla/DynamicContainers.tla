-------------------------- MODULE DynamicContainers --------------------------
(***************************************************************************)
(* The two registries of static containers that outlive the tests:         *)
(* DynamicContainers (src/src/static_container/dynamic.rs), which starts   *)
(* what it does not find, and ExternalContainers (external.rs), which only *)
(* includes what it finds, with the tests of one binary that share them.   *)
(*                                                                         *)
(* Each registry has one RwLock.  create, include and disconnect keep it   *)
(* from their first to their last access and are one action, except where  *)
(* somebody else can act on the container while the lock is held: between  *)
(* the inspection and the removal of one that does not run, and while a    *)
(* start waits for readiness.                                              *)
(*                                                                         *)
(* The daemon has at most one container per name; its id is that of the    *)
(* test that created it, or Prior for one that was there before.           *)
(***************************************************************************)
EXTENDS Integers, FiniteSets, Sequences

CONSTANTS
    Tests,    \* the DockerTest instances of the binary
    Names,    \* container names
    Dynamic,  \* the names with StaticManagementPolicy::Dynamic, else External
    Uses,     \* Uses[t]: the names test t has a composition for
    Strict,   \* Strict[t]: its StartPolicy::Strict names, in order
    Shared,   \* the singular networks, one per namespace, and the external ones
    Settings, \* the assignments of a Network to every test that are considered
    Faults,   \* the kinds of failure the environment may inject
    Prior,    \* the id of a container that existed before the binary
    NoId      \* no container

Ids == Tests \cup {Prior}
Networks == Tests \cup Shared    \* an isolated network is called as its test
NetworkModes == {"Singular", "External", "Isolated"}
FaultKinds == {"create", "connect", "start", "wait", "panic", "remove", "strict",
               "disconnect", "keep", "exit", "pause", "user"}

ASSUME IdsAssumption ==
    /\ NoId \notin Ids /\ Prior \notin Tests
    /\ Names \cap Ids = {}    \* a container id is a hash, never a name
ASSUME UsesAssumption == Dynamic \subseteq Names /\ Uses \in [Tests -> SUBSET Names]
ASSUME StrictAssumption ==
    \A t \in Tests : \A i \in 1..Len(Strict[t]) : Strict[t][i] \in Uses[t]
ASSUME SettingsAssumption ==
    /\ Shared \cap Tests = {}
    /\ Settings \subseteq [Tests -> [mode : NetworkModes, network : Networks]]
    /\ \A s \in Settings, t \in Tests :
          IF s[t].mode = "Isolated" THEN s[t].network = t ELSE s[t].network \in Shared
ASSUME FaultsAssumption == Faults \subseteq FaultKinds

VARIABLES
    setting,   \* setting[t]: DockerTest::network of t and the network it stands for
    \* The two maps, keyed by name.
    status,    \* the DynamicStatus variant, "Included" for an external entry
    cid,       \* the id in the entry
    maker,     \* history: the test that made the entry
    \* Each test's own engine.
    pc,        \* how far run_impl has come
    slot,      \* the test's composition of a name: Transitional and its task
    hid,       \* the id the test was given
    found,     \* the id its create has inspected and is about to remove
    \* The docker daemon.
    ctr,       \* ctr[n]: state of the container called n
    id,        \* id[n]: its id
    attached,  \* attached[n]: the networks it is connected to
    deleted    \* the networks that have been removed

registry == <<status, cid, maker>>
daemon   == <<ctr, id, attached, deleted>>
own      == <<hid, found>>
vars     == <<setting, registry, pc, slot, own, daemon>>

Statuses == {"Absent", "RunningPrior", "Pending", "Running", "Failed", "Included"}
Phases   == {"ignite", "orbit", "body", "cleanup", "network", "done", "kept",
             "panicked"}
Slots    == {"idle", "removing", "failed", "pending", "external", "spawned", "starting",
             "running", "error", "panicked", "dropped"}
States   == {"absent", "created", "running", "paused", "stopped"}

TypeOK ==
    /\ setting \in Settings
    /\ status \in [Names -> Statuses]
    /\ cid \in [Names -> Ids \cup {NoId}]
    /\ maker \in [Names -> Tests \cup {NoId}]
    /\ pc \in [Tests -> Phases]
    /\ slot \in [Tests -> [Names -> Slots]]
    /\ hid \in [Tests -> [Names -> Ids \cup {NoId}]]
    /\ found \in [Tests -> [Names -> Ids \cup {NoId}]]
    /\ ctr \in [Names -> States]
    /\ id \in [Names -> Ids \cup {NoId}]
    /\ attached \in [Names -> SUBSET Networks]
    /\ deleted \in SUBSET Networks

\* A name may belong to a container from before, in whichever state.
Init ==
    /\ setting \in Settings
    /\ status = [n \in Names |-> "Absent"]
    /\ cid = [n \in Names |-> NoId]
    /\ maker = [n \in Names |-> NoId]
    /\ pc = [t \in Tests |-> "ignite"]
    /\ slot = [t \in Tests |-> [n \in Names |-> "idle"]]
    /\ hid = [t \in Tests |-> [n \in Names |-> NoId]]
    /\ found = [t \in Tests |-> [n \in Names |-> NoId]]
    /\ ctr \in [Names -> {"absent", "running", "paused", "stopped"}]
    /\ id = [n \in Names |-> IF ctr[n] = "absent" THEN NoId ELSE Prior]
    /\ attached = [n \in Names |-> {}]
    /\ deleted = {}

-----------------------------------------------------------------------------
\* Helpers.

\* Mutant: the inspection and the removal are not under one lock.
LockedByStart == \E t \in Tests, n \in Names : slot[t][n] = "starting"

\* The dynamic map is locked across an await that others can see by a create
\* that has yet to remove what it found and by a start that waits.
Locked == \E t \in Tests, n \in Names : slot[t][n] \in {"removing", "starting"}

\* A paused container is alive: its processes are there and so is its endpoint.
Live(n) == ctr[n] \in {"running", "paused"}

Mode(t) == setting[t].mode
NetworkOf(t) == setting[t].network

IsStrict(t, n) == \E i \in 1..Len(Strict[t]) : Strict[t][i] = n

SetSlot(t, n, s) == slot' = [slot EXCEPT ![t][n] = s]
Connect(t, n) == attached' = [attached EXCEPT ![n] = @ \cup {NetworkOf(t)}]

\* Mutant: only the first user of a container connects it.
JoinConnectsNever(t, n) == UNCHANGED attached

\* A test that finds an entry connects the container only to an isolated
\* network of its own, whatever the network of the test that made the entry.
JoinConnects(t, n) ==
    IF Mode(t) = "Isolated" THEN Connect(t, n) ELSE UNCHANGED attached

\* The composition gets the container of id i, as a PendingContainer or as a
\* StaticExternalContainer.
Hand(t, n, s, i) ==
    /\ SetSlot(t, n, s)
    /\ hid' = [hid EXCEPT ![t][n] = i]
    /\ UNCHANGED found
Insert(t, n, s, i) ==
    /\ status' = [status EXCEPT ![n] = s]
    /\ cid' = [cid EXCEPT ![n] = i]
    /\ maker' = [maker EXCEPT ![n] = t]

\* The caller gets an error and nothing else happens.
Refused(t, n) == SetSlot(t, n, "failed") /\ UNCHANGED <<registry, own, daemon>>

-----------------------------------------------------------------------------
\* DynamicContainers::create on a name without an entry.

\* Mutant: the container that was found is not entered into the map.
FoundRunningUnrecorded(t, n) ==
    /\ ctr[n] = "running"
    /\ Connect(t, n)
    /\ Hand(t, n, "external", id[n])
    /\ UNCHANGED <<registry, ctr, id, deleted>>

\* A running container from before is used as it is.
FoundRunning(t, n) ==
    /\ ctr[n] = "running"
    /\ Insert(t, n, "RunningPrior", id[n])
    /\ Connect(t, n)
    /\ Hand(t, n, "external", id[n])
    /\ UNCHANGED <<ctr, id, deleted>>

\* One in any other state, a live one that is paused included, is going to be
\* removed.
FoundOther(t, n) ==
    /\ ctr[n] \notin {"absent", "running"}
    /\ SetSlot(t, n, "removing")
    /\ found' = [found EXCEPT ![t][n] = id[n]]
    /\ UNCHANGED <<registry, hid, daemon>>

Removed(n) ==
    /\ ctr' = [ctr EXCEPT ![n] = "absent"]
    /\ id' = [id EXCEPT ![n] = NoId]
    /\ attached' = [attached EXCEPT ![n] = {}]

\* Mutant: it is removed and then reported as running.
RemoveReported(t, n) ==
    /\ slot[t][n] = "removing"
    /\ Removed(n)
    /\ Insert(t, n, "RunningPrior", found[t][n])
    /\ SetSlot(t, n, "external")
    /\ hid' = [hid EXCEPT ![t][n] = found[t][n]]
    /\ found' = [found EXCEPT ![t][n] = NoId]
    /\ UNCHANGED <<setting, pc, deleted>>

\* remove_container, by name and with force.  If it succeeds, the connect that
\* follows cannot find the id that was inspected: either way this create fails,
\* and the next one may find the name free.
RemoveFound(t, n) ==
    /\ slot[t][n] = "removing"
    /\ \/ Removed(n)
       \/ "remove" \in Faults /\ UNCHANGED <<ctr, id, attached>>
    /\ SetSlot(t, n, "failed")
    /\ found' = [found EXCEPT ![t][n] = NoId]
    /\ UNCHANGED <<setting, registry, pc, hid, deleted>>

\* No such container: create it in the network of the test.
NotFound(t, n) ==
    /\ ctr[n] = "absent"
    /\ ctr' = [ctr EXCEPT ![n] = "created"]
    /\ id' = [id EXCEPT ![n] = t]
    /\ attached' = [attached EXCEPT ![n] = {NetworkOf(t)}]
    /\ \/ Insert(t, n, "Pending", t) /\ Hand(t, n, "pending", t)
       \/ /\ "connect" \in Faults    \* no entry, but the container stays
          /\ SetSlot(t, n, "failed")
          /\ UNCHANGED <<registry, own>>
    /\ UNCHANGED deleted

\* The daemon refuses the inspection, the creation or the connect.
CreateRefused(t, n) ==
    /\ "create" \in Faults \/ ("connect" \in Faults /\ ctr[n] = "running")
    /\ Refused(t, n)

CreateFirst(t, n) ==
    /\ status[n] = "Absent"
    /\ \/ FoundRunning(t, n)
       \/ FoundOther(t, n)
       \/ NotFound(t, n)
       \/ CreateRefused(t, n)

\* DynamicContainers::create on an entry.
CreateJoin(t, n) ==
    /\ status[n] # "Absent"
    /\ \/ /\ status[n] \in {"Pending", "Running"}
          /\ JoinConnects(t, n) /\ Hand(t, n, "pending", cid[n])
          /\ UNCHANGED <<registry, ctr, id, deleted>>
       \/ /\ status[n] = "RunningPrior"
          /\ JoinConnects(t, n) /\ Hand(t, n, "external", cid[n])
          /\ UNCHANGED <<registry, ctr, id, deleted>>
       \/ /\ status[n] = "Failed" \/ (Mode(t) = "Isolated" /\ "connect" \in Faults)
          /\ Refused(t, n)

\* ExternalContainers::include: found in whichever state, or not at all.  The
\* user connects the container of an external network.
IncludeFirst(t, n) ==
    /\ status[n] = "Absent"
    /\ \/ /\ ctr[n] # "absent"
          /\ Insert(t, n, "Included", id[n])
          /\ IF Mode(t) = "External" THEN UNCHANGED attached ELSE Connect(t, n)
          /\ Hand(t, n, "external", id[n])
          /\ UNCHANGED <<ctr, id, deleted>>
       \/ /\ \/ ctr[n] = "absent" \/ "create" \in Faults
             \/ Mode(t) # "External" /\ "connect" \in Faults
          /\ Refused(t, n)

IncludeJoin(t, n) ==
    /\ status[n] = "Included"
    /\ \/ /\ JoinConnects(t, n) /\ Hand(t, n, "external", cid[n])
          /\ UNCHANGED <<registry, ctr, id, deleted>>
       \/ Mode(t) = "Isolated" /\ "connect" \in Faults /\ Refused(t, n)

\* StaticContainers::create, called from Engine::ignite.
Create(t, n) ==
    /\ pc[t] = "ignite" /\ n \in Uses[t] /\ slot[t][n] = "idle"
    /\ IF n \in Dynamic THEN ~Locked /\ (CreateFirst(t, n) \/ CreateJoin(t, n))
                        ELSE IncludeFirst(t, n) \/ IncludeJoin(t, n)
    /\ UNCHANGED <<setting, pc>>

-----------------------------------------------------------------------------
\* The engine phases around the registries.

Ignited(t) ==
    /\ pc[t] = "ignite"
    /\ \A n \in Uses[t] : slot[t][n] \in {"pending", "external"}
    /\ pc' = [pc EXCEPT ![t] = "orbit"]
    /\ slot' = [slot EXCEPT ![t] =
                  [n \in Names |-> IF @[n] = "pending" /\ ~IsStrict(t, n)
                                  THEN "spawned" ELSE @[n]]]
    /\ UNCHANGED <<setting, registry, own, daemon>>

IgniteFails(t) ==
    /\ pc[t] = "ignite"
    /\ \A n \in Uses[t] : slot[t][n] \notin {"idle", "removing"}
    /\ \E n \in Uses[t] : slot[t][n] = "failed"
    /\ pc' = [pc EXCEPT ![t] = "cleanup"]
    /\ UNCHANGED <<setting, registry, slot, own, daemon>>

\* A start future may be polled: a spawned relaxed task at any time, even after
\* a failing strict start has detached it; the strict ones one after the other.
StartStep(t, n) ==
    /\ ~Locked
    /\ \/ slot[t][n] = "spawned"
       \/ /\ pc[t] = "orbit" /\ slot[t][n] = "pending"
          /\ \E i \in 1..Len(Strict[t]) :
                /\ Strict[t][i] = n
                /\ \A j \in 1..(i - 1) : slot[t][Strict[t][j]] \in {"running", "external"}

\* DynamicContainers::start on a Pending entry; the wait keeps the lock.
StartBegins(t, n) ==
    /\ StartStep(t, n) /\ status[n] = "Pending"
    /\ attached[n] \cap deleted = {} /\ ctr[n] # "paused"
    /\ ctr' = [ctr EXCEPT ![n] = "running"]
    /\ SetSlot(t, n, "starting")
    /\ UNCHANGED <<setting, registry, pc, own, id, attached, deleted>>

\* The daemon refuses to start it: a network it belongs to is gone, it is
\* already running or paused, or any other daemon error.
StartRefused(t, n) ==
    /\ StartStep(t, n) /\ status[n] = "Pending"
    /\ attached[n] \cap deleted # {} \/ Live(n) \/ "start" \in Faults
    /\ status' = [status EXCEPT ![n] = "Failed"]
    /\ SetSlot(t, n, "error")
    /\ UNCHANGED <<setting, cid, maker, pc, own, daemon>>

\* Another test has decided: everybody gets the first result.
StartDecided(t, n) ==
    /\ StartStep(t, n) /\ status[n] # "Pending"
    /\ SetSlot(t, n, IF status[n] = "Failed" THEN "error" ELSE "running")
    /\ UNCHANGED <<setting, registry, pc, own, daemon>>

\* Mutants: a failed wait is not recorded, so that the next test starts the
\* container again, or the test itself tries again without limit.
WaitReturnsRetried(t, n) ==
    /\ slot[t][n] = "starting"
    /\ \/ /\ status' = [status EXCEPT ![n] = "Running"]
          /\ SetSlot(t, n, "running")
       \/ /\ "wait" \in Faults
          /\ UNCHANGED status
          /\ SetSlot(t, n, "spawned")
    /\ UNCHANGED <<setting, cid, maker, pc, own, daemon>>

WaitReturnsUnrecorded(t, n) ==
    /\ slot[t][n] = "starting"
    /\ \/ /\ status' = [status EXCEPT ![n] = "Running"]
          /\ SetSlot(t, n, "running")
       \/ /\ "wait" \in Faults
          /\ UNCHANGED status
          /\ SetSlot(t, n, "error")
    /\ UNCHANGED <<setting, cid, maker, pc, own, daemon>>

WaitReturns(t, n) ==
    /\ slot[t][n] = "starting"
    /\ \/ /\ status' = [status EXCEPT ![n] = "Running"]
          /\ SetSlot(t, n, "running")
       \/ /\ "wait" \in Faults
          /\ status' = [status EXCEPT ![n] = "Failed"]
          /\ SetSlot(t, n, "error")
    /\ UNCHANGED <<setting, cid, maker, pc, own, daemon>>

\* A panicking WaitFor leaves the entry Pending and the lock free.  In a spawned
\* task it surfaces as a JoinError, in a strict start, which run_impl polls
\* itself while it is in orbit, it unwinds run_impl: there is no cleanup.
WaitPanics(t, n) ==
    /\ slot[t][n] = "starting" /\ "panic" \in Faults
    /\ IsStrict(t, n) => pc[t] = "orbit"
    /\ SetSlot(t, n, "panicked")
    /\ pc' = IF IsStrict(t, n) THEN [pc EXCEPT ![t] = "panicked"] ELSE pc
    /\ UNCHANGED <<setting, registry, own, daemon>>

\* A detached task dies with the runtime of its test.
DropTask(t, n) ==
    /\ pc[t] \in {"done", "kept", "panicked"} /\ slot[t][n] \in {"spawned", "starting"}
    /\ SetSlot(t, n, "dropped")
    /\ UNCHANGED <<setting, registry, pc, own, daemon>>

Start(t, n) ==
    \/ StartBegins(t, n)
    \/ StartRefused(t, n)
    \/ StartDecided(t, n)
    \/ WaitReturns(t, n)
    \/ WaitPanics(t, n)
    \/ DropTask(t, n)

\* Every start succeeded; external_containers reads both maps.
Orbited(t) ==
    /\ pc[t] = "orbit" /\ ~Locked
    /\ \A n \in Uses[t] : slot[t][n] \in {"running", "external"}
    /\ pc' = [pc EXCEPT ![t] = "body"]
    /\ UNCHANGED <<setting, registry, slot, own, daemon>>

\* The first strict error, of these or of another container of the test, returns
\* at once and detaches the relaxed tasks; a relaxed one is seen when every start
\* has been joined.
OrbitFails(t) ==
    /\ pc[t] = "orbit"
    /\ \/ \E n \in Uses[t] : IsStrict(t, n) /\ slot[t][n] = "error"
       \/ /\ \A n \in Uses[t] : slot[t][n] \notin {"pending", "spawned", "starting"}
          /\ \E n \in Uses[t] : slot[t][n] \in {"error", "panicked"}
       \/ /\ "strict" \in Faults
          /\ \A n \in Uses[t] : IsStrict(t, n) => slot[t][n] # "starting"
    /\ pc' = [pc EXCEPT ![t] = "cleanup"]
    /\ UNCHANGED <<setting, registry, slot, own, daemon>>

BodyEnds(t) ==
    /\ pc[t] = "body"
    /\ pc' = [pc EXCEPT ![t] = "cleanup"]
    /\ UNCHANGED <<setting, registry, slot, own, daemon>>

-----------------------------------------------------------------------------
\* StaticContainers::cleanup and the teardown of the network.

\* The ids of the test's static containers.
to_cleanup(t) == {hid[t][n] : n \in Names} \ {NoId}

\* Mutant: external containers are looked up by name, too.
DisconnectsByName(t, n) == status[n] # "Absent" /\ n \in to_cleanup(t)

\* disconnect of the dynamic registry asks for the keys of the map, which are
\* names; that of the external registry asks for the ids.
Disconnects(t, n) ==
    /\ status[n] # "Absent"
    /\ IF n \in Dynamic THEN n \in to_cleanup(t) ELSE cid[n] \in to_cleanup(t)

\* Each disconnect may fail by itself; that is only logged.
Cleanup(t) ==
    /\ pc[t] = "cleanup"
    /\ Mode(t) = "Isolated" => ~Locked
    /\ \E failed \in SUBSET Names :
          /\ failed = {} \/ "disconnect" \in Faults
          /\ attached' = [n \in Names |->
                IF Mode(t) = "Isolated" /\ Disconnects(t, n) /\ n \notin failed
                THEN attached[n] \ {NetworkOf(t)} ELSE attached[n]]
    /\ pc' = [pc EXCEPT ![t] = "network"]
    /\ UNCHANGED <<setting, registry, slot, own, ctr, id, deleted>>

\* The daemon refuses to delete a network a live container is connected to.
NetworkBusy(w) == \E n \in Names : Live(n) /\ w \in attached[n]

\* teardown_network, which a prune strategy that leaves everything running skips.
TeardownNetwork(t) ==
    /\ pc[t] = "network"
    /\ \/ /\ deleted' = IF Mode(t) = "Isolated" /\ ~NetworkBusy(t)
                        THEN deleted \cup {t} ELSE deleted
          /\ pc' = [pc EXCEPT ![t] = "done"]
       \/ /\ "keep" \in Faults /\ Mode(t) = "Isolated" /\ UNCHANGED deleted
          /\ pc' = [pc EXCEPT ![t] = "kept"]
    /\ UNCHANGED <<setting, registry, slot, own, ctr, id, attached>>

\* A container exits, or is paused and unpaused, by itself or by a body or by the
\* user, who may also start again what was there before the binary.
Outside(n) ==
    /\ \/ "exit" \in Faults /\ ctr[n] = "running" /\ ctr' = [ctr EXCEPT ![n] = "stopped"]
       \/ "pause" \in Faults /\ ctr[n] = "running" /\ ctr' = [ctr EXCEPT ![n] = "paused"]
       \/ "pause" \in Faults /\ ctr[n] = "paused" /\ ctr' = [ctr EXCEPT ![n] = "running"]
       \/ /\ "user" \in Faults /\ ctr[n] = "stopped" /\ id[n] = Prior
          /\ ctr' = [ctr EXCEPT ![n] = "running"]
    /\ UNCHANGED <<setting, registry, pc, slot, own, id, attached, deleted>>

-----------------------------------------------------------------------------
TestStep(t) ==
    \/ \E n \in Names : Create(t, n) \/ RemoveFound(t, n) \/ Start(t, n)
    \/ Ignited(t)
    \/ IgniteFails(t)
    \/ Orbited(t)
    \/ OrbitFails(t)
    \/ BodyEnds(t)
    \/ Cleanup(t)
    \/ TeardownNetwork(t)

TaskLeft == \E t \in Tests, n \in Names : slot[t][n] \in {"spawned", "starting"}
AllEnded == (\A t \in Tests : pc[t] \in {"done", "kept", "panicked"}) /\ ~TaskLeft
Exit == AllEnded /\ UNCHANGED vars

Next == (\E t \in Tests : TestStep(t)) \/ (\E n \in Names : Outside(n)) \/ Exit

Spec == Init /\ [][Next]_vars

\* Every test is a thread whose runtime polls what is ready, bodies and
\* WaitFor conditions return, the daemon answers.  Nothing has to exit.
FairSpec == Spec /\ \A t \in Tests : WF_vars(TestStep(t))

-----------------------------------------------------------------------------
\* Properties.

\* remove_container takes a name where the inspection has seen an id: what is
\* removed is the very container that was inspected and did not run, never one
\* that another test has created under the name, or entered into the map, since.
RemovesWhatItInspected ==
    [][\A n \in Names : ctr[n] # "absent" /\ id'[n] # id[n] =>
          \E t \in Tests : /\ slot[t][n] = "removing" /\ found[t][n] = id[n]
                           /\ status[n] = "Absent"]_vars

\* The container a body was given is still the one the daemon has under that
\* name, so that all bodies share it: even if it exits while in use, no later
\* create takes it for a leftover and removes it.
BodyContainerKept ==
    \A t \in Tests : pc[t] = "body" =>
        \A n \in Uses[t] : hid[t][n] # NoId /\ id[n] = hid[t][n]

\* All tests that start one container get the same answer: none runs its body
\* on a container whose start has failed for another.
StartAgreed ==
    \A t, u \in Tests, n \in Names :
        ~(slot[t][n] = "running" /\ slot[u][n] = "error")

\* Who connects the container: an isolated test does so itself, any other one
\* relies on a test of its network to have made the entry; an external container
\* is the user's to connect to an external network.
Connected(t, n) ==
    \/ Mode(t) = "Isolated"
    \/ /\ NetworkOf(maker[n]) = NetworkOf(t)
       /\ n \in Dynamic \/ Mode(maker[n]) # "External"

\* "responsible for adding it to the network" (docker/static_container.rs:79): a
\* body finds its static containers in the network of its test, whichever the
\* networks of the tests that share them and however those come and go.  The
\* exception is a test that is not isolated and joins an entry that a test of
\* another network has made: nobody connects the container for it.
ReachableFromBody ==
    \A t \in Tests : pc[t] = "body" =>
        \A n \in Uses[t] : Connected(t, n) => NetworkOf(t) \in attached[n]

\* An isolated network that survives its test, although the prune strategy does
\* not keep it, is still connected to a dynamic container: external ones always
\* leave it, also when other tests use them.
OnlyDynamicHoldNetwork ==
    \A t \in Tests : Mode(t) = "Isolated" /\ pc[t] = "done" =>
        \/ t \in deleted
        \/ \E n \in Dynamic : t \in attached[n]

\* "The network will be deleted once the test body exits" (dockertest.rs:57).
IsolatedNetworkDeleted ==
    \A t \in Tests : Mode(t) = "Isolated" /\ pc[t] = "done" => t \in deleted

\* Every test ends: the lock that a removal or a waiting start holds is always
\* released.
EventuallyEnded == <>[]AllEnded

-----------------------------------------------------------------------------
\* The inductive invariant behind BodyContainerKept and StartAgreed.

\* An entry stands for the container the daemon has under its name, which has
\* an id if it exists, and somebody has made it.
EntryCurrent ==
    \A n \in Names :
        /\ status[n] # "Absent" => cid[n] # NoId /\ cid[n] = id[n] /\ maker[n] \in Tests
        /\ ctr[n] # "absent" => id[n] # NoId

\* A test that was given an id was given that of the entry, and a test that was
\* given none has no start.
HandedCurrent ==
    \A t \in Tests, n \in Names :
        /\ hid[t][n] # NoId => status[n] # "Absent" /\ hid[t][n] = cid[n]
        /\ slot[t][n] \notin {"idle", "removing", "failed"} => hid[t][n] # NoId

\* The status remembers how a start came out.
StartRecorded ==
    \A t \in Tests, n \in Names :
        /\ slot[t][n] = "running" => status[n] \in {"Running", "RunningPrior", "Included"}
        /\ slot[t][n] = "error" => status[n] = "Failed"
        /\ slot[t][n] = "starting" => status[n] = "Pending"

\* A removal or a start that waits holds the lock alone, so that what was
\* inspected is still what has the name.
LockHeld ==
    /\ \A t, u \in Tests, n, m \in Names :
          slot[t][n] \in {"removing", "starting"} /\ slot[u][m] \in {"removing", "starting"}
             => t = u /\ n = m
    /\ \A t \in Tests, n \in Names : slot[t][n] = "removing" =>
          /\ n \in Uses[t] \cap Dynamic /\ pc[t] = "ignite"
          /\ status[n] = "Absent" /\ found[t][n] = id[n]

\* A body runs on containers that have been started or found.
BodyStarted ==
    \A t \in Tests : pc[t] = "body" =>
        \A n \in Uses[t] : slot[t][n] \in {"running", "external"}

IInv ==
    /\ TypeOK
    /\ EntryCurrent
    /\ HandedCurrent
    /\ StartRecorded
    /\ LockHeld
    /\ BodyStarted

-----------------------------------------------------------------------------
\* The inductive invariants behind ReachableFromBody and OnlyDynamicHoldNetwork.

\* An entry is in the network of the test that made it, unless that is an
\* external network and the user's part, or an isolated one, which the test may
\* have left; and what an isolated test was given is in its network until its
\* cleanup.
ConnectedInv ==
    /\ \A n \in Names : status[n] # "Absent" =>
          \/ Mode(maker[n]) = "Isolated"
          \/ Mode(maker[n]) = "External" /\ n \notin Dynamic
          \/ NetworkOf(maker[n]) \in attached[n]
    /\ \A t \in Tests, n \in Names :
          Mode(t) = "Isolated" /\ hid[t][n] # NoId /\ pc[t] \in {"ignite", "orbit", "body"} =>
             t \in attached[n]

\* An isolated network is on the external containers its test was given until
\* the cleanup, and a network that could not be deleted is on a dynamic one that
\* has an entry, which no test disconnects.  What is live, or may be started by
\* the user, and is in no map is in no network of the tests.
HeldInv ==
    /\ \A n \in Names : (Live(n) \/ id[n] = Prior) /\ attached[n] # {} => status[n] # "Absent"
    /\ \A t \in Tests : Mode(t) = "Isolated" =>
          /\ \A n \in Names \ Dynamic : t \in attached[n] =>
                hid[t][n] # NoId /\ pc[t] \notin {"network", "done", "kept"}
          /\ pc[t] = "done" => \/ t \in deleted
                               \/ \E n \in Dynamic : t \in attached[n] /\ status[n] # "Absent"

=============================================================================
