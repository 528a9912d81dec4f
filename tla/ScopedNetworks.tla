--------------------------- MODULE ScopedNetworks ---------------------------
(***************************************************************************)
(* The singular network of a namespace: ScopedNetworks                     *)
(* (src/src/static_container/network.rs) and the daemon calls behind it    *)
(* (src/src/docker/network.rs), with the tests of several test binaries.   *)
(*                                                                         *)
(* Each binary has its own map under its own RwLock, which a test keeps    *)
(* across all its daemon calls; tests of different binaries interleave     *)
(* between those calls.  A network is called after its namespace; its id   *)
(* is that of the test that created it, or the namespace itself for one    *)
(* that was there before.                                                  *)
(***************************************************************************)
EXTENDS Integers, FiniteSets

CONSTANTS
    Binaries,    \* test binaries
    Tests,       \* their tests with Network::Singular
    BinaryOf,    \* BinaryOf[t]: the binary of test t
    Namespaces,  \* the values of DockerTest::with_namespace
    NsOf,        \* NsOf[t]: that of test t
    Containers,  \* execution containers
    SelfOf,      \* SelfOf[b]: the container binary b runs in, or NoSelf
    NoSelf,      \* no own_container_id()
    Stamp,       \* Stamp[w]: the place of its creation time among the strings
    Faults       \* the kinds of failure the environment may inject

Nets == Tests \cup Namespaces
FaultKinds == {"list", "create", "connect", "prune"}

ASSUME TestsAssumption ==
    /\ BinaryOf \in [Tests -> Binaries] /\ NsOf \in [Tests -> Namespaces]
    /\ Tests \cap Namespaces = {}
ASSUME SelfAssumption ==
    /\ NoSelf \notin Containers /\ SelfOf \in [Binaries -> Containers \cup {NoSelf}]
ASSUME StampAssumption ==
    /\ Stamp \in [Nets -> Nat]
    /\ \A v, w \in Nets : Stamp[v] = Stamp[w] => v = w
    /\ \A S \in SUBSET Nets :    \* a daemon has finitely many networks
          S # {} => \E w \in S : \A v \in S : Stamp[v] <= Stamp[w]
ASSUME FaultsAssumption == Faults \subseteq FaultKinds

NoNet == "no network"
Failed == "failed"

ASSUME SentinelAssumption == NoNet \notin Nets /\ Failed \notin Nets

VARIABLES
    \* One map per binary.
    singular,   \* singular[b][s]: NoNet, NetworkCreation::Failed or the id
    holder,     \* holder[b]: the test that holds the lock, if any
    \* create_singular_network of each test.
    pc,         \* the daemon call it is at
    id,         \* the network it has or returns
    result,     \* what it has returned
    \* The docker daemon.
    unique,     \* it refuses a second network of one name, without fail
    exists,     \* the networks
    members,    \* members[w]: the execution containers connected to w
    \* History.
    injected    \* the namespaces something has gone wrong for by itself

maps   == <<singular, holder>>
daemon == <<unique, exists, members>>
vars   == <<maps, pc, id, result, daemon, injected>>

TypeOK ==
    /\ singular \in [Binaries -> [Namespaces -> Nets \cup {NoNet, Failed}]]
    /\ holder \in [Binaries -> SUBSET Tests]
    /\ pc \in [Tests -> {"lookup", "create", "conflict", "join", "done"}]
    /\ id \in [Tests -> Nets \cup {NoNet}]
    /\ result \in [Tests -> {"none", "ok", "error", "panic"}]
    /\ unique \in BOOLEAN
    /\ exists \in SUBSET Nets
    /\ members \in [Nets -> SUBSET Containers]
    /\ injected \in SUBSET Namespaces

Init ==
    /\ singular = [b \in Binaries |-> [s \in Namespaces |-> NoNet]]
    /\ holder = [b \in Binaries |-> {}]
    /\ pc = [t \in Tests |-> "lookup"]
    /\ id = [t \in Tests |-> NoNet]
    /\ result = [t \in Tests |-> "none"]
    /\ unique \in BOOLEAN
    /\ exists \in SUBSET Namespaces
    /\ members = [w \in Nets |-> {}]
    /\ injected = {}

-----------------------------------------------------------------------------
\* Helpers.

NameOf(w) == IF w \in Namespaces THEN w ELSE NsOf[w]
Self(t) == SelfOf[BinaryOf[t]]
Entry(t) == singular[BinaryOf[t]][NsOf[t]]

\* Mutant: the filter of list_networks is trusted, which matches substrings.
NamedLike(s) == exists

\* The networks list_networks returns whose name is exactly that of s.
Named(s) == {w \in exists : NameOf(w) = s}

\* existing_dockertest_network: the one whose creation time is the highest
\* string.
Highest(s) == CHOOSE w \in Named(s) : \A v \in Named(s) : Stamp[v] <= Stamp[w]

\* The lock is free, or taken, or let go of.
Free(t) == holder[BinaryOf[t]] = {}
Hold(t) == holder' = [holder EXCEPT ![BinaryOf[t]] = {t}]
Release(t) == holder' = [holder EXCEPT ![BinaryOf[t]] = {}]

Return(t, r, w) ==
    /\ pc' = [pc EXCEPT ![t] = "done"]
    /\ result' = [result EXCEPT ![t] = r]
    /\ id' = [id EXCEPT ![t] = w]
    /\ Release(t)

Record(t, e) == singular' = [singular EXCEPT ![BinaryOf[t]][NsOf[t]] = e]
Inject(t) == injected' = injected \cup {NsOf[t]}

-----------------------------------------------------------------------------
\* create_singular_network.

\* The map has an answer already.
Known(t) ==
    /\ pc[t] = "lookup" /\ Free(t)
    /\ Entry(t) # NoNet
    /\ IF Entry(t) = Failed THEN Return(t, "error", NoNet) ELSE Return(t, "ok", Entry(t))
    /\ UNCHANGED <<singular, daemon, injected>>

\* Mutant: a network that was found is not entered into the map.
FoundUnrecorded(t) ==
    /\ pc[t] = "lookup" /\ Free(t)
    /\ Entry(t) = NoNet /\ Named(NsOf[t]) # {}
    /\ Return(t, "ok", Highest(NsOf[t]))
    /\ UNCHANGED <<singular, daemon, injected>>

\* The daemon has the network: it is used as it is.
Found(t) ==
    /\ pc[t] = "lookup" /\ Free(t)
    /\ Entry(t) = NoNet /\ Named(NsOf[t]) # {}
    /\ Record(t, Highest(NsOf[t]))
    /\ Return(t, "ok", Highest(NsOf[t]))
    /\ UNCHANGED <<daemon, injected>>

\* The networks cannot be listed: the map is left as it is.
ListFails(t) ==
    /\ pc[t] = "lookup" /\ Free(t)
    /\ Entry(t) = NoNet /\ "list" \in Faults
    /\ Return(t, "error", NoNet)
    /\ Inject(t)
    /\ UNCHANGED <<singular, daemon>>

NotFound(t) ==
    /\ pc[t] = "lookup" /\ Free(t)
    /\ Entry(t) = NoNet /\ Named(NsOf[t]) = {}
    /\ Hold(t)
    /\ pc' = [pc EXCEPT ![t] = "create"]
    /\ UNCHANGED <<singular, id, result, daemon, injected>>

\* create_singular_network_impl: a daemon that does not enforce unique names
\* may create a second network that another binary has just created, too.
Create(t) ==
    /\ pc[t] = "create"
    /\ ~unique \/ Named(NsOf[t]) = {}
    /\ exists' = exists \cup {t}
    /\ id' = [id EXCEPT ![t] = t]
    /\ pc' = [pc EXCEPT ![t] = "join"]
    /\ UNCHANGED <<maps, result, unique, members, injected>>

\* The daemon answers 409.
Conflict(t) ==
    /\ pc[t] = "create" /\ Named(NsOf[t]) # {}
    /\ pc' = [pc EXCEPT ![t] = "conflict"]
    /\ UNCHANGED <<maps, id, result, daemon, injected>>

\* Mutants: a conflict is answered by creating again; a conflict is an error
\* like any other.
ConflictRetried(t) ==
    /\ pc[t] = "conflict" /\ Named(NsOf[t]) # {}
    /\ pc' = [pc EXCEPT ![t] = "create"]
    /\ UNCHANGED <<maps, id, result, daemon, injected>>

ConflictFails(t) ==
    /\ pc[t] = "conflict" /\ Named(NsOf[t]) # {}
    /\ Record(t, Failed)
    /\ Return(t, "error", NoNet)
    /\ UNCHANGED <<daemon, injected>>

\* After the conflict the other network is looked up: it is there, ...
ConflictFound(t) ==
    /\ pc[t] = "conflict" /\ Named(NsOf[t]) # {}
    /\ id' = [id EXCEPT ![t] = Highest(NsOf[t])]
    /\ pc' = [pc EXCEPT ![t] = "join"]
    /\ UNCHANGED <<maps, result, daemon, injected>>

\* ... or it is gone again, and the unwrap of None panics.
ConflictGone(t) ==
    /\ pc[t] = "conflict" /\ Named(NsOf[t]) = {}
    /\ Return(t, "panic", NoNet)
    /\ UNCHANGED <<singular, daemon, injected>>

\* The creation or the look-up after a conflict fails: so do all later tests.
CreateFails(t) ==
    /\ \/ pc[t] = "create" /\ "create" \in Faults
       \/ pc[t] = "conflict" /\ "list" \in Faults
    /\ Record(t, Failed)
    /\ Return(t, "error", NoNet)
    /\ Inject(t)
    /\ UNCHANGED daemon

\* add_self_to_network: the execution container joins the network.
Join(t) ==
    /\ pc[t] = "join"
    /\ IF Self(t) = NoSelf
       THEN UNCHANGED members
       ELSE /\ id[t] \in exists /\ Self(t) \notin members[id[t]]
            /\ members' = [members EXCEPT ![id[t]] = @ \cup {Self(t)}]
    /\ Record(t, id[t])
    /\ Return(t, "ok", id[t])
    /\ UNCHANGED <<unique, exists, injected>>

\* The daemon refuses: the network is gone, the container is in it already, or
\* any other error.
JoinFails(t) ==
    /\ pc[t] = "join" /\ Self(t) # NoSelf
    /\ \/ /\ id[t] \notin exists \/ Self(t) \in members[id[t]]
          /\ UNCHANGED injected
       \/ "connect" \in Faults /\ Inject(t)
    /\ Record(t, Failed)
    /\ Return(t, "error", NoNet)
    /\ UNCHANGED daemon

create_singular_network(t) ==
    \/ Known(t)
    \/ Found(t)
    \/ ListFails(t)
    \/ NotFound(t)
    \/ Create(t)
    \/ Conflict(t)
    \/ ConflictFound(t)
    \/ ConflictGone(t)
    \/ CreateFails(t)
    \/ Join(t)
    \/ JoinFails(t)

\* Somebody prunes a network that nothing is connected to.
Prune(w) ==
    /\ "prune" \in Faults
    /\ w \in exists /\ members[w] = {}
    /\ exists' = exists \ {w}
    /\ injected' = injected \cup {NameOf(w)}
    /\ UNCHANGED <<maps, pc, id, result, unique, members>>

-----------------------------------------------------------------------------
AllDone == \A t \in Tests : pc[t] = "done"
Exit == AllDone /\ UNCHANGED vars

Next ==
    \/ \E t \in Tests : create_singular_network(t)
    \/ \E w \in Nets : Prune(w)
    \/ Exit

Spec == Init /\ [][Next]_vars

\* Each test is a thread of its own and the daemon answers.
FairSpec == Spec /\ \A t \in Tests : WF_vars(create_singular_network(t))

-----------------------------------------------------------------------------
\* Properties.

Got(t) == result[t] = "ok"

\* "This network will be shared between each test using the same namespace"
\* (dockertest.rs:41): within a binary that holds whatever the daemon and the
\* other binaries do in between, with two networks of one name and with
\* networks pruned.
SharedInBinary ==
    \A t, u \in Tests :
        Got(t) /\ Got(u) /\ BinaryOf[t] = BinaryOf[u] /\ NsOf[t] = NsOf[u] => id[t] = id[u]

\* Across binaries that race for it, with a daemon that keeps names unique and
\* nobody pruning, the tests of a namespace share one network and those of two
\* namespaces share none: a conflict resolves to the network that caused it.
SharedByName ==
    \A t, u \in Tests :
        Got(t) /\ Got(u) /\ unique /\ {NsOf[t], NsOf[u]} \cap injected = {} =>
            (id[t] = id[u] <=> NsOf[t] = NsOf[u])

\* Another binary runs in the same execution container as b.
Shares(b) == SelfOf[b] # NoSelf /\ \E a \in Binaries \ {b} : SelfOf[a] = SelfOf[b]

\* The race of binaries for a network is harmless: unless something fails by
\* itself, no test is refused its network.  Two binaries in one execution
\* container are the exception: the loser cannot connect it a second time.
RaceHarmless ==
    \A t \in Tests : NsOf[t] \in injected \/ result[t] \in {"none", "ok"} \/ Shares(BinaryOf[t])

\* What RaceHarmless rests on: a failure in a map has a cause of its own, the
\* network a test is in conflict with is there, and a container is in a network
\* only if a binary in it has entered that network into its map.
RaceInv ==
    /\ RaceHarmless
    /\ \A b \in Binaries, s \in Namespaces :
          singular[b][s] = Failed => s \in injected \/ Shares(b)
    /\ \A t \in Tests : pc[t] = "conflict" => NsOf[t] \in injected \/ Named(NsOf[t]) # {}
    /\ \A w \in Nets : \A c \in members[w] :
          \E b \in Binaries : SelfOf[b] = c /\ singular[b][NameOf(w)] = w

\* Every test gets an answer, also after another one has failed or panicked
\* with the lock held.
EventuallyAnswered == <>[]AllDone

=============================================================================
