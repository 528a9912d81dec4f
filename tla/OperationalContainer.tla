------------------------ MODULE OperationalContainer ------------------------
(***************************************************************************)
(* The container object a test body works with                             *)
(* (src/src/container/operational.rs): the host ports that inspect reads   *)
(* into it, and the state operations pause, unpause and kill.              *)
(*                                                                         *)
(* A body may clone the object into tasks, and the clones of a static      *)
(* container are in the bodies of different tests.  All of them share one  *)
(* assumed_state, an Arc<Mutex<ContainerState>>.  goto_state checks and    *)
(* sets it under the mutex; the daemon call comes after the mutex is       *)
(* released, so the daemon sees the calls in any order.  A call that is    *)
(* refused or fails panics in its caller; the clone itself stays usable.   *)
(***************************************************************************)
EXTENDS Integers, FiniteSets, Sequences

CONSTANTS
    Clones,     \* the clones of the object, one caller each
    Expected,   \* the expected_state()s of the WaitFor of the container
    MaxCalls,   \* bound: calls a clone makes
    Faults,     \* what may go wrong: "exit", "daemon", "cancel",
                \* "unwaited"
    Ports,      \* container ports
    PortKeys,   \* keys of the port map: [port, proto]
    PortMaps,   \* the port maps the daemon may report
    Unpublished \* the None of a key that is exposed and not published

ASSUME ClonesAssumption == IsFiniteSet(Clones)
ASSUME ExpectedAssumption == Expected \subseteq {"Running", "Exited"}
ASSUME MaxCallsAssumption == MaxCalls \in Nat
ASSUME PortsAssumption ==
    /\ \A pm \in PortMaps : DOMAIN pm \subseteq PortKeys
    /\ \A k \in PortKeys : k.port \in Ports

VARIABLES
    phase,      \* "inspect", "body" or "failed"
    portmap,    \* what the daemon reports: per key Unpublished or its bindings
    unread,     \* the keys of it that try_from has not iterated over yet
    ports,      \* HostPortMappings: container port -> binding
    assumed,    \* assumed_state
    daemon,     \* the state of the container in the daemon
    call,       \* call[c]: the daemon call clone c awaits, "none" if it does not
    made,       \* made[c]: calls clone c has made
    disturbed   \* history: a call failed or was cancelled, the container exited by
                \* itself or was not in its expected state

portvars  == <<phase, portmap, unread, ports>>
statevars == <<assumed, daemon, call, made, disturbed>>
vars      == <<portvars, statevars>>

States == {"Running", "Paused", "Exited"}
Calls  == {"none", "pause", "unpause", "kill"}

TypeOK ==
    /\ phase \in {"inspect", "body", "failed"}
    /\ portmap \in PortMaps
    /\ unread \subseteq PortKeys
    /\ DOMAIN ports \subseteq Ports
    /\ assumed \in States
    /\ daemon \in States
    /\ call \in [Clones -> Calls]
    /\ made \in [Clones -> 0..MaxCalls]
    /\ disturbed \in BOOLEAN

\* A WaitFor returns with the container in its expected_state.  A container that
\* was running before, or is external, is taken over without any wait.
Init ==
    /\ phase = "inspect"
    /\ portmap \in PortMaps
    /\ unread = DOMAIN portmap
    /\ ports = <<>>
    /\ assumed \in Expected
    /\ daemon \in {assumed} \cup {s \in States : "unwaited" \in Faults}
    /\ call = [c \in Clones |-> "none"]
    /\ made = [c \in Clones |-> 0]
    /\ disturbed = (daemon # assumed)

-----------------------------------------------------------------------------
\* Engine::inspect: HostPortMappings::try_from iterates over a HashMap, in any
\* order.

\* The bindings from_port_binding keeps: IPv6 is skipped.
OnlyV4(bindings) == SelectSeq(bindings, LAMBDA b : b.ip = "v4")
V4Bindings(k) == OnlyV4(portmap[k])

\* A key without protocol, or a binding without or with an unreadable address.
Malformed(k) ==
    \/ k.proto = "none"
    \/ \E i \in DOMAIN portmap[k] : portmap[k][i].ip = "bad"

\* Mutant: map.insert, so that the last binding stays.
ReadKeyLast(k) ==
    /\ phase = "inspect" /\ k \in unread
    /\ portmap[k] # Unpublished => ~Malformed(k)
    /\ unread' = unread \ {k}
    /\ ports' = IF portmap[k] = Unpublished \/ V4Bindings(k) = <<>>
                THEN ports
                ELSE [p \in DOMAIN ports \cup {k.port} |->
                        IF p = k.port THEN V4Bindings(k)[Len(V4Bindings(k))]
                                      ELSE ports[p]]
    /\ UNCHANGED <<phase, portmap, statevars>>

\* map.entry(host_port).or_insert: the first binding of a port stays.
ReadKey(k) ==
    /\ phase = "inspect" /\ k \in unread
    /\ portmap[k] # Unpublished => ~Malformed(k)
    /\ unread' = unread \ {k}
    /\ ports' = IF portmap[k] = Unpublished \/ V4Bindings(k) = <<>>
                   \/ k.port \in DOMAIN ports
                THEN ports
                ELSE [p \in DOMAIN ports \cup {k.port} |->
                        IF p = k.port THEN Head(V4Bindings(k)) ELSE ports[p]]
    /\ UNCHANGED <<phase, portmap, statevars>>

\* An early return: inspect fails and there is no body.
ReadFails(k) ==
    /\ phase = "inspect" /\ k \in unread
    /\ portmap[k] # Unpublished /\ Malformed(k)
    /\ phase' = "failed"
    /\ UNCHANGED <<portmap, unread, ports, statevars>>

Inspected ==
    /\ phase = "inspect" /\ unread = {}
    /\ phase' = "body"
    /\ UNCHANGED <<portmap, unread, ports, statevars>>

-----------------------------------------------------------------------------
\* pause, unpause and kill of one clone.

InFlight == {c \in Clones : call[c] # "none"}

\* The states a call may be made from, the one goto_state stores, and the
\* daemon's own conditions for it.
Allowed(op) == CASE op = "pause"   -> {"Running"}
                 [] op = "unpause" -> {"Paused"}
                 [] op = "kill"    -> {"Running", "Paused"}

Destination(op) == CASE op = "pause"   -> "Paused"
                     [] op = "unpause" -> "Running"
                     [] op = "kill"    -> "Exited"

Accepted(op) == daemon \in Allowed(op)

\* Mutants: goto_state does not check, does not store what it granted, or
\* checks the state it goes to.
goto_stateUnchecked(c, op) ==
    /\ assumed' = Destination(op)
    /\ call' = [call EXCEPT ![c] = op]

goto_stateUnstored(c, op) ==
    IF assumed \in Allowed(op)
    THEN call' = [call EXCEPT ![c] = op] /\ UNCHANGED assumed
    ELSE UNCHANGED <<assumed, call>>

goto_stateKillAny(c, op) ==
    IF assumed \in Allowed(op) \/ op = "kill"
    THEN /\ assumed' = Destination(op)
         /\ call' = [call EXCEPT ![c] = op]
    ELSE UNCHANGED <<assumed, call>>

\* Under the mutex: check, and store before the daemon is asked.  A state that
\* does not allow the call is an error that the caller unwraps.
goto_state(c, op) ==
    IF assumed \in Allowed(op)
    THEN /\ assumed' = Destination(op)
         /\ call' = [call EXCEPT ![c] = op]
    ELSE UNCHANGED <<assumed, call>>

Invoke(c, op) ==
    /\ phase = "body" /\ call[c] = "none" /\ made[c] < MaxCalls
    /\ made' = [made EXCEPT ![c] = @ + 1]
    /\ goto_state(c, op)
    /\ UNCHANGED <<portvars, daemon, disturbed>>

pause(c)   == Invoke(c, "pause")
unpause(c) == Invoke(c, "unpause")
kill(c)    == Invoke(c, "kill")

\* The daemon carries the call out.
Answer(c) ==
    /\ call[c] # "none" /\ Accepted(call[c])
    /\ daemon' = Destination(call[c])
    /\ call' = [call EXCEPT ![c] = "none"]
    /\ UNCHANGED <<portvars, assumed, made, disturbed>>

\* Mutant: a failed call takes its own transition back.
RefuseRollsBack(c) ==
    /\ call[c] # "none" /\ (Accepted(call[c]) => "daemon" \in Faults)
    /\ call' = [call EXCEPT ![c] = "none"]
    /\ assumed' = IF call[c] = "unpause" THEN "Paused" ELSE "Running"
    /\ disturbed' = TRUE
    /\ UNCHANGED <<portvars, daemon, made>>

\* The daemon refuses it, because of the container's state or for a reason of
\* its own: the unwrap panics, assumed_state stays.
Refuse(c) ==
    /\ call[c] # "none" /\ (Accepted(call[c]) => "daemon" \in Faults)
    /\ call' = [call EXCEPT ![c] = "none"]
    /\ disturbed' = TRUE
    /\ UNCHANGED <<portvars, assumed, daemon, made>>

\* The caller drops the future of its call: the daemon may or may not have
\* carried it out.
Cancel(c) ==
    /\ "cancel" \in Faults
    /\ call[c] # "none"
    /\ daemon' \in {daemon} \cup {s \in {Destination(call[c])} : Accepted(call[c])}
    /\ call' = [call EXCEPT ![c] = "none"]
    /\ disturbed' = TRUE
    /\ UNCHANGED <<portvars, assumed, made>>

\* The container's process ends.
SelfExit ==
    /\ "exit" \in Faults
    /\ phase = "body" /\ daemon = "Running"
    /\ daemon' = "Exited"
    /\ disturbed' = TRUE
    /\ UNCHANGED <<portvars, assumed, call, made>>

-----------------------------------------------------------------------------
\* No call is left to make and none is awaited.
Done == phase = "failed" \/ (InFlight = {} /\ \A c \in Clones : made[c] = MaxCalls)
Return == Done /\ UNCHANGED vars

Next ==
    \/ \E k \in PortKeys : ReadKey(k) \/ ReadFails(k)
    \/ Inspected
    \/ \E c \in Clones : pause(c) \/ unpause(c) \/ kill(c)
                         \/ Answer(c) \/ Refuse(c) \/ Cancel(c)
    \/ SelfExit
    \/ Return

Spec == Init /\ [][Next]_vars

-----------------------------------------------------------------------------
\* Properties.

\* As long as every granted call was carried out, the assumed state is the
\* state of the container whenever nobody is in a call: the daemon may see
\* concurrent calls in another order than goto_state, and that never goes
\* unnoticed.
AgreesAtRest == ~disturbed /\ InFlight = {} => assumed = daemon

\* Until a kill is carried out, concurrent calls that goto_state granted can be
\* carried out in some order: one of those in flight is acceptable to the
\* daemon, so a call that nobody overlaps, and a kill in any case, succeeds.
SomeCallAccepted ==
    ~disturbed /\ InFlight # {} =>
        /\ daemon # "Exited" => \E c \in InFlight : Accepted(call[c])
        /\ \A c \in InFlight : call[c] = "kill" => Accepted("kill")

\* kill is final: whatever fails or races, once goto_state has granted it no new
\* pause, unpause or kill of any clone is granted.  The daemon may still carry out
\* after it the calls that had been granted before.
KillIsFinal ==
    [][assumed = "Exited" =>
          assumed' = "Exited" /\ \A c \in Clones : call'[c] \in {call[c], "none"}]_vars

\* The keys that are published, and those of them that bind container port p.
Published == {k \in DOMAIN portmap : portmap[k] # Unpublished}
Bound(p) == {k \in Published : k.port = p /\ V4Bindings(k) # <<>>}

\* host_port(p) has an answer iff some protocol of p has an IPv4 binding, and it
\* is the first of one of them, in whatever order the HashMap is iterated; the
\* conversion fails iff some published key or binding is malformed.
HostPortFaithful ==
    /\ phase = "failed" => \E k \in Published : Malformed(k)
    /\ phase = "body" =>
          /\ \A k \in Published : ~Malformed(k)
          /\ DOMAIN ports = {p \in Ports : Bound(p) # {}}
          /\ \A p \in DOMAIN ports : \E k \in Bound(p) : ports[p] = Head(V4Bindings(k))

\* While the port map is read, HostPortFaithful holds of the keys read so far: no
\* published one was malformed, and a port has an answer iff one of them binds it.
PortsInv ==
    /\ unread \subseteq DOMAIN portmap
    /\ \A k \in Published \ unread : ~Malformed(k)
    /\ DOMAIN ports = {p \in Ports : Bound(p) \ unread # {}}
    /\ \A p \in DOMAIN ports : \E k \in Bound(p) \ unread : ports[p] = Head(V4Bindings(k))
    /\ phase = "body" => unread = {}
    /\ phase = "failed" => \E k \in Published : Malformed(k)

Awaiting(op) == {c \in Clones : call[c] = op}
One(b) == IF b THEN 1 ELSE 0

\* Until something was disturbed or a kill granted, the pauses and unpauses in
\* flight make up the difference between the assumed and the real state, and
\* only a kill in flight, of which there is one at most, separates Exited from it.
Balance ==
    ~disturbed =>
        /\ assumed = "Exited" <=> (daemon = "Exited" \/ Awaiting("kill") # {})
        /\ Cardinality(Awaiting("kill")) <= One(daemon # "Exited")
        /\ assumed # "Exited" =>
              One(assumed = "Paused") + Cardinality(Awaiting("unpause"))
                = One(daemon = "Paused") + Cardinality(Awaiting("pause"))

\* The inductive invariant: goto_state grants calls so that their number always
\* explains the difference between what is assumed and what is.
IInv == TypeOK /\ Balance

=============================================================================
