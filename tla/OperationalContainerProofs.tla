---------------------- MODULE OperationalContainerProofs ----------------------
(***************************************************************************)
(* Proofs about OperationalContainer: for any number of clones and calls   *)
(* the calls in flight account for the difference between the assumed and  *)
(* the real state.                                                         *)
(***************************************************************************)
EXTENDS OperationalContainer, FiniteSetTheorems, TLAPS

\* The callers of each kind can be counted, before and after a step.
LEMMA AwaitingFinite ==
  ASSUME NEW op
  PROVE  /\ IsFiniteSet(Awaiting(op)) /\ Cardinality(Awaiting(op)) \in Nat
         /\ (Awaiting(op) = {}) <=> (Cardinality(Awaiting(op)) = 0)
         /\ IsFiniteSet(Awaiting(op)') /\ Cardinality(Awaiting(op)') \in Nat
         /\ (Awaiting(op)' = {}) <=> (Cardinality(Awaiting(op)') = 0)
<1>1. Awaiting(op) \subseteq Clones /\ Awaiting(op)' \subseteq Clones
  BY DEF Awaiting
<1>2. IsFiniteSet(Awaiting(op)) /\ IsFiniteSet(Awaiting(op)')
  BY <1>1, ClonesAssumption, FS_Subset
<1>3. Cardinality(Awaiting(op)) \in Nat /\ Cardinality(Awaiting(op)') \in Nat
  BY <1>2, FS_CardinalityType
<1>4. /\ (Awaiting(op) = {}) <=> (Cardinality(Awaiting(op)) = 0)
      /\ (Awaiting(op)' = {}) <=> (Cardinality(Awaiting(op)') = 0)
  BY <1>2, FS_EmptySet
<1>5. QED
  BY <1>2, <1>3, <1>4

\* What a change of one clone's call does to the number of callers.
LEMMA AwaitingChanges ==
  ASSUME TypeOK, NEW c \in Clones, NEW s \in Calls,
         call' = [call EXCEPT ![c] = s], NEW op \in Calls
  PROVE  Cardinality(Awaiting(op)') = Cardinality(Awaiting(op)) + (IF s = op THEN 1 ELSE 0)
                                                               - (IF call[c] = op THEN 1 ELSE 0)
<1>0. IsFiniteSet(Awaiting(op)) /\ Cardinality(Awaiting(op)) \in Nat
  BY AwaitingFinite
<1>1. CASE call[c] = op /\ s # op
  <2>1. Awaiting(op)' = Awaiting(op) \ {c} /\ c \in Awaiting(op)
    BY <1>1 DEF Awaiting, TypeOK
  <2>2. Cardinality(Awaiting(op)') = Cardinality(Awaiting(op)) - 1
    BY <1>0, <2>1, FS_RemoveElement
  <2>3. QED
    BY <1>0, <1>1, <2>2 DEF One
<1>2. CASE call[c] # op /\ s = op
  <2>1. Awaiting(op)' = Awaiting(op) \cup {c} /\ c \notin Awaiting(op)
    BY <1>2 DEF Awaiting, TypeOK
  <2>2. Cardinality(Awaiting(op)') = Cardinality(Awaiting(op)) + 1
    BY <1>0, <2>1, FS_AddElement
  <2>3. QED
    BY <1>0, <1>2, <2>2 DEF One
<1>3. CASE (call[c] = op) <=> (s = op)
  <2>1. Awaiting(op)' = Awaiting(op)
    BY <1>3 DEF Awaiting, TypeOK
  <2>2. QED
    BY <1>0, <1>3, <2>1 DEF One
<1>4. QED
  BY <1>1, <1>2, <1>3

\* A step that neither makes nor ends a call leaves the numbers alone.
LEMMA Unmoved ==
  ASSUME call' = call
  PROVE  \A op \in Calls : Awaiting(op)' = Awaiting(op)
BY DEF Awaiting

\* The balance in numbers: k kills, u unpauses and p pauses are awaited.
Counts(d, a, s, k, u, p) ==
    ~d => /\ a = "Exited" <=> (s = "Exited" \/ k # 0)
          /\ k <= One(s # "Exited")
          /\ a # "Exited" => One(a = "Paused") + u = One(s = "Paused") + p

\* Balance, before and after a step.
LEMMA BalanceCounts ==
  /\ Balance <=> Counts(disturbed, assumed, daemon, Cardinality(Awaiting("kill")),
                        Cardinality(Awaiting("unpause")), Cardinality(Awaiting("pause")))
  /\ Balance' <=> Counts(disturbed', assumed', daemon', Cardinality(Awaiting("kill")'),
                         Cardinality(Awaiting("unpause")'), Cardinality(Awaiting("pause")'))
BY AwaitingFinite DEF Balance, Counts

\* Nobody is in a call at the beginning.
LEMMA InitInv == Init => IInv
<1> SUFFICES ASSUME Init PROVE IInv
  OBVIOUS
<1>1. TypeOK
  BY ExpectedAssumption, MaxCallsAssumption, PortsAssumption DEF Init, TypeOK, States, Calls
<1>2. \A op \in {"pause", "unpause", "kill"} : Awaiting(op) = {}
  BY DEF Init, Awaiting
<1>3. \A op \in {"pause", "unpause", "kill"} : Cardinality(Awaiting(op)) = 0
  BY <1>2, AwaitingFinite
<1>4. Balance
  <2>1. assumed \in {"Running", "Exited"}
    BY ExpectedAssumption DEF Init
  <2>2. ~disturbed => daemon = assumed
    BY Zenon DEF Init
  <2>3. QED
    BY <1>3, <2>1, <2>2, BalanceCounts DEF Counts, One
<1>5. QED
  BY <1>1, <1>4 DEF IInv

\* goto_state grants a call, or panics and changes nothing but the number of
\* calls made.
LEMMA InvokeInv ==
  ASSUME IInv, NEW c \in Clones, NEW op \in {"pause", "unpause", "kill"}, Invoke(c, op)
  PROVE  IInv'
<1> USE DEF IInv
<1>1. TypeOK'
  BY MaxCallsAssumption DEF Invoke, goto_state, Destination, TypeOK, portvars, States, Calls
<1>2. Balance'
  <2>1. CASE assumed \notin Allowed(op)
    BY <2>1, Unmoved DEF Invoke, goto_state, Balance, Awaiting
  <2>2. CASE assumed \in Allowed(op)
    <3>1. /\ assumed' = Destination(op) /\ daemon' = daemon /\ disturbed' = disturbed
          /\ call' = [call EXCEPT ![c] = op] /\ call[c] = "none"
      BY <2>2 DEF Invoke, goto_state
    <3>2. \A o \in {"pause", "unpause", "kill"} :
             Cardinality(Awaiting(o)') = Cardinality(Awaiting(o)) + One(o = op)
      <4> TAKE o \in {"pause", "unpause", "kill"}
      <4>1. TypeOK /\ o \in Calls /\ op \in Calls
        BY DEF Calls
      <4>2. Cardinality(Awaiting(o)') = Cardinality(Awaiting(o)) + (IF op = o THEN 1 ELSE 0)
                                                                 - (IF call[c] = o THEN 1 ELSE 0)
        BY <3>1, <4>1, AwaitingChanges, Zenon
      <4>3. Cardinality(Awaiting(o)) \in Nat /\ call[c] # o
        BY <3>1, AwaitingFinite
      <4>4. QED
        BY <4>2, <4>3 DEF One
    <3>3. QED
      BY <2>2, <3>1, <3>2, BalanceCounts, AwaitingFinite
      DEF Counts, TypeOK, States, One, Allowed, Destination
  <2>3. QED
    BY <2>1, <2>2
<1>3. QED
  BY <1>1, <1>2

\* A call the daemon carries out leaves the balance as it is.
LEMMA AnswerInv == ASSUME IInv, NEW c \in Clones, Answer(c) PROVE IInv'
<1> USE DEF IInv
<1>1. call[c] \in {"pause", "unpause", "kill"} /\ call[c] \in Calls
  BY DEF Answer, TypeOK, Calls
<1>2. TypeOK'
  BY <1>1 DEF Answer, Destination, TypeOK, portvars, States, Calls
<1>3. \A o \in {"pause", "unpause", "kill"} :
         Cardinality(Awaiting(o)') = Cardinality(Awaiting(o)) - One(o = call[c])
  <2> TAKE o \in {"pause", "unpause", "kill"}
  <2>1. TypeOK /\ o \in Calls /\ "none" \in Calls /\ call' = [call EXCEPT ![c] = "none"]
    BY DEF Answer, Calls
  <2>2. Cardinality(Awaiting(o)') = Cardinality(Awaiting(o)) + (IF "none" = o THEN 1 ELSE 0)
                                                             - (IF call[c] = o THEN 1 ELSE 0)
    BY <2>1, AwaitingChanges, Zenon
  <2>3. Cardinality(Awaiting(o)) \in Nat
    BY AwaitingFinite
  <2>4. QED
    BY <2>2, <2>3 DEF One
<1>4. /\ \A o \in {"pause", "unpause", "kill"} : Cardinality(Awaiting(o)) \in Nat
      /\ Cardinality(Awaiting(call[c])) # 0
  <2>1. c \in Awaiting(call[c])
    BY DEF Awaiting
  <2>2. QED
    BY <2>1, AwaitingFinite
<1>5. daemon \in Allowed(call[c]) /\ daemon' = Destination(call[c])
      /\ assumed' = assumed /\ disturbed' = disturbed
  BY DEF Answer, Accepted
<1>6. Balance'
  <2>1. CASE call[c] = "kill"
    BY <1>3, <1>4, <1>5, <2>1, BalanceCounts
    DEF Counts, TypeOK, States, One, Allowed, Destination
  <2>2. CASE call[c] = "pause"
    BY <1>3, <1>4, <1>5, <2>2, BalanceCounts
    DEF Counts, TypeOK, States, One, Allowed, Destination
  <2>3. CASE call[c] = "unpause"
    BY <1>3, <1>4, <1>5, <2>3, BalanceCounts
    DEF Counts, TypeOK, States, One, Allowed, Destination
  <2>4. QED
    BY <1>1, <2>1, <2>2, <2>3
<1>7. QED
  BY <1>2, <1>6

\* Every step keeps the invariant.
LEMMA InvInductive == IInv /\ [Next]_vars => IInv'
<1> SUFFICES ASSUME IInv, [Next]_vars PROVE IInv'
  OBVIOUS
<1>1. ASSUME NEW k \in PortKeys, ReadKey(k) \/ ReadFails(k) PROVE IInv'
  <2>1. DOMAIN ports' \subseteq Ports
    <3>1. CASE ports' = ports
      BY <3>1 DEF IInv, TypeOK
    <3>2. CASE ports' = [p \in DOMAIN ports \cup {k.port} |->
                          IF p = k.port THEN Head(V4Bindings(k)) ELSE ports[p]]
      BY <3>2, PortsAssumption DEF IInv, TypeOK
    <3>3. QED
      BY <1>1, <3>1, <3>2 DEF ReadKey, ReadFails
  <2>2. QED
    BY <1>1, <2>1 DEF ReadKey, ReadFails, IInv, TypeOK, Balance, Awaiting, statevars
<1>2. CASE Inspected
  BY <1>2 DEF Inspected, IInv, TypeOK, Balance, Awaiting, statevars
<1>3. ASSUME NEW c \in Clones, pause(c) \/ unpause(c) \/ kill(c) PROVE IInv'
  BY <1>3, InvokeInv DEF pause, unpause, kill
<1>4. ASSUME NEW c \in Clones, Answer(c) PROVE IInv'
  BY <1>4, AnswerInv
<1>5. ASSUME NEW c \in Clones, Refuse(c) \/ Cancel(c) PROVE IInv'
  BY <1>5 DEF Refuse, Cancel, Destination, IInv, TypeOK, Balance, portvars, Calls, States
<1>6. CASE SelfExit
  BY <1>6 DEF SelfExit, IInv, TypeOK, Balance, portvars, States
<1>7. CASE UNCHANGED vars
  BY <1>7 DEF IInv, TypeOK, Balance, Awaiting, vars, portvars, statevars
<1>8. QED
  BY <1>1, <1>2, <1>3, <1>4, <1>5, <1>6, <1>7 DEF Next, Return

\* For any number of clones and calls the calls in flight account for the
\* difference between the assumed and the real state of the container.
THEOREM InvCorrect == Spec => []IInv
<1>1. QED
  BY InitInv, InvInductive, PTL DEF Spec

\* With no call in flight assumed_state is right, unless a call failed, was
\* dropped, or the container changed by itself.
THEOREM AgreesAtRestCorrect == Spec => []AgreesAtRest
<1>1. IInv => AgreesAtRest
  <2> SUFFICES ASSUME IInv, ~disturbed, InFlight = {} PROVE assumed = daemon
    BY DEF AgreesAtRest
  <2>1. \A op \in {"pause", "unpause", "kill"} : Awaiting(op) = {}
    BY DEF InFlight, Awaiting
  <2>2. QED
    BY <2>1, AwaitingFinite DEF IInv, TypeOK, Balance, One, States
<1>2. QED
  BY InvCorrect, <1>1, PTL

\* One of the calls goto_state granted can always be carried out, and a kill at
\* any time.
THEOREM SomeCallAcceptedCorrect == Spec => []SomeCallAccepted
<1>1. IInv => SomeCallAccepted
  <2> SUFFICES ASSUME IInv, ~disturbed, InFlight # {}
               PROVE  /\ daemon # "Exited" => \E c \in InFlight : Accepted(call[c])
                      /\ \A c \in InFlight : call[c] = "kill" => Accepted("kill")
    BY DEF SomeCallAccepted
  <2> USE DEF IInv, TypeOK, States, Calls, Accepted, Allowed
  <2>1. \A c \in InFlight : call[c] = "kill" => Accepted("kill")
    <3>1. daemon = "Exited" => Awaiting("kill") = {}
      BY AwaitingFinite DEF Balance, One
    <3>2. QED
      BY <3>1 DEF InFlight, Awaiting
  <2>2. ASSUME daemon # "Exited" PROVE \E c \in InFlight : Accepted(call[c])
    <3>1. CASE Awaiting("kill") # {}
      BY <2>2, <3>1 DEF Awaiting, InFlight
    <3>2. CASE Awaiting("kill") = {}
      <4>1. assumed # "Exited"
        BY <2>2, <3>2 DEF Balance
      <4>2. CASE daemon = "Running" /\ Awaiting("pause") = {}
        <5>1. Cardinality(Awaiting("unpause")) = 0
          BY <4>1, <4>2, AwaitingFinite DEF Balance, One
        <5>2. Awaiting("unpause") = {}
          BY <5>1, AwaitingFinite
        <5>3. QED
          BY <3>2, <4>2, <5>2 DEF Awaiting, InFlight
      <4>3. CASE daemon = "Paused" /\ Awaiting("unpause") = {}
        <5>1. Cardinality(Awaiting("pause")) = 0
          BY <4>1, <4>3, AwaitingFinite DEF Balance, One
        <5>2. Awaiting("pause") = {}
          BY <5>1, AwaitingFinite
        <5>3. QED
          BY <3>2, <4>3, <5>2 DEF Awaiting, InFlight
      <4>4. CASE daemon = "Running" /\ Awaiting("pause") # {}
        BY <4>4 DEF Awaiting, InFlight
      <4>5. CASE daemon = "Paused" /\ Awaiting("unpause") # {}
        BY <4>5 DEF Awaiting, InFlight
      <4>6. QED
        BY <2>2, <4>2, <4>3, <4>4, <4>5
    <3>3. QED
      BY <3>1, <3>2
  <2>3. QED
    BY <2>1, <2>2
<1>2. QED
  BY InvCorrect, <1>1, PTL

\* Once a kill was granted, goto_state grants no further call of any clone.
THEOREM KillIsFinalCorrect == Spec => KillIsFinal
<1>1. IInv /\ [Next]_vars =>
        [assumed = "Exited" =>
           assumed' = "Exited" /\ \A c \in Clones : call'[c] \in {call[c], "none"}]_vars
  <2> SUFFICES ASSUME IInv, Next, assumed = "Exited"
               PROVE  assumed' = "Exited" /\ \A c \in Clones : call'[c] \in {call[c], "none"}
    BY DEF vars
  <2> USE DEF IInv, TypeOK, Allowed
  <2>1. ASSUME NEW k \in PortKeys, ReadKey(k) \/ ReadFails(k)
        PROVE  assumed' = "Exited" /\ \A c \in Clones : call'[c] \in {call[c], "none"}
    BY <2>1 DEF ReadKey, ReadFails, statevars
  <2>2. ASSUME NEW d \in Clones, pause(d) \/ unpause(d) \/ kill(d)
        PROVE  assumed' = "Exited" /\ \A c \in Clones : call'[c] \in {call[c], "none"}
    BY <2>2 DEF pause, unpause, kill, Invoke, goto_state
  <2>3. ASSUME NEW d \in Clones, Answer(d) \/ Refuse(d) \/ Cancel(d)
        PROVE  assumed' = "Exited" /\ \A c \in Clones : call'[c] \in {call[c], "none"}
    BY <2>3 DEF Answer, Refuse, Cancel
  <2>4. QED
    BY <2>1, <2>2, <2>3 DEF Next, Inspected, SelfExit, Return, vars, statevars
<1>2. QED
  BY InvCorrect, <1>1, PTL DEF Spec, KillIsFinal

\* The port map stays as the daemon reported it, and with it all that is read
\* out of it.
LEMMA PortMapFixed ==
  ASSUME portmap' = portmap
  PROVE  /\ Published' = Published /\ \A j : Malformed(j)' <=> Malformed(j)
         /\ \A j : V4Bindings(j)' = V4Bindings(j)
<1>1. Published' = Published
  BY DEF Published
<1>2. \A j : Malformed(j)' <=> Malformed(j)
  BY DEF Malformed
<1>3. \A j : V4Bindings(j)' = V4Bindings(j)
  BY DEF V4Bindings
<1>4. QED
  BY <1>1, <1>2, <1>3

\* Reading a key keeps what is known of the keys read.
LEMMA ReadKeyPorts ==
  ASSUME IInv, PortsInv, NEW k \in PortKeys, ReadKey(k) PROVE PortsInv'
<1>1. /\ phase = "inspect" /\ phase' = phase /\ portmap' = portmap
      /\ k \in unread /\ unread' = unread \ {k}
      /\ portmap[k] # Unpublished => ~Malformed(k)
  BY DEF ReadKey
<1>2. /\ Published' = Published /\ \A j : Malformed(j)' <=> Malformed(j)
      /\ \A j : V4Bindings(j)' = V4Bindings(j)
  BY <1>1, PortMapFixed
<1>3. \A p : Bound(p)' = Bound(p)
  BY <1>2 DEF Bound
<1>4. k \in DOMAIN portmap /\ k.port \in Ports
  BY <1>1, PortsAssumption DEF PortsInv
<1>5. \A j \in Published' \ unread' : ~Malformed(j)'
  BY <1>1, <1>2 DEF PortsInv, Published
<1>6. /\ DOMAIN ports' = {p \in Ports : Bound(p) \ unread' # {}}
      /\ \A p \in DOMAIN ports' : \E j \in Bound(p) \ unread' : ports'[p] = Head(V4Bindings(j))
  <2>1. CASE k \notin Bound(k.port)
    <3>1. ports' = ports
      BY <1>4, <2>1 DEF ReadKey, Bound, Published
    <3>2. \A p : k \notin Bound(p)
      BY <2>1 DEF Bound
    <3>3. \A p : Bound(p) \ unread' = Bound(p) \ unread
      BY <1>1, <3>2
    <3>4. QED
      BY <3>1, <3>3 DEF PortsInv
  <2>2. CASE k \in Bound(k.port)
    <3>1. \A p : p # k.port => Bound(p) \ unread' = Bound(p) \ unread
      BY <1>1 DEF Bound
    <3>2. k \in Bound(k.port) \ unread'
      BY <1>1, <2>2
    <3>3. CASE k.port \in DOMAIN ports
      <4>1. ports' = ports
        BY <3>3 DEF ReadKey
      <4>2. \A p : Bound(p) \ unread \subseteq Bound(p) \ unread'
        BY <1>1
      <4>3. DOMAIN ports = {p \in Ports : Bound(p) \ unread' # {}}
        BY <3>1, <3>2, <3>3 DEF PortsInv
      <4>4. \A p \in DOMAIN ports : \E j \in Bound(p) \ unread' : ports[p] = Head(V4Bindings(j))
        BY <4>2 DEF PortsInv
      <4>5. QED
        BY <4>1, <4>3, <4>4
    <3>4. CASE k.port \notin DOMAIN ports
      <4>1. ports' = [p \in DOMAIN ports \cup {k.port} |->
                        IF p = k.port THEN Head(V4Bindings(k)) ELSE ports[p]]
        BY <2>2, <3>4 DEF ReadKey, Bound, Published
      <4>2. DOMAIN ports' = DOMAIN ports \cup {k.port}
        BY <4>1
      <4>3. DOMAIN ports' = {p \in Ports : Bound(p) \ unread' # {}}
        BY <1>4, <3>1, <3>2, <4>2 DEF PortsInv
      <4>4. ASSUME NEW p \in DOMAIN ports'
            PROVE  \E j \in Bound(p) \ unread' : ports'[p] = Head(V4Bindings(j))
        <5>1. CASE p = k.port
          <6>1. ports'[p] = Head(V4Bindings(k))
            BY <4>1, <5>1
          <6>2. QED
            BY <3>2, <5>1, <6>1
        <5>2. CASE p # k.port
          <6>1. p \in DOMAIN ports /\ ports'[p] = ports[p]
            BY <4>1, <4>2, <5>2
          <6>2. QED
            BY <3>1, <5>2, <6>1 DEF PortsInv
        <5>3. QED
          BY <5>1, <5>2
      <4>5. QED
        BY <4>3, <4>4
    <3>5. QED
      BY <3>3, <3>4
  <2>3. QED
    BY <2>1, <2>2
<1>7. unread' \subseteq DOMAIN portmap'
  BY <1>1 DEF PortsInv
<1>8. QED
  BY <1>1, <1>2, <1>3, <1>5, <1>6, <1>7 DEF PortsInv

\* Every step keeps what is known of the keys read.
LEMMA PortsInductive ==
  ASSUME IInv, PortsInv, [Next]_vars PROVE PortsInv'
<1>1. ASSUME NEW k \in PortKeys, ReadKey(k) PROVE PortsInv'
  BY <1>1, ReadKeyPorts
<1>2. ASSUME portmap' = portmap, unread' = unread, ports' = ports,
             phase' = "body" => unread = {},
             phase' = "failed" => \E k \in Published : Malformed(k)
      PROVE  PortsInv'
  <2>1. /\ Published' = Published /\ \A j : Malformed(j)' <=> Malformed(j)
        /\ \A j : V4Bindings(j)' = V4Bindings(j)
    BY <1>2, PortMapFixed
  <2>2. \A p : Bound(p)' = Bound(p)
    BY <2>1 DEF Bound
  <2>3. QED
    BY <1>2, <2>1, <2>2 DEF PortsInv
<1>3. ASSUME NEW k \in PortKeys, ReadFails(k) PROVE PortsInv'
  <2>1. k \in Published /\ Malformed(k)
    BY <1>3 DEF ReadFails, PortsInv, Published
  <2>2. QED
    BY <1>2, <1>3, <2>1 DEF ReadFails
<1>4. CASE Inspected
  BY <1>2, <1>4 DEF Inspected
<1>5. CASE UNCHANGED portvars
  BY <1>2, <1>5 DEF portvars, PortsInv
<1>6. ASSUME NEW c \in Clones,
             pause(c) \/ unpause(c) \/ kill(c) \/ Answer(c) \/ Refuse(c) \/ Cancel(c)
      PROVE  UNCHANGED portvars
  BY <1>6 DEF pause, unpause, kill, Invoke, Answer, Refuse, Cancel
<1>7. SelfExit \/ Return \/ UNCHANGED vars => UNCHANGED portvars
  BY DEF SelfExit, Return, vars
<1>8. QED
  BY <1>1, <1>3, <1>4, <1>5, <1>6, <1>7 DEF Next

\* Whatever port map the daemon reports and in whatever order it is iterated,
\* host_port answers for exactly the ports with an IPv4 binding, with the first
\* of one of them, and the conversion fails iff something published is malformed.
THEOREM HostPortFaithfulCorrect == Spec => []HostPortFaithful
<1>1. Init => PortsInv
  <2> SUFFICES ASSUME Init PROVE PortsInv
    OBVIOUS
  <2>1. unread = DOMAIN portmap /\ phase = "inspect" /\ DOMAIN ports = {}
    BY DEF Init
  <2>2. Published \ unread = {} /\ \A p : Bound(p) \ unread = {}
    BY <2>1 DEF Published, Bound
  <2>3. QED
    BY <2>1, <2>2 DEF PortsInv
<1>2. IInv /\ PortsInv /\ [Next]_vars => PortsInv'
  BY PortsInductive
<1>3. PortsInv => HostPortFaithful
  BY DEF PortsInv, HostPortFaithful
<1>4. QED
  BY InvCorrect, <1>1, <1>2, <1>3, PTL DEF Spec

=============================================================================
