------------------------ MODULE ScopedNetworksProofs ------------------------
(***************************************************************************)
(* Proofs about ScopedNetworks: for any binaries, tests and namespaces the *)
(* tests of a binary share their singular network, and the tests of all    *)
(* binaries do if the daemon keeps names unique.                           *)
(***************************************************************************)
EXTENDS ScopedNetworks, TLAPS

\* A test between its daemon calls holds the lock of its binary, whose map has
\* no answer yet.
LockHeld ==
    \A t \in Tests : pc[t] \in {"create", "conflict", "join"} =>
        holder[BinaryOf[t]] = {t} /\ Entry(t) = NoNet

\* A test joins a network it has, and returns the one in the map.
ReturnsEntry ==
    \A t \in Tests : /\ pc[t] = "join" => id[t] \in Nets
                     /\ pc[t] # "done" => result[t] = "none"
                     /\ result[t] = "ok" => id[t] \in Nets /\ id[t] = Entry(t)

\* A network of the right name, which is there if nobody has pruned one.
Proper(w, s) == NameOf(w) = s /\ (s \notin injected => w \in exists)

\* The networks in the maps and those the tests have are proper.
AllProper ==
    /\ \A b \in Binaries, s \in Namespaces :
          singular[b][s] \in Nets => Proper(singular[b][s], s)
    /\ \A t \in Tests : id[t] \in Nets => Proper(id[t], NsOf[t])

\* A daemon that keeps names unique has one network per name.
OnePerName ==
    unique => \A v, w \in exists : NameOf(v) = NameOf(w) => v = w

\* The inductive invariant.
IInv == TypeOK /\ LockHeld /\ ReturnsEntry /\ AllProper /\ OnePerName

\* The network existing_dockertest_network picks is one of those of the name.
LEMMA HighestNamed ==
  ASSUME TypeOK, NEW s \in Namespaces, Named(s) # {}
  PROVE  Highest(s) \in Nets /\ Highest(s) \in exists /\ NameOf(Highest(s)) = s
<1>1. Named(s) \in SUBSET Nets
  BY DEF Named, TypeOK
<1>2. \E w \in Named(s) : \A v \in Named(s) : Stamp[v] <= Stamp[w]
  BY <1>1, StampAssumption
<1>3. Highest(s) \in Named(s)
  BY <1>2 DEF Highest
<1>4. QED
  BY <1>1, <1>3 DEF Named

\* The maps are empty and nobody has a network yet.
LEMMA InitInv == Init => IInv
<1> SUFFICES ASSUME Init PROVE IInv
  OBVIOUS
<1> USE SentinelAssumption, TestsAssumption DEF Init, Nets
<1>1. TypeOK
  BY DEF TypeOK
<1>2. LockHeld /\ ReturnsEntry /\ AllProper
  BY DEF LockHeld, ReturnsEntry, AllProper
<1>3. OnePerName
  BY DEF OnePerName, NameOf
<1>4. QED
  BY <1>1, <1>2, <1>3 DEF IInv

\* Why a test is refused its network: something went wrong for its namespace, the
\* map said so, the network it was in conflict with is gone, or the container it
\* runs in cannot join.
Refused(t) ==
    \/ NsOf[t] \in injected'
    \/ Entry(t) = Failed
    \/ pc[t] = "conflict" /\ Named(NsOf[t]) = {}
    \/ pc[t] = "join" /\ Self(t) # NoSelf /\ (id[t] \notin exists \/ Self(t) \in members[id[t]])

\* A test returns with the network w, or with none, and leaves e in the map.
ReturnsWith(t, r, w, e) ==
    /\ Return(t, r, w)
    /\ singular' = [singular EXCEPT ![BinaryOf[t]][NsOf[t]] = e]
    /\ holder[BinaryOf[t]] \subseteq {t}
    /\ Entry(t) # NoNet => e = Entry(t)
    /\ r = "ok" => w \in Nets /\ w = e
    /\ w \in Nets => Proper(w, NsOf[t])
    /\ e \in Nets => Proper(e, NsOf[t])
    /\ r # "ok" \/ e = Failed => Refused(t)
    /\ \/ members' = members
       \/ r = "ok" /\ Self(t) # NoSelf /\ members' = [members EXCEPT ![w] = @ \cup {Self(t)}]
    /\ injected' \in SUBSET Namespaces /\ injected \subseteq injected'
    /\ UNCHANGED <<unique, exists>>

\* Such a step keeps the invariant.
LEMMA ReturnInv ==
  ASSUME IInv, NEW t \in Tests, NEW r \in {"ok", "error", "panic"},
         NEW w \in Nets \cup {NoNet}, NEW e \in Nets \cup {NoNet, Failed},
         ReturnsWith(t, r, w, e)
  PROVE  IInv'
<1> USE DEF ReturnsWith
<1> USE TestsAssumption, SentinelAssumption DEF IInv
<1>1. /\ pc' = [pc EXCEPT ![t] = "done"] /\ result' = [result EXCEPT ![t] = r]
      /\ id' = [id EXCEPT ![t] = w] /\ holder' = [holder EXCEPT ![BinaryOf[t]] = {}]
  BY DEF Return, Release
<1>2. TypeOK'
  <2>1. members' \in [Nets -> SUBSET Containers]
    <3>1. CASE members' = members
      BY <3>1 DEF TypeOK
    <3>2. CASE /\ r = "ok" /\ Self(t) # NoSelf
               /\ members' = [members EXCEPT ![w] = @ \cup {Self(t)}]
      <4>1. Self(t) \in Containers
        BY <3>2, SelfAssumption DEF Self
      <4>2. QED
        BY <3>2, <4>1 DEF TypeOK
    <3>3. QED
      BY <3>1, <3>2
  <2>2. QED
    BY <1>1, <2>1 DEF TypeOK
<1>3. \A u \in Tests : Entry(u) # NoNet => Entry(u)' = Entry(u)
  BY DEF TypeOK, Entry
<1>4. Entry(t)' = e
  BY DEF TypeOK, Entry
<1>5. LockHeld'
  <2> SUFFICES ASSUME NEW u \in Tests, pc'[u] \in {"create", "conflict", "join"}
               PROVE  holder'[BinaryOf[u]] = {u} /\ Entry(u)' = NoNet
    BY DEF LockHeld
  <2>1. u # t /\ pc[u] = pc'[u]
    BY <1>1 DEF TypeOK
  <2>2. holder[BinaryOf[u]] = {u} /\ Entry(u) = NoNet
    BY <2>1 DEF LockHeld
  <2>3. BinaryOf[u] # BinaryOf[t]
    BY <2>1, <2>2
  <2>4. QED
    BY <1>1, <2>2, <2>3 DEF TypeOK, Entry
<1>6. ReturnsEntry'
  <2> SUFFICES ASSUME NEW u \in Tests
               PROVE  /\ pc'[u] = "join" => id'[u] \in Nets
                      /\ pc'[u] # "done" => result'[u] = "none"
                      /\ result'[u] = "ok" => id'[u] \in Nets /\ id'[u] = Entry(u)'
    BY DEF ReturnsEntry
  <2>1. CASE u = t
    BY <1>1, <1>4, <2>1 DEF TypeOK
  <2>2. CASE u # t
    <3>1. pc'[u] = pc[u] /\ id'[u] = id[u] /\ result'[u] = result[u]
      BY <1>1, <2>2 DEF TypeOK
    <3>2. Entry(u) \in Nets => Entry(u)' = Entry(u)
      BY <1>3
    <3>3. QED
      BY <3>1, <3>2 DEF ReturnsEntry
  <2>3. QED
    BY <2>1, <2>2
<1>7. AllProper' /\ OnePerName'
  <2>1. \A v, s : Proper(v, s) => Proper(v, s)'
    BY DEF Proper
  <2>2. \A u \in Tests : id'[u] \in Nets => Proper(id'[u], NsOf[u])
    BY <1>1 DEF TypeOK, AllProper
  <2>3. \A b \in Binaries, s \in Namespaces :
           singular'[b][s] \in Nets => Proper(singular'[b][s], s)
    BY DEF TypeOK, AllProper
  <2>4. AllProper'
    BY <2>1, <2>2, <2>3 DEF AllProper
  <2>5. OnePerName'
    BY DEF OnePerName
  <2>6. QED
    BY <2>4, <2>5
<1>8. QED
  BY <1>2, <1>5, <1>6, <1>7

\* A test goes on to its next daemon call, with the lock of its binary.
MovesTo(t, p, w) ==
    /\ pc[t] # "done" /\ pc' = [pc EXCEPT ![t] = p]
    /\ id' = [id EXCEPT ![t] = w]
    /\ holder' = [holder EXCEPT ![BinaryOf[t]] = {t}]
    /\ holder[BinaryOf[t]] \subseteq {t} /\ Entry(t) = NoNet
    /\ p = "join" => w \in Nets
    /\ p = "conflict" => Named(NsOf[t]) # {}
    /\ w \in Nets => NameOf(w) = NsOf[t] /\ (NsOf[t] \notin injected => w \in exists')
    /\ exists' \in SUBSET Nets /\ exists \subseteq exists'
    /\ OnePerName'
    /\ UNCHANGED <<singular, result, unique, members, injected>>

\* Such a step keeps the invariant.
LEMMA MoveInv ==
  ASSUME IInv, NEW t \in Tests, NEW p \in {"create", "conflict", "join"},
         NEW w \in Nets \cup {NoNet}, MovesTo(t, p, w)
  PROVE  IInv'
<1> USE DEF MovesTo
<1> USE TestsAssumption, SentinelAssumption DEF IInv
<1>1. TypeOK'
  BY DEF TypeOK
<1>2. \A u \in Tests : Entry(u)' = Entry(u)
  BY DEF Entry
<1>3. LockHeld'
  <2> SUFFICES ASSUME NEW u \in Tests, pc'[u] \in {"create", "conflict", "join"}
               PROVE  holder'[BinaryOf[u]] = {u} /\ Entry(u)' = NoNet
    BY DEF LockHeld
  <2>1. CASE u = t
    BY <1>2, <2>1 DEF TypeOK
  <2>2. CASE u # t
    <3>1. holder[BinaryOf[u]] = {u} /\ Entry(u) = NoNet
      BY <2>2 DEF LockHeld, TypeOK
    <3>2. BinaryOf[u] # BinaryOf[t]
      BY <2>2, <3>1
    <3>3. QED
      BY <1>2, <3>1, <3>2 DEF TypeOK
  <2>3. QED
    BY <2>1, <2>2
<1>4. ReturnsEntry'
  BY <1>2 DEF ReturnsEntry, TypeOK
<1>5. AllProper'
  <2>1. \A v, s : Proper(v, s) => Proper(v, s)'
    BY DEF Proper
  <2>2. ASSUME NEW u \in Tests, id'[u] \in Nets PROVE Proper(id[u], NsOf[u])'
    <3>1. CASE u = t
      BY <2>2, <3>1 DEF TypeOK, Proper
    <3>2. CASE u # t
      BY <2>1, <2>2, <3>2 DEF TypeOK, AllProper, Proper
    <3>3. QED
      BY <3>1, <3>2
  <2>3. ASSUME NEW b \in Binaries, NEW s \in Namespaces, singular'[b][s] \in Nets
        PROVE  Proper(singular[b][s], s)'
    BY <2>1, <2>3 DEF AllProper, Proper
  <2>4. QED
    BY <2>2, <2>3 DEF AllProper
<1>6. QED
  BY <1>1, <1>3, <1>4, <1>5

\* A test that returns, and one that goes on.
Returns(t) ==
    \E r \in {"ok", "error", "panic"}, w \in Nets \cup {NoNet}, e \in Nets \cup {NoNet, Failed} :
        ReturnsWith(t, r, w, e)
Moves(t) ==
    \E p \in {"create", "conflict", "join"}, w \in Nets \cup {NoNet} : MovesTo(t, p, w)

\* Every step of create_singular_network is one of the two.
LEMMA CallEffect ==
  ASSUME IInv, NEW t \in Tests, create_singular_network(t) PROVE Returns(t) \/ Moves(t)
<1> USE TestsAssumption, SentinelAssumption DEF IInv, Free, maps, daemon
<1>0. /\ BinaryOf[t] \in Binaries /\ NsOf[t] \in Namespaces
      /\ Entry(t) \in Nets \cup {NoNet, Failed}
      /\ singular = [singular EXCEPT ![BinaryOf[t]][NsOf[t]] = Entry(t)]
      /\ Entry(t) \in Nets => Proper(Entry(t), NsOf[t])
      /\ members \in [Nets -> SUBSET Containers]
  BY DEF TypeOK, Entry, AllProper
<1> DEFINE s == NsOf[t]
<1>1. Inject(t) => injected' \in SUBSET Namespaces /\ injected \subseteq injected'
  BY <1>0 DEF Inject, TypeOK
<1>2. injected \in SUBSET Namespaces /\ exists \in SUBSET Nets
  BY DEF TypeOK
<1>3. CASE Known(t)
  <2>1. ReturnsWith(t, "error", NoNet, Entry(t)) \/ ReturnsWith(t, "ok", Entry(t), Entry(t))
    BY <1>0, <1>2, <1>3 DEF Known, ReturnsWith, Refused
  <2>2. Entry(t) # NoNet
    BY <1>3 DEF Known
  <2>3. ReturnsWith(t, "ok", Entry(t), Entry(t)) => Entry(t) \in Nets
    BY <1>0 DEF ReturnsWith
  <2>4. QED
    BY <1>0, <2>1, <2>3 DEF Returns
<1>4. CASE Found(t)
  <2>1. Highest(s) \in Nets /\ Highest(s) \in exists /\ NameOf(Highest(s)) = s
    BY <1>0, <1>4, HighestNamed DEF Found
  <2>2. ReturnsWith(t, "ok", Highest(s), Highest(s))
    BY <1>0, <1>2, <1>4, <2>1 DEF Found, Record, Proper, ReturnsWith
  <2>3. QED
    BY <2>1, <2>2 DEF Returns
<1>5. CASE ListFails(t)
  <2>1. ReturnsWith(t, "error", NoNet, Entry(t))
    BY <1>0, <1>1, <1>5 DEF ListFails, ReturnsWith, Refused, Inject
  <2>2. QED
    BY <1>0, <2>1 DEF Returns
<1>6. CASE NotFound(t)
  <2>1. MovesTo(t, "create", id[t])
    BY <1>0, <1>2, <1>6 DEF NotFound, Hold, MovesTo, AllProper, Proper, OnePerName, TypeOK
  <2>2. QED
    BY <2>1 DEF Moves, TypeOK
<1>7. ASSUME pc[t] \in {"create", "conflict", "join"}
      PROVE  /\ holder[BinaryOf[t]] = {t} /\ Entry(t) = NoNet
             /\ holder = [holder EXCEPT ![BinaryOf[t]] = {t}]
  BY <1>7 DEF LockHeld, TypeOK
<1>8. CASE Create(t)
  <2>1. OnePerName'
    BY <1>8 DEF Create, OnePerName, Named, NameOf
  <2>2. MovesTo(t, "join", t)
    BY <1>0, <1>2, <1>7, <1>8, <2>1 DEF Create, MovesTo, Proper, NameOf, Nets
  <2>3. QED
    BY <2>2 DEF Moves, Nets
<1>9. CASE Conflict(t)
  <2>1. MovesTo(t, "conflict", id[t])
    BY <1>0, <1>2, <1>7, <1>9 DEF Conflict, MovesTo, AllProper, Proper, OnePerName, TypeOK
  <2>2. QED
    BY <2>1 DEF Moves, TypeOK
<1>10. CASE ConflictFound(t)
  <2>1. Highest(s) \in Nets /\ Highest(s) \in exists /\ NameOf(Highest(s)) = s
    BY <1>0, <1>10, HighestNamed DEF ConflictFound
  <2>2. MovesTo(t, "join", Highest(s))
    BY <1>0, <1>2, <1>7, <1>10, <2>1 DEF ConflictFound, MovesTo, Proper, OnePerName
  <2>3. QED
    BY <2>1, <2>2 DEF Moves
<1>11. CASE ConflictGone(t)
  <2>1. ReturnsWith(t, "panic", NoNet, Entry(t))
    BY <1>0, <1>2, <1>7, <1>11 DEF ConflictGone, ReturnsWith, Refused
  <2>2. QED
    BY <1>0, <2>1 DEF Returns
<1>12. CASE CreateFails(t)
  <2>1. ReturnsWith(t, "error", NoNet, Failed)
    BY <1>0, <1>1, <1>7, <1>12 DEF CreateFails, Record, ReturnsWith, Refused, Inject
  <2>2. QED
    BY <2>1 DEF Returns
<1>13. CASE Join(t)
  <2>1. id[t] \in Nets /\ Proper(id[t], NsOf[t])
    BY <1>13 DEF Join, ReturnsEntry, AllProper
  <2>2. \/ members' = members
        \/ Self(t) # NoSelf /\ members' = [members EXCEPT ![id[t]] = @ \cup {Self(t)}]
    BY <1>13 DEF Join
  <2>3. ReturnsWith(t, "ok", id[t], id[t])
    BY <1>0, <1>2, <1>7, <1>13, <2>1, <2>2 DEF Join, Record, ReturnsWith
  <2>4. QED
    BY <2>1, <2>3 DEF Returns
<1>14. CASE JoinFails(t)
  <2>1. ReturnsWith(t, "error", NoNet, Failed)
    BY <1>0, <1>1, <1>2, <1>7, <1>14 DEF JoinFails, Record, ReturnsWith, Refused, Inject
  <2>2. QED
    BY <2>1 DEF Returns
<1>15. QED
  BY <1>3, <1>4, <1>5, <1>6, <1>8, <1>9, <1>10, <1>11, <1>12, <1>13, <1>14
  DEF create_singular_network

\* create_singular_network keeps the invariant.
LEMMA CallInv ==
  ASSUME IInv, NEW t \in Tests, create_singular_network(t) PROVE IInv'
<1>1. Returns(t) => IInv'
  BY ReturnInv DEF Returns
<1>2. Moves(t) => IInv'
  BY MoveInv DEF Moves
<1>3. QED
  BY <1>1, <1>2, CallEffect

\* Every step keeps the invariant.
LEMMA InvInductive == IInv /\ [Next]_vars => IInv'
<1> SUFFICES ASSUME IInv, [Next]_vars PROVE IInv'
  OBVIOUS
<1>1. ASSUME NEW t \in Tests, create_singular_network(t) PROVE IInv'
  BY <1>1, CallInv
<1>2. ASSUME NEW w \in Nets, Prune(w) PROVE IInv'
  <2> USE TestsAssumption DEF IInv, maps, Prune
  <2>1. TypeOK'
    BY <1>2 DEF TypeOK, NameOf, Nets
  <2>2. LockHeld' /\ ReturnsEntry'
    BY <1>2 DEF LockHeld, ReturnsEntry, Entry
  <2>3. \A v, s : Proper(v, s) => Proper(v, s)'
    BY <1>2 DEF Proper
  <2>4. AllProper'
    BY <1>2, <2>3 DEF AllProper
  <2>5. OnePerName'
    BY <1>2 DEF OnePerName
  <2>6. QED
    BY <2>1, <2>2, <2>4, <2>5
<1>3. CASE UNCHANGED vars
  BY <1>3 DEF IInv, TypeOK, LockHeld, ReturnsEntry, Entry, AllProper, Proper, OnePerName, vars,
              maps, daemon
<1>4. QED
  BY <1>1, <1>2, <1>3 DEF Next, Exit

\* The invariant holds for any binaries, tests, namespaces and failures.
THEOREM InvCorrect == Spec => []IInv
<1>1. QED
  BY InitInv, InvInductive, PTL DEF Spec

\* The tests of a binary that get a singular network for a namespace get the
\* same one, whatever the daemon and the other binaries do.
THEOREM SharedInBinaryCorrect == Spec => []SharedInBinary
<1>1. IInv => SharedInBinary
  BY DEF IInv, ReturnsEntry, SharedInBinary, Got, Entry
<1>2. QED
  BY InvCorrect, <1>1, PTL

\* With a daemon that keeps names unique, tests of any binaries share a network
\* if and only if they are in one namespace, as long as nothing else goes wrong.
THEOREM SharedByNameCorrect == Spec => []SharedByName
<1>1. IInv => SharedByName
  <2> SUFFICES ASSUME IInv, NEW t \in Tests, NEW u \in Tests, Got(t), Got(u), unique,
                      NsOf[t] \notin injected, NsOf[u] \notin injected
               PROVE  id[t] = id[u] <=> NsOf[t] = NsOf[u]
    BY DEF SharedByName
  <2>1. Proper(id[t], NsOf[t]) /\ Proper(id[u], NsOf[u])
    BY DEF IInv, ReturnsEntry, AllProper, Got
  <2>2. QED
    BY <2>1 DEF IInv, OnePerName, Proper
<1>2. QED
  BY InvCorrect, <1>1, PTL

\* Nobody but a binary in the same container keeps a test from joining a network
\* it has found or created: each of the reasons comes down to that or to a fault.
LEMMA RefusedExplained ==
  ASSUME IInv, RaceInv, NEW t \in Tests, Refused(t)
  PROVE  NsOf[t] \in injected \cup injected' \/ Shares(BinaryOf[t])
<1> USE TestsAssumption, SelfAssumption, SentinelAssumption
<1>1. CASE Entry(t) = Failed
  BY <1>1 DEF RaceInv, Entry
<1>2. CASE pc[t] = "conflict" /\ Named(NsOf[t]) = {}
  BY <1>2 DEF RaceInv
<1>3. CASE pc[t] = "join" /\ Self(t) # NoSelf /\ id[t] \notin exists
  BY <1>3 DEF IInv, ReturnsEntry, AllProper, Proper
<1>4. CASE pc[t] = "join" /\ Self(t) # NoSelf /\ Self(t) \in members[id[t]]
  <2>1. id[t] \in Nets /\ NameOf(id[t]) = NsOf[t] /\ Entry(t) = NoNet
    BY <1>4 DEF IInv, ReturnsEntry, AllProper, Proper, LockHeld
  <2>2. PICK b \in Binaries : SelfOf[b] = Self(t) /\ singular[b][NsOf[t]] = id[t]
    BY <1>4, <2>1 DEF RaceInv
  <2>3. b # BinaryOf[t]
    BY <2>1, <2>2 DEF Entry
  <2>4. QED
    BY <1>4, <2>2, <2>3 DEF Shares, Self
<1>5. QED
  BY <1>1, <1>2, <1>3, <1>4 DEF Refused

\* A test that returns leaves the race harmless.
LEMMA ReturnRace ==
  ASSUME IInv, RaceInv, NEW t \in Tests, NEW r \in {"ok", "error", "panic"},
         NEW w \in Nets \cup {NoNet}, NEW e \in Nets \cup {NoNet, Failed},
         ReturnsWith(t, r, w, e)
  PROVE  RaceInv'
<1> USE TestsAssumption, SentinelAssumption
<1>1. /\ pc' = [pc EXCEPT ![t] = "done"] /\ result' = [result EXCEPT ![t] = r]
      /\ singular' = [singular EXCEPT ![BinaryOf[t]][NsOf[t]] = e]
      /\ Entry(t) # NoNet => e = Entry(t)
      /\ exists' = exists /\ injected \subseteq injected'
  BY DEF ReturnsWith, Return
<1>2. r # "ok" \/ e = Failed => NsOf[t] \in injected' \/ Shares(BinaryOf[t])
  BY <1>1, RefusedExplained DEF ReturnsWith
<1>3. RaceHarmless'
  BY <1>1, <1>2 DEF RaceInv, RaceHarmless, IInv, TypeOK, Shares
<1>4. ASSUME NEW b \in Binaries, NEW s \in Namespaces, singular'[b][s] = Failed
      PROVE  s \in injected' \/ Shares(b)
  BY <1>1, <1>2, <1>4 DEF RaceInv, IInv, TypeOK
<1>5. ASSUME NEW u \in Tests, pc'[u] = "conflict"
      PROVE  NsOf[u] \in injected' \/ Named(NsOf[u])' # {}
  <2>1. pc[u] = "conflict"
    BY <1>1, <1>5 DEF IInv, TypeOK
  <2>2. Named(NsOf[u])' = Named(NsOf[u])
    BY <1>1 DEF Named
  <2>3. QED
    BY <1>1, <2>1, <2>2 DEF RaceInv
<1>6. ASSUME NEW v \in Nets, NEW c \in members'[v]
      PROVE  \E b \in Binaries : SelfOf[b] = c /\ singular'[b][NameOf(v)] = v
  <2>1. NameOf(v) \in Namespaces
    BY DEF NameOf, Nets
  <2>2. CASE c \in members[v]
    <3>1. PICK b \in Binaries : SelfOf[b] = c /\ singular[b][NameOf(v)] = v
      BY <2>2 DEF RaceInv
    <3>2. singular'[b][NameOf(v)] = v
      BY <1>1, <2>1, <3>1 DEF IInv, TypeOK, Entry
    <3>3. QED
      BY <3>1, <3>2
  <2>3. CASE c \notin members[v]
    <3>1. r = "ok" /\ v = w /\ c = Self(t) /\ members \in [Nets -> SUBSET Containers]
      BY <1>6, <2>3 DEF ReturnsWith, IInv, TypeOK
    <3>2. w = e /\ NameOf(w) = NsOf[t]
      BY <3>1 DEF ReturnsWith, Proper
    <3>3. SelfOf[BinaryOf[t]] = c /\ singular'[BinaryOf[t]][NameOf(v)] = v
      BY <1>1, <3>1, <3>2 DEF Self, IInv, TypeOK
    <3>4. QED
      BY <3>3
  <2>4. QED
    BY <2>2, <2>3
<1>7. QED
  BY <1>3, <1>4, <1>5, <1>6 DEF RaceInv, Shares

\* So does one that goes on.
LEMMA MoveRace ==
  ASSUME IInv, RaceInv, NEW t \in Tests, NEW p \in {"create", "conflict", "join"},
         NEW w \in Nets \cup {NoNet}, MovesTo(t, p, w)
  PROVE  RaceInv'
<1>1. /\ pc' = [pc EXCEPT ![t] = p] /\ exists \subseteq exists'
      /\ UNCHANGED <<singular, result, members, injected>>
      /\ p = "conflict" => Named(NsOf[t]) # {}
  BY DEF MovesTo
<1>2. RaceHarmless'
  BY <1>1 DEF RaceInv, RaceHarmless
<1>3. ASSUME NEW u \in Tests, pc'[u] = "conflict"
      PROVE  NsOf[u] \in injected' \/ Named(NsOf[u])' # {}
  <2>1. Named(NsOf[u]) \subseteq Named(NsOf[u])'
    BY <1>1 DEF Named
  <2>2. NsOf[u] \in injected \/ Named(NsOf[u]) # {}
    <3>1. CASE u = t
      <4>1. p = "conflict"
        BY <1>1, <1>3, <3>1 DEF IInv, TypeOK
      <4>2. QED
        BY <1>1, <3>1, <4>1
    <3>2. CASE u # t
      <4>1. pc[u] = "conflict"
        BY <1>1, <1>3, <3>2 DEF IInv, TypeOK
      <4>2. QED
        BY <4>1 DEF RaceInv
    <3>3. QED
      BY <3>1, <3>2
  <2>3. QED
    BY <1>1, <2>1, <2>2
<1>4. QED
  BY <1>1, <1>2, <1>3 DEF RaceInv

\* Every step leaves the race harmless.
LEMMA RaceInductive ==
  ASSUME IInv, RaceInv, [Next]_vars PROVE RaceInv'
<1>1. ASSUME NEW t \in Tests, create_singular_network(t) PROVE RaceInv'
  <2>1. Returns(t) => RaceInv'
    BY ReturnRace DEF Returns
  <2>2. Moves(t) => RaceInv'
    BY MoveRace DEF Moves
  <2>3. QED
    BY <1>1, <2>1, <2>2, CallEffect
<1>2. ASSUME NEW w \in Nets, Prune(w) PROVE RaceInv'
  <2>1. /\ exists' = exists \ {w} /\ injected' = injected \cup {NameOf(w)}
        /\ UNCHANGED <<singular, pc, result, members>>
    BY <1>2 DEF Prune, maps
  <2>2. RaceHarmless'
    BY <2>1 DEF RaceInv, RaceHarmless
  <2>3. ASSUME NEW u \in Tests, pc'[u] = "conflict"
        PROVE  NsOf[u] \in injected' \/ Named(NsOf[u])' # {}
    <3>1. CASE NameOf(w) = NsOf[u]
      BY <2>1, <3>1
    <3>2. CASE NameOf(w) # NsOf[u]
      <4>1. Named(NsOf[u])' = Named(NsOf[u])
        BY <2>1, <3>2 DEF Named
      <4>2. QED
        BY <2>1, <2>3, <4>1 DEF RaceInv
    <3>3. QED
      BY <3>1, <3>2
  <2>4. QED
    BY <2>1, <2>2, <2>3 DEF RaceInv
<1>3. CASE UNCHANGED vars
  BY <1>3 DEF RaceInv, RaceHarmless, Named, vars, maps, daemon
<1>4. QED
  BY <1>1, <1>2, <1>3 DEF Next, Exit

\* However many binaries race for a network, no test is refused it unless a call
\* fails by itself, somebody prunes it, or two binaries share one container.
THEOREM RaceHarmlessCorrect == Spec => []RaceHarmless
<1>1. Init => RaceInv
  <2> SUFFICES ASSUME Init PROVE RaceInv
    OBVIOUS
  <2>1. NoNet # Failed
    BY DEF NoNet, Failed
  <2>2. QED
    BY <2>1, TestsAssumption DEF Init, RaceInv, RaceHarmless
<1>2. IInv /\ RaceInv /\ [Next]_vars => RaceInv'
  BY RaceInductive
<1>3. RaceInv => RaceHarmless
  BY DEF RaceInv
<1>4. QED
  BY InvCorrect, <1>1, <1>2, <1>3, PTL DEF Spec

=============================================================================
