----------------------- MODULE DynamicContainersProofs -----------------------
(***************************************************************************)
(* Proofs about DynamicContainers: for any tests, names and failures the   *)
(* map agrees with the daemon, so that a body keeps the container it was   *)
(* given, and all starts of a container come to one result.                *)
(***************************************************************************)
EXTENDS DynamicContainers, TLAPS

\* The initial state satisfies the invariant.
LEMMA InitInv == Init => IInv
BY IdsAssumption
DEF Init, IInv, TypeOK, EntryCurrent, HandedCurrent, StartRecorded, LockHeld, BodyStarted,
    Statuses, Phases, Slots, States, Ids, Networks

\* Every test has a network, and only an isolated one is its own.
LEMMA SettingType ==
  ASSUME setting \in Settings, NEW t \in Tests
  PROVE  /\ Mode(t) \in NetworkModes /\ NetworkOf(t) \in Networks
         /\ Mode(t) = "Isolated" => NetworkOf(t) = t
         /\ Mode(t) # "Isolated" => NetworkOf(t) \notin Tests
BY SettingsAssumption DEF Mode, NetworkOf

\* What a create does, whichever branch it takes: it leaves the entry alone or
\* makes one for the container the daemon has, and hands out the entry's id.
Creates(t, n, c, i, s, e, k) ==
    /\ ctr' = [ctr EXCEPT ![n] = c] /\ id' = [id EXCEPT ![n] = i]
    /\ status' = [status EXCEPT ![n] = s] /\ cid' = [cid EXCEPT ![n] = e]
    /\ maker' = [maker EXCEPT ![n] = k]
    /\ status[n] # "Absent" => i = id[n] /\ s = status[n] /\ e = cid[n] /\ k = maker[n]
    /\ c # "absent" => i # NoId
    /\ s # "Absent" => e # NoId /\ e = i /\ k \in Tests
    /\ found' = found
    /\ \/ slot' = [slot EXCEPT ![t][n] = "failed"] /\ hid' = hid
       \/ /\ s # "Absent" /\ hid' = [hid EXCEPT ![t][n] = e]
          /\ \E x \in {"pending", "external"} : slot' = [slot EXCEPT ![t][n] = x]

\* Every branch of create is such a step, save the inspection that a removal is
\* to follow.
LEMMA CreateEffect ==
  ASSUME NEW t \in Tests, NEW n \in Names, IInv, Create(t, n), ~FoundOther(t, n)
  PROVE  /\ pc[t] = "ignite" /\ slot[t][n] = "idle" /\ UNCHANGED <<setting, pc, deleted>>
         /\ n \in Dynamic => ~Locked
         /\ attached' \in [Names -> SUBSET Networks]
         /\ \E c \in States, i \in Ids \cup {NoId}, s \in Statuses, e \in Ids \cup {NoId},
               k \in Tests \cup {NoId} : Creates(t, n, c, i, s, e, k)
<1> USE DEF Creates, SetSlot, Hand, Insert, Refused, registry, daemon, own
<1>0. /\ pc[t] = "ignite" /\ slot[t][n] = "idle" /\ UNCHANGED <<setting, pc>>
      /\ n \in Dynamic => ~Locked
      /\ status \in [Names -> Statuses] /\ cid \in [Names -> Ids \cup {NoId}]
      /\ maker \in [Names -> Tests \cup {NoId}]
      /\ id \in [Names -> Ids \cup {NoId}] /\ attached \in [Names -> SUBSET Networks]
      /\ ctr \in [Names -> States]
      /\ status[n] # "Absent" => cid[n] # NoId /\ cid[n] = id[n] /\ maker[n] \in Tests
      /\ ctr[n] # "absent" => id[n] # NoId
      /\ status = [status EXCEPT ![n] = status[n]] /\ cid = [cid EXCEPT ![n] = cid[n]]
      /\ maker = [maker EXCEPT ![n] = maker[n]]
      /\ ctr = [ctr EXCEPT ![n] = ctr[n]] /\ id = [id EXCEPT ![n] = id[n]]
  BY DEF Create, IInv, TypeOK, EntryCurrent
<1>1. NetworkOf(t) \in Networks
  BY SettingType DEF IInv, TypeOK
<1>2. CASE status[n] = "Absent" /\ FoundRunning(t, n)
  <2>1. Creates(t, n, ctr[n], id[n], "RunningPrior", id[n], t)
    BY <1>0, <1>2 DEF FoundRunning
  <2>2. attached' \in [Names -> SUBSET Networks]
    BY <1>0, <1>1, <1>2 DEF FoundRunning, Connect
  <2>3. deleted' = deleted
    BY <1>2 DEF FoundRunning
  <2> HIDE DEF Creates
  <2>4. QED
    BY <1>0, <2>1, <2>2, <2>3 DEF Statuses
<1>4. CASE status[n] = "Absent" /\ NotFound(t, n)
  <2>1. \/ Creates(t, n, "created", t, "Pending", t, t)
        \/ Creates(t, n, "created", t, "Absent", cid[n], maker[n])
    BY <1>0, <1>4, IdsAssumption DEF NotFound, Ids
  <2>2. attached' \in [Names -> SUBSET Networks]
    BY <1>0, <1>1, <1>4 DEF NotFound
  <2>3. deleted' = deleted
    BY <1>4 DEF NotFound
  <2> HIDE DEF Creates
  <2>4. QED
    BY <1>0, <2>1, <2>2, <2>3 DEF Statuses, States, Ids
<1>5. CASE Refused(t, n)
  BY <1>0, <1>5
<1>6. CASE CreateJoin(t, n)
  <2>1. Creates(t, n, ctr[n], id[n], status[n], cid[n], maker[n]) /\ deleted' = deleted
    BY <1>0, <1>6 DEF CreateJoin
  <2>2. attached' \in [Names -> SUBSET Networks]
    BY <1>0, <1>1, <1>6 DEF CreateJoin, JoinConnects, Connect
  <2> HIDE DEF Creates
  <2>3. QED
    BY <1>0, <2>1, <2>2
<1>7. CASE IncludeFirst(t, n)
  <2>1. \/ Creates(t, n, ctr[n], id[n], "Included", id[n], t)
        \/ Creates(t, n, ctr[n], id[n], "Absent", cid[n], maker[n])
    BY <1>0, <1>7 DEF IncludeFirst
  <2>2. attached' \in [Names -> SUBSET Networks]
    BY <1>0, <1>1, <1>7 DEF IncludeFirst, Connect
  <2>3. deleted' = deleted
    BY <1>7 DEF IncludeFirst
  <2> HIDE DEF Creates
  <2>4. QED
    BY <1>0, <2>1, <2>2, <2>3 DEF Statuses
<1>8. CASE IncludeJoin(t, n)
  <2>1. Creates(t, n, ctr[n], id[n], status[n], cid[n], maker[n]) /\ deleted' = deleted
    BY <1>0, <1>8 DEF IncludeJoin
  <2>2. attached' \in [Names -> SUBSET Networks]
    BY <1>0, <1>1, <1>8 DEF IncludeJoin, JoinConnects, Connect
  <2> HIDE DEF Creates
  <2>3. QED
    BY <1>0, <2>1, <2>2
<1>9. QED
  BY <1>2, <1>4, <1>5, <1>6, <1>7, <1>8 DEF Create, CreateFirst, CreateRefused

\* StaticContainers::create keeps the invariant.
LEMMA CreateInv ==
  ASSUME NEW t \in Tests, NEW n \in Names, IInv, Create(t, n), ~FoundOther(t, n)
  PROVE  IInv'
<1> USE DEF IInv
<1>0. /\ pc[t] = "ignite" /\ slot[t][n] = "idle" /\ UNCHANGED <<setting, pc, deleted>>
      /\ n \in Dynamic => ~Locked
      /\ attached' \in [Names -> SUBSET Networks]
  BY CreateEffect
<1>1. PICK c \in States, i \in Ids \cup {NoId}, s \in Statuses, e \in Ids \cup {NoId},
           k \in Tests \cup {NoId} : Creates(t, n, c, i, s, e, k)
  BY CreateEffect
<1> USE DEF Creates
<1>2. TypeOK'
  <2>1. /\ status' \in [Names -> Statuses] /\ cid' \in [Names -> Ids \cup {NoId}]
        /\ id' \in [Names -> Ids \cup {NoId}] /\ maker' \in [Names -> Tests \cup {NoId}]
        /\ ctr' \in [Names -> States]
    BY <1>1 DEF TypeOK
  <2>2. hid' \in [Tests -> [Names -> Ids \cup {NoId}]]
    <3>1. hid \in [Tests -> [Names -> Ids \cup {NoId}]]
      BY DEF TypeOK
    <3>2. [hid EXCEPT ![t][n] = e] \in [Tests -> [Names -> Ids \cup {NoId}]]
      BY <3>1
    <3>3. QED
      BY <1>1, <3>1, <3>2
  <2>3. slot' \in [Tests -> [Names -> Slots]]
    <3>1. ASSUME NEW x \in Slots PROVE [slot EXCEPT ![t][n] = x] \in [Tests -> [Names -> Slots]]
      BY DEF TypeOK
    <3>2. QED
      BY <1>1, <3>1 DEF Slots
  <2>4. QED
    BY <1>0, <1>1, <2>1, <2>2, <2>3 DEF TypeOK
<1>3. EntryCurrent'
  <2>1. \A m \in Names : m # n => /\ status'[m] = status[m] /\ cid'[m] = cid[m]
                                  /\ id'[m] = id[m] /\ ctr'[m] = ctr[m]
                                  /\ maker'[m] = maker[m]
    BY <1>1 DEF TypeOK
  <2>2. status'[n] = s /\ cid'[n] = e /\ id'[n] = i /\ ctr'[n] = c /\ maker'[n] = k
    BY <1>1 DEF TypeOK
  <2>3. QED
    BY <1>1, <2>1, <2>2 DEF EntryCurrent
<1>4. \A u \in Tests, m \in Names : u # t \/ m # n => /\ slot'[u][m] = slot[u][m]
                                                     /\ hid'[u][m] = hid[u][m]
  <2>1. CASE slot' = [slot EXCEPT ![t][n] = "failed"] /\ hid' = hid
    BY <2>1 DEF TypeOK
  <2>2. ASSUME NEW x, slot' = [slot EXCEPT ![t][n] = x], hid' = [hid EXCEPT ![t][n] = e]
        PROVE  \A u \in Tests, m \in Names : u # t \/ m # n => /\ slot'[u][m] = slot[u][m]
                                                             /\ hid'[u][m] = hid[u][m]
    BY <2>2 DEF TypeOK
  <2>3. QED
    BY <1>1, <2>1, <2>2
<1>5. /\ slot'[t][n] \in {"failed", "pending", "external"}
      /\ hid'[t][n] # NoId => status'[n] # "Absent" /\ hid'[t][n] = cid'[n]
      /\ slot'[t][n] # "failed" => hid'[t][n] # NoId
  <2>1. \/ slot'[t][n] = "failed" /\ hid'[t][n] = hid[t][n]
        \/ slot'[t][n] \in {"pending", "external"} /\ hid'[t][n] = e /\ s # "Absent"
    <3>1. ASSUME NEW x, slot' = [slot EXCEPT ![t][n] = x] PROVE slot'[t][n] = x
      BY <3>1 DEF TypeOK
    <3>2. hid' = [hid EXCEPT ![t][n] = e] => hid'[t][n] = e
      BY DEF TypeOK
    <3>3. QED
      BY <1>1, <3>1, <3>2
  <2>2. status'[n] = s /\ cid'[n] = e
    BY <1>1 DEF TypeOK
  <2>3. hid[t][n] # NoId => status[n] # "Absent" /\ hid[t][n] = cid[n]
    BY DEF HandedCurrent
  <2>4. QED
    BY <1>1, <2>1, <2>2, <2>3
<1>6. \A m \in Names : status[m] # "Absent" => status'[m] = status[m] /\ cid'[m] = cid[m]
  BY <1>1 DEF TypeOK
<1>7. HandedCurrent'
  BY <1>4, <1>5, <1>6 DEF HandedCurrent
<1>8. StartRecorded'
  BY <1>4, <1>5, <1>6 DEF StartRecorded
<1>81. LockHeld'
  <2>1. ASSUME NEW u \in Tests, NEW m \in Names, slot'[u][m] = "removing"
        PROVE  /\ m \in Uses[u] \cap Dynamic /\ pc'[u] = "ignite"
               /\ status'[m] = "Absent" /\ found'[u][m] = id'[m]
    <3>1. slot[u][m] = "removing"
      BY <1>4, <1>5, <2>1
    <3>2. m # n
      BY <1>0, <3>1 DEF Locked, LockHeld
    <3>3. status'[m] = status[m] /\ id'[m] = id[m] /\ found'[u][m] = found[u][m]
      BY <1>1, <3>2 DEF TypeOK
    <3>4. QED
      BY <1>0, <3>1, <3>3 DEF LockHeld
  <2>2. QED
    BY <1>4, <1>5, <2>1 DEF LockHeld
<1>9. BodyStarted'
  BY <1>0, <1>4, UsesAssumption DEF TypeOK, BodyStarted
<1>10. QED
  BY <1>2, <1>3, <1>7, <1>8, <1>81, <1>9

\* The inspection of a container that does not run, and its removal, keep it.
LEMMA RemoveInv ==
  ASSUME NEW t \in Tests, NEW n \in Names, IInv,
         (Create(t, n) /\ FoundOther(t, n)) \/ RemoveFound(t, n)
  PROVE  IInv'
<1> USE DEF IInv, SetSlot, registry, daemon
<1>1. CASE Create(t, n) /\ FoundOther(t, n)
  <2>0. /\ slot' = [slot EXCEPT ![t][n] = "removing"] /\ slot[t][n] = "idle"
        /\ found' = [found EXCEPT ![t][n] = id[n]] /\ pc[t] = "ignite"
        /\ UNCHANGED <<setting, registry, pc, hid, daemon>>
    BY <1>1 DEF Create, FoundOther
  <2>1. TypeOK'
    BY <2>0 DEF TypeOK, Slots
  <2>2. EntryCurrent' /\ HandedCurrent' /\ StartRecorded' /\ BodyStarted'
    BY <2>0 DEF TypeOK, EntryCurrent, HandedCurrent, StartRecorded, BodyStarted
  <2>3. n \in Uses[t] \cap Dynamic /\ ~Locked /\ status[n] = "Absent"
    <3>1. n \in Dynamic
      BY <1>1, <2>0 DEF Create, IncludeFirst, IncludeJoin, FoundOther, Hand, Refused, TypeOK
    <3>2. QED
      BY <1>1, <2>0, <3>1 DEF Create, CreateFirst, CreateJoin, Hand, Refused, TypeOK
  <2>4. LockHeld'
    BY <2>0, <2>3 DEF TypeOK, Locked, LockHeld
  <2>5. QED
    BY <2>1, <2>2, <2>4
<1>2. CASE RemoveFound(t, n)
  <2>0. /\ slot' = [slot EXCEPT ![t][n] = "failed"] /\ slot[t][n] = "removing"
        /\ found' = [found EXCEPT ![t][n] = NoId]
        /\ UNCHANGED <<setting, status, cid, maker, pc, hid, deleted>>
        /\ \/ UNCHANGED <<ctr, id, attached>>
           \/ /\ ctr' = [ctr EXCEPT ![n] = "absent"]
              /\ id' = [id EXCEPT ![n] = NoId]
              /\ attached' = [attached EXCEPT ![n] = {}]
    BY <1>2 DEF RemoveFound, Removed
  <2>1. status[n] = "Absent" /\ pc[t] = "ignite"
    BY <2>0 DEF LockHeld
  <2>2. TypeOK'
    <3>1. slot' \in [Tests -> [Names -> Slots]] /\ found' \in [Tests -> [Names -> Ids \cup {NoId}]]
      BY <2>0 DEF TypeOK, Slots
    <3>2. /\ ctr' \in [Names -> States] /\ id' \in [Names -> Ids \cup {NoId}]
          /\ attached' \in [Names -> SUBSET Networks]
      BY <2>0 DEF TypeOK, States
    <3>3. QED
      BY <2>0, <3>1, <3>2 DEF TypeOK
  <2>3. EntryCurrent'
    BY <2>0, <2>1 DEF TypeOK, EntryCurrent
  <2>4. HandedCurrent' /\ StartRecorded' /\ BodyStarted'
    BY <2>0, <2>1 DEF TypeOK, HandedCurrent, StartRecorded, BodyStarted
  <2>5. \A u \in Tests, m \in Names : slot'[u][m] \notin {"removing", "starting"}
    BY <2>0 DEF TypeOK, LockHeld
  <2>6. LockHeld'
    BY <2>5 DEF LockHeld
  <2>7. QED
    BY <2>2, <2>3, <2>4, <2>6
<1>3. QED
  BY <1>1, <1>2

\* The start of a container keeps the invariant.
LEMMA StartInv ==
  ASSUME NEW t \in Tests, NEW n \in Names, IInv, Start(t, n) PROVE IInv'
<1> USE DEF IInv, SetSlot, StartStep, registry, daemon, own
<1> DEFINE Becomes(s, e) ==
             /\ slot[t][n] \in {"pending", "spawned", "starting"}
             /\ slot' = [slot EXCEPT ![t][n] = s]
             /\ status' = [status EXCEPT ![n] = e]
             /\ ctr' = ctr \/ (status[n] # "Absent" /\ ctr' = [ctr EXCEPT ![n] = "running"])
             /\ status[n] # "Pending" => e = status[n]
             /\ status[n] = "Pending" => e # "Absent"
             /\ s = "running" => e \in {"Running", "RunningPrior", "Included"}
             /\ s = "error" => e = "Failed"
             /\ s = "starting" => e = "Pending"
             /\ e # status[n] \/ s = "starting" =>
                  \A u \in Tests, m \in Names :
                     slot[u][m] \in {"removing", "starting"} => u = t /\ m = n
             /\ \/ pc' = pc
                \/ pc[t] = "orbit" /\ pc' = [pc EXCEPT ![t] = "panicked"]
             /\ UNCHANGED <<hid, found, id, cid, maker, setting, attached, deleted>>
<1>0. ASSUME NEW s \in {"starting", "running", "error", "panicked", "dropped"},
             NEW e \in Statuses, Becomes(s, e)
      PROVE  IInv'
  <2>1. TypeOK'
    BY <1>0 DEF TypeOK, Slots, States, Phases
  <2>2. \A m \in Names : /\ status'[m] # "Absent" <=> status[m] # "Absent"
                         /\ ctr'[m] # "absent" => ctr[m] # "absent" \/ status[m] # "Absent"
    BY <1>0 DEF TypeOK
  <2>3. EntryCurrent'
    BY <1>0, <2>2 DEF EntryCurrent
  <2>4. HandedCurrent'
    BY <1>0, <2>2 DEF TypeOK, HandedCurrent
  <2>5. StartRecorded'
    BY <1>0 DEF TypeOK, StartRecorded, LockHeld
  <2>6. LockHeld'
    BY <1>0, <2>2 DEF TypeOK, LockHeld
  <2>7. BodyStarted'
    BY <1>0, UsesAssumption DEF TypeOK, BodyStarted
  <2>8. QED
    BY <2>1, <2>3, <2>4, <2>5, <2>6, <2>7
<1>1. status[n] \in Statuses /\ status = [status EXCEPT ![n] = status[n]]
  BY DEF TypeOK
<1>2. CASE StartBegins(t, n)
  <2>1. Becomes("starting", "Pending")
    BY <1>1, <1>2 DEF StartBegins, Locked
  <2>2. QED
    BY <1>0, <2>1 DEF Statuses
<1>3. CASE StartRefused(t, n)
  <2>1. Becomes("error", "Failed")
    BY <1>1, <1>3 DEF StartRefused, Locked
  <2>2. QED
    BY <1>0, <2>1 DEF Statuses
<1>4. CASE StartDecided(t, n)
  <2>1. status[n] # "Absent"
    BY <1>4 DEF StartDecided, HandedCurrent
  <2>2. status[n] = "Failed" => Becomes("error", status[n])
    BY <1>1, <1>4 DEF StartDecided
  <2>3. status[n] # "Failed" => Becomes("running", status[n])
    BY <1>1, <1>4, <2>1 DEF StartDecided, Statuses
  <2>4. QED
    BY <1>0, <1>1, <2>2, <2>3
<1>5. CASE WaitReturns(t, n)
  <2>1. /\ status[n] = "Pending"
        /\ \A u \in Tests, m \in Names :
              slot[u][m] \in {"removing", "starting"} => u = t /\ m = n
    BY <1>5 DEF WaitReturns, StartRecorded, LockHeld
  <2>2. Becomes("running", "Running") \/ Becomes("error", "Failed")
    BY <1>5, <2>1 DEF WaitReturns
  <2>3. QED
    BY <1>0, <2>2 DEF Statuses
<1>6. CASE WaitPanics(t, n)
  <2>1. Becomes("panicked", status[n])
    BY <1>1, <1>6 DEF WaitPanics
  <2>2. QED
    BY <1>0, <1>1, <2>1
<1>7. CASE DropTask(t, n)
  <2>1. Becomes("dropped", status[n])
    BY <1>1, <1>7 DEF DropTask
  <2>2. QED
    BY <1>0, <1>1, <2>1
<1>8. QED
  BY <1>2, <1>3, <1>4, <1>5, <1>6, <1>7 DEF Start

\* Every step keeps the invariant.
LEMMA InvInductive == IInv /\ [Next]_vars => IInv'
<1> SUFFICES ASSUME IInv, [Next]_vars PROVE IInv'
  OBVIOUS
<1> USE DEF IInv, TypeOK, EntryCurrent, HandedCurrent, StartRecorded, LockHeld, BodyStarted,
            Statuses, Phases, Slots, States, Ids, Networks, registry, daemon, own
<1>0. attached \in [Names -> SUBSET Networks]
  OBVIOUS
<1>1. ASSUME NEW t \in Tests, NEW n \in Names, Create(t, n) PROVE IInv'
  BY <1>1, CreateInv, RemoveInv
<1>13. ASSUME NEW t \in Tests, NEW n \in Names, RemoveFound(t, n) PROVE IInv'
  BY <1>13, RemoveInv
<1>2. ASSUME NEW t \in Tests, NEW n \in Names, Start(t, n) PROVE IInv'
  BY <1>2, StartInv
<1>3. ASSUME NEW t \in Tests, Ignited(t) PROVE IInv'
  BY <1>3 DEF Ignited
<1>4. ASSUME NEW t \in Tests, IgniteFails(t) PROVE IInv'
  BY <1>4 DEF IgniteFails
<1>5. ASSUME NEW t \in Tests, Orbited(t) PROVE IInv'
  BY <1>5 DEF Orbited
<1>6. ASSUME NEW t \in Tests, OrbitFails(t) PROVE IInv'
  BY <1>6 DEF OrbitFails
<1>7. ASSUME NEW t \in Tests, BodyEnds(t) PROVE IInv'
  BY <1>7 DEF BodyEnds
<1>8. ASSUME NEW t \in Tests, Cleanup(t) PROVE IInv'
  <2>1. attached' \in [Names -> SUBSET Networks]
    <3>1. \A m \in Names, w \in Networks : attached[m] \ {w} \in SUBSET Networks
      BY DEF TypeOK
    <3>2. NetworkOf(t) \in Networks
      BY SettingType
    <3> HIDE DEF IInv, TypeOK, EntryCurrent, HandedCurrent, StartRecorded, LockHeld, BodyStarted
    <3>3. PICK failed \in SUBSET Names :
             attached' = [m \in Names |->
                IF Mode(t) = "Isolated" /\ Disconnects(t, m) /\ m \notin failed
                THEN attached[m] \ {NetworkOf(t)} ELSE attached[m]]
      BY <1>8 DEF Cleanup
    <3>4. \A m \in Names : attached'[m] \in SUBSET Networks
      BY <3>1, <3>2, <3>3, <1>0
    <3>5. QED
      BY <3>3, <3>4
  <2>2. QED
    BY <1>8, <2>1 DEF Cleanup
<1>9. ASSUME NEW t \in Tests, TeardownNetwork(t) PROVE IInv'
  <2>1. /\ UNCHANGED <<setting, registry, slot, own, ctr, id, attached>>
        /\ pc[t] = "network" /\ deleted' \in SUBSET Networks
    <3>1. deleted' = deleted \/ deleted' = deleted \cup {t}
      BY <1>9 DEF TeardownNetwork
    <3>2. deleted' \in SUBSET Networks
      BY <3>1
    <3>3. QED
      BY <1>9, <3>2 DEF TeardownNetwork
  <2>2. pc' = [pc EXCEPT ![t] = "done"] \/ pc' = [pc EXCEPT ![t] = "kept"]
    BY <1>9 DEF TeardownNetwork
  <2>3. CASE pc' = [pc EXCEPT ![t] = "done"]
    BY <2>1, <2>3
  <2>4. CASE pc' = [pc EXCEPT ![t] = "kept"]
    BY <2>1, <2>4
  <2>5. QED
    BY <2>2, <2>3, <2>4
<1>10. ASSUME NEW n \in Names, Outside(n) PROVE IInv'
  <2>1. /\ ctr' \in [Names -> States]
        /\ \A m \in Names : ctr'[m] = "absent" <=> ctr[m] = "absent"
    <3>1. /\ ctr \in [Names -> States] /\ ctr[n] # "absent"
          /\ \E x \in {"running", "paused", "stopped"} : ctr' = [ctr EXCEPT ![n] = x]
      BY <1>10 DEF Outside
    <3> HIDE DEF IInv, TypeOK
    <3>2. QED
      BY <3>1
  <2>2. UNCHANGED <<setting, registry, pc, slot, own, id, attached, deleted>>
    BY <1>10 DEF Outside
  <2>3. QED
    BY <2>1, <2>2
<1>11. CASE UNCHANGED vars
  BY <1>11 DEF vars
<1>12. QED
  BY <1>1, <1>2, <1>3, <1>4, <1>5, <1>6, <1>7, <1>8, <1>9, <1>10, <1>11, <1>13
  DEF Next, TestStep, Exit

\* The map, the daemon and what the tests were given always agree.
THEOREM InvCorrect == Spec => []IInv
<1>1. QED
  BY InitInv, InvInductive, PTL DEF Spec

\* However tests create, start, fail and end, and even if the container exits,
\* the one a body was given stays under its name and is not removed.
THEOREM BodyContainerKeptCorrect == Spec => []BodyContainerKept
<1>1. IInv => BodyContainerKept
  <2> SUFFICES ASSUME IInv, NEW t \in Tests, pc[t] = "body", NEW n \in Uses[t]
               PROVE  hid[t][n] # NoId /\ id[n] = hid[t][n]
    BY DEF BodyContainerKept
  <2>1. n \in Names /\ slot[t][n] \in {"running", "external"}
    BY UsesAssumption DEF IInv, BodyStarted
  <2>2. hid[t][n] # NoId
    BY <2>1 DEF IInv, HandedCurrent
  <2>3. QED
    BY <2>1, <2>2 DEF IInv, HandedCurrent, EntryCurrent
<1>2. QED
  BY InvCorrect, <1>1, PTL

\* No test gets a container as started whose start has failed for another.
THEOREM StartAgreedCorrect == Spec => []StartAgreed
<1>1. IInv => StartAgreed
  BY DEF IInv, TypeOK, StartRecorded, StartAgreed
<1>2. QED
  BY InvCorrect, <1>1, PTL

\* The lock makes the removal by name one of the container that was inspected.
THEOREM RemovesWhatItInspectedCorrect == Spec => RemovesWhatItInspected
<1> DEFINE A == \A n \in Names : ctr[n] # "absent" /\ id'[n] # id[n] =>
                  \E t \in Tests : /\ slot[t][n] = "removing" /\ found[t][n] = id[n]
                                   /\ status[n] = "Absent"
<1>1. IInv /\ [Next]_vars => [A]_vars
  <2> SUFFICES ASSUME IInv, Next, NEW n \in Names, ctr[n] # "absent", id'[n] # id[n]
               PROVE  \E t \in Tests : /\ slot[t][n] = "removing" /\ found[t][n] = id[n]
                                       /\ status[n] = "Absent"
    BY DEF vars
  <2> USE DEF IInv, TypeOK, registry, daemon
  <2>1. ASSUME NEW t \in Tests, NEW m \in Names, Create(t, m) PROVE FALSE
    BY <2>1 DEF Create, CreateFirst, CreateJoin, IncludeFirst, IncludeJoin, FoundRunning,
                FoundOther, NotFound, CreateRefused, Refused
  <2>2. ASSUME NEW t \in Tests, NEW m \in Names, Start(t, m) PROVE FALSE
    BY <2>2 DEF Start, StartBegins, StartRefused, StartDecided, WaitReturns, WaitPanics,
                DropTask
  <2>3. ASSUME NEW t \in Tests, NEW m \in Names, RemoveFound(t, m)
        PROVE  /\ slot[t][n] = "removing" /\ found[t][n] = id[n]
               /\ status[n] = "Absent"
    <3>1. m = n
      BY <2>3 DEF RemoveFound, Removed
    <3>2. QED
      BY <2>3, <3>1 DEF RemoveFound, LockHeld
  <2>4. QED
    BY <2>1, <2>2, <2>3 DEF Next, TestStep, Ignited, IgniteFails, Orbited, OrbitFails, BodyEnds,
                      Cleanup, TeardownNetwork, Outside, Exit, vars
<1>2. QED
  BY InvCorrect, <1>1, PTL DEF Spec, RemovesWhatItInspected

-----------------------------------------------------------------------------
\* The networks.

\* What a create connects: the container of the name, to the network of the
\* test.
LEMMA CreateConnects ==
  ASSUME NEW t \in Tests, NEW n \in Names, IInv, Create(t, n)
  PROVE  /\ UNCHANGED <<setting, pc, deleted>> /\ pc[t] = "ignite"
         /\ \A m \in Names \ {n} :
               /\ attached'[m] = attached[m] /\ status'[m] = status[m] /\ maker'[m] = maker[m]
               /\ ctr'[m] = ctr[m] /\ id'[m] = id[m]
         /\ attached'[n] \subseteq attached[n] \cup {NetworkOf(t)}
         /\ status[n] # "Absent" =>
               status'[n] # "Absent" /\ maker'[n] = maker[n] /\ attached[n] \subseteq attached'[n]
         /\ status[n] = "Absent" /\ status'[n] # "Absent" =>
               /\ maker'[n] = t
               /\ NetworkOf(t) \in attached'[n] \/ (Mode(t) = "External" /\ n \notin Dynamic)
         /\ Mode(t) = "Isolated" => hid' = hid \/ NetworkOf(t) \in attached'[n]
         /\ n \notin Dynamic => attached'[n] = attached[n] \/ hid'[t][n] # NoId
         /\ (ctr'[n] \in {"running", "paused"} \/ id'[n] = Prior) /\ status'[n] = "Absent" =>
               /\ Live(n) \/ id[n] = Prior
               /\ status[n] = "Absent" /\ attached'[n] = attached[n]
         /\ \A u \in Tests, m \in Names : u # t \/ m # n => hid'[u][m] = hid[u][m]
         /\ hid[t][n] # NoId => hid'[t][n] # NoId
<1> USE DEF SetSlot, Hand, Insert, Refused, Connect, Live, registry, daemon, own
<1>0. /\ status \in [Names -> Statuses] /\ cid \in [Names -> Ids \cup {NoId}]
      /\ maker \in [Names -> Tests \cup {NoId}] /\ id \in [Names -> Ids \cup {NoId}]
      /\ hid \in [Tests -> [Names -> Ids \cup {NoId}]]
      /\ attached \in [Names -> SUBSET Networks]
      /\ ctr \in [Names -> States]
      /\ status[n] # "Absent" => cid[n] # NoId
      /\ ctr[n] # "absent" => id[n] # NoId
      /\ UNCHANGED <<setting, pc>> /\ pc[t] = "ignite"
      /\ NoId \notin Tests /\ Prior \notin Tests
  BY IdsAssumption DEF Create, IInv, TypeOK, EntryCurrent, Ids
<1>1. \A x : \A u \in Tests, m \in Names :
         [hid EXCEPT ![t][n] = x][u][m] = IF u = t /\ m = n THEN x ELSE hid[u][m]
  BY <1>0
<1>2. CASE n \in Dynamic /\ status[n] = "Absent" /\ FoundRunning(t, n)
  BY <1>0, <1>1, <1>2 DEF FoundRunning
<1>3. CASE n \in Dynamic /\ status[n] = "Absent" /\ FoundOther(t, n)
  BY <1>0, <1>3 DEF FoundOther
<1>4. CASE n \in Dynamic /\ status[n] = "Absent" /\ NotFound(t, n)
  BY <1>0, <1>1, <1>4 DEF NotFound
<1>5. CASE Refused(t, n)
  BY <1>0, <1>5
<1>6. CASE n \in Dynamic /\ CreateJoin(t, n)
  BY <1>0, <1>1, <1>6 DEF CreateJoin, JoinConnects
<1>7. CASE n \notin Dynamic /\ IncludeFirst(t, n)
  BY <1>0, <1>1, <1>7 DEF IncludeFirst
<1>8. CASE n \notin Dynamic /\ IncludeJoin(t, n)
  BY <1>0, <1>1, <1>8 DEF IncludeJoin, JoinConnects
<1>9. QED
  BY <1>2, <1>3, <1>4, <1>5, <1>6, <1>7, <1>8 DEF Create, CreateFirst, CreateRefused

\* What a removal does: it takes a container that has no entry out of every
\* network.
LEMMA RemoveEffect ==
  ASSUME NEW t \in Tests, NEW n \in Names, IInv, RemoveFound(t, n)
  PROVE  /\ UNCHANGED <<setting, registry, pc, hid, deleted>>
         /\ n \in Dynamic /\ status[n] = "Absent"
         /\ \A m \in Names \ {n} : attached'[m] = attached[m] /\ ctr'[m] = ctr[m] /\ id'[m] = id[m]
         /\ attached'[n] \subseteq attached[n]
         /\ ctr'[n] = ctr[n] \/ ctr'[n] = "absent"
         /\ id'[n] = id[n] \/ id'[n] = NoId
BY DEF RemoveFound, Removed, IInv, LockHeld, TypeOK

\* What the other steps do to the registries and the networks: a test leaves
\* its own network, an entry stays, only a Pending one is started.
Later(t) ==
    \/ \E n \in Names : Start(t, n)
    \/ Ignited(t) \/ IgniteFails(t) \/ Orbited(t) \/ OrbitFails(t) \/ BodyEnds(t)
    \/ Cleanup(t) \/ TeardownNetwork(t)

LEMMA LaterEffect ==
  ASSUME NEW t \in Tests, IInv, Later(t)
  PROVE  /\ UNCHANGED <<hid, setting, maker, id>>
         /\ \A n \in Names : status'[n] = "Absent" <=> status[n] = "Absent"
         /\ \A n \in Names : ctr'[n] \in {"running", "paused"} => Live(n) \/ status[n] # "Absent"
         /\ \/ attached' = attached
            \/ Mode(t) = "Isolated" /\ pc'[t] = "network" /\ \A n \in Names :
                  \/ attached'[n] = attached[n]
                  \/ Disconnects(t, n) /\ attached'[n] = attached[n] \ {t}
         /\ \A u \in Tests \ {t} : pc'[u] = pc[u]
         /\ pc'[t] \in {"ignite", "orbit", "body"} => pc[t] \in {"ignite", "orbit", "body"}
         /\ pc'[t] \in {"network", "done", "kept"} =>
               pc[t] \in {"network", "done", "kept"} \/ Cleanup(t)
<1> USE DEF registry, daemon, own
<1>1. ASSUME NEW n \in Names, Start(t, n)
      PROVE  /\ UNCHANGED <<hid, setting, maker, id, attached>>
             /\ pc' = pc \/ pc' = [pc EXCEPT ![t] = "panicked"]
             /\ \A m \in Names : status'[m] = "Absent" <=> status[m] = "Absent"
             /\ \A m \in Names : ctr'[m] \in {"running", "paused"} => Live(m) \/ status[m] # "Absent"
  <2>1. /\ UNCHANGED <<hid, setting, maker, id, attached>>
        /\ pc' = pc \/ pc' = [pc EXCEPT ![t] = "panicked"]
    BY <1>1 DEF Start, StartBegins, StartRefused, StartDecided, WaitReturns, WaitPanics, DropTask
  <2>2. /\ \/ status' = status
           \/ /\ status[n] = "Pending"
              /\ \E s \in {"Failed", "Running"} : status' = [status EXCEPT ![n] = s]
        /\ ctr' = ctr \/ (status[n] = "Pending" /\ ctr' = [ctr EXCEPT ![n] = "running"])
    BY <1>1 DEF Start, StartBegins, StartRefused, StartDecided, WaitReturns, WaitPanics,
                DropTask, IInv, StartRecorded
  <2>3. QED
    BY <2>1, <2>2 DEF IInv, TypeOK, Live
<1>2. CASE Cleanup(t)
  <2>1. /\ UNCHANGED <<hid, setting, maker, id, status, ctr>> /\ pc' = [pc EXCEPT ![t] = "network"]
        /\ \E failed \in SUBSET Names :
              attached' = [n \in Names |->
                 IF Mode(t) = "Isolated" /\ Disconnects(t, n) /\ n \notin failed
                 THEN attached[n] \ {NetworkOf(t)} ELSE attached[n]]
    BY <1>2 DEF Cleanup
  <2>2. pc'[t] = "network" /\ \A u \in Tests \ {t} : pc'[u] = pc[u]
    BY <2>1 DEF IInv, TypeOK
  <2>3. Mode(t) # "Isolated" => attached' = attached
    BY <2>1 DEF IInv, TypeOK
  <2>4. Mode(t) = "Isolated" => \A n \in Names :
           \/ attached'[n] = attached[n]
           \/ Disconnects(t, n) /\ attached'[n] = attached[n] \ {t}
    BY <2>1, SettingType DEF IInv, TypeOK
  <2>5. QED
    BY <1>2, <2>1, <2>2, <2>3, <2>4 DEF Live
<1>3. CASE Ignited(t) \/ IgniteFails(t) \/ Orbited(t) \/ OrbitFails(t) \/ BodyEnds(t)
           \/ TeardownNetwork(t)
  <2>1. UNCHANGED <<hid, setting, maker, id, status, ctr, attached>>
    BY <1>3 DEF Ignited, IgniteFails, Orbited, OrbitFails, BodyEnds, TeardownNetwork
  <2>2. \E p \in Phases :
           /\ pc' = [pc EXCEPT ![t] = p]
           /\ p \in {"ignite", "orbit", "body"} => pc[t] \in {"ignite", "orbit", "body"}
           /\ p \in {"network", "done", "kept"} => pc[t] \in {"network", "done", "kept"}
    BY <1>3 DEF Ignited, IgniteFails, Orbited, OrbitFails, BodyEnds, TeardownNetwork, Phases
  <2>3. QED
    BY <2>1, <2>2 DEF IInv, TypeOK, Live
<1>4. QED
  <2>1. CASE \E n \in Names : Start(t, n)
    BY <1>1, <2>1 DEF IInv, TypeOK
  <2>2. QED
    BY <1>2, <1>3, <2>1 DEF Later

\* Every step keeps the containers that are needed connected.
LEMMA ConnectedInductive ==
  ASSUME IInv, ConnectedInv, [Next]_vars
  PROVE  ConnectedInv'
<1> DEFINE Early == {"ignite", "orbit", "body"}
           Kept(n) == \/ Mode(maker[n]) = "Isolated"
                      \/ Mode(maker[n]) = "External" /\ n \notin Dynamic
                      \/ NetworkOf(maker[n]) \in attached[n]
<1>1. ASSUME NEW t \in Tests, NEW n \in Names, Create(t, n) PROVE ConnectedInv'
  <2>1. UNCHANGED <<setting, pc>>
    BY <1>1, CreateConnects
  <2>2. ASSUME NEW m \in Names, status'[m] # "Absent" PROVE Kept(m)'
    <3>1. CASE status[m] # "Absent"
      <4>1. Kept(m)
        BY <3>1 DEF ConnectedInv
      <4>2. maker'[m] = maker[m] /\ attached[m] \subseteq attached'[m]
        BY <1>1, <3>1, CreateConnects
      <4>3. QED
        BY <2>1, <4>1, <4>2 DEF Mode, NetworkOf
    <3>2. CASE status[m] = "Absent"
      <4>1. m = n
        BY <1>1, <2>2, <3>2, CreateConnects
      <4>2. /\ maker'[n] = t
            /\ NetworkOf(t) \in attached'[n] \/ (Mode(t) = "External" /\ n \notin Dynamic)
        BY <1>1, <2>2, <3>2, <4>1, CreateConnects
      <4>3. QED
        BY <2>1, <4>1, <4>2 DEF Mode, NetworkOf
    <3>3. QED
      BY <3>1, <3>2
  <2>3. ASSUME NEW u \in Tests, NEW m \in Names, Mode(u) = "Isolated", hid'[u][m] # NoId,
               pc[u] \in Early
        PROVE  u \in attached'[m]
    <3>1. CASE hid'[u][m] = hid[u][m]
      <4>1. u \in attached[m] /\ status[m] # "Absent"
        BY <2>3, <3>1 DEF ConnectedInv, IInv, HandedCurrent
      <4>2. QED
        BY <1>1, <4>1, CreateConnects
    <3>2. CASE hid'[u][m] # hid[u][m]
      <4>1. u = t /\ m = n
        BY <1>1, <3>2, CreateConnects
      <4>2. NetworkOf(t) \in attached'[n] /\ NetworkOf(t) = t
        BY <1>1, <2>3, <3>2, <4>1, CreateConnects, SettingType DEF IInv, TypeOK
      <4>3. QED
        BY <4>1, <4>2
    <3>3. QED
      BY <3>1, <3>2
  <2>4. \A u \in Tests : Mode(u)' = Mode(u)
    BY <2>1 DEF Mode
  <2>5. QED
    BY <2>1, <2>2, <2>3, <2>4 DEF ConnectedInv
<1>2. ASSUME NEW t \in Tests, NEW n \in Names, RemoveFound(t, n) PROVE ConnectedInv'
  <2>1. /\ UNCHANGED <<setting, registry, pc, hid>> /\ status[n] = "Absent"
        /\ \A m \in Names \ {n} : attached'[m] = attached[m]
    BY <1>2, RemoveEffect
  <2>2. \A m \in Names : status'[m] # "Absent" => attached'[m] = attached[m]
    BY <2>1 DEF registry
  <2>3. \A u \in Tests, m \in Names : hid'[u][m] # NoId => attached'[m] = attached[m]
    BY <2>1 DEF IInv, HandedCurrent
  <2>4. QED
    BY <2>1, <2>2, <2>3 DEF ConnectedInv, registry, Mode, NetworkOf
<1>3. ASSUME NEW t \in Tests, Later(t) PROVE ConnectedInv'
  <2>1. /\ UNCHANGED <<setting, maker, hid>>
        /\ \A m \in Names : status'[m] = "Absent" <=> status[m] = "Absent"
        /\ \A u \in Tests \ {t} : pc'[u] = pc[u]
        /\ pc'[t] \in Early => pc[t] \in Early
    BY <1>3, LaterEffect
  <2>2. /\ \A m \in Names, u \in Networks \ {t} : u \in attached[m] => u \in attached'[m]
        /\ attached' = attached \/ (Mode(t) = "Isolated" /\ pc'[t] = "network")
    BY <1>3, LaterEffect
  <2>3. ASSUME NEW m \in Names, status'[m] # "Absent" PROVE Kept(m)'
    <3>1. Kept(m) /\ maker[m] \in Tests
      BY <2>1, <2>3 DEF ConnectedInv, IInv, EntryCurrent
    <3>2. Mode(maker[m]) # "Isolated" => NetworkOf(maker[m]) \in Networks \ {t}
      BY <3>1, SettingType DEF IInv, TypeOK
    <3>3. QED
      BY <2>1, <2>2, <3>1, <3>2 DEF Mode, NetworkOf
  <2>4. ASSUME NEW u \in Tests, NEW m \in Names, Mode(u) = "Isolated", hid[u][m] # NoId,
               pc'[u] \in Early
        PROVE  u \in attached'[m]
    <3>1. u \in attached[m]
      BY <2>1, <2>4 DEF ConnectedInv
    <3>2. QED
      BY <2>2, <2>4, <3>1 DEF Networks
  <2>5. \A u \in Tests : Mode(u)' = Mode(u)
    BY <2>1 DEF Mode
  <2>6. QED
    BY <2>1, <2>3, <2>4, <2>5 DEF ConnectedInv
<1>4. ASSUME NEW n \in Names, Outside(n) PROVE ConnectedInv'
  BY <1>4 DEF Outside, registry, own, ConnectedInv, Mode, NetworkOf
<1>5. CASE UNCHANGED vars
  BY <1>5 DEF vars, registry, daemon, own, ConnectedInv, Mode, NetworkOf
<1>6. QED
  BY <1>1, <1>2, <1>3, <1>4, <1>5 DEF Next, TestStep, Exit, Later

\* Whatever networks the tests use, a body finds its static containers in that
\* of its test, save an external one whose network is the user's and one that it
\* joined without being isolated while another network's test had made the entry.
THEOREM ReachableFromBodyCorrect == Spec => []ReachableFromBody
<1>1. Init => ConnectedInv
  BY DEF Init, ConnectedInv
<1>2. IInv /\ ConnectedInv /\ [Next]_vars => ConnectedInv'
  BY ConnectedInductive
<1>3. IInv /\ ConnectedInv => ReachableFromBody
  <2> SUFFICES ASSUME IInv, ConnectedInv, NEW t \in Tests, pc[t] = "body", NEW n \in Uses[t],
                      Connected(t, n)
               PROVE  NetworkOf(t) \in attached[n]
    BY DEF ReachableFromBody
  <2>1. n \in Names /\ hid[t][n] # NoId /\ status[n] # "Absent" /\ maker[n] \in Tests
    BY UsesAssumption DEF IInv, BodyStarted, HandedCurrent, EntryCurrent
  <2>2. CASE Mode(t) = "Isolated"
    BY <2>1, <2>2, SettingType DEF ConnectedInv, IInv, TypeOK
  <2>3. CASE Mode(t) # "Isolated"
    <3>1. NetworkOf(maker[n]) = NetworkOf(t) /\ (n \in Dynamic \/ Mode(maker[n]) # "External")
      BY <2>3 DEF Connected
    <3>2. Mode(maker[n]) # "Isolated"
      BY <2>1, <2>3, <3>1, SettingType DEF IInv, TypeOK
    <3>3. QED
      BY <2>1, <3>1, <3>2 DEF ConnectedInv
  <2>4. QED
    BY <2>2, <2>3
<1>4. QED
  BY <1>1, <1>2, <1>3, InvCorrect, PTL DEF Spec

\* If the daemon disconnects what it is told to, every step keeps the external
\* containers out of the networks of the tests that have ended.
LEMMA HeldInductive ==
  ASSUME "disconnect" \notin Faults, IInv, HeldInv, [Next]_vars
  PROVE  HeldInv'
<1> DEFINE Ending == {"network", "done", "kept"}
<1>0. \A t \in Tests, n \in Dynamic : ~Disconnects(t, n)
  <2> SUFFICES ASSUME NEW t \in Tests, NEW n \in Dynamic PROVE n \notin to_cleanup(t)
    BY DEF Disconnects
  <2>1. n \in Names /\ n \notin Ids
    BY UsesAssumption, IdsAssumption
  <2>2. QED
    BY <2>1 DEF to_cleanup, IInv, TypeOK
<1>1. ASSUME NEW t \in Tests, NEW n \in Names, Create(t, n) PROVE HeldInv'
  <2>1. UNCHANGED <<setting, pc, deleted>> /\ pc[t] = "ignite"
    BY <1>1, CreateConnects
  <2>2. ASSUME NEW m \in Names, ctr'[m] \in {"running", "paused"} \/ id'[m] = Prior,
               attached'[m] # {}, status'[m] = "Absent"
        PROVE  FALSE
    BY <1>1, <2>2, CreateConnects DEF HeldInv, Live
  <2>3. ASSUME NEW u \in Tests, Mode(u) = "Isolated", NEW m \in Names \ Dynamic, u \in attached'[m]
        PROVE  hid'[u][m] # NoId /\ pc[u] \notin Ending
    <3>1. CASE u \in attached[m]
      <4>1. hid[u][m] # NoId /\ pc[u] \notin Ending
        BY <2>3, <3>1 DEF HeldInv
      <4>2. hid'[u][m] # NoId
        BY <1>1, <4>1, CreateConnects
      <4>3. QED
        BY <4>1, <4>2
    <3>2. CASE u \notin attached[m]
      <4>1. m = n /\ u = NetworkOf(t)
        BY <1>1, <2>3, <3>2, CreateConnects
      <4>2. u = t
        BY <4>1, SettingType DEF IInv, TypeOK
      <4>3. hid'[t][n] # NoId
        BY <1>1, <2>3, <3>2, <4>1, CreateConnects
      <4>4. QED
        BY <2>1, <4>1, <4>2, <4>3
    <3>3. QED
      BY <3>1, <3>2
  <2>4. ASSUME NEW u \in Tests, NEW m \in Dynamic, u \in attached[m], status[m] # "Absent"
        PROVE  u \in attached'[m] /\ status'[m] # "Absent"
    BY <1>1, <2>4, CreateConnects, UsesAssumption
  <2>5. \A u \in Tests : Mode(u)' = Mode(u)
    BY <2>1 DEF Mode
  <2>6. QED
    BY <2>1, <2>2, <2>3, <2>4, <2>5 DEF HeldInv, Live
<1>2. ASSUME NEW t \in Tests, NEW n \in Names, RemoveFound(t, n) PROVE HeldInv'
  <2>1. /\ UNCHANGED <<setting, status, pc, hid, deleted>> /\ n \in Dynamic /\ status[n] = "Absent"
        /\ \A m \in Names \ {n} : attached'[m] = attached[m] /\ ctr'[m] = ctr[m] /\ id'[m] = id[m]
        /\ \A m \in Names : attached'[m] \subseteq attached[m]
        /\ ctr'[n] = ctr[n] \/ ctr'[n] = "absent"
        /\ id'[n] = id[n] \/ id'[n] = NoId
    BY <1>2, RemoveEffect DEF registry
  <2>2. \A m \in Names : /\ ctr'[m] \in {"running", "paused"} => Live(m)
                         /\ id'[m] = Prior => id[m] = Prior
    BY <2>1, IdsAssumption DEF Live, Ids
  <2>3. \A m \in Dynamic : status[m] # "Absent" => attached'[m] = attached[m]
    BY <2>1, UsesAssumption
  <2>4. \A u \in Tests : Mode(u)' = Mode(u)
    BY <2>1 DEF Mode
  <2>5. QED
    BY <2>1, <2>2, <2>3, <2>4 DEF HeldInv, Live
<1>3. ASSUME NEW t \in Tests, Later(t) PROVE HeldInv'
  <2>1. /\ UNCHANGED <<hid, setting, id>>
        /\ \A n \in Names : status'[n] = "Absent" <=> status[n] = "Absent"
        /\ \A n \in Names : ctr'[n] \in {"running", "paused"} => Live(n) \/ status[n] # "Absent"
        /\ \A n \in Names : attached'[n] \subseteq attached[n]
        /\ \A u \in Tests \ {t} : pc'[u] = pc[u]
    BY <1>3, LaterEffect
  <2>2. \A n \in Dynamic : attached'[n] = attached[n]
    BY <1>0, <1>3, LaterEffect, UsesAssumption
  <2>3. \A n \in Names : (ctr'[n] \in {"running", "paused"} \/ id'[n] = Prior) /\ attached'[n] # {}
                            => status'[n] # "Absent"
    BY <2>1 DEF HeldInv
  <2>4. ASSUME Mode(t) = "Isolated", NEW n \in Names \ Dynamic, t \in attached'[n]
        PROVE  pc'[t] \notin Ending
    <3>1. hid[t][n] # NoId /\ pc[t] \notin Ending
      BY <2>1, <2>4 DEF HeldInv
    <3>2. status[n] # "Absent" /\ hid[t][n] = cid[n]
      BY <3>1 DEF IInv, HandedCurrent
    <3>3. Disconnects(t, n)
      BY <3>1, <3>2 DEF Disconnects, to_cleanup
    <3>4. NetworkOf(t) = t
      BY <2>4, SettingType DEF IInv, TypeOK
    <3>5. ~Cleanup(t)
      BY <2>4, <3>3, <3>4 DEF Cleanup
    <3>6. QED
      BY <1>3, <3>1, <3>5, LaterEffect
  <2>5. \A u \in Tests : Mode(u)' = Mode(u)
    BY <2>1 DEF Mode
  <2>6. CASE TeardownNetwork(t)
    <3>1. /\ pc[t] = "network" /\ pc'[t] \in {"done", "kept"} /\ deleted \subseteq deleted'
          /\ pc'[t] = "done" /\ Mode(t) = "Isolated" /\ ~NetworkBusy(t) => t \in deleted'
      BY <2>6 DEF TeardownNetwork, IInv, TypeOK
    <3>2. ASSUME Mode(t) = "Isolated", NetworkBusy(t)
          PROVE  \E n \in Dynamic : t \in attached[n] /\ status[n] # "Absent"
      BY <3>1, <3>2 DEF NetworkBusy, HeldInv
    <3>3. QED
      BY <2>1, <2>2, <2>3, <2>4, <2>5, <3>1, <3>2, UsesAssumption DEF HeldInv, Live
  <2>7. CASE ~TeardownNetwork(t)
    <3>1. deleted' = deleted
      BY <1>3, <2>7 DEF Later, Start, StartBegins, StartRefused, StartDecided, WaitReturns,
                        WaitPanics, DropTask, Ignited, IgniteFails, Orbited, OrbitFails, BodyEnds,
                        Cleanup, daemon
    <3>2. pc'[t] = "done" => pc[t] = "done"
      BY <1>3, <2>7 DEF Later, Start, StartBegins, StartRefused, StartDecided, WaitReturns,
                        WaitPanics, DropTask, Ignited, IgniteFails, Orbited, OrbitFails, BodyEnds,
                        Cleanup, IInv, TypeOK
    <3>3. QED
      BY <2>1, <2>2, <2>3, <2>4, <2>5, <3>1, <3>2, UsesAssumption DEF HeldInv, Live
  <2>8. QED
    BY <2>6, <2>7
<1>4. ASSUME NEW n \in Names, Outside(n) PROVE HeldInv'
  <2>1. /\ UNCHANGED <<setting, status, pc, hid, id, attached, deleted>>
        /\ \A m \in Names : ctr'[m] \in {"running", "paused"} => Live(m) \/ id[m] = Prior
    BY <1>4 DEF Outside, registry, own, Live, IInv, TypeOK
  <2>2. QED
    BY <2>1 DEF HeldInv, Live, Mode
<1>5. CASE UNCHANGED vars
  BY <1>5 DEF vars, registry, daemon, own, HeldInv, Live, Mode
<1>6. QED
  BY <1>1, <1>2, <1>3, <1>4, <1>5 DEF Next, TestStep, Exit, Later

\* If the daemon disconnects what it is told to, an isolated network that survives
\* its test without being kept by the prune strategy is held by a dynamic
\* container: external ones leave it.
THEOREM OnlyDynamicHoldNetworkCorrect ==
  "disconnect" \notin Faults => (Spec => []OnlyDynamicHoldNetwork)
<1> SUFFICES ASSUME "disconnect" \notin Faults PROVE Spec => []OnlyDynamicHoldNetwork
  OBVIOUS
<1>1. Init => HeldInv
  BY DEF Init, HeldInv
<1>2. IInv /\ HeldInv /\ [Next]_vars => HeldInv'
  BY HeldInductive
<1>3. HeldInv => OnlyDynamicHoldNetwork
  BY DEF HeldInv, OnlyDynamicHoldNetwork
<1>4. QED
  BY <1>1, <1>2, <1>3, InvCorrect, PTL DEF Spec

=============================================================================
