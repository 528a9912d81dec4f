---------------------------- MODULE WaitForProofs ----------------------------
(***************************************************************************)
(* Proofs about WaitFor: for any wait condition, any log and any timing a  *)
(* wait reports ready only what is, and fails only with a reason.          *)
(***************************************************************************)
EXTENDS WaitFor, TLAPS

\* What an inspection has seen is still true of the container, which only comes
\* up and exits.
SeenHolds ==
    /\ seen = "running" => daemon # "starting"
    /\ seen = "exited" => daemon = "exited"
    /\ pc = "seen" /\ seen = "error" => faulted

\* Check number k + 1 is made no earlier than k - 1 intervals after the first,
\* and a container that was not seen in its state got there no earlier than the
\* last check was made.
Due(k, i) == (k - 1) * i
Late(k) == daemon = wait.kind /\ ~faulted => since >= Due(k, wait.interval)

Paced ==
    /\ pc = "begin" => num_checks = 0
    /\ pc \in {"check", "seen"} => Polls /\ now >= Due(num_checks, wait.interval)
    /\ pc = "tick" => Polls /\ num_checks >= 1 /\ now >= Due(num_checks - 1, wait.interval)
    /\ pc \in {"check", "tick"} => Late(num_checks - 1)
    /\ pc = "seen" => num_checks < wait.checks /\ (seen # wait.kind => Late(num_checks))

\* While a wait reads the log it has seen neither the message nor text it could
\* not read.
NothingYet ==
    /\ pc = "begin" => read = 0
    /\ pc = "stream" =>
          /\ ~Polls
          /\ \A i \in 1..read : ~Matches(log[i]) /\ ~Unreadable(log[i])

\* A stream ends with a container that has exited, and with its whole log.
EndIsComplete == stream = "end" => daemon = "exited" /\ delivered = Len(log)

\* A wait has an outcome when it has returned.
DoneHasOutcome == (pc = "done") <=> (outcome # "none")

\* Text that could not be read made the wait panic when it came to it.
PanicIsUnreadable ==
    wait.kind = "message" /\ outcome = "panic" =>
        /\ read >= 1 /\ Unreadable(log[read])
        /\ \A i \in 1..(read - 1) : ~Matches(log[i]) /\ ~Unreadable(log[i])

\* The verdicts on the log.
Verdicts ==
    /\ wait.kind = "message" /\ outcome \in {"ended", "timeout"} =>
          \A i \in 1..delivered : ~Matches(log[i])
    /\ outcome = "ended" =>
          \/ stream = "error"
          \/ daemon = "exited" /\ \A i \in DOMAIN log : ~Matches(log[i])
    /\ outcome = "timeout" => now >= wait.timeout

\* The inductive invariant.
IInv ==
    /\ TypeOK /\ SeenHolds /\ Paced /\ NothingYet /\ EndIsComplete /\ DoneHasOutcome
    /\ PanicIsUnreadable /\ Verdicts /\ OkMeansReady /\ PollVerdict

\* The bounds are numbers.
LEMMA BoundsType == Horizon \in Nat /\ MaxLog \in Nat
BY HorizonAssumption

\* The condition of a wait is one of those given.
LEMMA WaitType ==
  ASSUME TypeOK
  PROVE  /\ wait.kind \in Kinds
         /\ wait.interval \in Nat /\ wait.checks \in Nat /\ wait.timeout \in Nat
BY WaitsAssumption DEF TypeOK

\* A check is due no earlier than the one before it.
LEMMA DueOrder ==
  ASSUME NEW k \in Nat, NEW i \in Nat
  PROVE  /\ Due(k, i) \in Int /\ Due(k - 1, i) \in Int
         /\ Due(k - 1, i) <= Due(k, i)
<1>1. (k - 1) * i = ((k - 1) - 1) * i + i
  OBVIOUS
<1>2. QED
  BY <1>1 DEF Due

\* A wait begins with nothing seen.
LEMMA InitInv == Init => IInv
<1> SUFFICES ASSUME Init PROVE IInv
  OBVIOUS
<1>1. TypeOK
  <2>1. wait.checks \in Nat
    BY WaitsAssumption DEF Init
  <2>2. log \in Seq(Entries) /\ Len(log) = 0
    BY DEF Init
  <2>3. QED
    <3>1. /\ read = 0 /\ delivered = 0 /\ num_checks = 0 /\ now = 0 /\ since = 0
          /\ faulted \in BOOLEAN
      BY DEF Init
    <3>2. /\ wait \in Waits /\ pc = "begin" /\ outcome = "none" /\ seen = "error"
          /\ daemon \in {"starting", "running"} /\ stream = "open"
      BY DEF Init
    <3>3. QED
      BY <2>1, <2>2, <3>1, <3>2, BoundsType DEF TypeOK
<1>2. QED
  BY <1>1 DEF Init, IInv, SeenHolds, Paced, NothingYet, EndIsComplete, DoneHasOutcome,
              PanicIsUnreadable, Verdicts, OkMeansReady, PollVerdict

\* The types, step by step.
LEMMA TypeInductive == IInv /\ [Next]_vars => TypeOK'
<1> SUFFICES ASSUME IInv, [Next]_vars PROVE TypeOK'
  OBVIOUS
<1> USE WaitType, BoundsType DEF IInv, TypeOK, world, Returns, Failure
<1>1. CASE Begin
  BY <1>1 DEF Begin, Kinds
<1>2. CASE GiveUp
  BY <1>2 DEF GiveUp
<1>3. CASE Inspect
  BY <1>3 DEF Inspect
<1>4. CASE Decide
  BY <1>4 DEF Decide, Paced
<1>5. CASE Tick
  BY <1>5 DEF Tick
<1>6. CASE Read
  BY <1>6 DEF Read
<1>7. CASE StreamEnds \/ Timeout
  BY <1>7 DEF StreamEnds, Timeout
<1>8. CASE ComesUp \/ Exits
  BY <1>8 DEF ComesUp, Exits, Running, call
<1>9. ASSUME NEW e \in Entries, Writes(e) PROVE TypeOK'
  <2>1. log \in Seq(Entries) /\ Len(log) \in Nat /\ log' = Append(log, e)
    BY <1>9 DEF Writes
  <2>2. log' \in Seq(Entries) /\ Len(log') = Len(log) + 1
    BY <2>1
  <2>3. Len(log) < MaxLog /\ UNCHANGED <<wait, call, daemon, since, delivered, stream, now>>
    BY <1>9 DEF Writes
  <2>4. QED
    BY <2>1, <2>2, <2>3 DEF call
<1>10. CASE Deliver \/ EndStream \/ Advance
  <2>1. CASE Deliver
    BY <2>1 DEF Deliver, call
  <2>2. CASE EndStream
    BY <2>2 DEF EndStream, call
  <2>3. CASE Advance
    BY <2>3 DEF Advance, call
  <2>4. QED
    BY <1>10, <2>1, <2>2, <2>3
<1>11. CASE UNCHANGED vars
  BY <1>11 DEF vars, call
<1>12. QED
  BY <1>1, <1>2, <1>3, <1>4, <1>5, <1>6, <1>7, <1>8, <1>9, <1>10, <1>11
  DEF Next, Step, World, Returned

\* The parts of the invariant about polling, and those about the log.
PollInv == SeenHolds /\ Paced /\ PollVerdict
LogInv == NothingYet /\ EndIsComplete /\ PanicIsUnreadable /\ Verdicts

\* A poll does not look at the log, and what a wait for a message does is of no
\* concern to a poll.
LEMMA PollSteps ==
  ASSUME IInv, TypeOK', Begin \/ GiveUp \/ Inspect \/ Decide \/ Tick
  PROVE  PollInv' /\ DoneHasOutcome' /\ OkMeansReady'
<1> USE WaitType DEF IInv, world, Returns, TypeOK, PollInv, SeenHolds, Paced, Due, Late, Polls,
                     DoneHasOutcome, OkMeansReady, PollVerdict
<1>1. CASE Begin
  <2>1. SeenHolds' /\ PollVerdict' /\ DoneHasOutcome' /\ OkMeansReady'
    BY <1>1 DEF Begin, Kinds
  <2>2. Paced'
    BY <1>1 DEF Begin, Kinds
  <2>3. QED
    BY <2>1, <2>2
<1>2. CASE GiveUp
  BY <1>2 DEF GiveUp, Exhausted
<1>3. CASE Inspect
  BY <1>3 DEF Inspect, Exhausted
<1>4. CASE Decide
  BY <1>4 DEF Decide
<1>5. CASE Tick
  BY <1>5 DEF Tick
<1>6. QED
  BY <1>1, <1>2, <1>3, <1>4, <1>5

\* The same steps and the log.
LEMMA PollStepsLog ==
  ASSUME IInv, TypeOK', Begin \/ GiveUp \/ Inspect \/ Decide \/ Tick
  PROVE  LogInv'
<1>1. CASE Begin
  BY <1>1, WaitType DEF IInv, world, Returns, TypeOK, LogInv, Polls, NothingYet, EndIsComplete,
                        PanicIsUnreadable, Verdicts, Begin, Kinds
<1>2. CASE GiveUp \/ Inspect \/ Decide \/ Tick
  <2>1. /\ pc' \notin {"begin", "stream"} /\ outcome' \in {outcome, "unmet", "ok"}
        /\ UNCHANGED <<wait, read, log, delivered, daemon, stream, now>>
    BY <1>2 DEF GiveUp, Inspect, Decide, Tick, Returns, world
  <2>2. NothingYet' /\ EndIsComplete'
    BY <2>1 DEF IInv, NothingYet, EndIsComplete
  <2>3. PanicIsUnreadable'
    BY <2>1 DEF IInv, PanicIsUnreadable, Matches, Unreadable
  <2>4. Verdicts'
    BY <2>1 DEF IInv, Verdicts, Matches
  <2>5. QED
    BY <2>2, <2>3, <2>4 DEF LogInv
<1>3. QED
  BY <1>1, <1>2

\* Reading the log.
LEMMA ReadSteps ==
  ASSUME IInv, TypeOK', Read \/ StreamEnds \/ Timeout
  PROVE  PollInv' /\ LogInv' /\ DoneHasOutcome' /\ OkMeansReady'
<1> USE WaitType DEF IInv, world, Returns, Failure
<1>1. pc = "stream" /\ ~Polls /\ outcome = "none" /\ UNCHANGED <<wait, seen, faulted, world>>
  BY DEF Read, StreamEnds, Timeout, NothingYet, DoneHasOutcome
<1>2. pc' \in {"stream", "done"} /\ outcome' # "unmet" /\ DoneHasOutcome'
  BY <1>1 DEF Read, StreamEnds, Timeout, DoneHasOutcome
<1>3. PollInv'
  BY <1>1, <1>2 DEF PollInv, SeenHolds, Paced, PollVerdict, Polls
<1>4. CASE Read
  <2>1. /\ read \in Nat /\ read' = read + 1 /\ log' = log /\ delivered' = delivered
        /\ log[read']  \in Entries /\ read' \in DOMAIN log
    BY <1>4 DEF Read, TypeOK
  <2>2. \/ outcome' = "none" /\ ~Matches(log[read']) /\ ~Unreadable(log[read'])
        \/ outcome' = "ok" /\ pc' = "done" /\ Matches(log[read'])
        \/ outcome' = "panic" /\ pc' = "done" /\ Unreadable(log[read'])
    BY <1>1, <1>4, <2>1 DEF Read, Matches, Unreadable, Entries, Texts, Sources
  <2>3. \A i \in 1..(read' - 1) : ~Matches(log[i]) /\ ~Unreadable(log[i])
    BY <1>1, <2>1 DEF NothingYet
  <2>4. NothingYet'
    BY <1>1, <1>2, <2>1, <2>2, <2>3 DEF NothingYet, Polls, DoneHasOutcome, Matches, Unreadable
  <2>5. PanicIsUnreadable'
    BY <1>1, <2>1, <2>2, <2>3 DEF PanicIsUnreadable, Matches, Unreadable
  <2>6. EndIsComplete' /\ Verdicts'
    BY <1>1, <2>2 DEF EndIsComplete, Verdicts
  <2>7. OkMeansReady'
    BY <1>1, <2>1, <2>2 DEF OkMeansReady, Polls, Matches
  <2>8. QED
    BY <1>2, <1>3, <2>4, <2>5, <2>6, <2>7 DEF LogInv
<1>5. CASE StreamEnds \/ Timeout
  <2>1. /\ read = delivered /\ read' = read /\ pc' = "done"
        /\ \/ outcome' = "panic" /\ wait.kind # "message"
           \/ outcome' = "ended" /\ stream \in {"end", "error"}
           \/ outcome' = "timeout" /\ now >= wait.timeout
    BY <1>5 DEF StreamEnds, Timeout, TypeOK
  <2>2. \A i \in 1..delivered : ~Matches(log[i])
    BY <1>1, <2>1 DEF NothingYet
  <2>3. stream = "end" => daemon = "exited" /\ \A i \in DOMAIN log : ~Matches(log[i])
    BY <2>2 DEF EndIsComplete, TypeOK
  <2>4. Verdicts'
    BY <1>1, <2>1, <2>2, <2>3 DEF Verdicts, Matches
  <2>5. NothingYet' /\ EndIsComplete' /\ PanicIsUnreadable' /\ OkMeansReady'
    BY <1>1, <2>1 DEF NothingYet, EndIsComplete, PanicIsUnreadable, OkMeansReady
  <2>6. QED
    BY <1>2, <1>3, <2>4, <2>5 DEF LogInv
<1>6. QED
  BY <1>4, <1>5

\* The container, its log, its stream and the clock.
LEMMA WorldSteps ==
  ASSUME IInv, TypeOK', World
  PROVE  PollInv' /\ LogInv' /\ DoneHasOutcome' /\ OkMeansReady'
<1> USE WaitType DEF IInv
<1>0. /\ now \in Int /\ since \in Int
      /\ Due(num_checks, wait.interval) \in Int /\ Due(num_checks - 1, wait.interval) \in Int
      /\ Due(num_checks - 1, wait.interval) <= Due(num_checks, wait.interval)
  <2>1. num_checks \in Nat /\ wait.interval \in Nat
    BY DEF TypeOK
  <2>2. now \in Int /\ since \in Int
    BY BoundsType DEF TypeOK
  <2>3. QED
    BY <2>1, <2>2, DueOrder
<1>1. pc # "done" /\ outcome = "none" /\ UNCHANGED <<wait, call>>
  BY DEF World, ComesUp, Exits, Running, Writes, Deliver, EndStream, Advance, DoneHasOutcome
<1>2. /\ DoneHasOutcome' /\ OkMeansReady' /\ PollVerdict' /\ PanicIsUnreadable' /\ Verdicts'
  BY <1>1 DEF call, DoneHasOutcome, OkMeansReady, PollVerdict, PanicIsUnreadable, Verdicts
<1>3. CASE ComesUp \/ Exits
  <2>1. since' = now /\ now' = now /\ daemon' # "starting" /\ UNCHANGED <<log, delivered, stream>>
        /\ daemon # "exited" /\ (daemon = "running" => daemon' = "exited")
    BY <1>3 DEF ComesUp, Exits, Running
  <2>2. SeenHolds' /\ NothingYet' /\ EndIsComplete'
    BY <1>1, <2>1 DEF call, SeenHolds, NothingYet, Polls, EndIsComplete
  <2>3. Paced'
    BY <1>0, <1>1, <2>1 DEF call, Paced, Polls, Late
  <2>4. QED
    BY <1>2, <2>2, <2>3 DEF PollInv, LogInv
<1>4. ASSUME NEW e \in Entries, Writes(e)
      PROVE  PollInv' /\ LogInv' /\ DoneHasOutcome' /\ OkMeansReady'
  <2>1. /\ log' = Append(log, e) /\ daemon = "running"
        /\ UNCHANGED <<daemon, since, delivered, stream, now>>
    BY <1>4 DEF Writes
  <2>2. SeenHolds' /\ EndIsComplete'
    BY <1>1, <2>1 DEF call, SeenHolds, EndIsComplete
  <2>3. \A i \in 1..read : log'[i] = log[i]
    BY <2>1 DEF TypeOK
  <2>4. NothingYet'
    BY <1>1, <2>3 DEF call, NothingYet, Polls, Matches, Unreadable, TypeOK
  <2>5. Paced'
    BY <1>1, <2>1 DEF call, Paced, Polls, Late
  <2>6. QED
    BY <1>2, <2>2, <2>4, <2>5 DEF PollInv, LogInv
<1>5. CASE Deliver \/ EndStream
  <2>1. /\ UNCHANGED <<daemon, since, log, now>>
        /\ delivered' = delivered \/ stream = "open"
        /\ stream' = "end" => daemon = "exited" /\ delivered' = Len(log)
    BY <1>5 DEF Deliver, EndStream
  <2>2. SeenHolds' /\ EndIsComplete' /\ NothingYet'
    BY <1>1, <2>1 DEF call, SeenHolds, EndIsComplete, NothingYet, Polls
  <2>3. Paced'
    BY <1>1, <2>1 DEF call, Paced, Polls, Late
  <2>4. QED
    BY <1>2, <2>2, <2>3 DEF PollInv, LogInv
<1>6. CASE Advance
  <2>1. now' = now + 1 /\ UNCHANGED <<daemon, since, log, delivered, stream>>
    BY <1>6 DEF Advance
  <2>2. SeenHolds' /\ EndIsComplete' /\ NothingYet'
    BY <1>1, <2>1 DEF call, SeenHolds, EndIsComplete, NothingYet, Polls
  <2>3. Paced'
    BY <1>0, <1>1, <2>1 DEF call, Paced, Polls, Late
  <2>4. QED
    BY <1>2, <2>2, <2>3 DEF PollInv, LogInv
<1>7. QED
  BY <1>3, <1>4, <1>5, <1>6 DEF World

\* Every step keeps the invariant.
LEMMA InvInductive == IInv /\ [Next]_vars => IInv'
<1> SUFFICES ASSUME IInv, [Next]_vars PROVE IInv'
  OBVIOUS
<1>1. TypeOK'
  BY TypeInductive
<1>2. CASE Step
  BY <1>1, <1>2, PollSteps, PollStepsLog, ReadSteps DEF Step, IInv, PollInv, LogInv
<1>3. CASE World
  BY <1>1, <1>3, WorldSteps DEF IInv, PollInv, LogInv
<1>4. CASE UNCHANGED vars
  BY <1>1, <1>4
  DEF IInv, SeenHolds, Paced, Late, Polls, NothingYet, EndIsComplete, DoneHasOutcome,
      PanicIsUnreadable, Verdicts, OkMeansReady, PollVerdict, vars, call, world
<1>5. QED
  BY <1>2, <1>3, <1>4 DEF Next, Returned

\* The invariant holds for any conditions, bounds and failures.
THEOREM InvCorrect == Spec => []IInv
<1>1. QED
  BY InitInv, InvInductive, PTL DEF Spec

\* Every variable keeps its type.
THEOREM TypeCorrect == Spec => []TypeOK
<1>1. IInv => TypeOK
  BY DEF IInv
<1>2. QED
  BY InvCorrect, <1>1, PTL

\* A container a wait reports as ready has come up, has exited, or has written
\* the message.
THEOREM OkMeansReadyCorrect == Spec => []OkMeansReady
<1>1. IInv => OkMeansReady
  BY DEF IInv
<1>2. QED
  BY InvCorrect, <1>1, PTL

\* Polling misses no state that lasted from the last check but one on, and gives
\* up no earlier than it says.
THEOREM PollVerdictCorrect == Spec => []PollVerdict
<1>1. IInv => PollVerdict
  BY DEF IInv
<1>2. QED
  BY InvCorrect, <1>1, PTL

\* The verdict on the log fits what was delivered of it.
THEOREM MessageVerdictCorrect == Spec => []MessageVerdict
<1>1. IInv => MessageVerdict
  <2> SUFFICES ASSUME IInv PROVE MessageVerdict
    OBVIOUS
  <2>1. ASSUME wait.kind = "message", outcome = "panic"
        PROVE  /\ read \in 1..delivered /\ Unreadable(log[read])
               /\ \A j \in 1..(read - 1) : ~Unreadable(log[j])
               /\ \A j \in 1..delivered : Matches(log[j]) => read < j
    BY <2>1 DEF IInv, TypeOK, PanicIsUnreadable, Matches, Unreadable
  <2>2. QED
    BY <2>1 DEF IInv, Verdicts, MessageVerdict
<1>2. QED
  BY InvCorrect, <1>1, PTL

=============================================================================
