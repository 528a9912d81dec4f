------------------------------- MODULE WaitFor -------------------------------
(***************************************************************************)
(* The wait conditions a start runs before a container is operational      *)
(* (src/src/waitfor): RunningWait and ExitedWait poll the daemon a bounded *)
(* number of times, MessageWait reads the log stream under a timeout,      *)
(* NoWait returns at once.  assert_message of a body is wait_for_message   *)
(* too and panics where MessageWait returns an error.                      *)
(*                                                                         *)
(* One call is modelled, with the container, its log, the stream that      *)
(* delivers it and a clock in seconds.  Timers fire at their time or       *)
(* later: nothing bounds how long the runtime takes to poll.               *)
(***************************************************************************)
EXTENDS Integers, Sequences

CONSTANTS
    Waits,      \* the conditions: [kind, interval, checks, timeout]
    Horizon,    \* bound on the clock
    MaxLog,     \* bound on the entries of the log
    Faults      \* what may fail: "inspect", "stream"

Kinds == {"nowait", "running", "exited", "message", "assert"}

ASSUME WaitsAssumption ==
    Waits \subseteq [kind : Kinds, interval : Nat, checks : Nat, timeout : Nat]
ASSUME HorizonAssumption ==
    /\ Horizon \in Nat /\ MaxLog \in Nat
    /\ \A w \in Waits : w.timeout <= Horizon /\ w.interval * (w.checks - 1) <= Horizon

VARIABLES
    wait,       \* the condition
    pc,         \* "begin", "check", "seen", "tick", "stream" or "done"
    outcome,    \* "none", "ok", "unmet", "ended", "timeout" or "panic"
    num_checks, \* failed checks so far
    seen,       \* the state the last inspection reported, "error" if it failed
    read,       \* entries take_while has looked at
    daemon,     \* the container: "starting", "running" or "exited"
    log,        \* what it has written
    delivered,  \* how much of it has reached the stream
    stream,     \* the stream behind it: "open", "end" or "error"
    now,        \* the clock; the wait begins at 0
    since,      \* history: when the container entered its present state
    faulted     \* history: an inspection failed

call  == <<pc, outcome, num_checks, seen, read, faulted>>
world == <<daemon, since, log, delivered, stream, now>>
vars  == <<wait, call, world>>

\* The streams a container writes to, and what an entry may be for
\* take_while: contain the message or not, or be no UTF-8.
Sources == {"asked", "other"}
Texts   == {"match", "plain", "binary"}
Entries == [source : Sources, text : Texts]

TypeOK ==
    /\ wait \in Waits
    /\ pc \in {"begin", "check", "seen", "tick", "stream", "done"}
    /\ outcome \in {"none", "ok", "unmet", "ended", "timeout", "panic"}
    /\ num_checks \in 0..wait.checks
    /\ seen \in {"starting", "running", "exited", "error"}
    /\ read \in 0..delivered
    /\ daemon \in {"starting", "running", "exited"}
    /\ log \in Seq(Entries) /\ Len(log) <= MaxLog
    /\ delivered \in 0..Len(log)
    /\ stream \in {"open", "end", "error"}
    /\ now \in 0..Horizon /\ since \in 0..now
    /\ faulted \in BOOLEAN

Init ==
    /\ wait \in Waits
    /\ pc = "begin" /\ outcome = "none"
    /\ num_checks = 0 /\ seen = "error" /\ read = 0
    /\ daemon \in {"starting", "running"}
    /\ log = <<>> /\ delivered = 0 /\ stream = "open"
    /\ now = 0 /\ since = 0
    /\ faulted = FALSE

-----------------------------------------------------------------------------
\* The call.

Returns(o) == pc' = "done" /\ outcome' = o

\* assert_message panics with the error that MessageWait returns.
Failure(o) == IF wait.kind = "assert" THEN "panic" ELSE o

\* wait_for_ready; tokio's interval panics on a period of zero.
Begin ==
    /\ pc = "begin"
    /\ CASE wait.kind = "nowait" -> Returns("ok")
         [] wait.kind \in {"running", "exited"} ->
              IF wait.interval = 0 THEN Returns("panic")
                                   ELSE pc' = "check" /\ UNCHANGED outcome
         [] OTHER -> pc' = "stream" /\ UNCHANGED outcome
    /\ UNCHANGED <<wait, num_checks, seen, read, faulted, world>>

\* Mutant: the loop ends one check early.
ExhaustedEarly == num_checks + 1 >= wait.checks

Exhausted == num_checks >= wait.checks

\* All checks are used up.
GiveUp ==
    /\ pc = "check" /\ Exhausted
    /\ Returns("unmet")
    /\ UNCHANGED <<wait, num_checks, seen, read, faulted, world>>

\* container_state: what the daemon reports, or an error.
Inspect ==
    /\ pc = "check" /\ ~Exhausted
    /\ pc' = "seen"
    /\ \/ seen' = daemon /\ UNCHANGED faulted
       \/ "inspect" \in Faults /\ seen' = "error" /\ faulted' = TRUE
    /\ UNCHANGED <<wait, outcome, num_checks, read, world>>

\* Mutant: an inspection that fails is not counted.
DecideUncounted ==
    /\ pc = "seen"
    /\ IF seen = wait.kind
       THEN Returns("ok") /\ UNCHANGED num_checks
       ELSE /\ pc' = "tick"
            /\ num_checks' = IF seen = "error" THEN num_checks ELSE num_checks + 1
            /\ UNCHANGED outcome
    /\ UNCHANGED <<wait, seen, read, faulted, world>>

\* container_state_compare; an inspection that failed is a check that failed.
Decide ==
    /\ pc = "seen"
    /\ IF seen = wait.kind
       THEN Returns("ok") /\ UNCHANGED num_checks
       ELSE /\ pc' = "tick" /\ num_checks' = num_checks + 1
            /\ UNCHANGED outcome
    /\ UNCHANGED <<wait, seen, read, faulted, world>>

\* interval.tick(): the first is due at once, each later one an interval after
\* the one before was due, so late ticks are made up for.
Tick ==
    /\ pc = "tick" /\ now >= (num_checks - 1) * wait.interval
    /\ pc' = "check"
    /\ UNCHANGED <<wait, outcome, num_checks, seen, read, faulted, world>>

\* Mutant: the source of an entry is not looked at.
ReadAny ==
    /\ pc = "stream" /\ read < delivered
    /\ read' = read + 1
    /\ CASE log[read + 1].text = "match"  -> Returns("ok")
         [] log[read + 1].text = "binary" -> Returns("panic")
         [] OTHER -> UNCHANGED <<pc, outcome>>
    /\ UNCHANGED <<wait, num_checks, seen, faulted, world>>

\* container_logs drops the entries of the other source, take_while looks at
\* the rest: from_utf8 is unwrapped.
Read ==
    /\ pc = "stream" /\ read < delivered
    /\ read' = read + 1
    /\ IF log[read + 1].source = "other" \/ log[read + 1].text = "plain"
       THEN UNCHANGED <<pc, outcome>>
       ELSE Returns(IF log[read + 1].text = "match" THEN "ok" ELSE "panic")
    /\ UNCHANGED <<wait, num_checks, seen, faulted, world>>

\* The stream ends or yields an error: both end the collect.
StreamEnds ==
    /\ pc = "stream" /\ read = delivered /\ stream # "open"
    /\ Returns(Failure("ended"))
    /\ UNCHANGED <<wait, num_checks, seen, read, faulted, world>>

\* Mutant: the timer is looked at before the stream.
TimeoutFirst ==
    /\ pc = "stream" /\ now >= wait.timeout
    /\ Returns(Failure("timeout"))
    /\ UNCHANGED <<wait, num_checks, seen, read, faulted, world>>

\* timeout() polls the stream until it is pending and only then its timer.
Timeout ==
    /\ pc = "stream" /\ read = delivered /\ stream = "open"
    /\ now >= wait.timeout
    /\ Returns(Failure("timeout"))
    /\ UNCHANGED <<wait, num_checks, seen, read, faulted, world>>

Step == Begin \/ GiveUp \/ Inspect \/ Decide \/ Tick \/ Read \/ StreamEnds \/ Timeout

-----------------------------------------------------------------------------
\* The container, the daemon's stream and the clock, as long as the call lasts.

Running(s) ==
    /\ daemon' = s
    /\ since' = now
    /\ UNCHANGED <<wait, call, log, delivered, stream, now>>

ComesUp == pc # "done" /\ daemon = "starting" /\ Running("running")
Exits   == pc # "done" /\ daemon = "running" /\ Running("exited")

\* A log that the call does not read is left out.
Writes(e) ==
    /\ pc # "done" /\ wait.kind \in {"message", "assert"}
    /\ daemon = "running" /\ Len(log) < MaxLog
    /\ log' = Append(log, e)
    /\ UNCHANGED <<wait, call, daemon, since, delivered, stream, now>>

Deliver ==
    /\ pc # "done" /\ delivered < Len(log) /\ stream = "open"
    /\ delivered' = delivered + 1
    /\ UNCHANGED <<wait, call, daemon, since, log, stream, now>>

\* The daemon ends a followed stream when the container has exited and all of
\* its log is delivered; the connection may break at any time.
EndStream ==
    /\ pc # "done" /\ stream = "open"
    /\ \/ daemon = "exited" /\ delivered = Len(log) /\ stream' = "end"
       \/ "stream" \in Faults /\ stream' = "error"
    /\ UNCHANGED <<wait, call, daemon, since, log, delivered, now>>

Advance ==
    /\ pc # "done" /\ now < Horizon
    /\ now' = now + 1
    /\ UNCHANGED <<wait, call, daemon, since, log, delivered, stream>>

World == ComesUp \/ Exits \/ (\E e \in Entries : Writes(e)) \/ Deliver \/ EndStream \/ Advance

Returned == pc = "done" /\ UNCHANGED vars

Next == Step \/ World \/ Returned

Spec == Init /\ [][Next]_vars

\* The runtime polls the call, the daemon answers inspections, time passes.
\* Nothing is assumed of the container and of the delivery of its log.
FairSpec == Spec /\ WF_vars(Step) /\ WF_vars(Advance)

-----------------------------------------------------------------------------
\* Properties.

Matches(e)  == e.source = "asked" /\ e.text = "match"
Unreadable(e) == e.source = "asked" /\ e.text = "binary"
Polls == wait.kind \in {"running", "exited"}

\* A container that a wait reports as ready is: after ExitedWait it is still
\* exited (its expected_state), after RunningWait it has come up, after
\* MessageWait or assert_message it has written the message to the source.
OkMeansReady ==
    outcome = "ok" =>
        /\ wait.kind = "exited" => daemon = "exited"
        /\ wait.kind = "running" => daemon # "starting"
        /\ wait.kind \in {"message", "assert"} => \E i \in DOMAIN log : Matches(log[i])

\* RunningWait and ExitedWait give the container all the time their bounds
\* promise, no failure before max_checks - 1 intervals have passed; and if the
\* daemon answered, they do not fail on a container that was in the state they
\* wait for since before their last check was due, the second last interval.
PollVerdict ==
    Polls /\ outcome = "unmet" =>
        /\ now >= (wait.checks - 1) * wait.interval
        /\ daemon = wait.kind /\ ~faulted => since >= (wait.checks - 2) * wait.interval

\* The verdict of wait_for_message fits the log, whichever of the message, the
\* end of the stream and the timer comes first: it fails only without a message
\* among what was delivered, "ended" only if the stream was cut or the container
\* wrote no message at all, "timeout" only after the timeout; and it panics only
\* on text that is no UTF-8 before any message.
MessageVerdict ==
    LET FirstOf(P(_)) == {i \in 1..delivered : P(log[i]) /\ \A j \in 1..(i - 1) : ~P(log[j])}
    IN  /\ wait.kind = "message" /\ outcome \in {"ended", "timeout"} =>
              \A i \in 1..delivered : ~Matches(log[i])
        /\ outcome = "ended" =>
              \/ stream = "error"
              \/ daemon = "exited" /\ \A i \in DOMAIN log : ~Matches(log[i])
        /\ outcome = "timeout" => now >= wait.timeout
        /\ wait.kind = "message" /\ outcome = "panic" =>
              \E i \in FirstOf(Unreadable) : \A j \in FirstOf(Matches) : i < j

\* Whatever the container does, a wait returns.
EventuallyReturns == <>(outcome # "none")
=============================================================================
