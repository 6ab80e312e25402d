----------------------------- MODULE SignedTime -----------------------------
(***************************************************************************)
(* The clock of the signed-time authority: a monitor thread samples the    *)
(* host's clock, or that of an isolated chronyd, every few seconds; devices*)
(* are answered from the last accepted sample while it is fresh.           *)
(*                                                                         *)
(* A clock reading is an offset: UTC minus the monotonic clock.  The       *)
(* monotonic clock itself is not a variable; what the code derives from it *)
(* are ages, which Tick advances.  An age stays at its largest value when  *)
(* it reaches it, one more than any limit it is compared with.             *)
(*                                                                         *)
(* A step is what the code does between two points where time may pass or  *)
(* the process may stop; Clock.lock and Authority.lock make the update of a*)
(* refresh, now() and an answer single steps.                              *)
(***************************************************************************)
EXTENDS Integers

CONSTANTS
    Lease,       \* how old an accepted sample may be (15 s)
    Wait,        \* time between samples (5 s)
    MaxDelay,    \* how long taking a sample may take (2 s)
    Tolerance,   \* largest difference that is not a step (2 s)
    MaxOffset,   \* bound on the source's offset
    MaxSteps,    \* bound on changes of the source's offset
    MaxFaults    \* bound on restarts and failed writes

ASSUME LimitsAssumption ==
    /\ Lease \in Nat /\ Wait \in Nat /\ MaxDelay \in Nat /\ Tolerance \in Nat
    /\ MaxOffset \in Nat /\ MaxSteps \in Nat /\ MaxFaults \in Nat
    /\ Tolerance <= Wait

VARIABLES
    source,    \* the clock that is sampled: its offset and its state
    clock,     \* the Clock object
    monitor,   \* the monitor thread
    faults,    \* faults so far
    steps,     \* changes of the source's offset so far
    calm,      \* history: time since the last of them
    mark,      \* history: the largest offset answered, less the time since
    seen       \* history: a sample of this process has shown a step

vars == <<source, clock, monitor, faults, steps, calm, mark, seen>>

Later(age, last) == IF age < last THEN age + 1 ELSE age

Expired == Lease + 1
Settled == Lease + MaxDelay + 1
TooLate == MaxDelay + 1

Source == [offset : 0..MaxOffset, state : {"good", "bad", "gone"}]

(* The anchor is its offset and its age, once a sample has been accepted.  *)
Clock == [healthy : BOOLEAN, fault : BOOLEAN, anchored : BOOLEAN,
          offset : (-TooLate)..MaxOffset, age : 0..Expired]
NewClock == [healthy |-> FALSE, fault |-> FALSE, anchored |-> FALSE,
             offset |-> 0, age |-> Expired]

(* elapsed, late: time since the sample was begun and since the source was *)
(* read; read: the offset then; left: what is left of the wait.            *)
Monitor == [step : {"wait", "sample", "sampled", "publish", "dead"},
            elapsed : 0..TooLate, late : 0..TooLate, read : 0..MaxOffset,
            left : 0..Wait]
At(step, left) == [step |-> step, elapsed |-> 0, late |-> 0, read |-> 0, left |-> left]

TypeOK ==
    /\ source \in Source
    /\ clock \in Clock
    /\ clock.healthy => clock.anchored /\ ~clock.fault
    /\ monitor \in Monitor
    /\ faults \in 0..MaxFaults
    /\ steps \in 0..MaxSteps
    /\ calm \in 0..Settled
    /\ mark \in (-TooLate)..MaxOffset
    /\ seen \in BOOLEAN

Init ==
    /\ source \in [offset : 0..MaxOffset, state : {"good", "bad"}]
    /\ clock = NewClock
    /\ monitor = At("wait", 0)
    /\ faults = 0
    /\ steps = 0
    /\ calm = 0
    /\ mark = -TooLate
    /\ seen = FALSE

-----------------------------------------------------------------------------
(* The monitor thread: Clock.refresh, then the status file, then a wait.   *)

Begin ==
    /\ monitor.step = "wait" /\ monitor.left = 0
    /\ monitor' = At("sample", 0)
    /\ UNCHANGED <<source, clock, faults, steps, calm, mark, seen>>

(* host_sample, chrony_sample: evidence of synchronisation, then the time. *)
ReadSource ==
    /\ monitor.step = "sample"
    /\ source.state = "good"
    /\ monitor' = [monitor EXCEPT !.step = "sampled", !.read = source.offset]
    /\ UNCHANGED <<source, clock, faults, steps, calm, mark, seen>>

(* No evidence, a timeout, chronyd gone: the sample raises.                *)
SampleFails ==
    /\ monitor.step = "sample"
    /\ clock' = [clock EXCEPT !.healthy = FALSE]
    /\ monitor' = At("publish", 0)
    /\ UNCHANGED <<source, faults, steps, calm, mark, seen>>

(* The reading as an offset of the monotonic clock at the sample's end.    *)
Reading == monitor.read - monitor.late
InTime == monitor.elapsed <= MaxDelay
IsStep ==
    /\ clock.anchored
    /\ \/ Reading - clock.offset > Tolerance
       \/ clock.offset - Reading > Tolerance

Anchored == [healthy |-> TRUE, fault |-> FALSE, anchored |-> TRUE,
             offset |-> Reading, age |-> 0]

(* Slip: a sample that is no step makes the clock healthy again.           *)
RefreshedAgain ==
    IF ~InTime THEN [clock EXCEPT !.healthy = FALSE]
    ELSE IF IsStep THEN [clock EXCEPT !.healthy = FALSE, !.fault = TRUE]
    ELSE Anchored

(* Slip: healthy is set before the readings are compared.                  *)
RefreshedThenCompared ==
    IF ~InTime THEN [clock EXCEPT !.healthy = FALSE]
    ELSE IF IsStep \/ clock.fault
    THEN [clock EXCEPT !.healthy = ~clock.fault, !.fault = TRUE]
    ELSE Anchored

(* Slip: a clock that was unhealthy stays unhealthy.                       *)
RefreshedWhileHealthy ==
    IF ~InTime \/ (clock.anchored /\ ~clock.healthy)
    THEN [clock EXCEPT !.healthy = FALSE]
    ELSE IF IsStep \/ clock.fault
    THEN [clock EXCEPT !.healthy = FALSE, !.fault = TRUE]
    ELSE Anchored

Refreshed ==
    IF ~InTime THEN [clock EXCEPT !.healthy = FALSE]
    ELSE IF IsStep \/ clock.fault
    THEN [clock EXCEPT !.healthy = FALSE, !.fault = TRUE]
    ELSE Anchored

EndSample ==
    /\ monitor.step = "sampled"
    /\ clock' = Refreshed
    /\ monitor' = At("publish", 0)
    /\ seen' = (seen \/ (InTime /\ IsStep))
    /\ UNCHANGED <<source, faults, steps, calm, mark>>

(* Slip: the wait is left out.                                             *)
PublishOnly ==
    /\ monitor.step = "publish"
    /\ monitor' = At("wait", 0)
    /\ UNCHANGED <<source, clock, faults, steps, calm, mark, seen>>

(* The status file, whose readers are in Startup.                          *)
Publish ==
    /\ monitor.step = "publish"
    /\ monitor' = At("wait", Wait)
    /\ UNCHANGED <<source, clock, faults, steps, calm, mark, seen>>

(* atomic_json raises and nobody catches it: the thread ends, the server   *)
(* goes on, and the supervisor sees a living process.                      *)
PublishFails ==
    /\ monitor.step = "publish"
    /\ faults < MaxFaults
    /\ faults' = faults + 1
    /\ monitor' = At("dead", 0)
    /\ UNCHANGED <<source, clock, steps, calm, mark, seen>>

-----------------------------------------------------------------------------
(* Devices.                                                                *)

(* Slip: an accepted sample does not expire.                               *)
CanSignForever == clock.healthy /\ ~clock.fault /\ clock.anchored

(* Clock.now                                                               *)
CanSign ==
    /\ clock.healthy /\ ~clock.fault /\ clock.anchored
    /\ clock.age <= Lease

(* Authority.response, for an allowed device within its rate.              *)
Answer ==
    /\ CanSign
    /\ mark' = IF mark < clock.offset THEN clock.offset ELSE mark
    /\ UNCHANGED <<source, clock, monitor, faults, steps, calm, seen>>

-----------------------------------------------------------------------------
(* Time, the sampled clock, and restarts.                                  *)

Tick ==
    /\ clock' = [clock EXCEPT !.age = Later(@, Expired)]
    /\ monitor' =
         CASE monitor.step = "sample" ->
                [monitor EXCEPT !.elapsed = Later(@, TooLate)]
           [] monitor.step = "sampled" ->
                [monitor EXCEPT !.elapsed = Later(@, TooLate), !.late = Later(@, TooLate)]
           [] monitor.step = "wait" /\ monitor.left > 0 ->
                [monitor EXCEPT !.left = @ - 1]
           [] OTHER -> monitor
    /\ calm' = Later(calm, Settled)
    /\ mark' = IF mark > -TooLate THEN mark - 1 ELSE mark
    /\ UNCHANGED <<source, faults, steps, seen>>

(* Somebody sets the clock, or it is steered.                              *)
StepSource(o) ==
    /\ steps < MaxSteps
    /\ o # source.offset
    /\ source' = [source EXCEPT !.offset = o]
    /\ steps' = steps + 1
    /\ calm' = 0
    /\ UNCHANGED <<clock, monitor, faults, mark, seen>>

(* Synchronisation is lost and found again; a chronyd that has ended is    *)
(* not started again before the process is.                                *)
SourceChanges(s) ==
    /\ source.state # "gone"
    /\ source' = [source EXCEPT !.state = s]
    /\ UNCHANGED <<clock, monitor, faults, steps, calm, mark, seen>>

(* The add-on restarts; what the clock knew is lost.                       *)
Restart ==
    /\ faults < MaxFaults
    /\ faults' = faults + 1
    /\ clock' = NewClock
    /\ monitor' = At("wait", 0)
    /\ source' = [source EXCEPT !.state = IF @ = "gone" THEN "bad" ELSE @]
    /\ mark' = -TooLate
    /\ seen' = FALSE
    /\ UNCHANGED <<steps, calm>>

-----------------------------------------------------------------------------

MonitorStep == Begin \/ ReadSource \/ SampleFails \/ EndSample \/ Publish

Next ==
    \/ MonitorStep \/ PublishFails
    \/ Answer
    \/ Tick
    \/ \E o \in 0..MaxOffset : StepSource(o)
    \/ \E s \in {"good", "bad", "gone"} : SourceChanges(s)
    \/ Restart

Spec == Init /\ [][Next]_vars

(* Time passes, the thread runs on, and a sample that can be taken in time *)
(* again and again sometimes is: iot-ca-clock-status and chronyc are given *)
(* a second each, half of what refresh allows.                             *)
Fairness ==
    /\ WF_vars(Tick) /\ WF_vars(MonitorStep)
    /\ SF_vars(InTime /\ ReadSource) /\ SF_vars(InTime /\ EndSample)

FairSpec == Spec /\ Fairness

-----------------------------------------------------------------------------
(* Properties.                                                             *)

(* A step of the clock that one sample has shown ends signing for the rest *)
(* of this process, whatever later samples, outages or source changes      *)
(* bring (Clock.refresh, fault; DOCS.md, "Steps are latched").             *)
StepIsFinal == seen => ~CanSign

(* The time that is answered is not earlier than the time of any earlier   *)
(* answer of this process by more than one tolerance, however many accepted*)
(* samples have each moved the clock back: they lie a wait apart, and a    *)
(* tolerance is no longer than a wait (Clock.refresh).  How far the answers*)
(* fall behind the pace of an earlier one is not bounded: small steps back *)
(* of the source are followed one by one.                                  *)
TimeHardlyGoesBack == CanSign => clock.offset >= mark - Tolerance

(* Once the sampled clock has been left alone for longer than a lease and  *)
(* a sample, an answer agrees with it up to the time a sample may take; or *)
(* there is no answer.  A dead or late monitor does not change this.       *)
AnswersWithSource ==
    CanSign /\ calm = Settled =>
        /\ clock.offset <= source.offset
        /\ clock.offset >= source.offset - MaxDelay

(* An outage of the sampled clock ends: when the clock is synchronised from*)
(* some time on, the authority can sign again and again, unless a step is  *)
(* latched or the monitor thread has died ("ordinary source outages may    *)
(* recover", DOCS.md).                                                     *)
OutageRecovers ==
    <>[](source.state = "good")
        => []<>(CanSign \/ clock.fault \/ monitor.step = "dead")

=============================================================================
