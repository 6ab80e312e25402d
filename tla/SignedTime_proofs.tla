-------------------------- MODULE SignedTime_proofs -------------------------
(***************************************************************************)
(* Theorems about SignedTime for every value of its constants.             *)
(***************************************************************************)
EXTENDS SignedTime, TLAPS

StepLatched == seen => clock.fault

(* How far the last answers may lie after the accepted sample: a tolerance *)
(* after a sample, nothing when the wait is over.                          *)
Course ==
    /\ ~clock.anchored => mark = -TooLate
    /\ clock.anchored =>
         \/ mark <= clock.offset
         \/ monitor.step \in {"publish", "dead"} /\ mark <= clock.offset + Tolerance
         \/ monitor.step = "wait" /\ mark <= clock.offset + Tolerance - Wait + monitor.left

(* A reading that is younger than the last change of the source is right,  *)
(* and so is the sample that was accepted from it.                         *)
ReadingRight ==
    /\ monitor.late <= monitor.elapsed
    /\ monitor.step = "sampled" /\ monitor.late <= MaxDelay /\ calm > monitor.late
       => monitor.read = source.offset
SampleRight ==
    clock.anchored /\ clock.age <= Lease /\ calm > clock.age + MaxDelay =>
        clock.offset \in (source.offset - MaxDelay)..source.offset

(* The inductive invariant. *)
IInv == TypeOK /\ StepLatched /\ Course /\ ReadingRight /\ SampleRight

-----------------------------------------------------------------------------
LEMMA Limits ==
    /\ Lease \in Nat /\ Wait \in Nat /\ MaxDelay \in Nat /\ Tolerance \in Nat
    /\ MaxOffset \in Nat /\ MaxSteps \in Nat /\ MaxFaults \in Nat /\ Tolerance <= Wait
    /\ Expired \in Nat /\ Settled \in Nat /\ TooLate \in Nat
    /\ Expired = Lease + 1 /\ Settled = Lease + MaxDelay + 1 /\ TooLate = MaxDelay + 1
BY LimitsAssumption DEF Expired, Settled, TooLate

LEMMA NewTypes ==
    /\ NewClock \in Clock
    /\ \A s \in {"wait", "sample", "sampled", "publish", "dead"}, n \in 0..Wait :
         At(s, n) \in Monitor
    /\ 0 \in 0..Wait /\ Wait \in 0..Wait
BY Limits DEF NewClock, Clock, At, Monitor

LEMMA LaterType ==
    ASSUME NEW last \in Nat, NEW age \in 0..last
    PROVE  Later(age, last) \in 0..last /\ Later(age, last) >= age
           /\ Later(age, last) <= age + 1 /\ (age < last => Later(age, last) = age + 1)
BY DEF Later

LEMMA ReadingType ==
    ASSUME TypeOK
    PROVE  /\ Reading \in (-TooLate)..MaxOffset
           /\ Reading = monitor.read - monitor.late
BY Limits DEF TypeOK, Monitor, Reading

LEMMA InitIInv == Init => IInv
<1> SUFFICES ASSUME Init PROVE IInv
  OBVIOUS
<1>1. source \in Source /\ clock \in Clock /\ monitor \in Monitor
  BY NewTypes DEF Init, Source
<1>2. TypeOK
  <2>1. -TooLate \in (-TooLate)..MaxOffset /\ 0 \in 0..MaxFaults /\ 0 \in 0..MaxSteps
        /\ 0 \in 0..Settled
    BY Limits
  <2>2. ~clock.healthy
    BY DEF Init, NewClock
  <2> QED
    BY <1>1, <2>1, <2>2 DEF Init, TypeOK
<1>3. StepLatched /\ Course /\ ReadingRight /\ SampleRight
  BY Limits DEF Init, StepLatched, Course, ReadingRight, SampleRight, NewClock, At
<1> QED
  BY <1>2, <1>3 DEF IInv

-----------------------------------------------------------------------------
(* What a refresh can leave. *)
LEMMA RefreshCases ==
    ASSUME TypeOK
    PROVE  \/ Refreshed = [clock EXCEPT !.healthy = FALSE] /\ (~InTime \/ (~IsStep /\ clock.fault))
           \/ Refreshed = [clock EXCEPT !.healthy = FALSE, !.fault = TRUE]
           \/ /\ InTime /\ ~IsStep /\ ~clock.fault
              /\ Refreshed = Anchored
<1>1. CASE ~InTime
  BY <1>1 DEF Refreshed
<1>2. CASE InTime /\ (IsStep \/ clock.fault)
  BY <1>2 DEF Refreshed
<1>3. CASE InTime /\ ~IsStep /\ ~clock.fault
  BY <1>3 DEF Refreshed
<1> QED
  BY <1>1, <1>2, <1>3

LEMMA RefreshedType ==
    ASSUME TypeOK
    PROVE  /\ Refreshed \in Clock
           /\ Refreshed.healthy => Refreshed.anchored /\ ~Refreshed.fault
<1>1. Anchored \in Clock /\ Anchored.anchored /\ ~Anchored.fault
  BY ReadingType, Limits DEF Anchored, Clock
<1>2. [clock EXCEPT !.healthy = FALSE] \in Clock
      /\ ~[clock EXCEPT !.healthy = FALSE].healthy
  BY DEF TypeOK, Clock
<1>3. [clock EXCEPT !.healthy = FALSE, !.fault = TRUE] \in Clock
      /\ ~[clock EXCEPT !.healthy = FALSE, !.fault = TRUE].healthy
  BY DEF TypeOK, Clock
<1> QED
  BY <1>1, <1>2, <1>3, RefreshCases

(* What a tick does to the monitor. *)
LEMMA TickMonitor ==
    ASSUME TypeOK, Tick
    PROVE  /\ monitor' \in Monitor /\ monitor'.step = monitor.step
           /\ monitor'.read = monitor.read
           /\ monitor.step = "sampled" =>
                /\ monitor'.elapsed = Later(monitor.elapsed, TooLate)
                /\ monitor'.late = Later(monitor.late, TooLate)
           /\ monitor.step # "sampled" =>
                /\ monitor'.late = monitor.late /\ monitor'.elapsed >= monitor.elapsed
           /\ monitor.step = "wait" =>
                monitor'.left = IF monitor.left > 0 THEN monitor.left - 1 ELSE 0
<1> DEFINE elapsed == Later(monitor.elapsed, TooLate)
           late == Later(monitor.late, TooLate)
<1>1. elapsed \in 0..TooLate /\ late \in 0..TooLate /\ elapsed >= monitor.elapsed
  BY LaterType, Limits DEF TypeOK, Monitor
<1>2. CASE monitor.step = "sample"
  <2>1. monitor' = [monitor EXCEPT !.elapsed = elapsed]
    BY <1>2 DEF Tick
  <2> HIDE DEF elapsed, late
  <2> QED
    BY <1>1, <1>2, <2>1 DEF TypeOK, Monitor
<1>3. CASE monitor.step = "sampled"
  <2>1. monitor' = [monitor EXCEPT !.elapsed = elapsed, !.late = late]
    BY <1>3 DEF Tick
  <2>2. monitor' \in Monitor /\ monitor'.step = "sampled" /\ monitor'.read = monitor.read
        /\ monitor'.elapsed = elapsed /\ monitor'.late = late
    <3> HIDE DEF elapsed, late
    <3> QED
      BY <1>1, <1>3, <2>1 DEF TypeOK, Monitor
  <2> QED
    BY <1>3, <2>2
<1>4. CASE monitor.step = "wait" /\ monitor.left > 0
  BY <1>4, Limits DEF Tick, TypeOK, Monitor
<1>5. CASE monitor.step \in {"publish", "dead"} \/ (monitor.step = "wait" /\ ~(monitor.left > 0))
  <2>1. monitor' = monitor
    BY <1>5 DEF Tick
  <2> QED
    BY <1>5, <2>1, Limits DEF TypeOK, Monitor
<1>6. monitor.step \in {"wait", "sample", "sampled", "publish", "dead"}
  BY DEF TypeOK, Monitor
<1> QED
  BY <1>2, <1>3, <1>4, <1>5, <1>6

(* And to the ages. *)
LEMMA TickAges ==
    ASSUME TypeOK, Tick
    PROVE  /\ clock' = [clock EXCEPT !.age = Later(clock.age, Expired)]
           /\ clock' \in Clock /\ clock'.healthy = clock.healthy /\ clock'.fault = clock.fault
           /\ clock'.anchored = clock.anchored /\ clock'.offset = clock.offset
           /\ clock'.age = Later(clock.age, Expired)
           /\ Later(clock.age, Expired) \in 0..Expired
           /\ clock.age <= Lease => clock'.age = clock.age + 1
           /\ calm' \in 0..Settled /\ calm' >= calm /\ calm' <= calm + 1
<1> DEFINE age == Later(clock.age, Expired)
<1>1. age \in 0..Expired /\ (clock.age <= Lease => age = clock.age + 1)
  BY LaterType, Limits DEF TypeOK, Clock
<1>2. clock' = [clock EXCEPT !.age = age]
  BY DEF Tick
<1>3. calm' \in 0..Settled /\ calm' >= calm /\ calm' <= calm + 1
  BY LaterType, Limits DEF Tick, TypeOK
<1> HIDE DEF age
<1>4. clock' \in Clock /\ clock'.healthy = clock.healthy /\ clock'.fault = clock.fault
      /\ clock'.anchored = clock.anchored /\ clock'.offset = clock.offset /\ clock'.age = age
  BY <1>1, <1>2 DEF TypeOK, Clock
<1> USE DEF age
<1> QED
  BY <1>1, <1>2, <1>3, <1>4

-----------------------------------------------------------------------------
(* TypeOK, with the sets that contain no variable left closed. *)
LEMMA Typed ==
    ASSUME source' \in Source, clock' \in Clock,
           clock'.healthy => clock'.anchored /\ ~clock'.fault,
           monitor' \in Monitor, faults' \in 0..MaxFaults, steps' \in 0..MaxSteps,
           calm' \in 0..Settled, mark' \in (-TooLate)..MaxOffset, seen' \in BOOLEAN
    PROVE  TypeOK'
BY DEF TypeOK, Source, Clock, Monitor

LEMMA NextType ==
    ASSUME TypeOK, Next
    PROVE  TypeOK'
<1>1. CASE Begin \/ Publish
  <2>1. monitor' \in Monitor
    BY <1>1, NewTypes DEF Begin, Publish
  <2> QED
    BY <1>1, <2>1 DEF Begin, Publish, TypeOK, Source, Clock, Monitor
<1>2. CASE ReadSource
  <2>1. monitor' \in Monitor
    BY <1>2 DEF ReadSource, TypeOK, Monitor, Source
  <2> QED
    BY <1>2, <2>1 DEF ReadSource, TypeOK, Source, Clock, Monitor
<1>3. CASE SampleFails
  <2>1. monitor' \in Monitor
    BY <1>3, NewTypes DEF SampleFails
  <2>2. clock' \in Clock /\ ~clock'.healthy
    BY <1>3 DEF SampleFails, TypeOK, Clock
  <2> QED
    BY <1>3, <2>1, <2>2 DEF SampleFails, TypeOK, Source, Clock, Monitor
<1>4. CASE EndSample
  <2>1. monitor' \in Monitor
    BY <1>4, NewTypes DEF EndSample
  <2>2. clock' = Refreshed
    BY <1>4 DEF EndSample
  <2>3. clock' \in Clock /\ (clock'.healthy => clock'.anchored /\ ~clock'.fault)
    BY <2>2, RefreshedType
  <2>4. seen' \in BOOLEAN
    BY <1>4 DEF EndSample
  <2> QED
    BY <1>4, <2>1, <2>3, <2>4 DEF EndSample, TypeOK, Source, Clock, Monitor
<1>5. CASE PublishFails
  <2>1. monitor' \in Monitor
    BY <1>5, NewTypes DEF PublishFails
  <2> QED
    BY <1>5, <2>1, Limits DEF PublishFails, TypeOK, Source, Clock, Monitor
<1>6. CASE Answer
  BY <1>6 DEF Answer, TypeOK, Source, Clock, Monitor
<1>7. CASE Tick
  <2>1. mark' \in (-TooLate)..MaxOffset
    BY <1>7, Limits DEF Tick, TypeOK
  <2>2. clock' \in Clock /\ (clock'.healthy => clock'.anchored /\ ~clock'.fault)
        /\ calm' \in 0..Settled
    BY <1>7, TickAges DEF TypeOK
  <2>3. monitor' \in Monitor
    BY <1>7, TickMonitor
  <2> QED
    BY <1>7, <2>1, <2>2, <2>3 DEF Tick, TypeOK, Source, Clock, Monitor
<1>8. CASE \E o \in 0..MaxOffset : StepSource(o)
  BY <1>8, Limits DEF StepSource, TypeOK, Source, Clock, Monitor
<1>9. CASE \E s \in {"good", "bad", "gone"} : SourceChanges(s)
  BY <1>9 DEF SourceChanges, TypeOK, Source, Clock, Monitor
<1>10. CASE Restart
  <2>1. monitor' \in Monitor /\ clock' \in Clock /\ ~clock'.healthy
    BY <1>10, NewTypes DEF Restart, NewClock
  <2>2. source' \in Source
    BY <1>10 DEF Restart, TypeOK, Source
  <2>3. faults' \in 0..MaxFaults /\ mark' \in (-TooLate)..MaxOffset /\ seen' \in BOOLEAN
    <3>1. faults \in 0..MaxFaults /\ faults < MaxFaults /\ faults' = faults + 1
          /\ mark' = -TooLate /\ seen' = FALSE
      BY <1>10 DEF Restart, TypeOK
    <3>2. faults + 1 \in 0..MaxFaults
      BY <3>1, Limits
    <3>3. -TooLate \in (-TooLate)..MaxOffset
      BY Limits
    <3> QED
      BY <3>1, <3>2, <3>3
  <2>4. steps' \in 0..MaxSteps /\ calm' \in 0..Settled
    BY <1>10 DEF Restart, TypeOK
  <2> QED
    BY <2>1, <2>2, <2>3, <2>4, Typed
<1> QED
  BY <1>1, <1>2, <1>3, <1>4, <1>5, <1>6, <1>7, <1>8, <1>9, <1>10 DEF Next, MonitorStep

-----------------------------------------------------------------------------
LEMMA NextLatched ==
    ASSUME TypeOK, StepLatched, Next
    PROVE  StepLatched'
<1> USE DEF StepLatched
<1>1. CASE UNCHANGED <<clock, seen>>
  BY <1>1
<1>2. CASE EndSample
  <2>1. clock' = Refreshed /\ seen' = (seen \/ (InTime /\ IsStep))
    BY <1>2 DEF EndSample
  <2>2. clock.fault \/ (InTime /\ IsStep) => Refreshed.fault
    BY DEF Refreshed, TypeOK, Clock
  <2> QED
    BY <2>1, <2>2
<1>3. CASE SampleFails
  BY <1>3 DEF SampleFails, TypeOK, Clock
<1>4. CASE Tick
  BY <1>4, TickAges DEF Tick
<1>5. CASE Restart
  BY <1>5 DEF Restart
<1>6. Begin \/ ReadSource \/ Publish \/ PublishFails \/ Answer
      \/ (\E o \in 0..MaxOffset : StepSource(o))
      \/ (\E s \in {"good", "bad", "gone"} : SourceChanges(s))
      => UNCHANGED <<clock, seen>>
  BY DEF Begin, ReadSource, Publish, PublishFails, Answer, StepSource, SourceChanges
<1> QED
  BY <1>1, <1>2, <1>3, <1>4, <1>5, <1>6 DEF Next, MonitorStep

LEMMA NextCourse ==
    ASSUME TypeOK, Course, Next
    PROVE  Course'
<1> USE DEF Course
<1>1. mark \in Int /\ clock.offset \in Int /\ clock.offset >= -TooLate /\ mark >= -TooLate
      /\ monitor.left \in 0..Wait
  BY Limits DEF TypeOK, Clock, Monitor
<1>2. CASE UNCHANGED <<clock, monitor, mark>>
  BY <1>2
<1>3. CASE Begin
  <2>1. monitor.left = 0 /\ monitor.step = "wait" /\ UNCHANGED <<clock, mark>>
    BY <1>3 DEF Begin
  <2>2. clock.anchored => mark <= clock.offset
    BY <1>1, <2>1, Limits
  <2> QED
    BY <2>1, <2>2
<1>4. CASE ReadSource \/ PublishFails
  <2>1. UNCHANGED <<clock, mark>>
    BY <1>4 DEF ReadSource, PublishFails
  <2>2. monitor.step # "wait" /\ (monitor.step = "publish" => monitor'.step = "dead")
        /\ monitor.step # "dead"
    BY <1>4 DEF ReadSource, PublishFails, At
  <2> QED
    BY <2>1, <2>2
<1>5. CASE SampleFails
  <2>1. monitor'.step = "publish" /\ UNCHANGED mark /\ monitor.step = "sample"
        /\ clock'.anchored = clock.anchored /\ clock'.offset = clock.offset
    BY <1>5 DEF SampleFails, At, TypeOK, Clock
  <2> QED
    BY <2>1
<1>6. CASE EndSample
  <2>1. monitor'.step = "publish" /\ UNCHANGED mark /\ monitor.step = "sampled"
        /\ clock' = Refreshed
    BY <1>6 DEF EndSample, At
  <2>2. clock.anchored => mark <= clock.offset
    BY <2>1
  <2>3. CASE InTime /\ ~IsStep /\ Refreshed = Anchored
    <3>1. clock'.anchored /\ clock'.offset = Reading
      BY <2>1, <2>3 DEF Anchored
    <3>2. clock.anchored => Reading >= clock.offset - Tolerance
      BY <1>1, <2>3, Limits, ReadingType DEF IsStep
    <3>3. mark <= Reading + Tolerance
      BY <1>1, <2>2, <3>2, Limits, ReadingType
    <3> QED
      BY <2>1, <3>1, <3>3
  <2>4. CASE Refreshed = [clock EXCEPT !.healthy = FALSE]
             \/ Refreshed = [clock EXCEPT !.healthy = FALSE, !.fault = TRUE]
    <3>1. clock'.anchored = clock.anchored /\ clock'.offset = clock.offset
      BY <2>1, <2>4 DEF TypeOK, Clock
    <3> QED
      BY <2>1, <2>2, <3>1
  <2> QED
    BY <2>3, <2>4, RefreshCases
<1>7. CASE Publish
  <2>1. monitor.step = "publish" /\ monitor'.step = "wait" /\ monitor'.left = Wait
        /\ UNCHANGED <<clock, mark>>
    BY <1>7 DEF Publish, At
  <2> QED
    BY <1>1, <2>1, Limits
<1>8. CASE Answer
  <2>1. clock.anchored /\ UNCHANGED <<clock, monitor>>
        /\ mark' = IF mark < clock.offset THEN clock.offset ELSE mark
    BY <1>8 DEF Answer, CanSign
  <2> QED
    BY <1>1, <2>1
<1>9. CASE Tick
  <2>1. clock'.anchored = clock.anchored /\ clock'.offset = clock.offset
    BY <1>9, TickAges
  <2>2. mark' = IF mark > -TooLate THEN mark - 1 ELSE mark
    BY <1>9 DEF Tick
  <2>3. monitor'.step = monitor.step
    BY <1>9, TickMonitor
  <2>4. monitor.step = "wait" =>
          monitor'.left = IF monitor.left > 0 THEN monitor.left - 1 ELSE 0
    BY <1>9, TickMonitor
  <2>5. CASE mark = -TooLate
    BY <1>1, <2>1, <2>2, <2>5
  <2>6. CASE mark # -TooLate
    <3>1. mark' = mark - 1 /\ clock.anchored
      BY <1>1, <2>2, <2>6, Limits
    <3> QED
      BY <1>1, <2>1, <2>3, <2>4, <3>1, Limits
  <2> QED
    BY <2>5, <2>6
<1>10. CASE Restart
  BY <1>10 DEF Restart, NewClock
<1>11. (\E o \in 0..MaxOffset : StepSource(o)) \/ (\E s \in {"good", "bad", "gone"} : SourceChanges(s))
       => UNCHANGED <<clock, monitor, mark>>
  BY DEF StepSource, SourceChanges
<1> QED
  BY <1>2, <1>3, <1>4, <1>5, <1>6, <1>7, <1>8, <1>9, <1>10, <1>11 DEF Next, MonitorStep

LEMMA NextReading ==
    ASSUME TypeOK, ReadingRight, Next
    PROVE  ReadingRight'
<1> USE DEF ReadingRight
<1>1. CASE UNCHANGED <<source, monitor, calm>>
  BY <1>1
<1>2. CASE Begin \/ SampleFails \/ EndSample \/ Publish \/ PublishFails \/ Restart
  <2>1. monitor'.late = 0 /\ monitor'.elapsed = 0 /\ monitor'.step # "sampled"
    BY <1>2 DEF Begin, SampleFails, EndSample, Publish, PublishFails, Restart, At
  <2> QED
    BY <2>1
<1>3. CASE ReadSource
  <2>1. UNCHANGED <<source, calm>> /\ monitor'.read = source.offset
        /\ monitor'.late = monitor.late /\ monitor'.elapsed = monitor.elapsed
    BY <1>3 DEF ReadSource, TypeOK, Monitor
  <2> QED
    BY <2>1
<1>4. CASE Tick
  <2>1. UNCHANGED source /\ calm' <= calm + 1 /\ calm \in Int /\ calm' \in Int
    BY <1>4, TickAges DEF Tick, TypeOK
  <2>2. CASE monitor.step # "sampled"
    <3>1. monitor'.step # "sampled" /\ monitor'.late = monitor.late
          /\ monitor'.elapsed >= monitor.elapsed /\ monitor' \in Monitor
      BY <1>4, <2>2, TickMonitor
    <3> QED
      BY <3>1, Limits DEF TypeOK, Monitor
  <2>3. CASE monitor.step = "sampled"
    <3>1. /\ monitor'.elapsed = Later(monitor.elapsed, TooLate)
          /\ monitor'.late = Later(monitor.late, TooLate)
          /\ monitor'.read = monitor.read
      BY <1>4, <2>3, TickMonitor
    <3>2. monitor.elapsed \in 0..TooLate /\ monitor.late \in 0..TooLate
      BY DEF TypeOK, Monitor
    <3> QED
      BY <2>1, <2>3, <3>1, <3>2, Limits DEF Later
  <2> QED
    BY <2>2, <2>3
<1>5. CASE \E o \in 0..MaxOffset : StepSource(o)
  <2>1. UNCHANGED monitor /\ calm' = 0
    BY <1>5 DEF StepSource
  <2> QED
    BY <2>1, Limits DEF TypeOK, Monitor
<1>6. CASE \E s \in {"good", "bad", "gone"} : SourceChanges(s)
  <2>1. UNCHANGED <<monitor, calm>> /\ source'.offset = source.offset
    BY <1>6 DEF SourceChanges, TypeOK, Source
  <2> QED
    BY <2>1
<1>7. Answer => UNCHANGED <<source, monitor, calm>>
  BY DEF Answer
<1> QED
  BY <1>1, <1>2, <1>3, <1>4, <1>5, <1>6, <1>7 DEF Next, MonitorStep

LEMMA NextSample ==
    ASSUME TypeOK, ReadingRight, SampleRight, Next
    PROVE  SampleRight'
<1> USE DEF SampleRight
<1>1. CASE UNCHANGED <<source, clock, calm>>
  BY <1>1
<1>2. CASE SampleFails
  <2>1. UNCHANGED <<source, calm>> /\ clock'.anchored = clock.anchored
        /\ clock'.offset = clock.offset /\ clock'.age = clock.age
    BY <1>2 DEF SampleFails, TypeOK, Clock
  <2> QED
    BY <2>1
<1>3. CASE EndSample
  <2>1. UNCHANGED <<source, calm>> /\ clock' = Refreshed /\ monitor.step = "sampled"
    BY <1>3 DEF EndSample
  <2>2. CASE InTime /\ ~IsStep /\ Refreshed = Anchored
    <3>1. clock'.offset = Reading /\ clock'.age = 0
      BY <2>1, <2>2 DEF Anchored
    <3>2. monitor.late \in 0..MaxDelay
      BY <2>2, Limits DEF InTime, ReadingRight, TypeOK, Monitor
    <3>3. calm > MaxDelay => monitor.read = source.offset
      BY <2>1, <3>2, Limits DEF ReadingRight, TypeOK
    <3>4. calm > MaxDelay => Reading \in (source.offset - MaxDelay)..source.offset
      BY <3>2, <3>3, Limits, ReadingType DEF TypeOK, Source
    <3> QED
      BY <2>1, <3>1, <3>4, Limits
  <2>3. CASE Refreshed = [clock EXCEPT !.healthy = FALSE]
             \/ Refreshed = [clock EXCEPT !.healthy = FALSE, !.fault = TRUE]
    <3>1. clock'.anchored = clock.anchored /\ clock'.offset = clock.offset
          /\ clock'.age = clock.age
      BY <2>1, <2>3 DEF TypeOK, Clock
    <3> QED
      BY <2>1, <3>1
  <2> QED
    BY <2>2, <2>3, RefreshCases
<1>4. CASE Tick
  <2>1. UNCHANGED source /\ calm' <= calm + 1 /\ calm \in Int /\ calm' \in Int
    BY <1>4, TickAges DEF Tick, TypeOK
  <2>2. clock'.anchored = clock.anchored /\ clock'.offset = clock.offset
        /\ clock'.age = Later(clock.age, Expired) /\ clock.age \in 0..Expired
    BY <1>4, TickAges DEF TypeOK, Clock
  <2> QED
    BY <2>1, <2>2, Limits DEF Later
<1>5. CASE \E o \in 0..MaxOffset : StepSource(o)
  <2>1. UNCHANGED clock /\ calm' = 0
    BY <1>5 DEF StepSource
  <2> QED
    BY <2>1, Limits DEF TypeOK, Clock
<1>6. CASE \E s \in {"good", "bad", "gone"} : SourceChanges(s)
  <2>1. UNCHANGED <<clock, calm>> /\ source'.offset = source.offset
    BY <1>6 DEF SourceChanges, TypeOK, Source
  <2> QED
    BY <2>1
<1>7. CASE Restart
  BY <1>7 DEF Restart, NewClock
<1>8. Begin \/ ReadSource \/ Publish \/ PublishFails \/ Answer => UNCHANGED <<source, clock, calm>>
  BY DEF Begin, ReadSource, Publish, PublishFails, Answer
<1> QED
  BY <1>1, <1>2, <1>3, <1>4, <1>5, <1>6, <1>7, <1>8 DEF Next, MonitorStep

-----------------------------------------------------------------------------
(* The theorems. *)

LEMMA Stutter == IInv /\ UNCHANGED vars => IInv'
<1> SUFFICES ASSUME IInv, UNCHANGED vars PROVE IInv'
  OBVIOUS
<1>1. UNCHANGED <<source, clock, monitor, faults, steps, calm, mark, seen>>
  BY DEF vars
<1>2. TypeOK'
  BY <1>1 DEF IInv, TypeOK, Source, Clock, Monitor
<1>3. StepLatched' /\ Course' /\ ReadingRight' /\ SampleRight'
  BY <1>1 DEF IInv, StepLatched, Course, ReadingRight, SampleRight
<1> QED
  BY <1>2, <1>3 DEF IInv

LEMMA NextIInv == IInv /\ [Next]_vars => IInv'
<1>1. ASSUME IInv, Next PROVE IInv'
  BY <1>1, NextType, NextLatched, NextCourse, NextReading, NextSample DEF IInv
<1> QED
  BY <1>1, Stutter

LEMMA Invariance == Spec => []IInv
BY InitIInv, NextIInv, PTL DEF Spec

(* Every variable stays in its set, and a healthy clock has accepted a     *)
(* sample and seen no step (Clock.refresh).                                *)
THEOREM TypeCorrect == Spec => []TypeOK
<1>1. IInv => TypeOK
  BY DEF IInv
<1> QED
  BY <1>1, Invariance, PTL

(* After a sample that showed a step the process does not sign again       *)
(* (Clock.refresh, fault).                                                 *)
THEOREM StepEndsSigning == Spec => []StepIsFinal
<1>1. IInv => StepIsFinal
  BY DEF IInv, StepLatched, StepIsFinal, CanSign
<1> QED
  BY <1>1, Invariance, PTL

(* No answer is earlier than an answer before it by more than a tolerance, *)
(* however many samples have been accepted between them, because a wait is *)
(* at least as long as the tolerance (Clock.refresh and monitor).          *)
THEOREM TimeGoesOn == Spec => []TimeHardlyGoesBack
<1>1. IInv => TimeHardlyGoesBack
  <2> SUFFICES ASSUME IInv, CanSign PROVE clock.offset >= mark - Tolerance
    BY DEF TimeHardlyGoesBack
  <2>1. clock.anchored
    BY DEF CanSign
  <2>2. mark \in Int /\ clock.offset \in Int /\ monitor.left \in 0..Wait
    BY Limits DEF IInv, TypeOK, Clock, Monitor
  <2> QED
    BY <2>1, <2>2, Limits DEF IInv, Course
<1> QED
  BY <1>1, Invariance, PTL

(* Once the source has been left alone long enough, what is answered       *)
(* agrees with it, whether or not the monitor still runs (Clock.now).      *)
THEOREM AnswersAgree == Spec => []AnswersWithSource
<1>1. IInv => AnswersWithSource
  <2> SUFFICES ASSUME IInv, CanSign, calm = Settled
               PROVE  /\ clock.offset <= source.offset
                      /\ clock.offset >= source.offset - MaxDelay
    BY DEF AnswersWithSource
  <2>1. clock.anchored /\ clock.age <= Lease /\ clock.age \in 0..Expired
    BY DEF CanSign, IInv, TypeOK, Clock
  <2>2. calm > clock.age + MaxDelay
    BY <2>1, Limits
  <2>3. clock.offset \in (source.offset - MaxDelay)..source.offset
    BY <2>1, <2>2 DEF IInv, SampleRight
  <2>4. source.offset \in Int
    BY DEF IInv, TypeOK, Source
  <2> QED
    BY <2>3, <2>4, Limits
<1> QED
  BY <1>1, Invariance, PTL

=============================================================================
