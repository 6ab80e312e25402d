---------------------- MODULE EnrollmentAnswers_proofs ----------------------
(***************************************************************************)
(* More theorems about DeviceEnrollment: where operations are worked on,   *)
(* which certificates are active, what devices are answered, and what a    *)
(* revocation ends.  They rest on the types of DeviceEnrollment_proofs.    *)
(***************************************************************************)
EXTENDS DeviceEnrollment_proofs

(* Where each operation is: the idle worker holds none. *)
FlightInv == SingleFlight /\ (worker.step = "idle" => worker.op = None)

LEMMA FlightInit == Init => FlightInv
<1> SUFFICES ASSUME Init PROVE FlightInv
  OBVIOUS
<1>1. /\ \A t \in Threads : api[t].step = "idle"
      /\ queue = <<>> /\ active = {} /\ worker.op = None
  BY DEF Init, IdleThread, IdleWorker
<1>2. \A t \in Threads, op \in Ops : ~Submitting(t, op)
  BY <1>1 DEF Submitting
<1>3. DOMAIN queue = {}
  BY <1>1
<1>4. \A op \in Ops : ~Queued(op) /\ worker.op # op
  BY <1>1, <1>3, ConstantsAssumption DEF Queued
<1> QED
  BY <1>1, <1>2, <1>3, <1>4 DEF FlightInv, SingleFlight

(* No operation changes its place. *)
LEMMA FlightKept ==
    ASSUME FlightInv, UNCHANGED <<active, queue>>, worker'.op = worker.op,
           worker'.step = "idle" => worker.step = "idle",
           \A t \in Threads, op \in Ops : Submitting(t, op)' <=> Submitting(t, op)
    PROVE  FlightInv'
<1>1. \A op : Queued(op)' <=> Queued(op)
  BY DEF Queued
<1> QED
  BY <1>1 DEF FlightInv, SingleFlight

(* A thread that takes another step but the two of scheduling. *)
LEMMA NotSubmitting ==
    ASSUME TypeInv, NEW t \in Threads, NEW e \in Enrollments,
           \/ \E q \in Requests : Claim(t, e, q) \/ Reclaim(t, e, q)
           \/ \E r \in Renewals, body \in Bodies : Renew(t, r, e, body)
           \/ ReadEnrollment(t) \/ CheckIdentity(t) \/ MatchRenewal(t)
           \/ AdmitRenewal(t) \/ RereadRenewal(t) \/ HandlerFails(t)
    PROVE  \A u \in Threads, op \in Ops : Submitting(u, op)' <=> Submitting(u, op)
<1> USE DEF Submitting
<1>a. /\ api \in [Threads -> ApiThread]
      /\ IdleThread.step = "idle"
  BY DEF TypeInv, TypeOK, IdleThread
<1>1. CASE \/ \E q \in Requests : Claim(t, e, q) \/ Reclaim(t, e, q)
           \/ \E r \in Renewals, body \in Bodies : Renew(t, r, e, body)
  <2>1. /\ api[t].step = "idle" /\ api'[t].step # "submit"
        /\ \A u \in Threads \ {t} : api'[u] = api[u]
    <3>1. ASSUME NEW q \in Requests, Claim(t, e, q) \/ Reclaim(t, e, q)
          PROVE  /\ api[t].step = "idle" /\ api'[t].step # "submit"
                 /\ \A u \in Threads \ {t} : api'[u] = api[u]
      BY <1>a, <3>1 DEF Claim, Reclaim, ApiThread
    <3>2. ASSUME NEW r \in Renewals, NEW body \in Bodies, Renew(t, r, e, body)
          PROVE  /\ api[t].step = "idle" /\ api'[t].step # "submit"
                 /\ \A u \in Threads \ {t} : api'[u] = api[u]
      BY <1>a, <3>2 DEF Renew, ApiThread
    <3> QED
      BY <1>1, <3>1, <3>2
  <2> QED
    BY <2>1
<1>2. CASE \/ ReadEnrollment(t) \/ CheckIdentity(t) \/ MatchRenewal(t)
           \/ AdmitRenewal(t) \/ RereadRenewal(t) \/ HandlerFails(t)
  <2>1. /\ api[t].step \in RenewSteps
        /\ \/ Finish(t)
           \/ \E s \in {"identity", "admit", "schedule", "reread"} : Proceed(t, s)
    BY <1>2 DEF ReadEnrollment, CheckIdentity, MatchRenewal, AdmitRenewal,
                RereadRenewal, HandlerFails, RenewSteps
  <2>2. /\ api[t].step # "submit" /\ api'[t].step # "submit"
        /\ \A u \in Threads \ {t} : api'[u] = api[u]
    BY <2>1, <1>a DEF Finish, Proceed, ApiThread, RenewSteps
  <2> QED
    BY <2>2
<1> QED
  BY <1>1, <1>2

LEMMA FlightSchedule ==
    ASSUME TypeInv, FlightInv, NEW t \in Threads, Schedule(t)
    PROVE  FlightInv'
<1> DEFINE op == api[t].op
<1>a. /\ api \in [Threads -> ApiThread] /\ op \in Ops /\ api[t].step = "schedule"
      /\ IdleThread.step = "idle"
      /\ UNCHANGED <<queue, worker>>
      /\ \A x : Queued(x)' <=> Queued(x)
  BY DEF TypeInv, TypeOK, WellFormed, ThreadWellFormed, Schedule, IdleThread, Queued
<1>1. CASE op \in active
  <2>1. \A u \in Threads, x \in Ops : Submitting(u, x)' <=> Submitting(u, x)
    BY <1>a, <1>1 DEF Schedule, Finish, Submitting
  <2> QED
    BY <1>a, <1>1, <2>1, FlightKept DEF Schedule
<1>2. CASE op \notin active
  <2>1. /\ api'[t].step = "submit" /\ api'[t].op = op
        /\ \A u \in Threads \ {t} : api'[u] = api[u]
        /\ active' = active \cup {op}
    BY <1>a, <1>2 DEF Schedule, Proceed, ApiThread
  <2>2. /\ ~Queued(op) /\ worker.op # op
        /\ \A u \in Threads : ~Submitting(u, op)
    BY <1>a, <1>2 DEF FlightInv, SingleFlight
  <2>3. \A u \in Threads, x \in Ops :
           Submitting(u, x)' <=> Submitting(u, x) \/ (u = t /\ x = op)
    BY <1>a, <2>1 DEF Submitting
  <2> HIDE DEF op
  <2>4. SingleFlight'
    BY <1>a, <2>1, <2>2, <2>3 DEF FlightInv, SingleFlight
  <2> QED
    BY <1>a, <2>4 DEF FlightInv
<1> QED
  BY <1>1, <1>2

LEMMA FlightSubmit ==
    ASSUME TypeInv, FlightInv, NEW t \in Threads, Submit(t)
    PROVE  FlightInv'
<1> DEFINE op == api[t].op
<1>a. /\ api \in [Threads -> ApiThread] /\ op \in Ops /\ api[t].step = "submit"
      /\ IdleThread.step = "idle" /\ queue \in Seq(Ops)
      /\ UNCHANGED <<active, worker>>
      /\ queue' = Append(queue, op)
  BY DEF TypeInv, TypeOK, WellFormed, ThreadWellFormed, Submit, IdleThread
<1>1. \A u \in Threads, x \in Ops :
         Submitting(u, x)' <=> Submitting(u, x) /\ u # t
  BY <1>a DEF Submit, Finish, Submitting
<1>2. /\ Submitting(t, op)
      /\ ~Queued(op) /\ worker.op # op
      /\ \A u \in Threads \ {t} : ~Submitting(u, op)
      /\ \A x \in Ops : Submitting(t, x) => x = op
  BY <1>a DEF FlightInv, SingleFlight, Submitting
<1>3. \A x \in Ops : Queued(x)' <=> Queued(x) \/ x = op
  BY <1>a DEF Queued
<1>4. \A i, j \in DOMAIN queue' : queue'[i] = queue'[j] => i = j
  <2>1. \A i \in DOMAIN queue : queue[i] # op
    BY <1>2 DEF Queued
  <2>2. \A i, j \in DOMAIN queue : queue[i] = queue[j] => i = j
    BY DEF FlightInv, SingleFlight
  <2> HIDE DEF op
  <2> QED
    BY <1>a, <2>1, <2>2
<1> HIDE DEF op
<1>5. worker.op \in Ops \cup {None}
  BY DEF TypeInv, TypeOK, Worker
<1>7. SingleFlight'
  <2>1. \A x \in Ops :
          x \in active' <=> \/ \E u \in Threads : Submitting(u, x)'
                            \/ Queued(x)'
                            \/ worker'.op = x
    BY <1>a, <1>1, <1>2, <1>3 DEF FlightInv, SingleFlight
  <2>2. \A x \in Ops, u \in Threads :
          Submitting(u, x)' =>
             /\ ~Queued(x)'
             /\ worker'.op # x
             /\ \A v \in Threads \ {u} : ~Submitting(v, x)'
    BY <1>a, <1>1, <1>2, <1>3 DEF FlightInv, SingleFlight
  <2>3. (worker.op # None => ~Queued(worker.op))'
    <3>1. \A x \in Ops : worker.op = x => ~Queued(x)'
      BY <1>2, <1>3, <1>5, ConstantsAssumption DEF FlightInv, SingleFlight
    <3> QED
      BY <1>a, <1>5, <3>1
  <2> QED
    BY <1>4, <2>1, <2>2, <2>3 DEF SingleFlight
<1> QED
  BY <1>a, <1>7 DEF FlightInv

LEMMA FlightTake ==
    ASSUME TypeInv, FlightInv, Take
    PROVE  FlightInv'
<1> DEFINE op == Head(queue)
<1>a. /\ queue \in Seq(Ops) /\ queue # <<>> /\ op \in Ops /\ op # None
      /\ worker.op = None
      /\ worker'.op = op /\ worker'.step = "read"
      /\ queue' = Tail(queue)
      /\ UNCHANGED <<active, api>>
  BY ConstantsAssumption DEF TypeInv, TypeOK, Take, FlightInv, IdleWorker
<1>b. \A i, j \in DOMAIN queue : queue[i] = queue[j] => i = j
  BY DEF FlightInv, SingleFlight
<1>c. /\ DOMAIN queue' = 1..(Len(queue) - 1) /\ Len(queue) \in Nat
      /\ DOMAIN queue = 1..Len(queue)
      /\ \A i \in DOMAIN queue' : queue'[i] = queue[i + 1] /\ i + 1 \in DOMAIN queue
      /\ op = queue[1] /\ 1 \in DOMAIN queue
  BY <1>a
<1> HIDE DEF op
<1>1. \A x \in Ops : Queued(x) <=> Queued(x)' \/ x = op
  <2>1. ASSUME NEW x \in Ops, Queued(x) PROVE Queued(x)' \/ x = op
    <3>1. PICK i \in DOMAIN queue : queue[i] = x
      BY <2>1 DEF Queued
    <3>2. CASE i = 1
      BY <1>c, <3>1, <3>2
    <3>3. CASE i # 1
      <4>1. i - 1 \in DOMAIN queue' /\ queue'[i - 1] = x
        BY <1>c, <3>1, <3>3
      <4> QED
        BY <4>1 DEF Queued
    <3> QED
      BY <3>2, <3>3
  <2>2. ASSUME NEW x \in Ops, Queued(x)' \/ x = op PROVE Queued(x)
    BY <1>c, <2>2 DEF Queued
  <2> QED
    BY <2>1, <2>2
<1>2. \A x : x = op => ~Queued(x)'
  <2> SUFFICES ASSUME NEW i \in DOMAIN queue', queue'[i] = op PROVE FALSE
    BY DEF Queued
  <2>1. i + 1 \in DOMAIN queue /\ queue[i + 1] = queue[1]
    BY <1>c
  <2> QED
    BY <1>b, <1>c, <2>1
<1>3. \A i, j \in DOMAIN queue' : queue'[i] = queue'[j] => i = j
  <2> SUFFICES ASSUME NEW i \in DOMAIN queue', NEW j \in DOMAIN queue',
                      queue'[i] = queue'[j]
               PROVE  i = j
    OBVIOUS
  <2>1. i + 1 = j + 1
    BY <1>b, <1>c
  <2> QED
    BY <1>c, <2>1
<1>4. \A u \in Threads, x \in Ops : Submitting(u, x)' <=> Submitting(u, x)
  BY <1>a DEF Submitting
<1>5. \A u \in Threads : ~Submitting(u, op)
  BY <1>a, <1>1 DEF FlightInv, SingleFlight
<1>6. SingleFlight'
  <2>1. \A x \in Ops :
          x \in active' <=> \/ \E u \in Threads : Submitting(u, x)'
                            \/ Queued(x)'
                            \/ worker'.op = x
    BY <1>a, <1>1, <1>4, ConstantsAssumption DEF FlightInv, SingleFlight
  <2>2. \A x \in Ops, u \in Threads :
          Submitting(u, x)' =>
             /\ ~Queued(x)'
             /\ worker'.op # x
             /\ \A v \in Threads \ {u} : ~Submitting(v, x)'
    BY <1>a, <1>1, <1>4, <1>5 DEF FlightInv, SingleFlight
  <2>3. (worker.op # None => ~Queued(worker.op))'
    BY <1>a, <1>2
  <2> QED
    BY <1>3, <2>1, <2>2, <2>3 DEF SingleFlight
<1> QED
  BY <1>a, <1>6 DEF FlightInv

LEMMA FlightRelease ==
    ASSUME TypeInv, FlightInv, Release
    PROVE  FlightInv'
<1>a. /\ worker.op \in Ops /\ worker.op # None
      /\ worker'.op = None /\ active' = active \ {worker.op}
      /\ UNCHANGED <<api, queue>>
      /\ \A x : Queued(x)' <=> Queued(x)
      /\ \A u, x : Submitting(u, x)' <=> Submitting(u, x)
  BY ConstantsAssumption
  DEF Release, IdleWorker, TypeInv, WellFormed, WorkerWellFormed, Queued, Submitting
<1>1. ~Queued(worker.op) /\ \A u \in Threads : ~Submitting(u, worker.op)
  BY <1>a DEF FlightInv, SingleFlight
<1>2. None \notin Ops
  BY ConstantsAssumption
<1>3. SingleFlight'
  BY <1>a, <1>1, <1>2 DEF FlightInv, SingleFlight
<1> QED
  BY <1>a, <1>3 DEF FlightInv

LEMMA FlightStep == TypeInv /\ FlightInv /\ [Next]_vars => FlightInv'
<1> SUFFICES ASSUME TypeInv, FlightInv, [Next]_vars PROVE FlightInv'
  OBVIOUS
<1>1. CASE UNCHANGED <<api, active, queue, worker>>
  BY <1>1, FlightKept DEF Submitting
<1>2. ASSUME NEW t \in Threads, NEW e \in Enrollments,
             \/ \E q \in Requests : Claim(t, e, q) \/ Reclaim(t, e, q)
             \/ \E r \in Renewals, body \in Bodies : Renew(t, r, e, body)
      PROVE  FlightInv'
  <2>1. UNCHANGED <<active, queue, worker>>
    BY <1>2 DEF Claim, Reclaim, Renew
  <2> QED
    BY <1>2, <2>1, NotSubmitting, FlightKept
<1>3. ASSUME NEW t \in Threads,
             \/ ReadEnrollment(t) \/ CheckIdentity(t) \/ MatchRenewal(t)
             \/ AdmitRenewal(t) \/ RereadRenewal(t) \/ HandlerFails(t)
      PROVE  FlightInv'
  <2>1. UNCHANGED <<active, queue, worker>>
    BY <1>3 DEF ReadEnrollment, CheckIdentity, MatchRenewal, AdmitRenewal,
                RereadRenewal, HandlerFails
  <2>2. api[t].owner \in Enrollments
    BY <1>3 DEF TypeInv, WellFormed, ThreadWellFormed, RenewSteps, ReadEnrollment,
                CheckIdentity, MatchRenewal, AdmitRenewal, RereadRenewal, HandlerFails
  <2> QED
    BY <1>3, <2>1, <2>2, NotSubmitting, FlightKept
<1>4. CASE \/ ReadRow \/ OrderPublic \/ SignRenewal \/ SelectPublic \/ RecordPublic
           \/ SelectRenewal \/ RecordRenewal
           \/ Complete \/ AuditComplete \/ StepRaises \/ SaveFailure \/ LoseFailure
  <2>1. worker \in Worker
    BY DEF TypeInv, TypeOK
  <2>2. UNCHANGED <<api, active, queue>> /\ worker'.op = worker.op /\ worker'.step # "idle"
    BY <1>4, <2>1
    DEF ReadRow, OrderPublic, SignRenewal, SelectPublic, RecordPublic, SelectRenewal,
        RecordRenewal, Complete, AuditComplete, StepRaises, SaveFailure, LoseFailure,
        Worker
  <2> QED
    BY <2>2, FlightKept DEF Submitting
<1>5. CASE Restart
  <2>1. /\ \A t \in Threads : api'[t].step = "idle"
        /\ DOMAIN queue' = {} /\ active' = {} /\ worker'.op = None
    BY <1>5 DEF Restart, IdleThread, IdleWorker
  <2>2. \A op \in Ops : ~Queued(op)' /\ worker'.op # op
    BY <2>1, ConstantsAssumption DEF Queued
  <2> QED
    BY <2>1, <2>2 DEF FlightInv, SingleFlight, Submitting
<1> QED
  BY <1>1, <1>2, <1>3, <1>4, <1>5, FlightSchedule, FlightSubmit, FlightTake, FlightRelease
  DEF Next, DeviceStep, HandlerStep, WorkerStep, vars, Authorize, Lapse, Poll, Revoke,
      RevokeFails, MarkRevoked, ClaimLapsed

(* Whatever handlers, jobs and restarts do, an operation of the active set *)
(* is submitted, queued or worked on in exactly one place, and no other    *)
(* operation is: testing and adding it under active_lock, and discarding   *)
(* it in the job's finally clause, are enough.                             *)
THEOREM WorkedOnOnce == Spec => []SingleFlight
<1>1. Spec => []TypeInv
  BY TypeInit, TypeStep, PTL DEF Spec
<1>2. FlightInv => SingleFlight
  BY DEF FlightInv
<1> QED
  BY <1>1, <1>2, FlightInit, FlightStep, PTL DEF Spec

-----------------------------------------------------------------------------

(* How a step moves the rows: it leaves them alone or moves one of them.   *)
Kept(op) ==
    /\ row'[op].owner = row[op].owner
    /\ row'[op].request = row[op].request

Authorized(e) ==
    /\ row[e].status = "none" /\ row'[e].status = "authorized"
    /\ row'[e].owner = e
    /\ row'[e].request = row[e].request /\ row'[e].result = row[e].result

Claimed(e) ==
    /\ row[e].status = "authorized" /\ row'[e].status = "pending"
    /\ e \notin lapsed
    /\ row'[e].owner = row[e].owner /\ row'[e].result = row[e].result
    /\ \E q \in Requests : row'[e].request = [csr |-> q, identity |-> 0]

Expired(e) ==
    /\ row[e].status # "none" /\ row'[e].status = "expired"
    /\ e \in lapsed
    /\ Kept(e) /\ row'[e].result = row[e].result

Admitted(t, r) ==
    /\ api[t].step = "admit" /\ api[t].op = r
    /\ row[r].status = "none" /\ row'[r].status = "pending"
    /\ ~RenewalInProgress(api[t].owner)
    /\ row'[r].owner = api[t].owner /\ row'[r].request = api[t].request
    /\ row'[r].result = NoResult

Answered(op) ==
    /\ Complete /\ op = worker.op /\ MayStore(op)
    /\ row'[op].status = "complete" /\ Kept(op)
    /\ row'[op].result = [public |-> worker.public, renewal |-> worker.renewal]

Failed(op) ==
    /\ SaveFailure /\ op = worker.op /\ MayStore(op)
    /\ row'[op].status = "error"
    /\ Kept(op) /\ row'[op].result = row[op].result

RowMoves(op) ==
    /\ \A x \in Ops \ {op} : row'[x] = row[x]
    /\ \/ op \in Enrollments /\ (Authorized(op) \/ Claimed(op) \/ Expired(op))
       \/ op \in Renewals /\ \E t \in Threads : Admitted(t, op)
       \/ Answered(op)
       \/ Failed(op)

LEMMA RowsMove ==
    ASSUME TypeInv, [Next]_vars
    PROVE  UNCHANGED row \/ \E op \in Ops : RowMoves(op)
<1> USE IdsAreOps
<1>a. /\ row \in [Ops -> Row]
      /\ \A u \in Row : u.status \in Statuses
      /\ worker \in Worker
      /\ worker.step # "idle" => worker.op \in Ops
  BY DEF TypeInv, TypeOK, WellFormed, WorkerWellFormed, Row
<1>1. ASSUME NEW e \in Enrollments, Authorize(e) PROVE RowMoves(e)
  <2> DEFINE first == [row[e] EXCEPT !.status = "authorized"]
             new == [first EXCEPT !.owner = e]
  <2>1. /\ first.status = "authorized" /\ first.request = row[e].request
        /\ first.result = row[e].result /\ first \in Row
    BY <1>a DEF Row, Statuses
  <2> HIDE DEF first
  <2>2. /\ new.status = "authorized" /\ new.request = row[e].request
        /\ new.result = row[e].result /\ new.owner = e
    BY <2>1 DEF Row
  <2>3. row' = [row EXCEPT ![e] = new] /\ row[e].status = "none"
    BY <1>1 DEF Authorize, first
  <2> HIDE DEF new
  <2> QED
    BY <1>a, <2>2, <2>3 DEF RowMoves, Authorized
<1>2. ASSUME NEW t \in Threads, NEW e \in Enrollments, NEW q \in Requests, Claim(t, e, q)
      PROVE  RowMoves(e)
  <2> DEFINE first == [row[e] EXCEPT !.status = "pending"]
             b == [csr |-> q, identity |-> 0]
             new == [first EXCEPT !.request = b]
  <2>1. /\ first.status = "pending" /\ first.owner = row[e].owner
        /\ first.result = row[e].result /\ first \in Row
    BY <1>a DEF Row, Statuses
  <2> HIDE DEF first, b
  <2>2. /\ new.status = "pending" /\ new.request = b
        /\ new.result = row[e].result /\ new.owner = row[e].owner
    BY <2>1 DEF Row
  <2>3. /\ row' = [row EXCEPT ![e] = new]
        /\ row[e].status = "authorized" /\ e \notin lapsed
    BY <1>2 DEF Claim, first, b
  <2>4. \E x \in Requests : b = [csr |-> x, identity |-> 0]
    BY DEF b
  <2> HIDE DEF new
  <2> QED
    BY <1>a, <2>2, <2>3, <2>4 DEF RowMoves, Claimed
<1>3. ASSUME NEW t \in Threads, NEW e \in Enrollments, ClaimLapsed(t, e)
      PROVE  RowMoves(e)
  <2> DEFINE new == [row[e] EXCEPT !.status = "expired"]
  <2>1. /\ new.status = "expired" /\ new.owner = row[e].owner
        /\ new.request = row[e].request /\ new.result = row[e].result
    BY <1>a DEF Row, Statuses
  <2>2. /\ row' = [row EXCEPT ![e] = new]
        /\ row[e].status # "none" /\ e \in lapsed
    BY <1>3 DEF ClaimLapsed
  <2> HIDE DEF new
  <2> QED
    BY <1>a, <2>1, <2>2 DEF RowMoves, Expired, Kept
<1>4. ASSUME NEW t \in Threads, AdmitRenewal(t), ~UNCHANGED row
      PROVE  api[t].op \in Renewals /\ RowMoves(api[t].op)
  <2> DEFINE r == api[t].op
             new == [status |-> "pending", owner |-> api[t].owner,
                     request |-> api[t].request, result |-> NoResult]
  <2>1. r \in Renewals
    BY <1>4 DEF AdmitRenewal, TypeInv, WellFormed, ThreadWellFormed, RenewSteps
  <2>2. /\ new.status = "pending" /\ new.owner = api[t].owner
        /\ new.request = api[t].request /\ new.result = NoResult
    OBVIOUS
  <2>3. /\ row' = [row EXCEPT ![r] = new]
        /\ api[t].step = "admit" /\ row[r].status = "none"
        /\ ~RenewalInProgress(api[t].owner)
    BY <1>4 DEF AdmitRenewal
  <2> HIDE DEF new
  <2> QED
    BY <1>a, <2>1, <2>2, <2>3 DEF RowMoves, Admitted
<1>5. ASSUME Complete, ~UNCHANGED row PROVE worker.op \in Ops /\ RowMoves(worker.op)
  <2> DEFINE op == worker.op
             v == [public |-> worker.public, renewal |-> worker.renewal]
             first == [row[op] EXCEPT !.status = "complete"]
             new == [first EXCEPT !.result = v]
  <2>1. op \in Ops /\ MayStore(op)
    BY <1>a, <1>5 DEF Complete
  <2>2. /\ first.status = "complete" /\ first.owner = row[op].owner
        /\ first.request = row[op].request /\ first \in Row
    BY <1>a, <2>1 DEF Row, Statuses
  <2> HIDE DEF first, v
  <2>3. /\ new.status = "complete" /\ new.owner = row[op].owner
        /\ new.request = row[op].request /\ new.result = v
    BY <2>2 DEF Row
  <2>4. row' = [row EXCEPT ![op] = new]
    BY <1>5, <2>1 DEF Complete, first, v
  <2> HIDE DEF new
  <2>5. \A x \in Ops \ {op} : row'[x] = row[x]
    BY <1>a, <2>4
  <2>6. row'[op] = new
    BY <1>a, <2>1, <2>4
  <2> QED
    BY <1>5, <2>1, <2>3, <2>5, <2>6 DEF RowMoves, Answered, Kept, v
<1>6. ASSUME SaveFailure, ~UNCHANGED row PROVE worker.op \in Ops /\ RowMoves(worker.op)
  <2> DEFINE op == worker.op
             new == [row[op] EXCEPT !.status = "error"]
  <2>1. op \in Ops /\ MayStore(op)
    BY <1>a, <1>6 DEF SaveFailure
  <2>2. /\ new.status = "error" /\ new.owner = row[op].owner
        /\ new.request = row[op].request /\ new.result = row[op].result
    BY <1>a, <2>1 DEF Row, Statuses
  <2>3. row' = [row EXCEPT ![op] = new]
    BY <1>6, <2>1 DEF SaveFailure
  <2> HIDE DEF new
  <2> QED
    BY <1>a, <1>6, <2>1, <2>2, <2>3 DEF RowMoves, Failed, Kept
<1>7. \/ UNCHANGED row
      \/ \E e \in Enrollments : Authorize(e)
      \/ \E t \in Threads, e \in Enrollments :
            ClaimLapsed(t, e) \/ \E q \in Requests : Claim(t, e, q)
      \/ \E t \in Threads : AdmitRenewal(t)
      \/ Complete \/ SaveFailure
  BY DEF Next, DeviceStep, HandlerStep, WorkerStep, vars, Lapse, Poll, Revoke,
         RevokeFails, MarkRevoked, Reclaim, Renew, ReadEnrollment, CheckIdentity,
         MatchRenewal, RereadRenewal, HandlerFails, Schedule, Submit, Take, ReadRow,
         OrderPublic, SignRenewal, SelectPublic, RecordPublic, SelectRenewal,
         RecordRenewal, AuditComplete, StepRaises, LoseFailure, Release, Restart
<1> QED
  BY <1>1, <1>2, <1>3, <1>4, <1>5, <1>6, <1>7

-----------------------------------------------------------------------------

(* Recorded certificates stay, except for their status, and none becomes   *)
(* active again.                                                           *)
SameCertificate(i) ==
    /\ i \in DOMAIN certs'
    /\ certs'[i].profile = certs[i].profile
    /\ certs'[i].name = certs[i].name
    /\ certs'[i].op = certs[i].op
    /\ certs'[i].csr = certs[i].csr
    /\ certs'[i].status = "active" => certs[i].status = "active"

(* The certificate added last, and what becomes of those before it: the    *)
(* one that was selected is superseded, whatever it had become.            *)
Added(new) ==
    /\ Len(certs) \in Nat /\ DOMAIN certs = 1..Len(certs)
    /\ DOMAIN certs' = 1..(Len(certs) + 1)
    /\ certs'[Len(certs) + 1] = new
    /\ \A i \in DOMAIN certs :
          /\ SameCertificate(i)
          /\ i = worker.previous => certs'[i].status = "superseded"
          /\ i # worker.previous => certs'[i] = certs[i]

LEMMA OnlyActive ==
    ASSUME certs \in Seq(Certificate), OneActivePerIdentity,
           NEW i \in DOMAIN certs, certs[i].status = "active"
    PROVE  ActiveCertificate(certs[i].profile, certs[i].name) = i
<1> DEFINE S == ActiveCerts(certs[i].profile, certs[i].name)
<1>1. i \in S /\ i \in Nat
  BY DEF ActiveCerts
<1>2. \A j \in S : j = i
  BY DEF ActiveCerts, OneActivePerIdentity
<1> HIDE DEF S
<1>3. Max(S) = i
  BY <1>1, <1>2 DEF Max
<1> QED
  BY <1>1, <1>3 DEF ActiveCertificate, S

(* With one active certificate per identity, that is the one looked up. *)
LEMMA LookedUp ==
    ASSUME certs \in Seq(Certificate), OneActivePerIdentity, NEW profile, NEW name,
           ActiveCertificate(profile, name) # 0
    PROVE  LET c == ActiveCertificate(profile, name)
           IN  /\ c \in DOMAIN certs /\ certs[c].status = "active"
               /\ certs[c].profile = profile /\ certs[c].name = name
<1>1. ActiveCerts(profile, name) # {}
  BY DEF ActiveCertificate
<1>2. PICK i \in DOMAIN certs : /\ certs[i].profile = profile /\ certs[i].name = name
                                /\ certs[i].status = "active"
  BY <1>1 DEF ActiveCerts
<1>3. ActiveCertificate(profile, name) = i
  BY <1>2, OnlyActive
<1> QED
  BY <1>2, <1>3

LEMMA NothingActive ==
    ASSUME certs \in Seq(Certificate), OneActivePerIdentity, NEW profile, NEW name,
           ActiveCertificate(profile, name) = 0, NEW i \in DOMAIN certs,
           certs[i].profile = profile, certs[i].name = name
    PROVE  certs[i].status # "active"
<1>1. i # 0
  OBVIOUS
<1> QED
  BY <1>1, OnlyActive

LEMMA CertificateAdded ==
    ASSUME certs \in Seq(Certificate),
           NEW new \in Certificate, AddCertificate(worker.previous, new)
    PROVE  Added(new)
<1> DEFINE previous == worker.previous
           marked == [i \in DOMAIN certs |->
                        IF i = previous
                        THEN [certs[i] EXCEPT !.status = "superseded"]
                        ELSE certs[i]]
<1>1. \A i \in DOMAIN certs : certs[i] \in Certificate
  OBVIOUS
<1>2. \A i \in DOMAIN certs :
         LET c == [certs[i] EXCEPT !.status = "superseded"]
         IN  /\ c \in Certificate /\ c.status = "superseded"
             /\ c.profile = certs[i].profile /\ c.name = certs[i].name
             /\ c.op = certs[i].op /\ c.csr = certs[i].csr
  BY <1>1 DEF Certificate
<1>3. marked \in Seq(Certificate)
  BY <1>1, <1>2
<1>4. certs' = Append(marked, new) /\ Len(marked) = Len(certs)
  BY DEF AddCertificate
<1> HIDE DEF previous
<1>5. \A i \in DOMAIN certs : certs'[i] = marked[i] /\ i \in DOMAIN certs'
  BY <1>3, <1>4
<1>6. \A i \in DOMAIN certs :
          /\ SameCertificate(i)
          /\ i = previous => certs'[i].status = "superseded"
          /\ i # previous => certs'[i] = certs[i]
  BY <1>2, <1>5 DEF SameCertificate
<1>7. /\ Len(certs) \in Nat /\ DOMAIN certs = 1..Len(certs)
      /\ DOMAIN certs' = 1..(Len(certs) + 1)
      /\ certs'[Len(certs) + 1] = new
  BY <1>3, <1>4
<1> QED
  BY <1>6, <1>7 DEF Added, previous

(* Every step either records the certificate of the job at hand, or keeps  *)
(* the table and activates nothing.                                        *)
NewPublic ==
    [profile |-> "public-portal", name |-> PublicName,
     status |-> "active", op |-> worker.op, csr |-> worker.csr]
NewRenewal ==
    [profile |-> "tls-client", name |-> RenewalName,
     status |-> "active", op |-> worker.op, csr |-> worker.csr]

LEMMA CertsMove ==
    ASSUME TypeInv, [Next]_vars
    PROVE  \/ RecordPublic /\ NewPublic \in Certificate /\ Added(NewPublic)
           \/ RecordRenewal /\ NewRenewal \in Certificate /\ Added(NewRenewal)
           \/ /\ DOMAIN certs' = DOMAIN certs
              /\ \A i \in DOMAIN certs : SameCertificate(i)
              /\ ~RecordPublic /\ ~RecordRenewal
              /\ \/ UNCHANGED certs
                 \/ MarkRevoked /\ \A i \in DOMAIN certs \ {revoking} : certs'[i] = certs[i]
                 \/ /\ Restart
                    /\ \A i \in DOMAIN certs :
                          certs[i].profile = "tls-client" => certs'[i] = certs[i]
<1>a. certs \in Seq(Certificate) /\ \A i \in DOMAIN certs : certs[i] \in Certificate
  BY DEF TypeInv, TypeOK
<1>1. CASE RecordPublic
  <2>1. NewPublic \in Certificate
    BY <1>1, ConstantsAssumption
    DEF NewPublic, PublicName, Certificate, RecordPublic, TypeInv, WellFormed, RowsOwned,
        WorkerWellFormed, IssueSteps
  <2>2. AddCertificate(worker.previous, NewPublic)
    BY <1>1 DEF RecordPublic, NewPublic
  <2> QED
    BY <1>1, <1>a, <2>1, <2>2, CertificateAdded
<1>2. CASE RecordRenewal
  <2>1. NewRenewal \in Certificate
    BY <1>2, ConstantsAssumption
    DEF NewRenewal, RenewalName, Certificate, RecordRenewal, TypeInv, WellFormed, RowsOwned,
        WorkerWellFormed, IssueSteps
  <2>2. AddCertificate(worker.previous, NewRenewal)
    BY <1>2 DEF RecordRenewal, NewRenewal
  <2> QED
    BY <1>2, <1>a, <2>1, <2>2, CertificateAdded
<1>3. CASE UNCHANGED certs /\ ~RecordPublic /\ ~RecordRenewal
  BY <1>3 DEF SameCertificate
<1>4. CASE MarkRevoked
  <2>1. \A i \in DOMAIN certs :
           LET c == [certs[i] EXCEPT !.status = "revoked"]
           IN  /\ c.status = "revoked"
               /\ c.profile = certs[i].profile /\ c.name = certs[i].name
               /\ c.op = certs[i].op /\ c.csr = certs[i].csr
    BY <1>a DEF Certificate
  <2>2. /\ DOMAIN certs' = DOMAIN certs
        /\ \A i \in DOMAIN certs :
              certs'[i] = IF i = revoking THEN [certs[i] EXCEPT !.status = "revoked"]
                          ELSE certs[i]
    BY <1>4 DEF MarkRevoked
  <2>3. \A i \in DOMAIN certs : SameCertificate(i)
    BY <2>1, <2>2 DEF SameCertificate
  <2>4. ~RecordPublic /\ ~RecordRenewal
    BY <1>4 DEF MarkRevoked, RecordPublic, RecordRenewal, TypeInv, TypeOK, Worker, IssueSteps
  <2> QED
    BY <1>4, <2>2, <2>3, <2>4
<1>5. CASE Restart
  <2>1. \A i \in DOMAIN certs :
           LET c == [certs[i] EXCEPT !.status = "superseded"]
           IN  /\ c.status = "superseded"
               /\ c.profile = certs[i].profile /\ c.name = certs[i].name
               /\ c.op = certs[i].op /\ c.csr = certs[i].csr
    BY <1>a DEF Certificate
  <2>2. /\ DOMAIN certs' = DOMAIN certs
        /\ \A i \in DOMAIN certs :
              \/ certs'[i] = certs[i]
              \/ /\ certs'[i] = [certs[i] EXCEPT !.status = "superseded"]
                 /\ certs[i].profile = "public-portal" /\ certs[i].status = "active"
    BY <1>5 DEF Restart, Reconciled
  <2>3. \A i \in DOMAIN certs : SameCertificate(i)
    BY <2>1, <2>2 DEF SameCertificate
  <2>4. \A i \in DOMAIN certs : certs[i].profile = "tls-client" => certs'[i] = certs[i]
    BY <2>2
  <2>5. ~RecordPublic /\ ~RecordRenewal
    BY <1>5 DEF Restart, RecordPublic, RecordRenewal, IdleWorker, TypeInv, TypeOK, Worker
  <2> QED
    BY <1>5, <2>2, <2>3, <2>4, <2>5
<1>6. \/ UNCHANGED certs \/ MarkRevoked \/ Restart \/ RecordPublic \/ RecordRenewal
  BY DEF Next, DeviceStep, HandlerStep, WorkerStep, vars, Authorize, Lapse, Poll, Revoke,
         RevokeFails, Claim, Reclaim, ClaimLapsed, Renew, ReadEnrollment, CheckIdentity,
         MatchRenewal, AdmitRenewal, RereadRenewal, HandlerFails, Schedule, Submit, Take,
         ReadRow, OrderPublic, SignRenewal, SelectPublic, SelectRenewal, Complete,
         AuditComplete, StepRaises, SaveFailure, LoseFailure, Release
<1> QED
  BY <1>1, <1>2, <1>3, <1>4, <1>5, <1>6

(* What a step does to the job at hand. *)
LEMMA WorkerMoves ==
    ASSUME TypeInv, [Next]_vars
    PROVE  \/ UNCHANGED worker
           \/ Take /\ worker'.op = Head(queue) /\ worker'.step = "read"
           \/ worker'.step = "idle"
           \/ /\ ReadRow /\ worker'.op = worker.op
              /\ \/ worker'.step \in {"release", "fail"}
                 \/ /\ worker'.step = "order" /\ row[worker.op].status = "pending"
                    /\ worker'.csr = row[worker.op].request.csr
           \/ /\ OrderPublic \/ SignRenewal \/ StepRaises \/ Complete \/ AuditComplete
                 \/ SaveFailure \/ LoseFailure
              /\ worker'.op = worker.op /\ worker'.csr = worker.csr
              /\ worker.step \in IssueSteps \cup {"read", "fail"}
              /\ worker'.step \in {"sign", "selectPublic", "fail", "audit", "release"}
              /\ worker'.step \in IssueSteps => worker.step \in IssueSteps
           \/ /\ SelectPublic /\ worker'.op = worker.op /\ worker'.csr = worker.csr
              /\ worker.step = "selectPublic" /\ worker'.step = "recordPublic"
              /\ worker'.previous = ActiveCertificate("public-portal", PublicName)
           \/ /\ RecordPublic /\ worker'.op = worker.op /\ worker'.csr = worker.csr
              /\ worker.step = "recordPublic"
              /\ worker'.step = "selectRenewal" /\ worker'.public = Len(certs) + 1
           \/ /\ SelectRenewal /\ worker'.op = worker.op /\ worker'.csr = worker.csr
              /\ worker.step = "selectRenewal" /\ worker'.step = "recordRenewal"
              /\ worker'.public = worker.public
              /\ worker'.previous = ActiveCertificate("tls-client", RenewalName)
           \/ /\ RecordRenewal /\ worker'.op = worker.op /\ worker'.csr = worker.csr
              /\ worker.step = "recordRenewal" /\ worker'.step = "complete"
              /\ worker'.public = worker.public /\ worker'.renewal = Len(certs) + 1
<1>a. worker \in Worker /\ IdleWorker.step = "idle" /\ Len(certs) \in Nat
  BY DEF TypeInv, TypeOK, IdleWorker
<1>b. worker.step # "idle" => worker.op \in Ops
  BY DEF TypeInv, WellFormed, WorkerWellFormed
<1>1. CASE Take
  BY <1>1 DEF Take, IdleWorker
<1>2. CASE ReadRow
  <2>1. worker.op \in Ops /\ row[worker.op].request.csr \in Requests \cup {None}
    BY <1>2, <1>b DEF ReadRow, TypeInv, TypeOK, Row, Body
  <2> QED
    BY <1>2, <1>a, <2>1 DEF ReadRow, Worker
<1>3. CASE OrderPublic \/ SignRenewal \/ StepRaises \/ Complete \/ AuditComplete
           \/ SaveFailure \/ LoseFailure
  BY <1>3, <1>a
  DEF OrderPublic, SignRenewal, StepRaises, Complete, AuditComplete, SaveFailure,
      LoseFailure, IssueSteps, Worker
<1>4. CASE RecordPublic
  <2> DEFINE n == Len(certs) + 1
             first == [worker EXCEPT !.step = "selectRenewal"]
  <2>1. /\ first.step = "selectRenewal" /\ first.op = worker.op
        /\ first.csr = worker.csr /\ first \in Worker
    BY <1>a DEF Worker, IssueSteps
  <2>2. worker' = [first EXCEPT !.public = n] /\ worker.step = "recordPublic"
    BY <1>4 DEF RecordPublic
  <2> HIDE DEF first, n
  <2>3. /\ worker'.step = "selectRenewal" /\ worker'.op = worker.op
        /\ worker'.csr = worker.csr /\ worker'.public = n
    BY <2>1, <2>2 DEF Worker
  <2> QED
    BY <1>4, <2>2, <2>3 DEF n
<1>5. CASE RecordRenewal
  <2> DEFINE n == Len(certs) + 1
             first == [worker EXCEPT !.step = "complete"]
  <2>1. /\ first.step = "complete" /\ first.op = worker.op
        /\ first.csr = worker.csr /\ first.public = worker.public /\ first \in Worker
    BY <1>a DEF Worker, IssueSteps
  <2>2. worker' = [first EXCEPT !.renewal = n] /\ worker.step = "recordRenewal"
    BY <1>5 DEF RecordRenewal
  <2> HIDE DEF first, n
  <2>3. /\ worker'.step = "complete" /\ worker'.op = worker.op
        /\ worker'.csr = worker.csr /\ worker'.public = worker.public
        /\ worker'.renewal = n
    BY <2>1, <2>2 DEF Worker
  <2> QED
    BY <1>5, <2>2, <2>3 DEF n
<1>8. CASE SelectPublic
  <2> DEFINE n == ActiveCertificate("public-portal", PublicName)
             first == [worker EXCEPT !.step = "recordPublic"]
  <2>1. /\ first.step = "recordPublic" /\ first.op = worker.op
        /\ first.csr = worker.csr /\ first \in Worker
    BY <1>a DEF Worker, IssueSteps
  <2>2. worker' = [first EXCEPT !.previous = n] /\ worker.step = "selectPublic"
    BY <1>8 DEF SelectPublic
  <2> HIDE DEF first, n
  <2>3. /\ worker'.step = "recordPublic" /\ worker'.op = worker.op
        /\ worker'.csr = worker.csr /\ worker'.previous = n
    BY <2>1, <2>2 DEF Worker
  <2> QED
    BY <1>8, <2>2, <2>3 DEF n
<1>9. CASE SelectRenewal
  <2> DEFINE n == ActiveCertificate("tls-client", RenewalName)
             first == [worker EXCEPT !.step = "recordRenewal"]
  <2>1. /\ first.step = "recordRenewal" /\ first.op = worker.op
        /\ first.csr = worker.csr /\ first.public = worker.public /\ first \in Worker
    BY <1>a DEF Worker, IssueSteps
  <2>2. worker' = [first EXCEPT !.previous = n] /\ worker.step = "selectRenewal"
    BY <1>9 DEF SelectRenewal
  <2> HIDE DEF first, n
  <2>3. /\ worker'.step = "recordRenewal" /\ worker'.op = worker.op
        /\ worker'.csr = worker.csr /\ worker'.public = worker.public
        /\ worker'.previous = n
    BY <2>1, <2>2 DEF Worker
  <2> QED
    BY <1>9, <2>2, <2>3 DEF n
<1>6. CASE Release \/ Restart
  BY <1>6, <1>a DEF Release, Restart
<1>7. \/ UNCHANGED worker \/ Take \/ ReadRow \/ OrderPublic \/ SignRenewal
      \/ StepRaises \/ Complete \/ AuditComplete \/ SaveFailure \/ LoseFailure
      \/ SelectPublic \/ RecordPublic \/ SelectRenewal \/ RecordRenewal \/ Release \/ Restart
  BY DEF Next, DeviceStep, HandlerStep, WorkerStep, vars, Authorize, Lapse, Poll, Revoke,
         RevokeFails, MarkRevoked, Claim, Reclaim, ClaimLapsed, Renew, ReadEnrollment,
         CheckIdentity, MatchRenewal, AdmitRenewal, RereadRenewal, HandlerFails,
         Schedule, Submit
<1> QED
  BY <1>1, <1>2, <1>3, <1>4, <1>5, <1>6, <1>7, <1>8, <1>9

-----------------------------------------------------------------------------
(* What a job has selected to supersede. *)

(* The job's selection is of this identity, and no other certificate of    *)
(* the identity is active.                                                 *)
Selected(profile, name) ==
    /\ worker.previous # 0 => /\ worker.previous \in DOMAIN certs
                              /\ certs[worker.previous].profile = profile
                              /\ certs[worker.previous].name = name
    /\ \A i \in ActiveCerts(profile, name) : i = worker.previous

SelectInv ==
    /\ worker.step = "recordPublic" => Selected("public-portal", PublicName)
    /\ worker.step = "recordRenewal" => Selected("tls-client", RenewalName)

LEMMA OwnersKept ==
    ASSUME TypeInv, [Next]_vars, NEW op \in Ops, row[op].status # "none"
    PROVE  row'[op].owner = row[op].owner
<1>1. ASSUME NEW x \in Ops, RowMoves(x) PROVE row'[op].owner = row[op].owner
  BY <1>1 DEF RowMoves, Authorized, Claimed, Expired, Admitted, Answered, Failed, Kept
<1> QED
  BY <1>1, RowsMove

(* While the job has not inserted, its identity gains nothing active.      *)
LEMMA SelectionKept ==
    ASSUME TypeInv, [Next]_vars, ~RecordPublic, ~RecordRenewal, UNCHANGED worker,
           NEW profile, NEW name, Selected(profile, name)
    PROVE  Selected(profile, name)'
<1>1. DOMAIN certs' = DOMAIN certs /\ \A i \in DOMAIN certs : SameCertificate(i)
  BY CertsMove
<1> QED
  BY <1>1 DEF Selected, ActiveCerts, SameCertificate

LEMMA SelectionMade ==
    ASSUME TypeInv, OneActivePerIdentity, UNCHANGED certs, NEW profile, NEW name,
           worker'.previous = ActiveCertificate(profile, name)
    PROVE  Selected(profile, name)'
<1>1. certs \in Seq(Certificate)
  BY DEF TypeInv, TypeOK
<1>2. worker'.previous # 0 => /\ worker'.previous \in DOMAIN certs
                              /\ certs[worker'.previous].profile = profile
                              /\ certs[worker'.previous].name = name
  BY <1>1, LookedUp
<1>3. \A i \in ActiveCerts(profile, name) : i = worker'.previous
  BY <1>1, OnlyActive DEF ActiveCerts
<1> QED
  BY <1>2, <1>3 DEF Selected, ActiveCerts

LEMMA SelectStep ==
    ASSUME TypeInv, OneActivePerIdentity, SelectInv, [Next]_vars
    PROVE  SelectInv'
<1> DEFINE op == worker.op
<1>a. worker \in Worker
  BY DEF TypeInv, TypeOK
<1>1. ASSUME worker.step # "idle", worker'.op = worker.op
      PROVE  PublicName' = PublicName /\ RenewalName' = RenewalName
  <2>1. op \in Ops /\ row[op].status # "none"
    BY <1>1 DEF TypeInv, WellFormed, WorkerWellFormed
  <2>2. row'[op].owner = row[op].owner
    BY <2>1, OwnersKept
  <2> QED
    BY <1>1, <2>2 DEF PublicName, RenewalName
<1>2. CASE UNCHANGED worker
  <2>1. CASE worker.step = "recordPublic"
    <3>1. ~RecordPublic /\ ~RecordRenewal
      BY <1>2, <1>a, <2>1 DEF RecordPublic, RecordRenewal, Worker
    <3>2. PICK name : name = PublicName
      OBVIOUS
    <3>3. Selected("public-portal", name)'
      BY <1>2, <2>1, <3>1, <3>2, SelectionKept DEF SelectInv
    <3>4. name = PublicName'
      BY <1>1, <1>2, <2>1, <3>2
    <3> QED
      BY <1>2, <2>1, <3>3, <3>4 DEF SelectInv, Selected, ActiveCerts
  <2>2. CASE worker.step = "recordRenewal"
    <3>1. ~RecordPublic /\ ~RecordRenewal
      BY <1>2, <1>a, <2>2 DEF RecordPublic, RecordRenewal, Worker
    <3>2. PICK name : name = RenewalName
      OBVIOUS
    <3>3. Selected("tls-client", name)'
      BY <1>2, <2>2, <3>1, <3>2, SelectionKept DEF SelectInv
    <3>4. name = RenewalName'
      BY <1>1, <1>2, <2>2, <3>2
    <3> QED
      BY <1>2, <2>2, <3>3, <3>4 DEF SelectInv, Selected, ActiveCerts
  <2> QED
    BY <1>2, <2>1, <2>2 DEF SelectInv
<1>3. ASSUME SelectPublic, worker'.op = worker.op, worker'.step = "recordPublic",
             worker.step = "selectPublic",
             worker'.previous = ActiveCertificate("public-portal", PublicName)
      PROVE  SelectInv'
  <2>1. PICK name : name = PublicName
    OBVIOUS
  <2>2. Selected("public-portal", name)'
    BY <1>3, <2>1, SelectionMade DEF SelectPublic
  <2>3. name = PublicName'
    BY <1>1, <1>3, <2>1
  <2> QED
    BY <1>3, <2>2, <2>3 DEF SelectInv, Selected, ActiveCerts
<1>4. ASSUME SelectRenewal, worker'.op = worker.op, worker'.step = "recordRenewal",
             worker.step = "selectRenewal",
             worker'.previous = ActiveCertificate("tls-client", RenewalName)
      PROVE  SelectInv'
  <2>1. PICK name : name = RenewalName
    OBVIOUS
  <2>2. Selected("tls-client", name)'
    BY <1>4, <2>1, SelectionMade DEF SelectRenewal
  <2>3. name = RenewalName'
    BY <1>1, <1>4, <2>1
  <2> QED
    BY <1>4, <2>2, <2>3 DEF SelectInv, Selected, ActiveCerts
<1>5. CASE worker'.step \notin {"recordPublic", "recordRenewal"}
  BY <1>5 DEF SelectInv
<1> QED
  BY <1>2, <1>3, <1>4, <1>5, WorkerMoves DEF Take

LEMMA ActiveAdded ==
    ASSUME TypeInv, OneActivePerIdentity, NEW new \in Certificate, Added(new),
           Selected(new.profile, new.name)
    PROVE  OneActivePerIdentity'
<1> SUFFICES ASSUME NEW i \in DOMAIN certs', NEW j \in DOMAIN certs',
                    certs'[i].status = "active", certs'[j].status = "active",
                    certs'[i].profile = certs'[j].profile,
                    certs'[i].name = certs'[j].name
             PROVE  i = j
  BY DEF OneActivePerIdentity
<1>a. certs \in Seq(Certificate)
  BY DEF TypeInv, TypeOK
<1>b. /\ i \in DOMAIN certs \/ i = Len(certs) + 1
      /\ j \in DOMAIN certs \/ j = Len(certs) + 1
  BY DEF Added
<1>1. \A k \in DOMAIN certs : certs'[k].status = "active" =>
         ~(certs'[k].profile = new.profile /\ certs'[k].name = new.name)
  <2> SUFFICES ASSUME NEW k \in DOMAIN certs, certs'[k].status = "active",
                      certs'[k].profile = new.profile, certs'[k].name = new.name
               PROVE  FALSE
    OBVIOUS
  <2>1. /\ certs[k].status = "active"
        /\ certs[k].profile = new.profile /\ certs[k].name = new.name
    BY DEF Added, SameCertificate
  <2>2. k = worker.previous
    BY <2>1 DEF Selected, ActiveCerts
  <2> QED
    BY <2>2 DEF Added
<1>2. CASE i \in DOMAIN certs /\ j \in DOMAIN certs
  BY <1>2 DEF Added, SameCertificate, OneActivePerIdentity
<1>3. certs'[Len(certs) + 1] = new
  BY DEF Added
<1> QED
  BY <1>1, <1>2, <1>3, <1>b

LEMMA RecordsSelected ==
    ASSUME SelectInv
    PROVE  /\ RecordPublic => Selected(NewPublic.profile, NewPublic.name)
           /\ RecordRenewal => Selected(NewRenewal.profile, NewRenewal.name)
  BY DEF SelectInv, RecordPublic, RecordRenewal, NewPublic, NewRenewal

LEMMA OneActiveStep ==
    ASSUME TypeInv, OneActivePerIdentity, SelectInv, [Next]_vars
    PROVE  OneActivePerIdentity'
<1>1. CASE DOMAIN certs' = DOMAIN certs /\ \A i \in DOMAIN certs : SameCertificate(i)
  BY <1>1 DEF SameCertificate, OneActivePerIdentity
<1> QED
  BY <1>1, CertsMove, ActiveAdded, RecordsSelected

LEMMA SelectionsHold == Spec => []OneActivePerIdentity /\ []SelectInv
<1>1. Init => OneActivePerIdentity /\ SelectInv
  BY DEF Init, OneActivePerIdentity, SelectInv, IdleWorker
<1>2. Spec => []TypeInv
  BY TypeInit, TypeStep, PTL DEF Spec
<1>3. TypeInv /\ OneActivePerIdentity /\ SelectInv /\ [Next]_vars
      => OneActivePerIdentity' /\ SelectInv'
  BY OneActiveStep, SelectStep
<1> QED
  BY <1>1, <1>2, <1>3, PTL DEF Spec

(* Over any number of enrollments, renewals and hosts, failing jobs,       *)
(* revocations and restarts, the listener keeps at most one certificate    *)
(* active for each public host name and each device.  Superseding the one  *)
(* selected before the insert is enough: nobody but the one worker inserts *)
(* certificates of these identities (add_certificate).                     *)
THEOREM OneActive == Spec => []OneActivePerIdentity
  BY SelectionsHold, PTL

-----------------------------------------------------------------------------

(* The refinement of CertificateLifecycle. *)

LEMMA Tables ==
    /\ DOMAIN StatusOf = DOMAIN certs /\ DOMAIN IdentityOf = DOMAIN certs
    /\ \A i \in DOMAIN certs : /\ StatusOf[i] = certs[i].status
                               /\ IdentityOf[i] = <<certs[i].profile, certs[i].name>>
BY DEF StatusOf, IdentityOf

LEMMA SameIdentities ==
    ASSUME DOMAIN certs' = DOMAIN certs, \A i \in DOMAIN certs : SameCertificate(i)
    PROVE  IdentityOf' = IdentityOf
BY DEF IdentityOf, SameCertificate

(* A certificate of the listener is recorded.                              *)
LEMMA AddedFollows ==
    ASSUME TypeInv, OneActivePerIdentity, NEW new \in Certificate,
           AddCertificate(worker.previous, new), new.status = "active",
           Selected(new.profile, new.name)
    PROVE  Lifecycle!Next
<1> DEFINE n == Len(certs) + 1
           old == worker.previous
           who == <<new.profile, new.name>>
<1>1. certs \in Seq(Certificate)
  BY DEF TypeInv, TypeOK
<1>2. Added(new)
  BY <1>1, CertificateAdded
<1>3. /\ DOMAIN certs = 1..Len(certs) /\ Len(certs) \in Nat
      /\ DOMAIN certs' = DOMAIN certs \cup {n} /\ n \notin DOMAIN certs /\ certs'[n] = new
  BY <1>2 DEF Added
<1>4. old # 0 => old \in DOMAIN certs /\ <<certs[old].profile, certs[old].name>> = who
  BY DEF Selected
<1>5. old # 0 => certs'[old].status = "superseded"
  BY <1>2, <1>4 DEF Added
<1>6. \A i \in DOMAIN certs : i # old => certs'[i] = certs[i]
  BY <1>2 DEF Added
<1>7. \A i \in DOMAIN certs : /\ certs'[i].profile = certs[i].profile
                              /\ certs'[i].name = certs[i].name
  BY <1>2 DEF Added, SameCertificate
<1> HIDE DEF old
<1>8. 0 \notin DOMAIN certs /\ n # old
  BY <1>3, <1>4
<1>9. IdentityOf' = [j \in DOMAIN StatusOf \cup {n} |-> IF j = n THEN who ELSE IdentityOf[j]]
  BY <1>3, <1>7, Tables DEF IdentityOf
<1>10. StatusOf' = [j \in DOMAIN StatusOf \cup {n} |->
                       IF j = n THEN "active"
                       ELSE IF j = old THEN "superseded" ELSE StatusOf[j]]
  BY <1>3, <1>5, <1>6, <1>8, Tables DEF StatusOf
<1>11. Lifecycle!Record(n, who, old)
  BY <1>4, <1>9, <1>10, Tables DEF Lifecycle!Record, Lifecycle!Add
<1>12. /\ n \in DOMAIN StatusOf' \ DOMAIN StatusOf /\ old \in DOMAIN StatusOf \cup {0}
       /\ IdentityOf'[n] = who
  BY <1>3, <1>4, <1>9, Tables, <1>10
<1> QED
  BY <1>11, <1>12 DEF Lifecycle!Next

LEMMA RevokedFollows ==
    ASSUME TypeInv, OneActivePerIdentity, Next, MarkRevoked
    PROVE  Lifecycle!Next \/ UNCHANGED Lifecycle!vars
<1>1. /\ certs \in Seq(Certificate) /\ \A i \in DOMAIN certs : certs[i] \in Certificate
      /\ certs' = [certs EXCEPT ![revoking].status = "revoked"]
  BY DEF TypeInv, TypeOK, MarkRevoked
<1>2. /\ DOMAIN certs' = DOMAIN certs
      /\ \A i \in DOMAIN certs :
            /\ certs'[i].profile = certs[i].profile /\ certs'[i].name = certs[i].name
            /\ certs'[i].status = IF i = revoking THEN "revoked" ELSE certs[i].status
  BY <1>1 DEF Certificate
<1>3. IdentityOf' = IdentityOf
  BY <1>2 DEF IdentityOf
<1>4. StatusOf' = [i \in DOMAIN certs |-> IF i = revoking THEN "revoked" ELSE certs[i].status]
  BY <1>2 DEF StatusOf
<1>5. CASE revoking \in DOMAIN certs
  <2>1. StatusOf' = [StatusOf EXCEPT ![revoking] = "revoked"]
    BY <1>4, <1>5 DEF StatusOf
  <2> QED
    BY <1>3, <1>5, <2>1, Tables DEF Lifecycle!Next, Lifecycle!Revoke
<1>6. CASE revoking \notin DOMAIN certs
  BY <1>3, <1>4, <1>6 DEF StatusOf, Lifecycle!vars
<1> QED
  BY <1>5, <1>6

LEMMA RestartFollows ==
    ASSUME TypeInv, OneActivePerIdentity, Next, Restart
    PROVE  Lifecycle!Next
<1> DEFINE S == {i \in DOMAIN certs :
                   /\ certs[i].profile = "public-portal" /\ certs[i].status = "active"
                   /\ \E j \in DOMAIN certs : /\ j > i
                                              /\ certs[j].profile = "public-portal"
                                              /\ certs[j].name = certs[i].name}
<1>1. /\ certs \in Seq(Certificate) /\ \A i \in DOMAIN certs : certs[i] \in Certificate
      /\ certs' = Reconciled
  BY DEF TypeInv, TypeOK, Restart
<1>2. \A i \in DOMAIN certs :
         certs'[i] = IF i \in S THEN [certs[i] EXCEPT !.status = "superseded"] ELSE certs[i]
  BY <1>1 DEF Reconciled
<1>3. DOMAIN certs' = DOMAIN certs
  BY <1>1 DEF Reconciled
<1>4. \A i \in S : i \in DOMAIN certs /\ \E j \in DOMAIN certs :
         j > i /\ <<certs[j].profile, certs[j].name>> = <<certs[i].profile, certs[i].name>>
  OBVIOUS
<1> HIDE DEF S
<1>5. \A i \in DOMAIN certs :
         /\ certs'[i].profile = certs[i].profile /\ certs'[i].name = certs[i].name
         /\ certs'[i].status = IF i \in S THEN "superseded" ELSE certs[i].status
  BY <1>1, <1>2 DEF Certificate
<1>6. IdentityOf' = IdentityOf
  BY <1>3, <1>5 DEF IdentityOf
<1>7. StatusOf' = [i \in DOMAIN StatusOf |-> IF i \in S THEN "superseded" ELSE StatusOf[i]]
  BY <1>3, <1>5, Tables DEF StatusOf
<1>8. Lifecycle!Supersede(S)
  BY <1>4, <1>6, <1>7, Tables DEF Lifecycle!Supersede
<1>9. S \in SUBSET DOMAIN StatusOf
  BY <1>4, Tables
<1> QED
  BY <1>8, <1>9 DEF Lifecycle!Next

LEMMA LifecycleStep ==
    ASSUME TypeInv, OneActivePerIdentity, SelectInv, [Next]_vars
    PROVE  [Lifecycle!Next]_(Lifecycle!vars)
<1>1. CASE RecordPublic
  <2>1. ~RecordRenewal
    BY <1>1 DEF RecordPublic, RecordRenewal
  <2>2. NewPublic \in Certificate
    BY <1>1, <2>1, CertsMove
  <2>3. AddCertificate(worker.previous, NewPublic) /\ NewPublic.status = "active"
    BY <1>1 DEF RecordPublic, NewPublic
  <2> QED
    BY <1>1, <2>2, <2>3, AddedFollows, RecordsSelected
<1>2. CASE RecordRenewal
  <2>1. ~RecordPublic
    BY <1>2 DEF RecordPublic, RecordRenewal
  <2>2. NewRenewal \in Certificate
    BY <1>2, <2>1, CertsMove
  <2>3. AddCertificate(worker.previous, NewRenewal) /\ NewRenewal.status = "active"
    BY <1>2 DEF RecordRenewal, NewRenewal
  <2> QED
    BY <1>2, <2>2, <2>3, AddedFollows, RecordsSelected
<1>3. CASE UNCHANGED certs
  BY <1>3 DEF IdentityOf, StatusOf, Lifecycle!vars
<1>4. CASE MarkRevoked /\ Next
  BY <1>4, RevokedFollows
<1>5. CASE Restart /\ Next
  BY <1>5, RestartFollows
<1> QED
  BY <1>1, <1>2, <1>3, <1>4, <1>5, CertsMove DEF vars

(* The listener, for any number of devices, renewals, faults and           *)
(* revocations, does to the certificates table what the lifecycle of       *)
(* certificates allows: what it records supersedes one of the same profile *)
(* and name, and nothing that was superseded or revoked is active again    *)
(* (add_certificate, set_certificate_status, the history repair).          *)
THEOREM ListenerFollowsLifecycle == Spec => FollowsLifecycle
<1>1. ASSUME Init PROVE Lifecycle!Init
  BY <1>1 DEF Init, StatusOf, IdentityOf, Lifecycle!Init
<1>2. Spec => []TypeInv
  BY TypeInit, TypeStep, PTL DEF Spec
<1> QED
  BY <1>1, <1>2, SelectionsHold, LifecycleStep, PTL DEF Spec, FollowsLifecycle, Lifecycle!Spec

-----------------------------------------------------------------------------

(* Certificate i is recorded for operation op, with this profile and name, *)
(* and for the certificate requests op was claimed with.                   *)
RecordedFor(i, op, profile, name) ==
    /\ i \in DOMAIN certs
    /\ certs[i].profile = profile
    /\ certs[i].name = name
    /\ certs[i].op = op
    /\ certs[i].csr = row[op].request.csr

PublicFor(i, op) == RecordedFor(i, op, "public-portal", PortalHost[row[op].owner])
RenewalFor(i, op) == RecordedFor(i, op, "tls-client", row[op].owner)

(* Operations under way have been claimed. *)
ThreadsClaimed ==
    \A t \in Threads : api[t].step \in {"reread", "schedule", "submit"} => ~Fresh(api[t].op)
QueueClaimed == \A i \in DOMAIN queue : ~Fresh(queue[i])
WorkerClaimed == worker.step # "idle" => ~Fresh(worker.op)

(* A job works from the request its row was claimed with, and what it has  *)
(* recorded so far is in the table.                                        *)
JobInv ==
    /\ worker.step \in IssueSteps => worker.csr = row[worker.op].request.csr
    /\ worker.step \in {"selectRenewal", "recordRenewal", "complete"} =>
          PublicFor(worker.public, worker.op)
    /\ worker.step = "complete" => RenewalFor(worker.renewal, worker.op)

AnswerInv ==
    /\ ThreadsClaimed /\ QueueClaimed /\ WorkerClaimed
    /\ JobInv
    /\ \A op \in Ops : row[op].status = "complete" =>
          PublicFor(row[op].result.public, op) /\ RenewalFor(row[op].result.renewal, op)

LEMMA AnswersFit == AnswerInv => AnswersItsRequest
  BY DEF AnswerInv, AnswersItsRequest, PublicFor, RenewalFor, RecordedFor

LEMMA AnswerInit == Init => AnswerInv
<1> SUFFICES ASSUME Init PROVE AnswerInv
  OBVIOUS
<1>1. /\ \A op \in Ops : row[op].status = "none"
      /\ \A t \in Threads : api[t].step = "idle"
      /\ DOMAIN queue = {} /\ worker.step = "idle"
  BY DEF Init, NoRow, IdleThread, IdleWorker
<1> QED
  BY <1>1 DEF AnswerInv, ThreadsClaimed, QueueClaimed, WorkerClaimed, JobInv, IssueSteps

(* What is claimed stays claimed, with its owner and request. *)
LEMMA ClaimedStay ==
    ASSUME TypeInv, [Next]_vars, NEW op \in Ops, ~Fresh(op)
    PROVE  ~Fresh(op)' /\ Kept(op)
<1>1. CASE UNCHANGED row
  BY <1>1 DEF Fresh, Kept
<1>2. ASSUME NEW x \in Ops, RowMoves(x) PROVE ~Fresh(op)' /\ Kept(op)
  BY <1>2 DEF RowMoves, Authorized, Claimed, Expired, Admitted, Answered, Failed, Fresh, Kept
<1> QED
  BY <1>1, <1>2, RowsMove

(* The table keeps what it has recorded. *)
LEMMA TableKept ==
    ASSUME TypeInv, OneActivePerIdentity, [Next]_vars, NEW i \in DOMAIN certs
    PROVE  SameCertificate(i)
  BY CertsMove DEF Added

LEMMA RecordsKept ==
    ASSUME TypeInv, OneActivePerIdentity, [Next]_vars, NEW op \in Ops, ~Fresh(op), NEW i
    PROVE  /\ PublicFor(i, op) => PublicFor(i, op)'
           /\ RenewalFor(i, op) => RenewalFor(i, op)'
  BY ClaimedStay, TableKept
  DEF PublicFor, RenewalFor, RecordedFor, SameCertificate, Kept

(* A row is complete because it was, or because the job has answered it.   *)
LEMMA CompleteRows ==
    ASSUME TypeInv, [Next]_vars, NEW op \in Ops, row'[op].status = "complete"
    PROVE  \/ row[op].status = "complete" /\ row'[op].result = row[op].result
           \/ Answered(op)
<1>1. CASE UNCHANGED row
  BY <1>1
<1>2. ASSUME NEW x \in Ops, RowMoves(x)
      PROVE  \/ row[op].status = "complete" /\ row'[op].result = row[op].result
             \/ Answered(op)
  BY <1>2 DEF RowMoves, Authorized, Claimed, Expired, Admitted, Failed
<1> QED
  BY <1>1, <1>2, RowsMove

LEMMA ClaimIsPending ==
    ASSUME TypeInv, NEW t \in Threads, NEW e \in Enrollments, NEW q \in Requests,
           Claim(t, e, q)
    PROVE  row'[e].status = "pending"
<1> DEFINE b == [csr |-> q, identity |-> 0]
           new == [row[e] EXCEPT !.status = "pending", !.request = b]
<1>1. e \in Ops /\ row \in [Ops -> Row]
  BY IdsAreOps DEF TypeInv, TypeOK
<1>2. b \in Body /\ "pending" \in Statuses
  BY DEF Body, Statuses
<1>3. row' = [row EXCEPT ![e] = new]
  BY DEF Claim
<1>4. row[e] \in Row
  BY <1>1
<1> HIDE DEF b
<1>5. new.status = "pending"
  BY ONLY <1>2, <1>4, RowClaimed
<1> HIDE DEF new
<1> QED
  BY <1>1, <1>3, <1>5

LEMMA ClaimedThreads ==
    ASSUME TypeInv, AnswerInv, [Next]_vars
    PROVE  ThreadsClaimed'
<1> SUFFICES ASSUME NEW t \in Threads, api'[t].step \in {"reread", "schedule", "submit"}
             PROVE  row'[api'[t].op].status \notin {"none", "authorized"}
  BY DEF ThreadsClaimed, Fresh
<1> DEFINE op == api'[t].op
<1>a. /\ api \in [Threads -> ApiThread] /\ IdleThread.step = "idle"
      /\ row \in [Ops -> Row]
  BY DEF TypeInv, TypeOK, IdleThread
<1>1. CASE api[t].step \in {"reread", "schedule", "submit"} /\ api[t].op = op
  <2>1. op \in Ops /\ ~Fresh(op)
    BY <1>1 DEF AnswerInv, ThreadsClaimed, TypeInv, WellFormed, ThreadWellFormed
  <2>2. ASSUME NEW x \in Ops, ~Fresh(x)
        PROVE  row'[x].status \notin {"none", "authorized"}
    BY <2>2, ClaimedStay DEF Fresh
  <2> QED
    BY <2>1, <2>2
<1>2. ASSUME NEW e \in Enrollments, NEW q \in Requests, Claim(t, e, q)
      PROVE  row'[op].status = "pending"
  <2>1. op = e
    BY <1>2, <1>a DEF Claim, ApiThread
  <2> QED
    BY <1>2, <2>1, ClaimIsPending
<1>3. ASSUME NEW e \in Enrollments, NEW q \in Requests, Reclaim(t, e, q)
      PROVE  row'[op].status = "pending"
  BY <1>3, <1>a DEF Reclaim, ApiThread
<1>4. CASE MatchRenewal(t)
  <2>1. Proceed(t, "schedule") /\ row'[api[t].op].status = "pending"
    BY <1>4, <1>a DEF MatchRenewal, Finish
  <2> QED
    BY <1>a, <2>1 DEF Proceed, ApiThread
<1>5. CASE AdmitRenewal(t)
  <2>1. ~Finish(t)
    BY <1>a DEF Finish
  <2>2. /\ api[t].op \in Ops /\ row[api[t].op].status = "none"
        /\ row'[api[t].op] = [status |-> "pending", owner |-> api[t].owner,
                              request |-> api[t].request, result |-> NoResult]
        /\ Proceed(t, "reread")
    BY <1>5, <1>a, <2>1, IdsAreOps
    DEF AdmitRenewal, TypeInv, WellFormed, ThreadWellFormed, RenewSteps
  <2> QED
    BY <1>a, <2>2 DEF Proceed, ApiThread
<1>6. ASSUME NEW u \in Threads, NEW e \in Enrollments, u # t,
             \E q \in Requests : Claim(u, e, q) \/ Reclaim(u, e, q)
      PROVE  api'[t] = api[t]
  BY <1>6, <1>a DEF Claim, Reclaim
<1>7. ASSUME NEW u \in Threads, HandlerStep(u), u # t PROVE api'[t] = api[t]
  BY <1>7, <1>a
  DEF HandlerStep, ReadEnrollment, CheckIdentity, MatchRenewal, AdmitRenewal,
      RereadRenewal, HandlerFails, Schedule, Submit, Proceed, Finish
<1>8. ASSUME NEW u \in Threads, NEW e \in Enrollments, NEW r \in Renewals,
             NEW body \in Bodies, Renew(u, r, e, body)
      PROVE  api'[t] = api[t]
  BY <1>8, <1>a DEF Renew
<1>9. CASE ReadEnrollment(t) \/ CheckIdentity(t) \/ HandlerFails(t) \/ Submit(t)
  <2>1. Finish(t) \/ Proceed(t, "identity") \/ Proceed(t, "admit")
    BY <1>9 DEF ReadEnrollment, CheckIdentity, HandlerFails, Submit
  <2> QED
    BY <1>a, <2>1 DEF Finish, Proceed, ApiThread
<1>10. CASE RereadRenewal(t) \/ Schedule(t)
  <2>1. /\ api[t].step \in {"reread", "schedule"}
        /\ Finish(t) \/ Proceed(t, "schedule") \/ Proceed(t, "submit")
    BY <1>10 DEF RereadRenewal, Schedule
  <2> QED
    BY <1>1, <1>a, <2>1 DEF Finish, Proceed, ApiThread
<1>11. CASE Restart
  BY <1>11, <1>a DEF Restart
<1>12. CASE UNCHANGED api
  BY <1>1, <1>12
<1> QED
  BY <1>1, <1>2, <1>3, <1>4, <1>5, <1>6, <1>7, <1>8, <1>9, <1>10, <1>11, <1>12
  DEF Next, DeviceStep, HandlerStep, WorkerStep, vars, Authorize, Lapse, Poll, Revoke,
      RevokeFails, MarkRevoked, ClaimLapsed, Take, ReadRow, OrderPublic, SignRenewal,
      SelectPublic, RecordPublic, SelectRenewal, RecordRenewal, Complete, AuditComplete,
      StepRaises, SaveFailure, LoseFailure, Release

LEMMA ClaimedQueue ==
    ASSUME TypeInv, AnswerInv, [Next]_vars
    PROVE  QueueClaimed'
<1>a. queue \in Seq(Ops) /\ QueueClaimed
  BY DEF TypeInv, TypeOK, AnswerInv
<1>b. ASSUME NEW x \in Ops, ~Fresh(x)
      PROVE  row'[x].status \notin {"none", "authorized"}
  BY <1>b, ClaimedStay DEF Fresh
<1>1. CASE UNCHANGED queue
  BY <1>1, <1>a, <1>b DEF QueueClaimed, Fresh
<1>2. ASSUME NEW t \in Threads, Submit(t) PROVE QueueClaimed'
  <2>1. /\ api[t].op \in Ops /\ ~Fresh(api[t].op)
        /\ queue' = Append(queue, api[t].op)
    BY <1>2 DEF Submit, AnswerInv, ThreadsClaimed, TypeInv, WellFormed, ThreadWellFormed
  <2>2. \A i \in DOMAIN queue' : queue'[i] \in Ops /\ ~Fresh(queue'[i])
    BY <1>a, <2>1 DEF QueueClaimed
  <2> QED
    BY <1>b, <2>2 DEF QueueClaimed, Fresh
<1>3. CASE Take
  <2>1. \A i \in DOMAIN queue' : i + 1 \in DOMAIN queue /\ queue'[i] = queue[i + 1]
    BY <1>3, <1>a DEF Take
  <2>2. \A i \in DOMAIN queue' : queue'[i] \in Ops /\ ~Fresh(queue'[i])
    BY <1>a, <2>1 DEF QueueClaimed
  <2> QED
    BY <1>b, <2>2 DEF QueueClaimed, Fresh
<1>4. CASE Restart
  BY <1>4 DEF Restart, QueueClaimed
<1> QED
  BY <1>1, <1>2, <1>3, <1>4
  DEF Next, DeviceStep, HandlerStep, WorkerStep, vars, Authorize, Lapse, Poll, Revoke,
      RevokeFails, MarkRevoked, Claim, Reclaim, ClaimLapsed, Renew, ReadEnrollment,
      CheckIdentity, MatchRenewal, AdmitRenewal, RereadRenewal, HandlerFails, Schedule,
      ReadRow, OrderPublic, SignRenewal, SelectPublic, RecordPublic, SelectRenewal,
      RecordRenewal, Complete, AuditComplete, StepRaises, SaveFailure, LoseFailure,
      Release

LEMMA ClaimedWorker ==
    ASSUME TypeInv, AnswerInv, [Next]_vars
    PROVE  WorkerClaimed'
<1> SUFFICES ASSUME worker'.step # "idle"
             PROVE  row'[worker'.op].status \notin {"none", "authorized"}
  BY DEF WorkerClaimed, Fresh
<1>b. ASSUME NEW x \in Ops, ~Fresh(x)
      PROVE  row'[x].status \notin {"none", "authorized"}
  BY <1>b, ClaimedStay DEF Fresh
<1>1. CASE worker'.op = worker.op /\ worker.step # "idle"
  <2>1. worker.op \in Ops /\ ~Fresh(worker.op)
    BY <1>1 DEF AnswerInv, WorkerClaimed, TypeInv, WellFormed, WorkerWellFormed
  <2> QED
    BY <1>1, <1>b, <2>1
<1>2. CASE Take /\ worker'.op = Head(queue)
  <2>1. Head(queue) \in Ops /\ ~Fresh(Head(queue))
    BY <1>2 DEF Take, AnswerInv, QueueClaimed, TypeInv, TypeOK
  <2> QED
    BY <1>2, <1>b, <2>1
<1> QED
  BY <1>1, <1>2, WorkerMoves
  DEF ReadRow, SelectPublic, RecordPublic, SelectRenewal, RecordRenewal, IssueSteps

LEMMA JobStep ==
    ASSUME TypeInv, OneActivePerIdentity, AnswerInv, [Next]_vars
    PROVE  JobInv'
<1>1. CASE worker'.step \notin IssueSteps
  BY <1>1 DEF JobInv, IssueSteps
<1>2. CASE worker'.step \in IssueSteps
  <2>1. /\ worker.step # "idle" /\ worker'.op = worker.op
        /\ worker.op \in Ops /\ ~Fresh(worker.op)
    <3>1. worker.step # "idle" /\ worker'.op = worker.op
      BY <1>2, WorkerMoves DEF IssueSteps, ReadRow
    <3> QED
      BY <3>1 DEF AnswerInv, WorkerClaimed, TypeInv, WellFormed, WorkerWellFormed
  <2>2. PICK op \in Ops : op = worker.op
    BY <2>1
  <2>3. Kept(op)
    BY <2>1, <2>2, ClaimedStay
  <2>4. ASSUME NEW i, PublicFor(i, op) PROVE PublicFor(i, op)'
    BY <2>1, <2>2, <2>4, RecordsKept
  <2>5. ASSUME NEW i, RenewalFor(i, op) PROVE RenewalFor(i, op)'
    BY <2>1, <2>2, <2>5, RecordsKept
  <2>6. worker'.csr = row'[op].request.csr
    <3>1. worker'.csr = row[op].request.csr
      BY <1>2, <2>2, WorkerMoves 
      DEF AnswerInv, JobInv, IssueSteps, SelectPublic, RecordPublic, SelectRenewal,
          RecordRenewal
    <3> QED
      BY <2>3, <3>1 DEF Kept
  <2>7. ASSUME worker'.step \in {"selectRenewal", "recordRenewal", "complete"}
        PROVE  \A i : i = worker'.public => PublicFor(i, op)'
    <3>1. CASE UNCHANGED worker \/ SelectRenewal \/ RecordRenewal
      <4>1. /\ worker'.public = worker.public
            /\ worker.step \in {"selectRenewal", "recordRenewal", "complete"}
        BY <2>7, <3>1, WorkerMoves
        DEF SelectPublic, RecordPublic, SelectRenewal, RecordRenewal, Take, ReadRow
      <4>2. PICK i : i = worker.public
        OBVIOUS
      <4>3. PublicFor(i, op)
        BY <2>2, <4>1, <4>2 DEF AnswerInv, JobInv
      <4> QED
        BY <2>4, <4>1, <4>2, <4>3
    <3>2. CASE RecordPublic
      <4>1. Added(NewPublic) /\ UNCHANGED row
        BY <3>2, CertsMove DEF RecordPublic, RecordRenewal
      <4>2. worker'.public = Len(certs) + 1 /\ worker'.csr = worker.csr
        BY <3>2, WorkerMoves
        DEF Take, ReadRow, OrderPublic, SignRenewal, StepRaises, Complete, AuditComplete,
            SaveFailure, LoseFailure, SelectPublic, RecordPublic, SelectRenewal,
            RecordRenewal, IssueSteps, TypeInv, TypeOK, Worker
      <4>3. LET c == Len(certs) + 1
            IN  /\ c \in DOMAIN certs'
                /\ certs'[c].profile = "public-portal"
                /\ certs'[c].name = PortalHost[row'[op].owner]
                /\ certs'[c].op = op
                /\ certs'[c].csr = row'[op].request.csr
        BY <2>2, <2>6, <4>1, <4>2 DEF Added, NewPublic, PublicName
      <4> QED
        BY <4>2, <4>3 DEF PublicFor, RecordedFor
    <3> QED
      BY <2>7, <3>1, <3>2, WorkerMoves DEF IssueSteps, ReadRow, Take
  <2>8. ASSUME worker'.step = "complete"
        PROVE  \A i : i = worker'.renewal => RenewalFor(i, op)'
    <3>1. CASE UNCHANGED worker
      <4>1. PICK i : i = worker.renewal
        OBVIOUS
      <4>2. RenewalFor(i, op)
        BY <2>2, <2>8, <3>1, <4>1 DEF AnswerInv, JobInv
      <4> QED
        BY <2>5, <3>1, <4>1, <4>2
    <3>2. CASE RecordRenewal
      <4>1. Added(NewRenewal) /\ UNCHANGED row
        BY <3>2, CertsMove DEF RecordPublic, RecordRenewal
      <4>2. worker'.renewal = Len(certs) + 1 /\ worker'.csr = worker.csr
        BY <2>8, <3>2, WorkerMoves
        DEF SelectRenewal, RecordRenewal, SelectPublic, RecordPublic, Take, ReadRow
      <4>3. LET c == Len(certs) + 1
            IN  /\ c \in DOMAIN certs'
                /\ certs'[c].profile = "tls-client"
                /\ certs'[c].name = row'[op].owner
                /\ certs'[c].op = op
                /\ certs'[c].csr = row'[op].request.csr
        BY <2>2, <2>6, <4>1, <4>2 DEF Added, NewRenewal, RenewalName
      <4> QED
        BY <4>2, <4>3 DEF RenewalFor, RecordedFor
    <3> QED
      BY <2>8, <3>1, <3>2, WorkerMoves
  <2>9. worker'.op = op
    BY <2>1, <2>2
  <2> QED
    BY <2>6, <2>7, <2>8, <2>9 DEF JobInv, PublicFor, RenewalFor, RecordedFor
<1> QED
  BY <1>1, <1>2

LEMMA AnswerStep ==
    ASSUME TypeInv, OneActivePerIdentity, AnswerInv, [Next]_vars
    PROVE  AnswerInv'
<1>1. ASSUME NEW op \in Ops, row'[op].status = "complete"
      PROVE  /\ \A i : i = row'[op].result.public => PublicFor(i, op)'
             /\ \A i : i = row'[op].result.renewal => RenewalFor(i, op)'
  <2> DEFINE v == row'[op].result
  <2>1. /\ PublicFor(v.public, op) /\ RenewalFor(v.renewal, op)
        /\ ~Fresh(op)
    <3>1. CASE row[op].status = "complete" /\ v = row[op].result
      BY <3>1 DEF AnswerInv, Fresh
    <3>2. CASE Answered(op)
      <4>1. /\ worker.step = "complete" /\ op = worker.op
            /\ v.public = worker.public /\ v.renewal = worker.renewal
        BY <3>2 DEF Answered, Complete
      <4> QED
        BY <4>1 DEF AnswerInv, JobInv, WorkerClaimed
    <3> QED
      BY <1>1, <3>1, <3>2, CompleteRows
  <2>2. PICK i : i = v.public
    OBVIOUS
  <2>3. PICK j : j = v.renewal
    OBVIOUS
  <2>4. PublicFor(i, op)' /\ RenewalFor(j, op)'
    BY <2>1, <2>2, <2>3, RecordsKept
  <2> QED
    BY <2>2, <2>3, <2>4
<1>2. \A op \in Ops : (row[op].status = "complete" =>
         PublicFor(row[op].result.public, op) /\ RenewalFor(row[op].result.renewal, op))'
  BY <1>1 DEF PublicFor, RenewalFor, RecordedFor
<1> QED
  BY <1>2, ClaimedThreads, ClaimedQueue, ClaimedWorker, JobStep DEF AnswerInv

(* For any number of devices, hosts, threads and restarts, a row that says *)
(* complete names two recorded certificates, issued for its operation from *)
(* the requests it was claimed with and for the names its enrollment       *)
(* authorizes: the request of a claimed row never changes, and a job reads *)
(* nothing else.                                                           *)
THEOREM AnswersAreFitting == Spec => []AnswersItsRequest
<1>1. Spec => []TypeInv
  BY TypeInit, TypeStep, PTL DEF Spec
<1>2. Spec => []OneActivePerIdentity
  BY OneActive
<1>3. TypeInv /\ OneActivePerIdentity /\ AnswerInv /\ [Next]_vars => AnswerInv'
  BY AnswerStep
<1> QED
  BY <1>1, <1>2, <1>3, AnswerInit, AnswersFit, PTL DEF Spec

-----------------------------------------------------------------------------

(* How a thread comes to have checked the enrollment, or its identity.     *)
Unmoved(t) ==
    /\ api'[t].op = api[t].op /\ api'[t].owner = api[t].owner
    /\ api'[t].request = api[t].request

CheckedEnrollment(t) ==
    /\ api[t].owner \in Enrollments /\ row[api[t].owner].status = "complete"
    /\ api'[t].step = "identity" /\ Unmoved(t)

CheckedIdentity(t) ==
    /\ api[t].step = "identity" /\ api'[t].step = "admit" /\ Unmoved(t)
    /\ ActiveCerts("tls-client", api[t].owner) # {}
    /\ api[t].request.identity = ActiveCertificate("tls-client", api[t].owner)
    /\ api[t].request.csr \in ValidRequests

LEMMA Checking ==
    ASSUME TypeInv, [Next]_vars, NEW t \in Threads, api'[t].step \in {"identity", "admit"}
    PROVE  \/ api'[t] = api[t]
           \/ CheckedEnrollment(t)
           \/ CheckedIdentity(t)
           \/ UNCHANGED row /\ row[api'[t].op].status # "none" /\ api'[t].step = "admit"
<1> DEFINE Goal == \/ api'[t] = api[t]
                   \/ CheckedEnrollment(t)
                   \/ CheckedIdentity(t)
                   \/ UNCHANGED row /\ row[api'[t].op].status # "none" /\ api'[t].step = "admit"
<1>a. /\ api \in [Threads -> ApiThread] /\ IdleThread.step = "idle"
      /\ api[t].step \in RenewSteps => api[t].owner \in Enrollments
  BY DEF TypeInv, TypeOK, IdleThread, WellFormed, ThreadWellFormed
<1>1. ASSUME NEW s, Proceed(t, s) PROVE api'[t].step = s /\ Unmoved(t)
  BY <1>1, <1>a DEF Proceed, ApiThread, Unmoved
<1>2. ~Finish(t)
  BY <1>a DEF Finish
<1>3. CASE ReadEnrollment(t)
  <2>1. /\ row[api[t].owner].status = "complete" /\ Proceed(t, "identity")
        /\ api[t].step \in RenewSteps
    BY <1>2, <1>3 DEF ReadEnrollment, RenewSteps
  <2> QED
    BY <1>1, <1>a, <2>1 DEF CheckedEnrollment
<1>4. CASE CheckIdentity(t)
  BY <1>1, <1>2, <1>4 DEF CheckIdentity, CheckedIdentity
<1>5. ASSUME NEW e \in Enrollments, NEW r \in Renewals, NEW body \in Bodies, Renew(t, r, e, body)
      PROVE  Goal
  <2>1. /\ UNCHANGED row /\ api'[t].op = r
        /\ api'[t].step = IF row[r].status = "none" THEN "enrollment" ELSE "admit"
    BY <1>5, <1>a DEF Renew
  <2> QED
    BY <2>1
<1>6. ASSUME NEW e \in Enrollments, NEW q \in Requests, Claim(t, e, q) \/ Reclaim(t, e, q)
      PROVE  FALSE
  <2>1. api'[t].step = "schedule"
    BY <1>6, <1>a DEF Claim, Reclaim, ApiThread
  <2> QED
    BY <2>1
<1>7. CASE MatchRenewal(t) \/ AdmitRenewal(t) \/ RereadRenewal(t) \/ HandlerFails(t)
           \/ Schedule(t) \/ Submit(t)
  <2>1. Finish(t) \/ Proceed(t, "schedule") \/ Proceed(t, "reread") \/ Proceed(t, "submit")
    <3>1. CASE MatchRenewal(t) \/ RereadRenewal(t) \/ HandlerFails(t)
      BY <3>1 DEF MatchRenewal, RereadRenewal, HandlerFails
    <3>2. CASE AdmitRenewal(t)
      BY <3>2 DEF AdmitRenewal
    <3>3. CASE Schedule(t) \/ Submit(t)
      BY <3>3 DEF Schedule, Submit
    <3> QED
      BY <1>7, <3>1, <3>2, <3>3
  <2> QED
    BY <1>1, <1>2, <2>1
<1>8. ASSUME NEW u \in Threads, u # t,
             \/ HandlerStep(u)
             \/ \E e \in Enrollments, q \in Requests : Claim(u, e, q) \/ Reclaim(u, e, q)
      PROVE  api'[t] = api[t]
  BY <1>8, <1>a
  DEF HandlerStep, ReadEnrollment, CheckIdentity, MatchRenewal, AdmitRenewal,
      RereadRenewal, HandlerFails, Schedule, Submit, Proceed, Finish, Claim, Reclaim
<1>9. ASSUME NEW u \in Threads, u # t, NEW e \in Enrollments, NEW r \in Renewals,
             NEW body \in Bodies, Renew(u, r, e, body)
      PROVE  api'[t] = api[t]
  BY <1>9, <1>a DEF Renew
<1>10. CASE Restart
  BY <1>10, <1>a DEF Restart
<1>11. CASE UNCHANGED api
  BY <1>11
<1> QED
  BY <1>3, <1>4, <1>5, <1>6, <1>7, <1>8, <1>9, <1>10, <1>11
  DEF Next, DeviceStep, HandlerStep, WorkerStep, vars, Authorize, Lapse, Poll, Revoke,
      RevokeFails, MarkRevoked, ClaimLapsed, Take, ReadRow, OrderPublic, SignRenewal,
      SelectPublic, RecordPublic, SelectRenewal, RecordRenewal, Complete, AuditComplete,
      StepRaises, SaveFailure, LoseFailure, Release

(* Rows stay rows. *)
LEMMA RowsRemain ==
    ASSUME TypeInv, [Next]_vars, NEW op \in Ops, row'[op].status = "none"
    PROVE  row'[op] = row[op]
<1>1. ASSUME NEW x \in Ops, RowMoves(x) PROVE row'[op] = row[op]
  BY <1>1 DEF RowMoves, Authorized, Claimed, Expired, Admitted, Answered, Failed
<1> QED
  BY <1>1, RowsMove

LEMMA RetiredStays ==
    ASSUME TypeInv, OneActivePerIdentity, [Next]_vars, NEW i \in DOMAIN certs, Retired(i)
    PROVE  Retired(i)'
<1>a. certs \in Seq(Certificate)
  BY DEF TypeInv, TypeOK
<1>1. certs'[i].status # "active"
  BY TableKept DEF SameCertificate, Retired
<1>2. ASSUME NEW r \in Renewals, row'[r].status = "pending", row'[r].request.identity = i
      PROVE  FALSE
  <2>1. row'[r] # row[r]
    BY <1>2 DEF Retired, RenewingWith
  <2>2. PICK op \in Ops : RowMoves(op)
    BY <2>1, RowsMove
  <2>3. r = op /\ r \notin Enrollments
    BY <2>1, <2>2, IdsAreOps, ConstantsAssumption DEF RowMoves
  <2>4. \E t \in Threads : Admitted(t, r)
    BY <1>2, <2>2, <2>3 DEF RowMoves, Answered, Failed
  <2> QED
    BY <1>2, <2>4 DEF Admitted, Retired, RenewingWith
<1>3. ASSUME NEW t \in Threads, api'[t].step = "admit", api'[t].request.identity = i,
             row'[api'[t].op].status = "none"
      PROVE  FALSE
  <2>1. api'[t].op \in Ops
    <3>1. WellFormed'
      BY TypeStep DEF TypeInv
    <3> QED
      BY <1>3, <3>1, IdsAreOps DEF WellFormed, ThreadWellFormed, RenewSteps
  <2>2. row[api'[t].op].status = "none"
    BY <1>3, <2>1, RowsRemain
  <2>3. CASE api'[t] = api[t]
    BY <1>3, <2>2, <2>3 DEF Retired, RenewingWith
  <2>4. CASE CheckedIdentity(t)
    <3>1. PICK j \in DOMAIN certs : /\ certs[j].profile = "tls-client"
                                    /\ certs[j].name = api[t].owner
                                    /\ certs[j].status = "active"
      BY <2>4 DEF CheckedIdentity, ActiveCerts
    <3>2. ActiveCertificate("tls-client", api[t].owner) = j
      BY <1>a, <3>1, OnlyActive
    <3>3. i = j
      BY <1>3, <2>4, <3>2 DEF CheckedIdentity, Unmoved
    <3> QED
      BY <3>1, <3>3 DEF Retired
  <2>5. ~CheckedEnrollment(t)
    BY <1>3 DEF CheckedEnrollment
  <2> QED
    BY <1>3, <2>2, <2>3, <2>4, <2>5, Checking
<1> QED
  BY <1>1, <1>2, <1>3 DEF Retired, RenewingWith

(* However many devices, threads and restarts: nothing renews with an      *)
(* identity any more once it is revoked or superseded and the renewals     *)
(* that were let in with it are over, even if a job's stale selection      *)
(* turns a revocation into "superseded".                                   *)
THEOREM RevokedForGood == Spec => RevocationEndsRenewals
<1>1. Spec => []TypeInv
  BY TypeInit, TypeStep, PTL DEF Spec
<1>2. TypeInv /\ OneActivePerIdentity /\ [Next]_vars
      => (\A i \in DOMAIN certs : Retired(i) => Retired(i)')
  BY RetiredStays
<1>3. Spec => []OneActivePerIdentity
  BY OneActive
<1> QED
  BY <1>1, <1>2, <1>3, PTL DEF Spec, RevocationEndsRenewals

-----------------------------------------------------------------------------

(* What EnrollmentProtocol calls the answer to an operation.               *)
AnswerTo(op) == IF row[op].result.renewal = 0 THEN None
                ELSE certs[row[op].result.renewal].csr

Status == [op \in Ops |-> row[op].status]
Owner == [op \in Ops |-> row[op].owner]
Request == [op \in Ops |-> row[op].request.csr]
Answer == [op \in Ops |-> AnswerTo(op)]

HasResult(op) == row[op].result.renewal # 0

(* Rows that are not there have no result; other results are recorded.     *)
ResultsRecorded ==
    \A op \in Ops :
        /\ row[op].status = "none" => ~HasResult(op)
        /\ HasResult(op) => row[op].result.renewal \in DOMAIN certs

(* A new renewal past the check is for an enrollment that was answered.    *)
Renewing(t) ==
    \/ api[t].step = "identity"
    \/ api[t].step = "admit" /\ row[api[t].op].status = "none"

RenewalsFounded ==
    \A t \in Threads : Renewing(t) =>
        /\ HasResult(api[t].owner)
        /\ api[t].step = "admit" => api[t].request.csr \in Requests

(* Nobody but the worker decides the renewal it works on.                  *)
WorkedRenewal ==
    worker.op \in Renewals =>
        /\ worker.step \in IssueSteps \ {"audit"} => row[worker.op].status = "pending"
        /\ worker.step \in {"audit", "fail"} =>
              row[worker.op].status \in {"pending", "complete"}

PromiseInv == ResultsRecorded /\ RenewalsFounded /\ WorkedRenewal

LEMMA PromiseInit == Init => PromiseInv
<1> SUFFICES ASSUME Init PROVE PromiseInv
  OBVIOUS
<1>1. /\ \A op \in Ops : row[op].result.renewal = 0
      /\ \A t \in Threads : api[t].step = "idle"
      /\ worker.step = "idle"
  BY DEF Init, NoRow, NoResult, IdleThread, IdleWorker
<1> QED
  BY <1>1 DEF PromiseInv, ResultsRecorded, RenewalsFounded, Renewing, HasResult,
              WorkedRenewal, IssueSteps

(* A job that answers an operation has recorded its identity.              *)
LEMMA AnsweredRecorded ==
    ASSUME AnswerInv, NEW op \in Ops, Answered(op)
    PROVE  /\ row'[op].result.renewal \in DOMAIN certs /\ UNCHANGED certs
           /\ certs[row'[op].result.renewal].csr = row[op].request.csr
<1>1. worker.step = "complete" /\ op = worker.op /\ UNCHANGED certs
  BY DEF Answered, Complete
<1>2. row'[op].result.renewal = worker.renewal
  BY DEF Answered
<1>3. RenewalFor(worker.renewal, worker.op)
  BY <1>1 DEF AnswerInv, JobInv
<1> QED
  BY <1>1, <1>2, <1>3 DEF RenewalFor, RecordedFor

(* Results are replaced by results only.                                   *)
LEMMA ResultsMove ==
    ASSUME TypeInv, AnswerInv, [Next]_vars, NEW op \in Ops
    PROVE  \/ row'[op].result = row[op].result
           \/ Answered(op)
           \/ row[op].status = "none" /\ row'[op].result = NoResult
<1>1. ASSUME NEW x \in Ops, RowMoves(x)
      PROVE  \/ row'[op].result = row[op].result
             \/ Answered(op)
             \/ row[op].status = "none" /\ row'[op].result = NoResult
  BY <1>1 DEF RowMoves, Authorized, Claimed, Expired, Admitted, Failed
<1> QED
  BY <1>1, RowsMove

LEMMA ResultsStep ==
    ASSUME TypeInv, OneActivePerIdentity, AnswerInv, PromiseInv, [Next]_vars
    PROVE  /\ ResultsRecorded'
           /\ \A op \in Ops : HasResult(op) => HasResult(op)'
<1>a. certs \in Seq(Certificate) /\ 0 \notin DOMAIN certs
  BY DEF TypeInv, TypeOK
<1>1. ASSUME NEW op \in Ops, row'[op].status = "none" PROVE ~HasResult(op)'
  BY <1>1, RowsRemain DEF PromiseInv, ResultsRecorded, HasResult
<1>2. ASSUME NEW op \in Ops, row'[op].result = row[op].result
      PROVE  /\ HasResult(op) <=> HasResult(op)'
             /\ HasResult(op)' => row'[op].result.renewal \in DOMAIN certs'
  BY <1>2, TableKept DEF PromiseInv, ResultsRecorded, HasResult, SameCertificate
<1>3. ASSUME NEW op \in Ops, Answered(op)
      PROVE  HasResult(op)' /\ row'[op].result.renewal \in DOMAIN certs'
  BY <1>3, <1>a, AnsweredRecorded DEF HasResult
<1>4. ASSUME NEW op \in Ops, row[op].status = "none", row'[op].result = NoResult
      PROVE  ~HasResult(op) /\ ~HasResult(op)'
  BY <1>4 DEF PromiseInv, ResultsRecorded, HasResult, NoResult
<1> QED
  BY <1>1, <1>2, <1>3, <1>4, ResultsMove DEF ResultsRecorded

LEMMA FoundedStep ==
    ASSUME TypeInv, OneActivePerIdentity, AnswerInv, PromiseInv, [Next]_vars
    PROVE  RenewalsFounded'
<1> SUFFICES ASSUME NEW t \in Threads, Renewing(t)'
             PROVE  /\ HasResult(api[t].owner)'
                    /\ api'[t].step = "admit" => api'[t].request.csr \in Requests
  BY DEF RenewalsFounded
<1>a. /\ api'[t].step \in {"identity", "admit"}
      /\ api'[t].owner \in Enrollments /\ api'[t].op \in Ops
  <2>1. WellFormed'
    BY TypeStep DEF TypeInv
  <2> QED
    BY <2>1, IdsAreOps DEF Renewing, WellFormed, ThreadWellFormed, RenewSteps
<1>b. certs \in Seq(Certificate) /\ 0 \notin DOMAIN certs
  BY DEF TypeInv, TypeOK
<1>c. ASSUME NEW e \in Enrollments, HasResult(e) PROVE row'[e].result.renewal # 0
  BY <1>c, ResultsStep, IdsAreOps DEF HasResult
<1>1. CASE api'[t] = api[t]
  <2>1. Renewing(t)
    BY <1>a, <1>1, RowsRemain DEF Renewing
  <2> QED
    BY <1>a, <1>c, <1>1, <2>1 DEF PromiseInv, RenewalsFounded, HasResult
<1>2. CASE CheckedEnrollment(t)
  <2>1. PICK e \in Enrollments : e = api[t].owner /\ e = api'[t].owner
    BY <1>2 DEF CheckedEnrollment, Unmoved
  <2>2. RenewalFor(row[e].result.renewal, e)
    BY <1>2, <2>1, IdsAreOps DEF CheckedEnrollment, AnswerInv
  <2>3. HasResult(e)
    BY <1>b, <2>2 DEF HasResult, RenewalFor, RecordedFor
  <2> QED
    BY <1>2, <1>c, <2>1, <2>3 DEF CheckedEnrollment, HasResult
<1>3. CASE CheckedIdentity(t)
  <2>1. /\ HasResult(api[t].owner) /\ api'[t].owner = api[t].owner
        /\ api'[t].request.csr \in Requests
    BY <1>3, ConstantsAssumption
    DEF CheckedIdentity, Unmoved, PromiseInv, RenewalsFounded, Renewing
  <2> QED
    BY <1>a, <1>c, <2>1 DEF HasResult
<1>4. ~(UNCHANGED row /\ row[api'[t].op].status # "none" /\ api'[t].step = "admit")
  BY DEF Renewing
<1> QED
  BY <1>a, <1>1, <1>2, <1>3, <1>4, Checking

LEMMA RenewalRow ==
    ASSUME TypeInv, [Next]_vars, NEW r \in Renewals, row[r].status # "none"
    PROVE  row'[r] = row[r] \/ Answered(r) \/ Failed(r)
<1>1. ASSUME NEW x \in Ops, RowMoves(x) PROVE row'[r] = row[r] \/ Answered(r) \/ Failed(r)
  BY <1>1, IdsAreOps, ConstantsAssumption DEF RowMoves, Admitted
<1> QED
  BY <1>1, RowsMove

LEMMA WorkedStep ==
    ASSUME TypeInv, PromiseInv, [Next]_vars
    PROVE  WorkedRenewal'
<1> SUFFICES ASSUME worker'.op \in Renewals, worker'.step \in IssueSteps \cup {"fail"}
             PROVE  /\ worker'.step \notin {"audit", "fail"} =>
                          row'[worker'.op].status = "pending"
                    /\ row'[worker'.op].status \in {"pending", "complete"}
  BY DEF WorkedRenewal, IssueSteps
<1> DEFINE r == worker'.op
<1>a. worker \in Worker /\ IdleWorker.step = "idle" /\ WorkedRenewal
  BY DEF TypeInv, TypeOK, IdleWorker, PromiseInv
<1>1. CASE UNCHANGED worker
  <2>1. ~Complete /\ ~SaveFailure
    BY <1>1, <1>a DEF Complete, SaveFailure, Worker
  <2>2. row[r].status \in {"pending", "complete"}
    BY <1>1, <1>a DEF WorkedRenewal
  <2>3. row'[r] = row[r]
    BY <2>1, <2>2, RenewalRow DEF Answered, Failed
  <2> QED
    BY <1>1, <1>a, <2>3 DEF WorkedRenewal
<1>2. CASE ReadRow
  <2>1. UNCHANGED row /\ worker'.op = worker.op /\ worker'.step # "audit"
    BY <1>2, <1>a DEF ReadRow, Worker, IssueSteps
  <2>2. row[worker.op].status = "pending"
    BY <1>2, <1>a DEF ReadRow, Worker, IssueSteps
  <2> QED
    BY <2>1, <2>2
<1>3. CASE Complete
  <2>1. worker'.op = worker.op /\ worker'.step = "audit" /\ worker.step = "complete"
    BY <1>3, <1>a DEF Complete, Worker
  <2>2. row[r].status = "pending"
    BY <1>a, <2>1 DEF WorkedRenewal, IssueSteps
  <2>3. row'[r] = row[r] \/ row'[r].status = "complete"
    BY <2>1, <2>2, RenewalRow DEF Answered, Failed, SaveFailure
  <2> QED
    BY <2>1, <2>2, <2>3
<1>4. CASE OrderPublic \/ SignRenewal \/ AuditComplete \/ StepRaises
  <2>1. /\ UNCHANGED row /\ worker'.op = worker.op
        /\ worker.step \in IssueSteps
        /\ worker'.step \notin {"audit"}
        /\ worker'.step # "fail" => worker.step \in {"order", "sign"}
    BY <1>4, <1>a DEF OrderPublic, SignRenewal, AuditComplete, StepRaises, Worker, IssueSteps
  <2> QED
    BY <1>a, <2>1 DEF WorkedRenewal, IssueSteps
<1>5. ASSUME NEW s \in {"recordPublic", "selectRenewal", "recordRenewal", "complete"},
             worker'.step = s, UNCHANGED row, worker'.op = worker.op,
             worker.step \in {"selectPublic", "recordPublic",
                              "selectRenewal", "recordRenewal"}
      PROVE  row'[r].status = "pending" /\ s # "audit"
  BY <1>5, <1>a DEF WorkedRenewal, IssueSteps
<1>6. CASE SaveFailure \/ LoseFailure
  BY <1>6, <1>a DEF SaveFailure, LoseFailure, Worker, IssueSteps
<1> QED
  BY <1>1, <1>2, <1>3, <1>4, <1>5, <1>6, WorkerMoves
  DEF IssueSteps, SelectPublic, RecordPublic, SelectRenewal, RecordRenewal

LEMMA PromiseStep ==
    ASSUME TypeInv, OneActivePerIdentity, AnswerInv, PromiseInv, [Next]_vars
    PROVE  PromiseInv'
  BY ResultsStep, FoundedStep, WorkedStep DEF PromiseInv

(* An answer stays what it is.                                             *)
LEMMA AnswersSame ==
    ASSUME TypeInv, OneActivePerIdentity, PromiseInv, [Next]_vars,
           NEW op \in Ops, row'[op].result = row[op].result
    PROVE  AnswerTo(op)' = AnswerTo(op)
<1>1. HasResult(op) => SameCertificate(row[op].result.renewal)
  BY TableKept DEF PromiseInv, ResultsRecorded
<1> QED
  BY <1>1 DEF AnswerTo, HasResult, SameCertificate

(* Time passes by itself.                                                  *)
LEMMA LapsedMoves ==
    ASSUME [Next]_vars
    PROVE  \/ UNCHANGED lapsed
           \/ \E e \in Enrollments : Lapse(e)
  BY DEF Next, DeviceStep, HandlerStep, WorkerStep, vars, Authorize, Poll, Revoke,
         RevokeFails, MarkRevoked, Claim, Reclaim, ClaimLapsed, Renew, ReadEnrollment,
         CheckIdentity, MatchRenewal, AdmitRenewal, RereadRenewal, HandlerFails,
         Schedule, Submit, Take, ReadRow, OrderPublic, SignRenewal, SelectPublic,
         RecordPublic, SelectRenewal, RecordRenewal, Complete, AuditComplete, StepRaises,
         SaveFailure, LoseFailure, Release, Restart

LEMMA PromiseKept ==
    ASSUME TypeInv, OneActivePerIdentity, AnswerInv, PromiseInv, [Next]_vars
    PROVE  [Protocol!Next]_(Protocol!vars)
<1>a. ASSUME NEW op \in Ops, RowMoves(op)
      PROVE  /\ Status' = [Status EXCEPT ![op] = row'[op].status]
             /\ Owner' = [Owner EXCEPT ![op] = row'[op].owner]
             /\ Request' = [Request EXCEPT ![op] = row'[op].request.csr]
             /\ Answer' = [Answer EXCEPT ![op] = AnswerTo(op)']
             /\ row'[op].owner = row[op].owner => UNCHANGED Owner
             /\ row'[op].request = row[op].request => UNCHANGED Request
             /\ AnswerTo(op)' = AnswerTo(op) => UNCHANGED Answer
  <2>1. \A x \in Ops \ {op} : row'[x] = row[x] /\ AnswerTo(x)' = AnswerTo(x)
    BY <1>a, AnswersSame DEF RowMoves
  <2>2. Status' = [Status EXCEPT ![op] = row'[op].status]
    BY <2>1 DEF Status
  <2>3. Owner' = [Owner EXCEPT ![op] = row'[op].owner]
    BY <2>1 DEF Owner
  <2>4. Request' = [Request EXCEPT ![op] = row'[op].request.csr]
    BY <2>1 DEF Request
  <2>5. Answer' = [Answer EXCEPT ![op] = AnswerTo(op)']
    BY <2>1 DEF Answer
  <2>6. /\ row'[op].owner = row[op].owner => UNCHANGED Owner
        /\ row'[op].request = row[op].request => UNCHANGED Request
        /\ AnswerTo(op)' = AnswerTo(op) => UNCHANGED Answer
    BY <2>1 DEF Owner, Request, Answer
  <2> QED
    BY <2>2, <2>3, <2>4, <2>5, <2>6
<1>b. \A op \in Ops : /\ Status[op] = row[op].status /\ Owner[op] = row[op].owner
                     /\ Request[op] = row[op].request.csr /\ Answer[op] = AnswerTo(op)
  BY DEF Status, Owner, Request, Answer
<1>c. ASSUME NEW op \in Ops, RowMoves(op), row'[op].result = row[op].result
      PROVE  UNCHANGED Answer
  BY <1>a, <1>c, AnswersSame
<1>1. ASSUME NEW e \in Enrollments, Lapse(e) PROVE Protocol!Expire(e)
  BY <1>1 DEF Lapse, Protocol!Expire
<1>2. CASE UNCHANGED <<row, lapsed>>
  <2>1. \A op \in Ops : AnswerTo(op)' = AnswerTo(op)
    BY <1>2, AnswersSame
  <2> QED
    BY <1>2, <2>1 DEF Protocol!vars, AnswerTo, Answer
<1>3. ASSUME NEW e \in Enrollments, RowMoves(e), Authorized(e), UNCHANGED lapsed
      PROVE  Protocol!Offer(e)
  <2>1. /\ Status[e] = "none"
        /\ Status' = [Status EXCEPT ![e] = "authorized"]
        /\ Owner' = [Owner EXCEPT ![e] = e]
        /\ UNCHANGED <<Request, Answer, lapsed>>
    BY <1>3, <1>a, <1>b, <1>c, IdsAreOps DEF Authorized
  <2> QED
    BY <2>1 DEF Protocol!Offer, Status, Owner, Request, Answer, AnswerTo
<1>4. ASSUME NEW e \in Enrollments, RowMoves(e), Claimed(e), UNCHANGED lapsed
      PROVE  \E q \in Requests : Protocol!AcceptEnrollment(e, q)
  <2>1. PICK q \in Requests : row'[e].request = [csr |-> q, identity |-> 0]
    BY <1>4 DEF Claimed
  <2>2. /\ Status[e] = "authorized" /\ e \notin lapsed
        /\ Status' = [Status EXCEPT ![e] = "pending"]
        /\ Request' = [Request EXCEPT ![e] = q]
        /\ UNCHANGED <<Owner, Answer, lapsed>>
    BY <1>4, <1>a, <1>b, <1>c, <2>1, IdsAreOps DEF Claimed
  <2>3. Protocol!AcceptEnrollment(e, q)
    BY <2>2 DEF Protocol!AcceptEnrollment, Status, Owner, Request, Answer, AnswerTo
  <2> QED
    BY <2>3
<1>5. ASSUME NEW e \in Enrollments, RowMoves(e), Expired(e), UNCHANGED lapsed
      PROVE  Protocol!Withdraw(e)
  <2>1. /\ Status[e] # "none" /\ e \in lapsed
        /\ Status' = [Status EXCEPT ![e] = "expired"]
        /\ UNCHANGED <<Owner, Request, Answer, lapsed>>
    BY <1>5, <1>a, <1>b, <1>c, IdsAreOps DEF Expired, Kept
  <2> QED
    BY <2>1 DEF Protocol!Withdraw, Status, Owner, Request, Answer, AnswerTo
<1>6. ASSUME NEW r \in Renewals, NEW t \in Threads, RowMoves(r), Admitted(t, r),
             UNCHANGED lapsed
      PROVE  \E e \in Enrollments, q \in Requests : Protocol!AcceptRenewal(r, e, q)
  <2>1. PICK e \in Enrollments : e = api[t].owner
    BY <1>6 DEF Admitted, TypeInv, WellFormed, ThreadWellFormed, RenewSteps
  <2>2. Renewing(t)
    BY <1>6 DEF Admitted, Renewing
  <2>3. PICK q \in Requests : q = api[t].request.csr
    BY <1>6, <2>2 DEF PromiseInv, RenewalsFounded, Admitted
  <2>4. HasResult(e) /\ row[e].result.renewal \in DOMAIN certs
    BY <2>1, <2>2, IdsAreOps DEF PromiseInv, RenewalsFounded, ResultsRecorded
  <2>5. AnswerTo(e) # None
    <3>1. certs[row[e].result.renewal] \in Certificate
      BY <2>4 DEF TypeInv, TypeOK
    <3>2. certs[row[e].result.renewal].csr \in Requests
      BY <3>1 DEF Certificate
    <3> QED
      BY <2>4, <3>2, ConstantsAssumption DEF AnswerTo, HasResult
  <2>6. AnswerTo(r) = None /\ AnswerTo(r)' = None
    BY <1>6, IdsAreOps
    DEF Admitted, AnswerTo, NoResult, PromiseInv, ResultsRecorded, HasResult
  <2>7. \A s \in Renewals : Owner[s] = e => Status[s] # "pending"
    BY <1>6, <1>b, <2>1, IdsAreOps DEF Admitted, RenewalInProgress
  <2>8. /\ Status[r] = "none" /\ Answer[e] # None
        /\ Status' = [Status EXCEPT ![r] = "pending"]
        /\ Owner' = [Owner EXCEPT ![r] = e]
        /\ Request' = [Request EXCEPT ![r] = q]
        /\ UNCHANGED <<Answer, lapsed>>
    BY <1>6, <1>a, <1>b, <2>1, <2>3, <2>5, <2>6, IdsAreOps DEF Admitted
  <2>9. Protocol!AcceptRenewal(r, e, q)
    BY <2>7, <2>8
    DEF Protocol!AcceptRenewal, Status, Owner, Request, Answer, AnswerTo
  <2> QED
    BY <2>9
<1>7. ASSUME NEW op \in Ops, RowMoves(op), Answered(op), UNCHANGED lapsed
      PROVE  Protocol!Answer(op)
  <2>1. row[op].status = "pending"
    BY <1>7 DEF Answered, MayStore, Complete, PromiseInv, WorkedRenewal, IssueSteps
  <2>2. AnswerTo(op)' = row[op].request.csr
    BY <1>7, AnsweredRecorded DEF AnswerTo, TypeInv, TypeOK
  <2> QED
    <3>1. /\ Status[op] = "pending"
          /\ Status' = [Status EXCEPT ![op] = "complete"]
          /\ Answer' = [Answer EXCEPT ![op] = Request[op]]
          /\ UNCHANGED <<Owner, Request, lapsed>>
      BY <1>7, <1>a, <1>b, <2>1, <2>2 DEF Answered, Kept
    <3> QED
      BY <3>1 DEF Protocol!Answer, Status, Owner, Request, Answer, AnswerTo
<1>8. ASSUME NEW op \in Ops, RowMoves(op), Failed(op), UNCHANGED lapsed
      PROVE  Protocol!Refuse(op)
  <2>1. row[op].status \in {"pending", "complete"}
    BY <1>8 DEF Failed, MayStore, SaveFailure, PromiseInv, WorkedRenewal
  <2> QED
    <3>1. /\ Status[op] \in {"pending", "complete"}
          /\ Status' = [Status EXCEPT ![op] = "error"]
          /\ UNCHANGED <<Owner, Request, Answer, lapsed>>
      BY <1>8, <1>a, <1>b, <1>c, <2>1 DEF Failed, Kept
    <3> QED
      BY <3>1 DEF Protocol!Refuse, Status, Owner, Request, Answer, AnswerTo
<1>9. ASSUME NEW op \in Ops, RowMoves(op), UNCHANGED lapsed PROVE Protocol!Next
  BY <1>3, <1>4, <1>5, <1>6, <1>7, <1>8, <1>9
  DEF RowMoves, Protocol!Next, Protocol!Ops, Ops
<1>10. ASSUME NEW e \in Enrollments, Lapse(e) PROVE Protocol!Next
  BY <1>1, <1>10 DEF Protocol!Next
<1> QED
  BY <1>2, <1>9, <1>10, RowsMove, LapsedMoves

LEMMA AnswersHold == Spec => []AnswerInv /\ []PromiseInv
<1>1. Spec => []TypeInv
  BY TypeInit, TypeStep, PTL DEF Spec
<1>2. Spec => []OneActivePerIdentity
  BY OneActive
<1>3. TypeInv /\ OneActivePerIdentity /\ AnswerInv /\ [Next]_vars => AnswerInv'
  BY AnswerStep
<1>4. TypeInv /\ OneActivePerIdentity /\ AnswerInv /\ PromiseInv /\ [Next]_vars
      => PromiseInv'
  BY PromiseStep
<1> QED
  BY <1>1, <1>2, <1>3, <1>4, AnswerInit, PromiseInit, PTL DEF Spec

(* The listener keeps the promise of EnrollmentProtocol, for any number of *)
(* devices, renewals, threads, faults and revocations: threads, queue,     *)
(* worker and restarts never show in what a device is answered.            *)
THEOREM PromiseHolds == Spec => ImplementsProtocol
<1>1. Spec => []TypeInv
  BY TypeInit, TypeStep, PTL DEF Spec
<1>2. Spec => []OneActivePerIdentity
  BY OneActive
<1>3. TypeInv /\ OneActivePerIdentity /\ AnswerInv /\ PromiseInv /\ [Next]_vars
      => [Protocol!Next]_(Protocol!vars)
  BY PromiseKept
<1>4. Init => Protocol!Init
  BY DEF Init, NoRow, NoBody, NoResult, Protocol!Init, Protocol!Ops, Ops
<1> QED
  BY <1>1, <1>2, <1>3, <1>4, AnswersHold, PTL
  DEF Spec, ImplementsProtocol, Protocol!Spec


-----------------------------------------------------------------------------

Identity(e) == ActiveCertificate("tls-client", e)

LEMMA MaxOfOne ==
    ASSUME NEW S, NEW i \in Nat, S = {i}
    PROVE  Max(S) = i
  BY DEF Max

(* The identity a job records is the only active one.                      *)
LEMMA IdentityRecorded ==
    ASSUME TypeInv, OneActivePerIdentity, SelectInv, [Next]_vars, NEW e \in Enrollments,
           RecordRenewal, row[worker.op].owner = e
    PROVE  /\ Identity(e)' = Len(certs) + 1
           /\ certs'[Len(certs) + 1].op = worker.op
<1> DEFINE S == ActiveCerts("tls-client", e)
           n == Len(certs) + 1
<1>a. certs \in Seq(Certificate) /\ ~RecordPublic
  BY DEF TypeInv, TypeOK, RecordPublic, RecordRenewal
<1>0. Added(NewRenewal)
  BY <1>a, CertsMove
<1>1. n \in Nat /\ n \in DOMAIN certs' /\ certs'[n] = NewRenewal
  BY <1>0 DEF Added
<1>2. /\ NewRenewal.profile = "tls-client" /\ NewRenewal.name = e
      /\ NewRenewal.status = "active" /\ NewRenewal.op = worker.op
  BY DEF NewRenewal, RenewalName
<1>3. ASSUME NEW i \in DOMAIN certs PROVE i \notin S'
  <2>1. CASE i = worker.previous
    BY <1>0, <2>1 DEF Added, ActiveCerts
  <2>2. CASE i # worker.previous
    <3>1. certs'[i] = certs[i]
      BY <1>0, <2>2 DEF Added
    <3>2. i \notin S
      BY <1>2, <2>2, RecordsSelected DEF Selected
    <3> QED
      BY <3>1, <3>2 DEF ActiveCerts
  <2> QED
    BY <2>1, <2>2
<1>4. \A i \in DOMAIN certs' : i \in DOMAIN certs \/ i = n
  BY <1>0 DEF Added
<1>5. S' = {n}
  BY <1>1, <1>2, <1>3, <1>4 DEF ActiveCerts
<1>6. Identity(e)' = n
  BY <1>1, <1>5, MaxOfOne DEF Identity, ActiveCertificate
<1> QED
  BY <1>1, <1>2, <1>6

(* What a step does to the active identity of an enrollment.               *)
LEMMA IdentityMoves ==
    ASSUME TypeInv, OneActivePerIdentity, SelectInv, [Next]_vars, NEW e \in Enrollments
    PROVE  \/ Identity(e)' = Identity(e)
           \/ Identity(e)' = 0 /\ IdentityRevoked(e)'
           \/ /\ RecordRenewal /\ row[worker.op].owner = e
              /\ Identity(e)' = Len(certs) + 1
              /\ certs'[Len(certs) + 1].op = worker.op
<1> DEFINE S == ActiveCerts("tls-client", e)
<1>a. certs \in Seq(Certificate) /\ \A i \in DOMAIN certs : certs[i] \in Certificate
  BY DEF TypeInv, TypeOK
<1>b. S' = S => Identity(e)' = Identity(e)
  BY DEF Identity, ActiveCertificate
<1>1. CASE /\ Restart /\ DOMAIN certs' = DOMAIN certs
           /\ \A i \in DOMAIN certs :
                 /\ SameCertificate(i)
                 /\ certs[i].profile = "tls-client" => certs'[i] = certs[i]
  <2>1. S' = S
    BY <1>1 DEF ActiveCerts, SameCertificate
  <2> QED
    BY <1>b, <2>1
<1>2. CASE /\ MarkRevoked /\ DOMAIN certs' = DOMAIN certs
           /\ \A i \in DOMAIN certs : SameCertificate(i)
           /\ \A i \in DOMAIN certs \ {revoking} : certs'[i] = certs[i]
  <2>1. revoking \in DOMAIN certs => certs'[revoking].status = "revoked"
    BY <1>2, <1>a DEF MarkRevoked, Certificate
  <2>2. CASE revoking \in S
    <3>1. S' = {}
      BY <1>2, <2>1, <2>2 DEF ActiveCerts, OneActivePerIdentity, SameCertificate
    <3>2. IdentityRevoked(e)'
      BY <1>2, <2>1, <2>2 DEF ActiveCerts, SameCertificate, IdentityRevoked
    <3> QED
      BY <3>1, <3>2 DEF Identity, ActiveCertificate
  <2>3. CASE revoking \notin S
    <3>1. S' = S
      BY <1>2, <2>1, <2>3 DEF ActiveCerts, SameCertificate
    <3> QED
      BY <1>b, <3>1
  <2> QED
    BY <2>2, <2>3
<1>3. ASSUME NEW new \in Certificate, Added(new),
             Selected(new.profile, new.name),
             ~(new.profile = "tls-client" /\ new.name = e)
      PROVE  Identity(e)' = Identity(e)
  <2> DEFINE p == worker.previous
  <2>1. p \in DOMAIN certs => p \notin S /\ p \notin S'
    <3>1. p \in DOMAIN certs => /\ certs[p].profile = new.profile
                                /\ certs[p].name = new.name
      BY <1>a, <1>3 DEF Selected
    <3>2. p \in DOMAIN certs => SameCertificate(p)
      BY <1>3 DEF Added
    <3> HIDE DEF p
    <3> QED
      BY <1>3, <3>1, <3>2 DEF ActiveCerts, SameCertificate
  <2>2. \A i \in DOMAIN certs : i # p => certs'[i] = certs[i]
    BY <1>3 DEF Added
  <2>3. DOMAIN certs \subseteq DOMAIN certs'
    BY <1>3 DEF Added
  <2>4. \A i \in DOMAIN certs' : i \in DOMAIN certs \/ certs'[i] = new
    BY <1>3 DEF Added
  <2> HIDE DEF p
  <2>5. S' = S
    BY <1>3, <2>1, <2>2, <2>3, <2>4 DEF ActiveCerts
  <2> QED
    BY <1>b, <2>5
<1>4. CASE RecordRenewal /\ row[worker.op].owner = e
  BY <1>4, IdentityRecorded
<1>5. CASE /\ RecordRenewal /\ NewRenewal \in Certificate /\ Added(NewRenewal)
           /\ row[worker.op].owner # e
  BY <1>3, <1>5, RecordsSelected DEF NewRenewal, RenewalName
<1>6. CASE RecordPublic /\ NewPublic \in Certificate /\ Added(NewPublic)
  BY <1>3, <1>6, RecordsSelected DEF NewPublic
<1>7. CASE UNCHANGED certs
  BY <1>7 DEF Identity, ActiveCertificate, ActiveCerts
<1> QED
  BY <1>1, <1>2, <1>4, <1>5, <1>6, <1>7, CertsMove

(* A revoked identity of an enrollment stays revoked until a job records   *)
(* the next one, which may write over the revocation.                      *)
LEMMA RevokedRemains ==
    ASSUME TypeInv, OneActivePerIdentity, SelectInv, [Next]_vars, NEW e \in Enrollments,
           IdentityRevoked(e), ~(RecordRenewal /\ row[worker.op].owner = e)
    PROVE  IdentityRevoked(e)'
<1>1. PICK i \in DOMAIN certs : /\ certs[i].profile = "tls-client"
                                /\ certs[i].name = e /\ certs[i].status = "revoked"
  BY DEF IdentityRevoked
<1>a. certs[i] \in Certificate /\ i # 0
  BY DEF TypeInv, TypeOK
<1>2. ASSUME NEW profile, NEW name, Selected(profile, name), i = worker.previous
      PROVE  profile = "tls-client" /\ name = e
  BY <1>1, <1>2, <1>a DEF Selected
<1>3. ASSUME MarkRevoked, \A j \in DOMAIN certs \ {revoking} : certs'[j] = certs[j]
      PROVE  certs'[i].status = "revoked"
  <2>1. CASE i = revoking
    <3>1. certs'[i] = [certs[i] EXCEPT !.status = "revoked"]
      BY <1>3, <2>1 DEF MarkRevoked, TypeInv, TypeOK
    <3> QED
      BY <3>1, <1>a DEF Certificate
  <2> QED
    BY <1>1, <1>3, <2>1
<1>4. ASSUME RecordPublic, Added(NewPublic) PROVE certs'[i].status = "revoked"
  <2>1. i # worker.previous
    BY <1>2, <1>4, RecordsSelected DEF NewPublic
  <2> QED
    BY <1>1, <1>4, <2>1 DEF Added
<1>5. ASSUME RecordRenewal, Added(NewRenewal) PROVE certs'[i].status = "revoked"
  <2>1. i # worker.previous
    BY <1>2, <1>5, RecordsSelected DEF NewRenewal, RenewalName
  <2> QED
    BY <1>1, <1>5, <2>1 DEF Added
<1>6. certs'[i].status = "revoked" /\ SameCertificate(i)
  BY <1>1, <1>3, <1>4, <1>5, CertsMove, TableKept
<1> QED
  BY <1>1, <1>6 DEF IdentityRevoked, SameCertificate

(* An enrollment owns its row.                                             *)
OwnRows == \A e \in Enrollments : row[e].status # "none" => row[e].owner = e

(* A job on an enrollment ends with its answer.                            *)
WorkedEnrollment ==
    worker.op \in Enrollments /\ worker.step \in IssueSteps \ {"audit"} =>
        row[worker.op].status # "complete"

(* The identity a job is about to answer with is active, or was revoked.   *)
Current(e, c) == Identity(e) = c \/ (Identity(e) = 0 /\ IdentityRevoked(e))

WorkedIdentity ==
    worker.step = "complete" => Current(row[worker.op].owner, worker.renewal)

(* Who can give a device the identity c of enrollment e: an operation that *)
(* was answered with it, or the renewal that recorded it.                  *)
Source(e, c) ==
    \/ \E op \in Ops : /\ row[op].owner = e /\ row[op].status = "complete"
                       /\ row[op].result.renewal = c
    \/ \E r \in Renewals : /\ row[r].owner = e /\ certs[c].op = r
                           /\ row[r].status \in {"pending", "error"}

OpenPath(e) ==
    /\ Identity(e) = 0 => IdentityRevoked(e)
    /\ Identity(e) # 0 => Source(e, Identity(e))

PathInv ==
    /\ OwnRows /\ WorkedEnrollment /\ WorkedIdentity
    /\ \A e \in Enrollments : row[e].status = "complete" => OpenPath(e)

LEMMA PathInit == Init => PathInv
<1> SUFFICES ASSUME Init PROVE PathInv
  OBVIOUS
<1>1. (\A op \in Ops : row[op].status = "none") /\ worker.step = "idle"
  BY DEF Init, NoRow, IdleWorker
<1> QED
  BY <1>1, IdsAreOps
  DEF PathInv, OwnRows, WorkedEnrollment, WorkedIdentity, IssueSteps

LEMMA PathIsOpen == PathInv => RenewalPathOpen
  BY DEF PathInv, OpenPath, Source, Identity, RenewalPathOpen, RenewalInProgress,
         LostRotation

LEMMA OwnRowsStep ==
    ASSUME TypeInv, OwnRows, [Next]_vars
    PROVE  OwnRows'
<1>1. ASSUME NEW e \in Enrollments, NEW op \in Ops, RowMoves(op), row'[e].status # "none"
      PROVE  row'[e].owner = e
  <2>1. CASE e # op
    BY <1>1, <2>1, IdsAreOps DEF RowMoves, OwnRows
  <2>2. CASE e = op
    <3>1. e \notin Renewals
      BY ConstantsAssumption
    <3>2. Authorized(e) \/ (row[e].status # "none" /\ row'[e].owner = row[e].owner)
      BY <1>1, <2>2, <3>1
      DEF RowMoves, Claimed, Expired, Answered, Failed, Kept, MayStore
    <3> QED
      BY <3>2 DEF Authorized, OwnRows
  <2> QED
    BY <2>1, <2>2
<1> QED
  BY <1>1, RowsMove DEF OwnRows

LEMMA WorkedEnrollmentStep ==
    ASSUME TypeInv, WorkedEnrollment, [Next]_vars
    PROVE  WorkedEnrollment'
<1> SUFFICES ASSUME NEW e \in Enrollments, worker'.op = e,
                    worker'.step \in IssueSteps \ {"audit"}, row'[e].status = "complete"
             PROVE  FALSE
  BY DEF WorkedEnrollment, IssueSteps
<1>a. worker \in Worker
  BY DEF TypeInv, TypeOK
<1>1. ~Complete
  BY <1>a DEF Complete, Worker
<1>2. row[e].status = "complete"
  BY <1>1, IdsAreOps, CompleteRows DEF Answered
<1>3. worker.op = e /\ ~ReadRow
  BY <1>2, WorkerMoves DEF IssueSteps, ReadRow
<1>4. worker.step \in IssueSteps \ {"audit"}
  <2>1. CASE OrderPublic \/ SignRenewal \/ StepRaises
    BY <2>1, <1>a DEF OrderPublic, SignRenewal, StepRaises, IssueSteps, Worker
  <2>2. CASE AuditComplete \/ SaveFailure \/ LoseFailure
    BY <2>2, <1>a DEF AuditComplete, SaveFailure, LoseFailure, IssueSteps, Worker
  <2> QED
    BY <1>1, <1>3, <2>1, <2>2, WorkerMoves DEF IssueSteps, Take
<1> QED
  BY <1>2, <1>3, <1>4 DEF WorkedEnrollment

LEMMA WorkedIdentityStep ==
    ASSUME TypeInv, OneActivePerIdentity, SelectInv, AnswerInv, WorkedIdentity, [Next]_vars
    PROVE  WorkedIdentity'
<1> SUFFICES ASSUME worker'.step = "complete"
             PROVE  Current(row[worker.op].owner, worker.renewal)'
  BY DEF WorkedIdentity
<1>a. /\ worker.step # "idle" /\ worker'.op = worker.op
      /\ (UNCHANGED worker /\ worker.step = "complete") \/ RecordRenewal
  BY WorkerMoves DEF IssueSteps, ReadRow, SelectPublic, SelectRenewal, RecordRenewal
<1>b. /\ worker.op \in Ops /\ ~Fresh(worker.op)
  BY <1>a DEF AnswerInv, WorkerClaimed, TypeInv, WellFormed, WorkerWellFormed
<1>1. PICK e \in Enrollments : e = row[worker.op].owner
  BY <1>b DEF TypeInv, WellFormed, RowsOwned, Fresh
<1>2. PICK op \in Ops : op = worker.op
  BY <1>b
<1>3. row'[op].owner = e
  BY <1>b, <1>1, <1>2, ClaimedStay DEF Kept
<1>4. CASE RecordRenewal
  <2>1. worker'.renewal = Len(certs) + 1
    BY <1>4, WorkerMoves
    DEF RecordRenewal, Take, ReadRow, SelectPublic, SelectRenewal, RecordPublic
  <2>2. Identity(e)' = Len(certs) + 1
    BY <1>1, <1>4, IdentityRecorded
  <2> QED
    BY <1>a, <1>2, <1>3, <2>1, <2>2 DEF Current
<1>5. CASE UNCHANGED worker /\ worker.step = "complete"
  <2>1. Current(e, worker.renewal)
    BY <1>1, <1>5 DEF WorkedIdentity
  <2>2. ~RecordRenewal
    BY <1>5 DEF RecordRenewal
  <2>3. Current(e, worker.renewal)'
    BY <1>5, <2>1, <2>2, IdentityMoves, RevokedRemains DEF Current
  <2> QED
    BY <1>2, <1>3, <1>5, <2>3 DEF Current
<1> QED
  BY <1>a, <1>4, <1>5

(* A device that can get its active identity still can after any step.     *)
LEMMA SourceStays ==
    ASSUME TypeInv, OneActivePerIdentity, AnswerInv, PromiseInv, PathInv, [Next]_vars,
           NEW e \in Enrollments, row'[e].status = "complete",
           Identity(e) # 0, Source(e, Identity(e))
    PROVE  \A c : c = Identity(e) => Source(e, c)'
<1> SUFFICES ASSUME NEW c, c = Identity(e) PROVE Source(e, c)'
  OBVIOUS
<1>a. c \in DOMAIN certs /\ SameCertificate(c)
  BY LookedUp, TableKept DEF Identity, TypeInv, TypeOK
<1>1. ASSUME NEW op \in Ops, row[op].owner = e, row[op].status = "complete",
             row[op].result.renewal = c
      PROVE  Source(e, c)'
  <2>1. row'[op].owner = e
    BY <1>1, ClaimedStay DEF Fresh, Kept
  <2>2. ~Answered(op)
    BY <1>1 DEF Answered, Complete, MayStore, PromiseInv, WorkedRenewal, IssueSteps
  <2>3. CASE row'[op].status = "complete"
    BY <1>1, <2>1, <2>2, <2>3, CompleteRows DEF Source
  <2>4. CASE row'[op].status # "complete"
    <3>1. RowMoves(op)
      BY <1>1, <2>4, RowsMove DEF RowMoves
    <3>2. op \in Enrollments => op = e
      BY <1>1 DEF PathInv, OwnRows
    <3>3. Failed(op) /\ op \in Renewals
      BY <1>1, <2>2, <2>4, <3>1, <3>2
      DEF RowMoves, Authorized, Claimed, Admitted, Failed, MayStore
    <3>4. certs'[c].op = op
      BY <1>1, <1>a DEF AnswerInv, RenewalFor, RecordedFor, SameCertificate
    <3> QED
      BY <2>1, <3>3, <3>4 DEF Failed, Source
  <2> QED
    BY <2>3, <2>4
<1>2. ASSUME NEW r \in Renewals, row[r].owner = e, certs[c].op = r,
             row[r].status \in {"pending", "error"}
      PROVE  Source(e, c)'
  <2>1. row'[r].owner = e /\ certs'[c].op = r
    BY <1>2, <1>a, IdsAreOps, ClaimedStay DEF Fresh, Kept, SameCertificate
  <2>2. CASE row'[r] = row[r] \/ Failed(r)
    BY <1>2, <2>1, <2>2 DEF Failed, Source
  <2>3. CASE Answered(r)
    <3>1. /\ worker.step = "complete" /\ worker.op = r
          /\ row'[r].status = "complete" /\ row'[r].result.renewal = worker.renewal
      BY <2>3 DEF Answered, Complete
    <3>2. c = worker.renewal
      BY <1>2, <3>1 DEF PathInv, WorkedIdentity, Current
    <3> QED
      BY <2>1, <3>1, <3>2, IdsAreOps DEF Source
  <2> QED
    BY <1>2, <2>2, <2>3, RenewalRow
<1> QED
  BY <1>1, <1>2 DEF Source

LEMMA OpenStep ==
    ASSUME TypeInv, OneActivePerIdentity, SelectInv, AnswerInv, PromiseInv, PathInv,
           [Next]_vars, NEW e \in Enrollments, row'[e].status = "complete"
    PROVE  OpenPath(e)'
<1> USE IdsAreOps
<1>1. CASE Answered(e)
  <2>1. /\ worker.step = "complete" /\ worker.op = e /\ UNCHANGED certs
        /\ row[e].status = "pending"
        /\ row'[e].owner = row[e].owner /\ row'[e].result.renewal = worker.renewal
    BY <1>1, ConstantsAssumption DEF Answered, Complete, MayStore, Kept
  <2>2. row[e].owner = e
    BY <2>1 DEF PathInv, OwnRows
  <2>3. Current(e, worker.renewal)
    BY <2>1, <2>2 DEF PathInv, WorkedIdentity
  <2>4. PICK c : c = worker.renewal
    OBVIOUS
  <2>5. Source(e, c)'
    BY <2>1, <2>2, <2>4 DEF Source
  <2>6. Identity(e)' = Identity(e) /\ (IdentityRevoked(e)' <=> IdentityRevoked(e))
    BY <2>1 DEF Identity, ActiveCertificate, ActiveCerts, IdentityRevoked
  <2>7. Identity(e)' = c \/ (Identity(e)' = 0 /\ IdentityRevoked(e)')
    BY <2>3, <2>4, <2>6 DEF Current
  <2>8. 0 \notin DOMAIN certs /\ c \in DOMAIN certs
    BY <2>1, <2>4 DEF TypeInv, TypeOK, AnswerInv, JobInv, RenewalFor, RecordedFor
  <2> QED
    BY <2>5, <2>7, <2>8 DEF OpenPath, Source
<1>2. CASE row[e].status = "complete"
  <2>1. OpenPath(e)
    BY <1>2 DEF PathInv
  <2>2. CASE Identity(e)' = Identity(e)
    <3>1. PICK c : c = Identity(e)
      OBVIOUS
    <3>2. c # 0 => Source(e, c)'
      BY <2>1, <3>1, SourceStays DEF OpenPath
    <3>3. c = 0 => IdentityRevoked(e)'
      <4>1. c = 0 => ~(RecordRenewal /\ row[worker.op].owner = e)
        BY <2>2, <3>1, IdentityRecorded DEF TypeInv, TypeOK
      <4> QED
        BY <2>1, <3>1, <4>1, RevokedRemains DEF OpenPath
    <3> QED
      BY <2>2, <3>1, <3>2, <3>3 DEF OpenPath, Source
  <2>3. CASE Identity(e)' = 0 /\ IdentityRevoked(e)'
    BY <2>3 DEF OpenPath
  <2>4. CASE /\ RecordRenewal /\ row[worker.op].owner = e
             /\ Identity(e)' = Len(certs) + 1
             /\ certs'[Len(certs) + 1].op = worker.op
    <3>1. /\ UNCHANGED row /\ worker.step = "recordRenewal" /\ worker.op \in Ops
          /\ row[worker.op].status # "none"
      BY <2>4 DEF RecordRenewal, TypeInv, WellFormed, WorkerWellFormed
    <3>2. worker.op \notin Enrollments
      BY <1>2, <2>4, <3>1 DEF PathInv, OwnRows, WorkedEnrollment, IssueSteps
    <3>3. PICK r \in Renewals : r = worker.op
      BY <3>1, <3>2 DEF Ops
    <3>4. row[r].status = "pending"
      BY <3>1, <3>3 DEF PromiseInv, WorkedRenewal, IssueSteps
    <3>5. PICK c : c = Len(certs) + 1
      OBVIOUS
    <3>6. c # 0
      BY <3>5 DEF TypeInv, TypeOK
    <3>7. Source(e, c)'
      BY <2>4, <3>1, <3>3, <3>4, <3>5 DEF Source
    <3> QED
      BY <2>4, <3>5, <3>6, <3>7 DEF OpenPath, Source
  <2> QED
    BY <2>2, <2>3, <2>4, IdentityMoves
<1> QED
  BY <1>1, <1>2, CompleteRows

(* For any number of devices, renewals, failures and restarts: as long as  *)
(* its enrollment is complete and its identity is not revoked, a device    *)
(* can get hold of the identity it needs to renew again, or has one        *)
(* renewal that failed to blame.                                           *)
THEOREM CanRenewAgain == Spec => []RenewalPathOpen
<1>1. Spec => []TypeInv
  BY TypeInit, TypeStep, PTL DEF Spec
<1>2. Spec => []OneActivePerIdentity /\ []SelectInv
  BY SelectionsHold
<1>3. Spec => []AnswerInv /\ []PromiseInv
  BY AnswersHold
<1>4. /\ TypeInv /\ OneActivePerIdentity /\ SelectInv
      /\ AnswerInv /\ PromiseInv /\ PathInv /\ [Next]_vars
      => PathInv'
  BY OwnRowsStep, WorkedEnrollmentStep, WorkedIdentityStep, OpenStep DEF PathInv
<1> QED
  BY <1>1, <1>2, <1>3, <1>4, PathInit, PathIsOpen, PTL DEF Spec

-----------------------------------------------------------------------------
(* How far a renewal credential authorizes. *)

(* The enrollment is complete, or was until it was found expired.          *)
Lasting(e) == \/ row[e].status = "complete"
              \/ row[e].status = "expired" /\ e \in lapsed

(* The inductive invariant: enrollments with a result last, renewals are   *)
(* for enrollments that last, and so are the identities devices hold.      *)
CredentialInv ==
    /\ OwnRows
    /\ \A e \in Enrollments : row[e].result # NoResult => Lasting(e)
    /\ \A r \in Renewals : row[r].status # "none" => Lasting(row[r].owner)
    /\ \A e \in Enrollments : held[e] # {} => Lasting(e)

LEMMA StillLasting ==
    ASSUME TypeInv, [Next]_vars, NEW e \in Enrollments, Lasting(e)
    PROVE  Lasting(e)'
<1>1. lapsed \subseteq lapsed'
  BY LapsedMoves DEF Lapse
<1>2. ASSUME NEW op \in Ops, RowMoves(op)
      PROVE  row'[e].status \in {row[e].status, "expired"}
             /\ (row'[e].status = row[e].status \/ e \in lapsed)
  BY <1>2, IdsAreOps, ConstantsAssumption
  DEF RowMoves, Authorized, Claimed, Expired, Admitted, Answered, Failed, MayStore, Lasting
<1> QED
  BY <1>1, <1>2, RowsMove DEF Lasting

LEMMA ResultsLast ==
    ASSUME TypeInv, CredentialInv, [Next]_vars, NEW e \in Enrollments,
           row'[e].result # NoResult
    PROVE  Lasting(e)'
<1>1. CASE row[e].result # NoResult
  BY <1>1, StillLasting DEF CredentialInv
<1>2. CASE row[e].result = NoResult
  <2>1. PICK op \in Ops : RowMoves(op) /\ row'[e] # row[e]
    BY <1>2, RowsMove
  <2>2. e = op /\ e \notin Renewals
    BY <2>1, IdsAreOps, ConstantsAssumption DEF RowMoves
  <2>3. Answered(e)
    BY <1>2, <2>1, <2>2 DEF RowMoves, Authorized, Claimed, Expired, Failed
  <2> QED
    BY <2>3 DEF Answered, Lasting
<1> QED
  BY <1>1, <1>2

LEMMA RenewalsLast ==
    ASSUME TypeInv, PromiseInv, CredentialInv, [Next]_vars,
           NEW r \in Renewals, row'[r].status # "none"
    PROVE  Lasting(row[r].owner)'
<1>1. r \in Ops /\ r \notin Enrollments
  BY IdsAreOps, ConstantsAssumption
<1>2. CASE row[r].status # "none"
  <2>1. row[r].owner \in Enrollments
    BY <1>1, <1>2 DEF TypeInv, WellFormed, RowsOwned
  <2>2. row'[r].owner = row[r].owner
    BY <1>1, <1>2, RowsMove DEF RowMoves, Admitted, Answered, Failed, Kept
  <2> QED
    BY <1>2, <2>1, <2>2, StillLasting DEF CredentialInv
<1>3. CASE row[r].status = "none"
  <2>1. PICK op \in Ops : RowMoves(op) /\ row'[r] # row[r]
    BY <1>1, <1>3, RowsMove
  <2>2. r = op
    BY <1>1, <2>1 DEF RowMoves
  <2>3. ~Answered(r) /\ ~Failed(r)
    BY <1>3 DEF Answered, Failed, Complete, SaveFailure, TypeInv, WellFormed, WorkerWellFormed
  <2>4. PICK t \in Threads : Admitted(t, r)
    BY <1>1, <2>1, <2>2, <2>3 DEF RowMoves
  <2>5. PICK e \in Enrollments : e = api[t].owner /\ HasResult(e)
    BY <1>3, <2>4 DEF Admitted, PromiseInv, RenewalsFounded, Renewing,
                      TypeInv, WellFormed, ThreadWellFormed, RenewSteps
  <2>6. Lasting(e)' /\ row'[r].owner = e
    BY <2>4, <2>5, StillLasting DEF CredentialInv, Admitted, HasResult, NoResult
  <2> QED
    BY <2>6
<1> QED
  BY <1>2, <1>3

LEMMA HeldMoves ==
    ASSUME [Next]_vars
    PROVE  UNCHANGED held \/ \E op \in Ops : Poll(op)
  BY DEF Next, DeviceStep, HandlerStep, WorkerStep, vars, Authorize, Lapse, Revoke,
         RevokeFails, MarkRevoked, Claim, Reclaim, ClaimLapsed, Renew, ReadEnrollment,
         CheckIdentity, MatchRenewal, AdmitRenewal, RereadRenewal, HandlerFails,
         Schedule, Submit, Take, ReadRow, OrderPublic, SignRenewal, SelectPublic,
         RecordPublic, SelectRenewal, RecordRenewal, Complete, AuditComplete, StepRaises,
         SaveFailure, LoseFailure, Release, Restart

LEMMA HoldersLast ==
    ASSUME TypeInv, CredentialInv, [Next]_vars, NEW e \in Enrollments, held'[e] # {}
    PROVE  Lasting(e)'
<1>1. CASE held'[e] = held[e]
  BY <1>1, StillLasting DEF CredentialInv
<1>2. CASE held'[e] # held[e]
  <2>1. PICK op \in Ops : Poll(op)
    BY <1>2, HeldMoves
  <2>2. /\ row[op].status # "none" /\ row[op].result # NoResult
        /\ e = row[op].owner
    BY <1>2, <2>1 DEF Poll, TypeInv, TypeOK
  <2>3. CASE op \in Enrollments
    <3>1. e = op
      BY <2>2, <2>3 DEF CredentialInv, OwnRows
    <3> QED
      BY <2>2, <3>1, StillLasting DEF CredentialInv
  <2>4. CASE op \in Renewals
    BY <2>2, <2>4, StillLasting DEF CredentialInv
  <2> QED
    BY <2>3, <2>4 DEF Ops
<1> QED
  BY <1>1, <1>2

LEMMA CredentialInit == Init => CredentialInv
<1> SUFFICES ASSUME Init PROVE CredentialInv
  OBVIOUS
<1>1. \A op \in Ops : row[op].status = "none" /\ row[op].result = NoResult
  BY DEF Init, NoRow
<1>2. \A e \in Enrollments : held[e] = {}
  BY DEF Init
<1> QED
  BY <1>1, <1>2, IdsAreOps DEF CredentialInv, OwnRows

(* For any number of devices, renewals, failures and restarts: expiry is   *)
(* all that takes its authorization from a renewal credential.  The        *)
(* enrollment of a device that has received one is complete until a claim  *)
(* finds it past expires_at (claim_device_enrollment); no renewal that     *)
(* fails, no unsaved failure and no restart changes that.                  *)
THEOREM OnlyExpiryEndsAuthorization ==
    Spec => [](\A e \in Enrollments : held[e] # {} => Lasting(e))
<1>1. Spec => []TypeInv
  BY TypeInit, TypeStep, PTL DEF Spec
<1>2. Spec => []PromiseInv
  BY AnswersHold, PTL
<1>3. TypeInv /\ PromiseInv /\ CredentialInv /\ [Next]_vars => CredentialInv'
  BY OwnRowsStep, ResultsLast, RenewalsLast, HoldersLast DEF CredentialInv
<1>4. CredentialInv => \A e \in Enrollments : held[e] # {} => Lasting(e)
  BY DEF CredentialInv
<1> QED
  BY <1>1, <1>2, <1>3, <1>4, CredentialInit, PTL DEF Spec

=============================================================================
