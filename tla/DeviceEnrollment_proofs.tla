----------------------- MODULE DeviceEnrollment_proofs ----------------------
(***************************************************************************)
(* Theorems about DeviceEnrollment for every value of its constants.       *)
(***************************************************************************)
EXTENDS DeviceEnrollment, WellFoundedInduction, TLAPS

(* The largest of finitely many positions is one of them.                  *)
LEMMA MaxIsIn ==
    ASSUME NEW n \in Nat, NEW S \in SUBSET (0..n), S # {}
    PROVE  Max(S) \in S
<1> DEFINE below == {n - x : x \in S}
<1>1. /\ \A x \in S : n - x \in Nat /\ n - x \in below
      /\ \A y \in below : \E x \in S : y = n - x
  OBVIOUS
<1>2. below \subseteq Nat /\ below # {}
  BY <1>1
<1>3. PICK least \in below : \A y \in below : ~ (<<y, least>> \in OpToRel(<, Nat))
  BY <1>2, NatLessThanWellFounded, WFMin, Zenon
<1>4. \A y \in below : ~ (y < least)
  BY <1>2, <1>3 DEF OpToRel
<1>5. PICK x \in S : least = n - x
  OBVIOUS
<1>6. \A y \in S : x >= y
  <2>1. \A y \in S : n - y \in below
    OBVIOUS
  <2> QED
    BY <1>4, <1>5, <2>1
<1> QED
  BY <1>6 DEF Max

(* The active certificate of an identity is a position in the table, or 0. *)
LEMMA ActiveCertificateType ==
    ASSUME certs \in Seq(Certificate), NEW profile, NEW name
    PROVE  ActiveCertificate(profile, name) \in Nat
<1> DEFINE S == ActiveCerts(profile, name)
<1>1. Len(certs) \in Nat /\ S \subseteq 0..Len(certs)
  BY DEF ActiveCerts
<1>2. S # {} => Max(S) \in Nat
  <2> HIDE DEF S
  <2>1. S # {} => Max(S) \in S
    BY <1>1, MaxIsIn
  <2>2. S \subseteq Nat
    BY <1>1
  <2> QED
    BY <2>1, <2>2
<1> QED
  BY <1>2 DEF ActiveCertificate

(* Recording a certificate keeps the table a table. *)
LEMMA AddCertificateType ==
    ASSUME certs \in Seq(Certificate), NEW previous, NEW new \in Certificate,
           AddCertificate(previous, new)
    PROVE  certs' \in Seq(Certificate)
<1> DEFINE marked == [i \in DOMAIN certs |->
                        IF i = previous
                        THEN [certs[i] EXCEPT !.status = "superseded"]
                        ELSE certs[i]]
<1>1. \A i \in DOMAIN certs : certs[i] \in Certificate
  OBVIOUS
<1>2. \A i \in DOMAIN certs : [certs[i] EXCEPT !.status = "superseded"] \in Certificate
  BY <1>1 DEF Certificate
<1>3. marked \in Seq(Certificate)
  BY <1>1, <1>2
<1>4. certs' = Append(marked, new)
  BY DEF AddCertificate
<1> QED
  BY <1>3, <1>4

(* So does marking one of its certificates. *)
LEMMA MarkedType ==
    ASSUME certs \in Seq(Certificate), NEW i
    PROVE  [certs EXCEPT ![i].status = "revoked"] \in Seq(Certificate)
<1>1. \A j \in DOMAIN certs : certs[j] \in Certificate
  OBVIOUS
<1>2. \A j \in DOMAIN certs : [certs[j] EXCEPT !.status = "revoked"] \in Certificate
  BY <1>1 DEF Certificate
<1> DEFINE marked == [j \in DOMAIN certs |->
                        IF j = i THEN [certs[j] EXCEPT !.status = "revoked"]
                        ELSE certs[j]]
<1>3. marked \in Seq(Certificate)
  BY <1>1, <1>2
<1>4. [certs EXCEPT ![i].status = "revoked"] = marked
  OBVIOUS
<1> QED
  BY <1>3, <1>4

LEMMA ReconciledType ==
    ASSUME certs \in Seq(Certificate)
    PROVE  Reconciled \in Seq(Certificate)
<1>1. \A i \in DOMAIN certs : certs[i] \in Certificate
  OBVIOUS
<1>2. \A i \in DOMAIN certs : [certs[i] EXCEPT !.status = "superseded"] \in Certificate
  BY <1>1 DEF Certificate
<1> QED
  BY <1>1, <1>2 DEF Reconciled

-----------------------------------------------------------------------------

(* The variables keep their types, and operations have their rows: the inductive  *)
(* invariant behind TypeOK.                                                *)
TypeInv == TypeOK /\ WellFormed

LEMMA TypeInit == Init => TypeInv
<1> SUFFICES ASSUME Init PROVE TypeInv
  OBVIOUS
<1> USE ConstantsAssumption DEF Init
<1>1. NoBody \in Body /\ NoResult \in Result
  BY DEF NoBody, Body, NoResult, Result
<1>2. NoRow \in Row /\ IdleThread \in ApiThread /\ IdleWorker \in Worker
  BY <1>1 DEF NoRow, Row, Statuses, IdleThread, ApiThread, IdleWorker, Worker
<1>3. TypeOK
  BY <1>2 DEF TypeOK
<1>4. WellFormed
  BY DEF WellFormed, RowsOwned, ThreadWellFormed, QueueWellFormed, WorkerWellFormed,
         NoRow, IdleThread, IdleWorker, RenewSteps, IssueSteps
<1> QED
  BY <1>3, <1>4 DEF TypeInv

LEMMA IdsAreOps ==
    /\ \A e \in Enrollments : e \in Ops /\ e # None
    /\ \A r \in Renewals : r \in Ops /\ r # None
  BY ConstantsAssumption DEF Ops

(* What a step owes to WellFormed: rows only gain owners and statuses, and *)
(* the thread, queue or worker it moves names an operation with a row.     *)
RowsKept ==
    \A op \in Ops : row[op].status # "none" =>
        row'[op].status # "none" /\ row'[op].owner = row[op].owner

(* Rows and workers keep their type field by field. *)
LEMMA RowClaimed ==
    ASSUME NEW u \in Row, NEW s \in Statuses, NEW b \in Body
    PROVE  LET new == [u EXCEPT !.status = s, !.request = b]
           IN  new \in Row /\ new.status = s /\ new.owner = u.owner
<1> DEFINE first == [u EXCEPT !.status = s]
<1>1. first \in Row /\ first.status = s /\ first.owner = u.owner
  BY DEF Row
<1> HIDE DEF first
<1>2. LET new == [first EXCEPT !.request = b]
      IN  new \in Row /\ new.status = s /\ new.owner = u.owner
  BY <1>1 DEF Row
<1> QED
  BY <1>2 DEF first

LEMMA RowAnswered ==
    ASSUME NEW u \in Row, NEW s \in Statuses, NEW v \in Result
    PROVE  LET new == [u EXCEPT !.status = s, !.result = v]
           IN  new \in Row /\ new.status = s /\ new.owner = u.owner
<1> DEFINE first == [u EXCEPT !.status = s]
<1>1. first \in Row /\ first.status = s /\ first.owner = u.owner
  BY DEF Row
<1> HIDE DEF first
<1>2. LET new == [first EXCEPT !.result = v]
      IN  new \in Row /\ new.status = s /\ new.owner = u.owner
  BY <1>1 DEF Row
<1> QED
  BY <1>2 DEF first

LEMMA WorkerPublic ==
    ASSUME NEW w \in Worker, NEW s \in IssueSteps, NEW n \in Nat
    PROVE  LET new == [w EXCEPT !.step = s, !.public = n]
           IN  new \in Worker
<1> DEFINE first == [w EXCEPT !.step = s]
<1>1. first \in Worker
  BY DEF Worker
<1> HIDE DEF first
<1>2. LET new == [first EXCEPT !.public = n]
      IN  new \in Worker
  BY <1>1 DEF Worker
<1> QED
  BY <1>2 DEF first

LEMMA WorkerRenewal ==
    ASSUME NEW w \in Worker, NEW s \in IssueSteps, NEW n \in Nat
    PROVE  LET new == [w EXCEPT !.step = s, !.renewal = n]
           IN  new \in Worker
<1> DEFINE first == [w EXCEPT !.step = s]
<1>1. first \in Worker
  BY DEF Worker
<1> HIDE DEF first
<1>2. LET new == [first EXCEPT !.renewal = n]
      IN  new \in Worker
  BY <1>1 DEF Worker
<1> QED
  BY <1>2 DEF first

LEMMA RowUpdate ==
    ASSUME TypeInv, NEW op \in Ops, NEW new \in Row,
           new.status # "none", new.owner \in Enrollments,
           row[op].status # "none" => new.owner = row[op].owner,
           row' = [row EXCEPT ![op] = new]
    PROVE  row' \in [Ops -> Row] /\ RowsKept /\ RowsOwned'
<1>1. row \in [Ops -> Row]
  BY DEF TypeInv, TypeOK
<1>2. \A x \in Ops : row'[x] = IF x = op THEN new ELSE row[x]
  BY <1>1
<1> QED
  BY <1>1, <1>2 DEF TypeInv, WellFormed, RowsKept, RowsOwned

LEMMA RowsOnlyStep ==
    ASSUME TypeInv, RowsKept, RowsOwned', UNCHANGED <<api, queue, worker>>
    PROVE  WellFormed'
<1>1. \A t \in Threads : ThreadWellFormed(t)'
  BY DEF TypeInv, WellFormed, ThreadWellFormed, RowsKept
<1>2. QueueWellFormed'
  BY DEF TypeInv, TypeOK, WellFormed, QueueWellFormed, RowsKept
<1>3. WorkerWellFormed'
  BY DEF TypeInv, WellFormed, WorkerWellFormed, RowsKept
<1> QED
  BY <1>1, <1>2, <1>3 DEF WellFormed

LEMMA ThreadStep ==
    ASSUME TypeInv, NEW t \in Threads, RowsKept, RowsOwned', UNCHANGED <<queue, worker>>,
           \A u \in Threads \ {t} : api'[u] = api[u], ThreadWellFormed(t)'
    PROVE  WellFormed'
<1>1. \A u \in Threads \ {t} : ThreadWellFormed(u)'
  BY DEF TypeInv, WellFormed, ThreadWellFormed, RowsKept
<1>2. QueueWellFormed'
  BY DEF TypeInv, TypeOK, WellFormed, QueueWellFormed, RowsKept
<1>3. WorkerWellFormed'
  BY DEF TypeInv, WellFormed, WorkerWellFormed, RowsKept
<1> QED
  BY <1>1, <1>2, <1>3 DEF WellFormed

LEMMA WorkerOnlyStep ==
    ASSUME TypeInv, RowsKept, RowsOwned', UNCHANGED <<api, queue>>,
           worker.step # "idle", worker'.op = worker.op,
           worker'.step \in IssueSteps => worker'.csr \in ValidRequests
    PROVE  WellFormed'
<1>1. WorkerWellFormed'
  BY DEF TypeInv, WellFormed, WorkerWellFormed, RowsKept
<1>2. QueueWellFormed'
  BY DEF TypeInv, TypeOK, WellFormed, QueueWellFormed, RowsKept
<1>3. \A t \in Threads : ThreadWellFormed(t)'
  BY DEF TypeInv, WellFormed, ThreadWellFormed, RowsKept
<1> QED
  BY <1>1, <1>2, <1>3 DEF WellFormed

LEMMA SameRows ==
    ASSUME TypeInv, UNCHANGED row
    PROVE  RowsKept /\ RowsOwned'
  BY DEF TypeInv, WellFormed, RowsKept, RowsOwned

LEMMA DeviceType ==
    ASSUME TypeInv, NEW t \in Threads, NEW e \in Enrollments
    PROVE  /\ \A q \in Requests : Claim(t, e, q) \/ Reclaim(t, e, q) => TypeInv'
           /\ ClaimLapsed(t, e) => TypeInv'
           /\ \A r \in Renewals, body \in Bodies : Renew(t, r, e, body) => TypeInv'
<1> USE IdsAreOps DEF TypeInv
<1>1. ASSUME NEW q \in Requests, Claim(t, e, q) PROVE TypeInv'
  <2> DEFINE body == [csr |-> q, identity |-> 0]
             new == [row[e] EXCEPT !.status = "pending", !.request = body]
  <2>1. /\ new \in Row
        /\ new.status # "none"
        /\ new.owner = row[e].owner
        /\ new.owner \in Enrollments
    <3>1. row[e] \in Row /\ row[e].owner \in Enrollments
      BY <1>1 DEF TypeOK, WellFormed, RowsOwned, Claim
    <3>2. body \in Body /\ "pending" \in Statuses
      BY DEF Body, Statuses
    <3> HIDE DEF body
    <3>3. new \in Row /\ new.status = "pending" /\ new.owner = row[e].owner
      BY <3>1, <3>2, RowClaimed
    <3> QED
      BY <3>1, <3>3
  <2>2. row' = [row EXCEPT ![e] = new]
    BY <1>1 DEF Claim
  <2>3. row' \in [Ops -> Row] /\ RowsKept /\ RowsOwned'
    BY <2>1, <2>2, RowUpdate
  <2>4. api' \in [Threads -> ApiThread]
    BY <1>1 DEF TypeOK, Claim, ApiThread
  <2>5. TypeOK'
    BY <1>1, <2>3, <2>4 DEF Claim, TypeOK
  <2>6. row'[e].status # "none"
    BY <2>1, <2>2 DEF TypeOK
  <2>7. ThreadWellFormed(t)'
    BY <1>1, <2>6 DEF Claim, TypeOK, ApiThread, ThreadWellFormed, RenewSteps
  <2>8. WellFormed'
    BY <1>1, <2>3, <2>7, ThreadStep DEF Claim, TypeOK
  <2> QED
    BY <2>5, <2>8
<1>2. ASSUME NEW q \in Requests, Reclaim(t, e, q) PROVE TypeInv'
  <2>1. api' \in [Threads -> ApiThread]
    BY <1>2 DEF TypeOK, Reclaim, ApiThread
  <2>2. TypeOK'
    BY <1>2, <2>1 DEF Reclaim, TypeOK
  <2>3. ThreadWellFormed(t)'
    BY <1>2 DEF Reclaim, TypeOK, ApiThread, ThreadWellFormed, RenewSteps
  <2>4. WellFormed'
    BY <1>2, <2>3, SameRows, ThreadStep DEF Reclaim, TypeOK
  <2> QED
    BY <2>2, <2>4
<1>3. ASSUME ClaimLapsed(t, e) PROVE TypeInv'
  <2>1. row' \in [Ops -> Row]
    BY <1>3 DEF TypeOK, ClaimLapsed, Row, Statuses
  <2>2. TypeOK'
    BY <1>3, <2>1 DEF ClaimLapsed, TypeOK
  <2>3. RowsKept /\ RowsOwned'
    BY <1>3 DEF ClaimLapsed, TypeOK, Row, WellFormed, RowsKept, RowsOwned
  <2>4. WellFormed'
    BY <1>3, <2>3, RowsOnlyStep DEF ClaimLapsed
  <2> QED
    BY <2>2, <2>4
<1>4. ASSUME NEW r \in Renewals, NEW body \in Bodies, Renew(t, r, e, body)
      PROVE  TypeInv'
  <2>1. body \in Body
    BY DEF TypeOK, Bodies, Body
  <2>2. api' \in [Threads -> ApiThread]
    BY <1>4, <2>1 DEF TypeOK, Renew, ApiThread, RenewSteps
  <2>3. TypeOK'
    BY <1>4, <2>2 DEF Renew, TypeOK
  <2>4. ThreadWellFormed(t)'
    BY <1>4 DEF Renew, TypeOK, ApiThread, ThreadWellFormed, RenewSteps
  <2>5. WellFormed'
    BY <1>4, <2>4, SameRows, ThreadStep DEF Renew, TypeOK
  <2> QED
    BY <2>3, <2>5
<1> QED
  BY <1>1, <1>2, <1>3, <1>4

(* A thread that moves to another step, or is done, keeps its type. *)
LEMMA ThreadMoves ==
    ASSUME TypeInv, NEW t \in Threads,
           NEW s \in {"schedule", "submit"} \cup RenewSteps,
           Proceed(t, s) \/ Finish(t)
    PROVE  api' \in [Threads -> ApiThread]
<1>1. IdleThread \in ApiThread
  BY DEF IdleThread, ApiThread, NoBody, Body
<1>2. [api[t] EXCEPT !.step = s] \in ApiThread
  BY DEF TypeInv, TypeOK, ApiThread
<1> QED
  BY <1>1, <1>2 DEF TypeInv, TypeOK, Proceed, Finish

(* Where such a thread stands afterwards. *)
LEMMA ThreadMoved ==
    ASSUME TypeInv, NEW t \in Threads, NEW s,
           Proceed(t, s) \/ Finish(t)
    PROVE  /\ \A u \in Threads \ {t} : api'[u] = api[u]
           /\ \/ api'[t] = IdleThread
              \/ /\ api'[t].step = s
                 /\ api'[t].op = api[t].op
                 /\ api'[t].owner = api[t].owner
  BY DEF TypeInv, TypeOK, ApiThread, Proceed, Finish

LEMMA HandlerType ==
    ASSUME TypeInv, NEW t \in Threads, HandlerStep(t)
    PROVE  TypeInv'
<1> USE IdsAreOps DEF TypeInv
<1>a. IdleThread.step = "idle"
  BY DEF IdleThread
<1>1. CASE ReadEnrollment(t)
  <2>1. api' \in [Threads -> ApiThread]
    BY <1>1, ThreadMoves DEF ReadEnrollment, RenewSteps
  <2>2. TypeOK'
    BY <1>1, <2>1 DEF ReadEnrollment, TypeOK
  <2>3. ThreadWellFormed(t)'
    BY <1>1, <1>a, ThreadMoved DEF ReadEnrollment, WellFormed, ThreadWellFormed, RenewSteps
  <2>4. WellFormed'
    BY <1>1, <2>3, SameRows, ThreadStep, ThreadMoved DEF ReadEnrollment
  <2> QED
    BY <2>2, <2>4
<1>2. CASE CheckIdentity(t)
  <2>1. api' \in [Threads -> ApiThread]
    BY <1>2, ThreadMoves DEF CheckIdentity, RenewSteps
  <2>2. TypeOK'
    BY <1>2, <2>1 DEF CheckIdentity, TypeOK
  <2>3. ThreadWellFormed(t)'
    BY <1>2, <1>a, ThreadMoved DEF CheckIdentity, WellFormed, ThreadWellFormed, RenewSteps
  <2>4. WellFormed'
    BY <1>2, <2>3, SameRows, ThreadStep, ThreadMoved DEF CheckIdentity
  <2> QED
    BY <2>2, <2>4
<1>3. CASE MatchRenewal(t)
  <2>1. api' \in [Threads -> ApiThread]
    BY <1>3, ThreadMoves DEF MatchRenewal
  <2>2. TypeOK'
    BY <1>3, <2>1 DEF MatchRenewal, TypeOK
  <2>3. ThreadWellFormed(t)'
    BY <1>3, <1>a, ThreadMoved DEF MatchRenewal, WellFormed, ThreadWellFormed, RenewSteps
  <2>4. WellFormed'
    BY <1>3, <2>3, SameRows, ThreadStep, ThreadMoved DEF MatchRenewal
  <2> QED
    BY <2>2, <2>4
<1>4. CASE AdmitRenewal(t)
  <2> DEFINE r == api[t].op
             new == [status |-> "pending", owner |-> api[t].owner,
                     request |-> api[t].request, result |-> NoResult]
  <2>1. api' \in [Threads -> ApiThread]
    BY <1>4, ThreadMoves DEF AdmitRenewal, RenewSteps
  <2>2. r \in Renewals /\ api[t].owner \in Enrollments /\ api[t].request \in Body
    BY <1>4 DEF AdmitRenewal, TypeOK, WellFormed, ThreadWellFormed, RenewSteps, ApiThread
  <2>3. new \in Row
    BY <2>2 DEF Row, Statuses, NoResult, Result
  <2>4. row' \in [Ops -> Row] /\ RowsKept /\ RowsOwned'
    <3>1. CASE UNCHANGED row
      BY <3>1, SameRows DEF TypeOK
    <3>2. CASE row' = [row EXCEPT ![r] = new]
      BY <1>4, <2>2, <2>3, <3>2, RowUpdate DEF AdmitRenewal
    <3> QED
      BY <1>4, <3>1, <3>2 DEF AdmitRenewal
  <2>5. TypeOK'
    BY <1>4, <2>1, <2>4 DEF AdmitRenewal, TypeOK
  <2>6. ThreadWellFormed(t)'
    <3>1. CASE Finish(t)
      BY <3>1, <1>a, ThreadMoved DEF ThreadWellFormed, RenewSteps
    <3>2. CASE row' = [row EXCEPT ![r] = new] /\ Proceed(t, "reread")
      <4>1. row'[r].status # "none"
        BY <2>2, <3>2 DEF TypeOK
      <4> QED
        BY <1>a, <2>2, <3>2, <4>1, ThreadMoved DEF ThreadWellFormed, RenewSteps
    <3> QED
      BY <1>4, <3>1, <3>2 DEF AdmitRenewal
  <2>7. WellFormed'
    BY <1>4, <2>4, <2>6, ThreadStep, ThreadMoved DEF AdmitRenewal
  <2> QED
    BY <2>5, <2>7
<1>5. CASE RereadRenewal(t)
  <2>1. api' \in [Threads -> ApiThread]
    BY <1>5, ThreadMoves DEF RereadRenewal
  <2>2. TypeOK'
    BY <1>5, <2>1 DEF RereadRenewal, TypeOK
  <2>3. ThreadWellFormed(t)'
    BY <1>5, <1>a, ThreadMoved DEF RereadRenewal, WellFormed, ThreadWellFormed, RenewSteps
  <2>4. WellFormed'
    BY <1>5, <2>3, SameRows, ThreadStep, ThreadMoved DEF RereadRenewal
  <2> QED
    BY <2>2, <2>4
<1>6. CASE HandlerFails(t)
  <2>1. api' \in [Threads -> ApiThread]
    BY <1>6, ThreadMoves DEF HandlerFails
  <2>2. TypeOK'
    BY <1>6, <2>1 DEF HandlerFails, TypeOK
  <2>3. ThreadWellFormed(t)'
    BY <1>6, <1>a, ThreadMoved DEF HandlerFails, WellFormed, ThreadWellFormed, RenewSteps
  <2>4. WellFormed'
    BY <1>6, <2>3, SameRows, ThreadStep, ThreadMoved DEF HandlerFails
  <2> QED
    BY <2>2, <2>4
<1>7. CASE Schedule(t)
  <2>1. api' \in [Threads -> ApiThread]
    BY <1>7, ThreadMoves DEF Schedule
  <2>2. api[t].op \in Ops
    BY <1>7 DEF Schedule, WellFormed, ThreadWellFormed
  <2>3. TypeOK'
    BY <1>7, <2>1, <2>2 DEF Schedule, TypeOK
  <2>4. ThreadWellFormed(t)'
    BY <1>7, <1>a, ThreadMoved DEF Schedule, WellFormed, ThreadWellFormed, RenewSteps
  <2>5. WellFormed'
    BY <1>7, <2>4, SameRows, ThreadStep, ThreadMoved DEF Schedule
  <2> QED
    BY <2>3, <2>5
<1>8. CASE Submit(t)
  <2>1. api' \in [Threads -> ApiThread]
    BY <1>8, ThreadMoves DEF Submit
  <2>2. api[t].op \in Ops /\ row[api[t].op].status # "none"
    BY <1>8 DEF Submit, WellFormed, ThreadWellFormed
  <2>3. TypeOK'
    BY <1>8, <2>1, <2>2 DEF Submit, TypeOK
  <2>4. QueueWellFormed'
    BY <1>8, <2>2 DEF Submit, TypeOK, WellFormed, QueueWellFormed
  <2>5. WellFormed'
    BY <1>8, <1>a, <2>4 DEF Submit, Finish, TypeOK, WellFormed, RowsOwned,
                            ThreadWellFormed, WorkerWellFormed, RenewSteps
  <2> QED
    BY <2>3, <2>5
<1> QED
  BY <1>1, <1>2, <1>3, <1>4, <1>5, <1>6, <1>7, <1>8 DEF HandlerStep

LEMMA WorkerType ==
    ASSUME TypeInv, WorkerStep
    PROVE  TypeInv'
<1> USE IdsAreOps DEF TypeInv
<1>a. IdleWorker \in Worker
  BY DEF IdleWorker, Worker
<1>1. CASE Take
  <2>1. Head(queue) \in Ops /\ row[Head(queue)].status # "none"
    BY <1>1 DEF Take, TypeOK, WellFormed, QueueWellFormed
  <2>2. worker' \in Worker
    BY <1>1, <2>1 DEF Take, Worker, IdleWorker
  <2>3. queue' \in Seq(Ops) /\ \A i \in DOMAIN queue' : row[queue'[i]].status # "none"
    BY <1>1 DEF Take, TypeOK, WellFormed, QueueWellFormed
  <2>4. TypeOK'
    BY <1>1, <2>2, <2>3 DEF Take, TypeOK
  <2>5. WellFormed'
    BY <1>1, <2>1, <2>3 DEF Take, WellFormed, RowsOwned, ThreadWellFormed,
                            QueueWellFormed, WorkerWellFormed, IdleWorker, IssueSteps
  <2> QED
    BY <2>4, <2>5
<1>2. CASE ReadRow
  <2>1. worker.op \in Ops /\ row[worker.op].request.csr \in Requests \cup {None}
    BY <1>2 DEF ReadRow, TypeOK, WellFormed, WorkerWellFormed, Row, Body
  <2>2. worker' \in Worker
    BY <1>2, <2>1 DEF ReadRow, TypeOK, Worker, IssueSteps
  <2>3. TypeOK'
    BY <1>2, <2>2 DEF ReadRow, TypeOK
  <2>4. WellFormed'
    BY <1>2, SameRows, WorkerOnlyStep DEF ReadRow, TypeOK, WellFormed, WorkerWellFormed, IssueSteps, Worker
  <2> QED
    BY <2>3, <2>4
<1>3. CASE OrderPublic
  <2>1. worker' \in Worker
    BY <1>3 DEF OrderPublic, TypeOK, Worker, IssueSteps
  <2>2. TypeOK'
    BY <1>3, <2>1 DEF OrderPublic, TypeOK, WellFormed, WorkerWellFormed
  <2>3. WellFormed'
    BY <1>3, SameRows, WorkerOnlyStep DEF OrderPublic, TypeOK, WellFormed, WorkerWellFormed, IssueSteps, Worker
  <2> QED
    BY <2>2, <2>3
<1>4. CASE SignRenewal
  <2>1. worker' \in Worker
    BY <1>4 DEF SignRenewal, TypeOK, Worker, IssueSteps
  <2>2. TypeOK'
    BY <1>4, <2>1 DEF SignRenewal, TypeOK
  <2>3. WellFormed'
    BY <1>4, SameRows, WorkerOnlyStep DEF SignRenewal, TypeOK, WellFormed, WorkerWellFormed, IssueSteps, Worker
  <2> QED
    BY <2>2, <2>3
<1>5. CASE RecordPublic
  <2> DEFINE new == [profile |-> "public-portal",
                     name |-> PortalHost[row[worker.op].owner],
                     status |-> "active", op |-> worker.op, csr |-> worker.csr]
  <2>1. /\ worker.op \in Ops
        /\ worker.csr \in Requests
        /\ PortalHost[row[worker.op].owner] \in Hosts
    BY <1>5, ConstantsAssumption
    DEF RecordPublic, PublicName, WellFormed, RowsOwned, WorkerWellFormed, IssueSteps
  <2>2. new \in Certificate
    BY <2>1 DEF Certificate
  <2>3. AddCertificate(worker.previous, new)
    BY <1>5 DEF RecordPublic, PublicName
  <2>4. certs' \in Seq(Certificate)
    BY <2>2, <2>3, AddCertificateType DEF TypeOK
  <2>5. Len(certs) \in Nat
    BY DEF TypeOK
  <2>6. worker' \in Worker
    <3> DEFINE n == Len(certs) + 1
    <3>a. n \in Nat
      BY <2>5
    <3>b. "selectRenewal" \in IssueSteps /\ worker \in Worker
      BY DEF IssueSteps, TypeOK
    <3> HIDE DEF n
    <3>1. [worker EXCEPT !.step = "selectRenewal", !.public = n] \in Worker
      BY <3>a, <3>b, WorkerPublic
    <3> USE DEF n
    <3> QED
      BY <1>5, <3>1 DEF RecordPublic
  <2>7. TypeOK'
    BY <1>5, <2>4, <2>6 DEF RecordPublic, TypeOK
  <2>8. WellFormed'
    BY <1>5, SameRows, WorkerOnlyStep DEF RecordPublic, TypeOK, WellFormed, WorkerWellFormed, IssueSteps, Worker
  <2> QED
    BY <2>7, <2>8
<1>6. CASE RecordRenewal
  <2> DEFINE new == [profile |-> "tls-client", name |-> row[worker.op].owner,
                     status |-> "active", op |-> worker.op, csr |-> worker.csr]
  <2>1. /\ worker.op \in Ops
        /\ worker.csr \in Requests
        /\ row[worker.op].owner \in Enrollments
    BY <1>6, ConstantsAssumption
    DEF RecordRenewal, WellFormed, RowsOwned, WorkerWellFormed, IssueSteps
  <2>2. new \in Certificate
    BY <2>1 DEF Certificate
  <2>3. AddCertificate(worker.previous, new)
    BY <1>6 DEF RecordRenewal, RenewalName
  <2>4. certs' \in Seq(Certificate)
    BY <2>2, <2>3, AddCertificateType DEF TypeOK
  <2>5. Len(certs) \in Nat
    BY DEF TypeOK
  <2>6. worker' \in Worker
    <3> DEFINE n == Len(certs) + 1
    <3>a. n \in Nat
      BY <2>5
    <3>b. "complete" \in IssueSteps /\ worker \in Worker
      BY DEF IssueSteps, TypeOK
    <3> HIDE DEF n
    <3>1. [worker EXCEPT !.step = "complete", !.renewal = n] \in Worker
      BY <3>a, <3>b, WorkerRenewal
    <3> USE DEF n
    <3> QED
      BY <1>6, <3>1 DEF RecordRenewal
  <2>7. TypeOK'
    BY <1>6, <2>4, <2>6 DEF RecordRenewal, TypeOK
  <2>8. WellFormed'
    BY <1>6, SameRows, WorkerOnlyStep DEF RecordRenewal, TypeOK, WellFormed, WorkerWellFormed, IssueSteps, Worker
  <2> QED
    BY <2>7, <2>8
<1>7. CASE Complete
  <2> DEFINE op == worker.op
             new == [row[op] EXCEPT !.status = "complete",
                                    !.result = [public |-> worker.public,
                                                renewal |-> worker.renewal]]
  <2>1. op \in Ops /\ row[op].owner \in Enrollments
    BY <1>7 DEF Complete, WellFormed, RowsOwned, WorkerWellFormed
  <2>2. new \in Row /\ new.status # "none" /\ new.owner = row[op].owner
    <3>1. [public |-> worker.public, renewal |-> worker.renewal] \in Result
      BY DEF TypeOK, Worker, Result
    <3>2. row[op] \in Row /\ "complete" \in Statuses
      BY <2>1 DEF TypeOK, Statuses
    <3> QED
      BY <3>1, <3>2, RowAnswered
  <2>3. row' \in [Ops -> Row] /\ RowsKept /\ RowsOwned'
    <3>1. CASE UNCHANGED row
      BY <3>1, SameRows DEF TypeOK
    <3>2. CASE row' = [row EXCEPT ![op] = new]
      BY <2>1, <2>2, <3>2, RowUpdate
    <3> QED
      BY <1>7, <3>1, <3>2 DEF Complete
  <2>4. worker' \in Worker
    BY <1>7 DEF Complete, TypeOK, Worker, IssueSteps
  <2>5. TypeOK'
    BY <1>7, <2>3, <2>4 DEF Complete, TypeOK
  <2>6. WellFormed'
    BY <1>7, <2>3, WorkerOnlyStep
    DEF Complete, TypeOK, WellFormed, WorkerWellFormed, IssueSteps, Worker
  <2> QED
    BY <2>5, <2>6
<1>8. CASE AuditComplete
  <2>1. worker' \in Worker
    BY <1>8 DEF AuditComplete, TypeOK, Worker
  <2>2. TypeOK'
    BY <1>8, <2>1 DEF AuditComplete, TypeOK
  <2>3. WellFormed'
    BY <1>8, SameRows, WorkerOnlyStep DEF AuditComplete, TypeOK, WellFormed, WorkerWellFormed, IssueSteps, Worker
  <2> QED
    BY <2>2, <2>3
<1>9. CASE StepRaises
  <2>1. worker' \in Worker
    BY <1>9 DEF StepRaises, TypeOK, Worker
  <2>2. TypeOK'
    BY <1>9, <2>1 DEF StepRaises, TypeOK
  <2>3. WellFormed'
    BY <1>9, SameRows, WorkerOnlyStep DEF StepRaises, TypeOK, WellFormed, WorkerWellFormed, IssueSteps, Worker
  <2> QED
    BY <2>2, <2>3
<1>10. CASE SaveFailure
  <2> DEFINE op == worker.op
             new == [row[op] EXCEPT !.status = "error"]
  <2>1. op \in Ops /\ row[op].owner \in Enrollments
    BY <1>10 DEF SaveFailure, WellFormed, RowsOwned, WorkerWellFormed
  <2>2. new \in Row /\ new.status # "none" /\ new.owner = row[op].owner
    BY <2>1 DEF TypeOK, Row, Statuses
  <2>3. row' \in [Ops -> Row] /\ RowsKept /\ RowsOwned'
    <3>1. CASE UNCHANGED row
      BY <3>1, SameRows DEF TypeOK
    <3>2. CASE row' = [row EXCEPT ![op] = new]
      BY <2>1, <2>2, <3>2, RowUpdate
    <3> QED
      BY <1>10, <3>1, <3>2 DEF SaveFailure
  <2>4. worker' \in Worker
    BY <1>10 DEF SaveFailure, TypeOK, Worker
  <2>5. TypeOK'
    BY <1>10, <2>3, <2>4 DEF SaveFailure, TypeOK
  <2>6. WellFormed'
    BY <1>10, <2>3, WorkerOnlyStep
    DEF SaveFailure, TypeOK, WellFormed, WorkerWellFormed, IssueSteps, Worker
  <2> QED
    BY <2>5, <2>6
<1>11. CASE LoseFailure
  <2>1. worker' \in Worker
    BY <1>11 DEF LoseFailure, TypeOK, Worker
  <2>2. TypeOK'
    BY <1>11, <2>1, ConstantsAssumption DEF LoseFailure, TypeOK
  <2>3. WellFormed'
    BY <1>11, SameRows, WorkerOnlyStep DEF LoseFailure, TypeOK, WellFormed, WorkerWellFormed, IssueSteps, Worker
  <2> QED
    BY <2>2, <2>3
<1>12. CASE Release
  <2>1. TypeOK'
    BY <1>12, <1>a DEF Release, TypeOK
  <2>2. WellFormed'
    BY <1>12 DEF Release, WellFormed, RowsOwned, ThreadWellFormed, QueueWellFormed,
                 WorkerWellFormed, IdleWorker, IssueSteps
  <2> QED
    BY <2>1, <2>2
<1>13. ASSUME SelectPublic \/ SelectRenewal PROVE TypeInv'
  <2>1. PICK s \in IssueSteps, n \in Nat :
           worker' = [worker EXCEPT !.step = s, !.previous = n]
    <3> DEFINE public == ActiveCertificate("public-portal", PublicName)
               renewal == ActiveCertificate("tls-client", RenewalName)
    <3>1. public \in Nat /\ renewal \in Nat
      BY ActiveCertificateType DEF TypeOK
    <3>2. \/ worker' = [worker EXCEPT !.step = "recordPublic", !.previous = public]
          \/ worker' = [worker EXCEPT !.step = "recordRenewal", !.previous = renewal]
      BY <1>13 DEF SelectPublic, SelectRenewal
    <3>3. "recordPublic" \in IssueSteps /\ "recordRenewal" \in IssueSteps
      BY DEF IssueSteps
    <3> HIDE DEF public, renewal
    <3> QED
      BY <3>1, <3>2, <3>3
  <2>2. worker \in Worker /\ worker.step \in IssueSteps
    BY <1>13 DEF SelectPublic, SelectRenewal, TypeOK, IssueSteps
  <2>3. worker' \in Worker /\ worker'.op = worker.op /\ worker'.csr = worker.csr
    <3> DEFINE new == [worker EXCEPT !.step = s, !.previous = n]
    <3>1. new \in Worker /\ new.op = worker.op /\ new.csr = worker.csr
      BY ONLY <2>2, s \in IssueSteps, n \in Nat DEF Worker, IssueSteps
    <3>2. worker' = new
      BY <2>1
    <3> HIDE DEF new
    <3> QED
      BY <3>1, <3>2
  <2>4. TypeOK'
    BY <1>13, <2>3 DEF SelectPublic, SelectRenewal, TypeOK
  <2>5. worker.step # "idle" /\ worker.csr \in ValidRequests
    BY <2>2 DEF WellFormed, WorkerWellFormed, IssueSteps
  <2>6. WellFormed'
    BY <1>13, <2>3, <2>5, SameRows, WorkerOnlyStep DEF SelectPublic, SelectRenewal
  <2> QED
    BY <2>4, <2>6
<1> QED
  BY <1>1, <1>2, <1>3, <1>4, <1>5, <1>6, <1>7, <1>8, <1>9, <1>10, <1>11, <1>12, <1>13
  DEF WorkerStep

LEMMA TypeStep == TypeInv /\ [Next]_vars => TypeInv'
<1> SUFFICES ASSUME TypeInv, [Next]_vars PROVE TypeInv'
  OBVIOUS
<1> USE IdsAreOps
<1>1. CASE UNCHANGED vars
  <2>1. TypeOK'
    BY <1>1 DEF TypeInv, TypeOK, vars
  <2>2. WellFormed'
    BY <1>1, SameRows, RowsOnlyStep DEF vars
  <2> QED
    BY <2>1, <2>2 DEF TypeInv
<1>2. ASSUME NEW e \in Enrollments, Authorize(e) PROVE TypeInv'
  <2>1. row' \in [Ops -> Row]
    BY <1>2 DEF Authorize, TypeInv, TypeOK, Row, Statuses
  <2>2. TypeOK'
    BY <1>2, <2>1 DEF Authorize, TypeInv, TypeOK
  <2>3. RowsKept /\ RowsOwned'
    BY <1>2 DEF Authorize, TypeInv, TypeOK, Row, WellFormed, RowsKept, RowsOwned
  <2>4. WellFormed'
    BY <1>2, <2>3, RowsOnlyStep DEF Authorize
  <2> QED
    BY <2>2, <2>4 DEF TypeInv
<1>3. ASSUME NEW e \in Enrollments, Lapse(e) PROVE TypeInv'
  <2>1. TypeOK'
    BY <1>3 DEF Lapse, TypeInv, TypeOK
  <2>2. WellFormed'
    BY <1>3, SameRows, RowsOnlyStep DEF Lapse
  <2> QED
    BY <2>1, <2>2 DEF TypeInv
<1>4. ASSUME NEW op \in Ops, Poll(op) PROVE TypeInv'
  <2>1. row[op].owner \in Enrollments /\ row[op].result.renewal \in Nat
    BY <1>4 DEF Poll, TypeInv, TypeOK, WellFormed, RowsOwned, Row, Result
  <2>2. TypeOK'
    BY <1>4, <2>1 DEF Poll, TypeInv, TypeOK
  <2>3. WellFormed'
    BY <1>4, SameRows, RowsOnlyStep DEF Poll
  <2> QED
    BY <2>2, <2>3 DEF TypeInv
<1>5. CASE Restart
  <2>1. IdleThread \in ApiThread /\ IdleWorker \in Worker
    BY DEF IdleThread, ApiThread, NoBody, Body, IdleWorker, Worker
  <2>2. TypeOK'
    BY <1>5, <2>1, ReconciledType, ConstantsAssumption DEF Restart, TypeInv, TypeOK
  <2>3. WellFormed'
    BY <1>5, SameRows
    DEF Restart, WellFormed, ThreadWellFormed, QueueWellFormed, WorkerWellFormed, IdleThread, IdleWorker, RenewSteps, IssueSteps
  <2> QED
    BY <2>2, <2>3 DEF TypeInv
<1>6. ASSUME \/ \E i \in DOMAIN certs : Revoke(i)
             \/ RevokeFails \/ MarkRevoked
      PROVE  TypeInv'
  <2>a. certs \in Seq(Certificate) /\ revoking \in Nat /\ DOMAIN certs \subseteq Nat
    BY DEF TypeInv, TypeOK
  <2>b. revoking' \in Nat
    <3>1. CASE \E i \in DOMAIN certs : Revoke(i)
      <4>1. \E i \in DOMAIN certs : revoking' = i
        BY ONLY <3>1 DEF Revoke
      <4> QED
        BY ONLY <4>1, <2>a
    <3>2. CASE RevokeFails \/ MarkRevoked
      BY ONLY <3>2 DEF RevokeFails, MarkRevoked
    <3> QED
      BY <1>6, <3>1, <3>2
  <2>c. ASSUME MarkRevoked PROVE certs' \in Seq(Certificate)
    <3>1. [certs EXCEPT ![revoking].status = "revoked"] \in Seq(Certificate)
      BY <2>a, MarkedType
    <3> QED
      BY <2>c, <3>1 DEF MarkRevoked
  <2>d. ASSUME ~MarkRevoked PROVE certs' \in Seq(Certificate)
    BY <1>6, <2>a, <2>d DEF Revoke, RevokeFails
  <2>1. certs' \in Seq(Certificate) /\ revoking' \in Nat
    BY <2>a, <2>b, <2>c, <2>d
  <2>2. TypeOK'
    BY <1>6, <2>1 DEF Revoke, RevokeFails, MarkRevoked, TypeInv, TypeOK
  <2>3. WellFormed'
    BY <1>6, SameRows, RowsOnlyStep DEF Revoke, RevokeFails, MarkRevoked
  <2> QED
    BY <2>2, <2>3 DEF TypeInv
<1> QED
  BY <1>1, <1>2, <1>3, <1>4, <1>5, <1>6, DeviceType, HandlerType, WorkerType
  DEF Next, DeviceStep

(* Every behaviour keeps the variables in their types: the statuses, steps *)
(* and positions the code writes are the ones its readers know, a handler  *)
(* thread or job past its first step names an operation, and a job that    *)
(* issues carries certificate requests that passed the check.              *)
THEOREM TypeCorrect == Spec => []TypeOK
<1>1. Spec => []TypeInv
  BY TypeInit, TypeStep, PTL DEF Spec
<1>2. TypeInv => TypeOK
  BY DEF TypeInv
<1> QED
  BY <1>1, <1>2, PTL

-----------------------------------------------------------------------------

(* How the rows' statuses move: only Authorize leaves "none" for           *)
(* "authorized", only an unanswered row becomes pending, owners stay.      *)
Fresh(op) == row[op].status \in {"none", "authorized"}

StatusMoves ==
    \A op \in Ops :
        /\ row'[op].status \in {"none", "authorized"} => Fresh(op)
        /\ row'[op].status = "pending" => Fresh(op) \/ row[op].status = "pending"

(* Only AdmitRenewal makes a renewal pending. *)
RenewalsStay ==
    \A r \in Renewals : row'[r].status = "pending" =>
        row[r].status = "pending" /\ row'[r].owner = row[r].owner

LEMMA NotAdmittingStep ==
    ASSUME TypeInv, [Next]_vars, \A t \in Threads : ~AdmitRenewal(t)
    PROVE  StatusMoves /\ RenewalsStay
<1> USE IdsAreOps, ConstantsAssumption DEF TypeInv, TypeOK, StatusMoves, RenewalsStay, Fresh
<1>a. \A e \in Enrollments : e \notin Renewals
  OBVIOUS
<1>1. CASE UNCHANGED row
  BY <1>1
<1>2. ASSUME NEW e \in Enrollments, Authorize(e) PROVE StatusMoves /\ RenewalsStay
  BY <1>2, <1>a DEF Authorize, Row
<1>3. ASSUME NEW t \in Threads, NEW e \in Enrollments, NEW q \in Requests, Claim(t, e, q)
      PROVE  StatusMoves /\ RenewalsStay
  <2>1. \A op \in Ops : op # e => row'[op] = row[op]
    BY <1>3 DEF Claim
  <2>2. row[e].status = "authorized" /\ e \notin Renewals
    BY <1>3, <1>a DEF Claim
  <2>3. \A op \in Ops : row'[op].status \in {"none", "authorized"} => Fresh(op)
    BY <2>1, <2>2
  <2> QED
    BY <2>1, <2>2, <2>3
<1>4. ASSUME NEW t \in Threads, NEW e \in Enrollments, ClaimLapsed(t, e)
      PROVE  StatusMoves /\ RenewalsStay
  BY <1>4, <1>a DEF ClaimLapsed, Row
<1>5. CASE Complete
  <2> DEFINE op == worker.op
             result == [public |-> worker.public, renewal |-> worker.renewal]
             new == [row[op] EXCEPT !.status = "complete", !.result = result]
  <2>1. op \in Ops
    BY <1>5 DEF Complete, WellFormed, WorkerWellFormed
  <2>2. new.status = "complete"
    <3>1. result \in Result
      BY DEF Worker, Result
    <3>2. row[op] \in Row /\ "complete" \in Statuses
      BY <2>1 DEF Statuses
    <3> HIDE DEF op, result
    <3> QED
      BY ONLY <3>1, <3>2, RowAnswered
  <2> HIDE DEF new
  <2>3. UNCHANGED row \/ row' = [row EXCEPT ![op] = new]
    BY <1>5 DEF Complete, new
  <2> QED
    BY <1>1, <2>1, <2>2, <2>3
<1>6. CASE SaveFailure
  <2>1. worker.op \in Ops
    BY <1>6 DEF SaveFailure, WellFormed, WorkerWellFormed
  <2> QED
    BY <1>6, <2>1 DEF SaveFailure, Row
<1> QED
  BY <1>1, <1>2, <1>3, <1>4, <1>5, <1>6
  DEF Next, DeviceStep, HandlerStep, WorkerStep, vars, Lapse, Poll, Revoke, RevokeFails, MarkRevoked, Reclaim, Renew,
      ReadEnrollment, CheckIdentity, MatchRenewal, RereadRenewal, HandlerFails,
      Schedule, Submit, Take, ReadRow, OrderPublic, SignRenewal, SelectPublic,
      RecordPublic, SelectRenewal, RecordRenewal, AuditComplete, StepRaises, LoseFailure, Release, Restart

(* The transaction admits a renewal or leaves the rows alone. *)
LEMMA AdmittingStep ==
    ASSUME TypeInv, NEW t \in Threads, AdmitRenewal(t)
    PROVE  \/ UNCHANGED row
           \/ /\ api[t].op \in Renewals
              /\ row[api[t].op].status = "none"
              /\ ~RenewalInProgress(api[t].owner)
              /\ row'[api[t].op].status = "pending"
              /\ row'[api[t].op].owner = api[t].owner
              /\ \A op \in Ops \ {api[t].op} : row'[op] = row[op]
<1> DEFINE r == api[t].op
           new == [status |-> "pending", owner |-> api[t].owner,
                   request |-> api[t].request, result |-> NoResult]
<1>1. r \in Renewals /\ r \in Ops
  BY IdsAreOps DEF TypeInv, AdmitRenewal, WellFormed, ThreadWellFormed, RenewSteps
<1>2. new.status = "pending" /\ new.owner = api[t].owner
  OBVIOUS
<1>3. \/ UNCHANGED row
      \/ /\ row[r].status = "none"
         /\ ~RenewalInProgress(api[t].owner)
         /\ row' = [row EXCEPT ![r] = new]
  BY DEF AdmitRenewal
<1> HIDE DEF new
<1> QED
  BY <1>1, <1>2, <1>3 DEF TypeInv, TypeOK

LEMMA OnePendingStep ==
    ASSUME TypeInv, OnePendingRenewal, [Next]_vars
    PROVE  OnePendingRenewal'
<1>1. CASE \A t \in Threads : ~AdmitRenewal(t)
  <2>1. RenewalsStay
    BY <1>1, NotAdmittingStep
  <2> QED
    BY <2>1 DEF RenewalsStay, OnePendingRenewal
<1>2. ASSUME NEW t \in Threads, AdmitRenewal(t) PROVE OnePendingRenewal'
  <2>1. CASE UNCHANGED row
    BY <2>1 DEF OnePendingRenewal
  <2>2. CASE ~UNCHANGED row
    <3>1. \A s \in Renewals : row[s].status = "pending" => row[s].owner # api[t].owner
      BY <1>2, <2>2, AdmittingStep DEF RenewalInProgress
    <3> QED
      BY <1>2, <2>2, <3>1, IdsAreOps, AdmittingStep DEF OnePendingRenewal
  <2> QED
    BY <2>1, <2>2
<1> QED
  BY <1>1, <1>2

(* No interleaving of handler threads, jobs, failures and restarts gives   *)
(* an enrollment a second renewal in progress: the test and the insert of  *)
(* add_device_renewal are one transaction, and no other step makes a       *)
(* renewal pending again.                                                  *)
THEOREM OneRenewalAtATime == Spec => []OnePendingRenewal
<1>1. Init => OnePendingRenewal
  BY IdsAreOps DEF Init, NoRow, OnePendingRenewal
<1>2. Spec => []TypeInv
  BY TypeInit, TypeStep, PTL DEF Spec
<1>3. TypeInv /\ OnePendingRenewal /\ [Next]_vars => OnePendingRenewal'
  BY OnePendingStep
<1> QED
  BY <1>1, <1>2, <1>3, PTL DEF Spec

-----------------------------------------------------------------------------

(* Steps of a job that hold an ordered certificate, or may.                *)
Ordered == {"sign", "selectPublic", "recordPublic", "selectRenewal", "recordRenewal",
            "complete", "fail"}

(* Why a certificate is ordered once per fault: a row nobody claimed has   *)
(* none, and while a row is pending its next certificate is already paid   *)
(* for by a fault, unless the running job holds it.                        *)
IssueInv ==
    /\ IssuedOncePerFault
    /\ \A op \in Ops : Fresh(op) => issued[op] = 0
    /\ \A op \in Ops :
          /\ row[op].status = "pending"
          /\ ~(worker.op = op /\ worker.step \in Ordered)
          => issued[op] <= faults
    /\ worker.step = "order" => ~Fresh(worker.op) /\ issued[worker.op] <= faults

LEMMA IssueInit == Init => IssueInv
<1> SUFFICES ASSUME Init PROVE IssueInv
  OBVIOUS
<1> USE ConstantsAssumption DEF Init
<1>1. \A op \in Ops : row[op].status = "none" /\ issued[op] = 0
  BY DEF NoRow
<1>2. worker.step = "idle" /\ faults = 0
  BY DEF IdleWorker
<1> QED
  BY <1>1, <1>2 DEF IssueInv, IssuedOncePerFault

(* Rows move and the worker does not: no step of a handler, a device, the  *)
(* administrator or the clock disturbs the account.                        *)
LEMMA AccountKept ==
    ASSUME TypeInv, IssueInv, StatusMoves, UNCHANGED <<worker, issued, faults>>
    PROVE  IssueInv'
<1> USE DEF StatusMoves, Fresh
<1>1. \A op \in Ops : issued[op] \in Nat /\ faults \in Nat
  BY ConstantsAssumption DEF TypeInv, TypeOK
<1>2. IssuedOncePerFault'
  BY DEF IssueInv, IssuedOncePerFault
<1>3. \A op \in Ops : Fresh(op)' => issued'[op] = 0
  BY DEF IssueInv
<1>4. \A op \in Ops :
         /\ row'[op].status = "pending"
         /\ ~(worker'.op = op /\ worker'.step \in Ordered)
         => issued'[op] <= faults'
  BY <1>1 DEF IssueInv
<1>5. worker.step = "order" => worker.op \in Ops
  BY DEF TypeInv, WellFormed, WorkerWellFormed
<1>6. worker'.step = "order" => ~Fresh(worker.op)' /\ issued'[worker'.op] <= faults'
  BY <1>5 DEF IssueInv
<1> QED
  BY <1>2, <1>3, <1>4, <1>6 DEF IssueInv

LEMMA IssueWorker ==
    ASSUME TypeInv, IssueInv, StatusMoves, WorkerStep
    PROVE  IssueInv'
<1> USE DEF StatusMoves, Fresh, IssueInv, IssuedOncePerFault
<1>a. /\ \A op \in Ops : issued[op] \in Nat
      /\ faults \in Nat /\ issued \in [Ops -> Nat]
      /\ worker.step # "idle" => worker.op \in Ops
  BY ConstantsAssumption DEF TypeInv, TypeOK, WellFormed, WorkerWellFormed
<1>b. worker \in [step : {"idle", "read", "fail", "release"} \cup IssueSteps,
                  op : Ops \cup {None}, csr : Requests \cup {None},
                  previous : Nat, public : Nat, renewal : Nat]
  BY DEF TypeInv, TypeOK, Worker
<1>c. IdleWorker.step = "idle" /\ IdleWorker.op = None /\ None \notin Ops
  BY ConstantsAssumption DEF IdleWorker
<1>1. CASE Take
  <2>1. worker'.step = "read"
    BY <1>1 DEF Take, IdleWorker
  <2> QED
    BY <1>1, <1>a, <2>1 DEF Take, Ordered
<1>2. CASE ReadRow
  <2>1. /\ worker'.op = worker.op
        /\ worker'.step = "order" => row[worker.op].status = "pending"
    BY <1>2, <1>b DEF ReadRow
  <2>2. worker.step \notin Ordered
    BY <1>2 DEF ReadRow, Ordered
  <2> QED
    BY <1>2, <1>a, <2>1, <2>2 DEF ReadRow
<1>3. CASE OrderPublic
  <2>1. /\ worker'.op = worker.op /\ worker'.step = "sign"
        /\ worker.op \in Ops
        /\ issued'[worker.op] = issued[worker.op] + 1
        /\ \A op \in Ops \ {worker.op} : issued'[op] = issued[op]
    BY <1>3, <1>a, <1>b DEF OrderPublic
  <2> QED
    BY <1>3, <1>a, <2>1 DEF OrderPublic, Ordered
<1>4. CASE \/ SignRenewal \/ SelectPublic \/ RecordPublic \/ SelectRenewal
           \/ RecordRenewal \/ AuditComplete \/ StepRaises
  <2>1. /\ worker'.op = worker.op
        /\ worker'.step \in Ordered \/ worker.step = "audit"
        /\ worker'.step # "order"
        /\ UNCHANGED <<row, issued, faults>>
    BY <1>4, <1>b
    DEF SignRenewal, SelectPublic, RecordPublic, SelectRenewal, RecordRenewal,
        AuditComplete, StepRaises, Ordered
  <2>2. worker.step = "audit" => worker.step \notin Ordered
    BY DEF Ordered
  <2> QED
    BY <1>a, <2>1, <2>2
<1>5. CASE Complete \/ SaveFailure
  <2>1. worker'.op = worker.op /\ worker'.step \in {"audit", "release"}
    BY <1>5, <1>b DEF Complete, SaveFailure
  <2>2. row'[worker.op].status # "pending"
    <3>1. worker.op \in Ops /\ row \in [Ops -> Row]
      BY <1>5, <1>a DEF Complete, SaveFailure, TypeInv, TypeOK
    <3>2. CASE ~MayStore(worker.op)
      BY <1>5, <3>1, <3>2 DEF Complete, SaveFailure, MayStore
    <3>3. CASE SaveFailure /\ MayStore(worker.op)
      BY <3>1, <3>3 DEF SaveFailure, Row
    <3>4. CASE Complete /\ MayStore(worker.op)
      <4> DEFINE result == [public |-> worker.public, renewal |-> worker.renewal]
                 new == [row[worker.op] EXCEPT !.status = "complete", !.result = result]
      <4>1. result \in Result
        BY DEF TypeInv, TypeOK, Worker, Result
      <4>2. row[worker.op] \in Row /\ "complete" \in Statuses
        BY <3>1 DEF Statuses
      <4>3. new.status = "complete"
        <5> HIDE DEF result
        <5> QED
          BY ONLY <4>1, <4>2, RowAnswered
      <4> HIDE DEF new
      <4>4. row' = [row EXCEPT ![worker.op] = new]
        BY <3>4 DEF Complete, new
      <4> QED
        BY <3>1, <4>3, <4>4
    <3> QED
      BY <1>5, <3>2, <3>3, <3>4
  <2>3. UNCHANGED <<issued, faults>>
    BY <1>5 DEF Complete, SaveFailure
  <2> QED
    BY <1>a, <2>1, <2>2, <2>3
<1>6. CASE LoseFailure
  <2>1. /\ faults' = faults + 1 /\ worker'.step = "release"
        /\ UNCHANGED <<row, issued>>
    BY <1>6, <1>b DEF LoseFailure
  <2> QED
    BY <1>a, <2>1
<1>7. CASE Release
  <2>1. worker'.step = "idle" /\ UNCHANGED <<row, issued, faults>>
        /\ worker.step \notin Ordered
    BY <1>7, <1>c DEF Release, Ordered
  <2> QED
    BY <1>a, <2>1
<1> QED
  BY <1>1, <1>2, <1>3, <1>4, <1>5, <1>6, <1>7 DEF WorkerStep

LEMMA IssueStep == TypeInv /\ IssueInv /\ [Next]_vars => IssueInv'
<1> SUFFICES ASSUME TypeInv, IssueInv, [Next]_vars PROVE IssueInv'
  OBVIOUS
<1>1. StatusMoves
  <2>1. CASE \A t \in Threads : ~AdmitRenewal(t)
    BY <2>1, NotAdmittingStep
  <2>2. ASSUME NEW t \in Threads, AdmitRenewal(t) PROVE StatusMoves
    <3>1. CASE UNCHANGED row
      BY <3>1 DEF StatusMoves, Fresh
    <3>2. CASE ~UNCHANGED row
      <4>1. \A op \in Ops : \/ row'[op] = row[op]
                            \/ row'[op].status = "pending" /\ row[op].status = "none"
        BY <2>2, <3>2, AdmittingStep
      <4> QED
        BY <4>1 DEF StatusMoves, Fresh
    <3> QED
      BY <3>1, <3>2
  <2> QED
    BY <2>1, <2>2
<1>2. CASE UNCHANGED <<worker, issued, faults>>
  BY <1>1, <1>2, AccountKept
<1>3. CASE WorkerStep
  BY <1>1, <1>3, IssueWorker
<1>4. CASE Restart
  <2>1. worker'.step = "idle" /\ UNCHANGED <<row, issued>> /\ faults' = faults + 1
    BY <1>4 DEF Restart, IdleWorker
  <2>2. faults \in Nat /\ \A op \in Ops : issued[op] \in Nat
    BY ConstantsAssumption DEF TypeInv, TypeOK
  <2> QED
    BY <2>1, <2>2 DEF IssueInv, IssuedOncePerFault, Fresh
<1> QED
  BY <1>2, <1>3, <1>4
  DEF Next, DeviceStep, HandlerStep, vars, Authorize, Lapse, Poll, Revoke, RevokeFails,
      MarkRevoked, Claim, Reclaim,
      ClaimLapsed, Renew, ReadEnrollment, CheckIdentity, MatchRenewal, AdmitRenewal,
      RereadRenewal, HandlerFails, Schedule, Submit

(* However often devices repeat their requests and however handlers, jobs  *)
(* and restarts interleave, the public CA is asked once for an operation   *)
(* and once more per fault: the status check at the start of a fulfill     *)
(* method is enough, because a job leaves its row pending only by a fault. *)
THEOREM OrderedOncePerFault == Spec => []IssuedOncePerFault
<1>1. Spec => []TypeInv
  BY TypeInit, TypeStep, PTL DEF Spec
<1>2. IssueInv => IssuedOncePerFault
  BY DEF IssueInv
<1> QED
  BY <1>1, <1>2, IssueInit, IssueStep, PTL DEF Spec

=============================================================================
