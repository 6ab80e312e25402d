-------------------------- MODULE DeviceEnrollment --------------------------
(***************************************************************************)
(* The provisioning listener: enrollment and renewal of IoT-MD devices.    *)
(*                                                                         *)
(* Flask handler threads (provisioning_api.py) claim rows of two SQLite    *)
(* tables (device_enrollments, device_renewals) and put the claimed        *)
(* operation on the queue of a ThreadPoolExecutor with one worker.  The    *)
(* worker (service.py, the two fulfill methods) orders a certificate, has *)
(* the private CA sign the renewal identity, records both certificates,    *)
(* stores the result in the row and audits it.  Every database transaction *)
(* is one step; handlers and worker interleave between them, any step of   *)
(* the worker may raise, and the process may be restarted at any moment.   *)
(*                                                                         *)
(* Both tables are one function "row" over the disjoint ids of the two.    *)
(* A request body is its certificate requests (a member of Requests) and,  *)
(* for a renewal, the identity certificate the device presents and signs   *)
(* with; the bearer or polling token is part of knowing the id.            *)
(***************************************************************************)
EXTENDS Integers, Sequences, FiniteSets, FiniteSetsExt

CONSTANTS
    Enrollments,     \* ids of device_enrollments rows (fresh uuids)
    Renewals,        \* request_ids the devices choose for their renewals
    Hosts,           \* public portal host names
    PortalHost,      \* the host name each enrollment is authorized for
    Requests,        \* certificate request sets a device may send
    ValidRequests,   \* those that pass _enrollment_csr
    Threads,         \* handler threads of the listener
    None,            \* "no operation", "no enrollment", "no request"
    MaxFaults,       \* bound on restarts plus failures that cannot be saved
    MaxRevocations   \* bound on certificates the administrator revokes

Ops == Enrollments \cup Renewals

ASSUME ConstantsAssumption ==
    /\ Enrollments \cap Renewals = {}
    /\ None \notin Ops \cup Requests
    /\ PortalHost \in [Enrollments -> Hosts]
    /\ ValidRequests \subseteq Requests
    /\ MaxFaults \in Nat
    /\ MaxRevocations \in Nat

VARIABLES
    row,       \* the rows of device_enrollments and device_renewals
    lapsed,    \* enrollments whose expires_at lies in the past
    certs,     \* rows of the certificates table, oldest first
    api,       \* what each handler thread is doing
    active,    \* the set "active" of scheduled operations
    queue,     \* the executor's queue
    worker,    \* the executor's only worker thread
    held,      \* renewal identities each enrollment's device has received
    issued,    \* public certificates ordered for each operation
    faults,    \* restarts and unsaved failures so far
    revoking   \* the certificate the administrator is revoking, 0 if none

vars == <<row, lapsed, certs, api, active, queue, worker, held, issued, faults,
          revoking>>

-----------------------------------------------------------------------------
(* Rows, request bodies, certificates, threads.                            *)

Body == [csr : Requests \cup {None}, identity : Nat]
NoBody == [csr |-> None, identity |-> 0]

Result == [public : Nat, renewal : Nat]      \* positions in certs
NoResult == [public |-> 0, renewal |-> 0]

Statuses == {"none", "authorized", "pending", "complete", "error", "expired"}
Row == [status : Statuses, owner : Enrollments \cup {None},
        request : Body, result : Result]
NoRow == [status |-> "none", owner |-> None,
          request |-> NoBody, result |-> NoResult]

Certificate == [profile : {"public-portal", "tls-client"},
                name : Hosts \cup Enrollments,
                status : {"active", "superseded", "revoked"},
                op : Ops, csr : Requests]

RenewSteps == {"enrollment", "identity", "admit", "reread"}
ApiThread == [step : {"idle", "schedule", "submit"} \cup RenewSteps,
              op : Ops \cup {None},
              owner : Enrollments \cup {None}, request : Body]
IdleThread == [step |-> "idle", op |-> None, owner |-> None,
               request |-> NoBody]

IssueSteps == {"order", "sign", "selectPublic", "recordPublic",
               "selectRenewal", "recordRenewal", "complete", "audit"}
Worker == [step : {"idle", "read", "fail", "release"} \cup IssueSteps,
           op : Ops \cup {None}, csr : Requests \cup {None},
           previous : Nat, public : Nat, renewal : Nat]
IdleWorker == [step |-> "idle", op |-> None, csr |-> None,
               previous |-> 0, public |-> 0, renewal |-> 0]

TypeOK ==
    /\ row \in [Ops -> Row]
    /\ lapsed \subseteq Enrollments
    /\ certs \in Seq(Certificate)
    /\ api \in [Threads -> ApiThread]
    /\ active \subseteq Ops
    /\ queue \in Seq(Ops)
    /\ worker \in Worker
    /\ held \in [Enrollments -> SUBSET Nat]
    /\ issued \in [Ops -> Nat]
    /\ faults \in 0..MaxFaults
    /\ revoking \in Nat

Init ==
    /\ row = [op \in Ops |-> NoRow]
    /\ lapsed = {}
    /\ certs = <<>>
    /\ api = [t \in Threads |-> IdleThread]
    /\ active = {}
    /\ queue = <<>>
    /\ worker = IdleWorker
    /\ held = [e \in Enrollments |-> {}]
    /\ issued = [op \in Ops |-> 0]
    /\ faults = 0
    /\ revoking = 0

-----------------------------------------------------------------------------
(* The certificates table.                                                 *)

ActiveCerts(profile, name) ==
    {i \in DOMAIN certs : /\ certs[i].profile = profile
                          /\ certs[i].name = name
                          /\ certs[i].status = "active"}

(* The newest active certificate of an identity, 0 if there is none. *)
ActiveCertificate(profile, name) ==
    IF ActiveCerts(profile, name) = {} THEN 0
    ELSE Max(ActiveCerts(profile, name))

(* Slip: the insert forgets the certificate it replaces. *)
AddCertificateOnly(previous, new) == certs' = Append(certs, new)

(* Insert a certificate and supersede the one that was selected before,    *)
(* whatever has become of it meanwhile.                                    *)
AddCertificate(previous, new) ==
    certs' = Append([i \in DOMAIN certs |->
                        IF i = previous
                        THEN [certs[i] EXCEPT !.status = "superseded"]
                        ELSE certs[i]], new)

(* Slip: the oldest certificate of a host name is the one that is kept.    *)
ReconciledToOldest ==
    [i \in DOMAIN certs |->
        IF /\ certs[i].profile = "public-portal"
           /\ \E j \in DOMAIN certs : /\ j < i
                                      /\ certs[j].profile = "public-portal"
                                      /\ certs[j].name = certs[i].name
        THEN [certs[i] EXCEPT !.status = "superseded"]
        ELSE certs[i]]

(* Opening the inventory leaves only the newest public certificate of a    *)
(* host name active.                                                       *)
Reconciled ==
    [i \in DOMAIN certs |->
        IF /\ certs[i].profile = "public-portal"
           /\ certs[i].status = "active"
           /\ \E j \in DOMAIN certs : /\ j > i
                                      /\ certs[j].profile = "public-portal"
                                      /\ certs[j].name = certs[i].name
        THEN [certs[i] EXCEPT !.status = "superseded"]
        ELSE certs[i]]

-----------------------------------------------------------------------------
(* The administrator, the clock and the device.                            *)

Authorize(e) ==
    /\ row[e].status = "none"
    /\ row' = [row EXCEPT ![e] = [@ EXCEPT !.status = "authorized", !.owner = e]]
    /\ UNCHANGED <<lapsed, certs, api, active, queue, worker, held, issued, faults, revoking>>

Lapse(e) ==
    /\ row[e].status # "none"
    /\ e \notin lapsed
    /\ lapsed' = lapsed \cup {e}
    /\ UNCHANGED <<row, certs, api, active, queue, worker, held, issued, faults, revoking>>

(* The device polls an operation and receives its certificates, once they  *)
(* have been stored; a later status does not withhold them.                *)
Poll(op) ==
    /\ row[op].status # "none"
    /\ row[op].result # NoResult
    /\ held' = [held EXCEPT ![row[op].owner] = @ \cup {row[op].result.renewal}]
    /\ UNCHANGED <<row, lapsed, certs, api, active, queue, worker, issued, faults, revoking>>

(* The administrator revokes an active renewal identity: the private CA    *)
(* revokes it, or that fails, and then its row is marked, whatever has     *)
(* become of it meanwhile.                                                 *)
Revoke(i) ==
    /\ revoking = 0
    /\ Cardinality({j \in DOMAIN certs : certs[j].status = "revoked"}) < MaxRevocations
    /\ certs[i].profile = "tls-client"
    /\ certs[i].status = "active"
    /\ revoking' = i
    /\ UNCHANGED <<row, lapsed, certs, api, active, queue, worker, held, issued, faults>>

RevokeFails ==
    /\ revoking # 0
    /\ revoking' = 0
    /\ UNCHANGED <<row, lapsed, certs, api, active, queue, worker, held, issued, faults>>

MarkRevoked ==
    /\ revoking # 0
    /\ certs' = [certs EXCEPT ![revoking].status = "revoked"]
    /\ revoking' = 0
    /\ UNCHANGED <<row, lapsed, api, active, queue, worker, held, issued, faults>>

-----------------------------------------------------------------------------
(* POST /v1/enrollments/<id>: one transaction, then schedule.              *)

Proceed(t, step) == api' = [api EXCEPT ![t].step = step]
Finish(t) == api' = [api EXCEPT ![t] = IdleThread]

(* First claim of an authorization. *)
Claim(t, e, q) ==
    /\ api[t].step = "idle"
    /\ row[e].status = "authorized"
    /\ e \notin lapsed
    /\ row' = [row EXCEPT ![e] =
                  [@ EXCEPT !.status = "pending",
                            !.request = [csr |-> q, identity |-> 0]]]
    /\ api' = [api EXCEPT ![t] = [@ EXCEPT !.step = "schedule", !.op = e]]
    /\ UNCHANGED <<lapsed, certs, active, queue, worker, held, issued, faults, revoking>>

(* Slip: a repeated claim stores its own body, whatever was claimed first. *)
ReclaimAnyBody(t, e, q) ==
    /\ api[t].step = "idle"
    /\ row[e].status = "pending"
    /\ e \notin lapsed
    /\ row' = [row EXCEPT ![e].request = [csr |-> q, identity |-> 0]]
    /\ api' = [api EXCEPT ![t] = [@ EXCEPT !.step = "schedule", !.op = e]]
    /\ UNCHANGED <<lapsed, certs, active, queue, worker, held, issued, faults, revoking>>

(* The same body again; any other body of a claimed enrollment is refused  *)
(* and changes nothing, as is a repeat once the row is not pending.        *)
Reclaim(t, e, q) ==
    /\ api[t].step = "idle"
    /\ row[e].status = "pending"
    /\ e \notin lapsed
    /\ row[e].request = [csr |-> q, identity |-> 0]
    /\ api' = [api EXCEPT ![t] = [@ EXCEPT !.step = "schedule", !.op = e]]
    /\ UNCHANGED <<row, lapsed, certs, active, queue, worker, held, issued, faults, revoking>>

(* Past expires_at every claim marks the row expired, whatever its status. *)
ClaimLapsed(t, e) ==
    /\ api[t].step = "idle"
    /\ row[e].status # "none"
    /\ e \in lapsed
    /\ row' = [row EXCEPT ![e].status = "expired"]
    /\ UNCHANGED <<lapsed, certs, api, active, queue, worker, held, issued, faults, revoking>>

-----------------------------------------------------------------------------
(* POST /v1/renewals/<enrollment>: look up the request id; a new one needs *)
(* a complete enrollment and its active identity; then one transaction     *)
(* admits or matches the row, a new row is read back, then schedule.       *)

Renew(t, r, e, body) ==
    /\ api[t].step = "idle"
    /\ row[e].status # "none"
    /\ api' = [api EXCEPT ![t] =
                  [step |-> IF row[r].status = "none" THEN "enrollment" ELSE "admit",
                   op |-> r, owner |-> e, request |-> body]]
    /\ UNCHANGED <<row, lapsed, certs, active, queue, worker, held, issued, faults, revoking>>

ReadEnrollment(t) ==
    /\ api[t].step = "enrollment"
    /\ IF row[api[t].owner].status = "complete"
       THEN Proceed(t, "identity")
       ELSE Finish(t)
    /\ UNCHANGED <<row, lapsed, certs, active, queue, worker, held, issued, faults, revoking>>

(* Slip: the newest identity is compared, whatever its status. *)
CheckNewestIdentity(t) ==
    LET own == {i \in DOMAIN certs : /\ certs[i].profile = "tls-client"
                                     /\ certs[i].name = api[t].owner}
    IN  /\ api[t].step = "identity"
        /\ IF /\ own # {}
              /\ api[t].request.identity = Max(own)
              /\ api[t].request.csr \in ValidRequests
           THEN Proceed(t, "admit")
           ELSE Finish(t)
        /\ UNCHANGED <<row, lapsed, certs, active, queue, worker, held, issued, faults, revoking>>

CheckIdentity(t) ==
    /\ api[t].step = "identity"
    /\ IF /\ ActiveCerts("tls-client", api[t].owner) # {}
          /\ api[t].request.identity = ActiveCertificate("tls-client", api[t].owner)
          /\ api[t].request.csr \in ValidRequests
       THEN Proceed(t, "admit")
       ELSE Finish(t)
    /\ UNCHANGED <<row, lapsed, certs, active, queue, worker, held, issued, faults, revoking>>

(* Another renewal of the enrollment is still pending. *)
RenewalInProgress(e) ==
    \E r \in Renewals : row[r].owner = e /\ row[r].status = "pending"

(* The request id is known: the body must be the one it was admitted with. *)
MatchRenewal(t) ==
    LET r == api[t].op
    IN  /\ api[t].step = "admit"
        /\ row[r].status # "none"
        /\ IF /\ row[r].owner = api[t].owner
              /\ row[r].request = api[t].request
              /\ row[r].status = "pending"
           THEN Proceed(t, "schedule")
           ELSE Finish(t)
        /\ UNCHANGED <<row, lapsed, certs, active, queue, worker, held, issued, faults, revoking>>

(* Slip: the pending check is missing from the transaction. *)
AdmitUnchecked(t) ==
    LET r == api[t].op
    IN  /\ api[t].step = "admit"
        /\ row[r].status = "none"
        /\ row' = [row EXCEPT ![r] =
                      [status |-> "pending", owner |-> api[t].owner,
                       request |-> api[t].request, result |-> NoResult]]
        /\ Proceed(t, "reread")
        /\ UNCHANGED <<lapsed, certs, active, queue, worker, held, issued, faults, revoking>>

AdmitRenewal(t) ==
    LET r == api[t].op
    IN  /\ api[t].step = "admit"
        /\ row[r].status = "none"
        /\ IF RenewalInProgress(api[t].owner)
           THEN Finish(t) /\ UNCHANGED row
           ELSE /\ row' = [row EXCEPT ![r] =
                              [status |-> "pending", owner |-> api[t].owner,
                               request |-> api[t].request, result |-> NoResult]]
                /\ Proceed(t, "reread")
        /\ UNCHANGED <<lapsed, certs, active, queue, worker, held, issued, faults, revoking>>

RereadRenewal(t) ==
    /\ api[t].step = "reread"
    /\ IF row[api[t].op].status = "pending"
       THEN Proceed(t, "schedule")
       ELSE Finish(t)
    /\ UNCHANGED <<row, lapsed, certs, active, queue, worker, held, issued, faults, revoking>>

(* A read or the admitting transaction raises (a busy database): error 500. *)
HandlerFails(t) ==
    /\ api[t].step \in RenewSteps
    /\ Finish(t)
    /\ UNCHANGED <<row, lapsed, certs, active, queue, worker, held, issued, faults, revoking>>

-----------------------------------------------------------------------------
(* schedule / schedule_renewal: test and add under active_lock, then hand  *)
(* the job to the executor.                                                *)

(* Slip: the operation is added without asking whether it is there. *)
ScheduleAlways(t) ==
    /\ api[t].step = "schedule"
    /\ active' = active \cup {api[t].op}
    /\ Proceed(t, "submit")
    /\ UNCHANGED <<row, lapsed, certs, queue, worker, held, issued, faults, revoking>>

Schedule(t) ==
    LET op == api[t].op
    IN  /\ api[t].step = "schedule"
        /\ IF op \in active
           THEN Finish(t) /\ UNCHANGED active
           ELSE active' = active \cup {op} /\ Proceed(t, "submit")
        /\ UNCHANGED <<row, lapsed, certs, queue, worker, held, issued, faults, revoking>>

Submit(t) ==
    /\ api[t].step = "submit"
    /\ queue' = Append(queue, api[t].op)
    /\ Finish(t)
    /\ UNCHANGED <<row, lapsed, certs, active, worker, held, issued, faults, revoking>>

-----------------------------------------------------------------------------
(* The worker: fulfill_device_enrollment / fulfill_device_renewal.         *)

Take ==
    /\ worker.step = "idle"
    /\ queue # <<>>
    /\ worker' = [IdleWorker EXCEPT !.step = "read", !.op = Head(queue)]
    /\ queue' = Tail(queue)
    /\ UNCHANGED <<row, lapsed, certs, api, active, held, issued, faults, revoking>>

(* Slip: the job trusts that it was scheduled for a pending row. *)
ReadAnyRow ==
    LET csr == row[worker.op].request.csr
    IN  /\ worker.step = "read"
        /\ worker' = [worker EXCEPT !.csr = csr,
                         !.step = IF csr \in ValidRequests THEN "order" ELSE "fail"]
        /\ UNCHANGED <<row, lapsed, certs, api, active, queue, held, issued, faults, revoking>>

(* Only a pending row is worked on; its certificate requests are checked.  *)
ReadRow ==
    LET csr == row[worker.op].request.csr
    IN  /\ worker.step = "read"
        /\ worker' =
              IF row[worker.op].status # "pending"
              THEN [worker EXCEPT !.step = "release"]
              ELSE [worker EXCEPT !.csr = csr,
                       !.step = IF csr \in ValidRequests THEN "order" ELSE "fail"]
        /\ UNCHANGED <<row, lapsed, certs, api, active, queue, held, issued, faults, revoking>>

(* external_acme.issue_csr returns a public certificate. *)
OrderPublic ==
    /\ worker.step = "order"
    /\ issued' = [issued EXCEPT ![worker.op] = @ + 1]
    /\ worker' = [worker EXCEPT !.step = "sign"]
    /\ UNCHANGED <<row, lapsed, certs, api, active, queue, held, faults, revoking>>

(* engine.sign returns the renewal identity. *)
SignRenewal ==
    /\ worker.step = "sign"
    /\ worker' = [worker EXCEPT !.step = "selectPublic"]
    /\ UNCHANGED <<row, lapsed, certs, api, active, queue, held, issued, faults, revoking>>

(* What the job's two certificates are issued for. *)
PublicName == PortalHost[row[worker.op].owner]
RenewalName == row[worker.op].owner

(* add_certificate selects the certificate to replace before its           *)
(* transaction begins.                                                     *)
SelectPublic ==
    /\ worker.step = "selectPublic"
    /\ worker' = [worker EXCEPT !.step = "recordPublic",
                     !.previous = ActiveCertificate("public-portal", PublicName)]
    /\ UNCHANGED <<row, lapsed, certs, api, active, queue, held, issued, faults, revoking>>

RecordPublic ==
    /\ worker.step = "recordPublic"
    /\ AddCertificate(worker.previous,
          [profile |-> "public-portal", name |-> PublicName,
           status |-> "active", op |-> worker.op, csr |-> worker.csr])
    /\ worker' = [worker EXCEPT !.step = "selectRenewal",
                                !.public = Len(certs) + 1]
    /\ UNCHANGED <<row, lapsed, api, active, queue, held, issued, faults, revoking>>

SelectRenewal ==
    /\ worker.step = "selectRenewal"
    /\ worker' = [worker EXCEPT !.step = "recordRenewal",
                     !.previous = ActiveCertificate("tls-client", RenewalName)]
    /\ UNCHANGED <<row, lapsed, certs, api, active, queue, held, issued, faults, revoking>>

(* Slip: the result names the certificate before the one just recorded. *)
RecordRenewalBehind ==
    /\ worker.step = "recordRenewal"
    /\ AddCertificate(worker.previous,
          [profile |-> "tls-client", name |-> RenewalName,
           status |-> "active", op |-> worker.op, csr |-> worker.csr])
    /\ worker' = [worker EXCEPT !.step = "complete", !.renewal = Len(certs)]
    /\ UNCHANGED <<row, lapsed, api, active, queue, held, issued, faults, revoking>>

RecordRenewal ==
    /\ worker.step = "recordRenewal"
    /\ AddCertificate(worker.previous,
          [profile |-> "tls-client", name |-> RenewalName,
           status |-> "active", op |-> worker.op, csr |-> worker.csr])
    /\ worker' = [worker EXCEPT !.step = "complete",
                                !.renewal = Len(certs) + 1]
    /\ UNCHANGED <<row, lapsed, api, active, queue, held, issued, faults, revoking>>

(* Slip: enrollments are stored unconditionally, like renewals. *)
MayAlwaysStore(op) == op \in Ops

(* complete_device_enrollment updates a pending row only,                  *)
(* complete_device_renewal any row; fail_device_* likewise.                *)
MayStore(op) == op \in Renewals \/ row[op].status = "pending"

Complete ==
    LET op == worker.op
    IN  /\ worker.step = "complete"
        /\ row' = IF MayStore(op)
                  THEN [row EXCEPT ![op] =
                          [@ EXCEPT !.status = "complete",
                                    !.result = [public |-> worker.public,
                                                renewal |-> worker.renewal]]]
                  ELSE row
        /\ worker' = [worker EXCEPT !.step = "audit"]
        /\ UNCHANGED <<lapsed, certs, api, active, queue, held, issued, faults, revoking>>

AuditComplete ==
    /\ worker.step = "audit"
    /\ worker' = [worker EXCEPT !.step = "release"]
    /\ UNCHANGED <<row, lapsed, certs, api, active, queue, held, issued, faults, revoking>>

(* Any step inside the try block raises instead. *)
StepRaises ==
    /\ worker.step \in IssueSteps
    /\ worker' = [worker EXCEPT !.step = "fail"]
    /\ UNCHANGED <<row, lapsed, certs, api, active, queue, held, issued, faults, revoking>>

SaveFailure ==
    LET op == worker.op
    IN  /\ worker.step = "fail"
        /\ row' = IF MayStore(op) THEN [row EXCEPT ![op].status = "error"] ELSE row
        /\ worker' = [worker EXCEPT !.step = "release"]
        /\ UNCHANGED <<lapsed, certs, api, active, queue, held, issued, faults, revoking>>

(* The first reads raise, before the try, or the update of its except      *)
(* block does: the row keeps its status.                                   *)
LoseFailure ==
    /\ worker.step \in {"read", "fail"}
    /\ faults < MaxFaults
    /\ faults' = faults + 1
    /\ worker' = [worker EXCEPT !.step = "release"]
    /\ UNCHANGED <<row, lapsed, certs, api, active, queue, held, issued, revoking>>

(* Slip: the operation stays in the active set. *)
ReleaseWorkerOnly ==
    /\ worker.step = "release"
    /\ worker' = IdleWorker
    /\ UNCHANGED <<row, lapsed, certs, api, active, queue, held, issued, faults, revoking>>

(* finally: active.discard(...) *)
Release ==
    /\ worker.step = "release"
    /\ active' = active \ {worker.op}
    /\ worker' = IdleWorker
    /\ UNCHANGED <<row, lapsed, certs, api, queue, held, issued, faults, revoking>>

-----------------------------------------------------------------------------
(* The container stops (run.sh leaves when any of its processes does) and  *)
(* starts again: threads, queue and the active set are gone, nothing is    *)
(* rescheduled, and opening the inventory reconciles it.                   *)

Restart ==
    /\ faults < MaxFaults
    /\ faults' = faults + 1
    /\ api' = [t \in Threads |-> IdleThread]
    /\ active' = {}
    /\ queue' = <<>>
    /\ worker' = IdleWorker
    /\ certs' = Reconciled
    /\ revoking' = 0
    /\ UNCHANGED <<row, lapsed, held, issued>>

-----------------------------------------------------------------------------

HandlerStep(t) ==
    \/ ReadEnrollment(t) \/ CheckIdentity(t)
    \/ MatchRenewal(t) \/ AdmitRenewal(t) \/ RereadRenewal(t) \/ HandlerFails(t)
    \/ Schedule(t) \/ Submit(t)

WorkerStep ==
    \/ Take \/ ReadRow \/ OrderPublic \/ SignRenewal
    \/ SelectPublic \/ RecordPublic \/ SelectRenewal \/ RecordRenewal
    \/ Complete \/ AuditComplete
    \/ StepRaises \/ SaveFailure \/ LoseFailure \/ Release

(* A device presents a renewal identity that it or another device received. *)
Bodies == [csr : Requests, identity : UNION {held[e] : e \in Enrollments}]

DeviceStep ==
    \/ \E op \in Ops : Poll(op)
    \/ \E t \in Threads, e \in Enrollments :
          \/ \E q \in Requests : Claim(t, e, q) \/ Reclaim(t, e, q)
          \/ ClaimLapsed(t, e)
          \/ \E r \in Renewals, body \in Bodies : Renew(t, r, e, body)

Next ==
    \/ \E e \in Enrollments : Authorize(e) \/ Lapse(e)
    \/ (\E i \in DOMAIN certs : Revoke(i)) \/ RevokeFails \/ MarkRevoked
    \/ DeviceStep
    \/ \E t \in Threads : HandlerStep(t)
    \/ WorkerStep
    \/ Restart

(* Handler threads and the worker keep running; nothing obliges the device, *)
(* the administrator, the clock or a failure.                               *)
Fairness == WF_vars(WorkerStep) /\ \A t \in Threads : WF_vars(HandlerStep(t))

Spec == Init /\ [][Next]_vars
FairSpec == Spec /\ Fairness

-----------------------------------------------------------------------------
(* Properties.                                                             *)

(* Every existing row belongs to an enrollment; a thread or job past its   *)
(* first step names an operation, which has a row once it is admitted.     *)
RowsOwned == \A op \in Ops : row[op].status # "none" => row[op].owner \in Enrollments

ThreadWellFormed(t) ==
    /\ api[t].step \in RenewSteps => api[t].op \in Renewals /\ api[t].owner \in Enrollments
    /\ api[t].step \in {"reread", "schedule", "submit"} =>
          api[t].op \in Ops /\ row[api[t].op].status # "none"

QueueWellFormed == \A i \in DOMAIN queue : row[queue[i]].status # "none"

WorkerWellFormed ==
    /\ worker.step # "idle" => worker.op \in Ops /\ row[worker.op].status # "none"
    /\ worker.step \in IssueSteps => worker.csr \in ValidRequests

WellFormed ==
    /\ RowsOwned
    /\ \A t \in Threads : ThreadWellFormed(t)
    /\ QueueWellFormed
    /\ WorkerWellFormed

Submitting(t, op) == api[t].step = "submit" /\ api[t].op = op
Queued(op) == \E i \in DOMAIN queue : queue[i] = op

(* The active set holds exactly the operations that are being submitted,   *)
(* queued or worked on, each in one place only: no operation is ever       *)
(* worked on twice at a time and none stays in the set without a job       *)
(* behind it (provisioning_api.py, schedule and run).                      *)
SingleFlight ==
    /\ \A op \in Ops :
          op \in active <=> \/ \E t \in Threads : Submitting(t, op)
                           \/ Queued(op)
                           \/ worker.op = op
    /\ \A op \in Ops, t \in Threads :
          Submitting(t, op) =>
             /\ ~Queued(op)
             /\ worker.op # op
             /\ \A u \in Threads \ {t} : ~Submitting(u, op)
    /\ \A i, j \in DOMAIN queue : queue[i] = queue[j] => i = j
    /\ worker.op # None => ~Queued(worker.op)

(* However often a device repeats a request, one public certificate is     *)
(* ordered for it, and at most one more for each restart or failure that   *)
(* could not be saved (both fulfill methods re-check the status).         *)
IssuedOncePerFault == \A op \in Ops : issued[op] <= 1 + faults

(* An enrollment never has two renewals in progress (BEGIN IMMEDIATE and   *)
(* the pending check of add_device_renewal).                               *)
OnePendingRenewal ==
    \A r, s \in Renewals :
        /\ row[r].status = "pending"
        /\ row[s].status = "pending"
        /\ row[r].owner = row[s].owner
        => r = s

(* The certificates of a complete row are recorded in the inventory, were  *)
(* issued for that operation from the certificate requests it was claimed  *)
(* with, and carry the identities its enrollment authorizes.               *)
AnswersItsRequest ==
    \A op \in Ops : row[op].status = "complete" =>
        LET Answers(i, profile, name) ==
              /\ i \in DOMAIN certs
              /\ certs[i].profile = profile
              /\ certs[i].name = name
              /\ certs[i].op = op
              /\ certs[i].csr = row[op].request.csr
        IN  /\ Answers(row[op].result.public, "public-portal", PortalHost[row[op].owner])
            /\ Answers(row[op].result.renewal, "tls-client", row[op].owner)

(* The listener never leaves two active certificates for one identity,     *)
(* over any number of enrollments and renewals of one host, failures and   *)
(* restarts (add_certificate with supersede_matching).                     *)
OneActivePerIdentity ==
    \A i, j \in DOMAIN certs :
        /\ certs[i].status = "active"
        /\ certs[j].status = "active"
        /\ certs[i].profile = certs[j].profile
        /\ certs[i].name = certs[j].name
        => i = j

(* A renewal failed after its new identity had been recorded. *)
LostRotation(e) ==
    \E r \in Renewals :
        /\ row[r].owner = e
        /\ row[r].status = "error"
        /\ certs[ActiveCertificate("tls-client", e)].op = r

(* The administrator has revoked a renewal identity of the enrollment. *)
IdentityRevoked(e) ==
    \E i \in DOMAIN certs : /\ certs[i].profile = "tls-client"
                            /\ certs[i].name = e
                            /\ certs[i].status = "revoked"

(* A device whose enrollment is complete can always renew again, unless    *)
(* its identity has been revoked: the active renewal identity is the       *)
(* result of a complete operation it can poll, or a renewal is pending     *)
(* that a repeated request will finish.  The exception is a renewal that   *)
(* failed after recording its new identity.                                *)
RenewalPathOpen ==
    \A e \in Enrollments : row[e].status = "complete" =>
        LET c == ActiveCertificate("tls-client", e)
        IN  /\ c = 0 => IdentityRevoked(e)
            /\ c # 0 => \/ \E op \in Ops : /\ row[op].owner = e
                                          /\ row[op].status = "complete"
                                          /\ row[op].result.renewal = c
                        \/ RenewalInProgress(e)
                        \/ LostRotation(e)

(* A renewal that presents identity i has been admitted, or passed the     *)
(* check and is about to be.                                               *)
RenewingWith(i) ==
    \/ \E r \in Renewals : row[r].status = "pending" /\ row[r].request.identity = i
    \/ \E t \in Threads : /\ api[t].step = "admit"
                          /\ api[t].request.identity = i
                          /\ row[api[t].op].status = "none"

Retired(i) == certs[i].status # "active" /\ ~RenewingWith(i)

(* Once an identity is revoked, or superseded, and no renewal is under way *)
(* that was let in with it, it is out of use for good: no repetition, race *)
(* of handlers, failure or restart renews with it again, not even when a   *)
(* job writes "superseded" over the revocation of the certificate it had   *)
(* selected (claim_device_renewal, add_certificate).                       *)
RevocationEndsRenewals ==
    [][\A i \in DOMAIN certs : Retired(i) => Retired(i)']_vars

(* web.py, after revoking: "Existing copies remain valid until expiry, but *)
(* cannot renew."  No renewal completes whose identity shows as revoked.   *)
RevokedCannotRenew ==
    [][\A r \in Renewals :
          row[r].status # "complete" /\ row'[r].status = "complete" =>
             certs[row[r].request.identity].status # "revoked"]_vars

(* What the listener promises each device, as a specification of its own.  *)
(* The answer to an operation is what its delivered identity certifies.    *)
Protocol == INSTANCE EnrollmentProtocol WITH
    status  <- [op \in Ops |-> row[op].status],
    owner   <- [op \in Ops |-> row[op].owner],
    request <- [op \in Ops |-> row[op].request.csr],
    answer  <- [op \in Ops |-> IF row[op].result.renewal = 0 THEN None
                               ELSE certs[row[op].result.renewal].csr]

(* The listener implements that promise (refinement). *)
ImplementsProtocol == Protocol!Spec

IdentityOf == [i \in DOMAIN certs |-> <<certs[i].profile, certs[i].name>>]
StatusOf == [i \in DOMAIN certs |-> certs[i].status]

Lifecycle == INSTANCE CertificateLifecycle WITH
    identity <- IdentityOf, status <- StatusOf, reissued <- {}

(* What the worker, the administrator and a restart do to the table of     *)
(* certificates is the lifecycle that the inventory promises as well: they *)
(* write one table (database.py).                                          *)
FollowsLifecycle == Lifecycle!Spec

(* A device that repeats its request while the operation is pending. *)
Repeat(op) ==
    \E t \in Threads :
        \/ /\ op \in Enrollments
           /\ row[op].status = "pending"
           /\ ClaimLapsed(t, op) \/ \E q \in Requests : Reclaim(t, op, q)
        \/ /\ op \in Renewals
           /\ row[op].status = "pending"
           /\ Renew(t, op, row[op].owner, row[op].request)

(* A device that repeats its request until it has an answer, and a         *)
(* database that does not refuse every repetition of a renewal.            *)
Persistence(op) ==
    /\ SF_vars(Repeat(op))
    /\ \A t \in Threads :
         SF_vars(/\ op \in Renewals
                 /\ api[t].op = op /\ api[t].request = row[op].request
                 /\ MatchRenewal(t))

(* With a persistent device every claimed operation is decided, restarts   *)
(* and unsaved failures notwithstanding, whatever the other devices do:    *)
(* nothing is ever stuck in pending.                                       *)
PendingIsDecided ==
    \A op \in Ops :
        Persistence(op) => (row[op].status = "pending" ~> row[op].status # "pending")

(* DOCS.md: "The private renewal credential later authorizes rotating      *)
(* these two identities".  A device holding the active renewal identity    *)
(* has an enrollment that accepts it.                                      *)
CredentialKeepsAuthorizing ==
    \A e \in Enrollments :
        ActiveCertificate("tls-client", e) \in held[e] => row[e].status = "complete"

=============================================================================
