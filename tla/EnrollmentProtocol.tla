------------------------- MODULE EnrollmentProtocol -------------------------
(***************************************************************************)
(* What the provisioning listener promises a device about one operation:   *)
(* an enrollment that is authorized and not past its expiry accepts one    *)
(* set of certificate requests; a renewal is accepted for an enrollment    *)
(* that has been answered, one at a time; an accepted operation is         *)
(* answered for exactly the requests it accepted or refused.  There is no  *)
(* queue, worker, thread or restart here.                                  *)
(***************************************************************************)
CONSTANTS Enrollments, Renewals, Requests, None

VARIABLES status, owner, request, answer, lapsed

vars == <<status, owner, request, answer, lapsed>>

Ops == Enrollments \cup Renewals

Init ==
    /\ status = [op \in Ops |-> "none"]
    /\ owner = [op \in Ops |-> None]
    /\ request = [op \in Ops |-> None]
    /\ answer = [op \in Ops |-> None]
    /\ lapsed = {}

Offer(e) ==
    /\ status[e] = "none"
    /\ status' = [status EXCEPT ![e] = "authorized"]
    /\ owner' = [owner EXCEPT ![e] = e]
    /\ UNCHANGED <<request, answer, lapsed>>

Expire(e) ==
    /\ lapsed' = lapsed \cup {e}
    /\ UNCHANGED <<status, owner, request, answer>>

AcceptEnrollment(e, q) ==
    /\ status[e] = "authorized"
    /\ e \notin lapsed
    /\ status' = [status EXCEPT ![e] = "pending"]
    /\ request' = [request EXCEPT ![e] = q]
    /\ UNCHANGED <<owner, answer, lapsed>>

AcceptRenewal(r, e, q) ==
    /\ status[r] = "none"
    /\ answer[e] # None
    /\ \A s \in Renewals : owner[s] = e => status[s] # "pending"
    /\ status' = [status EXCEPT ![r] = "pending"]
    /\ owner' = [owner EXCEPT ![r] = e]
    /\ request' = [request EXCEPT ![r] = q]
    /\ UNCHANGED <<answer, lapsed>>

Answer(op) ==
    /\ status[op] = "pending"
    /\ status' = [status EXCEPT ![op] = "complete"]
    /\ answer' = [answer EXCEPT ![op] = request[op]]
    /\ UNCHANGED <<owner, request, lapsed>>

(* Bookkeeping that fails after the answer still reports an error. *)
Refuse(op) ==
    /\ status[op] \in {"pending", "complete"}
    /\ status' = [status EXCEPT ![op] = "error"]
    /\ UNCHANGED <<owner, request, answer, lapsed>>

Withdraw(e) ==
    /\ status[e] # "none"
    /\ e \in lapsed
    /\ status' = [status EXCEPT ![e] = "expired"]
    /\ UNCHANGED <<owner, request, answer, lapsed>>

Next ==
    \/ \E e \in Enrollments :
          \/ Offer(e) \/ Expire(e) \/ Withdraw(e)
          \/ \E q \in Requests : AcceptEnrollment(e, q)
          \/ \E r \in Renewals, q \in Requests : AcceptRenewal(r, e, q)
    \/ \E op \in Ops : Answer(op) \/ Refuse(op)

Spec == Init /\ [][Next]_vars

=============================================================================
