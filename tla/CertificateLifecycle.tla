------------------------ MODULE CertificateLifecycle ------------------------
(***************************************************************************)
(* What the inventory promises about a recorded certificate, whoever       *)
(* writes the table: it is recorded once and active then, it keeps its     *)
(* identity, and it is never active again once it is not.  It is           *)
(* superseded by the recording of a certificate of the same identity, or   *)
(* afterwards because one signed later has been recorded, or because an    *)
(* operator reissued it, under whatever identity.  There are no processes, *)
(* stale reads, issuers or restarts here.                                  *)
(*                                                                         *)
(* Certificates are numbered in the order in which they were signed; the   *)
(* order in which they are recorded may be another.                        *)
(***************************************************************************)
EXTENDS Integers

VARIABLES
    identity,   \* what each recorded certificate was issued for
    status,     \* and its status
    reissued    \* recorded certificates an operator has had reissued

vars == <<identity, status, reissued>>

Init ==
    /\ DOMAIN identity = DOMAIN status
    /\ \A i \in DOMAIN status : status[i] \in {"active", "superseded", "revoked"}
    /\ reissued \subseteq DOMAIN status

(* Certificate i is recorded and supersedes old, if old is not 0.          *)
Add(i, who, old) ==
    /\ identity' = [j \in DOMAIN status \cup {i} |-> IF j = i THEN who ELSE identity[j]]
    /\ status' = [j \in DOMAIN status \cup {i} |->
                     IF j = i THEN "active" ELSE IF j = old THEN "superseded" ELSE status[j]]

(* By itself a certificate supersedes one of its own identity only.        *)
Record(i, who, old) ==
    /\ old # 0 => identity[old] = who
    /\ Add(i, who, old)
    /\ UNCHANGED reissued

(* The operator may edit the identity; what was reissued stays active until*)
(* it is revoked.                                                          *)
Reissue(i, who, old) ==
    /\ Add(i, who, 0)
    /\ reissued' = reissued \cup {old}

(* Certificates that have been overtaken or reissued; or one is revoked.   *)
Supersede(S) ==
    /\ \A i \in S :
         \/ i \in reissued
         \/ \E j \in DOMAIN status : j > i /\ identity[j] = identity[i]
    /\ status' = [i \in DOMAIN status |-> IF i \in S THEN "superseded" ELSE status[i]]
    /\ UNCHANGED <<identity, reissued>>

Revoke(i) ==
    /\ status' = [status EXCEPT ![i] = "revoked"]
    /\ UNCHANGED <<identity, reissued>>

Next ==
    \/ \E i \in DOMAIN status' \ DOMAIN status :
          \/ \E old \in DOMAIN status \cup {0} : Record(i, identity'[i], old)
          \/ \E old \in DOMAIN status : Reissue(i, identity'[i], old)
    \/ \E S \in SUBSET DOMAIN status : Supersede(S)
    \/ \E i \in DOMAIN status : Revoke(i)

Spec == Init /\ [][Next]_vars

(* What is recorded stays recorded, as what it was, and a certificate that *)
(* is superseded or revoked is never active again.                         *)
OneWay ==
    [][\A i \in DOMAIN status :
         /\ i \in DOMAIN status' /\ identity'[i] = identity[i]
         /\ status[i] # "active" => status'[i] # "active"]_vars

=============================================================================
