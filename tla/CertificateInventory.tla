------------------------ MODULE CertificateInventory ------------------------
(***************************************************************************)
(* The certificates table of inventory.db and everybody who writes it.     *)
(*                                                                         *)
(* Handler threads of the web process issue, reissue and revoke; the       *)
(* provisioning worker records the public certificates of devices; the     *)
(* importer reads certificates ACME clients fetched from step-ca's log;    *)
(* and each of the three processes repairs the replacement history when it *)
(* opens the inventory.  The processes share the database file and no lock.*)
(* sqlite3 begins a transaction at the first INSERT or UPDATE, so what a   *)
(* writer has SELECTed before that may be stale when it writes.            *)
(*                                                                         *)
(* "certs" holds every certificate the private CA or the public CA has     *)
(* signed, in the order of their not_before; a certificate is a row of the *)
(* table once its status is no longer "issued".  A certificate's position  *)
(* is its id and serial.                                                   *)
(***************************************************************************)
EXTENDS Integers, Sequences, FiniteSets, FiniteSetsExt

CONSTANTS
    Names,           \* common names; of a private certificate, with its profile
    WebThreads,      \* handler threads of the web process
    Workers,         \* the worker thread of the provisioning listener
    Importers,       \* acme_inventory --stream
    Histories,       \* contents of the table an earlier release may have left
    MaxCerts,        \* bound on certificates
    MaxFaults        \* bound on restarts

Actors == WebThreads \cup Workers \cup Importers

ProcessOf(a) == IF a \in Workers THEN "provisioning"
                ELSE IF a \in Importers THEN "import" ELSE "web"
Processes == {ProcessOf(a) : a \in Actors}

VARIABLES
    certs,        \* certificates signed so far
    task,         \* what each actor is doing
    opening,      \* how far each process is in opening the inventory
    rows,         \* the rows an opening process has read
    faults,       \* restarts so far
    interrupted,  \* history: certificates whose retirement was cut short
    raced         \* history: names recorded with a stale selection

vars == <<certs, task, opening, rows, faults, interrupted, raced>>

(* Private certificates have source "manual", public ones "external-acme" *)
(* (managed by this release or left by an earlier one), imported ones "acme". *)
Kinds == {"private", "public", "legacy-public", "acme"}

Certificate == [kind : Kinds, name : Names,
                status : {"issued", "active", "superseded", "revoked"},
                renewedFrom : Nat, revokedAtCA : BOOLEAN]

Signed(kind, name) ==
    [kind |-> kind, name |-> name, status |-> "issued",
     renewedFrom |-> 0, revokedAtCA |-> FALSE]

(* Certificates that replace one another have one kind and name; to a      *)
(* public one it does not matter which release ordered it.                 *)
Public(c) == c.kind \in {"public", "legacy-public"}
Identity(c) == <<IF Public(c) THEN "public" ELSE c.kind, c.name>>
Recorded(c) == c.status # "issued"

(* The certificate of an identity that was signed last is active, or its   *)
(* issuer has revoked it, or one signed before it was recorded after it    *)
(* and replaced it.                                                        *)
NewestActive(table) ==
    \A i \in DOMAIN table :
        /\ Recorded(table[i])
        /\ \A j \in DOMAIN table :
              j > i => ~Recorded(table[j]) \/ Identity(table[j]) # Identity(table[i])
        => \/ table[i].status = "active" \/ table[i].revokedAtCA
           \/ \E j \in DOMAIN table :
                j < i /\ Recorded(table[j]) /\ table[j].renewedFrom = i

(* A table of an earlier release agrees with the issuers, and what it calls*)
(* replaced is retired, what it does not is not; only one process follows  *)
(* step-ca's log.                                                          *)
ASSUME InventoryAssumption ==
    /\ WebThreads \cap Importers = {}
    /\ \A a, b \in Importers : a = b
    /\ MaxFaults \in Nat
    /\ \A h \in Histories :
         /\ h \in Seq(Certificate)
         /\ NewestActive(h)
         /\ \A i \in DOMAIN h :
              LET old == h[i].renewedFrom
              IN  /\ h[i].status = "revoked" => h[i].revokedAtCA
                  /\ h[i].revokedAtCA => h[i].status \notin {"issued", "active"}
                  /\ old # 0 => /\ old \in DOMAIN h
                                /\ h[old].status \notin {"issued", "active"}

(* new: certificate being recorded; old: certificate being replaced or     *)
(* revoked; into: the status old is to get in the end.                     *)
Steps == {"idle", "select", "write", "insert", "revoke", "mark"}
Task == [step : Steps, new : Nat, old : Nat, into : {"superseded", "revoked"}]
IdleTask == [step |-> "idle", new |-> 0, old |-> 0, into |-> "superseded"]

TypeOK ==
    /\ certs \in Seq(Certificate)
    /\ task \in [Actors -> Task]
    /\ opening \in [Processes -> {"closed", "reading", "open"}]
    /\ \A p \in Processes : \A i \in DOMAIN rows[p] : rows[p][i] \in Certificate
    /\ faults \in 0..MaxFaults
    /\ interrupted \subseteq Nat
    /\ raced \subseteq Names

ActivePublic(name) ==
    {i \in DOMAIN certs : /\ Public(certs[i])
                          /\ certs[i].name = name
                          /\ certs[i].status = "active"}

Duplicated == {n \in Names : Cardinality(ActivePublic(n)) > 1}

Init ==
    /\ certs \in Histories
    /\ task = [a \in Actors |-> IdleTask]
    /\ opening = [p \in Processes |-> "closed"]
    /\ rows = [p \in Processes |-> <<>>]
    /\ faults = 0
    /\ interrupted = {}
    /\ raced = Duplicated

-----------------------------------------------------------------------------
(* Opening the inventory: read the public certificates, then repair.       *)

PublicRows ==
    [i \in {j \in DOMAIN certs : Public(certs[j]) /\ Recorded(certs[j])} |-> certs[i]]

OpenRead(p) ==
    /\ opening[p] = "closed"
    /\ opening' = [opening EXCEPT ![p] = "reading"]
    /\ rows' = [rows EXCEPT ![p] = PublicRows]
    /\ UNCHANGED <<certs, task, faults, interrupted, raced>>

(* The rows of one public name that were read, and the one before i.       *)
ReadRows(p, name) == {i \in DOMAIN rows[p] : rows[p][i].name = name}
Earlier(p, i) == {j \in ReadRows(p, rows[p][i].name) : j < i}

(* Slip: a row is compared with itself.                                    *)
LaterOrSame(p, i) == {j \in ReadRows(p, rows[p][i].name) : j >= i}

Later(p, i) == {j \in ReadRows(p, rows[p][i].name) : j > i}

(* Slip: the repair links the rows and leaves their status.                *)
RepairedLinks(p) ==
    [i \in DOMAIN certs |->
        IF /\ i \in DOMAIN rows[p]
           /\ i \in ReadRows(p, certs[i].name)
           /\ Earlier(p, i) # {} /\ rows[p][i].renewedFrom = 0
        THEN [certs[i] EXCEPT !.renewedFrom = Max(Earlier(p, i))]
        ELSE certs[i]]

(* Slip: every certificate but the last is superseded.                     *)
RepairedAll(p) ==
    [i \in DOMAIN certs |->
        IF i \in DOMAIN rows[p] /\ i \in ReadRows(p, certs[i].name)
        THEN [certs[i] EXCEPT
                !.renewedFrom = IF Earlier(p, i) # {} /\ rows[p][i].renewedFrom = 0
                                THEN Max(Earlier(p, i)) ELSE @,
                !.status = IF Later(p, i) # {} THEN "superseded" ELSE @]
        ELSE certs[i]]

(* What was read decides what is written, whatever the rows are by now.    *)
Repaired(p) ==
    [i \in DOMAIN certs |->
        IF i \in DOMAIN rows[p] /\ i \in ReadRows(p, certs[i].name)
        THEN [certs[i] EXCEPT
                !.renewedFrom = IF Earlier(p, i) # {} /\ rows[p][i].renewedFrom = 0
                                THEN Max(Earlier(p, i)) ELSE @,
                !.status = IF Later(p, i) # {} /\ rows[p][i].status = "active"
                           THEN "superseded" ELSE @]
        ELSE certs[i]]

OpenWrite(p) ==
    /\ opening[p] = "reading"
    /\ certs' = Repaired(p)
    /\ opening' = [opening EXCEPT ![p] = "open"]
    /\ rows' = [rows EXCEPT ![p] = <<>>]
    /\ raced' = IF rows[p] = PublicRows THEN {} ELSE raced
    /\ UNCHANGED <<task, faults, interrupted>>

-----------------------------------------------------------------------------
(* Recording a certificate.                                                *)

Ready(a) == task[a].step = "idle" /\ opening[ProcessOf(a)] = "open"

Sign(kind, name) ==
    /\ Len(certs) < MaxCerts
    /\ certs' = Append(certs, Signed(kind, name))

(* A public certificate is ordered, either for a name or to replace an     *)
(* active one of the same name; the worker orders for a name only.         *)
OrderPublic(a, name, replaces) ==
    /\ Ready(a) /\ a \notin Importers
    /\ replaces # 0 => /\ a \in WebThreads
                       /\ replaces \in ActivePublic(name)
    /\ Sign("public", name)
    /\ task' = [task EXCEPT ![a] =
                  [step |-> "select", new |-> Len(certs) + 1,
                   old |-> replaces, into |-> "superseded"]]
    /\ UNCHANGED <<opening, rows, faults, interrupted, raced>>

(* An ACME client is given a certificate by step-ca itself. *)
AcmeIssue(name) ==
    /\ Sign("acme", name)
    /\ UNCHANGED <<task, opening, rows, faults, interrupted, raced>>

Newest(S) == IF S = {} THEN 0 ELSE Max(S)

(* add_certificate, its SELECT: the certificate named, which must still be *)
(* active, or else the newest active one of the profile and name.          *)
SelectPrevious(a) ==
    LET new == task[a].new
        old == task[a].old
    IN  /\ task[a].step = "select"
        /\ task' = [task EXCEPT ![a] =
              IF old = 0
              THEN [@ EXCEPT !.step = "write", !.old = Newest(ActivePublic(certs[new].name))]
              ELSE IF certs[old].status = "active" THEN [@ EXCEPT !.step = "write"]
              ELSE IdleTask]
        /\ UNCHANGED <<certs, opening, rows, faults, interrupted, raced>>

(* Slip: certificates of every source are matched.                         *)
ActiveOfAnySource(name) ==
    {j \in DOMAIN certs : certs[j].name = name /\ certs[j].status = "active"}

ActiveAcme(name) ==
    {j \in DOMAIN certs : /\ certs[j].kind = "acme"
                          /\ certs[j].name = name
                          /\ certs[j].status = "active"}

(* import_certificate, its SELECTs, for a certificate a client has fetched:*)
(* one that is in the table already is not recorded again.                 *)
SelectImported(a, i) ==
    /\ Ready(a) /\ a \in Importers
    /\ certs[i].kind = "acme"
    /\ ~Recorded(certs[i])
    /\ task' = [task EXCEPT ![a] =
                  [step |-> "write", new |-> i, old |-> Newest(ActiveAcme(certs[i].name)),
                   into |-> "superseded"]]
    /\ UNCHANGED <<certs, opening, rows, faults, interrupted, raced>>

(* Slip: the certificate is recorded and the one it replaces is not marked. *)
WriteOnly(a) ==
    /\ task[a].step = "write"
    /\ certs' = [certs EXCEPT ![task[a].new] =
                   [@ EXCEPT !.status = "active", !.renewedFrom = task[a].old]]
    /\ task' = [task EXCEPT ![a] = IdleTask]
    /\ UNCHANGED <<opening, rows, faults, interrupted, raced>>

(* The transaction of either: insert the new row, supersede the selected.  *)
Write(a) ==
    LET new == task[a].new
        old == task[a].old
        name == certs[new].name
    IN  /\ task[a].step = "write"
        /\ certs' = [i \in DOMAIN certs |->
                IF i = new THEN [certs[i] EXCEPT !.status = "active", !.renewedFrom = old]
                ELSE IF i = old THEN [certs[i] EXCEPT !.status = "superseded"]
                ELSE certs[i]]
        /\ raced' = IF Public(certs[new]) /\ ActivePublic(name) # {old} \ {0}
                    THEN raced \cup {name} ELSE raced
        /\ task' = [task EXCEPT ![a] = IdleTask]
        /\ UNCHANGED <<opening, rows, faults, interrupted>>

-----------------------------------------------------------------------------
(* Private certificates: issue, reissue (the operator may edit the name and*)
(* the profile; renew is a reissue with the old contents), revoke.         *)

Issue(a, name) ==
    /\ Ready(a) /\ a \in WebThreads
    /\ Sign("private", name)
    /\ task' = [task EXCEPT ![a] =
                  [step |-> "insert", new |-> Len(certs) + 1, old |-> 0,
                   into |-> "superseded"]]
    /\ UNCHANGED <<opening, rows, faults, interrupted, raced>>

Reissue(a, i, name) ==
    /\ Ready(a) /\ a \in WebThreads
    /\ certs[i].kind = "private" /\ certs[i].status = "active"
    /\ Sign("private", name)
    /\ task' = [task EXCEPT ![a] =
                  [step |-> "insert", new |-> Len(certs) + 1, old |-> i,
                   into |-> "superseded"]]
    /\ UNCHANGED <<opening, rows, faults, interrupted, raced>>

(* add_certificate without a certificate to supersede, then the export and *)
(* the audit entry.                                                        *)
Insert(a) ==
    LET new == task[a].new
        old == task[a].old
    IN  /\ task[a].step = "insert"
        /\ certs' = [certs EXCEPT ![new] =
                       [@ EXCEPT !.status = "active", !.renewedFrom = old]]
        /\ task' = [task EXCEPT ![a] =
                      IF old = 0 THEN IdleTask ELSE [@ EXCEPT !.step = "revoke"]]
        /\ UNCHANGED <<opening, rows, faults, interrupted, raced>>

(* Slip: the status is set before the CA is asked.                         *)
RevokeMarkedFirst(a, i) ==
    /\ Ready(a) /\ a \in WebThreads
    /\ certs[i].status = "active"
    /\ certs' = [certs EXCEPT ![i] = [@ EXCEPT !.status = "revoked"]]
    /\ task' = [task EXCEPT ![a] =
                  [step |-> "revoke", new |-> 0, old |-> i, into |-> "revoked"]]
    /\ UNCHANGED <<opening, rows, faults, interrupted, raced>>

(* A public certificate of an earlier release is refused.                  *)
Revoke(a, i) ==
    /\ Ready(a) /\ a \in WebThreads
    /\ certs[i].status = "active" /\ certs[i].kind # "legacy-public"
    /\ task' = [task EXCEPT ![a] =
                  [step |-> "revoke", new |-> 0, old |-> i, into |-> "revoked"]]
    /\ UNCHANGED <<certs, opening, rows, faults, interrupted, raced>>

(* The CA revokes a certificate once; asked again it answers with an error.*)
(* Its answer may be lost, or what follows it may fail: Fail.              *)
RevokeAtCA(a) ==
    LET old == task[a].old
    IN  /\ task[a].step = "revoke"
        /\ ~certs[old].revokedAtCA
        /\ certs' = [certs EXCEPT ![old] = [@ EXCEPT !.revokedAtCA = TRUE]]
        /\ task' = [task EXCEPT ![a] = [@ EXCEPT !.step = "mark"]]
        /\ UNCHANGED <<opening, rows, faults, interrupted, raced>>

(* Slip: the status is set on the replacement.                             *)
MarkReplacement(a) ==
    LET it == IF task[a].new # 0 THEN task[a].new ELSE task[a].old
    IN  /\ task[a].step = "mark"
        /\ certs' = [certs EXCEPT ![it] = [@ EXCEPT !.status = task[a].into]]
        /\ task' = [task EXCEPT ![a] = IdleTask]
        /\ UNCHANGED <<opening, rows, faults, interrupted, raced>>

(* set_certificate_status, unconditionally. *)
Mark(a) ==
    LET old == task[a].old
    IN  /\ task[a].step = "mark"
        /\ certs' = [certs EXCEPT ![old] = [@ EXCEPT !.status = task[a].into]]
        /\ task' = [task EXCEPT ![a] = IdleTask]
        /\ UNCHANGED <<opening, rows, faults, interrupted, raced>>

(* The certificate whose replacement an actor has recorded, or which its   *)
(* issuer has revoked, while the actor is still to mark it.                *)
Retiring(a) ==
    IF \/ task[a].step = "mark"
       \/ task[a].step = "revoke" /\ task[a].new # 0
    THEN {task[a].old} ELSE {}

(* Any step raises: the handler reports an error, the importer goes on with *)
(* the next line, and what was done stays done.                             *)
Fail(a) ==
    /\ task[a].step # "idle"
    /\ task' = [task EXCEPT ![a] = IdleTask]
    /\ interrupted' = interrupted \cup Retiring(a)
    /\ UNCHANGED <<certs, opening, rows, faults, raced>>

Restart ==
    /\ faults < MaxFaults
    /\ faults' = faults + 1
    /\ task' = [a \in Actors |-> IdleTask]
    /\ opening' = [p \in Processes |-> "closed"]
    /\ rows' = [p \in Processes |-> <<>>]
    /\ interrupted' = interrupted \cup UNION {Retiring(a) : a \in Actors}
    /\ UNCHANGED <<certs, raced>>

-----------------------------------------------------------------------------

ActorStep(a) ==
    \/ SelectPrevious(a) \/ Write(a) \/ Insert(a)
    \/ RevokeAtCA(a) \/ Mark(a) \/ Fail(a)

Request(a) ==
    \/ \E n \in Names : Issue(a, n) \/ \E i \in {0} \cup DOMAIN certs : OrderPublic(a, n, i)
    \/ \E i \in DOMAIN certs :
          \/ \E n \in Names : Reissue(a, i, n)
          \/ Revoke(a, i) \/ SelectImported(a, i)

Next ==
    \/ \E p \in Processes : OpenRead(p) \/ OpenWrite(p)
    \/ \E a \in Actors : ActorStep(a) \/ Request(a)
    \/ Importers # {} /\ \E n \in Names : AcmeIssue(n)
    \/ Restart

Spec == Init /\ [][Next]_vars

-----------------------------------------------------------------------------
(* Properties.                                                             *)

(* The inventory never calls a certificate revoked that its issuer has not *)
(* revoked, whatever runs, fails or stops between the issuer's answer and  *)
(* the status update (service.py, revoke).                                 *)
RevokedAtItsIssuer ==
    \A i \in DOMAIN certs : certs[i].status = "revoked" => certs[i].revokedAtCA

(* A certificate its issuer has revoked is not shown as active, unless the *)
(* update is still to come or the operation was interrupted before it.     *)
RevocationIsShown ==
    \A i \in DOMAIN certs :
        certs[i].revokedAtCA /\ certs[i].status = "active" =>
            \/ \E a \in Actors : task[a].step = "mark" /\ task[a].old = i
            \/ i \in interrupted

(* A certificate that a recorded one was renewed from is not active any    *)
(* more: at once for public and imported certificates, after its           *)
(* revocation for a reissued one, unless a reissue or revocation of it was *)
(* interrupted after its first effect or is still under way.               *)
ReplacedIsRetired ==
    \A i \in DOMAIN certs :
        LET old == certs[i].renewedFrom
        IN  old # 0 /\ Recorded(certs[i]) /\ certs[old].status = "active" =>
               \/ old \in interrupted
               \/ \E a \in Actors : old \in Retiring(a)

(* Two public certificates of one name are active only after a selection   *)
(* that went stale before its transaction, and only until a process opens  *)
(* the inventory undisturbed.                                              *)
TwoActiveOnlyIfRaced == Duplicated \subseteq raced

(* The certificate of an identity that was signed last stays active until  *)
(* its issuer revokes it, unless the recording of one signed before it was *)
(* overtaken: no repair on stale rows, no late import and no revocation of *)
(* another one leaves an identity with its older certificate or with none  *)
(* (database.py, _reconcile_public_certificate_history, add_certificate).  *)
NewestIsActive == NewestActive(certs)

(* A certificate shown as revoked is shown so for good, unless it was      *)
(* revoked after another process read the table for its repair, or after a *)
(* replacement chose to supersede it (database.py, unconditional UPDATEs). *)
RevokedUnlessStale ==
    [][\A i \in DOMAIN certs :
         certs[i].status = "revoked" /\ certs'[i].status # "revoked" =>
            \/ \E p \in Processes : i \in DOMAIN rows[p] /\ rows[p][i].status = "active"
            \/ \E a \in Actors : task[a].step = "write" /\ task[a].old = i]_vars

(* The recorded certificates, as the lifecycle sees them.                  *)
Table == {i \in DOMAIN certs : Recorded(certs[i])}
IdentityOf == [i \in Table |-> Identity(certs[i])]
StatusOf == [i \in Table |-> certs[i].status]
Reissued == {certs[i].renewedFrom : i \in {j \in Table : certs[j].kind = "private"}} \ {0}

Lifecycle == INSTANCE CertificateLifecycle WITH
    identity <- IdentityOf, status <- StatusOf, reissued <- Reissued

(* The table goes through the lifecycle of certificates, however its three *)
(* writers and their stale reads interleave: a certificate is superseded   *)
(* only when its replacement is in the table, one of its identity or the   *)
(* one an operator asked for (add_certificate, import_certificate, reissue,*)
(* the history repair).                                                    *)
FollowsLifecycle == Lifecycle!Spec

=============================================================================
