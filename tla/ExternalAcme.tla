---------------------------- MODULE ExternalAcme ----------------------------
(***************************************************************************)
(* Public certificates ordered through lego: the account an order uses,    *)
(* its recovery when the CA no longer knows it, and revocation.            *)
(*                                                                         *)
(* lego keeps a directory for each account. An order runs lego; if the CA  *)
(* answers that the account does not exist, the directory is moved away,   *)
(* a new account registered under the same id, and the order retried       *)
(* once. Threads of the web process and the worker of the listener do      *)
(* this at the same time on the same directories, without a lock.          *)
(*                                                                         *)
(* An account is an id on a server. Certificates of one account key are    *)
(* alike: certs keeps one of each.                                         *)
(***************************************************************************)
EXTENDS Integers, FiniteSets

CONSTANTS
    Accounts,    \* accounts of the public CA
    Legacy,      \* those of which an earlier release left a directory
    Settings,    \* what the administrator configures: accounts or None
    Web,         \* threads of the web process, which order and revoke
    Workers,     \* the worker of the listener, which orders
    None,        \* issuance is not enabled
    MaxFaults    \* bound on restarts, forgotten keys and failed registrations

Threads == Web \cup Workers

ASSUME ExternalAcmeAssumption ==
    /\ None \notin Accounts
    /\ Legacy \subseteq Accounts
    /\ IsFiniteSet(Legacy)
    /\ Settings \subseteq Accounts \cup {None}
    /\ MaxFaults \in Nat

VARIABLES
    config,    \* the account that the settings name, or None
    dir,       \* lego's directory of each account
    keys,      \* number of account keys created so far, which are 1..keys
    known,     \* keys that the CA recognises
    certs,     \* certificates delivered and not revoked: account and its key
    task,      \* what each thread is doing
    faults,    \* faults so far
    raced      \* history: keys moved away in place of the one an order failed with

vars == <<config, dir, keys, known, certs, task, faults, raced>>

(* A directory without a registration is what a failed recovery leaves. *)
NoDirectory == [state |-> "none"]
Directory == {NoDirectory} \cup [state : {"orphan", "registered"}, key : 1..keys]
Certificate == [account : Accounts, key : 1..keys]

Idle == [step |-> "idle"]
OrderTask == [step : {"run", "answer", "quarantine", "register"},
              account : Accounts, key : 0..keys, again : BOOLEAN]
RevokeTask == [step : {"revoke"}, cert : Certificate,
               left : SUBSET Accounts, excused : BOOLEAN]

(* Directories, certificates and tasks name keys that exist, and an order  *)
(* is under way for an account only.                                       *)
TypeOK ==
    /\ config \in Accounts \cup {None}
    /\ keys \in Nat
    /\ dir \in [Accounts -> Directory]
    /\ known \subseteq 1..keys
    /\ certs \subseteq Certificate
    /\ task \in [Threads -> {Idle} \cup OrderTask \cup RevokeTask]
    /\ faults \in 0..MaxFaults
    /\ raced \subseteq 1..keys

(* _registered_accounts *)
Registered == {a \in Accounts : dir[a].state = "registered"}

(* Directories outlive restarts and upgrades of the add-on: at first there *)
(* are legacy accounts that have issued certificates, and keys that failed *)
(* recoveries have left.                                                   *)
Init ==
    /\ config = None
    /\ keys = Cardinality(Legacy)
    /\ dir \in [Accounts -> Directory]
    /\ \A a \in Accounts : dir[a] = NoDirectory <=> a \notin Legacy
    /\ \A a, b \in Legacy : dir[a].key = dir[b].key => a = b
    /\ known = {dir[a].key : a \in Registered}
    /\ certs = {[account |-> a, key |-> dir[a].key] : a \in Registered}
    /\ task = [t \in Threads |-> Idle]
    /\ faults = 0
    /\ raced = {}

(* The CA accepts what lego signs with the directory of this account. *)
Usable(a) == a \in Registered /\ dir[a].key \in known

(* The account that issued this certificate can still sign for it. *)
Retained(c) == Usable(c.account) /\ dir[c.account].key = c.key

At(t, step) == task[t].step = step
Move(t, step) == task' = [task EXCEPT ![t].step = step]
Finish(t) == task' = [task EXCEPT ![t] = Idle]
Fault == faults < MaxFaults /\ faults' = faults + 1

(* lego creates a key for an account and registers it with the CA. *)
NewAccount(a) ==
    /\ keys' = keys + 1
    /\ known' = known \cup {keys + 1}
    /\ dir' = [dir EXCEPT ![a] = [state |-> "registered", key |-> keys + 1]]

(* The same, but the registration is refused or lost: the key stays.       *)
NewOrphan(a) ==
    /\ keys' = keys + 1
    /\ dir' = [dir EXCEPT ![a] = [state |-> "orphan", key |-> keys + 1]]
    /\ UNCHANGED known

-----------------------------------------------------------------------------
(* The administrator, and the CA.                                          *)

(* Settings are saved: another email or server, or issuance off. *)
Configure(a) ==
    /\ config' = a
    /\ UNCHANGED <<dir, keys, known, certs, task, faults, raced>>

(* The CA loses or deactivates an account. *)
Forget(k) ==
    /\ k \in known
    /\ Fault
    /\ known' = known \ {k}
    /\ UNCHANGED <<config, dir, keys, certs, task, raced>>

-----------------------------------------------------------------------------
(* An order: _issue.                                                       *)

(* The account is chosen from the settings of this moment. *)
Order(t) ==
    /\ At(t, "idle")
    /\ config # None
    /\ task' = [task EXCEPT ![t] =
            [step |-> "run", account |-> config, key |-> 0, again |-> FALSE]]
    /\ UNCHANGED <<config, dir, keys, known, certs, faults, raced>>

(* lego starts: it loads the account's key, or creates the account. Races  *)
(* of two lego processes within this step are not modelled.                *)
Run(t) ==
    LET a == task[t].account
    IN /\ At(t, "run")
       /\ IF dir[a] = NoDirectory THEN NewAccount(a) ELSE UNCHANGED <<dir, keys, known>>
       /\ task' = [task EXCEPT ![t].step = "answer", ![t].key = dir'[a].key]
       /\ UNCHANGED <<config, certs, faults, raced>>

RunFails(t) ==
    LET a == task[t].account
    IN /\ At(t, "run")
       /\ dir[a] = NoDirectory
       /\ Fault
       /\ NewOrphan(a)
       /\ Finish(t)
       /\ UNCHANGED <<config, certs, raced>>

(* The certificate arrives and is kept with the account that issued it. *)
Deliver(t) ==
    /\ At(t, "answer")
    /\ task[t].key \in known
    /\ certs' = certs \cup {[account |-> task[t].account, key |-> task[t].key]}
    /\ Finish(t)
    /\ UNCHANGED <<config, dir, keys, known, faults, raced>>

(* Slip: any failure of lego is taken for a missing account. *)
MissingAny(t) ==
    /\ At(t, "answer")
    /\ IF task[t].again THEN Finish(t) ELSE Move(t, "quarantine")
    /\ UNCHANGED <<config, dir, keys, known, certs, faults, raced>>

(* lego fails with accountDoesNotExist. *)
Missing(t) ==
    /\ At(t, "answer")
    /\ task[t].key \notin known
    /\ IF task[t].again THEN Finish(t) ELSE Move(t, "quarantine")
    /\ UNCHANGED <<config, dir, keys, known, certs, faults, raced>>

(* Slip: only a directory with a registration is moved away. *)
QuarantineRegistered(t) ==
    LET a == task[t].account
    IN /\ At(t, "quarantine")
       /\ IF a \in Registered
          THEN /\ dir' = [dir EXCEPT ![a] = NoDirectory]
               /\ raced' = raced \cup ({dir[a].key} \ {task[t].key})
          ELSE UNCHANGED <<dir, raced>>
       /\ task' = [task EXCEPT ![t].step = "register", ![t].key = 0]
       /\ UNCHANGED <<config, keys, known, certs, faults>>

(* The account's directory, as it is now, is moved to invalid-accounts. *)
Quarantine(t) ==
    LET a == task[t].account
    IN /\ At(t, "quarantine")
       /\ IF dir[a] # NoDirectory
          THEN /\ dir' = [dir EXCEPT ![a] = NoDirectory]
               /\ raced' = raced \cup ({dir[a].key} \ {task[t].key})
          ELSE UNCHANGED <<dir, raced>>
       /\ task' = [task EXCEPT ![t].step = "register", ![t].key = 0]
       /\ UNCHANGED <<config, keys, known, certs, faults>>

(* lego registers the account, or finds it registered already, and the     *)
(* order is tried once more.                                               *)
Register(t) ==
    LET a == task[t].account
    IN /\ At(t, "register")
       /\ \/ dir[a] = NoDirectory /\ NewAccount(a)
          \/ Usable(a) /\ UNCHANGED <<dir, keys, known>>
       /\ task' = [task EXCEPT ![t].step = "run", ![t].again = TRUE]
       /\ UNCHANGED <<config, certs, faults, raced>>

(* lego finds a key that the CA does not know. *)
RegisterUnknown(t) ==
    LET a == task[t].account
    IN /\ At(t, "register")
       /\ dir[a] # NoDirectory
       /\ ~Usable(a)
       /\ Finish(t)
       /\ UNCHANGED <<config, dir, keys, known, certs, faults, raced>>

RegistrationFails(t) ==
    LET a == task[t].account
    IN /\ At(t, "register")
       /\ dir[a] = NoDirectory
       /\ Fault
       /\ NewOrphan(a)
       /\ Finish(t)
       /\ UNCHANGED <<config, certs, raced>>

(* A timeout, another failure of lego, or an error of the file system ends *)
(* the order.                                                              *)
Fail(t) ==
    /\ task[t] \in OrderTask
    /\ Finish(t)
    /\ UNCHANGED <<config, dir, keys, known, certs, faults, raced>>

-----------------------------------------------------------------------------
(* Revocation: revoke. The code tries the retained and the configured      *)
(* account first; here any order is possible.                              *)

(* Slip: only the configured account is tried. *)
RevokeConfigured(t, c) ==
    /\ At(t, "idle")
    /\ c \in certs
    /\ Registered # {}
    /\ task' = [task EXCEPT ![t] =
            [step |-> "revoke", cert |-> c, left |-> Registered \cap {config},
             excused |-> FALSE]]
    /\ UNCHANGED <<config, dir, keys, known, certs, faults, raced>>

Revoke(t, c) ==
    /\ At(t, "idle")
    /\ c \in certs
    /\ Registered # {}
    /\ task' = [task EXCEPT ![t] =
            [step |-> "revoke", cert |-> c, left |-> Registered, excused |-> FALSE]]
    /\ UNCHANGED <<config, dir, keys, known, certs, faults, raced>>

(* Only the account that issued a certificate may revoke it, and once. An  *)
(* attempt on a certificate revoked by another thread excuses the failure. *)
TryRevoke(t, a) ==
    LET c == task[t].cert
    IN /\ At(t, "revoke")
       /\ a \in task[t].left
       /\ IF a = c.account /\ c \in certs /\ Retained(c)
          THEN certs' = certs \ {c} /\ Finish(t)
          ELSE /\ task' = [task EXCEPT ![t].left = @ \ {a},
                                       ![t].excused = @ \/ c \notin certs]
               /\ UNCHANGED certs
       /\ UNCHANGED <<config, dir, keys, known, faults, raced>>

(* lego ends with any error, or not in time: the next account is tried.    *)
AttemptFails(t, a) ==
    /\ At(t, "revoke")
    /\ a \in task[t].left
    /\ task' = [task EXCEPT ![t].left = @ \ {a}, ![t].excused = TRUE]
    /\ UNCHANGED <<config, dir, keys, known, certs, faults, raced>>

Refuse(t) ==
    /\ At(t, "revoke")
    /\ task[t].left = {}
    /\ Finish(t)
    /\ UNCHANGED <<config, dir, keys, known, certs, faults, raced>>

-----------------------------------------------------------------------------
Restart ==
    /\ Fault
    /\ task' = [t \in Threads |-> Idle]
    /\ UNCHANGED <<config, dir, keys, known, certs, raced>>

Step(t) ==
    \/ Run(t) \/ RunFails(t) \/ Deliver(t) \/ Missing(t) \/ Quarantine(t)
    \/ Register(t) \/ RegisterUnknown(t) \/ RegistrationFails(t) \/ Fail(t)
    \/ \E a \in Accounts : TryRevoke(t, a) \/ AttemptFails(t, a)
    \/ Refuse(t)

Next ==
    \/ \E a \in Settings : Configure(a)
    \/ \E k \in known : Forget(k)
    \/ \E t \in Threads : Order(t) \/ Step(t)
    \/ \E t \in Web, c \in certs : Revoke(t, c)
    \/ Restart

(* Threads finish what they begin; orders come again, and neither the file *)
(* system nor the CA fails each of them at the same step for ever.         *)
Fairness ==
    /\ \A t \in Threads : WF_vars(Step(t))
    /\ SF_vars(\E t \in Threads : Order(t))
    /\ SF_vars(\E t \in Threads : Run(t))
    /\ SF_vars(\E t \in Threads : Missing(t))
    /\ SF_vars(\E t \in Threads : Quarantine(t))
    /\ SF_vars(\E t \in Threads : Register(t))

Spec == Init /\ [][Next]_vars
FairSpec == Spec /\ Fairness

-----------------------------------------------------------------------------
(* A delivered certificate can be revoked as long as the CA knows the      *)
(* account that issued it: recovery never moves that account away, unless  *)
(* another order has put it there since this one failed.                   *)
IssuerIsRetained ==
    \A c \in certs : c.key \in known => Retained(c) \/ c.key \in raced

(* revoke gives up only when the account that issued the certificate is    *)
(* gone, an attempt failed for another reason (an error of lego or of the  *)
(* network, a timeout), or another thread was first; the account that the  *)
(* settings name by now makes no difference.                               *)
RevocationFindsIssuer ==
    [][\A t \in Threads : Refuse(t) =>
          \/ task[t].excused
          \/ ~Retained(task[t].cert)]_vars

(* However an account was lost, and whatever earlier recoveries left       *)
(* behind, repeated orders end with an account that the CA accepts.        *)
AccountRecovers ==
    \A a \in Accounts : <>[](config = a) => <>[]Usable(a)

(* Recovery retires an account that the CA does not recognise, and no      *)
(* other. Not so when two orders fail with the same account.               *)
QuarantinesOnlyStale == raced \cap known = {}

=============================================================================
