------------------------- MODULE ExternalAcme_proofs ------------------------
(***************************************************************************)
(* Theorems about ExternalAcme for every value of its constants.           *)
(***************************************************************************)
EXTENDS ExternalAcme, FiniteSetTheorems, TLAPS

(* The account holds this key, and can sign with it. *)
Holds(a, k) == a \in Registered /\ dir[a].key = k
Signs(a, k) == Holds(a, k) /\ k \in known

(* A key that the CA recognises is with its account, or was lost in a race. *)
Safe(a, k) == k \in known => Holds(a, k) \/ k \in raced

(* An order waits for an answer under a safe key, and recovers from an     *)
(* unknown one; a revocation has its issuer before it, unless that is gone *)
(* or the attempt excused.                                                 *)
ThreadInv(t) ==
    /\ At(t, "answer") => task[t].key \in 1..keys /\ Safe(task[t].account, task[t].key)
    /\ At(t, "quarantine") => task[t].key \notin known
    /\ At(t, "revoke") =>
          \/ task[t].excused
          \/ ~Signs(task[t].cert.account, task[t].cert.key)
          \/ task[t].cert.account \in task[t].left

OrphansUnknown == \A a \in Accounts : dir[a].state = "orphan" => dir[a].key \notin known

CertsSafe == \A c \in certs : Safe(c.account, c.key)

(* The inductive invariant. *)
IInv == TypeOK /\ OrphansUnknown /\ CertsSafe /\ \A t \in Threads : ThreadInv(t)

(* What each step does to keys: none is reused, none is recognised again,  *)
(* no account gets an earlier key back, and safe keys stay safe.           *)
KeysKept ==
    /\ keys' \in Nat /\ keys' >= keys
    /\ known' \subseteq known \cup {keys + 1}
    /\ \A a \in Accounts, k \in 1..keys : Safe(a, k) => Safe(a, k)'
    /\ \A a \in Accounts, k \in 1..keys : Signs(a, k)' => Signs(a, k)

-----------------------------------------------------------------------------
LEMMA DirectoryState ==
    ASSUME TypeOK, NEW a \in Accounts
    PROVE  \/ dir[a] = NoDirectory /\ dir[a].state = "none"
           \/ /\ dir[a].state \in {"orphan", "registered"} /\ dir[a].key \in 1..keys
              /\ dir[a] # NoDirectory
<1>1. dir[a] \in Directory
  BY DEF TypeOK
<1>2. CASE dir[a] = NoDirectory
  BY <1>2 DEF NoDirectory
<1>3. CASE dir[a] \in [state : {"orphan", "registered"}, key : 1..keys]
  BY <1>3 DEF NoDirectory
<1> QED
  BY <1>1, <1>2, <1>3 DEF Directory

LEMMA OrderFields ==
    ASSUME TypeOK, NEW t \in Threads,
           task[t].step \in {"run", "answer", "quarantine", "register"}
    PROVE  task[t] \in OrderTask
  BY DEF TypeOK, Idle, OrderTask, RevokeTask

LEMMA RevokeFields ==
    ASSUME TypeOK, NEW t \in Threads, task[t].step = "revoke"
    PROVE  task[t] \in RevokeTask
  BY DEF TypeOK, Idle, OrderTask, RevokeTask

LEMMA OrderMoved ==
    ASSUME NEW r \in OrderTask, NEW s \in {"run", "answer", "quarantine", "register"}, NEW k
    PROVE  [r EXCEPT !.step = s, !.key = k] =
               [step |-> s, account |-> r.account, key |-> k, again |-> r.again]
<1> DEFINE first == [r EXCEPT !.step = s]
<1>1. first = [step |-> s, account |-> r.account, key |-> r.key, again |-> r.again]
  BY DEF OrderTask
<1> HIDE DEF first
<1>2. [first EXCEPT !.key = k] =
         [step |-> s, account |-> r.account, key |-> k, again |-> r.again]
  BY <1>1
<1> QED
  BY <1>2 DEF first

(* More keys leave what has been typed before typed. *)
LEMMA TypesGrow ==
    ASSUME TypeOK, keys' \in Nat, keys' >= keys
    PROVE  /\ Directory \subseteq Directory'
           /\ Certificate \subseteq Certificate'
           /\ OrderTask \subseteq OrderTask'
           /\ RevokeTask \subseteq RevokeTask'
           /\ 1..keys \subseteq 1..keys'
<1>1. keys \in Nat /\ 1..keys \subseteq 1..keys' /\ 0..keys \subseteq 0..keys'
  BY DEF TypeOK
<1>2. Directory \subseteq Directory' /\ Certificate \subseteq Certificate'
  BY <1>1 DEF Directory, Certificate
<1>3. OrderTask \subseteq OrderTask'
  BY <1>1 DEF OrderTask
<1>4. RevokeTask \subseteq RevokeTask'
  BY <1>2 DEF RevokeTask
<1> QED
  BY <1>1, <1>2, <1>3, <1>4

-----------------------------------------------------------------------------
(* What the steps do to the keys. *)

LEMMA KeysUnchanged ==
    ASSUME IInv, UNCHANGED <<dir, keys, known, raced>>
    PROVE  KeysKept /\ OrphansUnknown'
  BY DEF IInv, TypeOK, KeysKept, Safe, Signs, Holds, Registered, OrphansUnknown

LEMMA KeyForgotten ==
    ASSUME IInv, NEW k \in known, known' = known \ {k}, UNCHANGED <<dir, keys, raced>>
    PROVE  KeysKept /\ OrphansUnknown'
  BY DEF IInv, TypeOK, KeysKept, Safe, Signs, Holds, Registered, OrphansUnknown

LEMMA KeyCreated ==
    ASSUME IInv, NEW a \in Accounts, dir[a] = NoDirectory,
           NewAccount(a) \/ NewOrphan(a), UNCHANGED raced
    PROVE  /\ KeysKept /\ OrphansUnknown'
           /\ keys' = keys + 1
           /\ dir' \in [Accounts -> Directory']
           /\ known' \subseteq 1..keys'
           /\ NewAccount(a) => dir'[a].state = "registered"
           /\ dir'[a].key = keys'
<1>1. TypeOK /\ keys \in Nat /\ keys' = keys + 1
  BY DEF IInv, TypeOK, NewAccount, NewOrphan
<1>2. PICK s \in {"orphan", "registered"} :
         /\ dir' = [dir EXCEPT ![a] = [state |-> s, key |-> keys + 1]]
         /\ s = "registered" => known' = known \cup {keys + 1}
         /\ s = "orphan" => known' = known
         /\ NewAccount(a) => s = "registered"
  BY DEF NewAccount, NewOrphan
<1>3. dir \in [Accounts -> Directory] /\ known \subseteq 1..keys
  BY <1>1 DEF TypeOK
<1>4. [state |-> s, key |-> keys + 1] \in Directory'
  BY <1>1 DEF Directory
<1>5. Directory \subseteq Directory'
  BY <1>1, TypesGrow
<1>6. dir' \in [Accounts -> Directory']
  BY <1>2, <1>3, <1>4, <1>5
<1>7. \A b \in Accounts : b # a => dir'[b] = dir[b]
  BY <1>2, <1>3
<1>8. dir'[a].state = s /\ dir'[a].key = keys + 1
  BY <1>2, <1>3
<1>9. known' \subseteq known \cup {keys + 1} /\ known \subseteq known'
  BY <1>2
<1>10. dir[a].state = "none"
  BY DEF NoDirectory
<1>11. \A b \in Accounts, k \in 1..keys : Holds(b, k)' <=> Holds(b, k)
  BY <1>1, <1>7, <1>8, <1>10 DEF Holds, Registered
<1>12. \A k \in 1..keys : k \in known' <=> k \in known
  BY <1>1, <1>9
<1>13. KeysKept
  BY <1>1, <1>9, <1>11, <1>12 DEF KeysKept, Safe, Signs
<1>14. OrphansUnknown'
  <2> SUFFICES ASSUME NEW b \in Accounts, dir'[b].state = "orphan"
               PROVE  dir'[b].key \notin known'
    BY DEF OrphansUnknown
  <2>1. CASE b = a
    BY <2>1, <1>1, <1>2, <1>3, <1>8
  <2>2. CASE b # a
    <3>1. dir[b].state = "orphan" /\ dir'[b].key = dir[b].key
      BY <2>2, <1>7
    <3>2. dir[b].key \notin known /\ dir[b].key \in 1..keys
      BY <3>1, <1>1, DirectoryState DEF IInv, OrphansUnknown
    <3> QED
      BY <3>1, <3>2, <1>12
  <2> QED
    BY <2>1, <2>2
<1>15. NewAccount(a) => dir'[a].state = "registered"
  BY <1>2, <1>8
<1>16. known' \subseteq 1..keys'
  BY <1>1, <1>3, <1>9
<1> QED
  BY <1>1, <1>6, <1>8, <1>13, <1>14, <1>15, <1>16

(* A key that is moved away is the unknown one of the order, or in raced. *)
LEMMA KeyMovedAway ==
    ASSUME IInv, NEW t \in Threads, Quarantine(t)
    PROVE  /\ KeysKept /\ OrphansUnknown'
           /\ dir' \in [Accounts -> Directory']
           /\ raced' \subseteq 1..keys'
<1> DEFINE a == task[t].account
<1>1. TypeOK /\ keys \in Nat /\ UNCHANGED <<keys, known>>
  BY DEF IInv, TypeOK, Quarantine
<1>2. a \in Accounts /\ task[t].key \notin known
  BY <1>1, OrderFields DEF Quarantine, At, IInv, ThreadInv, OrderTask
<1>3. dir \in [Accounts -> Directory] /\ raced \subseteq 1..keys
  BY <1>1 DEF TypeOK
<1>4. Directory' = Directory
  BY <1>1 DEF Directory
<1>5. CASE dir[a] = NoDirectory
  <2>1. UNCHANGED <<dir, keys, known, raced>>
    BY <1>5, <1>1 DEF Quarantine
  <2> QED
    BY <2>1, <1>3, <1>4, KeysUnchanged
<1>6. CASE dir[a] # NoDirectory
  <2>1. /\ dir' = [dir EXCEPT ![a] = NoDirectory]
        /\ raced' = raced \cup ({dir[a].key} \ {task[t].key})
    BY <1>6 DEF Quarantine
  <2>2. dir[a].key \in 1..keys
    BY <1>6, <1>1, <1>2, DirectoryState
  <2>3. dir' \in [Accounts -> Directory'] /\ raced' \subseteq 1..keys'
    BY <2>1, <2>2, <1>1, <1>3, <1>4 DEF Directory
  <2>4. /\ \A b \in Accounts : b # a => dir'[b] = dir[b]
        /\ dir'[a].state = "none"
    BY <2>1, <1>2, <1>3 DEF NoDirectory
  <2>5. \A b \in Accounts, k \in 1..keys : Holds(b, k)' => Holds(b, k)
    BY <2>4 DEF Holds, Registered
  <2>6. \A b \in Accounts, k \in known : Holds(b, k) => Holds(b, k)' \/ k \in raced'
    BY <2>1, <2>4, <1>2 DEF Holds, Registered
  <2>7. KeysKept
    BY <1>1, <2>1, <2>5, <2>6 DEF KeysKept, Safe, Signs
  <2>8. OrphansUnknown'
    BY <2>4, <1>1 DEF OrphansUnknown, IInv
  <2> QED
    BY <2>3, <2>7, <2>8
<1> QED
  BY <1>5, <1>6

-----------------------------------------------------------------------------
(* What the steps do to threads and certificates. *)

LEMMA ThreadKept ==
    ASSUME IInv, KeysKept, NEW t \in Threads, task'[t] = task[t]
    PROVE  ThreadInv(t)'
<1>1. TypeOK /\ ThreadInv(t) /\ keys \in Nat
  BY DEF IInv, TypeOK
<1>2. CASE At(t, "answer")
  <2>1. task[t] \in OrderTask
    BY <1>1, <1>2, OrderFields DEF At
  <2>2. Safe(task[t].account, task[t].key)'
    BY <2>1, <1>1, <1>2 DEF ThreadInv, KeysKept, OrderTask, Safe, Holds, Registered
  <2> QED
    BY <2>2, <1>1, <1>2 DEF ThreadInv, At, KeysKept, Safe, Holds, Registered
<1>3. CASE At(t, "quarantine")
  <2>1. task[t] \in OrderTask
    BY <1>1, <1>3, OrderFields DEF At
  <2>2. task[t].key \in 0..keys /\ task[t].key \notin known
    BY <2>1, <1>1, <1>3 DEF ThreadInv, OrderTask
  <2> QED
    BY <2>2, <1>1, <1>3 DEF ThreadInv, At, KeysKept
<1>4. CASE At(t, "revoke")
  <2>1. task[t].cert \in Certificate
    BY <1>1, <1>4, RevokeFields DEF At, RevokeTask
  <2>2. task[t].cert.account \in Accounts /\ task[t].cert.key \in 1..keys
    BY <2>1 DEF Certificate
  <2> QED
    BY <2>2, <1>1, <1>4 DEF ThreadInv, At, KeysKept, Signs, Holds, Registered
<1>5. CASE ~At(t, "answer") /\ ~At(t, "quarantine") /\ ~At(t, "revoke")
  BY <1>5 DEF ThreadInv, At
<1> QED
  BY <1>2, <1>3, <1>4, <1>5

LEMMA StepKeepsIInv ==
    ASSUME IInv, KeysKept, OrphansUnknown', TypeOK',
           \A c \in certs' : c \in certs \/ Safe(c.account, c.key)',
           \A t \in Threads : task'[t] = task[t] \/ ThreadInv(t)'
    PROVE  IInv'
<1>1. \A t \in Threads : ThreadInv(t)'
  BY ThreadKept
<1>2. \A c \in certs : c.account \in Accounts /\ c.key \in 1..keys
  BY DEF IInv, TypeOK, Certificate
<1>3. \A c \in certs : Safe(c.account, c.key)'
  BY <1>2 DEF IInv, CertsSafe, KeysKept
<1>4. CertsSafe'
  BY <1>3 DEF CertsSafe
<1> QED
  BY <1>1, <1>4 DEF IInv

(* A step that moves one thread. *)
LEMMA TaskMoved ==
    ASSUME TypeOK, keys' \in Nat, keys' >= keys, NEW t \in Threads, NEW u,
           task' = [task EXCEPT ![t] = u],
           u \in {Idle} \cup OrderTask' \cup RevokeTask'
    PROVE  /\ task' \in [Threads -> {Idle} \cup OrderTask' \cup RevokeTask']
           /\ task'[t] = u
           /\ \A v \in Threads : v # t => task'[v] = task[v]
<1>1. task \in [Threads -> {Idle} \cup OrderTask' \cup RevokeTask']
  BY TypesGrow DEF TypeOK
<1> QED
  BY <1>1

LEMMA IdleInv ==
    ASSUME NEW t \in Threads, task'[t] = Idle
    PROVE  ThreadInv(t)'
  BY DEF ThreadInv, At, Idle

-----------------------------------------------------------------------------
LEMMA InitIInv == Init => IInv
<1> SUFFICES ASSUME Init PROVE IInv
  OBVIOUS
<1>1. keys \in Nat
  BY ExternalAcmeAssumption, FS_CardinalityType DEF Init
<1>2. \A a \in Accounts : dir[a] \in Directory
  BY DEF Init
<1>3. \A a \in Registered : dir[a] # NoDirectory /\ a \in Legacy /\ dir[a].key \in 1..keys
  <2> SUFFICES ASSUME NEW a \in Registered
               PROVE  dir[a] # NoDirectory /\ a \in Legacy /\ dir[a].key \in 1..keys
    OBVIOUS
  <2>1. a \in Accounts /\ dir[a].state = "registered"
    BY DEF Registered
  <2>2. dir[a] # NoDirectory
    BY <2>1 DEF NoDirectory
  <2>3. a \in Legacy
    BY <2>1, <2>2 DEF Init
  <2>4. dir[a] \in [state : {"orphan", "registered"}, key : 1..keys]
    BY <1>2, <2>1, <2>2 DEF Directory
  <2> QED
    BY <2>2, <2>3, <2>4
<1>4. TypeOK
  BY <1>1, <1>3, ExternalAcmeAssumption DEF Init, TypeOK, Certificate, Idle, Registered
<1>5. OrphansUnknown
  <2> SUFFICES ASSUME NEW a \in Accounts, dir[a].state = "orphan",
                      NEW b \in Registered, dir[a].key = dir[b].key
               PROVE  FALSE
    BY DEF OrphansUnknown, Init
  <2>1. dir[a] # NoDirectory
    BY DEF NoDirectory
  <2>2. a \in Legacy /\ b \in Legacy
    BY <2>1, <1>3 DEF Init
  <2>3. a = b
    BY <2>2 DEF Init
  <2> QED
    BY <2>3 DEF Registered
<1>6. CertsSafe
  BY DEF Init, CertsSafe, Safe, Holds, Registered
<1>7. \A t \in Threads : ThreadInv(t)
  BY DEF Init, ThreadInv, At, Idle
<1> QED
  BY <1>4, <1>5, <1>6, <1>7 DEF IInv

-----------------------------------------------------------------------------
(* A step that changes no key and at most one thread, at most by a         *)
(* certificate.                                                            *)
LEMMA PlainStep ==
    ASSUME IInv, UNCHANGED <<dir, keys, known, raced, faults>>,
           config' \in Accounts \cup {None},
           NEW t \in Threads, NEW u \in {Idle} \cup OrderTask \cup RevokeTask,
           task' = [task EXCEPT ![t] = u],
           task'[t] = u => ThreadInv(t)',
           certs' \subseteq Certificate,
           \A c \in certs' : c \in certs \/ Safe(c.account, c.key)
    PROVE  IInv'
<1>1. TypeOK /\ keys \in Nat
  BY DEF IInv, TypeOK
<1>2. KeysKept /\ OrphansUnknown'
  BY KeysUnchanged
<1>3. /\ Directory' = Directory /\ Certificate' = Certificate
      /\ OrderTask' = OrderTask /\ RevokeTask' = RevokeTask
  BY DEF Directory, Certificate, OrderTask, RevokeTask
<1>4. /\ task' \in [Threads -> {Idle} \cup OrderTask' \cup RevokeTask']
      /\ task'[t] = u
      /\ \A v \in Threads : v # t => task'[v] = task[v]
  <2>1. task \in [Threads -> {Idle} \cup OrderTask' \cup RevokeTask']
    BY <1>1, <1>3 DEF TypeOK
  <2>2. u \in {Idle} \cup OrderTask' \cup RevokeTask'
    BY <1>3
  <2> QED
    BY <2>1, <2>2
<1>5. TypeOK'
  BY <1>1, <1>3, <1>4 DEF TypeOK
<1>6. \A c \in certs' : c \in certs \/ Safe(c.account, c.key)'
  BY DEF Safe, Holds, Registered
<1> QED
  BY <1>2, <1>4, <1>5, <1>6, StepKeepsIInv

LEMMA OrderIInv ==
    ASSUME IInv, NEW t \in Threads,
           Order(t) \/ Deliver(t) \/ Missing(t) \/ RegisterUnknown(t) \/ Fail(t)
    PROVE  IInv'
<1>1. TypeOK /\ keys \in Nat /\ config \in Accounts \cup {None} /\ certs \subseteq Certificate
  BY DEF IInv, TypeOK
<1>2. CASE Order(t)
  <2> DEFINE u == [step |-> "run", account |-> config, key |-> 0, again |-> FALSE]
  <2>1. u \in OrderTask
    BY <1>1, <1>2 DEF Order, OrderTask
  <2>2. task' = [task EXCEPT ![t] = u] /\ UNCHANGED <<config, dir, keys, known, certs, faults, raced>>
    BY <1>2 DEF Order
  <2>3. task'[t] = u => ThreadInv(t)'
    BY DEF ThreadInv, At
  <2> QED
    BY <1>1, <2>1, <2>2, <2>3, PlainStep
<1>3. CASE Deliver(t)
  <2> DEFINE c == [account |-> task[t].account, key |-> task[t].key]
  <2>1. task[t] \in OrderTask
    BY <1>1, <1>3, OrderFields DEF Deliver, At
  <2>2. task[t].key \in 1..keys /\ Safe(c.account, c.key)
    BY <1>3 DEF Deliver, IInv, ThreadInv
  <2>3. c \in Certificate
    BY <2>1, <2>2 DEF Certificate, OrderTask
  <2>4. /\ certs' = certs \cup {c} /\ task' = [task EXCEPT ![t] = Idle]
        /\ UNCHANGED <<config, dir, keys, known, faults, raced>>
    BY <1>3 DEF Deliver, Finish
  <2> QED
    BY <1>1, <2>2, <2>3, <2>4, IdleInv, PlainStep
<1>4. CASE Missing(t)
  <2>1. task[t] \in OrderTask /\ task[t].key \notin known
    BY <1>1, <1>4, OrderFields DEF Missing, At
  <2>2. UNCHANGED <<config, dir, keys, known, certs, faults, raced>>
    BY <1>4 DEF Missing
  <2>3. CASE task[t].again
    BY <1>1, <1>4, <2>2, <2>3, IdleInv, PlainStep DEF Missing, Finish
  <2>4. CASE ~task[t].again
    <3> DEFINE u == [task[t] EXCEPT !.step = "quarantine"]
    <3>1. u \in OrderTask /\ u.step = "quarantine" /\ u.key = task[t].key
      BY <2>1 DEF OrderTask
    <3>2. task' = [task EXCEPT ![t] = u]
      BY <1>4, <2>4 DEF Missing, Move
    <3>3. task'[t] = u => ThreadInv(t)'
      BY <3>1, <2>1, <2>2 DEF ThreadInv, At
    <3> QED
      BY <1>1, <2>2, <3>1, <3>2, <3>3, PlainStep
  <2> QED
    BY <2>3, <2>4
<1>5. CASE RegisterUnknown(t)
  BY <1>1, <1>5, IdleInv, PlainStep DEF RegisterUnknown, Finish
<1>6. CASE Fail(t)
  BY <1>1, <1>6, IdleInv, PlainStep DEF Fail, Finish
<1> QED
  BY <1>2, <1>3, <1>4, <1>5, <1>6

LEMMA RevokeIInv ==
    ASSUME IInv, NEW t \in Threads,
           \/ \E c \in certs : Revoke(t, c)
           \/ \E a \in Accounts : TryRevoke(t, a) \/ AttemptFails(t, a)
           \/ Refuse(t)
    PROVE  IInv'
<1>1. TypeOK /\ keys \in Nat /\ config \in Accounts \cup {None} /\ certs \subseteq Certificate
  BY DEF IInv, TypeOK
<1>2. ASSUME NEW c \in certs, Revoke(t, c)
      PROVE  IInv'
  <2> DEFINE u == [step |-> "revoke", cert |-> c, left |-> Registered, excused |-> FALSE]
  <2>1. u \in RevokeTask
    BY <1>1 DEF RevokeTask, Registered
  <2>2. task' = [task EXCEPT ![t] = u] /\ UNCHANGED <<config, dir, keys, known, certs, faults, raced>>
    BY <1>2 DEF Revoke
  <2>3. task'[t] = u => ThreadInv(t)'
    BY <2>2 DEF ThreadInv, At, Signs, Holds, Registered
  <2> QED
    BY <1>1, <2>1, <2>2, <2>3, PlainStep
<1>3. ASSUME NEW a \in Accounts, TryRevoke(t, a)
      PROVE  IInv'
  <2> DEFINE c == task[t].cert
             u == [task[t] EXCEPT !.left = @ \ {a}, !.excused = @ \/ c \notin certs]
  <2>1. task[t] \in RevokeTask
    BY <1>1, <1>3, RevokeFields DEF TryRevoke, At
  <2>2. UNCHANGED <<config, dir, keys, known, faults, raced>>
    BY <1>3 DEF TryRevoke
  <2>3. CASE a = c.account /\ c \in certs /\ Retained(c)
    <3>1. certs' = certs \ {c} /\ task' = [task EXCEPT ![t] = Idle]
      BY <1>3, <2>3 DEF TryRevoke, Finish
    <3> QED
      BY <1>1, <2>2, <3>1, IdleInv, PlainStep
  <2>4. CASE ~(a = c.account /\ c \in certs /\ Retained(c))
    <3>1. task' = [task EXCEPT ![t] = u] /\ certs' = certs
      BY <1>3, <2>4 DEF TryRevoke
    <3>2. /\ u \in RevokeTask /\ u.step = "revoke" /\ u.cert = c
          /\ u.left = task[t].left \ {a}
          /\ u.excused = (task[t].excused \/ c \notin certs)
      BY <2>1 DEF RevokeTask
    <3>3. Retained(c) <=> Signs(c.account, c.key)
      BY DEF Retained, Usable, Signs, Holds
    <3>4. \/ task[t].excused \/ ~Signs(c.account, c.key) \/ c.account \in task[t].left
      BY <1>3 DEF IInv, ThreadInv, TryRevoke
    <3>5. u.excused \/ ~Signs(c.account, c.key) \/ c.account \in u.left
      BY <3>2, <3>3, <3>4, <2>4
    <3>6. task'[t] = u => ThreadInv(t)'
      BY <3>2, <3>5, <2>2 DEF ThreadInv, At, Signs, Holds, Registered
    <3> QED
      BY <1>1, <2>2, <3>1, <3>2, <3>6, PlainStep
  <2> QED
    BY <2>3, <2>4
<1>4. ASSUME NEW a \in Accounts, AttemptFails(t, a)
      PROVE  IInv'
  <2> DEFINE u == [task[t] EXCEPT !.left = @ \ {a}, !.excused = TRUE]
  <2>1. task[t] \in RevokeTask
    BY <1>1, <1>4, RevokeFields DEF AttemptFails, At
  <2>2. u \in RevokeTask /\ u.step = "revoke" /\ u.excused
    BY <2>1 DEF RevokeTask
  <2>3. task' = [task EXCEPT ![t] = u] /\ UNCHANGED <<config, dir, keys, known, certs, faults, raced>>
    BY <1>4 DEF AttemptFails
  <2>4. task'[t] = u => ThreadInv(t)'
    BY <2>2 DEF ThreadInv, At
  <2> QED
    BY <1>1, <2>2, <2>3, <2>4, PlainStep
<1>5. CASE Refuse(t)
  BY <1>1, <1>5, IdleInv, PlainStep DEF Refuse, Finish
<1> QED
  BY <1>2, <1>3, <1>4, <1>5

-----------------------------------------------------------------------------
(* A step that ends or moves one order and may create a key.               *)
LEMMA KeyStep ==
    ASSUME IInv, KeysKept, OrphansUnknown',
           dir' \in [Accounts -> Directory'], known' \subseteq 1..keys',
           raced' \subseteq 1..keys', faults' \in 0..MaxFaults,
           UNCHANGED <<config, certs>>,
           NEW t \in Threads, NEW u,
           u \in {Idle} \cup OrderTask', task' = [task EXCEPT ![t] = u],
           task'[t] = u => ThreadInv(t)'
    PROVE  IInv'
<1>1. TypeOK /\ keys' \in Nat /\ keys' >= keys
  BY DEF IInv, KeysKept
<1>2. /\ task' \in [Threads -> {Idle} \cup OrderTask' \cup RevokeTask']
      /\ task'[t] = u
      /\ \A v \in Threads : v # t => task'[v] = task[v]
  BY <1>1, TypesGrow DEF TypeOK
<1>3. TypeOK'
  BY <1>1, <1>2, TypesGrow DEF TypeOK
<1> QED
  BY <1>2, <1>3, StepKeepsIInv

LEMMA FaultCounted == TypeOK /\ Fault => faults' \in 0..MaxFaults
  BY ExternalAcmeAssumption DEF TypeOK, Fault

(* A new account or an orphaned key: the step ends the order, or goes on   *)
(* with the account.                                                       *)
LEMMA CreatingStep ==
    ASSUME IInv, NEW t \in Threads, NEW a \in Accounts, dir[a] = NoDirectory,
           NewAccount(a) \/ NewOrphan(a), UNCHANGED <<config, certs, raced>>,
           faults' \in 0..MaxFaults,
           NEW u, u \in {Idle} \cup OrderTask', task' = [task EXCEPT ![t] = u],
           task'[t] = u => ThreadInv(t)'
    PROVE  IInv'
<1>1. /\ KeysKept /\ OrphansUnknown' /\ dir' \in [Accounts -> Directory']
      /\ known' \subseteq 1..keys' /\ keys' = keys + 1
  BY KeyCreated
<1>2. raced' \subseteq 1..keys' /\ UNCHANGED <<config, certs>>
  BY <1>1 DEF IInv, TypeOK
<1> QED
  BY <1>1, <1>2, KeyStep

LEMMA RecoveryIInv ==
    ASSUME IInv, NEW t \in Threads,
           \/ Run(t) \/ RunFails(t) \/ Quarantine(t) \/ Register(t) \/ RegistrationFails(t)
    PROVE  IInv'
<1>1. /\ TypeOK /\ keys \in Nat /\ faults \in 0..MaxFaults
      /\ config \in Accounts \cup {None} /\ certs \subseteq Certificate
  BY DEF IInv, TypeOK
<1>2. PICK a \in Accounts : a = task[t].account /\ task[t] \in OrderTask
  <2>1. task[t] \in OrderTask
    BY <1>1, OrderFields DEF Run, RunFails, Quarantine, Register, RegistrationFails, At
  <2> QED
    BY <2>1 DEF OrderTask
<1>3. CASE Run(t)
  <2>1. PICK k : k = dir'[a].key
    OBVIOUS
  <2>2. PICK u : u = [task[t] EXCEPT !.step = "answer", !.key = k]
    OBVIOUS
  <2>3. task' = [task EXCEPT ![t] = u] /\ UNCHANGED <<config, certs, faults, raced>>
    BY <1>2, <1>3, <2>1, <2>2 DEF Run
  <2>4. u.step = "answer" /\ u.key = k /\ u.account = a /\ u.again \in BOOLEAN
    BY <1>2, <2>2 DEF OrderTask
  <2>5. ASSUME k \in 1..keys', Safe(a, k)'
        PROVE  u \in OrderTask' /\ (task'[t] = u => ThreadInv(t)')
    <3>1. u = [step |-> "answer", account |-> a, key |-> k, again |-> task[t].again]
      BY <1>2, <2>2, OrderMoved
    <3>2. u \in OrderTask'
      BY <3>1, <2>4, <2>5 DEF OrderTask
    <3> QED
      BY <3>2, <2>4, <2>5 DEF ThreadInv, At, Safe, Holds, Registered
  <2>6. CASE dir[a] = NoDirectory
    <3>1. NewAccount(a)
      BY <1>2, <1>3, <2>6 DEF Run
    <3>2. /\ dir'[a].key = keys' /\ dir'[a].state = "registered" /\ keys' = keys + 1
      BY <2>3, <2>6, <3>1, KeyCreated
    <3>3. k \in 1..keys' /\ Safe(a, k)'
      BY <1>1, <2>1, <3>2 DEF Safe, Holds, Registered
    <3> QED
      BY <1>1, <2>3, <2>5, <2>6, <3>1, <3>3, CreatingStep
  <2>7. CASE dir[a] # NoDirectory
    <3>1. UNCHANGED <<dir, keys, known>>
      BY <1>2, <1>3, <2>7 DEF Run
    <3>2. dir[a].key \in 1..keys /\ dir[a].state \in {"orphan", "registered"}
      BY <1>1, <2>7, DirectoryState
    <3>3. k \in 1..keys' /\ Safe(a, k)'
      BY <2>1, <3>1, <3>2 DEF Safe, Holds, Registered, IInv, OrphansUnknown
    <3>4. OrderTask' = OrderTask
      BY <3>1 DEF OrderTask
    <3> QED
      BY <1>1, <2>3, <2>5, <3>1, <3>3, <3>4, PlainStep
  <2> QED
    BY <2>6, <2>7
<1>4. CASE RunFails(t)
  <2>1. /\ dir[a] = NoDirectory /\ NewOrphan(a) /\ task' = [task EXCEPT ![t] = Idle]
        /\ UNCHANGED <<config, certs, raced>> /\ faults' \in 0..MaxFaults
    BY <1>1, <1>2, <1>4, FaultCounted DEF RunFails, Finish
  <2> QED
    BY <1>2, <2>1, IdleInv, CreatingStep
<1>5. CASE RegistrationFails(t)
  <2>1. /\ dir[a] = NoDirectory /\ NewOrphan(a) /\ task' = [task EXCEPT ![t] = Idle]
        /\ UNCHANGED <<config, certs, raced>> /\ faults' \in 0..MaxFaults
    BY <1>1, <1>2, <1>5, FaultCounted DEF RegistrationFails, Finish
  <2> QED
    BY <1>2, <2>1, IdleInv, CreatingStep
<1>6. CASE Register(t)
  <2> DEFINE u == [task[t] EXCEPT !.step = "run", !.again = TRUE]
  <2>1. task' = [task EXCEPT ![t] = u] /\ UNCHANGED <<config, certs, faults, raced>>
    BY <1>6 DEF Register
  <2>2. u \in OrderTask /\ u.step = "run"
    BY <1>2 DEF OrderTask
  <2>3. task'[t] = u => ThreadInv(t)'
    BY <2>2 DEF ThreadInv, At
  <2> HIDE DEF u
  <2>4. CASE dir[a] = NoDirectory /\ NewAccount(a)
    <3>1. u \in OrderTask'
      BY <1>1, <2>2, <2>4, TypesGrow DEF NewAccount
    <3> QED
      BY <1>1, <1>2, <2>1, <2>3, <2>4, <3>1, CreatingStep
  <2>5. CASE UNCHANGED <<dir, keys, known>>
    BY <1>1, <2>1, <2>2, <2>3, <2>5, PlainStep
  <2> QED
    BY <1>2, <1>6, <2>4, <2>5 DEF Register
<1>7. CASE Quarantine(t)
  <2> DEFINE u == [task[t] EXCEPT !.step = "register", !.key = 0]
  <2>1. task' = [task EXCEPT ![t] = u] /\ UNCHANGED <<config, keys, known, certs, faults>>
    BY <1>7 DEF Quarantine
  <2>2. u \in OrderTask' /\ u.step = "register"
    <3>1. u = [step |-> "register", account |-> a, key |-> 0, again |-> task[t].again]
      BY <1>2, OrderMoved
    <3>2. task[t].again \in BOOLEAN
      BY <1>2 DEF OrderTask
    <3> HIDE DEF u
    <3> QED
      BY <3>1, <3>2, <1>1, <2>1 DEF OrderTask
  <2>3. task'[t] = u => ThreadInv(t)'
    BY <2>2 DEF ThreadInv, At
  <2> HIDE DEF u
  <2>4. /\ KeysKept /\ OrphansUnknown' /\ dir' \in [Accounts -> Directory']
        /\ raced' \subseteq 1..keys'
    BY <1>7, KeyMovedAway
  <2>5. known' \subseteq 1..keys'
    BY <1>1, <2>1 DEF TypeOK
  <2> QED
    BY <1>1, <2>1, <2>2, <2>3, <2>4, <2>5, KeyStep
<1> QED
  BY <1>3, <1>4, <1>5, <1>6, <1>7

LEMMA OutsideIInv ==
    ASSUME IInv,
           \/ \E a \in Settings : Configure(a)
           \/ \E k \in known : Forget(k)
           \/ Restart
           \/ UNCHANGED vars
    PROVE  IInv'
<1>1. /\ TypeOK /\ keys \in Nat /\ Settings \subseteq Accounts \cup {None}
      /\ UNCHANGED <<dir, keys, certs, raced>>
  BY ExternalAcmeAssumption DEF IInv, TypeOK, Configure, Forget, Restart, vars
<1>2. KeysKept /\ OrphansUnknown'
  BY KeysUnchanged, KeyForgotten DEF Configure, Forget, Restart, vars
<1>3. \A t \in Threads : task'[t] = task[t] \/ ThreadInv(t)'
  <2>1. CASE Restart
    <3>1. \A t \in Threads : task'[t] = Idle
      BY <2>1 DEF Restart
    <3> QED
      BY <3>1, IdleInv
  <2>2. CASE ~Restart
    BY <2>2 DEF Configure, Forget, vars
  <2> QED
    BY <2>1, <2>2
<1>4. faults' \in 0..MaxFaults
  BY <1>1, FaultCounted DEF Configure, Forget, Restart, vars, TypeOK
<1>5. /\ config' \in Accounts \cup {None} /\ known' \subseteq 1..keys
      /\ task' \in [Threads -> {Idle} \cup OrderTask \cup RevokeTask]
  BY <1>1 DEF Configure, Forget, Restart, vars, TypeOK
<1>6. /\ Directory' = Directory /\ Certificate' = Certificate
      /\ OrderTask' = OrderTask /\ RevokeTask' = RevokeTask
  BY <1>1 DEF Directory, Certificate, OrderTask, RevokeTask
<1>7. TypeOK'
  BY <1>1, <1>4, <1>5, <1>6 DEF TypeOK
<1> QED
  BY <1>1, <1>2, <1>3, <1>7, StepKeepsIInv

LEMMA NextIInv == IInv /\ [Next]_vars => IInv'
<1> SUFFICES ASSUME IInv, [Next]_vars PROVE IInv'
  OBVIOUS
<1>1. CASE \/ \E a \in Settings : Configure(a)
           \/ \E k \in known : Forget(k)
           \/ Restart
           \/ UNCHANGED vars
  BY <1>1, OutsideIInv
<1>2. ASSUME NEW t \in Threads, Order(t) \/ Step(t)
      PROVE  IInv'
  BY <1>2, OrderIInv, RecoveryIInv, RevokeIInv DEF Step
<1>3. ASSUME NEW t \in Web, NEW c \in certs, Revoke(t, c)
      PROVE  IInv'
  BY <1>3, RevokeIInv DEF Threads
<1> QED
  BY <1>1, <1>2, <1>3 DEF Next

LEMMA Invariance == Spec => []IInv
<1> QED
  BY InitIInv, NextIInv, PTL DEF Spec

-----------------------------------------------------------------------------
(* Whatever accounts, keys and orphans earlier releases have left, every   *)
(* reachable state is well typed.                                          *)
THEOREM TypeCorrect == Spec => []TypeOK
  BY Invariance, PTL DEF IInv

(* However many threads recover accounts, a certificate's account stays    *)
(* where revocation finds it as long as the CA knows it, but for the race  *)
(* of _quarantine_account with another recovery.                           *)
THEOREM IssuerKept == Spec => []IssuerIsRetained
<1>1. IInv => IssuerIsRetained
  BY DEF IInv, CertsSafe, Safe, Holds, IssuerIsRetained, Retained, Usable
<1> QED
  BY <1>1, Invariance, PTL

(* revoke gives up without an excuse only if the issuing account is gone,  *)
(* for any number of accounts and whatever the settings name.              *)
THEOREM RefusedOnlyIfIssuerGone == Spec => RevocationFindsIssuer
<1>1. IInv => \A t \in Threads : Refuse(t) =>
                 \/ task[t].excused
                 \/ ~Retained(task[t].cert)
  BY DEF IInv, ThreadInv, Refuse, Signs, Holds, Retained, Usable
<1>2. IInv => [\A t \in Threads : Refuse(t) =>
                  \/ task[t].excused
                  \/ ~Retained(task[t].cert)]_vars
  BY <1>1
<1> QED
  BY <1>2, Invariance, PTL DEF RevocationFindsIssuer

=============================================================================
