------------------------------ MODULE Exports -------------------------------
(***************************************************************************)
(* One-time exports of the web process, and the setup of the private CA,   *)
(* whose root key leaves the add-on as such an export.                     *)
(*                                                                         *)
(* An export is a file and a row of the exports table, which no            *)
(* transaction spans: storing writes the file and then inserts the row,    *)
(* ending it (a confirmed download, or an expiry found by the cleanup that *)
(* precedes every request) deletes the file and then updates the row.      *)
(* Handler threads interleave between these steps, any step may raise, and *)
(* the add-on may restart.                                                 *)
(***************************************************************************)
EXTENDS Integers, FiniteSets

CONSTANTS
    Leaves,       \* ids of exports of certificates with their private keys
    Roots,        \* ids of offline-root exports, one for each run of the setup
    Threads,      \* handler threads of the web process
    None,         \* no export, no CA
    MaxTokens,    \* bound on the recovered links of one export
    MaxFaults     \* bound on restarts

IDs == Leaves \cup Roots

ASSUME ExportsAssumption ==
    /\ Leaves \cap Roots = {}
    /\ None \notin IDs
    /\ MaxTokens \in Nat
    /\ MaxFaults \in Nat

VARIABLES
    ca,        \* the CA on disk: the setup that made it, its root key, settings
    files,     \* exports whose file exists
    row,       \* rows of the exports table
    lapsed,    \* exports whose expires_at lies in the past
    links,     \* links that browsers hold
    task,      \* what each thread is doing
    faults,    \* restarts so far
    late,      \* history: exports whose file was sent when they were consumed
    cut,       \* history: exports whose storing was interrupted
    confirmed  \* history: exports whose download a browser confirmed

vars == <<ca, files, row, lapsed, links, task, faults, late, cut, confirmed>>

CA == [setup : Roots \cup {None}, rootKey : BOOLEAN, settings : BOOLEAN]
NoCA == [setup |-> None, rootKey |-> FALSE, settings |-> FALSE]

RowStatuses == {"none", "pending", "consumed"}
Row == [status : RowStatuses, token : Nat]

SetupSteps == {"init", "removeRootKey", "settings"}
StoreSteps == {"store", "record", "answer"}
Steps == {"idle", "send", "unlink", "consume", "replace"} \cup SetupSteps \cup StoreSteps
Task == [step : Steps, id : IDs \cup {None}]
IdleTask == [step |-> "idle", id |-> None]

TypeOK ==
    /\ ca \in CA
    /\ files \subseteq IDs
    /\ row \in [IDs -> Row]
    /\ lapsed \subseteq IDs
    /\ links \subseteq IDs \X Nat
    /\ task \in [Threads -> Task]
    /\ faults \in 0..MaxFaults
    /\ late \subseteq IDs
    /\ cut \subseteq IDs
    /\ confirmed \subseteq IDs

Init ==
    /\ ca = NoCA
    /\ files = {}
    /\ row = [x \in IDs |-> [status |-> "none", token |-> 0]]
    /\ lapsed = {}
    /\ links = {}
    /\ task = [t \in Threads |-> IdleTask]
    /\ faults = 0
    /\ late = {}
    /\ cut = {}
    /\ confirmed = {}

Pending(x) == row[x].status = "pending"
Expired == {x \in lapsed : Pending(x)}
Initialized == ca.setup # None /\ ca.settings

At(t, step) == task[t].step = step
Move(t, step) == task' = [task EXCEPT ![t].step = step]
Finish(t) == task' = [task EXCEPT ![t] = IdleTask]

(* A request gets to its handler once cleanup_exports has found no (more)  *)
(* expired export.                                                         *)
Request(t, step, x) ==
    /\ At(t, "idle")
    /\ Expired = {}
    /\ task' = [task EXCEPT ![t] = [step |-> step, id |-> x]]

Unused(x) == row[x].status = "none" /\ x \notin files /\ \A t \in Threads : task[t].id # x

-----------------------------------------------------------------------------
(* Setting up the CA, under the engine's lock.                             *)

Setup(t, x) ==
    /\ x \in Roots /\ Unused(x) /\ x \notin cut
    /\ ca.setup = None
    /\ \A u \in Threads : task[u].step \notin SetupSteps
    /\ Request(t, "init", x)
    /\ UNCHANGED <<ca, files, row, lapsed, links, faults, late, cut, confirmed>>

(* step ca init *)
InitCA(t) ==
    /\ At(t, "init")
    /\ ca' = [setup |-> task[t].id, rootKey |-> TRUE, settings |-> FALSE]
    /\ Move(t, "removeRootKey")
    /\ UNCHANGED <<files, row, lapsed, links, faults, late, cut, confirmed>>

(* The archive with the re-encrypted root key is built in memory and the   *)
(* root key deleted.                                                       *)
RemoveRootKey(t) ==
    /\ At(t, "removeRootKey")
    /\ ca' = [ca EXCEPT !.rootKey = FALSE]
    /\ Move(t, "settings")
    /\ UNCHANGED <<files, row, lapsed, links, faults, late, cut, confirmed>>

WriteSettings(t) ==
    /\ At(t, "settings")
    /\ ca' = [ca EXCEPT !.settings = TRUE]
    /\ Move(t, "store")
    /\ UNCHANGED <<files, row, lapsed, links, faults, late, cut, confirmed>>

-----------------------------------------------------------------------------
(* Storing an export: _store_export.                                       *)

(* A certificate has been issued; its archive is in memory. *)
Issue(t, x) ==
    /\ x \in Leaves /\ Unused(x) /\ x \notin cut
    /\ Initialized
    /\ Request(t, "store", x)
    /\ UNCHANGED <<ca, files, row, lapsed, links, faults, late, cut, confirmed>>

WriteFile(t) ==
    /\ At(t, "store")
    /\ files' = files \cup {task[t].id}
    /\ Move(t, "record")
    /\ UNCHANGED <<ca, row, lapsed, links, faults, late, cut, confirmed>>

RecordExport(t) ==
    /\ At(t, "record")
    /\ row' = [row EXCEPT ![task[t].id] = [status |-> "pending", token |-> 0]]
    /\ Move(t, "answer")
    /\ UNCHANGED <<ca, files, lapsed, links, faults, late, cut, confirmed>>

(* The browser's session receives the token. *)
Answer(t) ==
    /\ At(t, "answer")
    /\ links' = links \cup {<<task[t].id, row[task[t].id].token>>}
    /\ Finish(t)
    /\ UNCHANGED <<ca, files, row, lapsed, faults, late, cut, confirmed>>

-----------------------------------------------------------------------------
(* Using and ending an export.                                             *)

(* export_for_token: a pending row with this token, and its file. *)
Available(x, token) ==
    <<x, token>> \in links /\ Pending(x) /\ row[x].token = token /\ x \in files

Download(t, x, token) ==
    /\ Available(x, token)
    /\ Request(t, "send", x)
    /\ UNCHANGED <<ca, files, row, lapsed, links, faults, late, cut, confirmed>>

(* send_file: the file may be gone by now. *)
Send(t) ==
    LET x == task[t].id
    IN  /\ At(t, "send")
        /\ late' = IF x \in files /\ row[x].status = "consumed" THEN late \cup {x} ELSE late
        /\ Finish(t)
        /\ UNCHANGED <<ca, files, row, lapsed, links, faults, cut, confirmed>>

(* Slip: the row is updated before the file is deleted.                    *)
ConfirmRowFirst(t, x, token) ==
    /\ Available(x, token)
    /\ Request(t, "unlink", x)
    /\ row' = [row EXCEPT ![x].status = "consumed"]
    /\ confirmed' = confirmed \cup {x}
    /\ UNCHANGED <<ca, files, lapsed, links, faults, late, cut>>

Confirm(t, x, token) ==
    /\ Available(x, token)
    /\ Request(t, "unlink", x)
    /\ confirmed' = confirmed \cup {x}
    /\ UNCHANGED <<ca, files, row, lapsed, links, faults, late, cut>>

(* Slip: the cleanup ends every pending export.                            *)
ExpireAny(t, x) ==
    /\ At(t, "idle")
    /\ Pending(x)
    /\ task' = [task EXCEPT ![t] = [step |-> "unlink", id |-> x]]
    /\ UNCHANGED <<ca, files, row, lapsed, links, faults, late, cut, confirmed>>

(* The cleanup before a request finds an expired export. *)
Expire(t, x) ==
    /\ At(t, "idle")
    /\ x \in Expired
    /\ task' = [task EXCEPT ![t] = [step |-> "unlink", id |-> x]]
    /\ UNCHANGED <<ca, files, row, lapsed, links, faults, late, cut, confirmed>>

(* Slip: deleting a file that is gone already raises.                      *)
UnlinkPresent(t) ==
    /\ At(t, "unlink")
    /\ task[t].id \in files
    /\ files' = files \ {task[t].id}
    /\ Move(t, "consume")
    /\ UNCHANGED <<ca, row, lapsed, links, faults, late, cut, confirmed>>

(* Slip: the file of an ended export is kept.                              *)
UnlinkNothing(t) ==
    /\ At(t, "unlink")
    /\ Move(t, "consume")
    /\ UNCHANGED <<ca, files, row, lapsed, links, faults, late, cut, confirmed>>

Unlink(t) ==
    /\ At(t, "unlink")
    /\ files' = files \ {task[t].id}
    /\ Move(t, "consume")
    /\ UNCHANGED <<ca, row, lapsed, links, faults, late, cut, confirmed>>

Consume(t) ==
    LET x == task[t].id
    IN  /\ At(t, "consume")
        /\ row' = [row EXCEPT ![x].status = IF @ = "pending" THEN "consumed" ELSE @]
        /\ Finish(t)
        /\ UNCHANGED <<ca, files, lapsed, links, faults, late, cut, confirmed>>

(* recover_root_export: find the pending root export, replace its token.   *)
Recover(t, x) ==
    /\ Initialized
    /\ x \in Roots /\ Pending(x) /\ x \in files
    /\ row[x].token + Cardinality({u \in Threads : At(u, "replace")}) < MaxTokens
    /\ Request(t, "replace", x)
    /\ UNCHANGED <<ca, files, row, lapsed, links, faults, late, cut, confirmed>>

(* The new link is handed out whether or not the update found the row. *)
ReplaceToken(t) ==
    LET x == task[t].id
        token == row[x].token + 1
    IN  /\ At(t, "replace")
        /\ row' = IF Pending(x) THEN [row EXCEPT ![x].token = token] ELSE row
        /\ links' = links \cup {<<x, token>>}
        /\ Finish(t)
        /\ UNCHANGED <<ca, files, lapsed, faults, late, cut, confirmed>>

Lapse(x) ==
    /\ Pending(x)
    /\ lapsed' = lapsed \cup {x}
    /\ UNCHANGED <<ca, files, row, links, task, faults, late, cut, confirmed>>

-----------------------------------------------------------------------------
(* Failures.                                                               *)

(* Slip: a failed setup leaves its files behind.                           *)
FailOnly(t) ==
    /\ ~At(t, "idle")
    /\ Finish(t)
    /\ cut' = IF task[t].step \in StoreSteps THEN cut \cup {task[t].id} ELSE cut
    /\ UNCHANGED <<ca, files, row, lapsed, links, faults, late, confirmed>>

(* A step raises.  A setup without settings removes what it made. *)
Fail(t) ==
    /\ ~At(t, "idle")
    /\ Finish(t)
    /\ ca' = IF task[t].step \in SetupSteps THEN NoCA ELSE ca
    /\ cut' = IF task[t].step \in StoreSteps THEN cut \cup {task[t].id} ELSE cut
    /\ UNCHANGED <<files, row, lapsed, links, faults, late, confirmed>>

Restart ==
    /\ faults < MaxFaults
    /\ faults' = faults + 1
    /\ task' = [t \in Threads |-> IdleTask]
    /\ cut' = cut \cup {x \in IDs : \E t \in Threads : /\ task[t].id = x
                                                       /\ task[t].step \in StoreSteps}
    /\ UNCHANGED <<ca, files, row, lapsed, links, late, confirmed>>

-----------------------------------------------------------------------------

(* What a thread does once it has begun, and nothing raises. *)
Proceed(t) ==
    \/ InitCA(t) \/ RemoveRootKey(t) \/ WriteSettings(t)
    \/ WriteFile(t) \/ RecordExport(t) \/ Answer(t)
    \/ Send(t) \/ Unlink(t) \/ Consume(t) \/ ReplaceToken(t)

Begin(t) ==
    \E x \in IDs :
        \/ Setup(t, x) \/ Issue(t, x) \/ Expire(t, x) \/ Recover(t, x)
        \/ \E token \in 0..MaxTokens : Download(t, x, token) \/ Confirm(t, x, token)

Next ==
    \/ \E t \in Threads : Begin(t) \/ Proceed(t) \/ Fail(t)
    \/ \E x \in IDs : Lapse(x)
    \/ Restart

(* Threads finish what they begin.  The web process is visited again and   *)
(* again, and a request that finds an expired export does not always fail  *)
(* on it.                                                                  *)
Fairness ==
    /\ \A t \in Threads : SF_vars(Unlink(t)) /\ SF_vars(Consume(t)) /\ WF_vars(Proceed(t))
    /\ \A x \in IDs : SF_vars(\E t \in Threads : Expire(t, x))

Spec == Init /\ [][Next]_vars
FairSpec == Spec /\ Fairness

-----------------------------------------------------------------------------
(* Properties.                                                             *)

InHand(x) ==
    \E t \in Threads : task[t].id = x /\ task[t].step \in SetupSteps \cup StoreSteps

Staged(x) == x \in files /\ Pending(x)

(* An export is not sent to anybody once it is consumed, even by a request *)
(* that found it pending (web.py, download_export).                        *)
SentWhilePending == late = {}

(* Nothing of an ended export is left on disk, whichever step failed and   *)
(* however often the add-on stopped in between; a file that no row points  *)
(* to, and so no cleanup will ever find, is left only by a failure between *)
(* writing the file and inserting the row (_store_export, cleanup_exports).*)
NoStrayFile ==
    \A x \in files :
        \/ Pending(x)
        \/ row[x].status = "none" /\ (x \in cut \/ InHand(x))

(* The root key is on disk, in the hands of the setup or staged, and gone  *)
(* from all three only after a browser holding its link confirmed the      *)
(* download, the export expired, or storing it failed: no other request,   *)
(* recovery of the link or restart destroys it.                            *)
RootKeyAccounted ==
    Initialized =>
        \/ ca.rootKey
        \/ InHand(ca.setup)
        \/ Staged(ca.setup)
        \/ ca.setup \in cut \cup lapsed \cup confirmed

(* A setup that fails can be tried again: a CA without settings is left    *)
(* behind only by a restart.                                               *)
SetupCanBeRetried ==
    ca.setup # None /\ ~ca.settings =>
        InHand(ca.setup) \/ faults > 0

(* DOCS.md, Initial setup: the root key is "staged as a protected ZIP      *)
(* download, and removed from the CA working directory", in this order: an *)
(* initialised CA without its root key has an export of it.                *)
RootKeyStaged ==
    Initialized => ca.rootKey \/ InHand(ca.setup) \/ row[ca.setup].status # "none"

(* The file of an expired export is deleted in the end (SECURITY.md: leaf  *)
(* private keys are stored only in short-lived one-time export files).     *)
ExpiredIsDeleted == \A x \in IDs : x \in Expired ~> row[x].status = "consumed" /\ x \notin files

(* How far an export has come. *)
PhaseOf == [x \in IDs |->
    IF x \in files THEN IF Pending(x) THEN "offered" ELSE "stored"
    ELSE CASE row[x].status = "none" -> "none"
           [] Pending(x) -> "withdrawn"
           [] OTHER -> "ended"]

OneTime == INSTANCE OneTimeExport WITH
    Exports <- IDs, phase <- PhaseOf, released <- lapsed \cup confirmed

(* Every export keeps the promise of OneTimeExport: no interleaving of     *)
(* storing, sending, confirming and cleaning up, and no failure or restart *)
(* between a file and its row, offers one whose file is missing, or        *)
(* deletes one that is neither confirmed nor lapsed.                       *)
IsOneTime == OneTime!Spec

=============================================================================
