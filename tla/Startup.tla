------------------------------ MODULE Startup ------------------------------
(***************************************************************************)
(* The start of the add-on.  The supervisor starts every process and stops *)
(* them all when one of them exits; Home Assistant, or the administrator,  *)
(* starts the add-on again.  The provisioning listener waits for the CA    *)
(* and makes sure of its own certificate before it serves.  The            *)
(* signed-time process reads its options, loads or creates its key, and    *)
(* reports to the UI through a status file.                                *)
(*                                                                         *)
(* Files survive a restart; a power loss undoes what was not synchronised: *)
(* the entry of the time key, the contents and the renaming of the         *)
(* listener's files.  Keys and pairs are numbers; 0 is none.               *)
(* What the clock of the signed-time authority does is in SignedTime.      *)
(***************************************************************************)
EXTENDS Naturals, FiniteSets

CONSTANTS
    Off, Invalid,    \* options: signed time disabled, options not accepted
    Enabled,         \* options that enable signed time
    MaxPairs,        \* numbers for the listener's key pairs
    MaxKeys,         \* numbers for time keys
    MaxFaults        \* bound on exits, power losses and failures

ASSUME StartupAssumption ==
    /\ Off # Invalid /\ {Off, Invalid} \cap Enabled = {}
    /\ MaxPairs \in Nat /\ MaxKeys \in Nat /\ MaxFaults \in Nat

VARIABLES
    up,         \* the add-on's processes run
    ca,         \* the CA: set up, and online
    listener,   \* the provisioning listener's process
    identity,   \* its certificate and key files
    disk,       \* what a power loss may leave of each of them
    due,        \* certificates that expire within 30 days
    options,    \* /data/options.json
    time,       \* the signed-time process
    key,        \* time-signing-key.pem
    status,     \* signed-time-status.json
    pinned,     \* time keys that the UI has exported
    faults,     \* faults so far
    torn,       \* history: the identity's two files were not replaced together
    cut,        \* history: a stop has hit before the key's directory was synchronised
    able        \* history: options under which the authority could sign since boot

host == <<up, ca, faults>>
files == <<identity, disk, due>>
provisioning == <<listener, files, torn>>
timing == <<options, time, key, status, pinned, cut, able>>
vars == <<host, provisioning, timing>>

Options == {Off, Invalid} \cup Enabled

(* A file holds its half of a pair; 0 is no file, and Empty one without    *)
(* (all of) its contents.                                                  *)
Pairs == 1..MaxPairs
Empty == MaxPairs + 1
Contents == 0..Empty
Identity == [cert : Contents, key : Contents]
Disk == [cert : SUBSET Contents, key : SUBSET Contents]
Just(pair) == [cert |-> {pair.cert}, key |-> {pair.key}]
Listener == [step : {"off", "waiting", "looking", "signed", "renamed", "running"},
             pair : 0..MaxPairs]
Listen(step, pair) == [step |-> step, pair |-> pair]

Signing == {"create", "write", "sync", "open", "run"}
Time == [step : {"off", "load", "asleep"} \cup Signing,
         options : Options, key : 0..MaxKeys]
Ended == [step |-> "off", options |-> Off, key |-> 0]

(* An entry without contents has the key 0.                                *)
Key == [exists : BOOLEAN, key : 0..MaxKeys, synced : BOOLEAN]
NoKey == [exists |-> FALSE, key |-> 0, synced |-> FALSE]

(* The status file; a process that does not sign writes no hash (Off), no  *)
(* key and no boot id.  fresh: its stamp is at most 15 s ago.              *)
Status == [healthy : BOOLEAN, hash : {Off} \cup Enabled, key : 0..MaxKeys,
           thisBoot : BOOLEAN, fresh : BOOLEAN]
Unhealthy == [healthy |-> FALSE, hash |-> Off, key |-> 0,
              thisBoot |-> FALSE, fresh |-> FALSE]

TypeOK ==
    /\ up \in BOOLEAN
    /\ ca \in [setup : BOOLEAN, online : BOOLEAN]
    /\ listener \in Listener
    /\ identity \in Identity /\ disk \in Disk /\ due \subseteq Pairs
    /\ options \in Options
    /\ time \in Time
    /\ time.step \in Signing => time.options \in Enabled
    /\ time.step = "run" => time.key # 0
    /\ key \in Key
    /\ status \in Status
    /\ pinned \subseteq 1..MaxKeys
    /\ faults \in 0..MaxFaults
    /\ torn \in BOOLEAN /\ cut \in BOOLEAN
    /\ able \subseteq Enabled

Init ==
    /\ up = FALSE
    /\ ca = [setup |-> FALSE, online |-> FALSE]
    /\ listener = Listen("off", 0)
    /\ identity = [cert |-> 0, key |-> 0]
    /\ disk = Just(identity)
    /\ due = {}
    /\ options \in Options
    /\ time = Ended
    /\ key = NoKey
    /\ status = Unhealthy
    /\ pinned = {}
    /\ faults = 0
    /\ torn = FALSE /\ cut = FALSE
    /\ able = {}

-----------------------------------------------------------------------------
(* The supervisor.                                                         *)

Start ==
    /\ ~up
    /\ up' = TRUE
    /\ listener' = Listen("waiting", 0)
    /\ time' = [Ended EXCEPT !.step = "load"]
    /\ UNCHANGED <<ca, faults, files, torn>>
    /\ UNCHANGED <<options, key, status, pinned, cut, able>>

(* One process has exited: all are stopped, wherever they are.  parted:    *)
(* the identity's two files may now be of different pairs.                 *)
Stopped(parted) ==
    /\ up' = FALSE
    /\ ca' = [ca EXCEPT !.online = FALSE]
    /\ listener' = Listen("off", 0)
    /\ time' = Ended
    /\ torn' = (torn \/ parted)
    /\ cut' = (cut \/ time.step = "sync")

Stop ==
    /\ up
    /\ faults < MaxFaults
    /\ faults' = faults + 1
    /\ Stopped(listener.step = "renamed")
    /\ UNCHANGED <<files, options, key, status, pinned, able>>

(* The kernel writes back what nobody has synchronised.                    *)
WriteBack ==
    /\ disk # Just(identity)
    /\ disk' = Just(identity)
    /\ due' = due \cap disk'.cert
    /\ UNCHANGED <<host, listener, identity, torn, timing>>

(* Power loss.  The monotonic clock starts again, so that an old stamp may *)
(* seem fresh.                                                             *)
PowerLoss ==
    /\ faults < MaxFaults
    /\ faults' = faults + 1
    /\ Stopped(listener.step = "renamed" \/ disk # Just(identity))
    /\ identity' \in [cert : disk.cert, key : disk.key]
    /\ disk' = Just(identity')
    /\ due' = due \cap disk'.cert
    /\ key' \in {[key EXCEPT !.synced = key.exists]}
                \cup (IF key.synced THEN {} ELSE {NoKey})
    /\ \E fresh \in BOOLEAN :
         status' = [status EXCEPT !.thisBoot = FALSE, !.fresh = fresh]
    /\ able' = {}
    /\ UNCHANGED <<options, pinned>>

(* StepCAEngine.initialize has written its settings; step-ca was waiting   *)
(* for them.                                                               *)
Setup ==
    /\ up /\ ~ca.setup
    /\ ca' = [ca EXCEPT !.setup = TRUE]
    /\ UNCHANGED <<up, faults, provisioning, timing>>

StartCA ==
    /\ up /\ ca.setup /\ ~ca.online
    /\ ca' = [ca EXCEPT !.online = TRUE]
    /\ UNCHANGED <<up, faults, provisioning, timing>>

-----------------------------------------------------------------------------
(* The listener: ensure_identity, then gunicorn.                           *)

CAIsReady ==
    /\ listener.step = "waiting"
    /\ ca.online
    /\ listener' = Listen("looking", 0)
    /\ UNCHANGED <<host, files, torn, timing>>

(* Ten minutes without a CA that is online: the process exits.             *)
WaitTimesOut ==
    /\ listener.step = "waiting"
    /\ ~ca.online
    /\ ca.setup => faults < MaxFaults
    /\ faults' = IF ca.setup THEN faults + 1 ELSE faults
    /\ Stopped(FALSE)
    /\ UNCHANGED <<files, options, key, status, pinned, able>>

(* The certificate can be read and is not due; of the key it is only seen  *)
(* that there is a file.                                                   *)
Acceptable == identity.cert \in Pairs \ due /\ identity.key # 0

Accept ==
    /\ listener.step = "looking"
    /\ Acceptable
    /\ listener' = Listen("running", 0)
    /\ UNCHANGED <<host, files, torn, timing>>

(* Numbers that no file has, or may have after a power loss.               *)
NewPairs == Pairs \ (disk.cert \cup disk.key)

(* A new key pair, signed by the CA, in two temporary files.  If signing   *)
(* fails, the process exits: Stop.                                         *)
Sign ==
    /\ listener.step = "looking"
    /\ ~Acceptable
    /\ ca.online
    /\ NewPairs # {}
    /\ LET pair == CHOOSE p \in NewPairs : TRUE
       IN  listener' = Listen("signed", pair) /\ due' = due \ {pair}
    /\ UNCHANGED <<host, identity, disk, torn, timing>>

(* Neither the contents nor the renaming of a file is synchronised.        *)
RenameCertificate ==
    /\ listener.step = "signed"
    /\ identity' = [identity EXCEPT !.cert = listener.pair]
    /\ disk' = [disk EXCEPT !.cert = @ \cup {listener.pair, Empty}]
    /\ listener' = [listener EXCEPT !.step = "renamed"]
    /\ UNCHANGED <<host, due, torn, timing>>

(* Slip: a key that exists is kept.                                        *)
RenameMissingKey ==
    /\ listener.step = "renamed"
    /\ IF identity.key = 0
       THEN /\ identity' = [identity EXCEPT !.key = listener.pair]
            /\ disk' = [disk EXCEPT !.key = @ \cup {listener.pair, Empty}]
       ELSE UNCHANGED <<identity, disk>>
    /\ listener' = Listen("running", 0)
    /\ torn' = FALSE
    /\ UNCHANGED <<host, due, timing>>

RenameKey ==
    /\ listener.step = "renamed"
    /\ identity' = [identity EXCEPT !.key = listener.pair]
    /\ disk' = [disk EXCEPT !.key = @ \cup {listener.pair, Empty}]
    /\ listener' = Listen("running", 0)
    /\ torn' = FALSE
    /\ UNCHANGED <<host, due, timing>>

(* Time passes; a certificate is for the CA's name, which never changes.   *)
FallDue ==
    /\ identity.cert \in Pairs \ due
    /\ due' = due \cup (disk.cert \cap Pairs)
    /\ UNCHANGED <<host, listener, identity, disk, torn, timing>>

-----------------------------------------------------------------------------
(* The signed-time process: main and load_signer.                          *)

(* Slip: options that are not accepted end the process.                    *)
LoadOrExit ==
    /\ time.step = "load"
    /\ IF options = Invalid
       THEN Stopped(listener.step = "renamed") /\ UNCHANGED <<status, files>>
       ELSE /\ IF options = Off
               THEN /\ time' = [time EXCEPT !.step = "asleep"]
                    /\ status' = Unhealthy
               ELSE /\ time' = [time EXCEPT !.options = options,
                                  !.step = IF key.exists THEN "open" ELSE "create"]
                    /\ UNCHANGED status
            /\ UNCHANGED <<up, ca, provisioning, cut>>
    /\ UNCHANGED <<faults, options, key, pinned, able>>

(* Disabled or not accepted: a status, and nothing else.                   *)
LoadOptions ==
    /\ time.step = "load"
    /\ IF options \in Enabled
       THEN /\ time' = [time EXCEPT !.options = options,
                          !.step = IF key.exists THEN "open" ELSE "create"]
            /\ UNCHANGED status
       ELSE /\ time' = [time EXCEPT !.step = "asleep"]
            /\ status' = Unhealthy
    /\ UNCHANGED <<host, provisioning, options, key, pinned, cut, able>>

(* A number that no device or file has.                                    *)
NewKeys == 1..MaxKeys \ (pinned \cup {status.key})

(* O_EXCL: an empty file.                                                  *)
CreateKey ==
    /\ time.step = "create"
    /\ NewKeys # {}
    /\ key' = [NoKey EXCEPT !.exists = TRUE]
    /\ time' = [time EXCEPT !.step = "write", !.key = CHOOSE k \in NewKeys : TRUE]
    /\ UNCHANGED <<host, provisioning, options, status, pinned, cut, able>>

WriteKey ==
    /\ time.step = "write"
    /\ key' = [key EXCEPT !.key = time.key]
    /\ time' = [time EXCEPT !.step = "sync", !.key = 0]
    /\ UNCHANGED <<host, provisioning, options, status, pinned, cut, able>>

(* Slip: the directory is not synchronised.                                *)
SyncNothing ==
    /\ time.step = "sync"
    /\ time' = [time EXCEPT !.step = "open"]
    /\ UNCHANGED <<host, provisioning, options, key, status, pinned, cut, able>>

SyncDirectory ==
    /\ time.step = "sync"
    /\ key' = [key EXCEPT !.synced = TRUE]
    /\ time' = [time EXCEPT !.step = "open"]
    /\ UNCHANGED <<host, provisioning, options, status, pinned, cut, able>>

(* A file without a key is never replaced.                                 *)
OpenKey ==
    /\ time.step = "open"
    /\ IF key.key # 0
       THEN /\ time' = [time EXCEPT !.step = "run", !.key = key.key]
            /\ UNCHANGED status
       ELSE /\ time' = [time EXCEPT !.step = "asleep"]
            /\ status' = Unhealthy
    /\ UNCHANGED <<host, provisioning, options, key, pinned, cut, able>>

(* The monitor thread; whether the authority can sign is SignedTime's.     *)
Publish(healthy) ==
    /\ time.step = "run"
    /\ status' = [healthy |-> healthy, hash |-> time.options, key |-> time.key,
                  thisBoot |-> TRUE, fresh |-> TRUE]
    /\ able' = IF healthy THEN able \cup {time.options} ELSE able
    /\ UNCHANGED <<host, provisioning, options, time, key, pinned, cut>>

StatusAges ==
    /\ status.fresh
    /\ status' = [status EXCEPT !.fresh = FALSE]
    /\ UNCHANGED <<host, provisioning, options, time, key, pinned, cut, able>>

-----------------------------------------------------------------------------
(* The administrator: Home Assistant's options, and the UI.                *)

Configure(o) ==
    /\ o # options
    /\ options' = o
    /\ UNCHANGED <<host, provisioning, time, key, status, pinned, cut, able>>

(* Slip: the stamp alone says how old the status is.                       *)
ShownByStamp ==
    options \in Enabled /\ status.hash = options /\ status.fresh /\ status.healthy

(* public_configuration                                                    *)
ShownHealthy ==
    /\ options \in Enabled
    /\ status.hash = options
    /\ status.thisBoot /\ status.fresh
    /\ status.healthy

(* signed_time_provisioning: the key is shown whatever the health.         *)
Export ==
    /\ up /\ ca.setup
    /\ options \in Enabled
    /\ status.key # 0
    /\ pinned' = pinned \cup {status.key}
    /\ UNCHANGED <<host, provisioning, options, time, key, status, cut, able>>

-----------------------------------------------------------------------------

ListenerStep ==
    CAIsReady \/ Accept \/ Sign \/ RenameCertificate \/ RenameKey
TimeStep ==
    LoadOptions \/ CreateKey \/ WriteKey \/ SyncDirectory \/ OpenKey

Next ==
    \/ Start \/ Stop \/ WriteBack \/ PowerLoss \/ Setup \/ StartCA
    \/ ListenerStep \/ WaitTimesOut \/ FallDue
    \/ TimeStep
    \/ \E healthy \in BOOLEAN : Publish(healthy)
    \/ StatusAges
    \/ \E o \in Options : Configure(o)
    \/ Export

Spec == Init /\ [][Next]_vars

(* The add-on is started whenever it has stopped, the CA comes online once *)
(* it is set up, the processes run on, and the kernel writes back.  The    *)
(* administrator need not set the CA up.                                   *)
Fairness ==
    /\ WF_vars(Start) /\ WF_vars(StartCA) /\ WF_vars(WriteBack)
    /\ WF_vars(ListenerStep) /\ WF_vars(TimeStep)

FairSpec == Spec /\ Fairness

-----------------------------------------------------------------------------
(* Properties.                                                             *)

(* The listener runs with a certificate and a key that belong together,    *)
(* through renewals, restarts and losses of power, unless a stop has hit   *)
(* between the two renames, or a loss of power before both were on disk:   *)
(* then a mixed pair, or one without its key, is accepted until it is due  *)
(* (ensure_identity compares no keys and synchronises nothing).            *)
PairMatches ==
    listener.step = "running" => identity.cert = identity.key \/ torn

(* Every time key that was handed to devices is the one that signs,        *)
(* through restarts, changes of the options and losses of power, unless a  *)
(* stop hit before the directory of a new key was synchronised             *)
(* (load_signer; DOCS.md, "Rotation is deliberate reprovisioning of each   *)
(* device's public pin").                                                  *)
PinnedKeyStays == pinned \subseteq {key.key} \/ cut

(* Signed time is shown as healthy only if it could sign under the present *)
(* options since the host was booted, however stamps and files outlive     *)
(* restarts (public_configuration, "A persisted healthy bit is never a     *)
(* post-reboot health assertion").                                         *)
HealthOfThisBoot == ShownHealthy => options \in able

(* gunicorn runs and can load the pair; it starts with any two files.      *)
Serving == listener.step = "running" /\ identity.cert = identity.key

(* Once the CA is set up, the listener gets to run in the end, through     *)
(* faults at any point of its start and whatever the options of signed     *)
(* time are ("A time configuration fault must not take certificate         *)
(* services down"), and it serves unless its files were torn: with a mixed *)
(* pair it runs on and no connection succeeds.                             *)
ListenerServes ==
    ca.setup ~> [](Serving \/ (listener.step = "running" /\ torn))

=============================================================================
