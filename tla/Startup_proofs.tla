--------------------------- MODULE Startup_proofs --------------------------
(***************************************************************************)
(* Theorems about Startup for every value of its constants.                *)
(***************************************************************************)
EXTENDS Startup, TLAPS

(* A stopped add-on has no processes. *)
Down == ~up => listener.step = "off" /\ time.step = "off"

(* Certificate and key differ between the two renames only, after a stop   *)
(* there, or after a loss of power before both were on disk.               *)
PairInv ==
    /\ identity.cert # identity.key => torn \/ listener.step = "renamed"
    /\ listener.step = "renamed" => identity.cert = listener.pair

(* A key is made only where none is, and what is handed out is durable:    *)
(* until the directory has been synchronised nothing has been published.   *)
KeySteps ==
    /\ ~key.exists => key = NoKey
    /\ time.step = "create" => ~key.exists
    /\ time.step = "write" => key.exists /\ key.key = 0 /\ ~key.synced
    /\ time.step = "sync" => key.exists
    /\ time.step = "run" => time.key = key.key

KeyDurable ==
    /\ pinned \subseteq {key.key}
    /\ status.key \in {0, key.key}
    /\ key.synced \/ key.key = 0 \/ time.step = "sync"
    /\ key.synced \/ (pinned = {} /\ status.key = 0)

HealthInv == status.thisBoot /\ status.healthy => status.hash \in able

(* The inductive invariant. *)
IInv == TypeOK /\ Down /\ PairInv /\ KeySteps /\ (cut \/ KeyDurable) /\ HealthInv

-----------------------------------------------------------------------------
LEMMA NoneTypes ==
    /\ Ended \in Time /\ Unhealthy \in Status /\ NoKey \in Key
    /\ [Ended EXCEPT !.step = "load"] \in Time
    /\ \A p \in 0..MaxPairs, s \in {"off", "waiting", "looking", "signed", "running"} :
         Listen(s, p) \in Listener
    /\ 0 \in 0..MaxPairs /\ 0 \in 0..MaxKeys /\ 0 \in 0..MaxFaults
    /\ Pairs \subseteq 0..MaxPairs /\ Pairs \cup {0, Empty} \subseteq Contents
<1>1. /\ 0 \in 0..MaxPairs /\ 0 \in 0..MaxKeys /\ 0 \in 0..MaxFaults
      /\ Pairs \subseteq 0..MaxPairs /\ Pairs \cup {0, Empty} \subseteq Contents
  BY StartupAssumption DEF Pairs, Empty, Contents
<1>2. Off \in Options
  BY DEF Options
<1>3. Ended \in Time /\ [Ended EXCEPT !.step = "load"] \in Time
  BY <1>1, <1>2 DEF Ended, Time
<1>4. Unhealthy \in Status /\ NoKey \in Key
  BY <1>1 DEF Unhealthy, Status, NoKey, Key
<1>5. ASSUME NEW p \in 0..MaxPairs,
             NEW s \in {"off", "waiting", "looking", "signed", "running"}
      PROVE  Listen(s, p) \in Listener
  BY DEF Listen, Listener
<1> QED
  BY <1>1, <1>3, <1>4, <1>5

LEMMA JustType ==
    ASSUME NEW pair \in Identity
    PROVE  Just(pair) \in Disk
BY DEF Just, Identity, Disk

LEMMA InitIInv == Init => IInv
<1> SUFFICES ASSUME Init PROVE IInv
  OBVIOUS
<1>1. identity \in Identity /\ listener \in Listener /\ ca \in [setup : BOOLEAN, online : BOOLEAN]
  BY NoneTypes DEF Init, Identity
<1>5. disk \in Disk
  BY <1>1, JustType DEF Init
<1>2. time \in Time /\ time.step = "off"
  BY NoneTypes DEF Init, Ended
<1>3. TypeOK
  BY <1>1, <1>2, <1>5, NoneTypes DEF Init, TypeOK, Signing
<1>4. Down /\ PairInv /\ KeySteps /\ KeyDurable /\ HealthInv
  BY DEF Init, Down, PairInv, KeySteps, KeyDurable, HealthInv, Listen, Ended, NoKey, Unhealthy
<1> QED
  BY <1>3, <1>4 DEF IInv

-----------------------------------------------------------------------------
(* Types. *)

LEMMA StoppedType ==
    ASSUME TypeOK, NEW parted \in BOOLEAN, Stopped(parted)
    PROVE  /\ up' \in BOOLEAN /\ ca' \in [setup : BOOLEAN, online : BOOLEAN]
           /\ listener' \in Listener /\ time' \in Time /\ time'.step = "off"
           /\ torn' \in BOOLEAN /\ cut' \in BOOLEAN
<1>1. listener' \in Listener
  BY NoneTypes DEF Stopped
<1>2. time' \in Time /\ time'.step = "off"
  BY NoneTypes DEF Stopped, Ended
<1>3. ca' \in [setup : BOOLEAN, online : BOOLEAN] /\ torn' \in BOOLEAN /\ cut' \in BOOLEAN
  BY DEF Stopped, TypeOK
<1> QED
  BY <1>1, <1>2, <1>3 DEF Stopped

(* TypeOK, with the sets that contain no variable left closed. *)
LEMMA Typed ==
    ASSUME up' \in BOOLEAN, ca' \in [setup : BOOLEAN, online : BOOLEAN],
           listener' \in Listener, identity' \in Identity, disk' \in Disk,
           due' \subseteq Pairs, options' \in Options,
           time' \in Time, time'.step \in Signing => time'.options \in Enabled,
           time'.step = "run" => time'.key # 0,
           key' \in Key, status' \in Status, pinned' \subseteq 1..MaxKeys,
           faults' \in 0..MaxFaults, torn' \in BOOLEAN, cut' \in BOOLEAN,
           able' \subseteq Enabled
    PROVE  TypeOK'
  BY DEF TypeOK, Pairs, Contents, Empty, Listener, Identity, Disk, Options, Time, Signing,
         Key, Status

LEMMA FaultCounted ==
    ASSUME TypeOK, faults' = faults + 1, faults < MaxFaults
    PROVE  faults' \in 0..MaxFaults
  BY StartupAssumption DEF TypeOK

LEMMA SupervisorType ==
    ASSUME TypeOK,
           Start \/ Stop \/ WriteBack \/ PowerLoss \/ Setup \/ StartCA \/ WaitTimesOut
    PROVE  TypeOK'
<1>1. CASE Start
  <2>1. time' \in Time /\ time'.step = "load"
    BY <1>1, NoneTypes DEF Start, Ended
  <2>2. listener' \in Listener /\ up' \in BOOLEAN
    BY <1>1, NoneTypes DEF Start
  <2>3. time'.step \notin Signing
    BY <2>1 DEF Signing
  <2>4. /\ UNCHANGED <<ca, faults, identity, disk, due, torn>>
        /\ UNCHANGED <<options, key, status, pinned, cut, able>>
    BY <1>1 DEF Start, files
  <2> QED
    BY <2>1, <2>2, <2>3, <2>4, Typed DEF TypeOK, Signing
<1>2. CASE Stop
  <2>1. UNCHANGED <<identity, disk, due>>
    BY <1>2 DEF Stop, files
  <2>2. (listener.step = "renamed") \in BOOLEAN
    OBVIOUS
  <2> QED
    BY <1>2, <2>1, <2>2, StoppedType, FaultCounted, Typed DEF Stop, TypeOK, Signing
<1>3. CASE PowerLoss
  <2>1. key' \in Key
    <3>1. key \in Key /\ key' \in {[key EXCEPT !.synced = key.exists], NoKey}
      BY <1>3 DEF PowerLoss, TypeOK
    <3>2. [key EXCEPT !.synced = key.exists] \in Key
      BY <3>1 DEF Key
    <3> QED
      BY <3>1, <3>2, NoneTypes
  <2>2. status' \in Status
    BY <1>3 DEF PowerLoss, TypeOK, Status
  <2>3. identity' \in Identity
    BY <1>3 DEF PowerLoss, TypeOK, Disk, Identity
  <2>4. disk' \in Disk /\ due' \subseteq Pairs
    BY <1>3, <2>3, JustType DEF PowerLoss, TypeOK
  <2>5. (listener.step = "renamed" \/ disk # Just(identity)) \in BOOLEAN
    OBVIOUS
  <2> QED
    BY <1>3, <2>1, <2>2, <2>3, <2>4, <2>5, StoppedType, FaultCounted, Typed
       DEF PowerLoss, TypeOK, Signing
<1>4. CASE Setup \/ StartCA
  BY <1>4, Typed DEF Setup, StartCA, TypeOK, provisioning, files, timing
<1>6. CASE WriteBack
  <2>1. UNCHANGED host /\ UNCHANGED <<listener, identity, torn>> /\ UNCHANGED timing
    BY <1>6 DEF WriteBack
  <2>2. disk' \in Disk /\ due' \subseteq Pairs
    BY <1>6, JustType DEF WriteBack, TypeOK
  <2> QED
    BY <2>1, <2>2, Typed DEF TypeOK, host, timing
<1>5. CASE WaitTimesOut
  <2>1. faults' \in 0..MaxFaults
    BY <1>5, FaultCounted DEF WaitTimesOut, TypeOK
  <2>2. UNCHANGED <<identity, disk, due>>
    BY <1>5 DEF WaitTimesOut, files
  <2> QED
    BY <1>5, <2>1, <2>2, StoppedType, Typed DEF WaitTimesOut, TypeOK, Signing
<1> QED
  BY <1>1, <1>2, <1>3, <1>4, <1>5, <1>6

LEMMA ListenerType ==
    ASSUME TypeOK, ListenerStep \/ FallDue
    PROVE  TypeOK'
<1>1. UNCHANGED host /\ UNCHANGED timing
  BY DEF ListenerStep, FallDue, CAIsReady, Accept, Sign, RenameCertificate, RenameKey
<1>2. listener' \in Listener /\ due' \subseteq Pairs
  <2>1. CASE CAIsReady \/ Accept
    BY <2>1, NoneTypes DEF CAIsReady, Accept, files, TypeOK
  <2>2. CASE Sign
    <3> DEFINE pair == CHOOSE p \in NewPairs : TRUE
    <3>1. pair \in NewPairs
      BY <2>2 DEF Sign
    <3>2. pair \in 0..MaxPairs
      BY <3>1, NoneTypes DEF NewPairs
    <3>3. listener' = Listen("signed", pair) /\ due' = due \ {pair}
      BY <2>2 DEF Sign
    <3> HIDE DEF pair
    <3> QED
      BY <3>2, <3>3, NoneTypes DEF TypeOK
  <2>3. CASE RenameCertificate \/ RenameKey
    BY <2>3, NoneTypes DEF RenameCertificate, RenameKey, TypeOK, Listener
  <2>4. CASE FallDue
    BY <2>4 DEF FallDue, TypeOK
  <2> QED
    BY <2>1, <2>2, <2>3, <2>4 DEF ListenerStep
<1>3. identity' \in Identity /\ disk' \in Disk
  <2>1. CASE CAIsReady \/ Accept \/ Sign \/ FallDue
    BY <2>1 DEF CAIsReady, Accept, Sign, FallDue, files, TypeOK
  <2>2. {listener.pair, Empty} \subseteq Contents
    BY NoneTypes, StartupAssumption DEF TypeOK, Listener, Pairs, Contents, Empty
  <2>3. CASE RenameCertificate
    BY <2>2, <2>3 DEF RenameCertificate, TypeOK, Identity, Disk
  <2>4. CASE RenameKey
    BY <2>2, <2>4 DEF RenameKey, TypeOK, Identity, Disk
  <2> QED
    BY <2>1, <2>3, <2>4 DEF ListenerStep
<1>4. torn' \in BOOLEAN
  BY DEF ListenerStep, FallDue, CAIsReady, Accept, Sign, RenameCertificate, RenameKey, TypeOK
<1> QED
  BY <1>1, <1>2, <1>3, <1>4, Typed DEF TypeOK, host, timing

LEMMA TimeType ==
    ASSUME TypeOK, TimeStep \/ (\E healthy \in BOOLEAN : Publish(healthy))
    PROVE  TypeOK'
<1>1. UNCHANGED host /\ UNCHANGED provisioning
      /\ UNCHANGED <<options, pinned, cut>>
  BY DEF TimeStep, LoadOptions, CreateKey, WriteKey, SyncDirectory, OpenKey, Publish
<1>2. /\ time' \in Time
      /\ time'.step \in Signing => time'.options \in Enabled
      /\ time'.step = "run" => time'.key # 0
  <2>1. CASE LoadOptions
    BY <2>1 DEF LoadOptions, TypeOK, Time, Signing
  <2>2. CASE CreateKey
    <3> DEFINE new == CHOOSE k \in NewKeys : TRUE
    <3>1. new \in NewKeys
      BY <2>2 DEF CreateKey
    <3>2. new \in 0..MaxKeys
      BY <3>1, StartupAssumption DEF NewKeys
    <3>3. time' = [time EXCEPT !.step = "write", !.key = new] /\ time.step = "create"
      BY <2>2 DEF CreateKey
    <3> HIDE DEF new
    <3> QED
      BY <3>2, <3>3 DEF TypeOK, Time, Signing
  <2>3. CASE WriteKey \/ SyncDirectory
    BY <2>3, NoneTypes DEF WriteKey, SyncDirectory, TypeOK, Time, Signing
  <2>4. CASE OpenKey
    BY <2>4 DEF OpenKey, TypeOK, Time, Key, Signing
  <2>5. CASE \E healthy \in BOOLEAN : Publish(healthy)
    BY <2>5 DEF Publish, TypeOK
  <2> QED
    BY <2>1, <2>2, <2>3, <2>4, <2>5 DEF TimeStep
<1>3. key' \in Key
  BY NoneTypes
     DEF TimeStep, LoadOptions, CreateKey, WriteKey, SyncDirectory, OpenKey, Publish,
         TypeOK, Key, NoKey, Time
<1>4. status' \in Status /\ able' \subseteq Enabled
  <2>1. CASE TimeStep
    BY <2>1, NoneTypes
       DEF TimeStep, LoadOptions, CreateKey, WriteKey, SyncDirectory, OpenKey, TypeOK
  <2>2. CASE \E healthy \in BOOLEAN : Publish(healthy)
    BY <2>2 DEF Publish, TypeOK, Status, Time, Signing
  <2> QED
    BY <2>1, <2>2
<1> QED
  BY <1>1, <1>2, <1>3, <1>4, Typed DEF TypeOK, host, provisioning, files

LEMMA AdministratorType ==
    ASSUME TypeOK, StatusAges \/ (\E o \in Options : Configure(o)) \/ Export
    PROVE  TypeOK'
<1>1. UNCHANGED host /\ UNCHANGED provisioning /\ UNCHANGED <<time, key, cut, able>>
  BY DEF StatusAges, Configure, Export
<1>2. options' \in Options
  BY DEF StatusAges, Configure, Export, TypeOK
<1>3. status' \in Status
  BY DEF StatusAges, Configure, Export, TypeOK, Status
<1>4. pinned' \subseteq 1..MaxKeys
  BY StartupAssumption DEF StatusAges, Configure, Export, TypeOK, Status
<1> QED
  BY <1>1, <1>2, <1>3, <1>4, Typed DEF TypeOK, host, provisioning, files, Signing

LEMMA NextType ==
    ASSUME TypeOK, Next
    PROVE  TypeOK'
BY SupervisorType, ListenerType, TimeType, AdministratorType DEF Next

-----------------------------------------------------------------------------
(* Processes. *)

LEMMA NextDown ==
    ASSUME Down, Next
    PROVE  Down'
<1>1. CASE Start \/ (\E parted \in BOOLEAN : Stopped(parted))
  BY <1>1 DEF Start, Stopped, Down, Listen, Ended
<1>2. CASE Setup \/ StartCA \/ WriteBack
  BY <1>2 DEF Setup, StartCA, WriteBack, Down, host, provisioning, timing
<1>3. CASE ListenerStep \/ FallDue
  <2>1. UNCHANGED host /\ UNCHANGED timing
    BY <1>3 DEF ListenerStep, FallDue, CAIsReady, Accept, Sign, RenameCertificate, RenameKey
  <2>2. listener.step = "off" => UNCHANGED listener
    BY <1>3 DEF ListenerStep, FallDue, CAIsReady, Accept, Sign, RenameCertificate, RenameKey
  <2> QED
    BY <2>1, <2>2 DEF Down, host, timing
<1>4. CASE TimeStep \/ (\E healthy \in BOOLEAN : Publish(healthy))
  <2>1. UNCHANGED host /\ UNCHANGED provisioning
    BY <1>4 DEF TimeStep, LoadOptions, CreateKey, WriteKey, SyncDirectory, OpenKey, Publish
  <2>2. time.step # "off"
    BY <1>4 DEF TimeStep, LoadOptions, CreateKey, WriteKey, SyncDirectory, OpenKey, Publish
  <2> QED
    BY <2>1, <2>2 DEF Down, host, provisioning
<1>5. CASE StatusAges \/ (\E o \in Options : Configure(o)) \/ Export
  BY <1>5 DEF StatusAges, Configure, Export, Down, host, provisioning
<1>6. Stop \/ PowerLoss \/ WaitTimesOut => \E parted \in BOOLEAN : Stopped(parted)
  BY DEF Stop, PowerLoss, WaitTimesOut
<1> QED
  BY <1>1, <1>2, <1>3, <1>4, <1>5, <1>6 DEF Next

-----------------------------------------------------------------------------
(* The listener's pair. *)

LEMMA NextPair ==
    ASSUME TypeOK, Down, PairInv, Next
    PROVE  PairInv'
<1>1. CASE UNCHANGED provisioning
  BY <1>1 DEF provisioning, files, PairInv
<1>2. CASE Stop \/ WaitTimesOut
  <2>1. UNCHANGED identity /\ listener'.step # "renamed"
    BY <1>2 DEF Stop, WaitTimesOut, Stopped, Listen, files
  <2>2. listener.step = "renamed" => torn'
    BY <1>2 DEF Stop, WaitTimesOut, Stopped
  <2>3. torn => torn'
    BY <1>2 DEF Stop, WaitTimesOut, Stopped
  <2> QED
    BY <2>1, <2>2, <2>3 DEF PairInv
<1>3. CASE Start
  BY <1>3 DEF Start, Down, PairInv, Listen, files
<1>4. CASE CAIsReady \/ Accept \/ Sign
  <2>1. UNCHANGED <<identity, torn>> /\ listener.step # "renamed" /\ listener'.step # "renamed"
    BY <1>4 DEF CAIsReady, Accept, Sign, Listen, files
  <2> QED
    BY <2>1 DEF PairInv
<1>5. CASE RenameCertificate
  <2>1. listener'.step = "renamed" /\ identity'.cert = listener'.pair
    BY <1>5 DEF RenameCertificate, TypeOK, Listener, Identity
  <2> QED
    BY <2>1 DEF PairInv
<1>6. CASE RenameKey
  <2>1. identity'.cert = identity'.key /\ listener'.step = "running"
    BY <1>6 DEF RenameKey, PairInv, TypeOK, Identity, Listen
  <2> QED
    BY <2>1 DEF PairInv
<1>7. CASE FallDue
  BY <1>7 DEF FallDue, PairInv, TypeOK, Identity
<1>8. CASE PowerLoss
  <2>1. listener'.step # "renamed"
    BY <1>8 DEF PowerLoss, Stopped, Listen
  <2>2. CASE torn'
    BY <2>1, <2>2 DEF PairInv
  <2>3. CASE ~torn'
    <3>1. ~torn /\ listener.step # "renamed" /\ disk = Just(identity)
      BY <1>8, <2>3 DEF PowerLoss, Stopped
    <3>2. identity'.cert = identity.cert /\ identity'.key = identity.key
      BY <1>8, <3>1 DEF PowerLoss, Just
    <3> QED
      BY <2>1, <3>1, <3>2 DEF PairInv
  <2> QED
    BY <2>2, <2>3
<1>10. CASE WriteBack
  BY <1>10 DEF WriteBack, PairInv
<1>9. Setup \/ StartCA \/ TimeStep \/ (\E healthy \in BOOLEAN : Publish(healthy))
      \/ StatusAges \/ (\E o \in Options : Configure(o)) \/ Export
      => UNCHANGED provisioning
  BY DEF Setup, StartCA, TimeStep, LoadOptions, CreateKey, WriteKey, SyncDirectory, OpenKey,
         Publish, StatusAges, Configure, Export
<1> QED
  BY <1>1, <1>2, <1>3, <1>4, <1>5, <1>6, <1>7, <1>8, <1>9, <1>10 DEF Next, ListenerStep

-----------------------------------------------------------------------------
(* The time key. *)

LEMMA NextKeySteps ==
    ASSUME TypeOK, KeySteps, Next
    PROVE  KeySteps'
<1> USE DEF KeySteps
<1>1. CASE UNCHANGED <<key, time>>
  BY <1>1
<1>2. CASE Start
  BY <1>2 DEF Start, Ended
<1>3. CASE Stop \/ WaitTimesOut \/ PowerLoss
  <2>1. time'.step = "off"
    <3>1. \E parted \in BOOLEAN : Stopped(parted)
      BY <1>3 DEF Stop, WaitTimesOut, PowerLoss
    <3> QED
      BY <3>1 DEF Stopped, Ended
  <2>2. ~key'.exists => key' = NoKey
    <3>1. CASE PowerLoss
      BY <3>1 DEF PowerLoss, TypeOK, Key, NoKey
    <3>2. CASE Stop \/ WaitTimesOut
      BY <3>2 DEF Stop, WaitTimesOut
    <3> QED
      BY <1>3, <3>1, <3>2
  <2> QED
    BY <2>1, <2>2
<1>4. CASE LoadOptions
  BY <1>4 DEF LoadOptions, TypeOK, Time
<1>5. CASE CreateKey
  <2> DEFINE new == CHOOSE k \in NewKeys : TRUE
  <2>1. time' = [time EXCEPT !.step = "write", !.key = new] /\ key' = [NoKey EXCEPT !.exists = TRUE]
    BY <1>5 DEF CreateKey
  <2> HIDE DEF new
  <2>2. time'.step = "write"
    BY <2>1 DEF TypeOK, Time
  <2>3. key'.exists /\ key'.key = 0 /\ ~key'.synced
    BY <2>1 DEF NoKey
  <2> QED
    BY <2>2, <2>3
<1>6. CASE WriteKey
  <2>1. time'.step = "sync" /\ key.exists /\ key'.exists
    BY <1>6 DEF WriteKey, TypeOK, Time, Key, NoKey
  <2> QED
    BY <2>1
<1>7. CASE SyncDirectory
  BY <1>7 DEF SyncDirectory, TypeOK, Time, Key
<1>8. CASE OpenKey
  BY <1>8 DEF OpenKey, TypeOK, Time
<1>10. Setup \/ StartCA \/ WriteBack \/ ListenerStep \/ FallDue \/ (\E healthy \in BOOLEAN : Publish(healthy))
       \/ StatusAges \/ (\E o \in Options : Configure(o)) \/ Export
       => UNCHANGED <<key, time>>
  BY DEF Setup, StartCA, WriteBack, ListenerStep, CAIsReady, Accept, Sign, RenameCertificate, RenameKey,
         FallDue, Publish, StatusAges, Configure, Export, timing
<1> QED
  BY <1>1, <1>2, <1>3, <1>4, <1>5, <1>6, <1>7, <1>8, <1>10 DEF Next, TimeStep

LEMMA NextDurable ==
    ASSUME TypeOK, Down, KeySteps, cut \/ KeyDurable, Next
    PROVE  (cut \/ KeyDurable)'
<1>1. CASE UNCHANGED <<key, time, status, pinned, cut>>
  BY <1>1 DEF KeyDurable
<1>2. CASE cut /\ cut'
  BY <1>2
<1>3. cut => cut'
  BY DEF Next, Start, Stop, PowerLoss, WaitTimesOut, Stopped, Setup, StartCA, WriteBack, ListenerStep,
         CAIsReady, Accept, Sign, RenameCertificate, RenameKey, FallDue, TimeStep,
         LoadOptions, CreateKey, WriteKey, SyncDirectory, OpenKey, Publish, StatusAges,
         Configure, Export, host, provisioning, timing
<1> SUFFICES ASSUME KeyDurable, ~cut', Next PROVE KeyDurable'
  BY <1>3
<1> USE DEF KeyDurable
<1>4. CASE Start
  BY <1>4 DEF Start, Down
<1>5. CASE Stop \/ WaitTimesOut
  <2>1. time.step # "sync" /\ UNCHANGED <<key, status, pinned>>
    BY <1>5 DEF Stop, WaitTimesOut, Stopped, TypeOK
  <2> QED
    BY <2>1
<1>6. CASE PowerLoss
  <2>1. time.step # "sync" /\ UNCHANGED pinned /\ status'.key = status.key
    BY <1>6 DEF PowerLoss, Stopped, TypeOK, Status
  <2>2. CASE key.synced
    <3>1. key' = key
      BY <2>2, <1>6 DEF PowerLoss, KeySteps, NoKey, TypeOK, Key
    <3> QED
      BY <2>1, <3>1
  <2>3. CASE ~key.synced
    <3>1. key.key = 0 /\ pinned = {} /\ status.key = 0
      BY <2>1, <2>3
    <3>2. key'.key = 0
      BY <1>6, <3>1 DEF PowerLoss, NoKey, TypeOK, Key
    <3> QED
      BY <2>1, <3>1, <3>2
  <2> QED
    BY <2>2, <2>3
<1>7. CASE LoadOptions \/ OpenKey
  <2>1. time.step # "sync" /\ UNCHANGED <<key, pinned>> /\ status'.key \in {0, status.key}
    BY <1>7 DEF LoadOptions, OpenKey, Unhealthy
  <2> QED
    BY <2>1
<1>8. CASE CreateKey
  <2>1. ~key.synced /\ UNCHANGED <<pinned, status>>
    BY <1>8 DEF CreateKey, KeySteps, NoKey
  <2>2. key'.key = 0
    BY <1>8 DEF CreateKey, NoKey
  <2> QED
    BY <2>1, <2>2
<1>9. CASE WriteKey
  <2>1. ~key.synced /\ UNCHANGED <<pinned, status>> /\ time'.step = "sync"
    BY <1>9 DEF WriteKey, KeySteps, TypeOK, Time
  <2> QED
    BY <2>1
<1>10. CASE SyncDirectory
  <2>1. key'.synced /\ key'.key = key.key /\ UNCHANGED <<pinned, status>>
    BY <1>10 DEF SyncDirectory, TypeOK, Key
  <2> QED
    BY <2>1
<1>11. CASE \E healthy \in BOOLEAN : Publish(healthy)
  <2>1. time.step = "run" /\ status'.key = time.key /\ UNCHANGED <<key, time, pinned>>
    BY <1>11 DEF Publish
  <2>2. time.key = key.key /\ key.key # 0
    BY <2>1 DEF KeySteps, TypeOK
  <2>3. key.synced
    BY <2>1, <2>2
  <2> QED
    BY <2>1, <2>2, <2>3
<1>12. CASE StatusAges
  <2>1. status'.key = status.key /\ UNCHANGED <<key, time, pinned>>
    BY <1>12 DEF StatusAges, TypeOK, Status
  <2> QED
    BY <2>1
<1>13. CASE Export
  BY <1>13 DEF Export
<1>14. Setup \/ StartCA \/ WriteBack \/ ListenerStep \/ FallDue \/ (\E o \in Options : Configure(o))
       => UNCHANGED <<key, time, status, pinned, cut>>
  BY DEF Setup, StartCA, WriteBack, ListenerStep, CAIsReady, Accept, Sign, RenameCertificate, RenameKey,
         FallDue, Configure, timing
<1> QED
  BY <1>1, <1>4, <1>5, <1>6, <1>7, <1>8, <1>9, <1>10, <1>11, <1>12, <1>13, <1>14 DEF Next, TimeStep

-----------------------------------------------------------------------------
(* The health that is shown. *)

LEMMA NextHealth ==
    ASSUME TypeOK, HealthInv, Next
    PROVE  HealthInv'
<1> USE DEF HealthInv
<1>1. CASE UNCHANGED <<status, able>>
  BY <1>1
<1>2. CASE PowerLoss
  <2>1. status'.thisBoot = FALSE
    BY <1>2 DEF PowerLoss, TypeOK, Status
  <2> QED
    BY <2>1
<1>3. CASE LoadOptions \/ OpenKey
  <2>1. UNCHANGED able /\ (UNCHANGED status \/ ~status'.healthy)
    BY <1>3 DEF LoadOptions, OpenKey, Unhealthy
  <2> QED
    BY <2>1
<1>4. CASE \E healthy \in BOOLEAN : Publish(healthy)
  BY <1>4 DEF Publish
<1>5. CASE StatusAges
  <2>1. UNCHANGED able /\ status'.thisBoot = status.thisBoot
        /\ status'.healthy = status.healthy /\ status'.hash = status.hash
    BY <1>5 DEF StatusAges, TypeOK, Status
  <2> QED
    BY <2>1
<1>6. Start \/ Stop \/ Setup \/ StartCA \/ WriteBack \/ ListenerStep \/ WaitTimesOut \/ FallDue
      \/ CreateKey \/ WriteKey \/ SyncDirectory \/ (\E o \in Options : Configure(o)) \/ Export
      => UNCHANGED <<status, able>>
  BY DEF Start, Stop, Setup, StartCA, WriteBack, ListenerStep, CAIsReady, Accept, Sign,
         RenameCertificate, RenameKey, WaitTimesOut, FallDue, CreateKey, WriteKey,
         SyncDirectory, Configure, Export, timing
<1> QED
  BY <1>1, <1>2, <1>3, <1>4, <1>5, <1>6 DEF Next, TimeStep

-----------------------------------------------------------------------------
(* The theorems. *)

LEMMA Stutter == IInv /\ UNCHANGED vars => IInv'
BY DEF IInv, TypeOK, Down, PairInv, KeySteps, KeyDurable, HealthInv,
       vars, host, provisioning, files, timing, Identity, Disk, Contents, Empty, Pairs, Listener, Options, Time, Signing, Key, Status

LEMMA NextIInv == IInv /\ [Next]_vars => IInv'
<1>1. ASSUME IInv, Next PROVE IInv'
  BY <1>1, NextType, NextDown, NextPair, NextKeySteps, NextDurable, NextHealth DEF IInv
<1> QED
  BY <1>1, Stutter

LEMMA Invariance == Spec => []IInv
BY InitIInv, NextIInv, PTL DEF Spec

(* Every variable stays in its set; the signed-time process signs under    *)
(* options that enable it, with a key (load_signer).                       *)
THEOREM TypeCorrect == Spec => []TypeOK
<1>1. IInv => TypeOK
  BY DEF IInv
<1> QED
  BY <1>1, Invariance, PTL

(* The listener never runs with a certificate and another key, but after a *)
(* stop between the two renames of ensure_identity, or a loss of power     *)
(* before both files were on disk.                                         *)
THEOREM PairServed == Spec => []PairMatches
<1>1. IInv => PairMatches
  BY DEF IInv, PairInv, PairMatches
<1> QED
  BY <1>1, Invariance, PTL

(* A time key that devices pin is the one that signs, but after a stop     *)
(* before the directory of a new key was synchronised (load_signer).       *)
THEOREM PinsStay == Spec => []PinnedKeyStays
<1>1. IInv => PinnedKeyStays
  BY DEF IInv, KeyDurable, PinnedKeyStays
<1> QED
  BY <1>1, Invariance, PTL

(* Signed time is shown healthy only if it could sign under the present    *)
(* options since the boot (public_configuration).                          *)
THEOREM HealthShown == Spec => []HealthOfThisBoot
<1>1. IInv => HealthOfThisBoot
  BY DEF IInv, HealthInv, HealthOfThisBoot, ShownHealthy
<1> QED
  BY <1>1, Invariance, PTL

=============================================================================
