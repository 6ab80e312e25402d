----------------------- MODULE EnrollmentWindow_proofs -----------------------
(***************************************************************************)
(* Theorems about EnrollmentWindow for every value of its constants.       *)
(***************************************************************************)
EXTENDS EnrollmentWindow, TLAPS, FiniteSetTheorems

(* A save that has met no other finds its own temporary file.  Unless      *)
(* saves have overlapped, every save under way is such a one.              *)
Undisturbed ==
    /\ \A a \in Admins : task[a].step = "idle" => task[a] = Idle
    /\ \A a, b \in Admins : task[a].alone /\ a # b => task[b] = Idle
    /\ \A a \in Admins : task[a].alone /\ task[a].step = "opened" =>
         task[a].target = "temp" /\ temp = Broken("empty")
    /\ \A a \in Admins : task[a].alone /\ task[a].step = "written" =>
         temp = Whole(task[a].values)
    /\ ~raced => \A a \in Admins : Busy(a) => task[a].alone

(* No file and no thread holds an opening that has been ended.             *)
Ended ==
    /\ shut \subseteq 1..opened
    /\ file.settings.until \notin shut
    /\ temp.settings.until \notin shut
    /\ \A a \in Admins : task[a].values.until \notin shut
    /\ \A a \in Admins : ~task[a].values.enabled => task[a].values.until = 0

(* What a request has found open had not ended when it came.               *)
Found ==
    \A h \in Handlers :
        /\ request[h].over \subseteq shut \cup lapsed
        /\ request[h].step \in {"checked", "authorized"} =>
             request[h].opening \in Openings \ request[h].over

(* Every count that is under way has seen all undisturbed attempts.        *)
Counted ==
    /\ recent \ disturbed \subseteq attempts
    /\ \A h \in Counting :
         recent \ disturbed \subseteq request[h].seen /\ Cardinality(request[h].seen) < Limit
    /\ Cardinality(recent \ disturbed) <= Limit

(* The inductive invariant. *)
IInv == TypeOK /\ Undisturbed /\ KeptSettings /\ Ended /\ Found /\ Counted

-----------------------------------------------------------------------------
LEMMA Values ==
    /\ Defaults \in Settings /\ Defaults.until = 0 /\ ~Defaults.enabled
    /\ Idle \in Task /\ Idle.step = "idle" /\ Idle.values = Defaults /\ ~Idle.alone
    /\ Idle.target = "none"
    /\ NoRequest \in Request /\ NoRequest.step = "idle" /\ NoRequest.over = {}
    /\ \A s \in States : Broken(s) \in Contents
    /\ \A v \in Settings : Whole(v) \in Contents
<1>1. Defaults \in Settings /\ Defaults.until = 0 /\ ~Defaults.enabled
  BY DEF Defaults, Settings
<1>2. Idle \in Task /\ Idle.step = "idle" /\ Idle.values = Defaults /\ ~Idle.alone
      /\ Idle.target = "none"
  BY <1>1 DEF Idle, Task
<1>3. NoRequest \in Request /\ NoRequest.step = "idle" /\ NoRequest.over = {}
  BY DEF NoRequest, Request
<1>4. (\A s \in States : Broken(s) \in Contents) /\ (\A v \in Settings : Whole(v) \in Contents)
  BY <1>1 DEF Broken, Whole, Contents, States
<1> QED
  BY <1>1, <1>2, <1>3, <1>4

LEMMA Kinds ==
    /\ \A s \in {"empty", "garbled", "absent"} :
         Broken(s).settings = Defaults /\ Broken(s).state = s
    /\ \A v : Whole(v).settings = v /\ Whole(v).state = "whole"
BY DEF Broken, Whole

LEMMA InitIInv == Init => IInv
<1> SUFFICES ASSUME Init PROVE IInv
  OBVIOUS
<1>1. file \in [state : States \ {"absent"}, settings : Settings] /\ temp \in Contents
  BY Values DEF Init, States, Broken, Contents
<1>2. TypeOK
  <2>1. task \in [Admins -> Task] /\ request \in [Handlers -> Request] /\ last \in Settings
    BY Values DEF Init
  <2>2. opened \in 0..MaxOpenings /\ asked \in 0..MaxAttempts /\ restarts \in 0..MaxRestarts
    BY WindowAssumption DEF Init
  <2> QED
    BY <1>1, <2>1, <2>2 DEF Init, TypeOK
<1>3. Undisturbed /\ KeptSettings
  BY Values, Kinds DEF Init, Undisturbed, KeptSettings, Busy
<1>4. Ended /\ Found
  BY Values, Kinds DEF Init, Ended, Found
<1>5. Counted
  <2>1. Counting = {} /\ recent \ disturbed = {} /\ attempts = {}
    BY Values DEF Init, Counting
  <2> QED
    BY <2>1, FS_EmptySet, WindowAssumption DEF Counted, Counting
<1> QED
  BY <1>2, <1>3, <1>4, <1>5 DEF IInv

-----------------------------------------------------------------------------
(* The steps of a save, and what they do to the threads. *)

LEMMA Starts ==
    ASSUME TypeOK, Ended, NEW a \in Admins,
           \/ \E enabled \in BOOLEAN, zone \in Zones \cup {None} : Save(a, enabled, zone)
           \/ Open(a) \/ Close(a)
    PROVE  \E values \in Settings :
             /\ Start(a, values)
             /\ ~values.enabled => values.until = 0
             /\ \/ values.until \in {0, Read.until} /\ opened' = opened
                \/ values.until = opened + 1 /\ opened' = opened + 1 /\ opened < MaxOpenings
<1>1. Read \in Settings
  BY DEF TypeOK, Read
<1>2. CASE \E enabled \in BOOLEAN, zone \in Zones \cup {None} : Save(a, enabled, zone)
  <2>1. PICK enabled \in BOOLEAN, zone \in Zones \cup {None} : Save(a, enabled, zone)
    BY <1>2
  <2> DEFINE values == [enabled |-> enabled, zone |-> zone,
                        until |-> IF enabled THEN Read.until ELSE 0]
  <2>2. values \in Settings
    BY <1>1 DEF Settings
  <2>3. Start(a, values) /\ opened' = opened
    BY <2>1 DEF Save
  <2> QED
    BY <2>2, <2>3
<1>3. CASE Open(a)
  <2> DEFINE values == [Read EXCEPT !.until = opened + 1]
  <2>1. values \in Settings /\ values.until = opened + 1 /\ values.enabled
    BY <1>1, <1>3, WindowAssumption DEF Open, Settings, Openings, TypeOK
  <2>2. Start(a, values) /\ opened' = opened + 1 /\ opened < MaxOpenings
    BY <1>3 DEF Open
  <2> QED
    BY <2>1, <2>2
<1>4. CASE Close(a)
  <2> DEFINE values == [Read EXCEPT !.until = 0]
  <2>1. values \in Settings /\ values.until = 0
    BY <1>1 DEF Settings
  <2>2. Start(a, values) /\ opened' = opened
    BY <1>4 DEF Close
  <2> QED
    BY <2>1, <2>2
<1> QED
  BY <1>2, <1>3, <1>4

LEMMA StartTask ==
    ASSUME TypeOK, NEW a \in Admins, NEW values \in Settings, Start(a, values)
    PROVE  /\ task' \in [Admins -> Task]
           /\ task[a].step = "idle"
           /\ task'[a].step = "read" /\ task'[a].values = values
           /\ task'[a].alone <=> Others(a) = {}
           /\ \A b \in Admins \ {a} :
                /\ task'[b] = [task[b] EXCEPT !.alone = FALSE]
                /\ task'[b].step = task[b].step /\ task'[b].values = task[b].values
                /\ task'[b].target = task[b].target /\ ~task'[b].alone
<1> DEFINE new == [step |-> "read", values |-> values, target |-> "none",
                   alone |-> Others(a) = {}]
<1>1. new \in Task
  BY DEF Task
<1>2. \A b \in Admins :
        task'[b] = IF b = a THEN new ELSE [task[b] EXCEPT !.alone = FALSE]
  BY DEF Start
<1>3. \A b \in Admins : [task[b] EXCEPT !.alone = FALSE] \in Task
  BY DEF TypeOK, Task
<1>4. task' \in [Admins -> Task]
  BY <1>1, <1>3 DEF Start
<1>5. ASSUME NEW b \in Admins \ {a}
      PROVE  /\ task'[b] = [task[b] EXCEPT !.alone = FALSE]
             /\ task'[b].step = task[b].step /\ task'[b].values = task[b].values
             /\ task'[b].target = task[b].target /\ ~task'[b].alone
  <2>1. task'[b] = [task[b] EXCEPT !.alone = FALSE] /\ task[b] \in Task
    BY <1>2 DEF TypeOK
  <2> QED
    BY <2>1 DEF Task
<1>6. task[a].step = "idle" /\ task'[a] = new
  BY <1>2 DEF Start, Busy
<1>7. new.step = "read" /\ new.values = values /\ (new.alone <=> Others(a) = {})
  OBVIOUS
<1> HIDE DEF new
<1> QED
  BY <1>4, <1>5, <1>6, <1>7

LEMMA StepTask ==
    ASSUME TypeOK, NEW a \in Admins, NEW step \in {"opened", "written"},
           NEW target \in {"none", "temp"},
           Proceed(a, step, target)
    PROVE  /\ task' \in [Admins -> Task]
           /\ task'[a].step = step /\ task'[a].target = target
           /\ task'[a].values = task[a].values /\ task'[a].alone = task[a].alone
           /\ \A b \in Admins \ {a} : task'[b] = task[b]
<1> DEFINE new == [task[a] EXCEPT !.step = step, !.target = target]
<1>1. new \in Task /\ new.step = step /\ new.target = target
      /\ new.values = task[a].values /\ new.alone = task[a].alone
  BY DEF TypeOK, Task
<1>2. task' = [task EXCEPT ![a] = new]
  BY DEF Proceed
<1> HIDE DEF new
<1> QED
  BY <1>1, <1>2 DEF TypeOK

LEMMA MoveTask ==
    ASSUME TypeOK, NEW a \in Admins, Replace(a)
    PROVE  /\ task' \in [Admins -> Task]
           /\ task'[a] = Idle
           /\ \A b \in Admins \ {a} :
                /\ task'[b] = [task[b] EXCEPT !.target = Moved(task[b].target)]
                /\ task'[b].step = task[b].step /\ task'[b].values = task[b].values
                /\ task'[b].alone = task[b].alone
<1>1. \A b \in Admins : [task[b] EXCEPT !.target = Moved(task[b].target)] \in Task
  BY DEF TypeOK, Task, Moved
<1>2. task' = [b \in Admins |-> IF b = a THEN Idle
                                ELSE [task[b] EXCEPT !.target = Moved(task[b].target)]]
  BY DEF Replace
<1>3. task' \in [Admins -> Task]
  BY <1>1, <1>2, Values
<1>4. \A b \in Admins \ {a} :
        /\ task'[b].step = task[b].step /\ task'[b].values = task[b].values
        /\ task'[b].alone = task[b].alone
  BY <1>2 DEF TypeOK, Task
<1> QED
  BY <1>2, <1>3, <1>4

(* The steps of the listener, time and restarts leave the files alone. *)
LEMMA FilesStay ==
    ASSUME \/ \E h \in Handlers :
                \/ Count(h) \/ Store(h) \/ CheckWindow(h) \/ Refuse(h)
                \/ Authorize(h) \/ RefuseDisabled(h) \/ Answer(h)
           \/ \E o \in Openings : Lapse(o)
           \/ Forget
    PROVE  UNCHANGED files
<1>1. ASSUME NEW h \in Handlers,
             \/ Count(h) \/ Store(h) \/ CheckWindow(h) \/ Refuse(h)
             \/ Authorize(h) \/ RefuseDisabled(h) \/ Answer(h)
      PROVE  UNCHANGED files
  BY <1>1 DEF Count, Store, CheckWindow, Refuse, Authorize, RefuseDisabled, Answer
<1>2. ASSUME NEW o \in Openings, Lapse(o)
      PROVE  UNCHANGED files
  BY <1>2 DEF Lapse
<1> QED
  BY <1>1, <1>2 DEF Forget

-----------------------------------------------------------------------------
(* Types. *)

LEMMA Typed ==
    ASSUME file' \in [state : States \ {"absent"}, settings : Settings],
           temp' \in Contents, task' \in [Admins -> Task], opened' \in 0..MaxOpenings,
           lapsed' \subseteq Openings, request' \in [Handlers -> Request],
           attempts' \subseteq Attempts, recent' \subseteq Attempts,
           asked' \in 0..MaxAttempts, restarts' \in 0..MaxRestarts, last' \in Settings,
           raced' \in BOOLEAN, shut' \subseteq Openings, disturbed' \subseteq Attempts
    PROVE  TypeOK'
BY DEF TypeOK, States, Settings, Contents, Task, Openings, Request, Attempts

LEMMA WrittenType ==
    ASSUME NEW old, NEW values \in Settings, NEW new \in Written(old, values)
    PROVE  /\ new = Whole(values) \/ new = Broken("garbled")
           /\ new \in Contents /\ new.state # "absent"
           /\ old = Broken("empty") => new = Whole(values)
<1>1. new = Whole(values) \/ new = Broken("garbled")
  BY DEF Written
<1>2. new \in Contents /\ new.state # "absent"
  BY <1>1, Values, Kinds DEF States
<1>3. old = Broken("empty") => new = Whole(values)
  BY Kinds DEF Written
<1> QED
  BY <1>1, <1>2, <1>3

LEMMA AdminType ==
    ASSUME TypeOK, Ended, NEW a \in Admins,
           \/ \E enabled \in BOOLEAN, zone \in Zones \cup {None} : Save(a, enabled, zone)
           \/ Open(a) \/ Close(a) \/ OpenTemp(a)
           \/ WriteTemp(a) \/ WriteFile(a) \/ WriteNowhere(a)
           \/ Replace(a) \/ ReplaceFails(a)
    PROVE  TypeOK'
<1>1. CASE \/ \E enabled \in BOOLEAN, zone \in Zones \cup {None} : Save(a, enabled, zone)
           \/ Open(a) \/ Close(a)
  <2>1. PICK values \in Settings :
          /\ Start(a, values)
          /\ \/ opened' = opened
             \/ opened' = opened + 1 /\ opened < MaxOpenings
    BY <1>1, Starts
  <2>2. task' \in [Admins -> Task]
    BY <2>1, StartTask
  <2>3. opened' \in 0..MaxOpenings
    BY <2>1, WindowAssumption DEF TypeOK
  <2>4. UNCHANGED <<file, temp, last, shut, lapsed, request, counts, restarts>>
        /\ raced' \in BOOLEAN
    BY <2>1 DEF Start, TypeOK
  <2> QED
    BY <2>2, <2>3, <2>4, Typed DEF TypeOK, counts
<1>2. CASE OpenTemp(a)
  <2>1. task' \in [Admins -> Task]
    BY <1>2, StepTask DEF OpenTemp
  <2>2. temp' \in Contents
    BY <1>2, Values DEF OpenTemp, States
  <2> QED
    BY <1>2, <2>1, <2>2, Typed DEF OpenTemp, TypeOK, counts
<1>3. CASE WriteTemp(a) \/ WriteFile(a)
  <2>1. task' \in [Admins -> Task]
    BY <1>3, StepTask DEF WriteTemp, WriteFile, WriteTo
  <2>2. task[a].values \in Settings
    BY DEF TypeOK, Task
  <2>3. temp' \in Contents
    BY <1>3, <2>2, WrittenType DEF WriteTemp, WriteFile, WriteTo, TypeOK
  <2>4. file' \in [state : States \ {"absent"}, settings : Settings]
    BY <1>3, <2>2, WrittenType DEF WriteTemp, WriteFile, WriteTo, TypeOK, Contents
  <2>5. UNCHANGED <<opened, last, raced, shut, lapsed, request, counts, restarts>>
    BY <1>3 DEF WriteTemp, WriteFile, WriteTo
  <2> QED
    BY <2>1, <2>3, <2>4, <2>5, Typed DEF TypeOK, counts
<1>4. CASE WriteNowhere(a)
  <2>1. task' \in [Admins -> Task]
    BY <1>4, StepTask DEF WriteNowhere
  <2> QED
    BY <1>4, <2>1, Typed DEF WriteNowhere, TypeOK, counts
<1>5. CASE Replace(a)
  <2>1. task' \in [Admins -> Task]
    BY <1>5, MoveTask
  <2>2. file' \in [state : States \ {"absent"}, settings : Settings] /\ temp' \in Contents
    BY <1>5, Values DEF Replace, TypeOK, Contents, States
  <2>3. last' \in Settings /\ raced' \in BOOLEAN
    BY <1>5 DEF Replace, TypeOK, Task
  <2>4. shut' \subseteq Openings
    <3>1. 1..opened \subseteq Openings
      BY WindowAssumption DEF TypeOK, Openings
    <3> QED
      BY <1>5, <3>1 DEF Replace, TypeOK
  <2>5. UNCHANGED <<opened, lapsed, request, counts, restarts>>
    BY <1>5 DEF Replace
  <2> QED
    BY <2>1, <2>2, <2>3, <2>4, <2>5, Typed DEF TypeOK, counts
<1>6. CASE ReplaceFails(a)
  <2>1. task' \in [Admins -> Task]
    BY <1>6, Values DEF ReplaceFails, TypeOK
  <2> QED
    BY <1>6, <2>1, Typed DEF ReplaceFails, TypeOK, counts
<1> QED
  BY <1>1, <1>2, <1>3, <1>4, <1>5, <1>6

LEMMA HandlerType ==
    ASSUME TypeOK, NEW h \in Handlers,
           \/ Count(h) \/ Store(h) \/ CheckWindow(h) \/ Refuse(h)
           \/ Authorize(h) \/ RefuseDisabled(h) \/ Answer(h)
    PROVE  TypeOK'
<1> USE DEF TypeOK
<1>1. request' \in [Handlers -> Request]
  <2>1. CASE Count(h)
    BY <2>1, Values DEF Count, Request, NoRequest
  <2>2. CASE Store(h)
    BY <2>2 DEF Store, Request
  <2>3. CASE CheckWindow(h)
    <3>1. Read.until \in {0} \cup Openings
      BY DEF Read, Settings
    <3> QED
      BY <2>3, <3>1 DEF CheckWindow, Request
  <2>4. CASE Refuse(h) \/ RefuseDisabled(h) \/ Answer(h)
    BY <2>4, Values DEF Refuse, RefuseDisabled, Answer, End
  <2>5. CASE Authorize(h)
    BY <2>5 DEF Authorize, Continue, Request
  <2> QED
    BY <2>1, <2>2, <2>3, <2>4, <2>5
<1>2. /\ attempts' \subseteq Attempts /\ recent' \subseteq Attempts
      /\ asked' \in 0..MaxAttempts /\ disturbed' \subseteq Attempts
  <2>1. CASE Store(h)
    <3>1. asked + 1 \in Attempts /\ asked + 1 \in 0..MaxAttempts
      BY <2>1, WindowAssumption DEF Store, Attempts
    <3> QED
      BY <2>1, <3>1 DEF Store
  <2>2. ~Store(h) => UNCHANGED counts
    BY DEF Count, CheckWindow, Refuse, Authorize, RefuseDisabled, Answer
  <2> QED
    BY <2>1, <2>2 DEF counts
<1>3. UNCHANGED <<lapsed, restarts>>
  BY DEF Count, Store, CheckWindow, Refuse, Authorize, RefuseDisabled, Answer
<1> QED
  BY <1>1, <1>2, <1>3, FilesStay, Typed DEF files

LEMMA NextType ==
    ASSUME TypeOK, Ended, Next
    PROVE  TypeOK'
<1>1. CASE \E a \in Admins :
             \/ \E enabled \in BOOLEAN, zone \in Zones \cup {None} : Save(a, enabled, zone)
             \/ Open(a) \/ Close(a) \/ OpenTemp(a)
             \/ WriteTemp(a) \/ WriteFile(a) \/ WriteNowhere(a)
             \/ Replace(a) \/ ReplaceFails(a)
  BY <1>1, AdminType
<1>2. CASE \E h \in Handlers :
             \/ Count(h) \/ Store(h) \/ CheckWindow(h) \/ Refuse(h)
             \/ Authorize(h) \/ RefuseDisabled(h) \/ Answer(h)
  BY <1>2, HandlerType
<1>3. CASE \E o \in Openings : Lapse(o)
  <2>1. lapsed' \subseteq Openings
    BY <1>3 DEF Lapse, TypeOK
  <2>2. UNCHANGED <<files, counts, request, restarts>>
    BY <1>3 DEF Lapse
  <2> QED
    BY <2>1, <2>2, Typed DEF TypeOK, files, counts
<1>4. CASE Forget
  <2>1. recent' \subseteq Attempts /\ attempts' \subseteq Attempts /\ disturbed' \subseteq Attempts
    BY <1>4 DEF Forget, TypeOK
  <2>2. UNCHANGED <<files, asked, lapsed, request, restarts>>
    BY <1>4 DEF Forget
  <2> QED
    BY <2>1, <2>2, Typed DEF TypeOK, files
<1>5. CASE Restart
  <2>1. task' \in [Admins -> Task] /\ request' \in [Handlers -> Request]
    BY <1>5, Values DEF Restart
  <2>2. restarts' \in 0..MaxRestarts
    BY <1>5, WindowAssumption DEF Restart, TypeOK
  <2>3. attempts' = {} /\ recent' = {} /\ disturbed' = {}
        /\ UNCHANGED <<file, temp, opened, last, raced, shut, lapsed, asked>>
    BY <1>5 DEF Restart
  <2> QED
    BY <2>1, <2>2, <2>3, Typed DEF TypeOK
<1> QED
  BY <1>1, <1>2, <1>3, <1>4, <1>5 DEF Next

-----------------------------------------------------------------------------
(* Saves. *)

(* A thread that starts alone finds every other one idle. *)
LEMMA AloneStart ==
    ASSUME TypeOK, Undisturbed, NEW a \in Admins, Others(a) = {}, NEW b \in Admins \ {a}
    PROVE  task[b] = Idle
BY DEF Others, Busy, Undisturbed

LEMMA NextUndisturbed ==
    ASSUME TypeOK, Ended, Undisturbed, Next
    PROVE  Undisturbed'
<1> USE DEF Undisturbed
<1>1. CASE UNCHANGED files
  BY <1>1 DEF files, Busy
<1>2. CASE Restart
  BY <1>2, Values DEF Restart, Busy
<1>3. ASSUME NEW a \in Admins,
             \/ \E enabled \in BOOLEAN, zone \in Zones \cup {None} : Save(a, enabled, zone)
             \/ Open(a) \/ Close(a)
      PROVE  Undisturbed'
  <2>1. PICK values \in Settings : Start(a, values)
    BY <1>3, Starts
  <2>2. /\ task[a].step = "idle" /\ task'[a].step = "read"
        /\ task'[a].alone <=> Others(a) = {}
        /\ \A b \in Admins \ {a} :
             /\ task'[b] = [task[b] EXCEPT !.alone = FALSE]
             /\ task'[b].step = task[b].step /\ ~task'[b].alone
    BY <2>1, StartTask
  <2>3. raced' = (raced \/ Others(a) # {})
    BY <2>1 DEF Start
  <2>4. \A b \in Admins \ {a} : task[b] = Idle => task'[b] = Idle
    <3>1. [Idle EXCEPT !.alone = FALSE] = Idle
      BY Values DEF Task
    <3> QED
      BY <2>2, <3>1
  <2>5. Others(a) = {} => \A b \in Admins \ {a} : task'[b] = Idle
    BY <2>4, AloneStart
  <2>6. ASSUME NEW b \in Admins, task'[b].step = "idle"
        PROVE  task'[b] = Idle
    <3>1. b # a /\ task[b].step = "idle"
      BY <2>2, <2>6
    <3>2. task[b] = Idle
      BY <3>1
    <3> QED
      BY <2>4, <3>1, <3>2
  <2>7. ~raced' => \A b \in Admins : task'[b].step # "idle" => task'[b].alone
    BY <2>2, <2>3, <2>5, Values
  <2> QED
    BY <2>2, <2>5, <2>6, <2>7 DEF Busy
<1>4. ASSUME NEW a \in Admins, OpenTemp(a)
      PROVE  Undisturbed'
  <2>1. /\ task'[a].step = "opened" /\ task'[a].target = "temp"
        /\ task'[a].values = task[a].values /\ task'[a].alone = task[a].alone
        /\ \A b \in Admins \ {a} : task'[b] = task[b]
    BY <1>4, StepTask DEF OpenTemp
  <2>2. temp' = Broken("empty") /\ raced' = raced /\ task[a].step = "read"
    BY <1>4 DEF OpenTemp
  <2>3. \A b \in Admins \ {a} : ~task[b].alone
    BY <2>2, Values
  <2> QED
    BY <2>1, <2>2, <2>3, Values DEF Busy
<1>5. ASSUME NEW a \in Admins, WriteTemp(a) \/ WriteFile(a) \/ WriteNowhere(a)
      PROVE  Undisturbed'
  <2>1. /\ task'[a].step = "written"
        /\ task'[a].values = task[a].values /\ task'[a].alone = task[a].alone
        /\ \A b \in Admins \ {a} : task'[b] = task[b]
    BY <1>5, StepTask DEF WriteTemp, WriteFile, WriteTo, WriteNowhere
  <2>2. raced' = raced /\ task[a].step = "opened"
    BY <1>5 DEF WriteTemp, WriteFile, WriteTo, WriteNowhere
  <2>3. \A b \in Admins \ {a} : ~task[b].alone
    BY <2>2, Values
  <2>4. task[a].alone => temp' = Whole(task[a].values)
    <3>1. SUFFICES ASSUME task[a].alone PROVE temp' = Whole(task[a].values)
      OBVIOUS
    <3>2. task[a].target = "temp" /\ temp = Broken("empty")
      BY <2>2, <3>1
    <3>3. temp' \in Written(temp, task[a].values)
      BY <1>5, <3>2 DEF WriteTemp, WriteFile, WriteTo, WriteNowhere
    <3> QED
      BY <3>2, <3>3, WrittenType DEF TypeOK, Task
  <2> QED
    BY <2>1, <2>2, <2>3, <2>4, Values DEF Busy
<1>6. ASSUME NEW a \in Admins, Replace(a)
      PROVE  Undisturbed'
  <2>1. /\ task'[a] = Idle
        /\ \A b \in Admins \ {a} :
             /\ task'[b] = [task[b] EXCEPT !.target = Moved(task[b].target)]
             /\ task'[b].step = task[b].step /\ task'[b].values = task[b].values
             /\ task'[b].alone = task[b].alone
    BY <1>6, MoveTask
  <2>2. \A b \in Admins \ {a} : task[b] = Idle => task'[b] = Idle
    <3>1. [Idle EXCEPT !.target = Moved(Idle.target)] = Idle
      BY DEF Idle, Moved
    <3> QED
      BY <2>1, <3>1
  <2>3. task[a].step = "written"
    BY <1>6 DEF Replace
  <2>4. \A b \in Admins \ {a} : ~task'[b].alone
    BY <2>1, <2>3, Values
  <2>5. ~raced' => \A b \in Admins \ {a} : task'[b] = Idle
    <3>1. CASE task[a].alone
      BY <2>2, <3>1
    <3>2. CASE ~task[a].alone
      <4>1. raced' = raced
        BY <1>6, <3>2 DEF Replace
      <4>2. raced
        BY <2>3, <3>2 DEF Busy
      <4> QED
        BY <4>1, <4>2
    <3> QED
      BY <3>1, <3>2
  <2>6. \A b \in Admins : task'[b].step = "idle" => task'[b] = Idle
    BY <2>1, <2>2
  <2> QED
    BY <2>1, <2>4, <2>5, <2>6, Values DEF Busy
<1>7. ASSUME NEW a \in Admins, ReplaceFails(a)
      PROVE  Undisturbed'
  <2>1. task'[a] = Idle /\ (\A b \in Admins \ {a} : task'[b] = task[b])
        /\ UNCHANGED <<temp, raced>>
    BY <1>7 DEF ReplaceFails, TypeOK
  <2> QED
    BY <2>1, Values DEF Busy
<1> QED
  BY <1>1, <1>2, <1>3, <1>4, <1>5, <1>6, <1>7, FilesStay DEF Next

LEMMA NextKept ==
    ASSUME TypeOK, Ended, Undisturbed, KeptSettings, Next
    PROVE  KeptSettings'
<1> USE DEF KeptSettings
<1>1. CASE UNCHANGED <<file, last, raced>>
  BY <1>1
<1>2. ASSUME NEW a \in Admins,
             \/ \E enabled \in BOOLEAN, zone \in Zones \cup {None} : Save(a, enabled, zone)
             \/ Open(a) \/ Close(a)
      PROVE  KeptSettings'
  <2>1. PICK values \in Settings : Start(a, values)
    BY <1>2, Starts
  <2>2. UNCHANGED <<file, last>> /\ (~raced' => ~raced)
    BY <2>1 DEF Start
  <2> QED
    BY <2>2
<1>3. ASSUME NEW a \in Admins, WriteFile(a)
      PROVE  KeptSettings'
  <2>1. task[a].target = "file" /\ task[a].step = "opened" /\ raced' = raced
    BY <1>3 DEF WriteFile, WriteTo
  <2>2. raced
    BY <2>1 DEF Undisturbed, Busy
  <2> QED
    BY <2>1, <2>2
<1>4. ASSUME NEW a \in Admins, Replace(a)
      PROVE  KeptSettings'
  <2>1. task[a].step = "written" /\ file' = temp
    BY <1>4 DEF Replace
  <2>2. CASE task[a].alone
    <3>1. temp = Whole(task[a].values) /\ last' = task[a].values
      BY <1>4, <2>1, <2>2 DEF Replace, Undisturbed
    <3> QED
      BY <2>1, <3>1, Kinds
  <2>3. CASE ~task[a].alone
    <3>1. raced /\ raced' = raced
      BY <1>4, <2>1, <2>3 DEF Replace, Undisturbed, Busy
    <3> QED
      BY <3>1
  <2> QED
    BY <2>2, <2>3
<1>5. (\E a \in Admins : OpenTemp(a) \/ WriteTemp(a) \/ WriteNowhere(a) \/ ReplaceFails(a)) \/ Restart
      => UNCHANGED <<file, last, raced>>
  BY DEF OpenTemp, WriteTemp, WriteTo, WriteNowhere, ReplaceFails, Restart
<1>6. UNCHANGED files => UNCHANGED <<file, last, raced>>
  BY DEF files
<1> QED
  BY <1>1, <1>2, <1>3, <1>4, <1>5, <1>6, FilesStay DEF Next

LEMMA NextEnded ==
    ASSUME TypeOK, Undisturbed, Ended, Next
    PROVE  Ended'
<1> USE DEF Ended
<1>0. shut \subseteq Openings /\ 0 \notin shut /\ opened \in Nat /\ opened + 1 \notin shut
  BY WindowAssumption DEF TypeOK, Openings
<1>1. CASE UNCHANGED files
  BY <1>1 DEF files
<1>2. CASE Restart
  <2>1. (\A a \in Admins : task'[a] = Idle) /\ UNCHANGED <<file, temp, opened, shut>>
    BY <1>2 DEF Restart
  <2> QED
    BY <2>1, <1>0, Values
<1>3. ASSUME NEW a \in Admins,
             \/ \E enabled \in BOOLEAN, zone \in Zones \cup {None} : Save(a, enabled, zone)
             \/ Open(a) \/ Close(a)
      PROVE  Ended'
  <2>1. PICK values \in Settings :
          /\ Start(a, values)
          /\ ~values.enabled => values.until = 0
          /\ \/ values.until \in {0, Read.until} /\ opened' = opened
             \/ values.until = opened + 1 /\ opened' = opened + 1 /\ opened < MaxOpenings
    BY <1>3, Starts
  <2>2. task'[a].values = values /\ (\A b \in Admins \ {a} : task'[b].values = task[b].values)
    BY <2>1, StartTask
  <2>3. UNCHANGED <<file, temp, shut>>
    BY <2>1 DEF Start
  <2>4. values.until \notin shut
    BY <1>0, <2>1 DEF Read
  <2>5. shut \subseteq 1..opened'
    BY <1>0, <2>1
  <2> QED
    BY <2>1, <2>2, <2>3, <2>4, <2>5
<1>4. ASSUME NEW a \in Admins,
             OpenTemp(a) \/ WriteTemp(a) \/ WriteFile(a) \/ WriteNowhere(a) \/ ReplaceFails(a)
      PROVE  Ended'
  <2>1. \A b \in Admins : task'[b].values \in {task[b].values, Defaults}
    <3>1. CASE ReplaceFails(a)
      BY <3>1, Values DEF ReplaceFails, TypeOK
    <3>2. CASE OpenTemp(a) \/ WriteTemp(a) \/ WriteFile(a) \/ WriteNowhere(a)
      BY <3>2, StepTask DEF OpenTemp, WriteTemp, WriteFile, WriteTo, WriteNowhere
    <3> QED
      BY <1>4, <3>1, <3>2
  <2>2. UNCHANGED <<opened, shut>>
    BY <1>4 DEF OpenTemp, WriteTemp, WriteFile, WriteTo, WriteNowhere, ReplaceFails
  <2>3. /\ temp'.settings \in {temp.settings, Defaults, task[a].values}
        /\ file'.settings \in {file.settings, Defaults, task[a].values}
    <3>1. CASE WriteTemp(a) \/ WriteFile(a)
      <4>1. task[a].values \in Settings
        BY DEF TypeOK, Task
      <4> QED
        BY <3>1, <4>1, WrittenType, Kinds DEF WriteTemp, WriteFile, WriteTo
    <3>2. CASE OpenTemp(a) \/ WriteNowhere(a) \/ ReplaceFails(a)
      BY <3>2, Kinds DEF OpenTemp, WriteNowhere, ReplaceFails
    <3> QED
      BY <1>4, <3>1, <3>2
  <2> QED
    BY <1>0, <2>1, <2>2, <2>3, Values
<1>5. ASSUME NEW a \in Admins, Replace(a)
      PROVE  Ended'
  <2>1. task'[a] = Idle /\ (\A b \in Admins \ {a} : task'[b].values = task[b].values)
    BY <1>5, MoveTask
  <2>2. file' = temp /\ temp' = Broken("absent") /\ opened' = opened /\ task[a].step = "written"
    BY <1>5 DEF Replace
  <2>3. \A b \in Admins : ~task'[b].values.enabled => task'[b].values.until = 0
    BY <2>1, Values
  <2>4. CASE ~task[a].alone
    <3>1. shut' = shut
      BY <1>5, <2>4 DEF Replace
    <3>2. \A b \in Admins : task'[b].values \in {task[b].values, Defaults}
      BY <2>1, Values
    <3>3. file'.settings.until \notin shut' /\ temp'.settings.until \notin shut'
      BY <1>0, <2>2, <3>1, Values, Kinds
    <3>4. \A b \in Admins : task'[b].values.until \notin shut'
      BY <1>0, <3>1, <3>2, Values
    <3>5. shut' \subseteq 1..opened'
      BY <2>2, <3>1
    <3> QED
      BY <2>3, <3>3, <3>4, <3>5
  <2>5. CASE task[a].alone
    <3>1. shut' = shut \cup ((1..opened) \ Kept(task[a].values))
      BY <1>5, <2>5 DEF Replace
    <3>2. temp = Whole(task[a].values) /\ (\A b \in Admins \ {a} : task[b] = Idle)
      BY <2>2, <2>5 DEF Undisturbed
    <3>3. task[a].values.until \notin shut'
      BY <1>0, <3>1 DEF Kept
    <3>4. shut' \subseteq 1..opened /\ 0 \notin shut'
      <4>1. shut \subseteq 1..opened /\ 0 \notin 1..opened
        BY <1>0
      <4> HIDE DEF Ended
      <4> QED
        BY <3>1, <4>1
    <3>5. \A b \in Admins : task'[b].values = Defaults
      BY <2>1, <3>2, Values
    <3> QED
      BY <2>2, <2>3, <3>2, <3>3, <3>4, <3>5, Values, Kinds
  <2> QED
    BY <2>4, <2>5
<1> QED
  BY <1>1, <1>2, <1>3, <1>4, <1>5, FilesStay DEF Next

-----------------------------------------------------------------------------
(* Requests. *)

(* What has ended stays so. *)
LEMMA EndedGrows ==
    ASSUME Next
    PROVE  shut \cup lapsed \subseteq shut' \cup lapsed'
<1>1. UNCHANGED files /\ UNCHANGED lapsed => shut \cup lapsed \subseteq shut' \cup lapsed'
  BY DEF files
<1>2. ASSUME NEW a \in Admins,
             \/ \E enabled \in BOOLEAN, zone \in Zones \cup {None} : Save(a, enabled, zone)
             \/ Open(a) \/ Close(a) \/ OpenTemp(a)
             \/ WriteTemp(a) \/ WriteFile(a) \/ WriteNowhere(a)
             \/ Replace(a) \/ ReplaceFails(a)
      PROVE  shut \subseteq shut' /\ lapsed' = lapsed
  BY <1>2 DEF Save, Open, Close, Start, OpenTemp, WriteTemp, WriteFile, WriteTo, WriteNowhere,
              Replace, ReplaceFails
<1>3. ASSUME NEW h \in Handlers,
             \/ Count(h) \/ Store(h) \/ CheckWindow(h) \/ Refuse(h)
             \/ Authorize(h) \/ RefuseDisabled(h) \/ Answer(h)
      PROVE  UNCHANGED lapsed
  BY <1>3 DEF Count, Store, CheckWindow, Refuse, Authorize, RefuseDisabled, Answer
<1>4. ASSUME NEW o \in Openings, Lapse(o)
      PROVE  lapsed \subseteq lapsed'
  BY <1>4 DEF Lapse
<1>5. Forget => UNCHANGED lapsed
  BY DEF Forget
<1>6. Restart => UNCHANGED <<shut, lapsed>>
  BY DEF Restart
<1> QED
  BY <1>1, <1>2, <1>3, <1>4, <1>5, <1>6, FilesStay DEF Next, files

LEMMA NextFound ==
    ASSUME TypeOK, Ended, Found, Next
    PROVE  Found'
<1> DEFINE Good(r) ==
      /\ r.over \subseteq shut \cup lapsed
      /\ r.step \in {"checked", "authorized"} => r.opening \in Openings \ r.over
<1>1. \A h \in Handlers : Good(request[h])
  BY DEF Found
<1>2. (\A h \in Handlers : Good(request'[h])) => Found'
  BY EndedGrows DEF Found
<1>3. Good(NoRequest)
  BY Values
<1>4. CASE UNCHANGED request
  BY <1>1, <1>2, <1>4
<1>5. CASE Restart
  BY <1>2, <1>3, <1>5 DEF Restart
<1>6. ASSUME NEW h \in Handlers, NEW r, Good(r), request' = [request EXCEPT ![h] = r]
      PROVE  Found'
  BY <1>1, <1>2, <1>6 DEF TypeOK
<1>7. ASSUME NEW h \in Handlers, Count(h)
      PROVE  Found'
  <2> DEFINE new == [NoRequest EXCEPT !.step = "counting", !.seen = attempts,
                                      !.over = shut \cup lapsed]
  <2>1. new.over = shut \cup lapsed /\ new.step = "counting"
    BY DEF NoRequest
  <2>2. request' = [request EXCEPT ![h] = new]
    BY <1>7 DEF Count
  <2> HIDE DEF new
  <2> QED
    BY <1>6, <2>1, <2>2
<1>8. ASSUME NEW h \in Handlers, Store(h)
      PROVE  Found'
  <2>1. \A g \in Handlers : request'[g].over = request[g].over
    BY <1>8 DEF Store, TypeOK, Request
  <2>2. \A g \in Handlers : request'[g].step \in {"checked", "authorized"} =>
          request'[g] = request[g]
    BY <1>8 DEF Store, TypeOK, Request
  <2> QED
    BY <1>1, <1>2, <2>1, <2>2
<1>9. ASSUME NEW h \in Handlers, CheckWindow(h)
      PROVE  Found'
  <2>1. Read.until \in Openings \ (shut \cup lapsed)
    BY <1>9 DEF CheckWindow, WindowOpen, Read, Ended, TypeOK, Settings
  <2>2. \A g \in Handlers : request'[g].over = request[g].over
    BY <1>9 DEF CheckWindow, TypeOK, Request
  <2>3. request'[h].opening = Read.until
    BY <1>9 DEF CheckWindow, TypeOK, Request
  <2>4. \A g \in Handlers \ {h} : request'[g] = request[g]
    BY <1>9 DEF CheckWindow, TypeOK
  <2>5. request[h].over \subseteq shut \cup lapsed
    BY <1>1
  <2> QED
    BY <1>1, <1>2, <2>1, <2>2, <2>3, <2>4, <2>5
<1>10. ASSUME NEW h \in Handlers, Authorize(h)
       PROVE  Found'
  <2>1. \A g \in Handlers : request'[g].over = request[g].over
                            /\ request'[g].opening = request[g].opening
    BY <1>10 DEF Authorize, Continue, TypeOK, Request
  <2>2. request[h].step = "checked" /\ (\A g \in Handlers \ {h} : request'[g] = request[g])
    BY <1>10 DEF Authorize, Continue, TypeOK
  <2> QED
    BY <1>1, <1>2, <2>1, <2>2
<1>11. ASSUME NEW h \in Handlers, Refuse(h) \/ RefuseDisabled(h) \/ Answer(h)
       PROVE  Found'
  BY <1>3, <1>6, <1>11 DEF Refuse, RefuseDisabled, Answer, End
<1>12. ASSUME NEW a \in Admins,
              \/ \E enabled \in BOOLEAN, zone \in Zones \cup {None} : Save(a, enabled, zone)
              \/ Open(a) \/ Close(a) \/ OpenTemp(a)
              \/ WriteTemp(a) \/ WriteFile(a) \/ WriteNowhere(a)
              \/ Replace(a) \/ ReplaceFails(a)
       PROVE  UNCHANGED request
  BY <1>12 DEF Save, Open, Close, Start, OpenTemp, WriteTemp, WriteFile, WriteTo, WriteNowhere,
               Replace, ReplaceFails
<1>13. (\E o \in Openings : Lapse(o)) \/ Forget => UNCHANGED request
  BY DEF Lapse, Forget
<1> QED
  BY <1>4, <1>5, <1>7, <1>8, <1>9, <1>10, <1>11, <1>12, <1>13 DEF Next

-----------------------------------------------------------------------------
(* Attempts. *)

LEMMA FiniteAttempts ==
    ASSUME NEW S \in SUBSET Attempts
    PROVE  IsFiniteSet(S) /\ Cardinality(S) \in Nat
<1>1. IsFiniteSet(Attempts)
  BY FS_Interval, WindowAssumption DEF Attempts
<1> QED
  BY <1>1, FS_Subset, FS_CardinalityType

LEMMA FewerAttempts ==
    ASSUME NEW S \in SUBSET Attempts, NEW T \in SUBSET S
    PROVE  Cardinality(T) <= Cardinality(S)
BY FiniteAttempts, FS_Subset

LEMMA NextCounted ==
    ASSUME TypeOK, Counted, Next
    PROVE  Counted'
<1> DEFINE kept == recent \ disturbed
<1>1. /\ kept \subseteq attempts /\ Cardinality(kept) <= Limit
      /\ \A h \in Handlers : request[h].step = "counting" =>
           kept \subseteq request[h].seen /\ Cardinality(request[h].seen) < Limit
  BY DEF Counted, Counting
<1>2. /\ kept \in SUBSET Attempts /\ Limit \in Nat
      /\ \A h \in Handlers : request[h].seen \in SUBSET Attempts
  BY WindowAssumption DEF TypeOK, Request
<1>3. ASSUME /\ recent' \ disturbed' \subseteq attempts'
             /\ Cardinality(recent' \ disturbed') <= Limit
             /\ \A h \in Handlers : request'[h].step = "counting" =>
                  /\ recent' \ disturbed' \subseteq request'[h].seen
                  /\ Cardinality(request'[h].seen) < Limit
      PROVE  Counted'
  BY <1>3 DEF Counted, Counting
<1>4. CASE UNCHANGED counts /\ \A h \in Handlers : request'[h].step = "counting" =>
                                 request'[h] = request[h]
  BY <1>1, <1>3, <1>4 DEF counts
<1>5. ASSUME NEW h \in Handlers, Count(h)
      PROVE  Counted'
  <2> DEFINE new == [NoRequest EXCEPT !.step = "counting", !.seen = attempts,
                                      !.over = shut \cup lapsed]
  <2>1. new.seen = attempts
    BY DEF NoRequest
  <2>2. request' = [request EXCEPT ![h] = new]
    BY <1>5 DEF Count
  <2> HIDE DEF new
  <2>3. Cardinality(attempts) < Limit /\ UNCHANGED counts
    BY <1>5 DEF Count
  <2>4. request'[h].seen = attempts /\ \A g \in Handlers \ {h} : request'[g] = request[g]
    BY <2>1, <2>2 DEF TypeOK
  <2> QED
    BY <1>1, <1>3, <2>3, <2>4 DEF counts
<1>6. ASSUME NEW h \in Handlers, Store(h)
      PROVE  Counted'
  <2> DEFINE n == asked + 1
             seen == request[h].seen
  <2>1. /\ recent' = recent \cup {n}
        /\ attempts' = (seen \cap recent) \cup {n}
        /\ disturbed' = IF Counting = {h} THEN disturbed ELSE disturbed \cup {n}
        /\ request[h].step = "counting"
    BY <1>6 DEF Store
  <2>2. /\ request'[h].step = "counted"
        /\ \A g \in Handlers \ {h} : request'[g] = request[g]
    BY <1>6 DEF Store, TypeOK, Request
  <2>3. kept \subseteq seen /\ Cardinality(seen) < Limit /\ seen \in SUBSET Attempts
    BY <1>1, <1>2, <2>1
  <2>4. recent' \ disturbed' \subseteq attempts'
    BY <2>1, <2>3
  <2>5. CASE Counting = {h}
    <3>1. \A g \in Handlers : request'[g].step # "counting"
      BY <2>2, <2>5 DEF Counting
    <3>2. recent' \ disturbed' \subseteq seen \cup {n}
      BY <2>1, <2>3, <2>5
    <3>3. n \in Attempts
      BY <1>6, WindowAssumption DEF Store, TypeOK, Attempts
    <3>4. Cardinality(seen \cup {n}) <= Cardinality(seen) + 1
      <4>1. IsFiniteSet(seen) /\ Cardinality(seen) \in Nat
        BY <2>3, FiniteAttempts
      <4>2. \/ Cardinality(seen \cup {n}) = Cardinality(seen)
            \/ Cardinality(seen \cup {n}) = Cardinality(seen) + 1
        BY <4>1, FS_AddElement
      <4> QED
        BY <4>1, <4>2
    <3>5. Cardinality(recent' \ disturbed') <= Cardinality(seen \cup {n})
      BY <2>3, <3>2, <3>3, FewerAttempts
    <3>6. /\ Cardinality(seen) \in Nat /\ Cardinality(seen \cup {n}) \in Nat
          /\ Cardinality(recent' \ disturbed') \in Nat
      BY <2>3, <3>2, <3>3, FiniteAttempts
    <3>7. Cardinality(recent' \ disturbed') <= Limit
      BY <1>2, <2>3, <3>4, <3>5, <3>6
    <3> QED
      BY <1>3, <2>4, <3>1, <3>7
  <2>6. CASE Counting # {h}
    <3>1. recent' \ disturbed' \subseteq kept
      BY <2>1, <2>6
    <3>2. Cardinality(recent' \ disturbed') <= Limit
      BY <1>1, <1>2, <3>1, FewerAttempts, FiniteAttempts
    <3> QED
      BY <1>1, <1>3, <2>2, <2>4, <3>1, <3>2
  <2> QED
    BY <2>5, <2>6
<1>7. ASSUME NEW h \in Handlers, CheckWindow(h) \/ Refuse(h) \/ Authorize(h) \/ RefuseDisabled(h) \/ Answer(h)
      PROVE  Counted'
  <2>1. UNCHANGED counts
    BY <1>7 DEF CheckWindow, Refuse, Authorize, RefuseDisabled, Answer
  <2>2. request'[h].step # "counting" /\ \A g \in Handlers \ {h} : request'[g] = request[g]
    <3>1. CASE CheckWindow(h)
      BY <3>1 DEF CheckWindow, TypeOK, Request
    <3>2. CASE Authorize(h)
      BY <3>2 DEF Authorize, Continue, TypeOK, Request
    <3>3. CASE Refuse(h) \/ RefuseDisabled(h) \/ Answer(h)
      BY <3>3, Values DEF Refuse, RefuseDisabled, Answer, End, TypeOK
    <3> QED
      BY <1>7, <3>1, <3>2, <3>3
  <2> QED
    BY <1>4, <2>1, <2>2
<1>8. CASE Forget
  <2>1. /\ recent' \subseteq recent /\ attempts' = attempts \cap recent'
        /\ disturbed' = disturbed \cap recent' /\ UNCHANGED request
    BY <1>8 DEF Forget
  <2>2. recent' \ disturbed' \subseteq kept /\ recent' \ disturbed' \subseteq attempts'
    BY <1>1, <2>1
  <2>3. Cardinality(recent' \ disturbed') <= Limit
    BY <1>1, <1>2, <2>2, FewerAttempts, FiniteAttempts
  <2> QED
    BY <1>1, <1>3, <2>1, <2>2, <2>3
<1>9. CASE Restart
  <2>1. recent' = {} /\ attempts' = {} /\ (\A h \in Handlers : request'[h] = NoRequest)
    BY <1>9 DEF Restart
  <2> QED
    BY <1>2, <1>3, <2>1, FS_EmptySet, Values
<1>10. ASSUME NEW a \in Admins,
              \/ \E enabled \in BOOLEAN, zone \in Zones \cup {None} : Save(a, enabled, zone)
              \/ Open(a) \/ Close(a) \/ OpenTemp(a)
              \/ WriteTemp(a) \/ WriteFile(a) \/ WriteNowhere(a)
              \/ Replace(a) \/ ReplaceFails(a)
       PROVE  UNCHANGED <<request, counts>>
  BY <1>10 DEF Save, Open, Close, Start, OpenTemp, WriteTemp, WriteFile, WriteTo, WriteNowhere,
               Replace, ReplaceFails
<1>11. (\E o \in Openings : Lapse(o)) => UNCHANGED <<request, counts>>
  BY DEF Lapse
<1>12. UNCHANGED <<request, counts>> => Counted'
  BY <1>4
<1> QED
  BY <1>5, <1>6, <1>7, <1>8, <1>9, <1>10, <1>11, <1>12 DEF Next

-----------------------------------------------------------------------------
(* The theorems. *)

LEMMA Stutter == IInv /\ UNCHANGED vars => IInv'
<1> SUFFICES ASSUME IInv, UNCHANGED vars PROVE IInv'
  OBVIOUS
<1>1. UNCHANGED <<file, temp, task, opened, last, raced, shut>>
      /\ UNCHANGED <<attempts, recent, asked, disturbed, lapsed, request, restarts>>
  BY DEF vars, files, counts
<1>2. TypeOK'
  BY <1>1, Typed DEF IInv, TypeOK
<1>3. Undisturbed' /\ KeptSettings' /\ Ended' /\ Found' /\ Counted'
  BY <1>1 DEF IInv, Undisturbed, KeptSettings, Ended, Found, Counted, Busy, Counting
<1> QED
  BY <1>2, <1>3 DEF IInv

LEMMA NextIInv == IInv /\ [Next]_vars => IInv'
<1>1. ASSUME IInv, Next PROVE IInv'
  BY <1>1, NextType, NextUndisturbed, NextKept, NextEnded, NextFound, NextCounted DEF IInv
<1> QED
  BY <1>1, Stutter

LEMMA Invariance == Spec => []IInv
BY InitIInv, NextIInv, PTL DEF Spec

(* Files, threads and counters stay in their sets, whatever the order in   *)
(* which saves write and rename the one temporary file.                    *)
THEOREM TypeCorrect == Spec => []TypeOK
<1>1. IInv => TypeOK
  BY DEF IInv
<1> QED
  BY <1>1, Invariance, PTL

(* As long as no saves overlap, readers see the settings of the last       *)
(* completed one, through restarts (_write_settings).                      *)
THEOREM SettingsKept == Spec => []KeptSettings
<1>1. IInv => KeptSettings
  BY DEF IInv
<1> QED
  BY <1>1, Invariance, PTL

(* An opening that an undisturbed save has ended is never read again       *)
(* (configure, set_auto_enrollment).                                       *)
THEOREM WindowStaysClosed == Spec => []ClosedStaysClosed
<1>1. IInv => ClosedStaysClosed
  BY DEF IInv, Ended, ClosedStaysClosed, Read
<1> QED
  BY <1>1, Invariance, PTL

(* Nobody is enrolled under an opening that had ended before the request   *)
(* came (create_automatic_device_enrollment).                              *)
THEOREM EnrolledWhileOpen == Spec => []NotAfterClose
<1>1. IInv => NotAfterClose
  BY DEF IInv, Found, NotAfterClose
<1> QED
  BY <1>1, Invariance, PTL

(* Attempts that did not overlap keep to the limit, for any number of      *)
(* handler threads (auto_enrollment).                                      *)
THEOREM AttemptsLimited == Spec => []RateLimited
<1>1. IInv => RateLimited
  BY DEF IInv, Counted, RateLimited
<1> QED
  BY <1>1, Invariance, PTL

=============================================================================
