--------------------------- MODULE Exports_proofs ---------------------------
(***************************************************************************)
(* Theorems about Exports for every value of its constants.                *)
(***************************************************************************)
EXTENDS Exports, TLAPS

(* Steps of a thread that is the only one to know its export: no row yet.  *)
Making == SetupSteps \cup {"store", "record"}
Using == {"answer", "send", "unlink", "consume", "replace"}

Ended(x) == x \in lapsed \cup confirmed

(* What a thread may rely on about its export.                             *)
Holds(t) ==
    LET x == task[t].id
    IN  /\ x = None <=> At(t, "idle")
        /\ task[t].step \in Making =>
             row[x].status = "none" /\ \A u \in Threads \ {t} : task[u].id # x
        /\ task[t].step \in SetupSteps \cup {"store", "consume"} => x \notin files
        /\ At(t, "record") => x \in files
        /\ task[t].step \in Using => row[x].status # "none"
        /\ task[t].step \in {"unlink", "consume"} => Ended(x)
Held == \A t \in Threads : Holds(t)

(* One setup at a time, and none once the CA has its settings.             *)
SetUp ==
    /\ ca.settings => ca.setup # None
    /\ \A t \in Threads :
         /\ task[t].step \in SetupSteps =>
              /\ task[t].id \in Roots
              /\ ~ca.settings
              /\ \A u \in Threads \ {t} : task[u].step \notin SetupSteps
         /\ At(t, "init") => ca.setup = None
         /\ task[t].step \in {"removeRootKey", "settings"} => ca.setup = task[t].id
         /\ task[t].step \in StoreSteps => ca.settings

(* A file goes only after a confirmation or an expiry, and before its row. *)
Ends ==
    \A x \in IDs :
        /\ row[x].status = "pending" /\ x \notin files => Ended(x)
        /\ row[x].status = "consumed" => x \notin files /\ Ended(x)

(* The export of a CA that is set up has been recorded, or is about to be, *)
(* or storing it has failed.                                               *)
RootStored ==
    ca.settings => \/ row[ca.setup].status # "none"
                   \/ InHand(ca.setup)
                   \/ ca.setup \in cut

(* The inductive invariant. *)
IInv ==
    /\ TypeOK /\ Held /\ SetUp /\ Ends
    /\ NoStrayFile /\ RootStored /\ SetupCanBeRetried /\ SentWhilePending

-----------------------------------------------------------------------------
(* What a step does to the threads. *)

LEMMA MoveTask ==
    ASSUME TypeOK, NEW t \in Threads, NEW step \in Steps, Move(t, step)
    PROVE  /\ task' \in [Threads -> Task]
           /\ task'[t].step = step /\ task'[t].id = task[t].id
           /\ \A u \in Threads \ {t} : task'[u] = task[u]
BY DEF TypeOK, Move, Task

LEMMA FinishTask ==
    ASSUME TypeOK, NEW t \in Threads, Finish(t)
    PROVE  /\ task' \in [Threads -> Task]
           /\ task'[t].step = "idle" /\ task'[t].id = None
           /\ \A u \in Threads \ {t} : task'[u] = task[u]
BY DEF TypeOK, Finish, Task, IdleTask, Steps

LEMMA BeginTask ==
    ASSUME TypeOK, NEW t \in Threads, NEW step \in Steps, NEW x \in IDs,
           task' = [task EXCEPT ![t] = [step |-> step, id |-> x]]
    PROVE  /\ task' \in [Threads -> Task]
           /\ task'[t].step = step /\ task'[t].id = x
           /\ \A u \in Threads \ {t} : task'[u] = task[u]
BY DEF TypeOK, Task

(* A thread that is at work has an export. *)
LEMMA Working ==
    ASSUME TypeOK, Held, NEW t \in Threads, ~At(t, "idle")
    PROVE  task[t].id \in IDs
BY DEF TypeOK, Held, Holds, Task

LEMMA ProceedTask ==
    ASSUME TypeOK, Held, NEW t \in Threads, Proceed(t)
    PROVE  /\ task[t].id \in IDs
           /\ task' \in [Threads -> Task]
           /\ \A u \in Threads \ {t} : task'[u] = task[u]
<1>1. ~At(t, "idle")
  BY DEF Proceed, InitCA, RemoveRootKey, WriteSettings, WriteFile, RecordExport,
         Answer, Send, Unlink, Consume, ReplaceToken, At
<1>2. \/ \E step \in Steps : Move(t, step)
      \/ Finish(t)
  BY DEF Proceed, InitCA, RemoveRootKey, WriteSettings, WriteFile, RecordExport,
         Answer, Send, Unlink, Consume, ReplaceToken, Steps, SetupSteps, StoreSteps
<1> QED
  BY <1>1, <1>2, Working, MoveTask, FinishTask

LEMMA NextType ==
    ASSUME TypeOK, Held, SetUp, Next
    PROVE  TypeOK'
<1>1. ASSUME NEW t \in Threads, Begin(t)
      PROVE  TypeOK'
  <2>1. PICK x \in IDs, step \in {"init", "store", "unlink", "replace", "send"} :
          task' = [task EXCEPT ![t] = [step |-> step, id |-> x]]
    BY <1>1 DEF Begin, Setup, Issue, Expire, Recover, Download, Confirm, Request
  <2>2. task' \in [Threads -> Task]
    BY <2>1, BeginTask DEF Steps, SetupSteps, StoreSteps
  <2>3. UNCHANGED <<ca, files, row, lapsed, links, faults, late, cut>>
        /\ confirmed' \subseteq IDs
    BY <1>1 DEF Begin, Setup, Issue, Expire, Recover, Download, Confirm, TypeOK
  <2> QED
    BY <2>2, <2>3 DEF TypeOK
<1>2. ASSUME NEW t \in Threads, Proceed(t)
      PROVE  TypeOK'
  <2>1. task[t].id \in IDs /\ task' \in [Threads -> Task]
    BY <1>2, ProceedTask
  <2>2. CASE InitCA(t) \/ RemoveRootKey(t) \/ WriteSettings(t)
    <3>1. InitCA(t) => task[t].id \in Roots
      BY DEF InitCA, SetUp, SetupSteps, StoreSteps, At
    <3>2. ca' \in CA
      <4>1. CASE InitCA(t)
        BY <4>1, <3>1 DEF InitCA, CA
      <4>2. CASE RemoveRootKey(t) \/ WriteSettings(t)
        BY <4>2 DEF RemoveRootKey, WriteSettings, TypeOK, CA
      <4> QED
        BY <2>2, <4>1, <4>2
    <3> QED
      BY <2>1, <2>2, <3>2 DEF InitCA, RemoveRootKey, WriteSettings, TypeOK
  <2>3. CASE WriteFile(t) \/ Unlink(t)
    BY <2>1, <2>3 DEF WriteFile, Unlink, TypeOK
  <2>4. CASE RecordExport(t) \/ Consume(t)
    <3>1. row' \in [IDs -> Row]
      BY <2>1, <2>4 DEF RecordExport, Consume, TypeOK, Row, RowStatuses
    <3> QED
      BY <2>1, <2>4, <3>1 DEF RecordExport, Consume, TypeOK
  <2>5. CASE Answer(t) \/ ReplaceToken(t)
    <3>1. row[task[t].id].token \in Nat
      BY <2>1 DEF TypeOK, Row
    <3>2. row' \in [IDs -> Row]
      BY <2>1, <2>5, <3>1 DEF Answer, ReplaceToken, TypeOK, Row
    <3>3. links' \subseteq IDs \X Nat
      BY <2>1, <2>5, <3>1 DEF Answer, ReplaceToken, TypeOK
    <3> QED
      BY <2>1, <2>5, <3>2, <3>3 DEF Answer, ReplaceToken, TypeOK
  <2>6. CASE Send(t)
    BY <2>1, <2>6 DEF Send, TypeOK
  <2> QED
    BY <1>2, <2>2, <2>3, <2>4, <2>5, <2>6 DEF Proceed
<1>3. ASSUME NEW t \in Threads, Fail(t)
      PROVE  TypeOK'
  <2>1. task[t].id \in IDs
    BY <1>3, Working DEF Fail
  <2>2. task' \in [Threads -> Task]
    BY <1>3, FinishTask DEF Fail
  <2>3. ca' \in CA /\ cut' \subseteq IDs
    BY <1>3, <2>1 DEF Fail, TypeOK, CA, NoCA
  <2> QED
    BY <1>3, <2>2, <2>3 DEF Fail, TypeOK
<1>4. ASSUME NEW x \in IDs, Lapse(x)
      PROVE  TypeOK'
  BY <1>4 DEF Lapse, TypeOK
<1>5. CASE Restart
  <2>1. task' \in [Threads -> Task]
    BY <1>5 DEF Restart, Task, IdleTask, Steps
  <2>2. faults' \in 0..MaxFaults /\ cut' \subseteq IDs
    BY <1>5, ExportsAssumption DEF Restart, TypeOK
  <2> QED
    BY <1>5, <2>1, <2>2 DEF Restart, TypeOK
<1> QED
  BY <1>1, <1>2, <1>3, <1>4, <1>5 DEF Next

-----------------------------------------------------------------------------
(* What threads rely on. *)

(* The ways in which a request begins.                                     *)
LEMMA Begins ==
    ASSUME TypeOK, NEW t \in Threads, Begin(t)
    PROVE  \E x \in IDs, step \in {"init", "store", "unlink", "replace", "send"} :
             /\ task' = [task EXCEPT ![t] = [step |-> step, id |-> x]]
             /\ At(t, "idle")
             /\ step \in {"init", "store"} => Unused(x)
             /\ step \in {"unlink", "replace", "send"} => Pending(x)
             /\ step = "unlink" => x \in lapsed \cup confirmed'
             /\ step = "init" =>
                  /\ x \in Roots /\ ca.setup = None
                  /\ \A u \in Threads : task[u].step \notin SetupSteps
             /\ step = "store" => ca.settings
             /\ UNCHANGED <<ca, files, row, lapsed, links, faults, late, cut>>
             /\ confirmed \subseteq confirmed' /\ confirmed' \subseteq IDs
<1>1. PICK x \in IDs :
        \/ Setup(t, x) \/ Issue(t, x) \/ Expire(t, x) \/ Recover(t, x)
        \/ \E token \in 0..MaxTokens : Download(t, x, token) \/ Confirm(t, x, token)
  BY DEF Begin
<1>2. CASE Setup(t, x)
  BY <1>2 DEF Setup, Request, TypeOK
<1>3. CASE Issue(t, x)
  BY <1>3 DEF Issue, Request, Initialized, TypeOK
<1>4. CASE Expire(t, x)
  BY <1>4 DEF Expire, Expired, TypeOK
<1>5. CASE Recover(t, x)
  BY <1>5 DEF Recover, Request, TypeOK
<1>6. CASE \E token \in 0..MaxTokens : Download(t, x, token)
  BY <1>6 DEF Download, Request, Available, TypeOK
<1>7. CASE \E token \in 0..MaxTokens : Confirm(t, x, token)
  BY <1>7 DEF Confirm, Request, Available, TypeOK
<1> QED
  BY <1>1, <1>2, <1>3, <1>4, <1>5, <1>6, <1>7

LEMMA BeginHeld ==
    ASSUME TypeOK, Held, NEW t \in Threads, Begin(t)
    PROVE  Held'
<1>1. PICK x \in IDs, step \in {"init", "store", "unlink", "replace", "send"} :
         /\ task' = [task EXCEPT ![t] = [step |-> step, id |-> x]]
         /\ step \in {"init", "store"} => Unused(x)
         /\ step \in {"unlink", "replace", "send"} => Pending(x)
         /\ step = "unlink" => x \in lapsed \cup confirmed'
         /\ UNCHANGED <<files, row, lapsed>>
         /\ confirmed \subseteq confirmed'
  BY Begins
<1>2. /\ task'[t].step = step /\ task'[t].id = x
      /\ \A u \in Threads \ {t} : task'[u] = task[u]
  BY <1>1, BeginTask DEF Steps, SetupSteps, StoreSteps
<1>3. x # None
  BY ExportsAssumption
<1>4. Holds(t)'
  BY <1>1, <1>2, <1>3 DEF Holds, Making, Using, SetupSteps, At, Ended, Pending, Unused
<1>5. ASSUME NEW u \in Threads \ {t}
      PROVE  Holds(u)'
  <2>1. Holds(u) /\ task'[u] = task[u]
    BY <1>2 DEF Held
  <2>2. task[u].step \in Making => task[u].id # x
    BY <1>1, <2>1 DEF Holds, Pending, Unused
  <2> QED
    BY <1>1, <1>2, <2>1, <2>2 DEF Holds, At, Ended
<1> QED
  BY <1>4, <1>5 DEF Held

LEMMA ProceedHeld ==
    ASSUME TypeOK, Held, NEW t \in Threads, Proceed(t)
    PROVE  Held'
<1> DEFINE x == task[t].id
<1>1. x \in IDs /\ \A u \in Threads \ {t} : task'[u] = task[u] /\ Holds(u)
  BY ProceedTask DEF Held
<1>2. Holds(t) /\ x # None
  BY <1>1, ExportsAssumption DEF Held
<1>3. CASE InitCA(t) \/ RemoveRootKey(t) \/ WriteSettings(t)
  <2>1. task[t].step \in SetupSteps /\ task'[t].id = x
        /\ task'[t].step \in {"removeRootKey", "settings", "store"}
    BY <1>3, MoveTask DEF InitCA, RemoveRootKey, WriteSettings, Steps, SetupSteps, StoreSteps, At
  <2>2. UNCHANGED <<files, row, lapsed, confirmed>>
    BY <1>3 DEF InitCA, RemoveRootKey, WriteSettings
  <2>3. Holds(t)'
    BY <1>1, <1>2, <2>1, <2>2 DEF Holds, Making, Using, SetupSteps, At, Ended
  <2>4. \A u \in Threads \ {t} : Holds(u)'
    BY <1>1, <2>1, <2>2 DEF Holds, At, Ended
  <2> QED
    BY <2>3, <2>4 DEF Held
<1>4. CASE WriteFile(t)
  <2>1. task'[t].id = x /\ task'[t].step = "record" /\ At(t, "store")
    BY <1>4, MoveTask DEF WriteFile, Steps, StoreSteps
  <2>2. UNCHANGED <<row, lapsed, confirmed>> /\ files' = files \cup {x}
    BY <1>4 DEF WriteFile
  <2>3. Holds(t)'
    BY <1>1, <1>2, <2>1, <2>2 DEF Holds, Making, Using, SetupSteps, At, Ended
  <2>4. \A u \in Threads \ {t} : task[u].id # x
    BY <1>2, <2>1 DEF Holds, Making, At
  <2>5. \A u \in Threads \ {t} : Holds(u)'
    BY <1>1, <2>1, <2>2, <2>4 DEF Holds, At, Ended
  <2> QED
    BY <2>3, <2>5 DEF Held
<1>5. CASE RecordExport(t)
  <2>1. task'[t].id = x /\ task'[t].step = "answer" /\ At(t, "record")
    BY <1>5, MoveTask DEF RecordExport, Steps, StoreSteps
  <2>2. UNCHANGED <<files, lapsed, confirmed>>
        /\ row'[x].status = "pending" /\ \A y \in IDs \ {x} : row'[y] = row[y]
    BY <1>1, <1>5 DEF RecordExport, TypeOK
  <2>3. Holds(t)'
    BY <1>1, <1>2, <2>1, <2>2 DEF Holds, Making, Using, SetupSteps, At, Ended
  <2>4. \A u \in Threads \ {t} : task[u].id # x
    BY <1>2, <2>1 DEF Holds, Making, At
  <2>5. ASSUME NEW u \in Threads \ {t}
        PROVE  Holds(u)'
    <3>1. task'[u] = task[u] /\ Holds(u) /\ task[u].id # x
      BY <1>1, <2>4
    <3>2. task[u].id \in IDs => row'[task[u].id] = row[task[u].id]
      BY <2>2, <3>1
    <3>3. task[u].id \notin IDs => At(u, "idle")
      BY Working DEF Held
    <3> QED
      BY <2>1, <2>2, <3>1, <3>2, <3>3, <1>1 DEF Holds, At, Ended, Making, Using, SetupSteps
  <2> QED
    BY <2>3, <2>5 DEF Held
<1>6. CASE Unlink(t)
  <2>1. task'[t].id = x /\ task'[t].step = "consume" /\ At(t, "unlink")
    BY <1>6, MoveTask DEF Unlink, Steps
  <2>2. UNCHANGED <<row, lapsed, confirmed>> /\ files' = files \ {x}
    BY <1>6 DEF Unlink
  <2>3. Holds(t)'
    BY <1>1, <1>2, <2>1, <2>2 DEF Holds, Making, Using, SetupSteps, At, Ended
  <2>4. \A u \in Threads \ {t} : At(u, "record") => task[u].id # x
    BY <1>1, <1>2, <2>1 DEF Holds, Making, Using, At
  <2>5. \A u \in Threads \ {t} : Holds(u)'
    BY <1>1, <2>1, <2>2, <2>4 DEF Holds, At, Ended
  <2> QED
    BY <2>3, <2>5 DEF Held
<1>7. CASE Answer(t) \/ Send(t) \/ Consume(t) \/ ReplaceToken(t)
  <2>1. task'[t].id = None /\ task'[t].step = "idle"
    BY <1>7, FinishTask DEF Answer, Send, Consume, ReplaceToken
  <2>2. UNCHANGED <<files, lapsed, confirmed>>
    BY <1>7 DEF Answer, Send, Consume, ReplaceToken
  <2>3. \A y \in IDs : row'[y].status = "none" <=> row[y].status = "none"
    BY <1>1, <1>7 DEF Answer, Send, Consume, ReplaceToken, TypeOK, Row
  <2>4. Holds(t)'
    BY <2>1 DEF Holds, Making, Using, SetupSteps, At
  <2>5. ASSUME NEW u \in Threads \ {t}
        PROVE  Holds(u)'
    <3>1. task'[u] = task[u] /\ Holds(u)
      BY <1>1
    <3>2. task[u].id \in IDs \/ At(u, "idle")
      BY Working
    <3>3. task[u].id = None \/ task[u].id # None
      OBVIOUS
    <3> QED
      BY <1>1, <2>1, <2>2, <2>3, <3>1, <3>2 DEF Holds, At, Ended, Making, Using, SetupSteps
  <2> QED
    BY <2>4, <2>5 DEF Held
<1> QED
  BY <1>3, <1>4, <1>5, <1>6, <1>7 DEF Proceed

LEMMA NextHeld ==
    ASSUME TypeOK, Held, Next
    PROVE  Held'
<1>1. ASSUME NEW t \in Threads, Fail(t)
      PROVE  Held'
  <2>1. /\ task'[t].id = None /\ task'[t].step = "idle"
        /\ \A u \in Threads \ {t} : task'[u] = task[u]
    BY <1>1, FinishTask DEF Fail
  <2>2. UNCHANGED <<files, row, lapsed, confirmed>>
    BY <1>1 DEF Fail
  <2>3. Holds(t)'
    BY <2>1 DEF Holds, Making, Using, SetupSteps, At
  <2>4. ASSUME NEW u \in Threads \ {t}
        PROVE  Holds(u)'
    <3>1. Holds(u) /\ task'[u] = task[u] /\ (task[u].id \in IDs \/ At(u, "idle"))
      BY <2>1, Working DEF Held
    <3> QED
      BY <2>1, <2>2, <3>1, ExportsAssumption DEF Holds, At, Ended, Making, SetupSteps
  <2> QED
    BY <2>3, <2>4 DEF Held
<1>2. ASSUME NEW x \in IDs, Lapse(x)
      PROVE  Held'
  BY <1>2 DEF Held, Holds, Lapse, At, Ended
<1>3. CASE Restart
  <2>1. \A t \in Threads : task'[t] = IdleTask
    BY <1>3 DEF Restart
  <2> QED
    BY <2>1 DEF Held, Holds, IdleTask, Making, Using, SetupSteps, At
<1> QED
  BY <1>1, <1>2, <1>3, BeginHeld, ProceedHeld DEF Next

-----------------------------------------------------------------------------
(* The setup. *)

LEMMA NextSetUp ==
    ASSUME TypeOK, Held, SetUp, Next
    PROVE  SetUp'
<1> USE DEF SetupSteps, StoreSteps, At
<1>1. ASSUME NEW t \in Threads, Begin(t)
      PROVE  SetUp'
  <2>1. PICK x \in IDs, step \in {"init", "store", "unlink", "replace", "send"} :
           /\ task' = [task EXCEPT ![t] = [step |-> step, id |-> x]]
           /\ step = "init" =>
                /\ x \in Roots /\ ca.setup = None
                /\ \A u \in Threads : task[u].step \notin SetupSteps
           /\ step = "store" => ca.settings
           /\ UNCHANGED ca
    BY <1>1, Begins
  <2>2. /\ task'[t].step = step /\ task'[t].id = x
        /\ \A u \in Threads \ {t} : task'[u] = task[u]
    BY <2>1, BeginTask DEF Steps
  <2> QED
    BY <2>1, <2>2 DEF SetUp
<1>2. ASSUME NEW t \in Threads, Proceed(t)
      PROVE  SetUp'
  <2>1. task[t].id \in IDs /\ \A u \in Threads \ {t} : task'[u] = task[u]
    BY <1>2, ProceedTask
  <2>2. CASE InitCA(t)
    <3>1. task'[t].step = "removeRootKey" /\ task'[t].id = task[t].id
      BY <2>2, MoveTask DEF InitCA, Steps
    <3>2. At(t, "init") /\ ca'.setup = task[t].id /\ ~ca'.settings
      BY <2>2 DEF InitCA
    <3>3. \A u \in Threads \ {t} : task[u].step \notin SetupSteps \cup StoreSteps
      BY <3>2 DEF SetUp
    <3> QED
      BY <2>1, <3>1, <3>2, <3>3 DEF SetUp
  <2>3. CASE RemoveRootKey(t)
    <3>1. task'[t].step = "settings" /\ task'[t].id = task[t].id
      BY <2>3, MoveTask DEF RemoveRootKey, Steps
    <3>2. At(t, "removeRootKey") /\ ca'.setup = ca.setup /\ ca'.settings = ca.settings
      BY <2>3 DEF RemoveRootKey, TypeOK, CA
    <3> QED
      BY <2>1, <3>1, <3>2 DEF SetUp
  <2>4. CASE WriteSettings(t)
    <3>1. task'[t].step = "store" /\ task'[t].id = task[t].id
      BY <2>4, MoveTask DEF WriteSettings, Steps
    <3>2. At(t, "settings") /\ ca'.setup = ca.setup /\ ca'.settings
      BY <2>4 DEF WriteSettings, TypeOK, CA
    <3>3. \A u \in Threads \ {t} : task[u].step \notin SetupSteps
      BY <3>2 DEF SetUp
    <3> QED
      BY <2>1, <3>1, <3>2, <3>3, ExportsAssumption DEF SetUp
  <2>5. CASE WriteFile(t) \/ RecordExport(t) \/ Unlink(t)
    <3>1. /\ task'[t].step \in StoreSteps => task[t].step \in StoreSteps
          /\ task'[t].step \notin SetupSteps
      BY <2>5, MoveTask DEF WriteFile, RecordExport, Unlink, Steps
    <3>2. UNCHANGED ca
      BY <2>5 DEF WriteFile, RecordExport, Unlink
    <3> QED
      BY <2>1, <3>1, <3>2 DEF SetUp
  <2>6. CASE Answer(t) \/ Send(t) \/ Consume(t) \/ ReplaceToken(t)
    <3>1. task'[t].step = "idle"
      BY <2>6, FinishTask DEF Answer, Send, Consume, ReplaceToken
    <3>2. UNCHANGED ca
      BY <2>6 DEF Answer, Send, Consume, ReplaceToken
    <3> QED
      BY <2>1, <3>1, <3>2 DEF SetUp
  <2> QED
    BY <1>2, <2>2, <2>3, <2>4, <2>5, <2>6 DEF Proceed
<1>3. ASSUME NEW t \in Threads, Fail(t)
      PROVE  SetUp'
  <2>1. task'[t].step = "idle" /\ \A u \in Threads \ {t} : task'[u] = task[u]
    BY <1>3, FinishTask DEF Fail
  <2>2. CASE task[t].step \in SetupSteps
    <3>1. ca' = NoCA
      BY <1>3, <2>2 DEF Fail
    <3>2. \A u \in Threads : task'[u].step \notin SetupSteps \cup StoreSteps
      BY <2>1, <2>2 DEF SetUp
    <3> QED
      BY <3>1, <3>2 DEF SetUp, NoCA
  <2>3. CASE task[t].step \notin SetupSteps
    <3>1. UNCHANGED ca
      BY <1>3, <2>3 DEF Fail
    <3> QED
      BY <2>1, <3>1 DEF SetUp
  <2> QED
    BY <2>2, <2>3
<1>4. ASSUME NEW x \in IDs, Lapse(x)
      PROVE  SetUp'
  BY <1>4 DEF SetUp, Lapse
<1>5. CASE Restart
  BY <1>5 DEF SetUp, Restart, IdleTask
<1> QED
  BY <1>1, <1>2, <1>3, <1>4, <1>5 DEF Next

(* What is never undone.                                                   *)
LEMMA Lasting ==
    ASSUME TypeOK, Held, SetUp, Next
    PROVE  /\ cut \subseteq cut' /\ lapsed \subseteq lapsed' /\ confirmed \subseteq confirmed'
           /\ faults > 0 => faults' > 0
           /\ \A x \in IDs : row'[x].status = "none" => row[x].status = "none"
<1>1. ASSUME NEW t \in Threads, Begin(t)
      PROVE  /\ UNCHANGED <<row, lapsed, faults, cut>> /\ confirmed \subseteq confirmed'
  BY <1>1, Begins
<1>2. ASSUME NEW t \in Threads, Proceed(t)
      PROVE  /\ UNCHANGED <<cut, lapsed, confirmed, faults>>
             /\ \A x \in IDs : row'[x].status = "none" => row[x].status = "none"
  <2>1. task[t].id \in IDs
    BY <1>2, ProceedTask
  <2>2. CASE RecordExport(t)
    BY <2>1, <2>2 DEF RecordExport, TypeOK
  <2>3. CASE Consume(t)
    BY <2>1, <2>3 DEF Consume, TypeOK, Row
  <2>4. CASE ReplaceToken(t)
    BY <2>1, <2>4 DEF ReplaceToken, TypeOK, Row
  <2>5. CASE \/ InitCA(t) \/ RemoveRootKey(t) \/ WriteSettings(t)
             \/ WriteFile(t) \/ Answer(t) \/ Send(t) \/ Unlink(t)
    BY <2>5 DEF InitCA, RemoveRootKey, WriteSettings, WriteFile, Answer, Send, Unlink
  <2> QED
    BY <1>2, <2>2, <2>3, <2>4, <2>5 DEF Proceed
<1>3. ASSUME NEW t \in Threads, Fail(t)
      PROVE  UNCHANGED <<row, lapsed, confirmed, faults>> /\ cut \subseteq cut'
  BY <1>3 DEF Fail
<1>4. ASSUME NEW x \in IDs, Lapse(x)
      PROVE  UNCHANGED <<row, confirmed, faults, cut>> /\ lapsed \subseteq lapsed'
  BY <1>4 DEF Lapse
<1>5. CASE Restart
  BY <1>5 DEF Restart, TypeOK
<1> QED
  BY <1>1, <1>2, <1>3, <1>4, <1>5 DEF Next

(* What becomes of an export in hand: it is still in hand, or recorded, or *)
(* storing it has failed, or with it a setup that had not yet made a file. *)
LEMMA InHandNext ==
    ASSUME TypeOK, Held, SetUp, Next, NEW x \in IDs, InHand(x)
    PROVE  \/ InHand(x)'
           \/ ca'.settings /\ (row'[x].status # "none" \/ x \in cut')
           \/ x \notin files' /\ ca' = NoCA
           \/ x \notin files' /\ ~ca'.settings /\ faults' > 0
<1> USE DEF SetupSteps, StoreSteps, At
<1>1. PICK h \in Threads : task[h].id = x /\ task[h].step \in SetupSteps \cup StoreSteps
  BY DEF InHand
<1>2. CASE task'[h] = task[h]
  BY <1>1, <1>2 DEF InHand
<1>3. task[h].step # "idle" /\ Holds(h)
  BY <1>1 DEF Held
<1>4. CASE Begin(h)
  BY <1>3, <1>4, Begins
<1>5. CASE Proceed(h)
  <2>1. CASE InitCA(h) \/ RemoveRootKey(h) \/ WriteSettings(h) \/ WriteFile(h) \/ RecordExport(h)
    <3>1. task'[h].id = x /\ task'[h].step \in SetupSteps \cup StoreSteps
      BY <1>1, <2>1, MoveTask DEF InitCA, RemoveRootKey, WriteSettings, WriteFile,
                                  RecordExport, Steps
    <3> QED
      BY <3>1 DEF InHand
  <2>2. CASE Answer(h)
    <3>1. row'[x].status # "none" /\ ca' = ca /\ task[h].step = "answer"
      BY <1>1, <1>3, <2>2 DEF Answer, Holds, Using
    <3> QED
      BY <1>1, <3>1 DEF SetUp
  <2>3. ~Send(h) /\ ~Unlink(h) /\ ~Consume(h) /\ ~ReplaceToken(h)
    BY <1>1 DEF Send, Unlink, Consume, ReplaceToken
  <2> QED
    BY <1>5, <2>1, <2>2, <2>3 DEF Proceed
<1>6. CASE Fail(h)
  <2>1. CASE task[h].step \in SetupSteps
    BY <1>1, <1>3, <1>6, <2>1 DEF Fail, Holds
  <2>2. CASE task[h].step \in StoreSteps
    BY <1>1, <1>6, <2>2 DEF Fail, SetUp
  <2> QED
    BY <1>1, <2>1, <2>2
<1>7. CASE Restart
  <2>1. CASE task[h].step \in SetupSteps
    <3>1. ~ca.settings /\ x \notin files
      BY <1>1, <1>3, <2>1 DEF SetUp, Holds
    <3> QED
      BY <1>7, <3>1 DEF Restart, TypeOK
  <2>2. CASE task[h].step \in StoreSteps
    BY <1>1, <1>7, <2>2 DEF Restart, SetUp
  <2> QED
    BY <1>1, <2>1, <2>2
<1>8. ASSUME NEW t \in Threads \ {h}, Begin(t) \/ Proceed(t) \/ Fail(t)
      PROVE  task'[h] = task[h]
  <2>1. CASE Begin(t)
    BY <2>1, Begins, BeginTask DEF Steps
  <2>2. CASE Proceed(t)
    BY <2>2, ProceedTask
  <2>3. CASE Fail(t)
    BY <2>3, FinishTask DEF Fail
  <2> QED
    BY <1>8, <2>1, <2>2, <2>3
<1>9. ASSUME NEW y \in IDs, Lapse(y)
      PROVE  task'[h] = task[h]
  BY <1>9 DEF Lapse
<1> QED
  BY <1>2, <1>4, <1>5, <1>6, <1>7, <1>8, <1>9 DEF Next

(* The CA changes only in these steps.                                     *)
LEMMA CANext ==
    ASSUME TypeOK, Held, SetUp, Next
    PROVE  \/ ca' = ca
           \/ ca' = NoCA
           \/ ~ca'.settings /\ ca'.setup \in IDs /\ InHand(ca.setup)'
           \/ ca'.settings /\ ca'.setup = ca.setup /\ ca.setup \in IDs /\ InHand(ca.setup)'
<1> USE DEF SetupSteps, StoreSteps, At
<1>1. ASSUME NEW t \in Threads, InitCA(t) \/ RemoveRootKey(t) \/ WriteSettings(t)
      PROVE  \/ ~ca'.settings /\ ca'.setup \in IDs /\ InHand(ca.setup)'
             \/ ca'.settings /\ ca'.setup = ca.setup /\ ca.setup \in IDs /\ InHand(ca.setup)'
  <2>1. task[t].id \in IDs /\ task'[t].id = task[t].id
        /\ task'[t].step \in SetupSteps \cup StoreSteps
    BY <1>1, ProceedTask, MoveTask DEF Proceed, InitCA, RemoveRootKey, WriteSettings, Steps
  <2>2. ca'.setup = task[t].id
    BY <1>1 DEF InitCA, RemoveRootKey, WriteSettings, SetUp, TypeOK, CA
  <2>3. WriteSettings(t) => ca'.settings /\ ca'.setup = ca.setup
    BY DEF WriteSettings, TypeOK, CA
  <2>4. InitCA(t) \/ RemoveRootKey(t) => ~ca'.settings
    BY DEF InitCA, RemoveRootKey, SetUp, TypeOK, CA
  <2>5. InHand(task[t].id)'
    BY <2>1 DEF InHand
  <2> QED
    BY <1>1, <2>1, <2>2, <2>3, <2>4, <2>5
<1>2. ASSUME NEW t \in Threads,
             \/ WriteFile(t) \/ RecordExport(t) \/ Answer(t)
             \/ Send(t) \/ Unlink(t) \/ Consume(t) \/ ReplaceToken(t)
      PROVE  ca' = ca
  BY <1>2 DEF WriteFile, RecordExport, Answer, Send, Unlink, Consume, ReplaceToken
<1>3. ASSUME NEW t \in Threads, Begin(t)
      PROVE  ca' = ca
  BY <1>3, Begins
<1>4. ASSUME NEW t \in Threads, Fail(t)
      PROVE  ca' = ca \/ ca' = NoCA
  BY <1>4 DEF Fail
<1>5. (\E x \in IDs : Lapse(x)) \/ Restart => ca' = ca
  BY DEF Lapse, Restart
<1> QED
  BY <1>1, <1>2, <1>3, <1>4, <1>5 DEF Next, Proceed

LEMMA NextRootStored ==
    ASSUME TypeOK, Held, SetUp, RootStored, Next
    PROVE  RootStored'
<1>1. CASE ca' = ca
  <2>1. SUFFICES ASSUME ca.settings, NEW x \in IDs, x = ca.setup
                 PROVE  row'[x].status # "none" \/ InHand(x)' \/ x \in cut'
    BY <1>1 DEF RootStored, SetUp, TypeOK, CA, IDs, InHand
  <2>2. row[x].status # "none" \/ InHand(x) \/ x \in cut
    BY <2>1 DEF RootStored
  <2>3. CASE InHand(x)
    BY <1>1, <2>1, <2>3, InHandNext DEF NoCA
  <2> QED
    BY <2>2, <2>3, Lasting
<1>2. CASE ca' # ca
  BY <1>2, CANext DEF NoCA, RootStored
<1> QED
  BY <1>1, <1>2

LEMMA NextRetried ==
    ASSUME TypeOK, Held, SetUp, SetupCanBeRetried, Next
    PROVE  SetupCanBeRetried'
<1>1. CASE ca' = ca
  <2>1. SUFFICES ASSUME ~ca.settings, ca.setup # None, NEW x \in IDs, x = ca.setup
                 PROVE  InHand(x)' \/ faults' > 0
    BY <1>1 DEF SetupCanBeRetried, TypeOK, CA, IDs, InHand
  <2>2. InHand(x) \/ faults > 0
    BY <2>1 DEF SetupCanBeRetried
  <2>3. CASE InHand(x)
    BY <1>1, <2>1, <2>3, InHandNext DEF NoCA
  <2> QED
    BY <2>2, <2>3, Lasting
<1>2. CASE ca' # ca
  BY <1>2, CANext DEF NoCA, SetupCanBeRetried
<1> QED
  BY <1>1, <1>2

-----------------------------------------------------------------------------
(* Files. *)

LEMMA NextEnds ==
    ASSUME TypeOK, Held, SetUp, Ends, Next
    PROVE  Ends'
<1>1. ASSUME UNCHANGED <<files, row>>
      PROVE  Ends'
  BY <1>1, Lasting DEF Ends, Ended
<1>2. ASSUME NEW t \in Threads, Begin(t)
      PROVE  Ends'
  BY <1>1, <1>2, Begins
<1>3. ASSUME NEW t \in Threads, Proceed(t)
      PROVE  Ends'
  <2>1. task[t].id \in IDs /\ Holds(t)
    BY <1>3, ProceedTask DEF Held
  <2>2. CASE WriteFile(t)
    <3>1. row[task[t].id].status = "none"
      BY <2>1, <2>2 DEF WriteFile, Holds, Making, At
    <3> QED
      BY <2>1, <2>2, <3>1 DEF WriteFile, Ends, Ended
  <2>3. CASE RecordExport(t)
    <3>1. task[t].id \in files
      BY <2>1, <2>3 DEF RecordExport, Holds, At
    <3> QED
      BY <2>1, <2>3, <3>1 DEF RecordExport, Ends, Ended, TypeOK
  <2>4. CASE Unlink(t)
    <3>1. Ended(task[t].id)
      BY <2>1, <2>4 DEF Unlink, Holds, At
    <3> QED
      BY <2>1, <2>4, <3>1 DEF Unlink, Ends, Ended
  <2>5. CASE Consume(t)
    <3>1. Ended(task[t].id) /\ task[t].id \notin files
      BY <2>1, <2>5 DEF Consume, Holds, At
    <3> QED
      BY <2>1, <2>5, <3>1 DEF Consume, Ends, Ended, TypeOK, Row
  <2>6. CASE ReplaceToken(t)
    <3>1. \A x \in IDs : row'[x].status = row[x].status
      BY <2>1, <2>6 DEF ReplaceToken, TypeOK, Row
    <3> QED
      BY <2>6, <3>1 DEF ReplaceToken, Ends, Ended
  <2>7. CASE InitCA(t) \/ RemoveRootKey(t) \/ WriteSettings(t) \/ Answer(t) \/ Send(t)
    BY <1>1, <2>7 DEF InitCA, RemoveRootKey, WriteSettings, Answer, Send
  <2> QED
    BY <1>3, <2>2, <2>3, <2>4, <2>5, <2>6, <2>7 DEF Proceed
<1>4. ASSUME NEW t \in Threads, Fail(t)
      PROVE  Ends'
  BY <1>1, <1>4 DEF Fail
<1>5. ASSUME NEW x \in IDs, Lapse(x)
      PROVE  Ends'
  BY <1>1, <1>5 DEF Lapse
<1>6. CASE Restart
  BY <1>1, <1>6 DEF Restart
<1> QED
  BY <1>2, <1>3, <1>4, <1>5, <1>6 DEF Next

LEMMA NextNoStray ==
    ASSUME TypeOK, Held, SetUp, Ends, NoStrayFile, Next, TypeOK', Ends'
    PROVE  NoStrayFile'
<1>1. SUFFICES ASSUME NEW x \in files', row'[x].status = "none"
               PROVE  x \in cut' \/ InHand(x)'
  <2>1. \A x \in files' : row'[x].status \in {"none", "pending"}
    BY DEF TypeOK, Row, RowStatuses, Ends
  <2> QED
    BY <2>1 DEF NoStrayFile, Pending
<1>2. x \in IDs /\ row[x].status = "none"
  BY <1>1, Lasting DEF TypeOK
<1>3. CASE x \in files
  <2>1. x \in cut \/ InHand(x)
    BY <1>2, <1>3 DEF NoStrayFile, Pending
  <2>2. CASE InHand(x)
    BY <1>1, <1>2, <2>2, InHandNext
  <2> QED
    BY <2>1, <2>2, Lasting
<1>4. CASE x \notin files
  <2>1. PICK t \in Threads : WriteFile(t) /\ task[t].id = x
    BY <1>1, <1>4 DEF Next, Proceed, InitCA, RemoveRootKey, WriteSettings, WriteFile,
         RecordExport, Answer, Send, Unlink, Consume, ReplaceToken, Begin, Setup, Issue,
         Expire, Recover, Download, Confirm, Fail, Lapse, Restart
  <2>2. task'[t].id = x /\ task'[t].step = "record"
    BY <2>1, MoveTask DEF WriteFile, Steps, StoreSteps
  <2> QED
    BY <2>2 DEF InHand, StoreSteps
<1> QED
  BY <1>3, <1>4

LEMMA NextSent ==
    ASSUME TypeOK, Held, Ends, SentWhilePending, Next
    PROVE  SentWhilePending'
<1>1. ASSUME NEW t \in Threads, Send(t)
      PROVE  late' = {}
  <2>1. task[t].id \in IDs
    BY <1>1, ProceedTask DEF Proceed
  <2> QED
    BY <1>1, <2>1 DEF Send, Ends, SentWhilePending
<1>2. ASSUME NEW t \in Threads, Proceed(t), ~Send(t)
      PROVE  late' = late
  BY <1>2 DEF Proceed, InitCA, RemoveRootKey, WriteSettings, WriteFile, RecordExport,
              Answer, Unlink, Consume, ReplaceToken
<1>3. ASSUME NEW t \in Threads, Begin(t) \/ Fail(t)
      PROVE  late' = late
  BY <1>3, Begins DEF Fail
<1>4. (\E x \in IDs : Lapse(x)) \/ Restart => late' = late
  BY DEF Lapse, Restart
<1> QED
  BY <1>1, <1>2, <1>3, <1>4 DEF Next, SentWhilePending

-----------------------------------------------------------------------------
(* The theorems. *)

LEMMA InitInv == Init => IInv
<1> SUFFICES ASSUME Init PROVE IInv
  OBVIOUS
<1>1. TypeOK
  BY ExportsAssumption DEF Init, TypeOK, CA, NoCA, Row, RowStatuses, Task, IdleTask, Steps
<1>2. Held
  BY DEF Init, Held, Holds, IdleTask, At, Making, Using, SetupSteps
<1>3. SetUp /\ RootStored /\ SetupCanBeRetried
  BY DEF Init, SetUp, RootStored, SetupCanBeRetried, NoCA, IdleTask, At, SetupSteps, StoreSteps
<1>4. Ends /\ NoStrayFile /\ SentWhilePending
  BY DEF Init, Ends, NoStrayFile, SentWhilePending
<1> QED
  BY <1>1, <1>2, <1>3, <1>4 DEF IInv

LEMMA StutterInv == IInv /\ UNCHANGED vars => IInv'
BY DEF vars, IInv, TypeOK, Held, Holds, SetUp, Ends, Ended, NoStrayFile, RootStored,
       SetupCanBeRetried, SentWhilePending, InHand, Pending, At

LEMMA NextInv == IInv /\ [Next]_vars => IInv'
<1>1. CASE IInv /\ Next
  <2> USE <1>1 DEF IInv
  <2>1. TypeOK' /\ Held' /\ SetUp' /\ Ends'
    BY NextType, NextHeld, NextSetUp, NextEnds
  <2>2. NoStrayFile' /\ RootStored' /\ SetupCanBeRetried' /\ SentWhilePending'
    BY <2>1, NextNoStray, NextRootStored, NextRetried, NextSent
  <2> QED
    BY <2>1, <2>2
<1> QED
  BY <1>1, StutterInv

LEMMA Invariance == Spec => []IInv
<1> QED
  BY InitInv, NextInv, PTL DEF Spec

-----------------------------------------------------------------------------
(* The refinement of OneTimeExport. *)

LEMMA PhaseFcn == PhaseOf = [x \in IDs |-> PhaseOf[x]]
BY DEF PhaseOf

LEMMA InitPhases ==
    ASSUME Init
    PROVE  OneTime!Init
<1>1. \A x \in IDs : x \notin files /\ row[x].status = "none"
  BY DEF Init
<1>2. \A x \in IDs : PhaseOf[x] = "none"
  BY <1>1 DEF PhaseOf, Pending
<1>3. PhaseOf = [x \in IDs |-> "none"]
  BY <1>2, PhaseFcn
<1> QED
  BY <1>3 DEF Init, OneTime!Init

(* A step that takes one export from one phase to the next.                *)
LEMMA Advances ==
    ASSUME NEW x \in IDs, NEW from, NEW to,
           PhaseOf[x] = from, PhaseOf'[x] = to,
           \A y \in IDs \ {x} : PhaseOf'[y] = PhaseOf[y],
           UNCHANGED <<lapsed, confirmed>>
    PROVE  OneTime!Advance(x, from, to)
<1>1. PhaseOf' = [y \in IDs |-> PhaseOf'[y]]
  BY DEF PhaseOf
<1>2. PhaseOf' = [PhaseOf EXCEPT ![x] = to]
  BY <1>1, PhaseFcn
<1> QED
  BY <1>2 DEF OneTime!Advance

(* Steps that neither touch a file nor the status of a row.                *)
LEMMA SamePhases ==
    ASSUME files' = files, \A x \in IDs : row'[x].status = row[x].status
    PROVE  PhaseOf' = PhaseOf
BY DEF PhaseOf, Pending

LEMMA ProceedPhases ==
    ASSUME IInv, NEW t \in Threads, Proceed(t)
    PROVE  OneTime!Next \/ UNCHANGED OneTime!vars
<1> DEFINE x == task[t].id
<1>1. /\ x \in IDs /\ Holds(t) /\ TypeOK /\ Ends
      /\ \A y \in IDs : row[y].status \in RowStatuses
  BY ProceedTask DEF IInv, Held, TypeOK, Row
<1>2. UNCHANGED <<lapsed, confirmed>>
  BY DEF Proceed, InitCA, RemoveRootKey, WriteSettings, WriteFile, RecordExport,
         Answer, Send, Unlink, Consume, ReplaceToken
<1>3. CASE WriteFile(t)
  <2>1. /\ x \notin files /\ row[x].status = "none"
        /\ files' = files \cup {x} /\ row' = row
    BY <1>1, <1>3 DEF WriteFile, Holds, Making, At
  <2>2. PhaseOf[x] = "none" /\ PhaseOf'[x] = "stored"
    BY <1>1, <2>1 DEF PhaseOf, Pending
  <2>3. \A y \in IDs \ {x} : PhaseOf'[y] = PhaseOf[y]
    BY <2>1 DEF PhaseOf, Pending
  <2> QED
    BY <1>1, <1>2, <2>2, <2>3, Advances DEF OneTime!Next, OneTime!Store
<1>4. CASE RecordExport(t)
  <2>1. /\ x \in files /\ row[x].status = "none" /\ files' = files
        /\ row'[x].status = "pending" /\ \A y \in IDs \ {x} : row'[y] = row[y]
    BY <1>1, <1>4 DEF RecordExport, Holds, Making, At, TypeOK
  <2>2. PhaseOf[x] = "stored" /\ PhaseOf'[x] = "offered"
    BY <1>1, <2>1 DEF PhaseOf, Pending
  <2>3. \A y \in IDs \ {x} : PhaseOf'[y] = PhaseOf[y]
    BY <2>1 DEF PhaseOf, Pending
  <2> QED
    BY <1>1, <1>2, <2>2, <2>3, Advances DEF OneTime!Next, OneTime!Offer
<1>5. CASE Unlink(t) /\ x \in files
  <2>1. /\ Ended(x) /\ row[x].status = "pending"
        /\ files' = files \ {x} /\ row' = row
    BY <1>1, <1>5 DEF Unlink, Holds, Using, At, Ends, RowStatuses
  <2>2. PhaseOf[x] = "offered" /\ PhaseOf'[x] = "withdrawn"
    BY <1>1, <1>5, <2>1 DEF PhaseOf, Pending
  <2>3. \A y \in IDs \ {x} : PhaseOf'[y] = PhaseOf[y]
    BY <2>1 DEF PhaseOf, Pending
  <2> QED
    BY <1>1, <1>2, <2>1, <2>2, <2>3, Advances DEF OneTime!Next, OneTime!Withdraw, Ended
<1>6. CASE Consume(t) /\ row[x].status = "pending"
  <2>1. /\ x \notin files /\ files' = files /\ row'[x].status = "consumed"
        /\ \A y \in IDs \ {x} : row'[y] = row[y]
    BY <1>1, <1>6 DEF Consume, Holds, At, TypeOK, Row
  <2>2. PhaseOf[x] = "withdrawn" /\ PhaseOf'[x] = "ended"
    BY <1>1, <1>6, <2>1 DEF PhaseOf, Pending
  <2>3. \A y \in IDs \ {x} : PhaseOf'[y] = PhaseOf[y]
    BY <2>1 DEF PhaseOf, Pending
  <2> QED
    BY <1>1, <1>2, <2>2, <2>3, Advances DEF OneTime!Next, OneTime!End
<1>7. CASE \/ InitCA(t) \/ RemoveRootKey(t) \/ WriteSettings(t)
           \/ Answer(t) \/ Send(t) \/ ReplaceToken(t)
           \/ Unlink(t) /\ x \notin files
           \/ Consume(t) /\ row[x].status # "pending"
  <2>1. files' = files
    BY <1>7 DEF InitCA, RemoveRootKey, WriteSettings, Answer, Send, ReplaceToken, Unlink, Consume
  <2>2. \A y \in IDs : row'[y].status = row[y].status
    BY <1>1, <1>7 DEF InitCA, RemoveRootKey, WriteSettings, Answer, Send, ReplaceToken,
                      Unlink, Consume, TypeOK, Row
  <2> QED
    BY <1>2, <2>1, <2>2, SamePhases DEF OneTime!vars
<1> QED
  BY <1>3, <1>4, <1>5, <1>6, <1>7 DEF Proceed

LEMMA NextPhases ==
    ASSUME IInv, Next
    PROVE  OneTime!Next \/ UNCHANGED OneTime!vars
<1>1. ASSUME NEW x \in IDs, UNCHANGED <<files, row>>, x \in files, Pending(x),
             lapsed' \cup confirmed' = lapsed \cup confirmed \cup {x}
      PROVE  OneTime!Next
  <2>1. PhaseOf' = PhaseOf
    BY <1>1, SamePhases
  <2>2. PhaseOf[x] = "offered"
    BY <1>1 DEF PhaseOf
  <2> QED
    BY <1>1, <2>1, <2>2 DEF OneTime!Next, OneTime!Release
<1>2. ASSUME UNCHANGED <<files, row, lapsed, confirmed>>
      PROVE  UNCHANGED OneTime!vars
  BY <1>2, SamePhases DEF OneTime!vars
<1>3. ASSUME NEW t \in Threads, Begin(t)
      PROVE  OneTime!Next \/ UNCHANGED OneTime!vars
  <2>1. PICK x \in IDs :
          \/ Setup(t, x) \/ Issue(t, x) \/ Expire(t, x) \/ Recover(t, x)
          \/ \E token \in 0..MaxTokens : Download(t, x, token) \/ Confirm(t, x, token)
    BY <1>3 DEF Begin
  <2>2. CASE \E token \in 0..MaxTokens : Confirm(t, x, token)
    BY <1>1, <2>2 DEF Confirm, Available
  <2>3. CASE \/ Setup(t, x) \/ Issue(t, x) \/ Expire(t, x) \/ Recover(t, x)
             \/ \E token \in 0..MaxTokens : Download(t, x, token)
    BY <1>2, <2>3 DEF Setup, Issue, Expire, Recover, Download
  <2> QED
    BY <2>1, <2>2, <2>3
<1>4. ASSUME NEW x \in IDs, Lapse(x)
      PROVE  OneTime!Next
  <2>1. PhaseOf' = PhaseOf
    BY <1>4, SamePhases DEF Lapse
  <2>2. PhaseOf[x] \in {"offered", "withdrawn"}
    BY <1>4 DEF Lapse, PhaseOf, Pending
  <2> QED
    BY <1>4, <2>1, <2>2 DEF Lapse, OneTime!Next, OneTime!Release
<1>5. ASSUME NEW t \in Threads, Fail(t)
      PROVE  UNCHANGED OneTime!vars
  BY <1>2, <1>5 DEF Fail
<1>6. CASE Restart
  BY <1>2, <1>6 DEF Restart
<1> QED
  BY <1>3, <1>4, <1>5, <1>6, ProceedPhases DEF Next

(* Exports implement OneTimeExport: through any number of threads, failing *)
(* steps and restarts, each is stored, offered, withdrawn when confirmed   *)
(* or lapsed, and ended, in this order and once (_store_export,            *)
(* complete_export, cleanup_exports).                                      *)
THEOREM ExportsAreOneTime == Spec => IsOneTime
<1>1. IInv /\ [Next]_vars => [OneTime!Next]_OneTime!vars
  <2>1. CASE UNCHANGED vars
    BY <2>1, SamePhases DEF vars, OneTime!vars
  <2> QED
    BY <2>1, NextPhases
<1> QED
  BY <1>1, InitPhases, Invariance, PTL DEF Spec, IsOneTime, OneTime!Spec

-----------------------------------------------------------------------------
(* Every reachable state of the exports is well typed.                     *)
THEOREM TypeCorrect == Spec => []TypeOK
<1>1. IInv => TypeOK
  BY DEF IInv
<1> QED
  BY <1>1, Invariance, PTL

(* However many threads download, confirm and clean up, no consumed export *)
(* is sent (download_export, complete_export).                             *)
THEOREM NotSentAgain == Spec => []SentWhilePending
<1>1. IInv => SentWhilePending
  BY DEF IInv
<1> QED
  BY <1>1, Invariance, PTL

(* Nothing of an ended export stays on disk, through any number of failing *)
(* steps and restarts; a file without a row is that of a storing that was  *)
(* interrupted (_store_export, cleanup_exports).                           *)
THEOREM NothingStrays == Spec => []NoStrayFile
<1>1. IInv => NoStrayFile
  BY DEF IInv
<1> QED
  BY <1>1, Invariance, PTL

(* The root key of a CA that is set up is on disk, in hand, staged, or gone*)
(* by a confirmation, an expiry or a failed storing (initialize,           *)
(* _offline_root_export).                                                  *)
THEOREM RootKeyKept == Spec => []RootKeyAccounted
<1>1. IInv => RootKeyAccounted
  <2> SUFFICES ASSUME IInv, Initialized
               PROVE  \/ InHand(ca.setup) \/ Staged(ca.setup)
                      \/ ca.setup \in cut \cup lapsed \cup confirmed
    BY DEF RootKeyAccounted
  <2>1. ca.setup \in IDs /\ ca.settings
    BY DEF Initialized, IInv, TypeOK, CA, IDs
  <2>2. row[ca.setup].status \in {"none", "pending", "consumed"}
    BY <2>1 DEF IInv, TypeOK, Row, RowStatuses
  <2> QED
    BY <2>1, <2>2 DEF IInv, RootStored, Ends, Ended, Staged, Pending
<1> QED
  BY <1>1, Invariance, PTL

(* A setup that fails leaves nothing in the way of the next one, unless a  *)
(* restart has hit it (StepCAEngine.initialize).                           *)
THEOREM SetupRetried == Spec => []SetupCanBeRetried
<1>1. IInv => SetupCanBeRetried
  BY DEF IInv
<1> QED
  BY <1>1, Invariance, PTL

=============================================================================
