-------------------------- MODULE EnrollmentWindow --------------------------
(***************************************************************************)
(* The window of automatic enrollment.  Threads of the administrator's UI  *)
(* open and close it and save the settings of public issuance, each by     *)
(* reading the settings file and replacing all of it through one temporary *)
(* file, without a lock.  Handler threads of the provisioning listener     *)
(* count the attempts of a client and enroll it while the window is open.  *)
(*                                                                         *)
(* Every opening has a number, which stands for its auto_enroll_until;     *)
(* Lapse is the passing of that time.  Lengths of the file's contents are  *)
(* abstracted: a write over other contents may leave some of them behind.  *)
(* A step is what a thread does between two accesses of a file, or of      *)
(* automatic_attempts.                                                     *)
(***************************************************************************)
EXTENDS Naturals, FiniteSets

CONSTANTS
    None,          \* no zone
    Zones,         \* DNS zones that the administrator may save
    Admins,        \* threads of the UI process
    Handlers,      \* threads of the listener, serving one client address
    Limit,         \* attempts allowed in ten minutes (5)
    MaxOpenings,   \* bound on openings of the window
    MaxAttempts,   \* bound on attempts
    MaxRestarts    \* bound on restarts

ASSUME WindowAssumption ==
    /\ None \notin Zones
    /\ Limit \in Nat /\ MaxOpenings \in Nat /\ MaxAttempts \in Nat
    /\ MaxRestarts \in Nat

VARIABLES
    file,       \* settings.json
    temp,       \* settings.tmp
    task,       \* Admins -> the save that the thread is in
    opened,     \* openings so far
    lapsed,     \* openings whose time has passed
    request,    \* Handlers -> the request that the thread is in
    attempts,   \* automatic_attempts of the client
    recent,     \* attempts less than ten minutes ago
    asked,      \* attempts so far
    restarts,   \* restarts so far
    last,       \* history: what the last undisturbed save left
    raced,      \* history: saves have overlapped since
    shut,       \* history: openings that an undisturbed save has ended
    disturbed   \* history: attempts counted while another was

files == <<file, temp, task, opened, last, raced, shut>>
counts == <<attempts, recent, asked, disturbed>>
vars == <<files, counts, lapsed, request, restarts>>

Openings == 1..MaxOpenings
Attempts == 1..MaxAttempts

(* Contents that are not whole JSON read as the defaults.                  *)
Settings == [enabled : BOOLEAN, zone : Zones \cup {None}, until : {0} \cup Openings]
Defaults == [enabled |-> FALSE, zone |-> None, until |-> 0]
States == {"whole", "empty", "garbled", "absent"}
Contents == [state : States, settings : Settings]
Whole(s) == [state |-> "whole", settings |-> s]
Broken(state) == [state |-> state, settings |-> Defaults]

(* target: the file behind the thread's open descriptor, which a rename    *)
(* moves along; alone: no other save has been under way since this began.  *)
Task == [step : {"idle", "read", "opened", "written"}, values : Settings,
         target : {"none", "temp", "file", "gone"}, alone : BOOLEAN]
Idle == [step |-> "idle", values |-> Defaults, target |-> "none", alone |-> FALSE]

(* over: the openings that had ended when the request came.                *)
Request == [step : {"idle", "counting", "counted", "checked", "authorized"},
            seen : SUBSET Attempts, opening : {0} \cup Openings,
            over : SUBSET Openings]
NoRequest == [step |-> "idle", seen |-> {}, opening |-> 0, over |-> {}]

TypeOK ==
    /\ file \in [state : States \ {"absent"}, settings : Settings]
    /\ temp \in Contents
    /\ task \in [Admins -> Task]
    /\ opened \in 0..MaxOpenings
    /\ lapsed \subseteq Openings
    /\ request \in [Handlers -> Request]
    /\ attempts \subseteq Attempts /\ recent \subseteq Attempts
    /\ asked \in 0..MaxAttempts
    /\ restarts \in 0..MaxRestarts
    /\ last \in Settings
    /\ raced \in BOOLEAN
    /\ shut \subseteq Openings
    /\ disturbed \subseteq Attempts

Init ==
    /\ file = Broken("empty")
    /\ temp = Broken("absent")
    /\ task = [a \in Admins |-> Idle]
    /\ opened = 0
    /\ lapsed = {}
    /\ request = [h \in Handlers |-> NoRequest]
    /\ attempts = {} /\ recent = {} /\ asked = 0
    /\ restarts = 0
    /\ last = Defaults
    /\ raced = FALSE
    /\ shut = {}
    /\ disturbed = {}

-----------------------------------------------------------------------------
(* The administrator: read, change, replace.                               *)

Read == file.settings
Busy(a) == task[a].step # "idle"
Others(a) == {b \in Admins \ {a} : Busy(b)}

(* The thread has read the file and knows what to write.                   *)
Start(a, values) ==
    /\ ~Busy(a)
    /\ task' = [b \in Admins |->
                  IF b = a
                  THEN [step |-> "read", values |-> values, target |-> "none",
                        alone |-> Others(a) = {}]
                  ELSE [task[b] EXCEPT !.alone = FALSE]]
    /\ raced' = (raced \/ Others(a) # {})
    /\ UNCHANGED <<file, temp, last, shut, lapsed, request, counts, restarts>>

(* Slip: the window outlives the switch it depends on.                     *)
SaveKeepingWindow(a, enabled, zone) ==
    /\ enabled => zone # None
    /\ Start(a, [enabled |-> enabled, zone |-> zone, until |-> Read.until])
    /\ UNCHANGED opened

(* configure: everything is written anew, but for the window.              *)
Save(a, enabled, zone) ==
    /\ enabled => zone # None
    /\ Start(a, [enabled |-> enabled, zone |-> zone,
                 until |-> IF enabled THEN Read.until ELSE 0])
    /\ UNCHANGED opened

(* set_auto_enrollment                                                     *)
Open(a) ==
    /\ Read.enabled
    /\ opened < MaxOpenings
    /\ opened' = opened + 1
    /\ Start(a, [Read EXCEPT !.until = opened + 1])

Close(a) ==
    /\ Start(a, [Read EXCEPT !.until = 0])
    /\ UNCHANGED opened

Proceed(a, step, target) ==
    task' = [task EXCEPT ![a] = [@ EXCEPT !.step = step, !.target = target]]

(* Slip: the settings are written in place.                                *)
OpenInPlace(a) ==
    /\ task[a].step = "read"
    /\ file' = Broken("empty")
    /\ temp' = Whole(task[a].values)
    /\ Proceed(a, "opened", "temp")
    /\ UNCHANGED <<opened, last, raced, shut, lapsed, request, counts, restarts>>

(* write_text: the file is opened and truncated, then written.             *)
OpenTemp(a) ==
    /\ task[a].step = "read"
    /\ temp' = Broken("empty")
    /\ Proceed(a, "opened", "temp")
    /\ UNCHANGED <<file, opened, last, raced, shut, lapsed, request, counts, restarts>>

(* What writing new values from the start of a file with old contents can  *)
(* leave.                                                                  *)
Written(old, values) ==
    IF old.state = "empty" \/ old = Whole(values)
    THEN {Whole(values)}
    ELSE {Whole(values), Broken("garbled")}

WriteTo(a, target, f) ==
    /\ task[a].step = "opened" /\ task[a].target = target
    /\ f' \in Written(f, task[a].values)
    /\ Proceed(a, "written", "none")
    /\ UNCHANGED <<opened, last, raced, shut, lapsed, request, counts, restarts>>

WriteTemp(a) == WriteTo(a, "temp", temp) /\ UNCHANGED file

(* Another thread has renamed the temporary file meanwhile.                *)
WriteFile(a) == WriteTo(a, "file", file) /\ UNCHANGED temp

WriteNowhere(a) ==
    /\ task[a].step = "opened" /\ task[a].target = "gone"
    /\ Proceed(a, "written", "none")
    /\ UNCHANGED <<file, temp, opened, last, raced, shut, lapsed, request, counts, restarts>>

(* The rename takes descriptors of other threads along.                    *)
Moved(target) ==
    CASE target = "temp" -> "file" [] target = "file" -> "gone" [] OTHER -> target

(* Slip: the rename does not need the temporary file.                      *)
ReplaceAny(a) ==
    /\ task[a].step = "written"
    /\ file' = temp
    /\ temp' = Broken("absent")
    /\ task' = [b \in Admins |-> IF b = a THEN Idle
                                 ELSE [task[b] EXCEPT !.target = Moved(@)]]
    /\ UNCHANGED <<opened, last, raced, shut, lapsed, request, counts, restarts>>

(* The openings that a save does not end: none when it disables issuance.  *)
Kept(values) == IF values.enabled THEN {values.until} ELSE {}

(* chmod and os.replace.                                                   *)
Replace(a) ==
    /\ task[a].step = "written"
    /\ temp.state # "absent"
    /\ file' = temp
    /\ temp' = Broken("absent")
    /\ task' = [b \in Admins |-> IF b = a THEN Idle
                                 ELSE [task[b] EXCEPT !.target = Moved(@)]]
    /\ IF task[a].alone
       THEN /\ last' = task[a].values
            /\ raced' = FALSE
            /\ shut' = shut \cup ((1..opened) \ Kept(task[a].values))
       ELSE UNCHANGED <<last, raced, shut>>
    /\ UNCHANGED <<opened, lapsed, request, counts, restarts>>

(* Another thread has renamed it: FileNotFoundError.                       *)
ReplaceFails(a) ==
    /\ task[a].step = "written"
    /\ temp.state = "absent"
    /\ task' = [task EXCEPT ![a] = Idle]
    /\ UNCHANGED <<file, temp, opened, last, raced, shut, lapsed, request, counts, restarts>>

-----------------------------------------------------------------------------
(* The listener: POST /v1/auto-enrollments of one client address.          *)

Continue(h, step) == request' = [request EXCEPT ![h].step = step]
End(h) == request' = [request EXCEPT ![h] = NoRequest]
Counting == {h \in Handlers : request[h].step = "counting"}

(* Slip: one attempt too many.                                             *)
CountOneMore(h) ==
    /\ request[h].step = "idle"
    /\ Cardinality(attempts) <= Limit
    /\ request' = [request EXCEPT ![h] =
                     [NoRequest EXCEPT !.step = "counting",
                                       !.seen = attempts,
                                       !.over = shut \cup lapsed]]
    /\ UNCHANGED <<files, counts, lapsed, restarts>>

(* The attempts of the last ten minutes; at the limit: 429.                *)
Count(h) ==
    /\ request[h].step = "idle"
    /\ Cardinality(attempts) < Limit
    /\ request' = [request EXCEPT ![h] =
                     [NoRequest EXCEPT !.step = "counting",
                                       !.seen = attempts,
                                       !.over = shut \cup lapsed]]
    /\ UNCHANGED <<files, counts, lapsed, restarts>>

(* The attempt is added to what was read, and the sum is stored.  Whoever  *)
(* is counting now will store without it.                                  *)
Store(h) ==
    /\ request[h].step = "counting"
    /\ asked < MaxAttempts
    /\ asked' = asked + 1
    /\ recent' = recent \cup {asked + 1}
    /\ attempts' = (request[h].seen \cap recent) \cup {asked + 1}
    /\ disturbed' = IF Counting = {h} THEN disturbed
                    ELSE disturbed \cup {asked + 1}
    /\ request' = [request EXCEPT ![h].step = "counted", ![h].seen = {}]
    /\ UNCHANGED <<files, lapsed, restarts>>

WindowOpen == Read.until # 0 /\ Read.until \notin lapsed

(* Slip: the time of the window is not looked at.                          *)
CheckWindowOnce(h) ==
    /\ request[h].step = "counted"
    /\ Read.until # 0
    /\ request' = [request EXCEPT ![h].step = "checked", ![h].opening = Read.until]
    /\ UNCHANGED <<files, counts, lapsed, restarts>>

(* create_automatic_device_enrollment                                      *)
CheckWindow(h) ==
    /\ request[h].step = "counted"
    /\ WindowOpen
    /\ request' = [request EXCEPT ![h].step = "checked", ![h].opening = Read.until]
    /\ UNCHANGED <<files, counts, lapsed, restarts>>

(* A malformed request, or no open window: 400, 403.                       *)
Refuse(h) ==
    /\ request[h].step = "counted"
    /\ End(h)
    /\ UNCHANGED <<files, counts, lapsed, restarts>>

(* _authorize_device_enrollment reads the settings again.                  *)
Authorize(h) ==
    /\ request[h].step = "checked"
    /\ Read.enabled
    /\ Continue(h, "authorized")
    /\ UNCHANGED <<files, counts, lapsed, restarts>>

RefuseDisabled(h) ==
    /\ request[h].step = "checked"
    /\ ~Read.enabled
    /\ End(h)
    /\ UNCHANGED <<files, counts, lapsed, restarts>>

Answer(h) ==
    /\ request[h].step = "authorized"
    /\ End(h)
    /\ UNCHANGED <<files, counts, lapsed, restarts>>

-----------------------------------------------------------------------------
(* Time and restarts.                                                      *)

Lapse(o) ==
    /\ o <= opened /\ o \notin lapsed
    /\ lapsed' = lapsed \cup {o}
    /\ UNCHANGED <<files, counts, request, restarts>>

(* Ten minutes have passed since the oldest of the recent attempts; who    *)
(* reads the list leaves it out.                                           *)
Forget ==
    /\ recent # {}
    /\ recent' = {i \in recent : \E j \in recent : j < i}
    /\ attempts' = attempts \cap recent'
    /\ disturbed' = disturbed \cap recent'
    /\ UNCHANGED <<files, asked, lapsed, request, restarts>>

(* Both processes end; the files stay as they are.                         *)
Restart ==
    /\ restarts < MaxRestarts
    /\ restarts' = restarts + 1
    /\ task' = [a \in Admins |-> Idle]
    /\ request' = [h \in Handlers |-> NoRequest]
    /\ attempts' = {} /\ recent' = {} /\ disturbed' = {}
    /\ UNCHANGED <<file, temp, opened, last, raced, shut, lapsed, asked>>

-----------------------------------------------------------------------------

Next ==
    \/ \E a \in Admins :
         \/ \E enabled \in BOOLEAN, zone \in Zones \cup {None} : Save(a, enabled, zone)
         \/ Open(a) \/ Close(a)
         \/ OpenTemp(a)
         \/ WriteTemp(a) \/ WriteFile(a) \/ WriteNowhere(a)
         \/ Replace(a) \/ ReplaceFails(a)
    \/ \E h \in Handlers :
         \/ Count(h) \/ Store(h)
         \/ CheckWindow(h) \/ Refuse(h)
         \/ Authorize(h) \/ RefuseDisabled(h) \/ Answer(h)
    \/ \E o \in Openings : Lapse(o)
    \/ Forget
    \/ Restart

Spec == Init /\ [][Next]_vars

-----------------------------------------------------------------------------
(* Properties.                                                             *)

(* Unless saves have overlapped since, the settings that every process     *)
(* reads are those of the last completed save: whatever save is under way  *)
(* or was cut off by a restart, no reader sees a part of it, and no later  *)
(* save carries on its leftovers (_write_settings).                        *)
KeptSettings == ~raced => file.settings = last

(* A window that a save ended, while no other save was under way, stays    *)
(* closed: neither a later save of other settings, nor one that a restart  *)
(* cut off, nor a race of two later ones brings that opening back          *)
(* (configure keeps auto_enroll_until; DOCS.md, "can close the window      *)
(* immediately").                                                          *)
ClosedStaysClosed == Read.until \notin shut

(* A client is enrolled only under an opening that had not been ended or   *)
(* lapsed when its request came, although the settings are read twice and  *)
(* may change in between (create_automatic_device_enrollment).             *)
NotAfterClose ==
    \A h \in Handlers : request[h].step = "authorized" =>
        request[h].opening \in Openings \ request[h].over

(* Attempts that were not counted together with another one are at most    *)
(* Limit in ten minutes, whatever overlapping ones have overwritten before *)
(* or between them (auto_enrollment, automatic_attempts).                  *)
RateLimited == Cardinality(recent \ disturbed) <= Limit

=============================================================================
