# A verification of the Home Assistant IoT Certificate Authority

This directory holds TLA+ models of the add-on, TLC configurations that check
them on small instances, and TLAPS proofs of theorems about them for every
instance. Paths below are relative to
`src/iot_certificate_authority/rootfs/opt/iot-ca/iot_ca/`.

## The system

`run.sh` starts five groups of processes, and stops the add-on when any one of
them exits:

- `step-ca`, its log piped into `acme_inventory.py --stream`;
- the administrator UI: `web.py` in gunicorn, one process with four threads;
- nginx;
- the provisioning listener: `provisioning_identity.py`, then
  `provisioning_api.py` in gunicorn, one process with four threads and an
  executor with a single worker thread;
- `signed_time.py`, a time authority.

The web process, the listener and the importer each open `inventory.db` (SQLite
in WAL mode); web and listener each have a `CertificateService` of their own.
There is no lock across processes other than the database's. `sqlite3` runs a
SELECT outside any transaction and begins one at the first INSERT or UPDATE,
unless the code says `BEGIN IMMEDIATE` (as `add_device_renewal` and
`claim_device_enrollment` do).

### Components

| component | state | operations | what makes it hard | what makes it correct |
|---|---|---|---|---|
| Provisioning listener (`provisioning_api.py`, `service.py`, `database.py`) | tables `device_enrollments`, `device_renewals`; in memory the set `active`, the executor's queue | authorize; POST and GET of enrollments and renewals; the two `fulfill` jobs | handler threads against the worker; retries by devices; expiry; restarts that forget the queue; jobs of several transactions | an operation is worked on once at a time, ordered once, answered for the request it was claimed with; one renewal of a device at a time; every operation is decided |
| Certificate inventory (`database.py`, `service.py`, `acme_inventory.py`) | table `certificates` | issue, reissue, renew, revoke, replace, import, record, repair the history | three processes; a selection before the transaction; an issuer that has revoked while the update fails | status and issuer agree; a replaced certificate is retired; one active public certificate of a name |
| One-time exports (`service.py`, `web.py`) | files in `exports/`, table `exports`, the link in a browser's session | store, download, confirm, expire, recover the link | a file and a row without a transaction across them; confirmation and cleanup against download | nothing of an ended export remains; an expired one is deleted |
| CA engine (`engine.py`) | `step/`, the intermediate's password, `settings.json` | initialize, sign, revoke, ports | a setup of several steps that may fail between any two | the root key is always accounted for; a failed setup can be repeated |
| External ACME (`external_acme.py`) | lego's accounts and certificates, the account kept for each certificate | issue, recover an account, revoke | an account quarantined and registered anew in the middle of an order | a certificate can be revoked by the account that issued it |
| Window of automatic enrollment (`external_acme.py`, `provisioning_api.py`, `service.py`) | `settings.json`, the one `settings.tmp`; in memory the attempts of each client | configure, open, close; POST of an automatic enrollment | every save reads, changes and replaces all of the file through one temporary file, without a lock; the settings are read twice for one request; attempts are counted without a lock | the settings are whole and the last ones; a closed window stays closed; no more attempts than allowed |
| Signed time (`signed_time.py`, `clock_status.c`) | the clock's anchor, healthy and fault flags; the key, the status file | sample, answer, publish; create and load the key | samples that are late, of a clock that steps, stalls or comes back; a monitor thread that nobody watches; a status that outlives its process | no time is signed on a faulty or stale clock; a key given to devices stays |
| Provisioning identity (`provisioning_identity.py`) | the listener's certificate and key | accept, or sign and replace, at startup | two renames; a CA that is not online yet | the pair matches when the listener serves |
| Startup and supervision (`run.sh`) | the processes | start all, stop all when one exits | what one process lacks at the start stops every other | the listener gets to serve |
| Profiles (`profiles.py`) | none | validation of a request | none (pure) | policy bounds |
| nginx, templates, static files | none | | | |

The hazards of this code, each at its line with the properties that cover it,
are listed in `PROJECT.json`.

## Modules

| module | models | status |
|---|---|---|
| `DeviceEnrollment` | the provisioning listener | done |
| `EnrollmentProtocol` | what the listener promises a device, without threads, queue or restarts | done |
| `CertificateLifecycle` | what becomes of a recorded certificate, whoever writes the table; both `CertificateInventory` and `DeviceEnrollment` implement it | done |
| `OneTimeExport` | what becomes of an export, without the CA, links, threads and failures; `Exports` implements it | done |
| `DeviceEnrollment_proofs` | theorems about `DeviceEnrollment`: types, admission, orders | three theorems |
| `EnrollmentAnswers_proofs` | more of them: where operations are worked on, which certificates are active, what devices are answered, what ends an authorization, and the refinements of `EnrollmentProtocol` and `CertificateLifecycle` | eight theorems |
| `CertificateInventory` | the certificates table and its writers in three processes | done |
| `Exports` | one-time exports and the setup of the CA | done |
| `CertificateInventory_proofs` | theorems about `CertificateInventory` | types, all five invariants, the action property, and the refinement of `CertificateLifecycle` with a consequence |
| `Exports_proofs` | theorems about `Exports` | types, all four invariants, and the refinement of `OneTimeExport` |
| `ExternalAcme` | orders, account recovery and revocation through lego | done |
| `ExternalAcme_proofs` | theorems about `ExternalAcme` | types, the invariant and the action property |
| `EnrollmentWindow` | the settings file, the window of automatic enrollment, and the requests that depend on it | done |
| `EnrollmentWindow_proofs` | theorems about `EnrollmentWindow` | all five invariants |
| `SignedTime` | the clock of the time authority and its monitor thread | done |
| `SignedTime_proofs` | theorems about `SignedTime` | all four invariants |
| `Startup` | the start of the add-on: listener's identity, time key and status, stops and losses of power | done |
| `Startup_proofs` | theorems about `Startup` | types and all three invariants |
| `MCDeviceEnrollment`, `MCCertificateInventory`, `MCExports`, `MCExternalAcme`, `MCEnrollmentWindow`, `MCSignedTime`, `MCStartup` | instances for TLC | done |

A definition named `...Only`, `...Any...` and so on, whose comment begins with
"Slip:", is not part of any specification. It is the definition below it with a
plausible mistake, and shows that the property it is paired with in
`PROJECT.json` notices that mistake.

### DeviceEnrollment

Both tables are one function `row` from operations (enrollments and renewals) to
their status, owner, request and result. A handler thread is a record that says
at which step of a POST it is; the worker likewise for the `fulfill` methods. A
step is one transaction, one critical section of `active_lock`, or one call to
an outside service. A POST of an enrollment is a single transaction (`Claim`,
`Reclaim`, `ClaimLapsed`); a POST of a renewal reads the row of its request id,
then the enrollment, then the active identity, and only then admits the row
(`Renew` .. `RereadRenewal`), so that others move in between. The two `fulfill`
methods have the same steps and share the actions `ReadRow` .. `Release`;
`MayStore` is their one difference, the status condition of the final updates.
Recording a certificate is two steps, `SelectPublic` and `RecordPublic` (and the same
for the renewal identity), because `add_certificate` selects the row to supersede
before its transaction begins: what the administrator revokes in between is
overwritten with `superseded`. `StepRaises` is an exception at any step of the `try`
block, `LoseFailure` one that leaves the row as it was: of the reads before the
`try`, or in the `except` block itself. The administrator, one at a time, revokes
an active renewal identity in two steps, at the private CA and in its row
(`Revoke`, then `MarkRevoked` or `RevokeFails`); `revoking` is the certificate
between the two, which may have been superseded when it is marked. `Restart` is `run.sh` stopping and the
supervisor starting the add-on again.

Abstracted: a set of certificate requests is a member of `Requests`, valid or
not; a certificate is its profile, name, status and the operation and requests
it was issued for; tokens are knowledge of an id; proof of possession is that a
device presents only identities some device has received (`Bodies`).
The time limit of an enrollment is the nondeterministic action `Lapse`. The
public order and the signature by the private CA either succeed or raise.

### EnrollmentProtocol

The abstract specification: an offered enrollment accepts one set of requests; a
renewal is accepted for an answered enrollment, one at a time; an accepted
operation is answered for exactly its requests or refused. `ImplementsProtocol`
states that `DeviceEnrollment` refines it, an operation's answer being the
requests that its delivered identity certifies.

### CertificateInventory

`certs` is every certificate a CA has signed, in order of `not_before`; one with
status `issued` is not a row of the table (yet). An actor (a web thread, the
worker, the importer) has a task: the certificate it records, the one it
replaces or revokes, and the step it has reached. `Names` are common names; that of a
private certificate stands for its profile as well. Selecting the certificate to
supersede (`SelectPrevious`, `SelectImported`) and the transaction that acts on
it (`Write`) are separate steps, because the SELECT precedes the transaction. A
reissue is `Reissue`, `Insert`, `RevokeAtCA`, `Mark`; a revocation is the last
two. The form of a reissue can be edited, so that the replacement may have another
name or profile than what it replaces (`Reissue(a, i, name)`); only `renewedFrom` then
says what it was issued for. Opening the inventory reads the recorded public rows (`OpenRead`, kept
in `rows`) and repairs them (`OpenWrite`) according to what was read, whatever
other processes have written since; so a certificate that was revoked in
between may be superseded, which is the exception `RevokedUnlessStale` grants.
`interrupted` (certificates whose reissue or revocation was cut off after its first
effect) and `raced` are history variables that name the exceptions of the other
properties. Assumed of the public CA is that it names the first host of the request
as the common name.

### CertificateLifecycle

The two modules above write the same table from different sides, so they share
one abstract specification: a certificate is recorded once, active; it keeps its
identity (kind and name in the inventory, profile and name in the listener); it is
superseded by the recording of a certificate of its identity, or later because one
signed after it is recorded, or because an operator had it reissued (`reissued`), under
whatever identity; it may be revoked; it is never active again.
In both, `FollowsLifecycle` is the refinement, with the recorded certificates as the
domain of the two mapped functions. The abstract `Supersede` may hide a revocation,
since the code's unconditional UPDATEs may; when they may is what
`RevokedUnlessStale` says.

### Exports

An export is a file and a row. Storing is `WriteFile`, `RecordExport`, `Answer`;
ending is `Unlink`, `Consume`, after a confirmation (`Confirm`) or when the
cleanup that precedes every request has found it expired (`Expire`). A download
finds the row (`Download`) and opens the file later (`Send`). The setup of the CA
(`Setup` .. `WriteSettings`) is one more way to arrive at an export: that of the
root key. `Fail` at any step of the setup removes what the setup made; elsewhere
it leaves things as they are.

`OneTimeExport` is the promise: an export is stored, offered, withdrawn only after
it was released by a confirmation or an expiry, and ended. `PhaseOf` reads the
phase off the file and the row; the promise fails when the file goes before the
release, or the row before the file.

### ExternalAcme

`dir` is lego's directory of each account: none, a key without a registration
(what a failed recovery leaves), or a registered account. `known` are the keys
that the public CA recognises; `Forget` takes one away. An order is `Order`
(the account of the settings at that moment), `Run` (lego loads or creates the
account), `Deliver` or `Missing`, and after the latter `Quarantine`, `Register`
and `Run` once more. A revocation is `Revoke` (the candidate accounts), one
`TryRevoke` or `AttemptFails` for each, and `Refuse` when none is left.
Web threads order and revoke, the listener's worker orders. `Init` allows for
accounts and orphaned keys that earlier releases left (`Legacy`).
`raced` is a history variable: keys moved away in place of the one that the
order had failed with.

What lego and the CA do is modelled from how `external_acme.py` and
`tests/test_external_acme.py` use them: lego creates an account that is not
there, a key that the CA does not know fails with `accountDoesNotExist` in
orders and registrations alike, and only the issuing account may revoke. An
account is an id on a server, so that accounts of another environment are other
accounts; finding an account by its email counts as finding it by its id.

### EnrollmentWindow

`file` and `temp` are `settings.json` and `settings.tmp`; contents are whole,
empty, garbled or absent, and what is not whole JSON reads as the defaults
(`settings`). A save reads the file and decides what to write (`Save`, `Open`,
`Close`, which are `configure` and `set_auto_enrollment`), opens and truncates
the temporary file (`OpenTemp`), writes (`WriteTemp`) and renames it (`Replace`).
All threads use the same temporary file: a rename takes the descriptors of other
threads along, so that they write into the settings file itself (`WriteFile`) or
into a file that is gone (`WriteNowhere`), and the last rename finds no file
(`ReplaceFails`). A request reads the list of attempts (`Count`), stores it
with its own added (`Store`), reads the settings for the window (`CheckWindow`)
and again for the switch (`Authorize`). Each opening has a number, which stands
for its `auto_enroll_until`; `Lapse` is the passing of that time, `Forget` that of
ten minutes.

`alone` marks a save that no other has overlapped; `last`, `shut`, `raced` and
`disturbed` are history. Saves that overlap can do what one would fear: leave
settings that no save wrote whole, and open a closed window again because the
other save had read it open. The properties say that nothing else can: what an
undisturbed save left stays until the next, and what it closed stays closed even
through overlapping saves later, because none of them can have read it.

### SignedTime

A reading of a clock is an offset, UTC minus the monotonic clock; instead of the
monotonic clock there are ages, which `Tick` advances, each up to one more than
the limits it is compared with. The monitor thread is `Begin`, `ReadSource` (the
helper or chronyc has read the time), `EndSample` (`Clock.refresh` under its lock)
or `SampleFails`, then `Publish` or `PublishFails`, which ends the thread while the
server goes on. `Answer` is an answer to a device, from the anchor. The source
may be stepped or steered (`StepSource`), lose its evidence of synchronisation,
or be a chronyd that has ended (`SourceChanges`). `calm`, `mark` and `seen` are
history.

### Startup

`run.sh` starts everything (`Start`) and stops everything when a process exits
(`Stop`, at any step; `WaitTimesOut` is the listener's own exit after ten minutes).
The listener waits for the CA, looks at its files, signs and renames twice
(`CAIsReady` .. `RenameKey`). The time process loads its options, then creates,
writes, synchronises and opens its key (`LoadOptions` .. `OpenKey`) and publishes
its status; with options or a key that it does not accept it says so and sleeps.
Files survive a stop. A loss of power (`PowerLoss`) takes a time key whose
directory was not synchronised, undoes what of the listener's two files was not
written back, and restarts the monotonic clock, so that an old stamp may look
fresh. `ensure_identity` synchronises neither contents nor renames: `disk` is what a
loss of power may leave of each file (the old one, the new one, or one without
contents), until the kernel has written it back (`WriteBack`). The administrator sets up the CA, changes the options, and
exports the key (`Export`). `torn`, `cut` and `able` are history.

The certificate of the listener is looked at when the process starts and never
again: one that falls due while it serves stays (`FallDue`, `due`). After a stop between
the two renames, or a loss of power before both files were written back, the next
start accepts a mixed pair, or a certificate with an empty key, since nothing but the
certificate is looked at. gunicorn starts with any two files, but no connection
succeeds: the listener runs on without `Serving`, through every start, until one finds
the certificate due. `PairMatches` and `ListenerServes` grant this one exception
(`torn`), which ends with the next renewal.

## What is checked

| run | instance | properties | shows |
|---|---|---|---|
| `restart` | 1 enrollment, 1 renewal, 3 requests, 2 threads, 1 fault, 1 revocation | `SingleFlight`, `IssuedOncePerFault`, `AnswersItsRequest`, `OneActivePerIdentity`, `RenewalPathOpen`, `ImplementsProtocol`, `RevocationEndsRenewals` | a stop or a failure anywhere: no operation worked on twice, bounded orders, fitting answers, one active certificate of an identity, a renewal path until the identity is revoked and none after, and refinement of the protocol |
| `decided` | 1 enrollment, 2 renewals, 1 thread, 1 fault, fairness | `OnePendingRenewal`, `PendingIsDecided`, `FollowsLifecycle` | competing renewals are admitted one at a time; a persistent device gets a decision, whatever others do; certificates of the two go through `CertificateLifecycle`, repairs at a restart included |
| `inventory` | 2 web threads, the importer, 3 certificates, 2 names, 1 restart, new and upgraded tables | `NewestIsActive`, `RevokedAtItsIssuer`, `RevocationIsShown`, `ReplacedIsRetired`, `TwoActiveOnlyIfRaced`, `RevokedUnlessStale`, `FollowsLifecycle` | the table never claims more than the issuer did and hides a revocation only when interrupted; two active certificates of a name, and a revocation that is hidden later, arise only from a stale read; the newest certificate of an identity stays active unless an older one was recorded after it and replaced it; the table goes through `CertificateLifecycle` |
| `exports` | a root and a leaf export, 2 threads, 2 recovered links, 1 restart, fairness | `SentWhilePending`, `NoStrayFile`, `RootKeyAccounted`, `SetupCanBeRetried`, `ExpiredIsDeleted`, `IsOneTime` | nothing of an ended export remains; the root key is never destroyed by any step but the intended ones and a failed store; every export keeps the promise of `OneTimeExport` |
| `accounts` | an account and a legacy account, a web thread, the worker, 2 faults, fairness | `IssuerIsRetained`, `RevocationFindsIssuer`, `AccountRecovers` | an account with live certificates is kept, except in the race of `quarantine`; a revocation finds the issuing account whatever is configured by then; repeated orders end with an account that the CA accepts |
| `window` | 2 saving threads, 2 handlers, 1 opening, 2 attempts of which 1 is allowed, 1 restart | `TypeOK`, `KeptSettings`, `ClosedStaysClosed`, `NotAfterClose`, `RateLimited` | the settings are whole and the last ones unless saves overlap; a closed window stays closed; only overlapping attempts exceed the limit |
| `signed_time` | lease 7, wait 2, delay 1, tolerance 1, offsets 0 to 2, 2 steps of the source, 1 fault, fairness | `TypeOK`, `StepIsFinal`, `TimeHardlyGoesBack`, `AnswersWithSource`, `OutageRecovers` | no signing after a step that was seen or on a stale sample; no answer is earlier than an earlier one by more than a tolerance; outages end |
| `startup` | 1 enabling option, 3 pairs, 2 time keys, 2 faults, fairness | `PairMatches`, `PinnedKeyStays`, `HealthOfThisBoot`, `ListenerServes` | stops and losses of power anywhere in the start: the listener gets to run, and to serve with a matching pair unless its files were torn; a key given to devices stays; health is of this boot |

The types of the modules whose run does not list `TypeOK` are theorems (`TypeCorrect`).

Four runs show where the code departs from what the repository says of it:

| run | property | divergence |
|---|---|---|
| `credential` | `CredentialKeepsAuthorizing` | an enrollment POST repeated after the expiry turns a complete enrollment into an expired one, and the device's renewals are refused from then on |
| `revoked` | `RevokedCannotRenew` | the UI says that a revoked certificate cannot renew, but a renewal let in before is worked on whatever has become of the identity it presents, and the device gets a new active one |
| `root_key` | `RootKeyStaged` | the root key is deleted before its export is stored; a failure in between loses it |
| `quarantine` | `QuarantinesOnlyStale` | of two orders that fail with one account, the second moves away the account that the first has just registered |

### Bounds

- `MaxFaults` (restarts, and in `DeviceEnrollment` also failures that could not
  be saved) is 1 or 2. Exceptions that the code handles are not bounded. One
  restart shows the effect of losing all memory at any step; that a recovery may
  be interrupted in turn is covered for every number of faults by the theorem
  `OrderedOncePerFault`.
- Two threads are enough for each critical section and each gap between two
  transactions to be entered by another; a third adds no new pair of steps.
- Two renewals are needed only where they compete for the pending slot, so the
  runs are split accordingly. Several enrollments that compete for a host name, or
  present each other's identities, are covered by the theorems
  `OneActive`, `WorkedOnOnce` and `AnswersAreFitting` for any number of them.
- `MaxRevocations` is 1 where a revocation matters: the properties speak of one
  identity and what comes after its revocation.
- `MaxCerts` is 3 in `CertificateInventory`: a certificate, its replacement and a
  competing replacement, or two left by an earlier release and a new one. The
  worker records public certificates with the same two steps as a web thread, so
  that two web threads show its races too; the importer is in a third process. Two
names are one to issue for and one to edit it into; a third could only keep the
certificates apart.
- In `window` one opening is enough to be closed, brought back or read between two
  saves, and a limit of one attempt is exceeded by two. The theorems hold for
  every bound.
- The unit of time in `signed_time` is 2 s, so that the code's 2 s, 5 s and 15 s
  become 1, 2 and 7 units. Offsets 0 to 2 hold a step (more than the tolerance)
  and a change that is none. The theorems hold for all limits with
  `Tolerance <= Wait`.
- `startup`: two faults let a start be interrupted, and the one after it; three
  pairs are the two of a mixed pair and a new one. One enabling option beside `Off` and
  `Invalid` lets a status outlive a change of the options and back; the theorem
  `HealthShown` holds for any number of enabling options.
- `MaxTokens` bounds the recovered links of one export in `Exports`.
- Faults in `ExternalAcme` are restarts, keys forgotten by the CA and failed
  registrations. Two let a recovery fail and leave an orphaned key in the middle
  of the race of two recoveries. The settings change between one account and
  none; the second account is an earlier release's, so that a certificate's
  issuer is to be told from the account configured by then.
- Symmetry (handler threads, valid requests) is used in safety runs only.

Deadlock is checked in `signed_time`, `window` and `startup`, whose processes never
rest. It is not checked in the other runs: with nothing left to request and every
bound reached, a listener, an inventory, an export store or a set of orders rests.
What must not stop there is stated as liveness.

### Fairness

`DeviceEnrollment!Fairness` is weak fairness of the worker thread and of each
handler thread: operating-system threads keep running. Nothing is assumed of the
device, the administrator, the clock or failures. `PendingIsDecided` needs one
assumption more, which is therefore part of its statement (`Persistence`): the
device repeats its request, and the database does not refuse every repetition of
one renewal. Without the device the property is false, as nothing
reschedules a pending row after a restart.

`Exports!Fairness`: threads finish what they begin; and since every request to
the web process begins with the cleanup (and the UI is polled), a request that
finds the expired export comes again and again and does not always fail (strong
fairness of `Expire`, `Unlink`, `Consume`, because another failure may disable
each for a while).

`ExternalAcme!Fairness`: threads finish what they begin, and orders come again
and neither the file system nor the CA fails each of them at the same step for
ever (strong fairness of the steps of an order, as `Fail` may disable each for a
while). `AccountRecovers` speaks of an account that stays configured. Without
repeated orders nothing would recover: the code has no recovery of its own.

`SignedTime!Fairness`: time passes and the monitor thread runs on (weak fairness of
`Tick` and `MonitorStep`; a thread that has died stays dead), and a sample that
can again and again be taken in time sometimes is (strong fairness of the steps of
a sample within `MaxDelay`): the helper and chronyc are given one second each, half
of what `Clock.refresh` allows.

`Startup!Fairness`: the add-on is started whenever it has stopped, step-ca comes
online once the CA is set up, both processes run on, and the kernel writes back what
it holds of their files. Nothing is assumed of the
administrator or of options; faults are bounded in number.

`EnrollmentWindow` has no liveness property: a save that fails is reported, and a
refused client asks again by hand.

## What is proved

In `DeviceEnrollment_proofs`, from `ConstantsAssumption` alone (ids of
enrollments and renewals differ, `None` is neither an id nor a request,
every enrollment has a host, valid requests are requests, `MaxFaults` is a
number), so for any number of devices, threads, operations and faults:

- `TypeCorrect`: `Spec => []TypeOK`. Not inductive by itself: the worker writes
  certificates named after the owner of its row, which is an enrollment only
  once the row exists. The invariant is `TypeInv == TypeOK /\ WellFormed`, where
  `WellFormed` says that existing rows are owned, that threads and queue name
  existing rows once they are past admission, and that the worker past its
  check holds valid requests.
- `OneRenewalAtATime`: `Spec => []OnePendingRenewal`. The only step that makes
  a row pending while it might compete is `AdmitRenewal`, whose check and insert
  are one transaction.
- `OrderedOncePerFault`: `Spec => []IssuedOncePerFault`. This one needs the
  invariant `IssueInv`: an undecided operation has been ordered at most as often
  as there were faults, or its order is in the hands of the worker. It says why
  the status check at the start of a job is enough although jobs may be queued
  more than once over time.

In `EnrollmentAnswers_proofs`, from the same assumption and on top of `TypeInv`:

- `WorkedOnOnce`: `Spec => []SingleFlight`, by `FlightInv`, which adds that an idle
  worker holds no operation. One lemma for each way of changing an operation's
  place: `Schedule`, `Submit`, `Take`, `Release`.
- `OneActive`: `Spec => []OneActivePerIdentity`. It is inductive with the types and
  `SelectInv`: the certificate that the worker selected before its transaction is still
  the only one of the identity that can be active. Only the worker records
  certificates of these identities, and all that other steps do to one is to retire it.
- `AnswersAreFitting`: `Spec => []AnswersItsRequest`, by `AnswerInv`: the request of a
  claimed row never changes (`ClaimedStay`), threads past admission, queue and
  worker hold claimed rows only, and what the worker has read and recorded so far is
  for the request of its row (`JobInv`).
- `RevokedForGood`: `Spec => RevocationEndsRenewals`, an action property of revoked and
  superseded identities, since the first may become the second: a row is
  admitted only by a thread that was about to, and a thread comes to be only by
  comparing its identity with the active one (`Checking`).
- `PromiseHolds`: `Spec => ImplementsProtocol`, the refinement. `PromiseKept` maps
  every step to a step of `EnrollmentProtocol` or to none, by the way it moves a
  row (`RowsMove`). It needs `PromiseInv`: a renewal past its check is for an enrollment
  that was answered, results are recorded, and nobody but the worker decides the
  renewal it works on, which is why `complete_device_renewal` may do without the
  status condition of its counterpart.
- `ListenerFollowsLifecycle`: `Spec => FollowsLifecycle`. By `SelectInv` the
  certificate that an insert supersedes is of the identity that it records
  (`AddedFollows`); `MarkRevoked` and the repair of a restart map to the other steps.
- `CanRenewAgain`: `Spec => []RenewalPathOpen`, by `PathInv`: the identity that a job is
  about to answer with is the active one, or was revoked, and the active identity
  of a complete enrollment has a `Source`. It uses `AnswerInv` and `PromiseInv`.
- `OnlyExpiryEndsAuthorization` bounds what run `credential` shows: the enrollment of a
  device that has received a renewal identity is complete, or a claim has found it past
  `expires_at`; nothing else takes the authorization away. By `CredentialInv`: renewals
  and results, too, belong only to enrollments that are or were complete.

In `CertificateInventory_proofs`, from `InventoryAssumption` alone (the importer is
one process and none of the web threads; a table that an earlier release left does
not contradict the issuers, what it calls replaced is retired, and what is newest in
it and not replaced is active or revoked), for any number of threads, certificates,
names and restarts, from the inductive invariant `IInv`:

- `TypeCorrect`, and `RevokedForSure`: `Spec => []RevokedAtItsIssuer`.
- `RevocationShown`: `Spec => []RevocationIsShown`, by `Held`: the CA revokes a
  certificate once, so that one actor at most has it to mark.
- `ReplacedRetired`: `Spec => []ReplacedIsRetired`, by `Sound` (only recorded
  certificates are replaced, and none of them is recorded a second time) and
  `ReadBefore`: what an opening process has read as retired still is, so that the
  certificate to which its repair links another is retired or is retired with it.
- `DuplicatesAreRaced`: `Spec => []TwoActiveOnlyIfRaced`, by `OneUnlessRaced`.
- `RevocationStays`: `Spec => RevokedUnlessStale`, an action property: of all steps
  only the repair and the recording of a replacement hide a revocation.
- `NewestKeepsActive`: `Spec => []NewestIsActive`. `IInv` knows nothing of identities,
  and without them the property is not inductive: it is lost when what an actor
  replaces is of another identity than what it records, or when a repair changes a
  link on which an exception rests. The second invariant `IdInv` (inductive beside
  `IInv`, and checked by TLC before it was proved) adds `Fitting` (the replacement in
  an actor's hands is of the identity of what it replaces, or is its reissue and linked
  to it, and is newer and recorded by the time that is retired; no repair changes the link of a
  private certificate, `PrivateLink`) and `LinksRead` (a link that a repair has read as missing can
  meanwhile have become one to an earlier certificate only, so that the repair undoes no
  replacement of a newer certificate, `LinkKept`).
- `InventoryFollowsLifecycle`: `Spec => FollowsLifecycle`, from both invariants: one
  lemma for each writer (`RecordingFollows`, `RetiringFollows`, `RepairFollows`), and one
  that nothing else changes a recorded certificate (`OthersStutter`). A certificate
  is retired for a recorded one of its identity, or for its recorded reissue, which is
  what `Fitting` distinguishes. `InactiveForGood`,
  `Spec => Lifecycle!OneWay`, is what follows in the table: no certificate loses
  its identity or becomes active a second time.

In `Exports_proofs`, from `ExportsAssumption` alone (leaf and root exports differ,
`None` is no export, the bounds are numbers), for any number of exports, threads,
links and restarts, all from the inductive invariant `IInv`:

- `TypeCorrect`, and `NotSentAgain`: `Spec => []SentWhilePending`.
- `NothingStrays`: `Spec => []NoStrayFile`, by `Held` and `Ends`: an export without
  a row is in the hands of one thread only, and a row is ended after its file is
  gone, by a thread that has seen a confirmation or the expiry.
- `RootKeyKept`: `Spec => []RootKeyAccounted`, by `SetUp` (one thread at a time sets
  up, and none once there are settings), `RootStored` (the export of a CA that is
  set up has a row, is about to get one, or storing it has failed) and `Ends`.
- `SetupRetried`: `Spec => []SetupCanBeRetried`.
- `ExportsAreOneTime`: `Spec => IsOneTime`, the refinement of `OneTimeExport`. `WriteFile`,
  `RecordExport`, `Unlink` and `Consume` advance the phase of their export (`Advances`),
  each from the phase that `Held` and `Ends` guarantee; a second `Unlink` or `Consume`
  of the same export by another thread is a stutter.

In `ExternalAcme_proofs`, from `ExternalAcmeAssumption` alone (legacy accounts are
finitely many accounts, settings name accounts or `None`), for any number of
accounts, threads and faults:

- `TypeCorrect`, `IssuerKept`: `Spec => []IssuerIsRetained`, and `RefusedOnlyIfIssuerGone`:
  `Spec => RevocationFindsIssuer`, all from the inductive invariant `IInv`. A
  delivered certificate is safe because the order's key was safe while it waited
  for the answer (`ThreadInv`), and because no step lets the CA recognise a key
  again or an account get an earlier key back (`KeysKept`). The latter also keeps
  an issuer that a revocation has struck from its candidates from coming back.

In `EnrollmentWindow_proofs`, from `WindowAssumption` alone (`None` is no zone, the
bounds are numbers), for any number of threads, zones, openings, attempts and
restarts, all from the inductive invariant `IInv`:

- `TypeCorrect`, of which the interesting part is that `settings.json` always
  exists: a rename happens only while there is a temporary file.
- `SettingsKept`: `Spec => []KeptSettings`, by `Undisturbed`: while a save is alone
  every other thread is idle, the temporary file is its own, and it holds the
  whole of its values once written. Threads that overlap are not alone, and they
  make `raced` true before they write.
- `WindowStaysClosed`: `Spec => []ClosedStaysClosed`, by `Ended`: not only the file,
  but also the temporary file and the values of every thread are free of ended
  openings. The one step that ends openings is the rename of a save that was
  alone, when no other thread holds any.
- `EnrolledWhileOpen`: `Spec => []NotAfterClose`, by `Found` with `Ended`.
- `AttemptsLimited`: `Spec => []RateLimited`, by `Counted`: an attempt that nobody
  disturbed is in the list and in every reading of it that is still under way.

In `SignedTime_proofs`, from `LimitsAssumption` alone (limits are numbers, and the
tolerance of a step is at most the wait between samples: 2 s and 5 s), from the
inductive invariant `IInv`:

- `TypeCorrect`, and `StepEndsSigning`: `Spec => []StepIsFinal`.
- `TimeGoesOn`: `Spec => []TimeHardlyGoesBack`: no answer is earlier than an earlier one
  by more than one tolerance (it may fall further behind the pace of the clock that
  gave the earlier one). One sample may move the clock back by
  a tolerance, and so may the next; `Course` says that the largest answer is
  behind the anchor again when the next sample begins, because a wait that is as
  long as the tolerance lies in between. Without `Tolerance <= Wait` it is false.
- `AnswersAgree`: `Spec => []AnswersWithSource`, by `ReadingRight` and `SampleRight`: a
  reading younger than the last change of the source is right, and so is a sample
  accepted from it, up to the time between reading and the end of the sample.

In `Startup_proofs`, from `StartupAssumption` alone (the two other options are
none of the enabling ones, and the bounds are numbers), for any number of
options, keys, pairs and faults, from the inductive invariant `IInv`:

- `TypeCorrect`, and `PairServed`: `Spec => []PairMatches`, by `PairInv`.
- `PinsStay`: `Spec => []PinnedKeyStays`, by `KeySteps` and `KeyDurable`: a key is made
  only where none is, and until its directory is synchronised nothing of it has
  been published, so that nothing is lost with it.
- `HealthShown`: `Spec => []HealthOfThisBoot`, by `HealthInv`: a status of this boot
  was written by a process that could sign under the options whose hash it holds.

The proofs go action by action. Every invariant, every action property and every
refinement that the passing runs check is a theorem. Liveness (`PendingIsDecided`,
`ExpiredIsDeleted`, `AccountRecovers`, `OutageRecovers`, `ListenerServes`) stays with
TLC: the prover has no support for fairness and ENABLED.

## Not modelled

A host whose boot id cannot be read (`boot_id` falls back to `unsupported-host`,
so that nothing tells its boots apart; `HealthOfThisBoot` assumes a boot id).
The audit table (no decision reads it), formats and chains of downloads, forms,
sessions, CSRF tokens and pages, contents of certificates beyond identity, nginx.
`configure_service_ports` and the token files that `configure` writes replace one
file each, with no decision that depends on an earlier content. The time server's
limit of one answer a second per device and its connection slots, and the format
and signature of an answer. `profiles.py` is a pure function from a request to a
verdict; the models know the verdict (a request is valid or not), and a model of
its string rules would repeat them line by line. The third-party programs
`step-ca` and `lego` appear as steps that succeed or fail.

## Plan

Done: `DeviceEnrollment` and `EnrollmentProtocol`, `CertificateInventory`, `Exports`
with the setup of the CA, `ExternalAcme`, `EnrollmentWindow`, `SignedTime`, `Startup`.

Left:

1. Device identities, which the inventory records as `manual`, reissued from the
   UI: `DeviceEnrollment` has their revocation, not yet their reissue.
2. A public replacement that is recorded after its predecessor was revoked, with
   the stored certificate of `ExternalAcme`.
