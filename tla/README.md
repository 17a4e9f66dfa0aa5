# HomePASS: formal models and proofs

HomePASS is a Home Assistant integration that manages who may open which door:
people, their PINs, the locks and keypads that hold those PINs, schedules, NFC
tags, and the record of what happened. This directory holds TLA+ models of it,
TLC configurations that check them on small instances, and TLAPS proofs of the
properties that matter most. Paths below are relative to
`src/custom_components/homepass/` unless they say otherwise.

    tlc -config CredentialVault.cfg MCCredentialVault
    tlc -config Replacement.cfg MCCredentialReplacement
    tlc -config Deletion.cfg MCPersonDeletion
    tlc -config Access.cfg MCAccessManagement
    tlc -config Door.cfg MCDoor
    tlc -config Nfc.cfg MCNfc
    tlc -config Home.cfg MCHome
    tlc -config Synchronization.cfg MCSynchronization
    tlc -config Migration.cfg MCMigration
    tlapm CredentialVault_proofs.tla
    tlapm CredentialReplacement_proofs.tla
    tlapm PersonDeletion_proofs.tla
    tlapm Door_proofs.tla
    tlapm Nfc_proofs.tla
    tlapm Home_proofs.tla
    tlapm AccessManagement_proofs.tla
    tlapm SynchronizationRecovery_proofs.tla

A run of TLC takes up to three minutes on two workers, `tlapm` up to ten minutes for a
module, and twenty for `Home_proofs`.

`PROJECT.json` lists the runs, the lines that each definition models, a mutant
for each checked property, the hazards and the findings.

## Inventory of the system

Everything runs in one asyncio event loop, in the Home Assistant process. Two
pieces of code interleave only where one of them awaits. What lasts is three
kinds of file: the storage document (`storage.py`), the vault's two files, and
the NFC file. What is outside and unreliable are the locks.

| component | state | operations | what is hard | what makes it correct |
|---|---|---|---|---|
| Credential vault `vault/` | key record, envelope file, cached copy, status | initialize, store, retrieve, delete, stage, promote, discard | failed saves, crash between the two files, key loss, old schemas | every secret opens; stages and receipts match the credential; cache = file |
| Lifecycle journal `lifecycle.py`, `repositories/lifecycle_operation.py` | operations with status, step, payload, retry count | create, checkpoint, record_failure; execute, resume, retry, complete, cancel (called by nothing) | optimistic writes conditioned on what was just loaded; observers that raise | a checkpoint is durable before the next I/O |
| Credential replacement `services/credential_replacement.py` | none of its own: journal, vault, registry, locks | replace_pin, retry_pin, resume | concurrent calls, crashes between any two steps, lost and late commands | confirmed before promoted, promoted before recorded, sent at most once |
| Person deletion `services/person_deletion.py` | journal, registry | delete_person | device-first removal, grants that change meanwhile | no person removed while a code may still work |
| Access management `services/access_management.py`, `access_metadata.py`, `give_access.py` | registry, background verifiers | provision, replace and remove access, resume pending removals | rollback that fails, verifier working on stale copies, slot reuse | no working code without a grant; no grant lost |
| Synchronization `services/synchronization_*.py` | statuses of doors, history, running recoveries | evaluate a door, observe an operation, recover a relationship | readings that are overtaken, single flight, an answer about a lock that was read before | the status follows the document; an answer is about what is there |
| Storage document `storage.py` | the document, cached | load, transaction, 18 migrations | validation between mutation and save, old versions | all or nothing; migrations keep references |
| Registry `repositories/`, `services/person*.py`, `schedule.py` | views of the document | people, grants, schedules and their editing | shared schedules, copies that are written back | referential integrity; an edit reaches whom it is meant for |
| User setup `services/user_setup.py`, `give_access.py` | requests, and several of the above | create a person, give doors, in several steps | compensation that fails, requests sent again, restarts | nothing is set up twice; the answer tells what is there |
| Access points and devices `services/access_point.py`, `access_device.py` | enrolments, policies, keypads | enrol, change, remove | removal while access is given | a door takes PINs exactly as long as it can |
| Commands `services/access_point_command.py`, `lock_event_correlation.py` | the pending command of each door | lock, unlock, open | early, late, failing commands; expiry | a command explains one change |
| Physical activity `services/physical_activity.py` | monitored entities, waiting unlocks, evidence | report, notification, refresh, start, stop | order of report and evidence, timers | one record per physical event, with its own evidence |
| Keypads `services/keypad_processor.py`, `zha_keypad.py`, `zigbee2mqtt_keypad.py` | failures, transactions seen | one action per request | guesses at the same time, repeated messages | lockout holds; a request acts once |
| Nuki log and fingerprints `services/nuki_audit_ingestion.py`, `nuki_fingerprint.py` | records seen, links of fingers to authorizations | poll, refresh, enrol, observe | old records, numbers that are given again | a finger is confirmed by its owner's records |
| NFC `nfc/` | tags with counters, keys, passkeys, invitations, sessions | tap, answer, enrol, administer | replay, expiry, revocation under way, keys in another store | what is for one use is used once; what is revoked stays revoked |
| Authorization and schedules `services/authorization.py`, `policy_explanation.py`, `models/schedule*.py` | none | evaluate, explain | midnight, end of the week, time zones | equals the segments that were validated |
| Reveal `reveal.py` | rate limits, grants | reveal a PIN | expiry, limits | |
| Activity, notifications, batteries | activity log, cursors | record, notify | deduplication | |
| Views, actions, set-up, panel | none | | | not modelled |

The components meet as follows. The panel calls WebSocket and action handlers,
which call the services. A service reads a snapshot of the storage document,
awaits locks and the vault, and commits with a transaction. Multi-step work on
locks is written to the lifecycle journal, in the same document, and the journal
calls an observer that updates synchronization status and history, which again
writes to the document. The vault is separate: its files are never written
together with the document, so every operation on both has a moment between.

## Plan

Done, in this order: the vault with its abstract register and the refinement;
the journal; the replacement of a PIN; the deletion of a person; proofs for these;
access management at one Z-Wave lock; a door with its commands, its activity,
its keypad and the log of its Nuki; NFC access with the policy; the registry,
keypads and guided set-up over one document; the statuses of doors and their
recovery; the migrations; proofs for the door, for the policy, for NFC access, for access management, for
the statuses of doors and for the home.

Left:

1. An abstract `AtomicReplacement` (old PIN or new PIN, never a mixture in
   vault and registry) that `CredentialReplacement` is shown to implement.
2. `AccessManagement` for Nukis and keypads, and for several doors in one call.
   Its steps then replace the one-step changes of access elsewhere.
3. `Reveal` (attempts, grants and their expiry) and the activity repository
   (retention and repeated source keys).

## Modules

| module | models |
|---|---|
| `VaultData` | the record of `EncryptedEnvelopeRepository` and its pure mutations |
| `CredentialVault` | `CredentialVault` over the key and envelope repositories, in one process after another |
| `SecretRegister` | abstract: a compare-and-swap register per credential |
| `MCCredentialVault` | instance for TLC, with symmetry |
| `CredentialVault_proofs` | invariants of the vault, and its refinement of `SecretRegister` |
| `LifecycleJournal` | the writes of `LifecycleOperationManager` |
| `CredentialReplacement` | `CredentialReplacementLifecycleService` and its environment |
| `MCCredentialReplacement` | instances for TLC |
| `CredentialReplacement_proofs` | invariants of the replacement for any number of sessions |
| `PersonDeletion` | `PersonDeletionService` and its environment |
| `MCPersonDeletion` | instances for TLC |
| `PersonDeletion_proofs` | invariants of the deletion, for any number of calls and for calls that do not overlap |
| `AccessManagement` | `AccessManagementService` and `GiveAccessService` at one lock |
| `MCAccessManagement` | instance for TLC |
| `AccessManagement_proofs` | works, stays on record, is cleared once: for any people, slots and bounds |
| `LockCorrelation` | `LockCommandCorrelationService`: the clock and the pending command |
| `PhysicalActivity` | `PhysicalActivityIngestionService` at one door |
| `AccessPointCommands` | `AccessPointCommandService` at that door |
| `KeypadCommands` | the keypad of that door: ZHA or Zigbee2MQTT service and `KeypadCommandProcessor` |
| `NukiFingerprints` | `NukiFingerprintService` at one Nuki, and whose its authorizations are |
| `NukiAudit` | `NukiAuditIngestionService`: polls of the log, and what becomes of a record |
| `Door` | composes the six above, with unloading and setting up again |
| `MCDoor` | twelve installations for TLC |
| `Door_proofs` | invariants of a door for any number of calls, changes, people and records |
| `ExpiringTokens` | `ExpiringTokenStore`, as operators |
| `Policy` | schedules, their validation and evaluation, and the decision, as operators |
| `NfcRepository` | `NfcAccessRepository`, as operators on its file |
| `NfcAccess` | the public handlers: taps, passkeys, commands, enrolment |
| `NfcAdmin` | the administrators' actions, and the keys of tags in the vault |
| `Nfc` | composes the two, with the properties |
| `MCNfc` | installations for TLC |
| `Nfc_proofs` | what rules, schedules and decisions mean, as lemmas; invariants of NFC access for any number of tags, requests and administrators |
| `HomeDocument` | the repositories of the document and its validation, as operators |
| `Registry` | people, schedules and the hours of grants: the services that edit them |
| `DoorRegistry` | enrolment, policies and removal of doors, and their keypads |
| `UserSetup` | `UserSetupService` and `GiveAccessService` over document and vault |
| `Home` | composes the three, with restarts |
| `MCHome` | homes for TLC |
| `Home_proofs` | invariants of a home for any number of people, doors, schedules, requests and calls |
| `SynchronizationEvidence` | what the document tells about a door, as operators |
| `Migration` | `async_migrate_storage`, schema by schema, as operators |
| `Synchronization` | calls that write the document, and the statuses of doors |
| `SynchronizationRecovery` | `SynchronizationRecoveryService`; the specification of both |
| `SynchronizationRecovery_proofs` | invariants of statuses, recoveries and documents for any number of doors and calls, from any schema |
| `MCSynchronization`, `MCMigration` | homes for TLC: those that load, and those of early schemas with an enrolled door |

### The vault

`VaultData` turns the four dictionaries of `_EnvelopeState` into total functions:
an absent key holds `None` and an absent revision is 0. Each mutation is two
operators, what it requires and what it makes of the record, because the vault
and the replacement service apply them to different variables. `Loadable` is
what `_load_unlocked` checks of a stored record.

`CredentialVault` has the two files (`rootKey`, `file`), the memory of the
running process (`cache`, `cipher`, `status`) and the identifiers ever generated
(`minted`; they are random, so no identifier comes twice). All public methods
hold one asyncio lock throughout, so each is one action. `initialize` is two,
`ListEnvelopes` (which also rewrites a file of an older schema) and `Unlock`
(which may write a first key), because the process can end between its two
writes. A save can raise, in every method, leaving file and cache alone.
`Restart` ends the process at any point, and `LoseRootKey` removes the key
record. Encryption is abstracted to the key used: an envelope opens with its own
key only. Initial states are an empty installation and files of schema 1 and 2.

### The replacement of a PIN

`CredentialReplacement` follows one person's PIN. A `Session` is one running
call; an action is what happens from one await to the next, named after the
step (`RevalidateTarget`, `IntendRequest`, `RequestReplacement`, `RecordAnswer`,
`ReadBack`, `RecordReadBack`, ...), and `sess[s].pc` is the await the session is
at. A session has its own copy of the payload, as the code has, and a checkpoint
stores that copy whole. Optimistic concurrency is modelled as it works: checkpoint
and record_failure load and replace in one breath, so what can fail is only the
final transaction, which compares with the session's copy (`fresh`).

* `vault` is the record of `VaultData` with the person's one credential; an
  envelope is its PIN.
* `journal[h]` is the operation whose staged handle is `h`. Handles are numbered
  in the order they are made, which is the order of `load_incomplete`.
* `registry` has one `version` for all the `updated_at` the service captures, and
  the recorded revision of every target.
* `slot` and `air` are the locks: what a slot holds, and what was sent to a
  Z-Wave lock and not carried out. Commands arrive in any order, late or never.
  A Nuki command is over when its Bluetooth connection is closed, carried out or
  not, and may be answered as failed in both cases. A keypad stores nothing.
* `sent` and `seen` are history variables: nothing reads them but properties.

Simplifications: the vault revision and the read back of a target whose recorded
revision differs are read in one step (`CaptureRevision`); `promotion_receipt`
followed by `promote` is one step, since `promote` answers with an existing
receipt as well; what follows the final commit (rate limits, status, activity)
changes no modelled state; a person without any access point has no steps at
locks and is left out (`Targets >= 1`). Codes on a lock change only by the
service's commands.

### Deleting a person

`PersonDeletion` follows one person. As above, a `Session` is one running call
(of `delete_person`), an action runs from one await to the next, and `pc` is the
await. A call goes through `ActiveOperation` (resume the oldest incomplete
operation) or `CaptureTargets` and `CreateOperation`, then `NormalizeOperation`,
`MarkRunning`, and for each target `IntendRemoval`, `RequestRemoval`,
`RecordAnswer`, `VerifyRemoval`, `RecordVerification`; at the end `BeforeDelete`,
`FinalizeDeletion`, `Observe` and `DeleteSecret`. Every journal write may raise
before or after it is stored.

* `person`, `granted`, `nfc` and `secret` are the person's records: the person, the
  access points with grant and metadata, any enabled passkey or NFC grant (kept
  in the NFC file), and the PIN in the vault.
* `holds` and `air` are the locks. A clear that was sent to a Z-Wave lock is
  carried out once, late or never; a Nuki has acted, or never will, when it
  answers; a keypad has nothing to clear.
* `journal[o]` are the operations in the order of their creation. Initial states
  include one that was left waiting by the first version of the service, whose
  targets have no `request_result` and other states (`Dated`).
* `sent`, `seen` and `overlap` are history variables: nothing reads them but
  properties.

Other services change the person's access meanwhile: `GiveAccess`, `TakeAccess`,
`ReplacePin` and `EnrolPasskey` are what access management, the replacement and NFC
enrolment come to, in one step each. Simplifications: `current_step` is the set
`done` of the targets before it, and targets that are appended together are in
the order of their numbers; one slot for each access point; access without
metadata is left out, since no service leaves it; the vault holds the one PIN,
shared with nobody.

### Giving and removing access

`AccessManagement` follows people at one Z-Wave lock with numbered slots. The two
services hold a lock of their own for each call, so `call` has one running call
for each: `"manage"` (`update_access`, `add_access` and the retries of a recovery)
and `"give"` (`give_access`). An action runs from one await to the next.

* `meta` and `grant` are the access metadata (slot and status) and the status in
  the grant of each person. They are written in two transactions everywhere, and
  a transaction may fail; after the second one the status of the door and the
  history are recorded, which may fail as well, with the write done.
* `holds` and `air` are the lock: whose PIN a slot holds, and the commands on their
  way, which are carried out in order, late or never.
* `job` are the verifiers: one for each person in the background, and the one a
  retry waits for (`Inline`). A verifier acts on the copy of the metadata that it
  was given.
* `confirmed`, `cleared` and `disturbed` are history variables.

Adding goes through `ChooseSlot` (the first slot that the lock reports as free,
whatever is recorded), `ProgramSlot`, `ReadBack`, `RecordMetadata` and
`CompleteRecord`; what fails goes through `Compensate`, `RollBack`, `Unprogram`,
`ReadEmptied` and `ForgetAccess`. Removing is `RemoveAccess`, `ClearSlot` and
`ScheduleVerification`, with `SaveMetadata` and `SaveGrant` wherever
`update_synchronization_status` is called. Retries are `CheckRemoved` to
`ConfirmProvisioning`, a verifier `ReadRemoved` to `EndVerification`.

`disturbed` records what the services do not exclude and what the safety properties
do not survive. The model contains these behaviours, and the safety properties
are about all others; the hazards list what goes wrong in them:

* a call begins while the other service is at work;
* access is added while a verifier of the same person has not ended;
* a PIN is programmed after its call stopped waiting for it. This includes a command
  of an earlier call of the same person that arrives while the next call waits for
  its own (`Awaited`);
* the compensation of `give_access` fails. `_compensate_failed_provisioning`
  (`services/access_metadata.py:229`) swallows its failures and `_give_access` then
  clears the slot (`services/give_access.py:272`), though the record is still there
  and may say synchronized. `_rollback_additions` of the other service marks the
  record before it touches the lock.

Simplifications: every person has a PIN and the authority for it; reads of a
lock do not change what it holds and the five reads of a verifier are one step;
a call that adds access at several doors is a call at this one that may be rolled
back after it succeeded.

### One door

`Door` composes what meets at one door. Home Assistant runs a report in the step
that fires it, up to the first await, so a report, its correlation with a command
and the queueing of an unlock are one action (`HAChanges`), and what is written
later is a task of its own (`RecordTransition`).

* `now` and `pending` (`LockCorrelation`) are the clock and the command whose
  confirmation is awaited. All waits are counted on this clock: `Expiry` for a
  command (10 s in the code), `Wait` and `ProviderWait` for evidence (5 s, and
  12 s where a provider classifies), `Window` (12 s), `TransactionTtl` (2 min),
  `FailureWindow` (5 min). `Tick` does not pass a timer that is due.
* `call` (`AccessPointCommands`) are commands of app, tag and keypad: `Execute`,
  `ResolveState`, `Dispatch` and what becomes of the service call; a relay is
  switched on and off. `door` is the target with its policy, which `Edits` changes.
* `shown`, `stable`, `waiting`, `cached`, `recent`, `tasks` and `log`
  (`PhysicalActivity`) are what Home Assistant shows, the last stable states, the
  unlock that waits for evidence, the evidence that waits for an unlock, and the
  records. `reports` and `lost` are history.
* `request`, `line`, `failures` and `seen` (`KeypadCommands`) are the requests of a
  keypad, the lock of the keypad, the failures in its window and the
  transactions of Zigbee2MQTT. What a code is (right, wrong, of a person without
  access) is chosen where the code asks. `guesses` is history. Requests are looked up
  in the order in which they came (`Foremost`), since the storage's lock is taken in
  that order and nothing else is awaited there.
* `audit`, `known` and `poll` (`NukiAudit`) are the log of a Nuki, the records that
  were read before, and the two pollers: the task that unlocks and the timer
  schedule, and an explicit refresh. They share one lock. `Process` hands evidence
  to the ingestion in the same step, then `LoadLinks`, `ResolvePerson`,
  `ConfirmOwner` and `RecordUnlock` observe a finger, one await each.
* `access` and `link` (`NukiFingerprints`) are the authorizations of people at the
  lock and the stored enrolments. An authorization is removed in stages (`Withdraw`,
  `RemoveAccessLink`, `RemoveRecords`); the lock may give its number to somebody
  else as soon as it has forgotten it. Transactions of the document are served
  in their order, so that at most one may pass an observation that waits for it
  (`MayPass`, `Passes`).

Unloading is in the order of the code: keypad, which finishes what it accepted
(`Drained`), reader of the log, ingestion; `SetUp` starts them again with nothing in
memory. Calls of the old process still touch their own services only.

Simplifications: the electrical state of a relay, names in a record, acknowledgements
of a keypad, the page of 50 and the memory of 200 records are left out; a record of
the log is either of an unlock that was reported or of the next one; a Nuki has no
more than the two people of the instance.

What reading the code for this model showed, and no document contradicts: an unlock
that waits for evidence is dropped without a record when a newer unlock waits, when
the entity is no longer monitored, and at unload (`lost`); a poll that an unlock asks
for is not made while another runs; records count as read before they are processed,
so that a failure in between, or the baseline at the start, loses them; evidence
that finds no unlock still counts as correlated, so that nobody records that
finger; a finger without a number is taken for the only person whose enrolment is
not confirmed, even if somebody else's finger opened.

### NFC access

`NfcRepository` and `ExpiringTokens` are operators from data to data, for each method
of the code holds its lock throughout. `NfcAccess` has a visitor's request from await to await: a
tap claims the counter of a tag and opens a session, a challenge is made for it, a
passkey answers it, the policy decides on one snapshot, the session is consumed
and the door moves; an invitation enrols a passkey. `NfcAdmin` has the actions of
administrators, which interleave with each other and with visitors: a tag's keys
are stored in the vault one by one, then the tag in the file, and undone if that
fails. `data` is the file, `vault` the keys that exist, `taps`, `ceremonies` and
`enrolments` the stores of tokens, in memory, lost by a restart. `opened`, `commands`,
`voided`, `enrolled`, `unsure`, `packages` and `drawn` are history.

`Policy` counts minutes. `Permits` and the rest are translated from
`schedule_evaluation.py`; `Permitted` is the reference, written with the segments of
the week by which `schedule.py` validates. A week has three days of three minutes
in the runs: short enough for every minute under every valid pair of rules,
long enough for a rule that crosses midnight, the end of the week, or both.

Left out: cryptography (a passkey answers or not, a tag's message is genuine), signature
counts, the audit list. Observations: two administrators who prepare one tag
at once store two keys, of which one belongs to nothing; `delete_tag` on a stale
copy leaves the newer administrator key; grants and invitations that were validated
before a person was removed are written after; a tag that is confirmed anew starts
its counter anew, which is why `SpentOnce` counts the writings of a tag (`epoch`).

### A home

`HomeDocument` is the document: people, schedules, grants, metadata, authorities, doors
with their enrolment, keypads and requests of set-up. Each repository method is an
operator from the document to the document, and `Valid` is the validation of
references and claims that every transaction passes before it is saved. `Registry`,
`DoorRegistry` and `UserSetup` are the services. A call reads a copy of the document,
waits (for the document's lock, the vault, a lock), and writes in a later transaction,
in which the code checks what it checks (`updated_at`, a revision, a claim) and
overwrites the rest; `call` has the copies. `UserSetup` goes from the claim of
a request over the PIN, the person and the doors one by one to the answer, with
the compensation of what failed; `RestartHome` ends the process at any point,
and the next start resumes what is to be resumed and reconciles keypads.

Whether a door takes PINs is told in two places, and `DoorRegistry` keeps them apart. An
enrolment stores it (`pin_capable`: true from discovery, false by hand, whatever the profile), and
a keypad changes what is stored, unless the profile is "lock", for which
`set_keypad_pin_capable` returns before it writes (`Exposed`). Where discovery finds the
lock (`Known`), what it says (`Coded`) stands in for what is stored (`PinCapable`). So
a keypad at a lock that was bound by hand and that discovery does not find does not make
the door take PINs; no property claims that it does.

`meant`, `stale`, `met`, `crossed`, `unsettled`, `moved`, `out`, `begun`, `answers`, `lost` and
`drawn` are history. `met` are the doors at which two calls were under way together, which
nothing excludes. `crossed` are those of them where one of the two takes something away: it removes
the door, withdraws its last keypad, or writes an enrolment as it was read. Then a
removal that checked for grants can pass an addition that checked for the door, and
access is left at a door that is not managed; or a keypad that is being added finds a
door that still takes PINs because of the one that is being removed. These are
races of the code. The model contains them; `DoorsAgree` is about all other
behaviours, however calls overlap, and where keypads are concerned about those too from the
next start on (`unsettled`), which reconciles them. `AnswersTrue` is about doors that no
two calls met at, the remaining properties about all.

Left out: names and display data, choice of a new schedule's rules, the
conflict of two PINs in one request, two doors enrolled for one lock at once (excluded by
the discovery key). What discovery finds, and the profile of a door, are taken as constant. Observations: `update_synchronization_status` writes a grant as
it was read and so undoes an edit of its schedule (`stale`); moving a keypad, or
switching it on, does not give its new door the capability before the next start
(`moved`); compensation releases a PIN authority that existed before the request; a set-up
whose rollback meets another call may name a door as added that was taken back;
a setup that fails to reconcile keeps the integration from starting;
requests are never trimmed.

### Statuses, recovery and migrations

`Synchronization` is about the order of writes and readings. Every call is a script
of steps (`GiveAccess`, `RemoveAccess`, `StartOperation`, `FinishReplacement`, ...), each a
transaction or an evaluation, with the steps of others in between. Evaluating a
door is two steps: the document is read, with a time stamp (`clock`), and the
status is stored later, in the order in which callers came to the lock of the status
repository (`queue`), unless a newer one is there (`MayStore`). `SynchronizationEvidence`
derives a status from grants, metadata, operations and defects of ownership.
`SynchronizationRecovery` recovers one relationship: the decision is made on one
reading, then the vault, an operation or access management act, the lock answers
what it will, the relationship is read again, and `Said` is the answer.
`Recoveries` is the single flight per relationship.

`Migration` has the documents of the schemas 1 to 19 with the collections and the
fields that migrations add, move or check, and each step from one schema to the next;
`None` is a step that raises. Every process that starts (`Start`) loads the document
through it. `Documents` is the type of all of them, and `WellWritten` says what a document on disk
has beyond it: the statuses of its schema, and no evaluation from the future. An orphan, metadata that no grant, authority or operation owns any more, is removed before a door
is evaluated or pronounced (`_load_repaired_snapshot`; `RepairOrphans`, and `AfterRepair` for what
waits for it), and at every start; observers do not repair. The repair is a transaction of its own; an
orphan that arises between it and the reading is taken to go with it. The order in
which an observer stores its evaluations, that of identifiers, is a constant (`InOrder`).

Left out: the lock of access management (so more happens here than there), the
intent before a clear and the verifiers resumed at start (in `AccessManagement`),
two people in one slot, the bound of the history, wording. Observations:
`record_synchronized` declares a whole door synchronized after one person's removal,
though others' records there may need a retry (`verdicts`); an observer that is
overtaken raises and leaves out the doors that remain (`missed`), and after a deletion
the secret then stays in the vault; a deletion observes the doors to which its person has access, so
that a door where only a record was left, by a crash between the two writes of a removal,
keeps the status that the record gave it (`missed`, too; the attempt to prove
`StatusCurrent` showed it, and the home with a removal, an operation and a restart
is in the run since); a removal recovered at an otherwise empty
door answers "verification pending"; a failed operation keeps a door at "manual
attention"; after a restart an operation that was running makes recovery answer "in
progress" for good; two doors of one operation can both resume it, since the
single flight is per door; the clock set back makes evaluations raise until
it catches up.

## Runs

| run | instance | checks |
|---|---|---|
| `vault` | 3 credentials, 3 handles, 2 secrets, 2 keys | all vault invariants and the refinement |
| `vault_loads` | 2 credentials, 1 handle | violation, see findings |
| `replacement` | 1 session; a Z-Wave lock, a Nuki, a keypad; 3 replacements, 2 edits, 1 retry, 3 PINs | ordering, agreement and end of calls, with crashes |
| `replacement_twice` | smallest that shows it | violation, see findings |
| `deletion` | 1 session; a Z-Wave lock, a Nuki, a keypad; 2 operations, 3 changes by others, 1 retry | order, single clears, nothing left over, with crashes and old journals |
| `deletion_device_first` | 1 session, 1 lock, 1 change | violation, see findings |
| `access` | 2 people, a lock with 2 slots; 3 calls, 1 failing write, 3 commands in the air | what is recorded and what works, through failures and restarts |
| `door` | 12 installations: locks with and without contact, garages, strikes; keypads of both kinds; 3 with a Nuki | commands, reports, evidence, keypad requests and fingers find each other |
| `nfc` | 1 person, 1 door, 2 tags, 2 test tags, 2 passkeys, 2 requests, 2 administrators; all schedules of a short week | single use, revocation, keys, policy |
| `home` | 4 people (2 of them created by requests), 3 doors, one with a profile and a lock unknown to discovery, 2 keypads, 3 requests, 2 callers | hours, doors, set-ups and answers |
| `synchronization` | 2 people, 3 doors, 2 operations, 2 callers, documents of schemas 11 to 19, and of 10 without doors | statuses and answers of recoveries |
| `migration` | one document of each schema from 1 to 10, with an enrolled door | violation, see findings |

What they show, property by property:

* `StagesUpToDate`, `ReceiptsOrdered`: stage, promote, delete and discard, in any
  order and with failing saves, never leave a stage that a promotion would have to
  refuse, nor two promotions with one revision.
* `Decryptable`: whatever is stored opens with the key record and with the key in
  use, through crashes and loss of the record.
* `CacheCoherent`: the memory copy is the file.
* `ImplementsRegister`: to a caller the vault is a compare-and-swap register.
* `PromotedOnlyIfConfirmed`, `RegistryFollowsVault`: the order confirmation,
  promotion, registry.
* `AgreeAtRest`: with nothing under way, vault, registry and every lock agree and
  no command is in the air. It needs a single session: a second one may send a
  command that arrives after everything has been confirmed.
* `ZWaveSentOnce`: no Z-Wave command is repeated. It needs a single session too.
* `CallsEnd`: every call returns or raises.
* `DeviceFirstUndisturbed`: if no other service changes the person's access, no
  lock has the code once the person is gone; by proof with any number of calls, though
  they overwrite each other's progress.
* `RemovedOnlyIfConfirmed`: even if others do change it, the person goes only with
  an operation that saw every access point of the person empty.
* `ClearedOnce`: crashes and retries never repeat a Z-Wave clear. Two overlapping
  calls can, so the property is about calls that do not overlap.
* `ClearsSettled`: no clear is in the air once the slot is free for somebody else,
  whose code it would erase. It needs the same, and no change by others: a slot
  that others empty is confirmed while the clear is still on its way.
* `NothingLeftBehind`: no operation outlives its person.
* `AuthorityGoesInOrder`: passkeys and NFC grants go before the person, the PIN in
  the vault goes after.
* `SynchronizedWorks`: a record that says synchronized is right about the lock.
* `ConfirmedStaysRecorded`: access that still works is never forgotten, by a
  rollback or by a verifier.
* `ClearedBySaveOnce`: however often a removal is saved again, and whatever became
  of it, its clear goes out once; only a retry that has read the slot as
  its own repeats it.
* `CommandsMatched`: a command that was sent is awaited until a change confirms it,
  it fails or expires, whatever other commands do; and it explains one change, which
  happened after it was sent and in time.
* `EachReportOnce`: of every stable change there is one record, or one of the reasons
  the code has for none.
* `EvidenceOfItsUnlock`: if unlocks are more than two windows apart and evidence is
  within one window of its unlock, no unlock is explained by another's evidence,
  including what a refresh reads again from the log; what the log had before is
  to be older than a window. Evidence is matched by time only, so without this it can be.
* `LockoutHolds`: however requests overlap, no more wrong codes are looked up in one
  window than are allowed. The time of a ZHA request is that of its event, so this
  takes that a late event is not looked up after a later one: were it, failures that
  the later one dropped would be missing from the window of the late one. With three
  requests TLC finds that when `Foremost` is left out.
* `TransactionsActOnce`: a Zigbee2MQTT request that is delivered twice moves the door
  once, within a process; a restart forgets the transactions.
* `ConfirmedTruly`: a fingerprint is confirmed only if a finger has opened the lock,
  with the person's number or with none, since the person has this authorization. Old records, read late or again,
  and numbers given anew do not confirm anybody.
* `SpentOnce`: a reading opens one session, a session moves a door once, an invitation
  enrols one passkey.
* `RevocationHolds`: what was removed or revoked while a request was under way does
  not move a door and is not accepted again.
* `VaultFollowsTags`: the keys in the vault are those of registered tags, unless an
  action on a tag was cut, failed to delete, or met another (`unsure`).
* `PolicyRespected`: the evaluation agrees with the segments that were validated, and
  a denial names no hours in which the door would have opened.
* `HoursAsMeant`: a grant allows what was last decided for it, however schedules are
  shared.
* `DoorsAgree`: while calls overlap, what was removed stays removed, access is at a managed door that
  takes PINs, and a keypad that is switched on is at a door that is managed and exposed; after a call
  that takes away met another there, keypads are so again from the next start on.
* `SetUpOnce`: a request provisions once and has one answer, and no PIN is lost or left over but by a failure.
* `AnswersTrue`: what an answer calls added works when the answer is given.
* `StatusCurrent`: with no call under way, the status of a door is what the document
  gives.
* `RecoveryTruthful`: a recovery that answers "completed" has read so after the last
  thing it did.
* `TypeOK` of the vault, the replacement and the deletion are types; that of `Nfc` bounds the
  stores anybody can fill; that of `Synchronization` includes the validation that migrated documents must pass.
  `Door`, `AccessManagement` and `Home` define theirs as documentation, outside the runs.

The bounds. Every action of the vault touches one credential or one handle, and
its properties relate at most two of each; a third gives a bystander. Three
replacements let one complete, a second fail or go stale and a third
find what they left; two edits of the registry reach both windows between
validation and commit; `MaxRetries = 1` reaches both sides of the retry limit.
Calls that overlap are left to the proofs, which are for any number of sessions, and to
`replacement_twice`. Two operations of
deletion let one be abandoned by an observer that raises and the next find it;
three changes let access be given, taken and given again between capture and
commit. Three calls of access management add access, remove it and
remove it again or add another person to the slot; three commands let a clear
and two PINs overtake what is known of them; one failing write reaches every place
where two writes can come apart. (Four calls and no failing write, four calls, one
failing write and one person, and two failing writes with three calls were
checked too; the proofs are for any number of each.)

The newer models bound what is asked and let everything interleave: an
initial state has a record of bounds (`bound` of `Door`, `may` of the others), counted down or
compared as things are asked, and each run has many initial states with different
bounds, so that each pair of operations that can meet does so in one of them. A door has up to
three ticks, two calls (three requests at one with a ZHA keypad), three state changes, one notification or record of the log, one edit
and one restart; waits are one or two ticks, which orders every pair of timers
both ways. The fault budgets are one or two writes. Two callers, requests or
administrators are what a race takes; a third waits behind. Counters that only
grow (`minted`, `registry.edits`, `sent`, `air`, retry counts, `issued`, `stored`) are bounded
by `MaxReplacements` or `MaxOps`, `MaxEdits`, 2, 2, `MaxRetries + 1`, `LastToken` and the number of keys.

Symmetry is used where the permuted values are interchangeable in every action and every
initial state: callers in `home` and `synchronization`, calls in `door`, people
in `access`, and credentials, handles, secrets and keys in `vault`. No run with symmetry has a liveness property.

Fairness is used by `CallsEnd` only: weak fairness of each session's own steps.
A call is an asyncio task; the loop runs it, and every I/O it awaits returns or
raises (the service calls have timeouts, and a failed one is a step as well).
Nothing is assumed of locks, users or retries. Deadlock is checked in the runs of the
first four components, where a crash or a restart is always possible.
`door`, `nfc`, `home`, `synchronization` and `migration` say `CHECK_DEADLOCK FALSE`: when what an
installation is going to be asked has been asked, and its last restart is over,
nothing is left to happen.

## Findings

1. *The vault does not load after a credential with a promotion was deleted*
   (`vault_loads`). `delete` keeps the promotion receipts that name the
   credential, and the loader rejects them. Replacing a person's PIN and then
   deleting the person is enough: at the next start initialize fails.
2. *Two calls can both send the PIN* (`replacement_twice`), since neither the
   handlers nor the service exclude each other.
3. *A PIN replaced during a deletion survives it* (`deletion_device_first`). A
   target that was read back empty is not looked at again, and the final
   comparison does not see that its PIN was replaced; the lock then keeps a
   working code that no record names.
4. *Documents of the schemas 1 to 8 do not load, nor do those of 9 and 10 if a door is
   enrolled* (`migration`). Their migrations validate enrolments against ten fields
   (`storage.py:617`, `1011`, `1056`; `250-306`), eight of which only the migration from schema 15
   adds (`storage.py:1437-1448`); up to schema 8 they add an enrolment of two fields
   themselves. The migrations from schemas 11 to 14 do not look at enrolments.

Beyond these, of which nothing in the repository promises otherwise: a crash
after `stage` and before `create` leaves a stage that nothing removes, so that every
later replacement of the credential fails with a duplicate stage; an observer that
raises after the operation was stored leaves a resumable operation whose secret was
discarded; a replacement that found the registry changed is neither resumed nor
completed and stays in the way of later ones; a lost Z-Wave command is never sent
again, so retrying cannot help; a Nuki command whose answer was lost is recorded as
rejected and sent again; a call that lost a race can write its checkpoint over a
completed operation. The sections above have those of the other components.

## What is proved

All proofs are for every value of the constants, under `NoneAssumption` of
`CredentialVault` and `Assumptions` of `CredentialReplacement`, of
`PersonDeletion`, of `AccessManagement`, of `Door` and of `Home`: there is at least one target of a replacement,
keypads and Nukis are disjoint sets of targets, bounds and durations are naturals,
`None` is no value of the types it is the absence of, and what an installation of
a door holds at first is of its type and was there by time 0. `Assumptions` of `Synchronization` adds
that documents on disk are well written (`WellWritten`), and that the order of identifiers has every door
of a set once.

*The vault* (`CredentialVault_proofs`). `IInv` joins the type, `StagesCurrent` and
`ReceiptsDistinct` of what is stored, that every stored envelope is sealed with
the known key, that the cache is the file, and what the status says about the
rest (an unlocked vault has a key and a cache; a vault that is initializing has
no key). Lemmas say what each mutation of `VaultData` preserves; `SaveLemma` lifts
them through a save that may fail. From it: `TypeCorrect`, `StagesStayUpToDate`,
`ReceiptsStayOrdered`, `AlwaysDecryptable`, `CacheStaysCoherent`. `Refinement` shows
each step to be a step of `SecretRegister` or a stutter under the mapping
`Register`; migration stutters because `Decoded` reads both schemas alike.

*The replacement* (`CredentialReplacement_proofs`), for any number of sessions.
The safety properties are not inductive: a session acts on a copy of the payload
that others may have overtaken. `IInv` therefore says of every payload, stored or
held by a session, that what it claims is *backed* by history (a target it
calls confirmed was seen; a phase past verification means all were; a phase past
promotion means that the receipt exists), and of every session that it is at a
step its payload allows (`Placed`). History only grows, so a stale copy stays
backed: that is why races cannot promote an unconfirmed PIN. From it:
`TypeCorrect`, `PromotionConfirmed`, `RegistryNeverAhead`, and `CommandsCurrent`,
which also needs that a staged secret pins the vault's revision
(`VaultInv`). Two properties are about one call at a time, `OneCall`: the calls of
several tests or retries do interleave, the second clear of `ReplacementTwice` shows
it, and then two commands for one lock may both be on their way when nothing is
under way any more. With one call, whatever it is that ends it or the process and however often it is
retried, `LInv` relates the four places where the PIN is. `OperationsInv`: at rest,
vault, registry and locks agree; else the one open operation's payload tells of
every Z-Wave lock whether it is still `Untouched`, is `Underway`, or is `Replaced`, and remembers
every command that was sent. `CallsInv`: the call's copy of the payload is the stored
one, save for what it is just about to write. From it: `AgreeAlone` and `SentOnceAlone`.

*Deleting a person* (`PersonDeletion_proofs`). The first part, `IInv`, holds for any
number of overlapping calls: what a payload claims, stored or held by a session,
is backed by history (`Backed`: a target that is called confirmed was seen
empty), every session is at a step its payload allows (`Placed`), and as long as
no other service interferes, what was seen empty stays empty (`Undisturbed`). From
it: `TypeCorrect`, `DevicesFirst`, `AuthorityInOrder`, `RemovalConfirmed`. The second
part, `Alone`, is about calls that do not overlap: the session's copy is the
stored payload, the journal knows of every clear that was sent (`KnowsClears`),
and there is at most one incomplete operation. From it: `ClearedAtMostOnce` and
`NoOrphanOperation`. `NoClearAfterwards` needs a third part, `ClearsKnown`, about calls that do not
overlap and are not disturbed: a clear is on its way only to a lock that still has the code, and
never two. A lock that was never cleared has the code or is `Closed` in every
operation, which is why the clear that is sent next finds the code and nothing
in the air; of a person that is gone no lock has the code. Each action has a lemma (`CreateKeeps`, `MarkKeeps`, ...), and
those about journal writes rest on `TargetWritten` and `WriteKeeps`, which say what
any checkpoint preserves whatever becomes of the call.

*Giving and removing access* (`AccessManagement_proofs`), for any number of people,
slots, calls, failing writes and commands on their way. None of the three properties
is inductive. `IInv` has five parts; all but the first are about behaviour that
is not disturbed.

* `Shape` is the type, and what a call or a verifier has at each step.
* `Order` is about the two-write races. One call runs at a time (`Alone`), but verifiers run
  beside it. `RecordOf` says what the record of a person may be at every step of
  a call, `JobOf` what it may be while a verifier runs: no access is *standing*
  (synchronized or unknown) while a verifier of its person runs, calls that may
  raise a record find no verifier, and all who act on one person's access know the same
  slot. With `SlotsApart` (no two records share a slot) a stale copy never touches another
  person's slot.
* `Clears`: a call before its first clear, and access that stands, have no clear behind them.
* `Lock` is about commands on their way: a slot in which access stands and works has
  none (`Still`), a call that waits for its PIN sent the last command, and
  a call that may clear a slot finds nobody else standing there. It carries
  `SynchronizedWorks` through late deliveries.
* `Confirmations`: after access was confirmed in a slot, record, calls and
  verifiers of the person agree on that slot, and whoever is about to forget the
  record has seen the slot without the PIN.

`CallSteps`, `MetaSteps`, `LockSteps`, `JobSteps` and `ConfirmedSteps` say of a whole step
what it can do to one variable, so that each part of the invariant looks at the
moves that matter only. From it: `Works`, `StaysRecorded`, `Cleared`, and `Typing`.
Trying to prove `Works` showed the last two disturbances above: with two commands
and one failing write TLC could not reach them.

*The door* (`Door_proofs`), for any number of calls, changes, people and records, and
through unloading. `Reported` is the account of reports: each has one record, or
none and is the one that waits for evidence (`ReportsRecordedOnce`). `CommandInv` adds
the types, that a keypad calls the command service only with a call that was not made
(`Paired`), and that the pending command is of a call that was sent, as that call
stands, with no answer recorded (`Commanded`), so that a later change may take it
(`CommandsMatchedAlways`). `TransactionInv` adds that each request that was let
through is remembered no earlier than it came, and that two of one transaction are
further apart than its time (`TransactionsActOnceAlways`). `FingerInv` is about whose
the numbers of the Nuki are: a link that is confirmed was seen in the log since its
owner has the number. It is not inductive alone, since an observation reads the
links, waits, and writes. `Observing` therefore says of an observation under way
that the authorization it read has its number still and, unless a step has passed
it, was not removed; no more than one may pass, since requests for the document are
served in order (`ConfirmedTrulyAlways`). `LockoutInv` is about the times at which
codes are still to be judged, `Ahead`: of the requests in line, of ZHA events that are
looked up, and the present. The first in line is the earliest of them (`FirstInLine`, from `Lined`,
that only the first is served, and `Timed`, that the line is in the order of its times).
No guess is later than any of them, and each is counted by a failure of its own,
or lies outside of every window ahead (`Counted`, with the function from guesses to
failures as witness): failures that are dropped are outside of the window of the first
in line, hence of all. Who looks a code up has found room for a failure (`Room`), so
that a guess and those within its window are no more than are allowed
(`LockoutHoldsAlways`). The earliest of a set of times exists because the naturals
are well-founded (`NatLessThanWellFounded` and `WFMin` of the library). `EvidenceInv`
is about clues: what the log of the lock holds, and what is kept for an unlock to
come. A clue `Fits` if no unlock but its own is within a window of it, and, so that
none will be, it is of the next unlock, or an unlock came since then or less than a
window before, or it is older than all of them. That follows when it is told (`ToldFits`), and
holds on when another unlock is reported more than two windows after the last
(`FitsAfterReport`), so that it does not matter how late or how often the clue
is read (`EvidenceOfItsUnlockAlways`). Stating it for any log at the start showed that
`spaced` has to require something of that log: a clue in it that is not older than a
window may be taken for the first unlock.

*The policy* (first part of `Nfc_proofs`), as lemmas about operators, for weeks and days of any
length. The minute of the week is the day's start and the minute of the day
(`MinuteOfWeek`, by `Division` in three steps). A rule matches a day and a minute
just if the minute lies in one of the segments the rule stands for
(`RuleMeansSegments`: rules within a day, over midnight, and over the end of the
week, where the second segment begins at 0). Hence `EvaluateMeansAdmits` and
`AuthorizeMeansPermitted`. `ToldHoursAllow`: if the hours of the week are told at all
there is one pair of them, and every day of a told range has a rule with
that pair, so that the door would have opened.

*NFC access* (`Nfc_proofs`), for any number of tags, passkeys, invitations, requests
and administrators, with time passing, restarts, and faults. `Nfc`'s `Assumptions` say
that counters, tokens, keys and times are numbers, that `None` is nothing else, that passkeys
are not invitations, and that an installation is of its type, names schedules it has, and
begins with just its tags' keys in the vault, none of two tags (the code draws
each identifier anew). A
first lemma per repository operation says which part of the file it touches;
`AdminWritesParts`, `AdminJobs` and `VisitLeavesMost` then say of a whole step who can
have written a part, so that each invariant looks only at the actions that matter.
`SpentOnceAlways` has three: `ReadingInv` (a reading that was claimed for an epoch
counts no further than its tag has come in that epoch, `Claimed`; the record of a tag
that is deleted does not come back, because its identifier is drawn and no action
holds it, `TagsDrawn`), `TokenInv` (a token that was consumed is in no store, and is of
one request or of one command), and `EnrolInv` (an invitation that enrolled a passkey is
used, while it exists, and is of the passkey's person). `EnrolInv` carries over
to `RevocationHoldsAlways`: whoever revokes what a person has finds the passkeys
that the person's invitations enrolled. Its other half is `GoneInv`. A person, a
door and a test tag are looked at in three steps after the session was
consumed, and `Barred` says what a request that was late still has to fail: after the
session all three, after the grant the first two, after the decision it is denied.
This needs that nothing that is gone comes back (`GoneStaysGone`).
`PolicyRespectedAlways` follows from the lemmas on the policy, since a decision is made from
one snapshot whose grant has a schedule (`GrantUsable`).
`VaultFollowsTagsAlways` is not inductive, for it does not say what an action under way
still knows. `VaultInv` does: while all is sure there is one action on a tag at most
(`Only`), and with what it holds the keys balance (`Balanced`): a tag that is prepared is not
registered yet and all keys stored for it are in the vault; of a tag that is deleted, the
keys left are those that are still to be deleted; a tag that is to be protected has no
administrator key when one is stored for it. Each action hands a balance to
the next (`AccountGoes`), and the others leave the keys (`KeysStay`). `TypeOKAlways` bounds the
stores of tokens: of several items one is the oldest (`SomeOldest`, from the
well-founded naturals), so that a full store that makes room loses one at least (`RoomMade`).

*Statuses and recovery* (`SynchronizationRecovery_proofs`), for any number of people, doors,
operations and callers, from a document of any of the nineteen schemas. A call is a
sequence of steps that can grow as it goes, so the type of a call is the first thing to find: `Scripts`
are sequences in which a step that writes a relationship is followed by another one or by a
reading (`Linked`), evaluations to be stored come first and are of different doors, and what is done when
a step raises is such a script again, two levels deep (`Mild`, `Wild`). Which steps a
call can have depends on what it is about (`Steps`). One lemma per migration (`Load3` to `Load19`,
`PolicyLoad`, `ScheduleLoad`; together `Migrated`) shows that what a migration returns is a valid document
of the current schema, with the statuses of today. One per transaction says that it leaves what
the document tells of other doors (`Rewrites`, `SameStatus`), and that the document stays valid. `TypeInv`
has all that, `StatusInv` adds two things. `TimesDiffer`: a reading that is still to
be stored has the time of no other caller's, nor of the one that is stored at its door. `Settled`: of every
door, either a call is about to read it (`Owes`), or a call left it out and nobody has read
it since (`LeftOut`), or the latest of its readings, stored already (`StoredLast`) or still to
be stored (`ComesLast`), gives what the document gives now. That third case is what makes overtaking
harmless: `MayStore` rejects exactly the readings that are not the latest. From it, when no call is under
way, `StatusCurrentAlways`. `OrphansOwed` is the third part, which the repair before an evaluation
needs: a relationship without an owner is at a door that a call is about to evaluate, so
that its removal, which nobody observes, leaves out no door.

`RecoveryTruthfulAlways` rests on `Faithful`, a part of the type of recoveries: what a
recovery found or read as synchronized has both records synchronized, or has no metadata any more, at the time it was read.
An answer "completed" can only be made of that (`AnswerFaithful`). `TypeOKAlways` and `DocumentsLoadAlways` have the
hypothesis `Loading`, that the documents on disk load at all: some of the schemas 1 to 10 do not (finding 4).
The second says that what was loaded once loads after every crash and at every
later start, whatever was written.

`CommandsCurrent` (`NoStaleCommand`: between validation and dispatch the vault does not move
on) is proved only; no run repeats it.

*A home* (`Home_proofs`), for any number of people, schedules, doors, keypads, requests
and calls at a time, through failures and restarts. `Assumptions` of `Home` say that the
protected schedule and what it allows exist, that `None` is no value, that every request
is of its type, that the people whom requests are going to create are different (their
identifiers are made from the requests', `services/user_setup.py:169`) and not there yet, that no request was
served before, and that a home begins with a valid document, with the PINs of its authorities
in the vault, and with doors that take PINs where people have access, and that are exposed where a keypad is
switched on.

A call is a record that depends on the place it is at, so the first lemmas say what it
has there (`Shapes`, `Fields`) and which steps a call can take at all (`Turn`: others stay,
a call at a door where another is has met it). `Basis` is the invariant all else rests on: the
document is of its type and `Valid`, calls are `Coherent` (whom they serve and what they
have done fits the place they are at), whoever is there was `Drawn` so that no
identifier comes twice, and `Requests` says how far each request has come, in
the document, in its call and in the answers. One lemma per kind of transaction says that
it keeps a document valid (`ValidAfterRemoval`, `FormValid`, `FurnishedDocument`, `AuthorityOnly`, ...); the hardest is
a form that is saved for some doors of a person, since it adds, changes and removes
schedules that other grants may share. `HoursAsMeant` is part of `Basis`, since a copy is
written only if what it was read from is what is there, and a schedule that is changed
belongs to the person or the door it is changed for (`HoursAlways`); so is
the type (`TypeOKAlways`).

`SetUpOnce` is not inductive, for a call carries a PIN that nobody has yet. `Creds` says that
the PIN of a call is its person's or nobody's, that one that the call made itself (`Own`)
is in the vault and carried by no other, and that each PIN in the vault is somebody's, such a call's, or
lost. Whether somebody to be created can have been given a PIN before is
excluded by `Unborn`: until its request has a record, the person is not there and no
call works for it (`SetUpOnceAlways`).

`DoorsAgree` holds while calls overlap, so that its invariant, `DoorsInv`, is about what each call under
way knows of a door, for any number of them there. `Site` says that of keypads and of the enrolment,
at doors where no call that takes away has met another since the last start (the copy that
is going to be written is what is there; no keypad is switched on where the door is
removed, none but its own where the capability is withdrawn); `Trust` says that of grants, at doors where
that never happened (nobody has access where the door is removed or the capability withdrawn;
who programs a door does so at one that takes PINs). What holds of the door itself is `Working`, for
keypads, and `Given`, for what was removed and for grants. Every step either leaves a door as it was
(`Untouched`), or takes nothing away from it (`Rises`), and what others know of the door survives both;
or it is of a call that takes away, and then nobody else is there (`Minds`). So the actions are
looked at one by one only at their own door (`DoorsAgreeAlways`). A
start that fails (`"down"`) leaves keypads as the end of the process found them.

`AnswersTrue` follows from `AnswersInv`: whatever a set-up is going to name (`Told`: the doors
it is done with, and the one whose record is written) works for the person of its request,
while that person is there and unless another call met it there. `Fate` says of a whole step that it
adds to that only a door that works after it, `OthersTell` that other calls change no
records at doors that are not theirs (`AnswersTrueAlways`, an action property).

What the proof found in the model: people whom requests create were drawn when they were
created, so that two requests could create one person, which the code excludes; their
identifiers are now fixed by the requests. A schedule that is kept was told by two guards
that overlapped (`Stored`). And what `Init` took for granted of a home, the model now assumes by name.
The parts of the inductive invariants were checked by TLC on the homes of `MCHome` before.

Only model-checked: `CallsEnd`,
since liveness under fairness is out of the prover's reach. Proofs by induction
over data are out of its reach too.

## Not modelled

The table in the inventory lists everything; `PROJECT.json` gives the status of
each part. Out of scope for good: the panel and the views (no authority of their
own), the wire protocols, the config flow and the wiring of the services. The
lifecycle journal's own `execute`, `resume`, `retry`, `complete` and `cancel` are not
modelled since no code of the integration calls them; the services drive
their operations themselves. Reveal, the activity repository, notifications and
battery monitoring are in the plan or have little state: a record, a cursor,
a preference. What a modelled component leaves out is said in its section above.
