--------------------------- MODULE AccessManagement ---------------------------
(***************************************************************************)
(* Giving and removing access at one Z-Wave lock: AccessManagementService  *)
(* and GiveAccessService over the access metadata, the access grants and   *)
(* the numbered slots of the lock.                                         *)
(*                                                                         *)
(* Each service runs one call at a time under a lock of its own, so there  *)
(* are two callers, not excluded from each other.  Removals are verified   *)
(* in the background, one verifier per person.  An action is what runs     *)
(* from one await to the next.                                             *)
(***************************************************************************)
EXTENDS Naturals, Sequences, FiniteSets

CONSTANTS
  Person,     \* people, each with one PIN in the vault and the right to use it
  Slots,      \* number of slots of the lock
  MaxCalls,   \* bound: calls of the two services
  MaxFaults,  \* bound: storage writes that fail
  MaxAir,     \* bound: commands on their way to the lock
  Inline,     \* the verification that a recovery waits for
  None

Slot == 1..Slots

Caller == {"manage", "give"}

Verifier == Person \cup {Inline}

Status == {"synchronized", "unknown", "synchronizing", "pending", "retry_required",
           "manual_attention_required"}

\* AccessMetadata of a person at the lock
Metadata == [slot : Slot, status : Status]

NoMetadata == [slot |-> 0, status |-> "none"]

ASSUME Assumptions ==
  /\ Slots \in Nat /\ MaxCalls \in Nat /\ MaxFaults \in Nat /\ MaxAir \in Nat
  /\ Inline \notin Person
  /\ None \notin Person \cup {Inline} \cup Metadata

\* A command: program the PIN of a person into a slot, or clear it (None).
Command == [slot : Slot, pin : Person \cup {None}]

CallControl ==
  {"idle", "choose", "program", "readback", "record", "complete", "compensate",
   "rollback", "unprogram", "emptied", "forget",
   "removing", "clear", "check", "ownership", "clear_again", "confirm",
   "save", "save_grant", "schedule", "verify", "verifying"}

\* What follows update_synchronization_status
After == {"end", "clear", "schedule", "verify", "unprogram"}

Calls ==
  [pc : CallControl, person : Person \cup {None},
   slot : 0..Slots,                     \* the slot that is programmed
   meta : Metadata \cup {NoMetadata},   \* the call's copy of the metadata
   status : Status \cup {"none"},       \* the status to record or to save
   found : BOOLEAN,                     \* a grant was read before the save
   after : After]

Jobs ==
  [pc : {"read", "drop_grant", "drop_metadata", "check", "mark", "mark_grant", "ending"},
   person : Person, meta : Metadata, status : Status \cup {"none"}, found : BOOLEAN]

VARIABLES
  meta,      \* the access metadata
  grant,     \* the status in the access grant, None without a grant
  holds,     \* whose PIN a slot of the lock holds
  air,       \* commands on their way, in order
  call,      \* the running call of each service
  job,       \* the running verifications
  calls,     \* calls begun so far
  faults,    \* failed writes so far
  disturbed, \* history: see Disturbance
  confirmed, \* history: the slot where a person's PIN was read back and recorded, or 0
  cleared    \* history: clears sent by removals, per person (2 is more)

records == <<meta, grant>>
lock    == <<holds, air>>
history == <<disturbed, confirmed, cleared>>
vars    == <<records, lock, call, job, calls, faults, history>>

IdleCall == [pc |-> "idle", person |-> None, slot |-> 0, meta |-> NoMetadata,
             status |-> "none", found |-> FALSE, after |-> "end"]

TypeOK ==
  /\ meta \in [Person -> Metadata \cup {None}]
  /\ grant \in [Person -> Status \cup {None}]
  /\ holds \in [Slot -> Person \cup {None}]
  /\ air \in Seq(Command) /\ Len(air) <= MaxAir
  /\ call \in [Caller -> Calls]
  /\ job \in [Verifier -> Jobs \cup {None}]
  /\ calls \in 0..MaxCalls
  /\ faults \in 0..MaxFaults
  /\ disturbed \in BOOLEAN
  /\ confirmed \in [Person -> 0..Slots]
  /\ cleared \in [Person -> 0..2]

Init ==
  /\ meta = [p \in Person |-> None]
  /\ grant = [p \in Person |-> None]
  /\ holds = [k \in Slot |-> None]
  /\ air = <<>>
  /\ call = [c \in Caller |-> IdleCall]
  /\ job = [v \in Verifier |-> None]
  /\ calls = 0
  /\ faults = 0
  /\ disturbed = FALSE
  /\ confirmed = [p \in Person |-> 0]
  /\ cleared = [p \in Person |-> 0]

-----------------------------------------------------------------------------
(* Calls, commands and storage                                              *)

At(c, pc) == call[c].pc = pc

Subject(c) == call[c].person

Put(c, new) == call' = [call EXCEPT ![c] = new]

GoTo(c, pc) == Put(c, [call[c] EXCEPT !.pc = pc])

\* The call returns or raises.
End(c) == Put(c, IdleCall)

\* update_synchronization_status, and what follows it
Save(c, m, status, after) ==
  Put(c, [call[c] EXCEPT !.pc = "save", !.meta = m, !.status = status, !.after = after])

\* A call begins while the other service is at work, or access is added while
\* a verifier of its last removal still runs.  (The other two are in Deliver, a
\* PIN that is programmed after its call has stopped waiting for it, and in
\* Compensate, a compensation of give_access that fails.)
Disturbance(c, p, pc) ==
  \/ \E d \in Caller \ {c} : ~At(d, "idle")
  \/ pc = "choose" /\ \E v \in Verifier : job[v] # None /\ job[v].person = p

Begin(c, p, pc, m) ==
  /\ At(c, "idle")
  /\ calls < MaxCalls
  /\ calls' = calls + 1
  /\ disturbed' = (disturbed \/ Disturbance(c, p, pc))
  /\ Put(c, [IdleCall EXCEPT !.pc = pc, !.person = p, !.meta = m])

Send(slot, pin) ==
  /\ Len(air) < MaxAir
  /\ air' = Append(air, [slot |-> slot, pin |-> pin])

Write == faults' = faults

Fault == faults < MaxFaults /\ faults' = faults + 1

\* AccessMetadataRepository.upsert refuses a slot that somebody else has.
Taken(p, slot) == \E q \in Person \ {p} : meta[q] # None /\ meta[q].slot = slot

\* CredentialMetadataRepository and the delta check reject one-sided records.
OneSided(p) == (meta[p] = None) # (grant[p] = None)

-----------------------------------------------------------------------------
(* Adding access: update_access, add_access and give_access                 *)

BeginAdding(c, p) ==
  /\ meta[p] = None /\ ~OneSided(p)
  /\ Begin(c, p, "choose", NoMetadata)
  /\ confirmed' = [confirmed EXCEPT ![p] = 0]
  /\ cleared' = [cleared EXCEPT ![p] = 0]
  /\ UNCHANGED <<records, lock, job, faults>>

\* provision_pin reads the users of the lock.
ChooseSlot(c) ==
  /\ At(c, "choose")
  /\ \/ \E k \in Slot :
          /\ holds[k] = None
          /\ \A j \in Slot : j < k => holds[j] # None
          /\ Put(c, [call[c] EXCEPT !.pc = "program", !.slot = k])
     \/ End(c)
  /\ UNCHANGED <<records, lock, job, calls, faults, history>>

\* If the command raises it may be on its way nevertheless.  The service does
\* not roll back what it has not begun to record.
ProgramSlot(c) ==
  /\ At(c, "program")
  /\ \/ Send(call[c].slot, Subject(c)) /\ (GoTo(c, "readback") \/ End(c))
     \/ End(c) /\ UNCHANGED air
  /\ UNCHANGED <<records, holds, job, calls, faults, history>>

\* verify_pin answers verified, failed or inconclusive; any read can fail.
ReadBack(c) ==
  /\ At(c, "readback")
  /\ \/ /\ holds[call[c].slot] = Subject(c)
        /\ Put(c, [call[c] EXCEPT !.pc = "record", !.status = "synchronized"])
     \/ Put(c, [call[c] EXCEPT !.pc = "record", !.status = "unknown"])
     \/ /\ holds[call[c].slot] \notin {Subject(c), None}
        /\ End(c)
  /\ UNCHANGED <<records, lock, job, calls, faults, history>>

\* record_provisioning: the metadata first.
RecordMetadata(c) ==
  /\ At(c, "record")
  /\ LET p == Subject(c)
     IN \/ /\ ~Taken(p, call[c].slot)
           /\ meta' = [meta EXCEPT ![p] = [slot |-> call[c].slot, status |-> call[c].status]]
           /\ GoTo(c, "complete")
           /\ Write
        \/ /\ IF Taken(p, call[c].slot) THEN Write ELSE Fault
           /\ GoTo(c, "rollback")
           /\ UNCHANGED meta
  /\ UNCHANGED <<grant, lock, job, calls, history>>

\* Then the grant, the authority, the status of the door and the history.  A
\* call that then fails at another access point rolls this one back.
CompleteRecord(c) ==
  /\ At(c, "complete")
  /\ LET p == Subject(c)
         granted == [grant EXCEPT ![p] = call[c].status]
     IN \/ /\ grant' = granted
           /\ confirmed' = [confirmed EXCEPT ![p] =
                IF call[c].status = "synchronized" THEN call[c].slot ELSE @]
           /\ End(c) \/ (c = "manage" /\ GoTo(c, "rollback"))
           /\ Write
        \/ /\ grant' \in {grant, granted}
           /\ GoTo(c, "compensate")
           /\ Fault
           /\ UNCHANGED confirmed
  /\ UNCHANGED <<meta, lock, job, calls, disturbed, cleared>>

\* Grant and metadata go, in two writes.
Forget(p) ==
  \/ /\ grant' = [grant EXCEPT ![p] = None]
     /\ meta' = [meta EXCEPT ![p] = None]
     /\ Write
  \/ /\ grant' \in {grant, [grant EXCEPT ![p] = None]}
     /\ Fault
     /\ UNCHANGED meta

\* _compensate_failed_provisioning swallows its failures: give_access goes on to
\* clear the slot of access that is still on record.
Compensate(c) ==
  /\ At(c, "compensate")
  /\ Forget(Subject(c))
  /\ GoTo(c, "rollback")
  /\ disturbed' = (disturbed \/ (c = "give" /\ faults' # faults))
  /\ UNCHANGED <<lock, job, calls, confirmed, cleared>>

\* _rollback_additions marks what is recorded before it touches the lock;
\* give_access touches the lock at once.
RollBack(c) ==
  /\ At(c, "rollback")
  /\ IF c = "manage" /\ meta[Subject(c)] # None
     THEN Save(c, meta[Subject(c)], "manual_attention_required", "unprogram")
     ELSE GoTo(c, "unprogram")
  /\ UNCHANGED <<records, lock, job, calls, faults, history>>

\* remove_pin sends a clear and reads the slot.
Unprogram(c) ==
  /\ At(c, "unprogram")
  /\ \/ Send(call[c].slot, None) /\ (GoTo(c, "emptied") \/ End(c))
     \/ End(c) /\ UNCHANGED air
  /\ UNCHANGED <<records, holds, job, calls, faults, history>>

\* give_access leaves its records alone: they have been compensated.
ReadEmptied(c) ==
  /\ At(c, "emptied")
  /\ \/ /\ c = "manage"
        /\ holds[call[c].slot] = None
        /\ GoTo(c, "forget")
     \/ End(c)
  /\ UNCHANGED <<records, lock, job, calls, faults, history>>

ForgetAccess(c) ==
  /\ At(c, "forget")
  /\ Forget(Subject(c))
  /\ End(c)
  /\ UNCHANGED <<lock, job, calls, history>>

-----------------------------------------------------------------------------
(* Removing access: update_access                                           *)

\* Access to other points may be added between reading the metadata and acting
\* on it.
BeginRemoval(p) ==
  /\ meta[p] # None /\ ~OneSided(p)
  /\ Begin("manage", p, "removing", meta[p])
  /\ UNCHANGED <<records, lock, job, faults, confirmed, cleared>>

\* Mutant: access that needs attention is cleared again.
RemoveAgain ==
  LET m == call["manage"].meta
  IN /\ At("manage", "removing")
     /\ CASE m.status = "pending" -> GoTo("manage", "schedule")
          [] m.status = "synchronizing" -> End("manage")
          [] m.status = "retry_required" -> Save("manage", m, "pending", "schedule")
          [] OTHER -> Save("manage", m, "synchronizing", "clear")
     /\ UNCHANGED <<records, lock, job, calls, faults, history>>

RemoveAccess ==
  LET m == call["manage"].meta
  IN /\ At("manage", "removing")
     /\ CASE m.status = "pending" -> GoTo("manage", "schedule")
          [] m.status = "synchronizing" -> End("manage")
          [] m.status \in {"manual_attention_required", "retry_required"} ->
               Save("manage", m, "pending", "schedule")
          [] OTHER -> Save("manage", m, "synchronizing", "clear")
     /\ UNCHANGED <<records, lock, job, calls, faults, history>>

More(n) == IF n < 2 THEN n + 1 ELSE n

\* request_remove_pin: a clear that raises counts as refused and may be on its
\* way nevertheless.
ClearSlot ==
  LET m == call["manage"].meta
  IN /\ At("manage", "clear")
     /\ \/ /\ Send(m.slot, None)
           /\ cleared' = [cleared EXCEPT ![Subject("manage")] = More(@)]
           /\ \/ Save("manage", m, "pending", "schedule")
              \/ Save("manage", m, "manual_attention_required", "end")
        \/ /\ Save("manage", m, "manual_attention_required", "end")
           /\ UNCHANGED <<air, cleared>>
     /\ UNCHANGED <<records, holds, job, calls, faults, disturbed, confirmed>>

\* What a verification that starts with metadata m is
NewJob(p, m) == [pc |-> "read", person |-> p, meta |-> m, status |-> "none", found |-> FALSE]

\* _schedule_verification leaves alone a verifier that is not done.
ScheduleVerification ==
  LET p == Subject("manage")
  IN /\ At("manage", "schedule")
     /\ job' = [job EXCEPT ![p] = IF @ = None THEN NewJob(p, call["manage"].meta) ELSE @]
     /\ End("manage")
     /\ UNCHANGED <<records, lock, calls, faults, history>>

-----------------------------------------------------------------------------
(* update_synchronization_status in a call: the metadata, then the grant     *)

\* A failed save ends the call, but for the mark after an accepted clear.
SaveFails(c) ==
  IF call[c].after = "schedule" /\ call[c].meta.status = "synchronizing"
  THEN GoTo(c, "schedule") ELSE End(c)

SaveMetadata(c) ==
  /\ At(c, "save")
  /\ LET p == Subject(c)
         m == [call[c].meta EXCEPT !.status = call[c].status]
     IN \/ /\ ~Taken(p, m.slot)
           /\ meta' = [meta EXCEPT ![p] = m]
           /\ Put(c, [call[c] EXCEPT !.pc = "save_grant", !.found = grant[p] # None])
           /\ Write
        \/ /\ IF Taken(p, m.slot) THEN Write ELSE Fault
           /\ SaveFails(c)
           /\ UNCHANGED meta
  /\ UNCHANGED <<grant, lock, job, calls, history>>

SaveGrant(c) ==
  /\ At(c, "save_grant")
  /\ LET p == Subject(c)
         saved == IF call[c].found THEN [grant EXCEPT ![p] = call[c].status] ELSE grant
         new == [call[c] EXCEPT !.meta.status = call[c].status]
     IN \/ /\ grant' = saved
           /\ IF call[c].after = "end" THEN End(c)
              ELSE Put(c, [new EXCEPT !.pc = call[c].after])
           /\ Write
        \/ /\ grant' \in {grant, saved}
           /\ SaveFails(c)
           /\ Fault
  /\ UNCHANGED <<meta, lock, job, calls, history>>

-----------------------------------------------------------------------------
(* Recovery of one relationship: retry_removal_verification and             *)
(* retry_provisioning_verification                                          *)

\* SynchronizationRecoveryService asks for grant and metadata that agree.
BeginRetry(p) ==
  /\ meta[p] # None /\ grant[p] = meta[p].status
  /\ \/ meta[p].status = "retry_required" /\ Begin("manage", p, "check", meta[p])
     \/ meta[p].status = "unknown" /\ Begin("manage", p, "confirm", meta[p])
  /\ UNCHANGED <<records, lock, job, faults, confirmed, cleared>>

\* The slot whose occupant the call reads
Occupant == holds[call["manage"].meta.slot]

\* A slot that is empty, or cannot be read, is only verified.
CheckRemoved ==
  /\ At("manage", "check")
  /\ \/ Save("manage", call["manage"].meta, "pending", "verify")
     \/ Occupant # None /\ GoTo("manage", "ownership")
  /\ UNCHANGED <<records, lock, job, calls, faults, history>>

CheckOwnership ==
  LET m == call["manage"].meta
  IN /\ At("manage", "ownership")
     /\ \/ Occupant = Subject("manage") /\ GoTo("manage", "clear_again")
        \/ /\ Occupant \notin {Subject("manage"), None}
           /\ Save("manage", m, "manual_attention_required", "end")
        \/ Save("manage", m, "pending", "verify")
     /\ UNCHANGED <<records, lock, job, calls, faults, history>>

ClearAgain ==
  LET m == call["manage"].meta
  IN /\ At("manage", "clear_again")
     /\ \/ /\ Send(m.slot, None)
           /\ \/ Save("manage", m, "pending", "verify")
              \/ Save("manage", m, "manual_attention_required", "end")
        \/ Save("manage", m, "manual_attention_required", "end") /\ UNCHANGED air
     /\ UNCHANGED <<records, holds, job, calls, faults, history>>

\* The call waits for this verification.
VerifyInline ==
  /\ At("manage", "verify")
  /\ job' = [job EXCEPT ![Inline] = NewJob(Subject("manage"), call["manage"].meta)]
  /\ GoTo("manage", "verifying")
  /\ UNCHANGED <<records, lock, calls, faults, history>>

\* Mutant: what is not seen to differ counts as confirmed.
ConfirmUnlessDifferent ==
  LET m == call["manage"].meta
  IN /\ At("manage", "confirm")
     /\ \/ /\ Occupant \in {Subject("manage"), None}
           /\ Save("manage", m, "synchronized", "end")
        \/ /\ Occupant \notin {Subject("manage"), None}
           /\ Save("manage", m, "manual_attention_required", "end")
     /\ UNCHANGED <<records, lock, job, calls, faults, history>>

\* An inconclusive read changes nothing.
ConfirmProvisioning ==
  LET m == call["manage"].meta
  IN /\ At("manage", "confirm")
     /\ \/ Occupant = Subject("manage") /\ Save("manage", m, "synchronized", "end")
        \/ /\ Occupant \notin {Subject("manage"), None}
           /\ Save("manage", m, "manual_attention_required", "end")
        \/ End("manage")
     /\ UNCHANGED <<records, lock, job, calls, faults, history>>

-----------------------------------------------------------------------------
(* _verify_removal                                                          *)

Verifying(v, pc) == job[v] # None /\ job[v].pc = pc

JobGoesTo(v, pc) == job' = [job EXCEPT ![v] = [job[v] EXCEPT !.pc = pc]]

\* _mark_verification_state
Mark(v, status) ==
  job' = [job EXCEPT ![v] = [job[v] EXCEPT !.pc = "mark", !.status = status]]

NeedsAttention(v) == Mark(v, "manual_attention_required")

\* Mutant: a slot that cannot be read counts as empty.
ReadUnlessOccupied(v) ==
  /\ Verifying(v, "read")
  /\ \/ JobGoesTo(v, "drop_grant")
     \/ holds[job[v].meta.slot] # None /\ Mark(v, "retry_required")
  /\ UNCHANGED <<records, lock, call, calls, faults, history>>

\* The slot is read up to five times; reads that do not end the loop are not
\* steps here.
ReadRemoved(v) ==
  /\ Verifying(v, "read")
  /\ \/ holds[job[v].meta.slot] = None /\ JobGoesTo(v, "drop_grant")
     \/ holds[job[v].meta.slot] # None /\ Mark(v, "retry_required")
     \/ NeedsAttention(v)
  /\ UNCHANGED <<records, lock, call, calls, faults, history>>

\* remove_grant, which also evaluates the status of the door
DropGrant(v) ==
  /\ Verifying(v, "drop_grant")
  /\ LET dropped == [grant EXCEPT ![job[v].person] = None]
     IN \/ grant' = dropped /\ JobGoesTo(v, "drop_metadata") /\ Write
        \/ grant' \in {grant, dropped} /\ NeedsAttention(v) /\ Fault
  /\ UNCHANGED <<meta, lock, call, calls, history>>

\* remove_synchronization_metadata, which also records the status of the door
DropMetadata(v) ==
  /\ Verifying(v, "drop_metadata")
  /\ LET dropped == [meta EXCEPT ![job[v].person] = None]
     IN \/ meta' = dropped /\ JobGoesTo(v, "check") /\ Write
        \/ meta' \in {meta, dropped} /\ NeedsAttention(v) /\ Fault
  /\ UNCHANGED <<grant, lock, call, calls, history>>

CheckDropped(v) ==
  /\ Verifying(v, "check")
  /\ IF meta[job[v].person] = None THEN JobGoesTo(v, "ending") ELSE NeedsAttention(v)
  /\ UNCHANGED <<records, lock, call, calls, faults, history>>

MarkMetadata(v) ==
  /\ Verifying(v, "mark")
  /\ LET p == job[v].person
         m == [job[v].meta EXCEPT !.status = job[v].status]
     IN \/ /\ ~Taken(p, m.slot)
           /\ meta' = [meta EXCEPT ![p] = m]
           /\ job' = [job EXCEPT ![v] =
                [job[v] EXCEPT !.pc = "mark_grant", !.found = grant[p] # None]]
           /\ Write
        \/ /\ IF Taken(p, m.slot) THEN Write ELSE Fault
           /\ JobGoesTo(v, "ending")
           /\ UNCHANGED meta
  /\ UNCHANGED <<grant, lock, call, calls, history>>

MarkGrant(v) ==
  /\ Verifying(v, "mark_grant")
  /\ LET p == job[v].person
     IN \/ /\ grant' = IF job[v].found THEN [grant EXCEPT ![p] = job[v].status] ELSE grant
           /\ Write
        \/ Fault /\ UNCHANGED grant
  /\ JobGoesTo(v, "ending")
  /\ UNCHANGED <<meta, lock, call, calls, history>>

\* History and activity are recorded before the task is done.
EndVerification(v) ==
  /\ Verifying(v, "ending")
  /\ job' = [job EXCEPT ![v] = None]
  /\ IF v = Inline THEN End("manage") ELSE UNCHANGED call
  /\ UNCHANGED <<records, lock, calls, faults, history>>

-----------------------------------------------------------------------------
(* The lock and the process                                                 *)

\* A call waits for the PIN that is next to arrive: it sent its command last.
Awaited ==
  Len(air) = 1 /\ \E c \in Caller : At(c, "readback") /\ Subject(c) = Head(air).pin

\* Commands are carried out in the order they were sent, late or never.
Deliver ==
  /\ air # <<>>
  /\ holds' \in {holds, [holds EXCEPT ![Head(air).slot] = Head(air).pin]}
  /\ air' = Tail(air)
  /\ disturbed' = (disturbed \/ (holds' # holds /\ Head(air).pin # None /\ ~Awaited))
  /\ UNCHANGED <<records, call, job, calls, faults, confirmed, cleared>>

\* The process ends, and async_resume_pending_verifications runs at the next
\* start: pending removals are verified again, and an intent whose command may
\* or may not have been sent needs attention.
Restart ==
  LET marked == [p \in Person |->
        IF meta[p] # None /\ meta[p].status = "synchronizing"
        THEN [meta[p] EXCEPT !.status = "manual_attention_required"] ELSE meta[p]]
  IN /\ call' = [c \in Caller |-> IdleCall]
     /\ meta' = marked
     /\ grant' = [p \in Person |->
          IF marked[p] # meta[p] /\ grant[p] # None THEN "manual_attention_required"
          ELSE grant[p]]
     /\ job' = [v \in Verifier |->
          IF v \in Person /\ meta[v] # None /\ meta[v].status = "pending"
          THEN NewJob(v, meta[v]) ELSE None]
     /\ UNCHANGED <<lock, calls, faults, history>>

AddingStep(c) ==
  \/ ChooseSlot(c) \/ ProgramSlot(c) \/ ReadBack(c) \/ RecordMetadata(c)
  \/ CompleteRecord(c) \/ Compensate(c)
  \/ RollBack(c) \/ Unprogram(c) \/ ReadEmptied(c) \/ ForgetAccess(c)

RemovingStep == RemoveAccess \/ ClearSlot \/ ScheduleVerification

RetryStep ==
  \/ CheckRemoved \/ CheckOwnership \/ ClearAgain \/ VerifyInline
  \/ ConfirmProvisioning

VerifierStep(v) ==
  \/ ReadRemoved(v) \/ DropGrant(v) \/ DropMetadata(v) \/ CheckDropped(v)
  \/ MarkMetadata(v) \/ MarkGrant(v) \/ EndVerification(v)

Next ==
  \/ \E c \in Caller :
       \/ \E p \in Person : BeginAdding(c, p)
       \/ AddingStep(c) \/ SaveMetadata(c) \/ SaveGrant(c)
  \/ \E p \in Person : BeginRemoval(p) \/ BeginRetry(p)
  \/ RemovingStep \/ RetryStep
  \/ \E v \in Verifier : VerifierStep(v)
  \/ Deliver \/ Restart

Spec == Init /\ [][Next]_vars

-----------------------------------------------------------------------------
(* Properties                                                               *)

\* Access that counts as synchronized works: the numbered slot of the lock has
\* the PIN of the person, through removals that fail halfway, rollbacks, retries,
\* restarts and late or lost commands, as long as the services do not overlap.
SynchronizedWorks ==
  ~disturbed => \A p \in Person :
    meta[p] # None /\ meta[p].status = "synchronized" => holds[meta[p].slot] = p

\* A PIN that was read back and recorded stays on record while it is on the lock:
\* neither a rollback nor a verifier forgets access that still works.
ConfirmedStaysRecorded ==
  ~disturbed => \A p \in Person, k \in Slot :
    confirmed[p] = k /\ holds[k] = p => meta[p] # None /\ meta[p].slot = k

\* Saving the same selection again never repeats the clear of a slot, whatever
\* became of the first one: a repeated Save only verifies.
ClearedBySaveOnce == ~disturbed => \A p \in Person : cleared[p] <= 1
=============================================================================
