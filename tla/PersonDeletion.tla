---------------------------- MODULE PersonDeletion ----------------------------
(***************************************************************************)
(* Deleting a person: PersonDeletionService (services/person_deletion.py)  *)
(* over the lifecycle journal, the person's access grants and the locks    *)
(* that hold the person's code.                                            *)
(*                                                                         *)
(* A Session is one running call of delete_person; calls are not excluded  *)
(* from each other, and an action is what runs from one await to the next. *)
(* The code is cleared from one access point after another, each clear     *)
(* being read back, and only then is the person removed, in one storage    *)
(* transaction with the end of the operation.                              *)
(***************************************************************************)
EXTENDS Naturals, FiniteSets

CONSTANTS
  Session,      \* concurrent service calls
  Targets,      \* number of access points
  Keypads,      \* those of 1..Targets with the HomePASS keypad driver
  Nukis,        \* those with the Nuki driver; the others are Z-Wave locks
  MaxOps,       \* bound: operations ever created
  MaxEdits,     \* bound: changes made by other services
  MaxRetries,   \* retries before a pause is a failure
  None

\* Access points are numbered in the order the service sorts them.
Target == 1..Targets
Locks  == Target \ Keypads
ZWaves == Locks \ Nukis

\* Operations are numbered in the order of their creation, which is the order
\* of load_incomplete.
Op == 1..MaxOps

INSTANCE LifecycleJournal

VARIABLES
  person,   \* the person record exists
  granted,  \* access points with a grant and metadata of the person
  nfc,      \* the person has an enabled passkey or an NFC grant
  secret,   \* the vault has the person's PIN
  holds,    \* whether the person's slot of an access point has the code
  air,      \* clear commands sent to a lock and not carried out
  journal,  \* the lifecycle operations, None where there is none
  sess,     \* the running calls
  edits,    \* changes made by other services so far
  sent,     \* history: clears sent per operation and target (2 is more)
  seen,     \* history: targets read back empty, per operation
  overlap   \* history: two calls have run at the same time

registry == <<person, granted, nfc, secret, edits>>
devices  == <<holds, air, sent, seen>>
vars     == <<registry, devices, journal, sess, overlap>>

\* The states of a target in journals of the first version of the service
Dated == {"pending", "success", "retryable_failure", "failure"}

RemovalState ==
  {"removal_not_requested", "removal_requesting", "removal_requested",
   "removal_request_rejected", "verification_pending", "verification_failed",
   "removal_confirmed"} \cup Dated

\* LifecycleOperation.payload and current_step: done are the targets before it.
\* dated are the targets without a request_result.  Targets of access that was
\* granted later are appended when all others are done; what is appended
\* together is in the order of the numbers here.
Payload ==
  [targets : SUBSET Target, done : SUBSET Target, dated : SUBSET Target,
   state : [Target -> RemovalState]]

NewPayload(targets) ==
  [targets |-> targets, done |-> {}, dated |-> {},
   state |-> [t \in Target |-> "removal_not_requested"]]

ASSUME Assumptions ==
  /\ Targets \in Nat /\ MaxOps \in Nat /\ MaxEdits \in Nat /\ MaxRetries \in Nat
  /\ Keypads \subseteq 1..Targets /\ Nukis \subseteq (1..Targets) \ Keypads
  /\ None \notin Op /\ None \notin Operation(Payload)

Control ==
  {"idle", "lookup", "normalize", "capture", "create", "mark", "targets",
   "request", "answered", "verified", "commit", "observe", "cleanup"}

\* fresh: the stored operation still has the updated_at of the session's copy.
Sessions ==
  [pc : Control, op : Op \cup {None}, payload : Payload, fresh : BOOLEAN,
   answer : {"none", "taken", "rejected", "removed", "present", "unknown", "unsupported"}]

Idle == [pc |-> "idle", op |-> None, payload |-> NewPayload({}), fresh |-> FALSE,
         answer |-> "none"]

TypeOK ==
  /\ person \in BOOLEAN /\ nfc \in BOOLEAN /\ secret \in BOOLEAN
  /\ granted \in SUBSET Target
  /\ holds \in [Target -> BOOLEAN]
  /\ air \in [Target -> 0..2]
  /\ journal \in [Op -> Operation(Payload) \cup {None}]
  /\ sess \in [Session -> Sessions]
  /\ edits \in 0..MaxEdits
  /\ sent \in [Op -> [Target -> 0..2]]
  /\ seen \in [Op -> SUBSET Target]
  /\ overlap \in BOOLEAN

\* An operation that an earlier version left waiting at target t.
DatedOperation(t, state) ==
  [NewOperation(
     [targets |-> Target, done |-> 1..(t - 1), dated |-> Target,
      state |-> [u \in Target |-> IF u < t THEN "success"
                                  ELSE IF u = t THEN state ELSE "pending"]])
   EXCEPT !.status = "waiting_retry"]

\* An installation where everybody's records and locks agree, with no deletion
\* under way or with one begun by an earlier version.
Init ==
  /\ person = TRUE /\ nfc = TRUE /\ secret = TRUE
  /\ granted = Target
  /\ sess = [s \in Session |-> Idle]
  /\ edits = 0
  /\ overlap = FALSE
  /\ \/ /\ journal = [o \in Op |-> None]
        /\ holds = [t \in Target |-> t \in Locks]
        /\ air = [t \in Target |-> 0]
        /\ sent = [o \in Op |-> [t \in Target |-> 0]]
        /\ seen = [o \in Op |-> {}]
     \/ \E t \in Target, state \in Dated \ {"success"} :
          /\ journal = [o \in Op |-> IF o = 1 THEN DatedOperation(t, state) ELSE None]
          /\ holds = [u \in Target |-> u \in Locks /\ u >= t]
          /\ LET out(u) == u = t /\ state = "retryable_failure"
             IN /\ air = [u \in Target |-> IF out(u) /\ u \in ZWaves THEN 1 ELSE 0]
                /\ sent = [o \in Op |-> [u \in Target |->
                            IF o = 1 /\ out(u) THEN 1 ELSE 0]]
          /\ seen = [o \in Op |-> IF o = 1 THEN 1..(t - 1) ELSE {}]

-----------------------------------------------------------------------------
(* Sessions and journal writes                                              *)

At(s, pc) == sess[s].pc = pc

Active == {o \in Op : journal[o] # None /\ Incomplete(journal[o])}

GoTo(s, pc) == sess' = [sess EXCEPT ![s] = [sess[s] EXCEPT !.pc = pc]]

\* An exception, or the return of the call.
End(s) == sess' = [sess EXCEPT ![s] = Idle]

\* Operation o is stored as op; session s goes on as new, and every other
\* session's copy of the operation is out of date.
StoreOperation(s, o, op, new) ==
  /\ journal' = [journal EXCEPT ![o] = op]
  /\ sess' = [r \in Session |->
                IF r = s THEN new
                ELSE IF sess[r].op = o THEN [sess[r] EXCEPT !.fresh = FALSE]
                ELSE sess[r]]

\* A checkpoint after which the session has the stored payload.  The session
\* ends if the write raises, and also if the observer called after it does.
Write(s, op, pc) ==
  LET new == [sess[s] EXCEPT !.pc = pc, !.payload = op.payload, !.fresh = TRUE,
                             !.answer = "none"]
  IN  \/ StoreOperation(s, sess[s].op, op, new)
      \/ StoreOperation(s, sess[s].op, op, Idle)
      \/ End(s) /\ UNCHANGED journal

Stored(s) == journal[sess[s].op]

\* _checkpoint_target
Checkpoint(s, payload, pc) == Write(s, Progressed(Stored(s), payload), pc)

\* _pause: the session ends in any case, and current_step stays as stored.
Pause(s, payload, retryable) ==
  \/ StoreOperation(s, sess[s].op,
       FailureRecorded(Stored(s), [payload EXCEPT !.done = Stored(s).payload.done],
                       retryable),
       Idle)
  \/ End(s) /\ UNCHANGED journal

Pending(s) == sess[s].payload.targets \ sess[s].payload.done

\* The target at current_step
AtTarget(s, t) == t \in Pending(s) /\ \A u \in Pending(s) : t <= u

StateOf(s, t) == sess[s].payload.state[t]

WithTarget(s, t, state) ==
  [sess[s].payload EXCEPT !.state = [sess[s].payload.state EXCEPT ![t] = state]]

-----------------------------------------------------------------------------
(* delete_person                                                            *)

\* PersonService.delete_person finds the person, then _active_operation runs.
BeginDeletion(s) ==
  /\ At(s, "idle")
  /\ person
  /\ GoTo(s, "lookup")
  /\ overlap' = (overlap \/ \E r \in Session \ {s} : ~At(r, "idle"))
  /\ UNCHANGED <<registry, devices, journal>>

\* Mutant of ActiveOperation: a failed operation is not resumed.
UnfailedOperation(s) ==
  /\ At(s, "lookup")
  /\ LET waiting == {o \in Active : journal[o].status # "failed"}
     IN \/ /\ waiting = {}
           /\ GoTo(s, "capture")
        \/ \E o \in waiting :
             /\ \A q \in waiting : o <= q
             /\ sess' = [sess EXCEPT ![s] =
                  [sess[s] EXCEPT !.pc = "normalize", !.op = o,
                                  !.payload = journal[o].payload, !.fresh = TRUE]]
  /\ UNCHANGED <<registry, devices, journal, overlap>>

\* The oldest incomplete operation of the person, a failed one included
ActiveOperation(s) ==
  /\ At(s, "lookup")
  /\ \/ /\ Active = {}
        /\ GoTo(s, "capture")
     \/ \E o \in Active :
          /\ \A q \in Active : o <= q
          /\ sess' = [sess EXCEPT ![s] =
               [sess[s] EXCEPT !.pc = "normalize", !.op = o,
                               !.payload = journal[o].payload, !.fresh = TRUE]]
  /\ UNCHANGED <<registry, devices, journal, overlap>>

\* Access with no metadata is not modelled: no service leaves a grant so.
CaptureTargets(s) ==
  /\ At(s, "capture")
  /\ sess' = [sess EXCEPT ![s] =
       IF person THEN [sess[s] EXCEPT !.pc = "create", !.payload = NewPayload(granted)]
       ELSE Idle]
  /\ UNCHANGED <<registry, devices, journal, overlap>>

\* Nothing removes an operation whose observer raised.
CreateOperation(s) ==
  /\ At(s, "create")
  /\ \/ \E o \in Op :
          /\ journal[o] = None
          /\ \A q \in Op : q < o => journal[q] # None
          /\ \E new \in {[sess[s] EXCEPT !.pc = "mark", !.op = o, !.fresh = TRUE], Idle} :
               StoreOperation(s, o, NewOperation(sess[s].payload), new)
     \/ End(s) /\ UNCHANGED journal
  /\ UNCHANGED <<registry, devices, overlap>>

\* What _normalize_incomplete_operation makes of a target without a result
Upgraded(state) ==
  CASE state = "success"           -> "removal_confirmed"
    [] state = "retryable_failure" -> "verification_pending"
    [] state = "pending"           -> "removal_not_requested"
    [] OTHER                       -> "verification_failed"

UpgradedState(payload, t) ==
  IF t \in payload.dated THEN Upgraded(payload.state[t]) ELSE payload.state[t]

\* The order of the list: done targets come before the others.
Before(payload, u, t) ==
  IF (u \in payload.done) = (t \in payload.done) THEN u < t ELSE u \in payload.done

\* The loop stops at the first target that is not confirmed: later ones keep
\* their old form.
Visited(payload) ==
  {t \in payload.targets :
     \A u \in payload.targets :
       Before(payload, u, t) => UpgradedState(payload, u) = "removal_confirmed"}

Normalized(payload) ==
  [targets |-> payload.targets,
   done    |-> {t \in Visited(payload) : UpgradedState(payload, t) = "removal_confirmed"},
   dated   |-> payload.dated \ Visited(payload),
   state   |-> [t \in Target |-> IF t \in Visited(payload) THEN UpgradedState(payload, t)
                                 ELSE payload.state[t]]]

NormalizeOperation(s) ==
  /\ At(s, "normalize")
  /\ LET payload == sess[s].payload
     IN IF payload.dated \cap Visited(payload) = {}
        THEN GoTo(s, "mark") /\ UNCHANGED journal
        ELSE Write(s, [Stored(s) EXCEPT !.payload = Normalized(payload)], "mark")
  /\ UNCHANGED <<registry, devices, overlap>>

\* The session takes over the stored payload as its copy.
MarkRunning(s) ==
  /\ At(s, "mark")
  /\ Write(s, MarkedRunning(Stored(s)), "targets")
  /\ UNCHANGED <<registry, devices, overlap>>

-----------------------------------------------------------------------------
(* _process_target                                                          *)

\* A Nuki has no driver while none is configured.
NoDriver(s, t) ==
  /\ At(s, "targets") /\ AtTarget(s, t)
  /\ StateOf(s, t) \in {"removal_not_requested", "removal_request_rejected"}
  /\ t \in Nukis
  /\ Pause(s, WithTarget(s, t, "verification_failed"), FALSE)
  /\ UNCHANGED <<registry, devices, overlap>>

IntendRemoval(s, t) ==
  /\ At(s, "targets") /\ AtTarget(s, t)
  /\ StateOf(s, t) \in {"removal_not_requested", "removal_request_rejected"}
  /\ Checkpoint(s, WithTarget(s, t, "removal_requesting"), "request")
  /\ UNCHANGED <<registry, devices, overlap>>

More(n) == IF n < 2 THEN n + 1 ELSE n

Answer(s, pc, a) == sess' = [sess EXCEPT ![s] = [sess[s] EXCEPT !.pc = pc, !.answer = a]]

Send(s, t) ==
  sent' = [sent EXCEPT ![sess[s].op] = [sent[sess[s].op] EXCEPT ![t] = More(@)]]

\* The driver's answer; accepted and ambiguous are handled alike.  Z-Wave rejects
\* before it sends anything, and an ambiguous clear may not have been sent.  A
\* Nuki command has been carried out, or never will be, when the connection is
\* closed, whatever the answer.  A keypad has nothing to clear.
RequestRemoval(s, t) ==
  /\ At(s, "request") /\ AtTarget(s, t)
  /\ \/ /\ t \in ZWaves
        /\ air' = [air EXCEPT ![t] = More(@)]
        /\ Send(s, t)
        /\ Answer(s, "answered", "taken")
        /\ UNCHANGED holds
     \/ /\ t \in Nukis
        /\ holds' = [holds EXCEPT ![t] = FALSE]
        /\ Send(s, t)
        /\ \E a \in {"taken", "rejected"} : Answer(s, "answered", a)
        /\ UNCHANGED air
     \/ /\ \E a \in IF t \in Locks THEN {"taken", "rejected"} ELSE {"taken"} :
             Answer(s, "answered", a)
        /\ UNCHANGED <<holds, air, sent>>
  /\ UNCHANGED <<registry, journal, seen, overlap>>

RecordAnswer(s, t) ==
  /\ At(s, "answered") /\ AtTarget(s, t)
  /\ \/ /\ sess[s].answer = "rejected"
        /\ Pause(s, WithTarget(s, t, "removal_request_rejected"), TRUE)
     \/ /\ sess[s].answer = "taken"
        /\ Checkpoint(s, WithTarget(s, t, "removal_requested"), "targets")
  /\ UNCHANGED <<registry, devices, overlap>>

\* Mutant of AssumeRequested: an unknown outcome is requested again.
RequestAgain(s, t) ==
  /\ At(s, "targets") /\ AtTarget(s, t)
  /\ StateOf(s, t) \in {"removal_requesting", "removal_requested"}
  /\ Checkpoint(s, WithTarget(s, t, IF StateOf(s, t) = "removal_requesting"
                                    THEN "removal_not_requested"
                                    ELSE "verification_pending"), "targets")
  /\ UNCHANGED <<registry, devices, overlap>>

\* A stored removal_requesting means that the outcome was never recorded: the
\* clear counts as sent.
AssumeRequested(s, t) ==
  /\ At(s, "targets") /\ AtTarget(s, t)
  /\ StateOf(s, t) \in {"removal_requesting", "removal_requested"}
  /\ Checkpoint(s, WithTarget(s, t, "verification_pending"), "targets")
  /\ UNCHANGED <<registry, devices, overlap>>

\* Requested earlier, whether or not the clear was ever carried out, or in the
\* form of an earlier version
ToVerify ==
  {"verification_pending", "verification_failed", "removal_confirmed"} \cup Dated

\* A lock is only read, never cleared again.  A Nuki does not tell a code that
\* is still there from a failed reading.
VerifyRemoval(s, t) ==
  /\ At(s, "targets") /\ AtTarget(s, t)
  /\ StateOf(s, t) \in ToVerify
  /\ \/ /\ ~holds[t]
        /\ Answer(s, "verified", "removed")
        /\ seen' = [seen EXCEPT ![sess[s].op] = @ \cup {t}]
     \/ /\ \/ t \in ZWaves /\ holds[t] /\ Answer(s, "verified", "present")
           \/ t \in Locks /\ Answer(s, "verified", "unknown")
           \/ t \in Nukis /\ Answer(s, "verified", "unsupported")
        /\ UNCHANGED seen
  /\ UNCHANGED <<registry, holds, air, sent, journal, overlap>>

Confirmed(s, t) ==
  [WithTarget(s, t, "removal_confirmed") EXCEPT !.done = sess[s].payload.done \cup {t}]

\* Mutant of RecordVerification: a lock that could not be read is passed over.
PassOver(s, t) ==
  /\ At(s, "verified") /\ AtTarget(s, t)
  /\ \/ /\ sess[s].answer \in {"removed", "unknown"}
        /\ Write(s, Checkpointed(Confirmed(s, t)), "targets")
     \/ /\ sess[s].answer \in {"present", "unsupported"}
        /\ Pause(s, WithTarget(s, t, "verification_failed"), FALSE)
  /\ UNCHANGED <<registry, devices, overlap>>

\* Only success resets the retry count.
RecordVerification(s, t) ==
  /\ At(s, "verified") /\ AtTarget(s, t)
  /\ \/ /\ sess[s].answer = "removed"
        /\ Write(s, Checkpointed(Confirmed(s, t)), "targets")
     \/ /\ sess[s].answer = "unknown"
        /\ Pause(s, WithTarget(s, t, "verification_pending"), TRUE)
     \/ /\ sess[s].answer = "present"
        /\ Pause(s, WithTarget(s, t, "verification_failed"), TRUE)
     \/ /\ sess[s].answer = "unsupported"
        /\ Pause(s, WithTarget(s, t, "verification_failed"), FALSE)
  /\ UNCHANGED <<registry, devices, overlap>>

-----------------------------------------------------------------------------
(* _finalize                                                                *)

\* Mutant of BeforeDelete: a failure of the hook is ignored.
BeforeDeleteBestEffort(s) ==
  /\ At(s, "targets") /\ Pending(s) = {}
  /\ nfc' \in {nfc, FALSE} /\ GoTo(s, "commit")
  /\ UNCHANGED <<person, granted, secret, edits, devices, journal, overlap>>

\* before_delete: passkeys are disabled and NFC grants revoked, in a file of
\* their own.  If it raises the operation stays as it is.
BeforeDelete(s) ==
  /\ At(s, "targets") /\ Pending(s) = {}
  /\ \/ nfc' = FALSE /\ GoTo(s, "commit")
     \/ nfc' = nfc /\ End(s)
  /\ UNCHANGED <<person, granted, secret, edits, devices, journal, overlap>>

\* Mutant of Unchanged: access that was granted meanwhile goes unnoticed.
StillGranted(s) == sess[s].payload.targets \subseteq granted

\* The access of the person is what the operation has removed.
Unchanged(s) == sess[s].payload.targets = granted

Expanded(s) ==
  LET new == granted \ sess[s].payload.targets
      old == sess[s].payload
  IN [targets |-> old.targets \cup new, done |-> old.done, dated |-> old.dated,
      state |-> [t \in Target |-> IF t \in new THEN "removal_not_requested"
                                  ELSE old.state[t]]]

\* One storage transaction, and the operation must be the session's own copy.
\* Either the person, the grants and the metadata go and the operation is
\* complete, or access has changed and new targets are added, or it raises:
\* the operation is out of date, the person is gone already, the save failed.
FinalizeDeletion(s) ==
  /\ At(s, "commit")
  /\ \/ /\ sess[s].fresh /\ person /\ Unchanged(s)
        /\ person' = FALSE
        /\ granted' = {}
        /\ StoreOperation(s, sess[s].op, [Stored(s) EXCEPT !.status = "completed"],
                          [sess[s] EXCEPT !.pc = "observe"])
     \/ /\ sess[s].fresh /\ ~Unchanged(s)
        /\ StoreOperation(s, sess[s].op,
             [Stored(s) EXCEPT !.status = "waiting_retry", !.payload = Expanded(s)], Idle)
        /\ UNCHANGED <<person, granted>>
     \/ /\ End(s)
        /\ UNCHANGED <<person, granted, journal>>
  /\ UNCHANGED <<nfc, secret, edits, devices, overlap>>

\* lifecycle_changed may raise; then the PIN stays in the vault for good.
Observe(s) ==
  /\ At(s, "observe")
  /\ \/ GoTo(s, "cleanup") \/ End(s)
  /\ UNCHANGED <<registry, devices, journal, overlap>>

\* _delete_unshared_vault_credentials: nothing refers to the PIN any more.  A
\* failure is ignored.
DeleteSecret(s) ==
  /\ At(s, "cleanup")
  /\ secret' \in {secret, FALSE}
  /\ End(s)
  /\ UNCHANGED <<person, granted, nfc, edits, devices, journal, overlap>>

-----------------------------------------------------------------------------
(* The world around the service                                             *)

\* A lock carries out a clear, however late; it may never.
Deliver(t) ==
  /\ air[t] > 0
  /\ holds' = [holds EXCEPT ![t] = FALSE]
  /\ air' = [air EXCEPT ![t] = @ - 1]
  /\ UNCHANGED <<registry, sent, seen, journal, sess, overlap>>

Edit == person /\ edits < MaxEdits /\ edits' = edits + 1

\* Access management programs a lock and records the access, or verifies that
\* the code is gone and forgets it; its own steps are not modelled here.
GiveAccess(t) ==
  /\ Edit
  /\ t \notin granted
  /\ granted' = granted \cup {t}
  /\ holds' = [holds EXCEPT ![t] = t \in Locks]
  /\ UNCHANGED <<person, nfc, secret, air, sent, seen, journal, sess, overlap>>

TakeAccess(t) ==
  /\ Edit
  /\ t \in granted
  /\ granted' = granted \ {t}
  /\ holds' = [holds EXCEPT ![t] = FALSE]
  /\ UNCHANGED <<person, nfc, secret, air, sent, seen, journal, sess, overlap>>

\* Credential replacement writes a new PIN into the slot, empty or not; it does
\* not look for a deletion under way.  A Nuki updates only what it still has.
ReplacePin(t) ==
  /\ Edit
  /\ t \in granted \cap ZWaves
  /\ holds' = [holds EXCEPT ![t] = TRUE]
  /\ UNCHANGED <<person, granted, nfc, secret, air, sent, seen, journal, sess, overlap>>

\* The person enrols a phone.
EnrolPasskey ==
  /\ Edit
  /\ nfc' = TRUE
  /\ UNCHANGED <<person, granted, secret, devices, journal, sess, overlap>>

\* The process ends.  Nothing resumes a deletion by itself.
Crash ==
  /\ sess' = [s \in Session |-> Idle]
  /\ UNCHANGED <<registry, devices, journal, overlap>>

TargetStep(s) ==
  \E t \in Target :
    \/ NoDriver(s, t) \/ IntendRemoval(s, t) \/ RequestRemoval(s, t)
    \/ RecordAnswer(s, t) \/ AssumeRequested(s, t)
    \/ VerifyRemoval(s, t) \/ RecordVerification(s, t)

SessionStep(s) ==
  \/ ActiveOperation(s) \/ CaptureTargets(s) \/ CreateOperation(s)
  \/ NormalizeOperation(s) \/ MarkRunning(s) \/ TargetStep(s)
  \/ BeforeDelete(s) \/ FinalizeDeletion(s) \/ Observe(s) \/ DeleteSecret(s)

Others ==
  \/ \E t \in Target : GiveAccess(t) \/ TakeAccess(t) \/ ReplacePin(t)
  \/ EnrolPasskey

Next ==
  \/ \E s \in Session : BeginDeletion(s) \/ SessionStep(s)
  \/ \E t \in Target : Deliver(t)
  \/ Others \/ Crash

Spec == Init /\ [][Next]_vars

-----------------------------------------------------------------------------
(* Properties                                                               *)

\* "Remove device credentials before finalizing local Person deletion"
\* (PersonDeletionService): once the person is gone no lock has the code.
DeviceFirst == ~person => \A t \in Locks : ~holds[t]

\* The same, where no other service touches the person's access meanwhile,
\* however many calls delete the person at once and wherever they end.
DeviceFirstUndisturbed == edits = 0 => DeviceFirst

\* Whatever other services and calls do, the person goes only in a step that
\* completes an operation which saw each access point of the person empty.
RemovedOnlyIfConfirmed ==
  [][person /\ ~person' =>
       \E o \in Op : /\ journal[o] # None /\ journal[o].status # "completed"
                     /\ journal'[o].status = "completed"
                     /\ granted \subseteq seen[o]]_vars

\* A deletion clears the code of a Z-Wave lock at most once, whenever its calls
\* end and however often it is retried, unless two calls overlap.
ClearedOnce ==
  ~overlap => \A o \in Op, t \in ZWaves : sent[o][t] <= 1

\* When the person is gone and the slots are free for others, no clear is still
\* under way that could erase the code of whoever gets the slot next.
ClearsSettled ==
  ~person /\ ~overlap /\ edits = 0 => \A t \in Target : air[t] = 0

\* A person that is gone leaves no operation behind, which nothing could resume.
NothingLeftBehind == ~person /\ ~overlap => Active = {}

\* The PIN leaves the vault only when its person has gone, and then no passkey
\* or NFC grant of that person is left unless it was made during the deletion.
AuthorityGoesInOrder ==
  /\ person => secret
  /\ ~person /\ edits = 0 => ~nfc

=============================================================================
