------------------------ MODULE CredentialReplacement ------------------------
(***************************************************************************)
(* Replacing one person's PIN on every lock that holds it:                 *)
(* CredentialReplacementLifecycleService (services/                        *)
(* credential_replacement.py) over the vault, the lifecycle journal, the   *)
(* access registry and the locks.                                          *)
(*                                                                         *)
(* A Session is one running call of replace_pin or retry_pin.  The         *)
(* WebSocket handlers that start them take no lock, so sessions interleave *)
(* at every await; an action here is what runs from one await to the next. *)
(* A session keeps its own copy of the operation's payload and writes it   *)
(* back whole.  The new PIN is staged in the vault, sent to each lock over *)
(* the air, read back, promoted to be the authoritative PIN, and only then *)
(* recorded in the access registry.                                        *)
(*                                                                         *)
(* The vault and the journal are modelled by what is on disk: neither      *)
(* publishes a change it did not save (CredentialVault shows it for the    *)
(* vault), so the end of the process loses only the sessions.              *)
(***************************************************************************)
EXTENDS Naturals, FiniteSets

CONSTANTS
  Session,          \* concurrent service calls
  Targets,          \* number of access points that hold the person's PIN
  Keypads,          \* those of 1..Targets with the HomePASS keypad driver
  Nukis,            \* those with the Nuki driver; the others are Z-Wave locks
  MaxReplacements,  \* bound: replacements (staged secrets) ever begun
  MaxEdits,         \* bound: edits of the registry by other services
  MaxRetries,       \* retries before a pause is a failure
  Pin, FirstPin,    \* PINs, and the one in use at the start
  None

Target == 1..Targets
Locks  == Target \ Keypads
ZWaves == Locks \ Nukis

\* Staged secret handles, numbered in the order they are made.  The lifecycle
\* operation of a replacement is known by its handle.
Handle == 1..MaxReplacements

\* The vault as this service sees it: the one credential of the person.
Cred       == "credential"
Credential == {Cred}
Envelope   == Pin

INSTANCE VaultData
INSTANCE LifecycleJournal

VARIABLES
  vault,     \* the encrypted envelope repository
  journal,   \* the lifecycle operation of each handle, None if there is none
  registry,  \* the person, its access grants and metadata
  slot,      \* the PIN each lock really holds in the person's slot
  air,       \* commands sent to a lock and not carried out, per lock and PIN
  sess,      \* the running service calls
  minted,    \* handles made so far
  sent,      \* history: commands sent per handle and target (2 stands for more)
  seen       \* history: targets on which the handle's PIN was read back

vars == <<vault, journal, registry, slot, air, sess, minted, sent, seen>>

Phase == {"staged", "intent_persisted", "verification_confirmed",
          "promotion_pending", "vault_promoted", "completed"}

TargetState == {"request_not_started", "request_dispatching", "request_rejected",
                "unsupported", "verification_pending", "confirmed"}

\* LifecycleOperation.payload.  version stands for every updated_at the
\* service captures (person, grants, metadata): any edit changes one of them.
Payload ==
  [phase : Phase, target : [Target -> TargetState], resumable : BOOLEAN,
   version : Nat, expected : Nat, promoted : Nat]

ASSUME Assumptions ==
  /\ Targets \in Nat \ {0}
  /\ Keypads \subseteq 1..Targets /\ Nukis \subseteq (1..Targets) \ Keypads
  /\ MaxReplacements \in Nat /\ MaxEdits \in Nat /\ MaxRetries \in Nat
  /\ FirstPin \in Pin
  /\ None \notin Pin \cup Handle
  /\ None \notin StagedSecret /\ None \notin PromotionReceipt
  /\ None \notin Operation(Payload)

NoPayload ==
  [phase |-> "staged", target |-> [t \in Target |-> "request_not_started"],
   resumable |-> TRUE, version |-> 0, expected |-> 0, promoted |-> 0]

Control ==
  {"idle", "capture", "revision", "stage", "create", "discard", "intent",
   "load", "mark", "targets", "intend", "request", "answered", "verified",
   "revalidate", "intend_promotion", "promote", "record_promotion",
   "finalize", "commit", "pause", "stale"}

\* fresh: the stored operation still has the updated_at of the session's copy.
Sessions ==
  [pc : Control, h : Handle \cup {None}, payload : Payload, fresh : BOOLEAN,
   answer : {"none", "taken", "rejected", "unsupported", "confirmed", "unconfirmed"}]

Idle == [pc |-> "idle", h |-> None, payload |-> NoPayload, fresh |-> FALSE,
         answer |-> "none"]

TypeOK ==
  /\ vault \in EnvelopeState
  /\ journal \in [Handle -> Operation(Payload) \cup {None}]
  /\ registry \in [version : Nat, edits : 0..MaxEdits, rev : [Target -> Nat]]
  /\ slot \in [Target -> Pin]
  /\ air \in [Target -> [Pin -> 0..2]]
  /\ sess \in [Session -> Sessions]
  /\ minted \in 0..MaxReplacements
  /\ sent \in [Handle -> [Target -> 0..2]]
  /\ seen \in [Handle -> SUBSET Target]

Init ==
  /\ vault = StoreEnvelope(EmptyState, Cred, FirstPin)
  /\ journal = [h \in Handle |-> None]
  /\ registry = [version |-> 0, edits |-> 0, rev |-> [t \in Target |-> 1]]
  /\ slot = [t \in Target |-> FirstPin]
  /\ air = [t \in Target |-> [p \in Pin |-> 0]]
  /\ sess = [s \in Session |-> Idle]
  /\ minted = 0
  /\ sent = [h \in Handle |-> [t \in Target |-> 0]]
  /\ seen = [h \in Handle |-> {}]

-----------------------------------------------------------------------------
(* Sessions and journal writes                                              *)

At(s, pc) == sess[s].pc = pc

Operations == {h \in Handle : journal[h] # None}

Active == {h \in Operations : Incomplete(journal[h])}

GoTo(s, pc) == sess' = [sess EXCEPT ![s] = [sess[s] EXCEPT !.pc = pc]]

\* An exception, or the return of the call.
End(s) == sess' = [sess EXCEPT ![s] = Idle]

\* The operation of session s is stored as op; s goes on as new, and every
\* other session's copy of the operation is out of date.
StoreOperation(s, op, new) ==
  /\ journal' = [journal EXCEPT ![sess[s].h] = op]
  /\ sess' = [r \in Session |->
                IF r = s THEN new
                ELSE IF sess[r].h = sess[s].h THEN [sess[r] EXCEPT !.fresh = FALSE]
                ELSE sess[r]]

\* _checkpoint and _checkpoint_targets.  The session ends if the write raises,
\* and also if the observer called after the write does.
Checkpoint(s, payload, pc) ==
  LET op  == Checkpointed(payload)
      new == [sess[s] EXCEPT !.pc = pc, !.payload = payload, !.fresh = TRUE,
                             !.answer = "none"]
  IN  \/ StoreOperation(s, op, new)
      \/ StoreOperation(s, op, Idle)
      \/ End(s) /\ UNCHANGED journal

\* _pause, _pause_operation and _pause_stale: the session ends in any case.
Pause(s, payload, retryable) ==
  \/ StoreOperation(s,
       FailureRecorded(journal[sess[s].h],
                       [payload EXCEPT !.resumable = retryable], retryable),
       Idle)
  \/ End(s) /\ UNCHANGED journal

WithPhase(s, phase) == [sess[s].payload EXCEPT !.phase = phase]

WithTarget(s, t, state) ==
  [sess[s].payload EXCEPT !.target = [sess[s].payload.target EXCEPT ![t] = state]]

\* The target the loop of _resume_targets is at: the first not yet confirmed.
Unconfirmed(s) == {t \in Target : sess[s].payload.target[t] # "confirmed"}

AtTarget(s, t) ==
  /\ t \in Unconfirmed(s)
  /\ \A u \in Unconfirmed(s) : t <= u

StateOf(s, t) == sess[s].payload.target[t]

world == <<registry, slot, air, minted, sent, seen>>

-----------------------------------------------------------------------------
(* replace_pin                                                              *)

\* No operation of the person is incomplete.
BeginReplace(s) ==
  /\ At(s, "idle")
  /\ minted < MaxReplacements
  /\ Active = {}
  /\ GoTo(s, "capture")
  /\ UNCHANGED <<vault, journal, world>>

\* _capture_context loads the registry here, and the vault's revision later.
CaptureRegistry(s) ==
  /\ At(s, "capture")
  /\ sess' = [sess EXCEPT ![s] =
       [sess[s] EXCEPT !.pc = "revision",
                       !.payload = [sess[s].payload EXCEPT !.version = registry.version]]]
  /\ UNCHANGED <<vault, journal, world>>

\* _verify_current_credential: where the metadata has another revision than the
\* vault, the lock must read back the authoritative PIN.
HoldsAuthority(t) == t \in Keypads \/ slot[t] = vault.env[Cred]

CaptureRevision(s) ==
  /\ At(s, "revision")
  /\ \/ /\ \A t \in Target : registry.rev[t] # vault.rev[Cred] => HoldsAuthority(t)
        /\ sess' = [sess EXCEPT ![s] =
             [sess[s] EXCEPT !.pc = "stage",
                             !.payload = [sess[s].payload EXCEPT !.expected = vault.rev[Cred]]]]
     \/ End(s)     \* not so, or it could not be read
  /\ UNCHANGED <<vault, journal, world>>

\* The new PIN must differ from the authoritative one.  The vault takes one
\* stage per credential and notes its own revision, not the captured one.
StagePin(s, p) ==
  /\ At(s, "stage")
  /\ p # vault.env[Cred]
  /\ LET h == minted + 1
     IN \/ /\ h \in Handle
           /\ CanStage(vault, h, Cred, vault.rev[Cred])
           /\ vault' = Stage(vault, h, Cred, vault.rev[Cred], p)
           /\ minted' = h
           /\ sess' = [sess EXCEPT ![s] = [sess[s] EXCEPT !.pc = "create", !.h = h]]
        \/ /\ End(s)
           /\ UNCHANGED <<vault, minted>>
  /\ UNCHANGED <<journal, registry, slot, air, sent, seen>>

\* lifecycle_manager.create stores the operation and then calls the observer;
\* an exception of either makes replace_pin discard the stage.
CreateOperation(s) ==
  /\ At(s, "create")
  /\ LET op == NewOperation(sess[s].payload)
     IN \/ StoreOperation(s, op, [sess[s] EXCEPT !.pc = "intent", !.fresh = TRUE])
        \/ StoreOperation(s, op, [sess[s] EXCEPT !.pc = "discard"])
        \/ GoTo(s, "discard") /\ UNCHANGED journal
  /\ UNCHANGED <<vault, world>>

DiscardStage(s) ==
  /\ At(s, "discard")
  /\ vault' \in {vault, Discard(vault, sess[s].h)}
  /\ End(s)
  /\ UNCHANGED <<journal, world>>

PersistIntent(s) ==
  /\ At(s, "intent")
  /\ Checkpoint(s, WithPhase(s, "intent_persisted"), "load")
  /\ UNCHANGED <<vault, world>>

-----------------------------------------------------------------------------
(* retry_pin and resume                                                     *)

\* The oldest incomplete operation, if it may be resumed.
BeginRetry(s) ==
  /\ At(s, "idle")
  /\ \E h \in Active :
       /\ \A g \in Active : h <= g
       /\ journal[h].payload.resumable
       /\ sess' = [sess EXCEPT ![s] = [Idle EXCEPT !.pc = "load", !.h = h]]
  /\ UNCHANGED <<vault, journal, world>>

LoadOperation(s) ==
  /\ At(s, "load")
  /\ LET op == journal[sess[s].h]
     IN  IF \/ op.status = "completed"
            \/ op.status = "failed" /\ ~op.payload.resumable
         THEN End(s)
         ELSE GoTo(s, "mark")
  /\ UNCHANGED <<vault, journal, world>>

\* Mutant: whatever was begun resumes at the promotion.
EntryPointAfterIntent(phase) ==
  CASE phase = "vault_promoted" -> "finalize"
    [] phase = "staged"         -> "targets"
    [] OTHER                    -> "promote"

EntryPoint(phase) ==
  CASE phase = "promotion_pending" -> "promote"
    [] phase = "vault_promoted"    -> "finalize"
    [] OTHER                       -> "targets"

\* The session takes over the stored payload as its copy.
MarkRunning(s) ==
  /\ At(s, "mark")
  /\ LET op  == journal[sess[s].h]
         new == [sess[s] EXCEPT !.pc = EntryPoint(op.payload.phase),
                                !.payload = op.payload, !.fresh = TRUE]
     IN  \/ StoreOperation(s, MarkedRunning(op), new)
         \/ StoreOperation(s, MarkedRunning(op), Idle)
         \/ End(s) /\ UNCHANGED journal
  /\ UNCHANGED <<vault, world>>

-----------------------------------------------------------------------------
(* _resume_targets                                                          *)

\* _validate_snapshot and the vault's revision, against what was captured.
Current(s) ==
  /\ registry.version = sess[s].payload.version
  /\ vault.rev[Cred] = sess[s].payload.expected

\* Mutant of AssumeDispatched: the request is made again.
RequestAgain(s, t) ==
  /\ At(s, "targets") /\ AtTarget(s, t)
  /\ StateOf(s, t) = "request_dispatching"
  /\ Checkpoint(s, WithTarget(s, t, "request_not_started"), "targets")
  /\ UNCHANGED <<vault, world>>

\* A stored request_dispatching means that its outcome was never recorded.
AssumeDispatched(s, t) ==
  /\ At(s, "targets") /\ AtTarget(s, t)
  /\ StateOf(s, t) = "request_dispatching"
  /\ Checkpoint(s, WithTarget(s, t, "verification_pending"), "targets")
  /\ UNCHANGED <<vault, world>>

RevalidateTarget(s, t) ==
  /\ At(s, "targets") /\ AtTarget(s, t)
  /\ StateOf(s, t) \in {"request_not_started", "request_rejected"}
  /\ GoTo(s, IF Current(s) THEN "intend" ELSE "stale")
  /\ UNCHANGED <<vault, journal, world>>

IntendRequest(s, t) ==
  /\ At(s, "intend") /\ AtTarget(s, t)
  /\ Checkpoint(s, WithTarget(s, t, "request_dispatching"), "request")
  /\ UNCHANGED <<vault, world>>

Staged(s) == vault.staged[sess[s].h] # None

StagedPin(s) == vault.staged[sess[s].h].env

More(n) == IF n < 2 THEN n + 1 ELSE n

Answer(s, pc, a) == sess' = [sess EXCEPT ![s] = [sess[s] EXCEPT !.pc = pc, !.answer = a]]

Send(s, t) ==
  sent' = [sent EXCEPT ![sess[s].h] = [sent[sess[s].h] EXCEPT ![t] = More(@)]]

\* The driver's answer; accepted and ambiguous are handled alike.  Z-Wave rejects
\* and finds unsupported before it sends anything.  A Nuki Bluetooth command has
\* been carried out, or never will be, when the connection is closed; one whose
\* response is lost after it was carried out is answered as rejected too.
RequestReplacement(s, t) ==
  /\ At(s, "request") /\ AtTarget(s, t)
  /\ \/ /\ Staged(s) /\ t \in ZWaves
        /\ air' = [air EXCEPT ![t] = [air[t] EXCEPT ![StagedPin(s)] = More(@)]]
        /\ Send(s, t)
        /\ Answer(s, "answered", "taken")
        /\ UNCHANGED slot
     \/ /\ Staged(s) /\ t \in Nukis
        /\ slot' = [slot EXCEPT ![t] = StagedPin(s)]
        /\ Send(s, t)
        /\ \E a \in {"taken", "rejected"} : Answer(s, "answered", a)
        /\ UNCHANGED air
     \/ /\ Staged(s)
        /\ Answer(s, "answered", "taken")
        /\ UNCHANGED <<slot, air, sent>>
     \/ /\ Staged(s) /\ t \in Locks
        /\ Answer(s, "answered", "rejected")
        /\ UNCHANGED <<slot, air, sent>>
     \/ /\ Answer(s, "answered", "unsupported")
        /\ UNCHANGED <<slot, air, sent>>
     \/ /\ ~Staged(s)
        /\ End(s)
        /\ UNCHANGED <<slot, air, sent>>
  /\ UNCHANGED <<vault, journal, registry, minted, seen>>

RecordAnswer(s, t) ==
  /\ At(s, "answered") /\ AtTarget(s, t)
  /\ \/ /\ sess[s].answer = "rejected"
        /\ Pause(s, WithTarget(s, t, "request_rejected"), TRUE)
     \/ /\ sess[s].answer = "unsupported"
        /\ Pause(s, WithTarget(s, t, "unsupported"), FALSE)
     \/ /\ sess[s].answer = "taken"
        /\ Checkpoint(s, WithTarget(s, t, "verification_pending"), "targets")
  /\ UNCHANGED <<vault, world>>

\* async_verify_credential_replacement never confirms a PIN the lock does not
\* read back; a keypad has nothing to read and confirms.
ReadsBack(t, p) == t \in Keypads \/ slot[t] = p

ReadBack(s, t) ==
  /\ At(s, "targets") /\ AtTarget(s, t)
  /\ StateOf(s, t) \in {"verification_pending", "unsupported"}
  /\ \/ /\ Staged(s) /\ ReadsBack(t, StagedPin(s))
        /\ Answer(s, "verified", "confirmed")
        /\ seen' = [seen EXCEPT ![sess[s].h] = @ \cup {t}]
     \/ /\ Staged(s) /\ t \in Locks
        /\ Answer(s, "verified", "unconfirmed")
        /\ UNCHANGED seen
     \/ /\ Answer(s, "verified", "unsupported")
        /\ UNCHANGED seen
     \/ /\ ~Staged(s)
        /\ End(s)
        /\ UNCHANGED seen
  /\ UNCHANGED <<vault, journal, registry, slot, air, minted, sent>>

\* Mutant of RecordReadBack: an unconfirmed lock is read again at once.
PollForever(s, t) ==
  /\ At(s, "verified") /\ AtTarget(s, t)
  /\ \/ /\ sess[s].answer = "confirmed"
        /\ Checkpoint(s, WithTarget(s, t, "confirmed"), "targets")
     \/ /\ sess[s].answer = "unconfirmed"
        /\ GoTo(s, "targets") /\ UNCHANGED journal
     \/ /\ sess[s].answer = "unsupported"
        /\ Pause(s, WithTarget(s, t, "unsupported"), FALSE)
  /\ UNCHANGED <<vault, world>>

\* A permanent failure is not retryable either and is counted as unsupported.
RecordReadBack(s, t) ==
  /\ At(s, "verified") /\ AtTarget(s, t)
  /\ \/ /\ sess[s].answer = "confirmed"
        /\ Checkpoint(s, WithTarget(s, t, "confirmed"), "targets")
     \/ /\ sess[s].answer = "unconfirmed"
        /\ Pause(s, WithTarget(s, t, "verification_pending"), TRUE)
     \/ /\ sess[s].answer = "unsupported"
        /\ Pause(s, WithTarget(s, t, "unsupported"), FALSE)
  /\ UNCHANGED <<vault, world>>

FinishTargets(s) ==
  /\ At(s, "targets") /\ Unconfirmed(s) = {}
  /\ Checkpoint(s, WithPhase(s, "verification_confirmed"), "revalidate")
  /\ UNCHANGED <<vault, world>>

-----------------------------------------------------------------------------
(* Promotion and finalization                                               *)

RevalidatePromotion(s) ==
  /\ At(s, "revalidate")
  /\ GoTo(s, IF Current(s) THEN "intend_promotion" ELSE "stale")
  /\ UNCHANGED <<vault, journal, world>>

IntendPromotion(s) ==
  /\ At(s, "intend_promotion")
  /\ Checkpoint(s, WithPhase(s, "promotion_pending"), "promote")
  /\ UNCHANGED <<vault, world>>

\* _promote: the receipt, of an earlier promotion or of this one, must be for
\* the revision after the captured one.
PromotePin(s) ==
  /\ At(s, "promote")
  /\ LET h == sess[s].h
         next == sess[s].payload.expected + 1
         Receipt(r) == GoTo(s, IF r = next THEN "record_promotion" ELSE "stale")
     IN \/ /\ AlreadyPromoted(vault, h)
           /\ Receipt(vault.receipts[h].rev)
           /\ UNCHANGED vault
        \/ /\ CanPromote(vault, h)
           /\ Receipt(vault.staged[h].expected + 1)
           /\ vault' = Promote(vault, h, vault.staged[h].env)
        \/ /\ GoTo(s, "pause")
           /\ UNCHANGED vault
  /\ UNCHANGED <<journal, world>>

\* receipt.revision has been checked to be the revision after the captured one.
RecordPromotion(s) ==
  /\ At(s, "record_promotion")
  /\ Checkpoint(s, [WithPhase(s, "vault_promoted") EXCEPT
                      !.promoted = sess[s].payload.expected + 1], "finalize")
  /\ UNCHANGED <<vault, world>>

FinalizeCheck(s) ==
  /\ At(s, "finalize")
  /\ GoTo(s, IF vault.rev[Cred] = sess[s].payload.promoted THEN "commit" ELSE "stale")
  /\ UNCHANGED <<vault, journal, world>>

\* Mutant of FinalRevision: the registry gets the revision after it.
FinalRevisionAhead(s) == sess[s].payload.promoted + 1

FinalRevision(s) == sess[s].payload.promoted

\* One storage transaction: the operation is the session's own copy, the
\* registry is as captured, and both are written together or not at all.
FinalizeCommit(s) ==
  /\ At(s, "commit")
  /\ LET valid == sess[s].fresh /\ registry.version = sess[s].payload.version
     IN \/ /\ valid
           /\ registry' = [registry EXCEPT
                !.version = registry.version + 1,
                !.rev = [t \in Target |-> FinalRevision(s)]]
           /\ StoreOperation(s,
                [status |-> "completed", retries |-> 0,
                 payload |-> [WithPhase(s, "completed") EXCEPT !.resumable = FALSE]],
                Idle)
        \/ /\ GoTo(s, IF valid THEN "pause" ELSE "stale")
           /\ UNCHANGED <<registry, journal>>
  /\ UNCHANGED <<vault, slot, air, minted, sent, seen>>

PauseRetryable(s) ==
  /\ At(s, "pause")
  /\ Pause(s, sess[s].payload, TRUE)
  /\ UNCHANGED <<vault, world>>

PauseStale(s) ==
  /\ At(s, "stale")
  /\ Pause(s, sess[s].payload, FALSE)
  /\ UNCHANGED <<vault, world>>

-----------------------------------------------------------------------------
(* The world around the service                                             *)

\* A lock carries out a command, in any order and however late; it may never.
Deliver(t, p) ==
  /\ air[t][p] > 0
  /\ slot' = [slot EXCEPT ![t] = p]
  /\ air' = [air EXCEPT ![t] = [air[t] EXCEPT ![p] = @ - 1]]
  /\ UNCHANGED <<vault, journal, registry, sess, minted, sent, seen>>

\* Another service writes the person, a grant or the metadata.
EditRegistry ==
  /\ registry.edits < MaxEdits
  /\ registry' = [registry EXCEPT !.version = registry.version + 1,
                                  !.edits = registry.edits + 1]
  /\ UNCHANGED <<vault, journal, slot, air, sess, minted, sent, seen>>

\* The process ends; nothing resumes an operation by itself at the next start.
Crash ==
  /\ sess' = [s \in Session |-> Idle]
  /\ UNCHANGED <<vault, journal, world>>

TargetStep(s) ==
  \E t \in Target :
    \/ AssumeDispatched(s, t) \/ RevalidateTarget(s, t) \/ IntendRequest(s, t)
    \/ RequestReplacement(s, t) \/ RecordAnswer(s, t)
    \/ ReadBack(s, t) \/ RecordReadBack(s, t)

SessionStep(s) ==
  \/ CaptureRegistry(s) \/ CaptureRevision(s) \/ (\E p \in Pin : StagePin(s, p))
  \/ CreateOperation(s) \/ DiscardStage(s) \/ PersistIntent(s)
  \/ LoadOperation(s) \/ MarkRunning(s) \/ TargetStep(s) \/ FinishTargets(s)
  \/ RevalidatePromotion(s) \/ IntendPromotion(s) \/ PromotePin(s)
  \/ RecordPromotion(s) \/ FinalizeCheck(s) \/ FinalizeCommit(s)
  \/ PauseRetryable(s) \/ PauseStale(s)

Next ==
  \/ \E s \in Session : BeginReplace(s) \/ BeginRetry(s) \/ SessionStep(s)
  \/ \E t \in Target, p \in Pin : Deliver(t, p)
  \/ EditRegistry \/ Crash

Spec == Init /\ [][Next]_vars

\* Calls are asyncio tasks that the event loop keeps running, and their I/O
\* returns or raises; nothing obliges a user to retry or a lock to answer.
FairSpec == Spec /\ \A s \in Session : WF_vars(SessionStep(s))

-----------------------------------------------------------------------------
(* Properties                                                               *)

\* The vault promotes a PIN only after every access point that holds the
\* person's PIN has been seen to hold the new one ("Metadata commits only after
\* successful physical programming", docs/security.md), whatever other sessions
\* write over the operation in between.
PromotedOnlyIfConfirmed ==
  \A h \in Handle : vault.receipts[h] # None => seen[h] = Target

\* The registry names a revision only once the vault has it and the access
\* points were seen to hold its PIN.
RegistryFollowsVault ==
  \A t \in Target :
    /\ registry.rev[t] <= vault.rev[Cred]
    /\ registry.rev[t] > 1 =>
         \E h \in Handle : /\ vault.receipts[h] # None
                           /\ vault.receipts[h].rev = registry.rev[t]
                           /\ t \in seen[h]

\* When nothing is under way the three places a PIN is recorded agree: the
\* vault, the registry and the locks.
AtRest == Active = {} /\ \A s \in Session : At(s, "idle")

AgreeAtRest ==
  AtRest => /\ \A t \in Target : registry.rev[t] = vault.rev[Cred]
            /\ \A t \in Locks : /\ slot[t] = vault.env[Cred]
                                /\ \A p \in Pin : air[t][p] = 0

\* A replacement sends a Z-Wave lock the new PIN at most once, whenever its calls
\* end and however often it is retried: what may have gone out is only read back.
ZWaveSentOnce == \A h \in Handle, t \in ZWaves : sent[h][t] <= 1

\* "Resume from the last durable checkpoint without repeating completed I/O"
\* (resume): the same, of every lock.
SentOnce == \A h \in Handle, t \in Target : sent[h][t] <= 1

\* A PIN is sent only while the vault has the revision that its replacement
\* was validated against, although the two are read at different awaits.
NoStaleCommand ==
  [][\A h \in Handle, t \in Target : sent'[h][t] > sent[h][t] =>
       journal[h].payload.expected = vault.rev[Cred]]_vars

\* A call of the service ends, whatever the locks answer.
CallsEnd == \A s \in Session : ~At(s, "idle") ~> At(s, "idle")

=============================================================================
