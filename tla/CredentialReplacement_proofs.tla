--------------------- MODULE CredentialReplacement_proofs ---------------------
(***************************************************************************)
(* Proofs about CredentialReplacement, for any number of sessions, access  *)
(* points, replacements, edits and PINs.                                   *)
(***************************************************************************)
EXTENDS CredentialReplacement, TLAPS

\* The vault answered the promotion of h with revision r.
Promoted(h, r) == vault.receipts[h] # None /\ vault.receipts[h].rev = r

\* What a payload claims about the locks and the vault is so.
Backed(h, payload) ==
  /\ \A t \in Target : payload.target[t] = "confirmed" => t \in seen[h]
  /\ payload.phase \in {"verification_confirmed", "promotion_pending"} => seen[h] = Target
  /\ payload.phase \in {"vault_promoted", "completed"} =>
       seen[h] = Target /\ Promoted(h, payload.promoted)

VaultInv ==
  /\ Exists(vault, Cred) /\ vault.rev[Cred] >= 1
  /\ \A h \in Handle : vault.staged[h] # None =>
       /\ h <= minted
       /\ vault.staged[h].expected = vault.rev[Cred]
       /\ vault.receipts[h] = None
       /\ \A g \in Handle : vault.staged[g] # None => g = h
  /\ \A h \in Handle : vault.receipts[h] # None =>
       /\ h <= minted
       /\ vault.receipts[h].rev <= vault.rev[Cred]
       /\ seen[h] = Target

JournalInv ==
  \A h \in Handle : journal[h] # None => h <= minted /\ Backed(h, journal[h].payload)

BeforeStage == {"idle", "capture", "revision", "stage"}

BeforeJournal == BeforeStage \cup {"create", "discard"}

BeforeResume == BeforeJournal \cup {"load", "mark"}

AllConfirmed == {"revalidate", "intend_promotion", "promote", "record_promotion",
                 "finalize", "commit"}

\* t is the target that the loop over the payload's targets is at.
FirstOpen(payload, t) ==
  /\ payload.target[t] # "confirmed"
  /\ \A u \in Target : payload.target[u] # "confirmed" => t <= u

\* A payload that claims nothing yet.
Fresh(payload) ==
  payload.phase = "staged" /\ \A t \in Target : payload.target[t] # "confirmed"

\* A session in state x stands where its copy of the payload says, j being
\* the journal.
PlacedIn(x, j) ==
  /\ x.pc \in BeforeStage => x.h = None /\ Fresh(x.payload)
  /\ x.pc \notin BeforeStage => x.h \in Handle /\ x.h <= minted /\ Backed(x.h, x.payload)
  /\ x.pc = "create" => j[x.h] = None
  /\ x.pc \notin BeforeJournal => j[x.h] # None
  /\ x.pc \notin BeforeResume => j[x.h].payload.expected = x.payload.expected
  /\ x.pc \in AllConfirmed => seen[x.h] = Target
  /\ x.pc = "verified" /\ x.answer = "confirmed" =>
       \A t \in Target : FirstOpen(x.payload, t) => t \in seen[x.h]
  /\ x.pc = "record_promotion" => Promoted(x.h, x.payload.expected + 1)
  /\ x.pc \in {"finalize", "commit"} => Promoted(x.h, x.payload.promoted)
  /\ x.pc \in {"intend", "request"} /\ vault.staged[x.h] # None =>
       x.payload.expected = vault.rev[Cred]

Placed(x) == PlacedIn(x, journal)

SessionsInv ==
  /\ \A s \in Session : Placed(sess[s])
  /\ \A s, r \in Session : sess[s].pc = "create" /\ r # s => sess[r].h # sess[s].h

RegistryInv ==
  \A t \in Target : registry.rev[t] = 1 \/ \E h \in Handle : Promoted(h, registry.rev[t])

IInv == TypeOK /\ VaultInv /\ JournalInv /\ SessionsInv /\ RegistryInv

-----------------------------------------------------------------------------
LEMMA InitInv == Init => IInv
<1> SUFFICES ASSUME Init PROVE IInv
  OBVIOUS
<1> USE Assumptions
<1>1. EmptyState \in EnvelopeState
  BY DEF EmptyState, EnvelopeState
<1>2. vault \in EnvelopeState /\ vault.rev[Cred] = 1 /\ vault.env[Cred] = FirstPin
      /\ \A h \in Handle : vault.staged[h] = None /\ vault.receipts[h] = None
  <2>1. [EmptyState.env EXCEPT ![Cred] = FirstPin] \in [Credential -> Envelope \cup {None}]
    BY <1>1 DEF EnvelopeState, Envelope
  <2>2. [EmptyState.rev EXCEPT ![Cred] = EmptyState.rev[Cred] + 1] \in [Credential -> Nat]
        /\ EmptyState.rev[Cred] = 0
    BY <1>1 DEF EnvelopeState, EmptyState, Credential
  <2>3. vault = [EmptyState EXCEPT !.env = [EmptyState.env EXCEPT ![Cred] = FirstPin],
                   !.rev = [EmptyState.rev EXCEPT ![Cred] = EmptyState.rev[Cred] + 1]]
    BY DEF Init, StoreEnvelope
  <2>4. vault.env = [EmptyState.env EXCEPT ![Cred] = FirstPin]
        /\ vault.rev = [EmptyState.rev EXCEPT ![Cred] = EmptyState.rev[Cred] + 1]
        /\ vault.staged = EmptyState.staged /\ vault.receipts = EmptyState.receipts
    BY <2>3 DEF EmptyState
  <2>5. vault \in EnvelopeState
    BY <1>1, <2>1, <2>2, <2>3 DEF EnvelopeState
  <2> QED BY <1>1, <2>2, <2>4, <2>5 DEF EmptyState, EnvelopeState, Credential
<1>3. NoPayload \in Payload /\ Idle \in Sessions
  BY DEF NoPayload, Payload, Phase, TargetState, Idle, Sessions, Control, Fresh
<1>4. TypeOK
  BY <1>2, <1>3 DEF Init, TypeOK
<1>5. VaultInv
  BY <1>2 DEF VaultInv, Exists
<1>6. JournalInv /\ RegistryInv
  BY DEF Init, JournalInv, RegistryInv
<1>7. SessionsInv
  BY DEF Init, SessionsInv, Placed, PlacedIn, Idle, NoPayload, Fresh,
         BeforeStage, BeforeJournal, BeforeResume, AllConfirmed
<1> QED BY <1>4, <1>5, <1>6, <1>7 DEF IInv

-----------------------------------------------------------------------------
(* Steps that only move a session, and steps that also write its operation. *)

LEMMA SessionMovesOn ==
  ASSUME IInv, NEW s \in Session, NEW y \in Sessions, Placed(y), y.pc # "create",
         y.h \in {sess[s].h, None} \/ (y.h \in Handle /\ journal[y.h] # None),
         sess' = [sess EXCEPT ![s] = y],
         slot' \in [Target -> Pin],
         air' \in [Target -> [Pin -> 0..2]], sent' \in [Handle -> [Target -> 0..2]],
         UNCHANGED <<vault, journal, registry, minted, seen>>
  PROVE  IInv'
<1>1. TypeOK'
  BY DEF IInv, TypeOK
<1>2. VaultInv'
  BY DEF IInv, VaultInv, Exists
<1>3. JournalInv'
  BY DEF IInv, JournalInv, Backed, Promoted
<1>4. RegistryInv'
  BY DEF IInv, RegistryInv, Promoted
<1>5. \A r \in Session : sess'[r] = IF r = s THEN y ELSE sess[r]
  BY DEF IInv, TypeOK
<1>6. \A r \in Session : Placed(sess'[r])
  BY <1>5 DEF IInv, SessionsInv
<1>7. \A x : Placed(x) => PlacedIn(x, journal')
  BY DEF Placed
<1>8. \A r \in Session : Placed(sess[r])'
  BY <1>6, <1>7 DEF Placed, PlacedIn, Backed, Promoted
<1>9. ASSUME NEW q \in Session, NEW r \in Session, sess'[q].pc = "create", r # q
      PROVE  sess'[r].h # sess'[q].h
  <2>1. q # s /\ sess'[q] = sess[q]
    BY <1>5, <1>9
  <2>2. sess[q].h \in Handle /\ sess[q].h # None /\ journal[sess[q].h] = None
    BY <1>9, <2>1, Assumptions
       DEF IInv, SessionsInv, Placed, PlacedIn, BeforeStage
  <2> QED BY <1>5, <1>9, <2>1, <2>2 DEF IInv, SessionsInv
<1>10. SessionsInv'
  BY <1>8, <1>9 DEF SessionsInv
<1> QED BY <1>1, <1>2, <1>3, <1>4, <1>10 DEF IInv

LEMMA SessionMoves ==
  ASSUME IInv, NEW s \in Session, NEW y \in Sessions, Placed(y), y.pc # "create",
         y.h \in {sess[s].h, None} \/ (y.h \in Handle /\ journal[y.h] # None),
         sess' = [sess EXCEPT ![s] = y],
         UNCHANGED <<vault, journal, registry, slot, air, minted, sent, seen>>
  PROVE  IInv'
<1>1. /\ slot' \in [Target -> Pin]
      /\ air' \in [Target -> [Pin -> 0..2]] /\ sent' \in [Handle -> [Target -> 0..2]]
  BY DEF IInv, TypeOK
<1> QED BY <1>1, SessionMovesOn

\* The operation of session s is written as op, and s goes on as y.
LEMMA OperationWritten ==
  ASSUME IInv, NEW s \in Session, NEW y \in Sessions, NEW op \in Operation(Payload),
         sess[s].h \in Handle, sess[s].pc \notin BeforeStage,
         Backed(sess[s].h, op.payload),
         \/ sess[s].pc = "create"
         \/ /\ journal[sess[s].h] # None
            /\ journal[sess[s].h].payload.expected = op.payload.expected,
         PlacedIn(y, [journal EXCEPT ![sess[s].h] = op]),
         y.pc # "create", y.h \in {sess[s].h, None},
         StoreOperation(s, op, y),
         UNCHANGED <<vault, slot, air, minted, sent, seen>>,
         registry' \in [version : Nat, edits : 0..MaxEdits, rev : [Target -> Nat]],
         RegistryInv'
  PROVE  IInv'
<1> DEFINE h == sess[s].h
           j == [journal EXCEPT ![h] = op]
<1>1. /\ journal' = j /\ j[h] = op
      /\ \A g \in Handle \ {h} : j[g] = journal[g]
      /\ j \in [Handle -> Operation(Payload) \cup {None}]
      /\ op # None
  BY Assumptions DEF StoreOperation, IInv, TypeOK
<1>2. \A r \in Session :
        /\ sess'[r] \in Sessions
        /\ r = s => sess'[r] = y
        /\ r # s => /\ sess'[r].pc = sess[r].pc /\ sess'[r].h = sess[r].h
                    /\ sess'[r].payload = sess[r].payload
                    /\ sess'[r].answer = sess[r].answer
  BY DEF StoreOperation, IInv, TypeOK, Sessions
<1>3. sess' \in [Session -> Sessions]
  <2>1. sess' = [r \in Session |-> sess'[r]]
    BY DEF StoreOperation
  <2> QED BY <1>2, <2>1
<1>4. TypeOK'
  BY <1>1, <1>3 DEF IInv, TypeOK
<1>5. VaultInv'
  BY DEF IInv, VaultInv, Exists
<1>6. \A g, p : Backed(g, p) => Backed(g, p)'
  BY DEF Backed, Promoted
<1>7. h <= minted
  BY DEF IInv, SessionsInv, Placed, PlacedIn
<1>8. JournalInv'
  BY <1>1, <1>6, <1>7 DEF IInv, JournalInv, Backed, Promoted
<1>9. ASSUME NEW r \in Session, r # s PROVE PlacedIn(sess[r], j)
  <2>1. PlacedIn(sess[r], journal)
    BY DEF IInv, SessionsInv, Placed
  <2>2. CASE sess[s].pc = "create"
    <3>1. sess[r].h # h
      BY <1>9, <2>2 DEF IInv, SessionsInv
    <3> QED BY <1>1, <2>1, <3>1 DEF PlacedIn, BeforeStage, BeforeJournal, BeforeResume
  <2>3. CASE journal[h] # None /\ journal[h].payload.expected = op.payload.expected
    BY <1>1, <2>1, <2>3 DEF PlacedIn, BeforeStage, BeforeJournal, BeforeResume
  <2> QED BY <2>2, <2>3
<1>10. \A r \in Session : PlacedIn(sess'[r], j)
  BY <1>2, <1>9 DEF PlacedIn
<1>11. \A r \in Session : Placed(sess[r])'
  BY <1>1, <1>10 DEF Placed, PlacedIn, Backed, Promoted
<1>12. ASSUME NEW q \in Session, NEW r \in Session, sess'[q].pc = "create", r # q
       PROVE  sess'[r].h # sess'[q].h
  <2>1. q # s /\ sess[q].pc = "create" /\ sess'[q].h = sess[q].h
    BY <1>2, <1>12
  <2>2. sess[q].h \in Handle /\ sess[q].h # None
    BY <2>1, Assumptions DEF IInv, SessionsInv, Placed, PlacedIn, BeforeStage
  <2> QED BY <1>2, <1>12, <2>1, <2>2 DEF IInv, SessionsInv
<1>13. SessionsInv'
  BY <1>11, <1>12 DEF SessionsInv
<1> QED BY <1>4, <1>5, <1>8, <1>13 DEF IInv

\* A session that ends.
LEMMA SessionEnds ==
  ASSUME IInv, NEW s \in Session, End(s),
         UNCHANGED <<vault, journal, registry, slot, air, minted, sent, seen>>
  PROVE  IInv'
<1>1. Idle \in Sessions /\ Idle.h = None /\ Idle.pc = "idle" /\ Fresh(Idle.payload)
  BY DEF NoPayload, Payload, Phase, TargetState, Idle, Sessions, Control, Fresh
<1>2. Placed(Idle)
  BY <1>1 DEF Placed, PlacedIn, BeforeStage, BeforeJournal, BeforeResume, AllConfirmed
<1> QED BY <1>1, <1>2, SessionMoves DEF End

\* Facts about a session that has taken over the payload of its operation.
LEMMA Resumed ==
  ASSUME IInv, NEW s \in Session, sess[s].pc \notin BeforeResume
  PROVE  /\ sess[s] \in Sessions /\ sess[s].payload \in Payload
         /\ sess[s].h \in Handle /\ sess[s].h <= minted
         /\ Backed(sess[s].h, sess[s].payload)
         /\ journal[sess[s].h] \in Operation(Payload)
         /\ journal[sess[s].h] # None
         /\ journal[sess[s].h].payload.expected = sess[s].payload.expected
         /\ sess[s].pc \notin BeforeStage
         /\ sess[s].pc # "create"
<1>1. sess[s] \in Sessions /\ sess[s].payload \in Payload
  BY DEF IInv, TypeOK, Sessions
<1>2. PlacedIn(sess[s], journal)
  BY DEF IInv, SessionsInv, Placed
<1>3. sess[s].pc \notin BeforeStage /\ sess[s].pc \notin BeforeJournal /\ sess[s].pc # "create"
  BY DEF BeforeStage, BeforeJournal, BeforeResume
<1> QED BY <1>1, <1>2, <1>3 DEF PlacedIn, IInv, TypeOK

\* Writing payload p and going on at pc, as every checkpoint does.
LEMMA CheckpointKeeps ==
  ASSUME IInv, NEW s \in Session, sess[s].pc \notin BeforeResume,
         NEW p \in Payload, NEW pc \in Control,
         p.expected = sess[s].payload.expected, Backed(sess[s].h, p),
         pc \notin BeforeJournal,
         pc \notin {"verified", "record_promotion", "commit", "mark", "intend"},
         pc \in AllConfirmed => seen[sess[s].h] = Target,
         pc = "finalize" => Promoted(sess[s].h, p.promoted),
         pc = "request" /\ vault.staged[sess[s].h] # None => p.expected = vault.rev[Cred],
         Checkpoint(s, p, pc), UNCHANGED <<vault, registry, slot, air, minted, sent, seen>>
  PROVE  IInv'
<1> DEFINE h == sess[s].h
           op == Checkpointed(p)
           new == [sess[s] EXCEPT !.pc = pc, !.payload = p, !.fresh = TRUE, !.answer = "none"]
           j == [journal EXCEPT ![h] = op]
<1>1. /\ op \in Operation(Payload) /\ op.payload = p
  BY Assumptions DEF Checkpointed, Operation, OperationStatus, RetryCount
<1>2. new \in Sessions /\ new.pc = pc /\ new.h = h /\ new.payload = p /\ new.answer = "none"
  BY Resumed DEF Sessions
<1>3. j[h] = op /\ op # None
  BY <1>1, Resumed, Assumptions DEF IInv, TypeOK
<1>4. registry' \in [version : Nat, edits : 0..MaxEdits, rev : [Target -> Nat]]
      /\ RegistryInv'
  BY DEF IInv, TypeOK, RegistryInv, Promoted
<1>5. Idle \in Sessions /\ Idle.h = None /\ Idle.pc = "idle" /\ Fresh(Idle.payload)
  BY DEF NoPayload, Payload, Phase, TargetState, Idle, Sessions, Control, Fresh
<1>6. PlacedIn(Idle, j)
  BY <1>5 DEF PlacedIn, BeforeStage, BeforeJournal, BeforeResume, AllConfirmed
<1> HIDE DEF op, new, j
<1>7. PlacedIn(new, j)
  BY <1>1, <1>2, <1>3, Resumed DEF PlacedIn, BeforeStage, BeforeJournal, BeforeResume
<1>8. CASE StoreOperation(s, op, new)
  BY <1>1, <1>2, <1>4, <1>7, <1>8, Resumed, OperationWritten DEF j, BeforeStage, BeforeJournal
<1>9. CASE StoreOperation(s, op, Idle)
  BY <1>1, <1>4, <1>5, <1>6, <1>9, Resumed, OperationWritten DEF j
<1>10. CASE End(s) /\ UNCHANGED journal
  BY <1>10, SessionEnds
<1> QED BY <1>8, <1>9, <1>10 DEF Checkpoint, op, new

\* Recording a failure with payload p, as every pause does.
LEMMA PauseKeeps ==
  ASSUME IInv, NEW s \in Session, sess[s].pc \notin BeforeResume,
         NEW p \in Payload, p.expected = sess[s].payload.expected, Backed(sess[s].h, p),
         NEW retryable \in BOOLEAN, Pause(s, p, retryable),
         UNCHANGED <<vault, registry, slot, air, minted, sent, seen>>
  PROVE  IInv'
<1> DEFINE h == sess[s].h
           q == [p EXCEPT !.resumable = retryable]
           op == FailureRecorded(journal[h], q, retryable)
           j == [journal EXCEPT ![h] = op]
<1>1. q \in Payload /\ q.expected = p.expected /\ q.phase = p.phase /\ q.target = p.target
      /\ q.promoted = p.promoted
  BY DEF Payload
<1>2. op \in Operation(Payload) /\ op.payload = q
  BY <1>1, Resumed, Assumptions DEF FailureRecorded, Operation, OperationStatus, RetryCount
<1>3. Backed(h, q)
  BY <1>1 DEF Backed
<1>4. registry' \in [version : Nat, edits : 0..MaxEdits, rev : [Target -> Nat]]
      /\ RegistryInv'
  BY DEF IInv, TypeOK, RegistryInv, Promoted
<1>5. Idle \in Sessions /\ Idle.h = None /\ Idle.pc = "idle" /\ Fresh(Idle.payload)
  BY DEF NoPayload, Payload, Phase, TargetState, Idle, Sessions, Control, Fresh
<1>6. PlacedIn(Idle, j)
  BY <1>5 DEF PlacedIn, BeforeStage, BeforeJournal, BeforeResume, AllConfirmed
<1> HIDE DEF op, q, j
<1>7. CASE StoreOperation(s, op, Idle)
  BY <1>1, <1>2, <1>3, <1>4, <1>5, <1>6, <1>7, Resumed, OperationWritten DEF j
<1>8. CASE End(s) /\ UNCHANGED journal
  BY <1>8, SessionEnds
<1> QED BY <1>7, <1>8 DEF Pause, op, q

\* A session that has taken over its payload and goes on at pc with answer a.
LEMMA GoesOn ==
  ASSUME IInv, NEW s \in Session, sess[s].pc \notin BeforeResume,
         NEW pc \in Control, pc \notin BeforeResume,
         NEW a \in {"none", "taken", "rejected", "unsupported", "confirmed", "unconfirmed"},
         pc \in AllConfirmed => seen[sess[s].h] = Target,
         pc # "verified" \/ a # "confirmed",
         pc = "record_promotion" => Promoted(sess[s].h, sess[s].payload.expected + 1),
         pc \in {"finalize", "commit"} => Promoted(sess[s].h, sess[s].payload.promoted),
         pc \in {"intend", "request"} /\ vault.staged[sess[s].h] # None =>
           sess[s].payload.expected = vault.rev[Cred],
         sess' = [sess EXCEPT ![s] = [sess[s] EXCEPT !.pc = pc, !.answer = a]],
         UNCHANGED <<vault, journal, registry, slot, air, minted, sent, seen>>
  PROVE  IInv'
<1> DEFINE y == [sess[s] EXCEPT !.pc = pc, !.answer = a]
<1>1. y \in Sessions /\ y.pc = pc /\ y.h = sess[s].h /\ y.payload = sess[s].payload /\ y.answer = a
  BY Resumed DEF Sessions
<1>2. y.pc # "create"
  BY <1>1 DEF BeforeJournal, BeforeResume
<1> HIDE DEF y
<1>3. Placed(y)
  BY <1>1, Resumed DEF Placed, PlacedIn, BeforeResume, BeforeJournal
<1> QED BY <1>1, <1>2, <1>3, SessionMoves DEF y

\* The same when the answer is left as it is.
LEMMA GoesOnTo ==
  ASSUME IInv, NEW s \in Session, sess[s].pc \notin BeforeResume,
         NEW pc \in Control, pc \notin BeforeResume, pc # "verified",
         pc \in AllConfirmed => seen[sess[s].h] = Target,
         pc = "record_promotion" => Promoted(sess[s].h, sess[s].payload.expected + 1),
         pc \in {"finalize", "commit"} => Promoted(sess[s].h, sess[s].payload.promoted),
         pc \in {"intend", "request"} /\ vault.staged[sess[s].h] # None =>
           sess[s].payload.expected = vault.rev[Cred],
         GoTo(s, pc),
         UNCHANGED <<vault, journal, registry, slot, air, minted, sent, seen>>
  PROVE  IInv'
<1> DEFINE a == sess[s].answer
<1>1. a \in {"none", "taken", "rejected", "unsupported", "confirmed", "unconfirmed"}
  BY Resumed DEF Sessions
<1>2. [sess[s] EXCEPT !.pc = pc] = [sess[s] EXCEPT !.pc = pc, !.answer = a]
  BY Resumed DEF Sessions
<1> QED BY <1>1, <1>2, GoesOn DEF GoTo

-----------------------------------------------------------------------------
(* replace_pin                                                              *)

LEMMA BeginKeeps ==
  ASSUME IInv, NEW s \in Session,
         \/ BeginReplace(s) \/ CaptureRegistry(s) \/ CaptureRevision(s)
  PROVE  IInv'
<1>1. sess[s] \in Sessions /\ sess[s].pc \in BeforeStage /\ sess[s].h = None /\ Fresh(sess[s].payload)
  BY DEF IInv, TypeOK, SessionsInv, Placed, PlacedIn, BeforeStage, At,
         BeginReplace, CaptureRegistry, CaptureRevision
<1>2. registry.version \in Nat /\ vault.rev[Cred] \in Nat
  BY DEF IInv, TypeOK, EnvelopeState, Credential
<1>3. \A y \in Sessions : y.pc \in BeforeStage /\ y.h = None /\ Fresh(y.payload) => Placed(y) /\ y.pc # "create"
  BY DEF Placed, PlacedIn, BeforeStage, BeforeJournal, BeforeResume, AllConfirmed
<1>4. CASE BeginReplace(s)
  <2> DEFINE y == [sess[s] EXCEPT !.pc = "capture"]
  <2>1. y \in Sessions /\ y.pc \in BeforeStage /\ y.h = None /\ Fresh(y.payload)
    BY <1>1 DEF Sessions, Fresh, Control, BeforeStage
  <2>2. sess' = [sess EXCEPT ![s] = y]
    BY <1>4 DEF BeginReplace, GoTo
  <2> HIDE DEF y
  <2> QED BY <1>3, <1>4, <2>1, <2>2, SessionMoves DEF BeginReplace, world
<1>5. CASE CaptureRegistry(s)
  <2> DEFINE p == [sess[s].payload EXCEPT !.version = registry.version]
             y == [sess[s] EXCEPT !.pc = "revision", !.payload = p]
  <2>1. p \in Payload
    BY <1>1, <1>2 DEF Sessions, Payload
  <2>2. y \in Sessions /\ y.pc \in BeforeStage /\ y.h = None /\ Fresh(y.payload)
    BY <1>1, <2>1 DEF Sessions, Payload, Fresh, Control, BeforeStage
  <2>3. sess' = [sess EXCEPT ![s] = y]
    BY <1>5 DEF CaptureRegistry
  <2> HIDE DEF y
  <2> QED BY <1>3, <1>5, <2>2, <2>3, SessionMoves DEF CaptureRegistry, world
<1>6. CASE CaptureRevision(s)
  <2> DEFINE p == [sess[s].payload EXCEPT !.expected = vault.rev[Cred]]
             y == [sess[s] EXCEPT !.pc = "stage", !.payload = p]
  <2>1. p \in Payload
    BY <1>1, <1>2 DEF Sessions, Payload
  <2>2. y \in Sessions /\ y.pc \in BeforeStage /\ y.h = None /\ Fresh(y.payload)
    BY <1>1, <2>1 DEF Sessions, Payload, Fresh, Control, BeforeStage
  <2>3. sess' = [sess EXCEPT ![s] = y] \/ End(s)
    BY <1>6 DEF CaptureRevision
  <2> HIDE DEF y
  <2> QED BY <1>3, <1>6, <2>2, <2>3, SessionMoves, SessionEnds DEF CaptureRevision, world
<1> QED BY <1>4, <1>5, <1>6

\* Staging makes a handle that no session and no operation has.
LEMMA StagePinKeeps ==
  ASSUME IInv, NEW s \in Session, NEW p \in Pin, StagePin(s, p)
  PROVE  IInv'
<1> DEFINE h == minted + 1
           y == [sess[s] EXCEPT !.pc = "create", !.h = h]
<1>1. sess[s] \in Sessions /\ sess[s].pc = "stage" /\ sess[s].h = None /\ Fresh(sess[s].payload)
  BY DEF IInv, TypeOK, SessionsInv, Placed, PlacedIn, BeforeStage, At, StagePin
<1>2. CASE End(s) /\ UNCHANGED <<vault, minted>>
  BY <1>2, SessionEnds DEF StagePin
<1>3. CASE /\ h \in Handle
           /\ CanStage(vault, h, Cred, vault.rev[Cred])
           /\ vault' = Stage(vault, h, Cred, vault.rev[Cred], p)
           /\ minted' = h
           /\ sess' = [sess EXCEPT ![s] = y]
           /\ UNCHANGED <<journal, registry, slot, air, sent, seen>>
  <2> DEFINE new == [cred |-> Cred, expected |-> vault.rev[Cred], env |-> p]
  <2>1. vault \in EnvelopeState /\ minted \in Nat /\ h \in Nat /\ h > minted
    BY <1>3 DEF IInv, TypeOK
  <2>2. new \in StagedSecret /\ new # None /\ new.expected = vault.rev[Cred]
    BY <2>1, Assumptions DEF StagedSecret, EnvelopeState, Credential, Envelope
  <2>3. /\ vault'.env = vault.env /\ vault'.rev = vault.rev
        /\ vault'.receipts = vault.receipts
        /\ vault'.staged = [vault.staged EXCEPT ![h] = new]
        /\ vault' \in EnvelopeState
    <3>1. [vault.staged EXCEPT ![h] = new] \in [Handle -> StagedSecret \cup {None}]
      BY <2>1, <2>2 DEF EnvelopeState
    <3> HIDE DEF new
    <3> QED BY <1>3, <2>1, <3>1 DEF Stage, EnvelopeState, new
  <2>4. /\ vault'.staged[h] = new /\ vault.receipts[h] = None /\ journal[h] = None
        /\ \A g \in Handle : vault.staged[g] = None
        /\ \A g \in Handle \ {h} : vault'.staged[g] = None
        /\ \A r \in Session : sess[r].h # h
    <3>1. \A g \in Handle : vault.staged[g] = None
      <4> SUFFICES ASSUME NEW g \in Handle, vault.staged[g] # None PROVE FALSE
        OBVIOUS
      <4>1. vault.staged[g].cred = Cred
        BY <2>1 DEF EnvelopeState, StagedSecret, Credential
      <4> QED BY <1>3, <4>1 DEF CanStage, StagedFor
    <3>2. vault.receipts[h] = None /\ Exists(vault, Cred)
      BY <1>3 DEF CanStage
    <3>3. journal[h] = None
      BY <1>3, <2>1 DEF IInv, JournalInv, Handle
    <3>4. \A r \in Session : sess[r].h # h
      BY <1>3, <2>1, Assumptions DEF IInv, SessionsInv, Placed, PlacedIn, Handle
    <3> HIDE DEF new
    <3> QED BY <1>3, <2>1, <2>3, <3>1, <3>2, <3>3, <3>4 DEF EnvelopeState
  <2>5. y \in Sessions /\ y.pc = "create" /\ y.h = h /\ y.payload = sess[s].payload
    BY <1>1, <1>3 DEF Sessions, Control
  <2>6. \A r \in Session : sess'[r] = IF r = s THEN y ELSE sess[r]
    BY <1>3 DEF IInv, TypeOK
  <2> HIDE DEF y, new
  <2>7. minted' \in 0..MaxReplacements /\ minted' = h
    BY <1>3, <2>1 DEF Handle
  <2>8. TypeOK'
    BY <1>3, <2>3, <2>5, <2>7 DEF IInv, TypeOK
  <2>9. VaultInv'
    BY <1>3, <2>1, <2>2, <2>3, <2>4, <2>7 DEF IInv, VaultInv, Exists, Handle, EnvelopeState
  <2>10. \A g, q : Backed(g, q) => Backed(g, q)'
    BY <1>3, <2>3 DEF Backed, Promoted
  <2>11. JournalInv'
    BY <1>3, <2>1, <2>7, <2>10 DEF IInv, JournalInv, Backed, Promoted, Handle
  <2>12. RegistryInv'
    BY <1>3, <2>3 DEF IInv, RegistryInv, Promoted
  <2>14. ASSUME NEW r \in Session, r # s PROVE Placed(sess[r])'
    <3>1. sess'[r] = sess[r] /\ Placed(sess[r]) /\ sess[r].h # h
      BY <2>4, <2>6, <2>14 DEF IInv, SessionsInv
    <3>2. sess[r].pc \notin BeforeStage => sess[r].h <= minted'
      BY <2>1, <2>7, <3>1 DEF Placed, PlacedIn, Handle
    <3>3. sess[r].pc \notin BeforeStage => vault'.staged[sess[r].h] = None
      BY <2>4, <3>1 DEF Placed, PlacedIn
    <3>4. sess[r].pc \in {"intend", "request"} => sess[r].pc \notin BeforeStage
      BY DEF BeforeStage
    <3> QED BY <1>3, <2>3, <3>1, <3>2, <3>3, <3>4 DEF Placed, PlacedIn, Backed, Promoted, Fresh, FirstOpen
  <2>15. Placed(sess[s])'
    <3>1. Backed(h, sess[s].payload)
      BY <1>1 DEF Backed, Fresh
    <3>2. h <= minted'
      BY <2>1, <2>7
    <3> QED BY <1>3, <2>4, <2>5, <2>6, <2>10, <3>1, <3>2
            DEF Placed, PlacedIn, BeforeStage, BeforeJournal, BeforeResume, AllConfirmed, Backed, Promoted
  <2>16. ASSUME NEW q \in Session, NEW r \in Session, sess'[q].pc = "create", r # q
         PROVE  sess'[r].h # sess'[q].h
    <3>1. CASE q = s
      BY <2>4, <2>5, <2>6, <2>16, <3>1
    <3>2. CASE q # s
      BY <2>4, <2>5, <2>6, <2>16, <3>2 DEF IInv, SessionsInv
    <3> QED BY <3>1, <3>2
  <2>17. SessionsInv'
    BY <2>14, <2>15, <2>16 DEF SessionsInv
  <2> QED BY <2>8, <2>9, <2>11, <2>12, <2>17 DEF IInv
<1> QED BY <1>2, <1>3 DEF StagePin

LEMMA CreateKeeps ==
  ASSUME IInv, NEW s \in Session, CreateOperation(s)
  PROVE  IInv'
<1> DEFINE h == sess[s].h
           op == NewOperation(sess[s].payload)
           y == [sess[s] EXCEPT !.pc = "intent", !.fresh = TRUE]
           z == [sess[s] EXCEPT !.pc = "discard"]
           j == [journal EXCEPT ![h] = op]
<1>1. /\ sess[s] \in Sessions /\ sess[s].payload \in Payload /\ sess[s].pc = "create"
      /\ sess[s].pc \notin BeforeStage
      /\ h \in Handle /\ h <= minted /\ Backed(h, sess[s].payload)
  BY DEF IInv, TypeOK, Sessions, SessionsInv, Placed, PlacedIn, BeforeStage, At, CreateOperation
<1>2. op \in Operation(Payload) /\ op.payload = sess[s].payload /\ j[h] = op /\ op # None
  BY <1>1, Assumptions DEF NewOperation, Operation, OperationStatus, RetryCount, IInv, TypeOK
<1>3. /\ y \in Sessions /\ y.pc = "intent" /\ y.h = h /\ y.payload = sess[s].payload
      /\ z \in Sessions /\ z.pc = "discard" /\ z.h = h /\ z.payload = sess[s].payload
  BY <1>1 DEF Sessions, Control
<1>4. registry' \in [version : Nat, edits : 0..MaxEdits, rev : [Target -> Nat]]
      /\ RegistryInv' /\ UNCHANGED <<vault, slot, air, minted, sent, seen>>
  BY DEF IInv, TypeOK, RegistryInv, Promoted, CreateOperation, world
<1> HIDE DEF y, z, op, j
<1>5. PlacedIn(y, j) /\ PlacedIn(z, j) /\ Placed(z)
  BY <1>1, <1>2, <1>3 DEF Placed, PlacedIn, BeforeStage, BeforeJournal, BeforeResume, AllConfirmed
<1>6. CASE StoreOperation(s, op, y)
  BY <1>1, <1>2, <1>3, <1>4, <1>5, <1>6, OperationWritten DEF j
<1>7. CASE StoreOperation(s, op, z)
  BY <1>1, <1>2, <1>3, <1>4, <1>5, <1>7, OperationWritten DEF j
<1>8. CASE GoTo(s, "discard") /\ UNCHANGED journal
  <2>1. sess' = [sess EXCEPT ![s] = z] /\ UNCHANGED registry
    BY <1>8 DEF GoTo, CreateOperation, world, z
  <2> QED BY <1>3, <1>4, <1>5, <1>8, <2>1, SessionMoves
<1> QED BY <1>6, <1>7, <1>8 DEF CreateOperation, op, y, z

LEMMA DiscardKeeps ==
  ASSUME IInv, NEW s \in Session, DiscardStage(s)
  PROVE  IInv'
<1> DEFINE h == sess[s].h
<1>1. sess[s].pc = "discard" /\ h \in Handle
  BY DEF IInv, SessionsInv, Placed, PlacedIn, BeforeStage, At, DiscardStage
<1>2. CASE vault' = vault
  BY <1>2, SessionEnds DEF DiscardStage, world
<1>3. CASE vault' = Discard(vault, h)
  <2>1. UNCHANGED <<journal, registry, slot, air, minted, sent, seen>>
    BY DEF DiscardStage, world
  <2>2. vault \in EnvelopeState
    BY DEF IInv, TypeOK
  <2>3. /\ vault'.env = vault.env /\ vault'.rev = vault.rev
        /\ vault'.receipts = vault.receipts
        /\ \A g \in Handle : vault'.staged[g] = None \/ vault'.staged[g] = vault.staged[g]
        /\ vault' \in EnvelopeState
    BY <1>3, <2>2 DEF Discard, EnvelopeState
  <2>4. Idle \in Sessions /\ Idle.h = None /\ Idle.pc = "idle" /\ Fresh(Idle.payload)
    BY DEF NoPayload, Payload, Phase, TargetState, Idle, Sessions, Control, Fresh
  <2>5. \A r \in Session : sess'[r] = IF r = s THEN Idle ELSE sess[r]
    BY DEF IInv, TypeOK, DiscardStage, End
  <2>6. TypeOK'
    BY <2>1, <2>3, <2>4 DEF IInv, TypeOK, DiscardStage, End
  <2>7. VaultInv'
    BY <2>1, <2>3 DEF IInv, VaultInv, Exists
  <2>8. JournalInv' /\ RegistryInv'
    BY <2>1, <2>3 DEF IInv, JournalInv, RegistryInv, Backed, Promoted
  <2>9. \A r \in Session : Placed(sess'[r])
    BY <2>4, <2>5 DEF IInv, SessionsInv, Placed, PlacedIn,
       BeforeStage, BeforeJournal, BeforeResume, AllConfirmed
  <2>10. \A r \in Session : sess'[r].pc \in {"intend", "request"} =>
                              sess'[r].h \in Handle
    BY <2>9 DEF Placed, PlacedIn, BeforeStage
  <2>11. \A r \in Session : Placed(sess[r])'
    BY <2>1, <2>3, <2>9, <2>10 DEF Placed, PlacedIn, Backed, Promoted
  <2>12. ASSUME NEW q \in Session, NEW r \in Session, sess'[q].pc = "create", r # q
         PROVE  sess'[r].h # sess'[q].h
    <3>1. q # s /\ sess'[q] = sess[q] /\ sess[q].h \in Handle
      BY <2>4, <2>5, <2>12 DEF IInv, SessionsInv, Placed, PlacedIn, BeforeStage
    <3> QED BY <2>4, <2>5, <2>12, <3>1, Assumptions DEF IInv, SessionsInv
  <2>13. SessionsInv'
    BY <2>11, <2>12 DEF SessionsInv
  <2> QED BY <2>6, <2>7, <2>8, <2>13 DEF IInv
<1> QED BY <1>2, <1>3 DEF DiscardStage

LEMMA PersistIntentKeeps ==
  ASSUME IInv, NEW s \in Session, PersistIntent(s)
  PROVE  IInv'
<1> DEFINE p == WithPhase(s, "intent_persisted")
<1>1. sess[s].pc = "intent" /\ sess[s].pc \notin BeforeResume
  BY DEF PersistIntent, At, BeforeStage, BeforeJournal, BeforeResume
<1>2. /\ p \in Payload /\ p.expected = sess[s].payload.expected
      /\ p.target = sess[s].payload.target /\ p.phase = "intent_persisted"
  BY <1>1, Resumed DEF WithPhase, Payload, Phase
<1>3. Backed(sess[s].h, p)
  BY <1>1, <1>2, Resumed DEF Backed
<1>4. /\ "load" \in Control /\ "load" \notin BeforeJournal /\ "load" \notin AllConfirmed
  BY DEF Control, BeforeStage, BeforeJournal, AllConfirmed
<1> HIDE DEF p
<1>5. Checkpoint(s, p, "load") /\ UNCHANGED <<vault, registry, slot, air, minted, sent, seen>>
  BY DEF PersistIntent, world, p
<1> QED BY <1>1, <1>2, <1>3, <1>4, <1>5, CheckpointKeeps

-----------------------------------------------------------------------------
(* retry_pin and resume                                                     *)

LEMMA ResumeKeeps ==
  ASSUME IInv, NEW s \in Session, BeginRetry(s) \/ LoadOperation(s) \/ MarkRunning(s)
  PROVE  IInv'
<1>1. sess[s] \in Sessions /\ Placed(sess[s])
  BY DEF IInv, TypeOK, SessionsInv
<1>2. CASE BeginRetry(s)
  <2>1. PICK h \in Handle :
          journal[h] # None /\ sess' = [sess EXCEPT ![s] = [Idle EXCEPT !.pc = "load", !.h = h]]
    BY <1>2 DEF BeginRetry, Active, Operations
  <2> DEFINE y == [Idle EXCEPT !.pc = "load", !.h = h]
  <2>2. y \in Sessions /\ y.pc = "load" /\ y.h = h /\ Fresh(y.payload)
    BY DEF NoPayload, Payload, Phase, TargetState, Idle, Sessions, Control, Fresh
  <2>3. h <= minted
    BY <2>1 DEF IInv, JournalInv
  <2> HIDE DEF y
  <2>4. Placed(y)
    BY <2>1, <2>2, <2>3 DEF Placed, PlacedIn, Backed, Fresh,
       BeforeStage, BeforeJournal, BeforeResume, AllConfirmed
  <2> QED BY <1>2, <2>1, <2>2, <2>4, SessionMoves DEF BeginRetry, world, y
<1>3. CASE LoadOperation(s)
  <2> DEFINE y == [sess[s] EXCEPT !.pc = "mark"]
  <2>1. y \in Sessions /\ y.pc = "mark" /\ y.h = sess[s].h /\ y.payload = sess[s].payload
    BY <1>1 DEF Sessions, Control
  <2> HIDE DEF y
  <2>2. Placed(y)
    BY <1>1, <1>3, <2>1 DEF LoadOperation, At, Placed, PlacedIn,
       BeforeStage, BeforeJournal, BeforeResume, AllConfirmed
  <2>3. UNCHANGED <<vault, journal, registry, slot, air, minted, sent, seen>>
    BY <1>3 DEF LoadOperation, world
  <2>4. End(s) \/ sess' = [sess EXCEPT ![s] = y]
    BY <1>3 DEF LoadOperation, GoTo, y
  <2> QED BY <2>1, <2>2, <2>3, <2>4, SessionMoves, SessionEnds
<1>4. CASE MarkRunning(s)
  <2> DEFINE h == sess[s].h
             old == journal[h]
             op == MarkedRunning(old)
             y == [sess[s] EXCEPT !.pc = EntryPoint(old.payload.phase),
                                  !.payload = old.payload, !.fresh = TRUE]
             j == [journal EXCEPT ![h] = op]
  <2>1. sess[s].pc = "mark" /\ sess[s].pc \notin BeforeStage /\ h \in Handle /\ h <= minted
        /\ old # None
    BY <1>1, <1>4 DEF MarkRunning, At, Placed, PlacedIn, BeforeStage, BeforeJournal
  <2>2. old \in Operation(Payload) /\ Backed(h, old.payload)
    BY <2>1 DEF IInv, TypeOK, JournalInv
  <2>3. op \in Operation(Payload) /\ op.payload = old.payload /\ j[h] = op /\ op # None
    BY <2>1, <2>2, Assumptions DEF MarkedRunning, Operation, OperationStatus, IInv, TypeOK
  <2>4. old.payload \in Payload
    BY <2>2 DEF Operation
  <2>5. EntryPoint(old.payload.phase) \in {"promote", "finalize", "targets"}
    BY DEF EntryPoint
  <2>6. /\ EntryPoint(old.payload.phase) = "promote" => old.payload.phase = "promotion_pending"
        /\ EntryPoint(old.payload.phase) = "finalize" => old.payload.phase = "vault_promoted"
    BY DEF EntryPoint
  <2>7. y \in Sessions /\ y.pc = EntryPoint(old.payload.phase) /\ y.h = h /\ y.payload = old.payload
    BY <1>1, <2>4, <2>5 DEF Sessions, Control
  <2>8. registry' \in [version : Nat, edits : 0..MaxEdits, rev : [Target -> Nat]]
        /\ RegistryInv' /\ UNCHANGED <<vault, slot, air, minted, sent, seen, registry>>
    BY <1>4 DEF IInv, TypeOK, RegistryInv, Promoted, MarkRunning, world
  <2>9. Idle \in Sessions /\ Idle.h = None /\ Idle.pc = "idle" /\ Fresh(Idle.payload)
    BY DEF NoPayload, Payload, Phase, TargetState, Idle, Sessions, Control, Fresh
  <2>10. (StoreOperation(s, op, y) \/ StoreOperation(s, op, Idle)) \/ (End(s) /\ UNCHANGED journal)
    BY <1>4 DEF MarkRunning
  <2> HIDE DEF op, y, j, old
  <2>11. PlacedIn(y, j)
    BY <2>1, <2>2, <2>3, <2>5, <2>6, <2>7 DEF PlacedIn, Backed,
       BeforeStage, BeforeJournal, BeforeResume, AllConfirmed
  <2>12. PlacedIn(Idle, j)
    BY <2>9 DEF PlacedIn, BeforeStage, BeforeJournal, BeforeResume, AllConfirmed
  <2>13. y.pc # "create" /\ Idle.pc # "create"
    BY <2>5, <2>7, <2>9
  <2>14. journal[h] # None /\ journal[h].payload.expected = op.payload.expected
    BY <2>1, <2>3 DEF old
  <2>15. CASE StoreOperation(s, op, y)
    BY <2>1, <2>2, <2>3, <2>7, <2>8, <2>11, <2>13, <2>14, <2>15, OperationWritten DEF j
  <2>16. CASE StoreOperation(s, op, Idle)
    BY <2>1, <2>2, <2>3, <2>8, <2>9, <2>12, <2>13, <2>14, <2>16, OperationWritten DEF j
  <2> QED BY <2>8, <2>10, <2>15, <2>16, SessionEnds
<1> QED BY <1>2, <1>3, <1>4

-----------------------------------------------------------------------------
(* The targets                                                              *)

\* Recording a state of target t: confirmed only if it was read back.
LEMMA TargetRecorded ==
  ASSUME IInv, NEW s \in Session, sess[s].pc \notin BeforeResume, NEW t \in Target,
         NEW state \in TargetState, state = "confirmed" => t \in seen[sess[s].h]
  PROVE  /\ WithTarget(s, t, state) \in Payload
         /\ WithTarget(s, t, state).expected = sess[s].payload.expected
         /\ Backed(sess[s].h, WithTarget(s, t, state))
<1> DEFINE p == sess[s].payload
           target == [p.target EXCEPT ![t] = state]
           q == WithTarget(s, t, state)
<1>1. target \in [Target -> TargetState]
  BY Resumed DEF Payload
<1>2. /\ q \in Payload /\ q.expected = p.expected /\ q.phase = p.phase
      /\ q.promoted = p.promoted /\ q.target = target
  BY <1>1, Resumed DEF WithTarget, Payload
<1>3. \A u \in Target : target[u] = IF u = t THEN state ELSE p.target[u]
  BY Resumed DEF Payload
<1> HIDE DEF q, target
<1>4. Backed(sess[s].h, q)
  BY <1>2, <1>3, Resumed DEF Backed
<1> QED BY <1>2, <1>4 DEF q

LEMMA TargetStates ==
  {"request_not_started", "request_dispatching", "request_rejected", "unsupported",
   "verification_pending", "confirmed"} \subseteq TargetState
BY DEF TargetState

LEMMA IntendKeeps ==
  ASSUME IInv, NEW s \in Session, NEW t \in Target,
         AssumeDispatched(s, t) \/ RevalidateTarget(s, t) \/ IntendRequest(s, t)
  PROVE  IInv'
<1>1. sess[s].pc \in {"targets", "intend"} /\ sess[s].pc \notin BeforeResume
  BY DEF AssumeDispatched, RevalidateTarget, IntendRequest, At,
         BeforeStage, BeforeJournal, BeforeResume
<1>2. UNCHANGED <<vault, registry, slot, air, minted, sent, seen>>
  BY DEF AssumeDispatched, RevalidateTarget, IntendRequest, world
<1>3. /\ {"targets", "request", "intend", "stale"} \subseteq Control
      /\ \A pc \in {"targets", "request", "intend", "stale"} :
           pc \notin BeforeResume /\ pc \notin BeforeJournal /\ pc \notin AllConfirmed
  BY DEF Control, BeforeStage, BeforeJournal, BeforeResume, AllConfirmed
<1>4. CASE AssumeDispatched(s, t)
  <2> DEFINE p == WithTarget(s, t, "verification_pending")
  <2>1. p \in Payload /\ p.expected = sess[s].payload.expected /\ Backed(sess[s].h, p)
    BY <1>1, TargetRecorded, TargetStates
  <2>2. Checkpoint(s, p, "targets")
    BY <1>4 DEF AssumeDispatched
  <2> HIDE DEF p
  <2> QED BY <1>1, <1>2, <1>3, <2>1, <2>2, CheckpointKeeps
<1>5. CASE RevalidateTarget(s, t)
  <2>1. UNCHANGED journal
    BY <1>5 DEF RevalidateTarget
  <2>2. CASE Current(s) /\ GoTo(s, "intend")
    <3>1. sess[s].payload.expected = vault.rev[Cred]
      BY <2>2 DEF Current
    <3> QED BY <1>1, <1>2, <1>3, <2>1, <2>2, <3>1, GoesOnTo
  <2>3. CASE GoTo(s, "stale")
    BY <1>1, <1>2, <1>3, <2>1, <2>3, GoesOnTo
  <2> QED BY <1>5, <2>2, <2>3 DEF RevalidateTarget
<1>6. CASE IntendRequest(s, t)
  <2> DEFINE p == WithTarget(s, t, "request_dispatching")
  <2>1. p \in Payload /\ p.expected = sess[s].payload.expected /\ Backed(sess[s].h, p)
    BY <1>1, TargetRecorded, TargetStates
  <2>2. Checkpoint(s, p, "request") /\ sess[s].pc = "intend"
    BY <1>6 DEF IntendRequest, At
  <2>3. vault.staged[sess[s].h] # None => sess[s].payload.expected = vault.rev[Cred]
    BY <2>2 DEF IInv, SessionsInv, Placed, PlacedIn
  <2> HIDE DEF p
  <2> QED BY <1>1, <1>2, <1>3, <2>1, <2>2, <2>3, CheckpointKeeps
<1> QED BY <1>4, <1>5, <1>6

\* A request changes what a lock holds or is sent, and how often h was sent.
LEMMA RequestKeeps ==
  ASSUME IInv, NEW s \in Session, NEW t \in Target, RequestReplacement(s, t)
  PROVE  IInv'
<1> DEFINE h == sess[s].h
<1>1. sess[s].pc \notin BeforeResume
  BY DEF RequestReplacement, At, BeforeStage, BeforeJournal, BeforeResume
<1>2. UNCHANGED <<vault, journal, registry, minted, seen>>
  BY DEF RequestReplacement
<1>3. \A n \in 0..2 : More(n) \in 0..2
  BY DEF More
<1>4. /\ slot' \in [Target -> Pin]
      /\ air' \in [Target -> [Pin -> 0..2]]
      /\ sent' \in [Handle -> [Target -> 0..2]]
  <2>1. CASE UNCHANGED <<slot, air, sent>>
    BY <2>1 DEF IInv, TypeOK
  <2>2. CASE /\ Staged(s)
             /\ \/ slot' = [slot EXCEPT ![t] = StagedPin(s)] /\ UNCHANGED air
                \/ /\ air' = [air EXCEPT ![t] = [air[t] EXCEPT ![StagedPin(s)] = More(@)]]
                   /\ UNCHANGED slot
             /\ Send(s, t)
    <3>1. slot \in [Target -> Pin]
          /\ air \in [Target -> [Pin -> 0..2]] /\ sent \in [Handle -> [Target -> 0..2]]
          /\ h \in Handle /\ vault \in EnvelopeState
      BY <1>1, Resumed DEF IInv, TypeOK
    <3>2. StagedPin(s) \in Pin
      BY <2>2, <3>1 DEF Staged, StagedPin, EnvelopeState, StagedSecret, Envelope
    <3>3. [air[t] EXCEPT ![StagedPin(s)] = More(@)] \in [Pin -> 0..2]
      BY <1>3, <3>1, <3>2
    <3>4. [sent[h] EXCEPT ![t] = More(@)] \in [Target -> 0..2]
      BY <1>3, <3>1
    <3>5. slot' \in [Target -> Pin] /\ air' \in [Target -> [Pin -> 0..2]]
      BY <2>2, <3>1, <3>2, <3>3
    <3> QED BY <2>2, <3>1, <3>4, <3>5 DEF Send
  <2> QED BY <2>1, <2>2 DEF RequestReplacement
<1>5. ASSUME NEW a \in {"taken", "rejected", "unsupported"}, Answer(s, "answered", a)
      PROVE  IInv'
  <2> DEFINE y == [sess[s] EXCEPT !.pc = "answered", !.answer = a]
  <2>1. y \in Sessions /\ y.pc = "answered" /\ y.h = h /\ y.payload = sess[s].payload
    BY <1>1, Resumed DEF Sessions, Control
  <2>2. sess' = [sess EXCEPT ![s] = y]
    BY <1>5 DEF Answer
  <2> HIDE DEF y
  <2>3. Placed(y)
    BY <1>1, <2>1, Resumed DEF Placed, PlacedIn, BeforeStage, BeforeJournal, BeforeResume, AllConfirmed
  <2> QED BY <1>2, <1>4, <2>1, <2>2, <2>3, SessionMovesOn
<1>6. CASE End(s) /\ UNCHANGED <<slot, air, sent>>
  BY <1>2, <1>6, SessionEnds
<1> QED BY <1>5, <1>6 DEF RequestReplacement

LEMMA RecordKeeps ==
  ASSUME IInv, NEW s \in Session, NEW t \in Target, RecordAnswer(s, t) \/ RecordReadBack(s, t)
  PROVE  IInv'
<1>1. sess[s].pc \in {"answered", "verified"} /\ sess[s].pc \notin BeforeResume
  BY DEF RecordAnswer, RecordReadBack, At, BeforeStage, BeforeJournal, BeforeResume
<1>2. UNCHANGED <<vault, registry, slot, air, minted, sent, seen>>
  BY DEF RecordAnswer, RecordReadBack, world
<1>3. /\ "targets" \in Control /\ "targets" \notin BeforeJournal /\ "targets" \notin AllConfirmed
  BY DEF Control, BeforeStage, BeforeJournal, BeforeResume, AllConfirmed
<1>4. ASSUME NEW state \in TargetState, state # "confirmed", NEW retryable \in BOOLEAN,
             Pause(s, WithTarget(s, t, state), retryable)
      PROVE  IInv'
  <2> DEFINE p == WithTarget(s, t, state)
  <2>1. p \in Payload /\ p.expected = sess[s].payload.expected /\ Backed(sess[s].h, p)
    BY <1>1, <1>4, TargetRecorded
  <2>2. Pause(s, p, retryable)
    BY <1>4
  <2> HIDE DEF p
  <2> QED BY <1>1, <1>2, <2>1, <2>2, PauseKeeps
<1>5. ASSUME NEW state \in TargetState, state = "confirmed" => t \in seen[sess[s].h],
             Checkpoint(s, WithTarget(s, t, state), "targets")
      PROVE  IInv'
  <2> DEFINE p == WithTarget(s, t, state)
  <2>1. p \in Payload /\ p.expected = sess[s].payload.expected /\ Backed(sess[s].h, p)
    BY <1>1, <1>5, TargetRecorded
  <2>2. Checkpoint(s, p, "targets")
    BY <1>5
  <2> HIDE DEF p
  <2> QED BY <1>1, <1>2, <1>3, <2>1, <2>2, CheckpointKeeps
<1>6. CASE RecordAnswer(s, t)
  <2>1. \/ Pause(s, WithTarget(s, t, "request_rejected"), TRUE)
        \/ Pause(s, WithTarget(s, t, "unsupported"), FALSE)
        \/ Checkpoint(s, WithTarget(s, t, "verification_pending"), "targets")
    BY <1>6 DEF RecordAnswer
  <2> QED BY <1>4, <1>5, <2>1, TargetStates
<1>7. CASE RecordReadBack(s, t)
  <2>1. sess[s].answer = "confirmed" => t \in seen[sess[s].h]
    BY <1>7 DEF RecordReadBack, At, AtTarget, Unconfirmed, FirstOpen, IInv, SessionsInv, Placed, PlacedIn
  <2>2. \/ sess[s].answer = "confirmed" /\ Checkpoint(s, WithTarget(s, t, "confirmed"), "targets")
        \/ Pause(s, WithTarget(s, t, "verification_pending"), TRUE)
        \/ Pause(s, WithTarget(s, t, "unsupported"), FALSE)
    BY <1>7 DEF RecordReadBack
  <2> QED BY <1>4, <1>5, <2>1, <2>2, TargetStates
<1> QED BY <1>6, <1>7

\* A confirming read back adds the target to what was seen for the handle.
LEMMA ReadBackKeeps ==
  ASSUME IInv, NEW s \in Session, NEW t \in Target, ReadBack(s, t)
  PROVE  IInv'
<1> DEFINE h == sess[s].h
<1>1. sess[s].pc \notin BeforeResume
  BY DEF ReadBack, At, BeforeStage, BeforeJournal, BeforeResume
<1>2. UNCHANGED <<vault, journal, registry, slot, air, minted, sent>>
  BY DEF ReadBack
<1>3. "verified" \in Control /\ "verified" \notin BeforeResume /\ "verified" \notin AllConfirmed
  BY DEF Control, BeforeStage, BeforeJournal, BeforeResume, AllConfirmed
<1>4. CASE End(s) /\ UNCHANGED seen
  BY <1>2, <1>4, SessionEnds
<1>5. ASSUME NEW a \in {"unconfirmed", "unsupported"}, Answer(s, "verified", a), UNCHANGED seen
      PROVE  IInv'
  BY <1>1, <1>2, <1>3, <1>5, GoesOn DEF Answer
<1>6. CASE /\ Answer(s, "verified", "confirmed")
           /\ seen' = [seen EXCEPT ![h] = @ \cup {t}]
  <2> DEFINE y == [sess[s] EXCEPT !.pc = "verified", !.answer = "confirmed"]
  <2>1. y \in Sessions /\ y.pc = "verified" /\ y.h = h /\ y.payload = sess[s].payload
    BY <1>1, <1>3, Resumed DEF Sessions
  <2>2. \A r \in Session : sess'[r] = IF r = s THEN y ELSE sess[r]
    BY <1>6 DEF IInv, TypeOK, Answer
  <2>3. /\ seen' \in [Handle -> SUBSET Target] /\ t \in seen'[h]
        /\ \A g \in Handle : seen[g] \subseteq seen'[g]
    BY <1>1, <1>6, Resumed DEF IInv, TypeOK
  <2>4. \A g \in Handle : seen[g] = Target => seen'[g] = Target
    BY <2>3
  <2> HIDE DEF y
  <2>5. TypeOK'
    <3>1. sess' = [sess EXCEPT ![s] = y]
      BY <1>6 DEF Answer, y
    <3> QED BY <1>2, <2>1, <2>3, <3>1 DEF IInv, TypeOK
  <2>6. VaultInv'
    BY <1>2, <2>4 DEF IInv, VaultInv, Exists
  <2>7. \A g \in Handle : \A q : Backed(g, q) => Backed(g, q)'
    BY <1>2, <2>3, <2>4 DEF Backed, Promoted
  <2>8. JournalInv'
    BY <1>2, <2>7 DEF IInv, JournalInv, Backed, Promoted
  <2>9. RegistryInv'
    BY <1>2 DEF IInv, RegistryInv, Promoted
  <2>10. ASSUME NEW r \in Session, r # s PROVE Placed(sess[r])'
    <3>1. sess'[r] = sess[r] /\ Placed(sess[r])
      BY <2>2, <2>10 DEF IInv, SessionsInv
    <3>2. sess[r].pc \notin BeforeStage => Backed(sess[r].h, sess[r].payload)'
      BY <1>2, <2>7, <3>1 DEF Placed, PlacedIn, Backed, Promoted
    <3>3. \A pc \in AllConfirmed \cup {"verified"} : pc \notin BeforeStage
      BY DEF AllConfirmed, BeforeStage
    <3> QED BY <1>2, <2>3, <2>4, <3>1, <3>2, <3>3 DEF Placed, PlacedIn, Promoted, FirstOpen, Fresh, Backed
  <2>11. Placed(sess[s])'
    <3>1. \A u \in Target : FirstOpen(sess[s].payload, u) => u = t
      BY DEF ReadBack, AtTarget, Unconfirmed, FirstOpen, Target
    <3>2. /\ sess'[s].pc = "verified" /\ sess'[s].h = h
          /\ sess'[s].payload = sess[s].payload
      BY <2>1, <2>2
    <3>3. Backed(sess[s].h, sess[s].payload)'
      BY <1>1, <1>2, <2>3, <2>4, <3>2, Resumed DEF Backed, Promoted
    <3>4. \A u \in Target : FirstOpen(sess[s].payload, u)' => u = t
      BY <3>1, <3>2 DEF FirstOpen
    <3> QED BY <1>1, <1>2, <1>3, <2>3, <3>2, <3>3, <3>4, Resumed
            DEF Placed, PlacedIn, BeforeResume, BeforeJournal, Backed, Promoted, FirstOpen
  <2>12. ASSUME NEW q \in Session, NEW r \in Session, sess'[q].pc = "create", r # q
         PROVE  sess'[r].h # sess'[q].h
    BY <2>1, <2>2, <2>12 DEF IInv, SessionsInv
  <2>13. SessionsInv'
    BY <2>10, <2>11, <2>12 DEF SessionsInv
  <2> QED BY <2>5, <2>6, <2>8, <2>9, <2>13 DEF IInv
<1> QED BY <1>4, <1>5, <1>6 DEF ReadBack

-----------------------------------------------------------------------------
(* Promotion and finalization                                               *)

\* Advancing the phase to one whose claim holds.
LEMMA PhaseRecorded ==
  ASSUME IInv, NEW s \in Session, sess[s].pc \notin BeforeResume, NEW phase \in Phase,
         phase \in {"verification_confirmed", "promotion_pending"},
         seen[sess[s].h] = Target
  PROVE  /\ WithPhase(s, phase) \in Payload
         /\ WithPhase(s, phase).expected = sess[s].payload.expected
         /\ Backed(sess[s].h, WithPhase(s, phase))
<1> DEFINE q == WithPhase(s, phase)
<1>1. /\ q \in Payload /\ q.expected = sess[s].payload.expected
      /\ q.target = sess[s].payload.target /\ q.phase = phase
  BY Resumed DEF WithPhase, Payload
<1> HIDE DEF q
<1>2. Backed(sess[s].h, q)
  BY <1>1, Resumed DEF Backed
<1> QED BY <1>1, <1>2 DEF q

LEMMA ConfirmKeeps ==
  ASSUME IInv, NEW s \in Session,
         \/ FinishTargets(s) \/ RevalidatePromotion(s) \/ IntendPromotion(s)
         \/ FinalizeCheck(s) \/ PauseRetryable(s) \/ PauseStale(s)
  PROVE  IInv'
<1>1. sess[s].pc \notin BeforeResume
  BY DEF FinishTargets, RevalidatePromotion, IntendPromotion, FinalizeCheck,
         PauseRetryable, PauseStale, At, BeforeStage, BeforeJournal, BeforeResume
<1>2. UNCHANGED <<vault, registry, slot, air, minted, sent, seen>>
  BY DEF FinishTargets, RevalidatePromotion, IntendPromotion, FinalizeCheck,
         PauseRetryable, PauseStale, world
<1>3. /\ {"revalidate", "promote", "intend_promotion", "stale", "commit"} \subseteq Control
      /\ \A pc \in {"revalidate", "promote", "intend_promotion", "stale", "commit"} :
           pc \notin BeforeResume /\ pc \notin BeforeJournal
      /\ "stale" \notin AllConfirmed
      /\ {"verification_confirmed", "promotion_pending"} \subseteq Phase
  BY DEF Control, BeforeStage, BeforeJournal, BeforeResume, AllConfirmed, Phase
<1>4. sess[s].pc \in AllConfirmed => seen[sess[s].h] = Target
  BY DEF IInv, SessionsInv, Placed, PlacedIn
<1>5. CASE FinishTargets(s)
  <2> DEFINE p == WithPhase(s, "verification_confirmed")
  <2>1. seen[sess[s].h] = Target
    <3>1. \A t \in Target : sess[s].payload.target[t] = "confirmed"
      BY <1>5 DEF FinishTargets, Unconfirmed
    <3>2. \A t \in Target : t \in seen[sess[s].h]
      BY <1>1, <3>1, Resumed DEF Backed
    <3>3. seen[sess[s].h] \subseteq Target
      BY <1>1, Resumed DEF IInv, TypeOK
    <3> QED BY <3>2, <3>3
  <2>2. p \in Payload /\ p.expected = sess[s].payload.expected /\ Backed(sess[s].h, p)
    BY <1>1, <1>3, <2>1, PhaseRecorded
  <2>3. Checkpoint(s, p, "revalidate")
    BY <1>5 DEF FinishTargets
  <2> HIDE DEF p
  <2> QED BY <1>1, <1>2, <1>3, <2>1, <2>2, <2>3, CheckpointKeeps
<1>6. CASE RevalidatePromotion(s)
  <2>1. sess[s].pc \in AllConfirmed /\ UNCHANGED journal
    BY <1>6 DEF RevalidatePromotion, At, AllConfirmed
  <2>2. GoTo(s, "intend_promotion") \/ GoTo(s, "stale")
    BY <1>6 DEF RevalidatePromotion
  <2> QED BY <1>1, <1>2, <1>3, <1>4, <2>1, <2>2, GoesOnTo
<1>7. CASE IntendPromotion(s)
  <2> DEFINE p == WithPhase(s, "promotion_pending")
  <2>1. seen[sess[s].h] = Target
    BY <1>4, <1>7 DEF IntendPromotion, At, AllConfirmed
  <2>2. p \in Payload /\ p.expected = sess[s].payload.expected /\ Backed(sess[s].h, p)
    BY <1>1, <1>3, <2>1, PhaseRecorded
  <2>3. Checkpoint(s, p, "promote")
    BY <1>7 DEF IntendPromotion
  <2> HIDE DEF p
  <2> QED BY <1>1, <1>2, <1>3, <2>1, <2>2, <2>3, CheckpointKeeps
<1>8. CASE FinalizeCheck(s)
  <2>1. /\ sess[s].pc \in AllConfirmed /\ UNCHANGED journal
        /\ Promoted(sess[s].h, sess[s].payload.promoted)
    BY <1>8 DEF FinalizeCheck, At, AllConfirmed, IInv, SessionsInv, Placed, PlacedIn
  <2>2. GoTo(s, "commit") \/ GoTo(s, "stale")
    BY <1>8 DEF FinalizeCheck
  <2> QED BY <1>1, <1>2, <1>3, <1>4, <2>1, <2>2, GoesOnTo
<1>9. CASE PauseRetryable(s) \/ PauseStale(s)
  <2>1. Pause(s, sess[s].payload, TRUE) \/ Pause(s, sess[s].payload, FALSE)
    BY <1>9 DEF PauseRetryable, PauseStale
  <2>2. sess[s].payload \in Payload /\ Backed(sess[s].h, sess[s].payload)
    BY <1>1, Resumed
  <2> QED BY <1>1, <1>2, <2>1, <2>2, PauseKeeps
<1> QED BY <1>5, <1>6, <1>7, <1>8, <1>9

\* Promotion needs every target confirmed; it consumes the only stage.
LEMMA PromotePinKeeps ==
  ASSUME IInv, NEW s \in Session, PromotePin(s)
  PROVE  IInv'
<1> DEFINE h == sess[s].h
           next == sess[s].payload.expected + 1
<1>1. sess[s].pc = "promote" /\ sess[s].pc \notin BeforeResume
  BY DEF PromotePin, At, BeforeStage, BeforeJournal, BeforeResume
<1>2. seen[h] = Target
  BY <1>1 DEF IInv, SessionsInv, Placed, PlacedIn, AllConfirmed
<1>3. UNCHANGED <<journal, registry, slot, air, minted, sent, seen>>
  BY DEF PromotePin, world
<1>4. /\ {"record_promotion", "stale", "pause"} \subseteq Control
      /\ \A pc \in {"record_promotion", "stale", "pause"} : pc \notin BeforeResume
      /\ "stale" \notin AllConfirmed /\ "pause" \notin AllConfirmed
  BY DEF Control, BeforeStage, BeforeJournal, BeforeResume, AllConfirmed
<1>5. CASE GoTo(s, "pause") /\ UNCHANGED vault
  BY <1>1, <1>2, <1>3, <1>4, <1>5, GoesOnTo
<1>6. CASE /\ AlreadyPromoted(vault, h)
           /\ GoTo(s, IF vault.receipts[h].rev = next THEN "record_promotion" ELSE "stale")
           /\ UNCHANGED vault
  <2>1. vault.receipts[h].rev = next => Promoted(h, next)
    BY <1>6 DEF AlreadyPromoted, Promoted
  <2> QED BY <1>1, <1>2, <1>3, <1>4, <1>6, <2>1, GoesOnTo
<1>7. CASE /\ CanPromote(vault, h)
           /\ GoTo(s, IF vault.staged[h].expected + 1 = next THEN "record_promotion" ELSE "stale")
           /\ vault' = Promote(vault, h, vault.staged[h].env)
  <2> DEFINE e == vault.staged[h].env
             r == vault.staged[h].expected + 1
             new == [cred |-> Cred, rev |-> r]
             pc == IF r = next THEN "record_promotion" ELSE "stale"
             y == [sess[s] EXCEPT !.pc = pc]
  <2>1. vault \in EnvelopeState /\ h \in Handle
    BY <1>1, Resumed DEF IInv, TypeOK
  <2>2. /\ vault.staged[h] # None /\ vault.staged[h].cred = Cred /\ e \in Envelope
        /\ r \in Nat /\ r = vault.rev[Cred] + 1 /\ vault.rev[Cred] \in Nat
        /\ vault.receipts[h] = None /\ e # None
    BY <1>7, <2>1, Assumptions DEF CanPromote, AlreadyPromoted, EnvelopeState, StagedSecret, Credential, Envelope
  <2>3. new \in PromotionReceipt /\ new # None /\ new.rev = r
    BY <2>2, Assumptions DEF PromotionReceipt, Credential
  <2>4. vault' = [env      |-> [vault.env EXCEPT ![Cred] = e],
                  rev      |-> [vault.rev EXCEPT ![Cred] = r],
                  staged   |-> [vault.staged EXCEPT ![h] = None],
                  receipts |-> [vault.receipts EXCEPT ![h] = new]]
    BY <1>7, <2>2 DEF Promote
  <2>5. /\ [vault.env EXCEPT ![Cred] = e] \in [Credential -> Envelope \cup {None}]
        /\ [vault.rev EXCEPT ![Cred] = r] \in [Credential -> Nat]
        /\ [vault.staged EXCEPT ![h] = None] \in [Handle -> StagedSecret \cup {None}]
        /\ [vault.receipts EXCEPT ![h] = new] \in [Handle -> PromotionReceipt \cup {None}]
    BY <2>1, <2>2, <2>3 DEF EnvelopeState
  <2>6. /\ vault'.env[Cred] = e /\ vault'.rev[Cred] = r
        /\ \A g \in Handle : vault'.staged[g] = None
        /\ vault'.receipts[h] = new
        /\ \A g \in Handle \ {h} : vault'.receipts[g] = vault.receipts[g]
    <3>1. \A g \in Handle \ {h} : vault.staged[g] = None
      BY <2>1, <2>2 DEF IInv, VaultInv
    <3> HIDE DEF new, r, e
    <3> QED BY <2>1, <2>4, <3>1 DEF EnvelopeState, Credential
  <2>7. y \in Sessions /\ y.pc = pc /\ y.h = h /\ y.payload = sess[s].payload
    BY <1>1, <1>4, Resumed DEF Sessions
  <2>8. sess' = [sess EXCEPT ![s] = y]
    BY <1>7 DEF GoTo
  <2>10. pc \in {"record_promotion", "stale"} /\ (pc = "record_promotion" => r = next)
    OBVIOUS
  <2> HIDE DEF new, r, e, y, pc
  <2>11. vault' \in EnvelopeState
    BY <2>4, <2>5 DEF EnvelopeState
  <2>12. TypeOK'
    BY <1>3, <2>7, <2>8, <2>11 DEF IInv, TypeOK
  <2>13. \A g \in Handle : vault.receipts[g] # None => vault'.receipts[g] = vault.receipts[g]
    BY <2>2, <2>6
  <2>14. VaultInv'
    <3>1. Exists(vault, Cred)' /\ vault'.rev[Cred] >= 1
      BY <2>2, <2>6 DEF Exists
    <3>2. \A g \in Handle : vault'.receipts[g] # None =>
            /\ g <= minted /\ vault'.receipts[g].rev <= vault'.rev[Cred] /\ seen[g] = Target
      <4> SUFFICES ASSUME NEW g \in Handle, vault'.receipts[g] # None
                   PROVE  /\ g <= minted /\ vault'.receipts[g].rev <= vault'.rev[Cred]
                          /\ seen[g] = Target
        OBVIOUS
      <4>1. CASE g = h
        BY <1>1, <1>2, <2>2, <2>3, <2>6, <4>1, Resumed
      <4>2. CASE g # h
        <5>1. vault.receipts[g].rev \in Nat /\ vault.receipts[g] # None
              /\ vault'.receipts[g] = vault.receipts[g]
          BY <2>1, <2>6, <4>2 DEF EnvelopeState, PromotionReceipt
        <5> QED BY <2>2, <2>6, <5>1 DEF IInv, VaultInv
      <4> QED BY <4>1, <4>2
    <3> QED BY <1>3, <2>6, <3>1, <3>2 DEF VaultInv
  <2>15. \A g \in Handle : \A q : Backed(g, q) => Backed(g, q)'
    BY <1>3, <2>13 DEF Backed, Promoted
  <2>16. JournalInv'
    BY <1>3, <2>13 DEF IInv, JournalInv, Backed, Promoted
  <2>17. RegistryInv'
    BY <1>3, <2>13 DEF IInv, RegistryInv, Promoted
  <2>18. \A q \in Session : sess'[q] = IF q = s THEN y ELSE sess[q]
    BY <2>8 DEF IInv, TypeOK
  <2>19. ASSUME NEW q \in Session, q # s PROVE Placed(sess[q])'
    <3>1. sess'[q] = sess[q] /\ Placed(sess[q])
      BY <2>18, <2>19 DEF IInv, SessionsInv
    <3>2. \A a \in {"record_promotion", "finalize", "commit", "intend", "request"} :
            a \notin BeforeStage
      BY DEF BeforeStage
    <3> QED BY <1>3, <2>6, <2>13, <3>1, <3>2 DEF Placed, PlacedIn, Backed, Promoted, Fresh, FirstOpen
  <2>20. Placed(sess[s])'
    <3>1. sess'[s].pc = pc /\ sess'[s].h = h /\ sess'[s].payload = sess[s].payload
      BY <2>7, <2>18
    <3>2. Backed(sess[s].h, sess[s].payload)'
      BY <1>1, <1>3, <2>13, <3>1, Resumed DEF Backed, Promoted
    <3>3. pc = "record_promotion" => Promoted(sess[s].h, sess[s].payload.expected + 1)'
      BY <2>3, <2>6, <2>10, <3>1 DEF Promoted
    <3>4. pc \notin BeforeStage /\ pc \notin BeforeJournal /\ pc \notin BeforeResume
          /\ pc \notin {"create", "verified", "finalize", "commit", "intend", "request"}
      BY <2>10 DEF BeforeStage, BeforeJournal, BeforeResume
    <3> QED BY <1>1, <1>2, <1>3, <3>1, <3>2, <3>3, <3>4, Resumed DEF Placed, PlacedIn
  <2>21. ASSUME NEW q \in Session, NEW w \in Session, sess'[q].pc = "create", w # q
         PROVE  sess'[w].h # sess'[q].h
    BY <2>7, <2>10, <2>18, <2>21 DEF IInv, SessionsInv
  <2>22. SessionsInv'
    BY <2>19, <2>20, <2>21 DEF SessionsInv
  <2> QED BY <2>12, <2>14, <2>16, <2>17, <2>22 DEF IInv
<1> QED BY <1>5, <1>6, <1>7 DEF PromotePin

LEMMA RecordPromotionKeeps ==
  ASSUME IInv, NEW s \in Session, RecordPromotion(s)
  PROVE  IInv'
<1> DEFINE n == sess[s].payload.expected + 1
           w == WithPhase(s, "vault_promoted")
           p == [w EXCEPT !.promoted = n]
<1>1. sess[s].pc = "record_promotion" /\ sess[s].pc \notin BeforeResume
  BY DEF RecordPromotion, At, BeforeStage, BeforeJournal, BeforeResume
<1>2. seen[sess[s].h] = Target /\ Promoted(sess[s].h, n)
  BY <1>1 DEF IInv, SessionsInv, Placed, PlacedIn, AllConfirmed
<1>3. w \in Payload /\ w.expected = sess[s].payload.expected /\ w.phase = "vault_promoted"
      /\ w.target = sess[s].payload.target
  BY <1>1, Resumed DEF WithPhase, Payload, Phase
<1>4. n \in Nat
  BY <1>1, Resumed DEF Payload
<1> HIDE DEF w, n
<1>5. p \in Payload /\ p.expected = sess[s].payload.expected /\ p.phase = "vault_promoted"
      /\ p.target = sess[s].payload.target /\ p.promoted = n
  BY <1>3, <1>4 DEF Payload
<1>6. Checkpoint(s, p, "finalize") /\ UNCHANGED <<vault, registry, slot, air, minted, sent, seen>>
  BY DEF RecordPromotion, world, w, n
<1> HIDE DEF p
<1>7. Backed(sess[s].h, p)
  BY <1>1, <1>2, <1>5, Resumed DEF Backed
<1>8. "finalize" \in Control /\ "finalize" \notin BeforeJournal
  BY DEF Control, BeforeStage, BeforeJournal
<1> QED BY <1>1, <1>2, <1>5, <1>6, <1>7, <1>8, CheckpointKeeps

LEMMA FinalizeCommitKeeps ==
  ASSUME IInv, NEW s \in Session, FinalizeCommit(s)
  PROVE  IInv'
<1> DEFINE h == sess[s].h
           w == WithPhase(s, "completed")
           p == [w EXCEPT !.resumable = FALSE]
           op == [status |-> "completed", retries |-> 0, payload |-> p]
           j == [journal EXCEPT ![h] = op]
<1>1. sess[s].pc = "commit" /\ sess[s].pc \notin BeforeResume
  BY DEF FinalizeCommit, At, BeforeStage, BeforeJournal, BeforeResume
<1>2. seen[h] = Target /\ Promoted(h, sess[s].payload.promoted)
  BY <1>1 DEF IInv, SessionsInv, Placed, PlacedIn, AllConfirmed
<1>3. UNCHANGED <<vault, slot, air, minted, sent, seen>>
  BY DEF FinalizeCommit
<1>4. /\ w \in Payload /\ w.expected = sess[s].payload.expected /\ w.phase = "completed"
      /\ w.target = sess[s].payload.target /\ w.promoted = sess[s].payload.promoted
  BY <1>1, Resumed DEF WithPhase, Payload, Phase
<1> HIDE DEF w
<1>5. /\ p \in Payload /\ p.expected = sess[s].payload.expected /\ p.phase = "completed"
      /\ p.target = sess[s].payload.target /\ p.promoted = sess[s].payload.promoted
  BY <1>4 DEF Payload
<1> HIDE DEF p
<1>6. Backed(h, p)
  BY <1>1, <1>2, <1>5, Resumed DEF Backed
<1>7. CASE /\ registry' = [registry EXCEPT
                !.version = registry.version + 1,
                !.rev = [t \in Target |-> FinalRevision(s)]]
           /\ StoreOperation(s, op, Idle)
  <2>1. op \in Operation(Payload) /\ op.payload = p
    BY <1>5, Assumptions DEF Operation, OperationStatus, RetryCount
  <2>2. Idle \in Sessions /\ Idle.h = None /\ Idle.pc = "idle" /\ Fresh(Idle.payload)
    BY DEF NoPayload, Payload, Phase, TargetState, Idle, Sessions, Control, Fresh
  <2>3. PlacedIn(Idle, j)
    BY <2>2 DEF PlacedIn, BeforeStage, BeforeJournal, BeforeResume, AllConfirmed
  <2>4. sess[s].payload.promoted \in Nat
    BY <1>1, Resumed DEF Payload
  <2>5. /\ registry' \in [version : Nat, edits : 0..MaxEdits, rev : [Target -> Nat]]
        /\ \A t \in Target : registry'.rev[t] = sess[s].payload.promoted
    <3> DEFINE rev == [t \in Target |-> FinalRevision(s)]
    <3>1. rev \in [Target -> Nat] /\ \A t \in Target : rev[t] = sess[s].payload.promoted
      BY <2>4 DEF FinalRevision
    <3>2. registry \in [version : Nat, edits : 0..MaxEdits, rev : [Target -> Nat]]
      BY DEF IInv, TypeOK
    <3>3. registry' = [registry EXCEPT !.version = registry.version + 1, !.rev = rev]
      BY <1>7
    <3> HIDE DEF rev
    <3>4. registry' = [version |-> registry.version + 1, edits |-> registry.edits, rev |-> rev]
      BY <3>2, <3>3
    <3>5. registry.version + 1 \in Nat /\ registry.edits \in 0..MaxEdits
      BY <3>2
    <3> QED BY <3>1, <3>4, <3>5
  <2>6. RegistryInv'
    BY <1>1, <1>2, <1>3, <2>5, Resumed DEF RegistryInv, Promoted
  <2>7. journal[h].payload.expected = op.payload.expected /\ journal[h] # None
    BY <1>1, <1>5, <2>1, Resumed
  <2>8. h \in Handle /\ sess[s].pc \notin BeforeStage
    BY <1>1, Resumed
  <2> HIDE DEF op
  <2> QED BY <1>3, <1>6, <1>7, <2>1, <2>2, <2>3, <2>5, <2>6, <2>7, <2>8, OperationWritten
<1>8. CASE /\ GoTo(s, "pause") \/ GoTo(s, "stale")
           /\ UNCHANGED <<registry, journal>>
  <2>1. /\ {"stale", "pause"} \subseteq Control
        /\ \A pc \in {"stale", "pause"} : pc \notin BeforeResume /\ pc \notin AllConfirmed
    BY DEF Control, BeforeStage, BeforeJournal, BeforeResume, AllConfirmed
  <2> QED BY <1>1, <1>3, <1>8, <2>1, GoesOnTo
<1>9. \/ /\ registry' = [registry EXCEPT
                !.version = registry.version + 1,
                !.rev = [t \in Target |-> FinalRevision(s)]]
         /\ StoreOperation(s, op, Idle)
      \/ /\ GoTo(s, "pause") \/ GoTo(s, "stale")
         /\ UNCHANGED <<registry, journal>>
  BY DEF FinalizeCommit, p, w
<1> QED BY <1>7, <1>8, <1>9

-----------------------------------------------------------------------------
(* The world around the service                                             *)

LEMMA WorldKeeps ==
  ASSUME IInv,
         \/ \E t \in Target, p \in Pin : Deliver(t, p)
         \/ EditRegistry \/ UNCHANGED vars
  PROVE  IInv'
<1>1. /\ UNCHANGED <<vault, journal, sess, minted, sent, seen>>
      /\ registry'.rev = registry.rev
  BY DEF Deliver, EditRegistry, vars, IInv, TypeOK
<1>2. registry' \in [version : Nat, edits : 0..MaxEdits, rev : [Target -> Nat]]
  <2>1. CASE EditRegistry
    <3>1. registry \in [version : Nat, edits : 0..MaxEdits, rev : [Target -> Nat]]
      BY DEF IInv, TypeOK
    <3>2. registry.version + 1 \in Nat /\ registry.edits + 1 \in 0..MaxEdits
      BY <2>1, <3>1, Assumptions DEF EditRegistry
    <3> QED BY <2>1, <3>1, <3>2 DEF EditRegistry
  <2>2. CASE UNCHANGED registry
    BY <2>2 DEF IInv, TypeOK
  <2> QED BY <2>1, <2>2 DEF Deliver, vars
<1>3. slot' \in [Target -> Pin] /\ air' \in [Target -> [Pin -> 0..2]]
  <2>1. ASSUME NEW t \in Target, NEW p \in Pin, Deliver(t, p)
        PROVE  slot' \in [Target -> Pin] /\ air' \in [Target -> [Pin -> 0..2]]
    <3>1. slot \in [Target -> Pin] /\ air \in [Target -> [Pin -> 0..2]]
      BY DEF IInv, TypeOK
    <3>2. air[t][p] - 1 \in 0..2
      BY <2>1, <3>1 DEF Deliver
    <3>3. [air[t] EXCEPT ![p] = @ - 1] \in [Pin -> 0..2]
      BY <3>1, <3>2
    <3> QED BY <2>1, <3>1, <3>3 DEF Deliver
  <2> QED BY <2>1 DEF EditRegistry, vars, IInv, TypeOK
<1>4. TypeOK'
  BY <1>1, <1>2, <1>3 DEF IInv, TypeOK
<1>5. VaultInv' /\ JournalInv' /\ RegistryInv'
  BY <1>1 DEF IInv, VaultInv, Exists, JournalInv, Backed, Promoted, RegistryInv
<1>6. SessionsInv'
  BY <1>1 DEF IInv, SessionsInv, Placed, PlacedIn, Fresh, FirstOpen, Backed, Promoted
<1> QED BY <1>4, <1>5, <1>6 DEF IInv

LEMMA CrashKeeps ==
  ASSUME IInv, Crash
  PROVE  IInv'
<1>1. UNCHANGED <<vault, journal, registry, slot, air, minted, sent, seen>>
  BY DEF Crash, world
<1>2. Idle \in Sessions /\ Idle.h = None /\ Idle.pc = "idle" /\ Fresh(Idle.payload)
  BY DEF NoPayload, Payload, Phase, TargetState, Idle, Sessions, Control, Fresh
<1>3. TypeOK'
  BY <1>1, <1>2 DEF Crash, IInv, TypeOK
<1>4. VaultInv' /\ JournalInv' /\ RegistryInv'
  BY <1>1 DEF IInv, VaultInv, Exists, JournalInv, Backed, Promoted, RegistryInv
<1>5. \A s \in Session : sess'[s] = Idle
  BY DEF Crash
<1>6. SessionsInv'
  BY <1>2, <1>5 DEF SessionsInv, Placed, PlacedIn, Fresh,
     BeforeStage, BeforeJournal, BeforeResume, AllConfirmed
<1> QED BY <1>3, <1>4, <1>6 DEF IInv

-----------------------------------------------------------------------------
LEMMA NextInv == IInv /\ [Next]_vars => IInv'
<1> SUFFICES ASSUME IInv, [Next]_vars PROVE IInv'
  OBVIOUS
<1>1. ASSUME NEW s \in Session, BeginReplace(s) PROVE IInv'
  BY <1>1, BeginKeeps
<1>2. ASSUME NEW s \in Session, BeginRetry(s) PROVE IInv'
  BY <1>2, ResumeKeeps
<1>3. ASSUME NEW s \in Session, SessionStep(s) PROVE IInv'
  <2>1. ASSUME CaptureRegistry(s) \/ CaptureRevision(s) PROVE IInv'
    BY <2>1, BeginKeeps
  <2>2. ASSUME NEW p \in Pin, StagePin(s, p) PROVE IInv'
    BY <2>2, StagePinKeeps
  <2>3. ASSUME CreateOperation(s) \/ DiscardStage(s) \/ PersistIntent(s) PROVE IInv'
    BY <2>3, CreateKeeps, DiscardKeeps, PersistIntentKeeps
  <2>4. ASSUME LoadOperation(s) \/ MarkRunning(s) PROVE IInv'
    BY <2>4, ResumeKeeps
  <2>5. ASSUME TargetStep(s) PROVE IInv'
    BY <2>5, IntendKeeps, RequestKeeps, RecordKeeps, ReadBackKeeps DEF TargetStep
  <2>6. ASSUME \/ FinishTargets(s) \/ RevalidatePromotion(s) \/ IntendPromotion(s)
               \/ FinalizeCheck(s) \/ PauseRetryable(s) \/ PauseStale(s)
        PROVE  IInv'
    BY <2>6, ConfirmKeeps
  <2>7. ASSUME PromotePin(s) \/ RecordPromotion(s) \/ FinalizeCommit(s) PROVE IInv'
    BY <2>7, PromotePinKeeps, RecordPromotionKeeps, FinalizeCommitKeeps
  <2> QED BY <1>3, <2>1, <2>2, <2>3, <2>4, <2>5, <2>6, <2>7 DEF SessionStep
<1> QED BY <1>1, <1>2, <1>3, WorldKeeps, CrashKeeps DEF Next

\* The inductive invariant holds throughout.
THEOREM Invariance == Spec => []IInv
BY InitInv, NextInv, PTL DEF Spec

\* The state is always of its type, with any number of sessions.
THEOREM TypeCorrect == Spec => []TypeOK
<1>1. IInv => TypeOK
  BY DEF IInv
<1> QED BY <1>1, Invariance, PTL

\* No PIN becomes the authoritative one before every access point that holds the
\* person's PIN was seen to hold it, however sessions interleave and whenever the
\* process ends.
THEOREM PromotionConfirmed == Spec => []PromotedOnlyIfConfirmed
<1>1. IInv => PromotedOnlyIfConfirmed
  BY DEF IInv, VaultInv, PromotedOnlyIfConfirmed
<1> QED BY <1>1, Invariance, PTL

\* The access registry never runs ahead of the vault.
THEOREM RegistryNeverAhead == Spec => []RegistryFollowsVault
<1>1. IInv => RegistryFollowsVault
  <2> SUFFICES ASSUME IInv, NEW t \in Target
               PROVE  /\ registry.rev[t] <= vault.rev[Cred]
                      /\ registry.rev[t] > 1 =>
                           \E h \in Handle : /\ vault.receipts[h] # None
                                             /\ vault.receipts[h].rev = registry.rev[t]
                                             /\ t \in seen[h]
    BY DEF RegistryFollowsVault
  <2>1. registry.rev[t] = 1 \/ \E h \in Handle : Promoted(h, registry.rev[t])
    BY DEF IInv, RegistryInv
  <2> QED BY <2>1 DEF IInv, VaultInv, Promoted
<1> QED BY <1>1, Invariance, PTL

\* A PIN is sent only against the vault revision its replacement was made for.
THEOREM CommandsCurrent == Spec => NoStaleCommand
<1> DEFINE Fine == \A h \in Handle, t \in Target : sent'[h][t] > sent[h][t] =>
                     journal[h].payload.expected = vault.rev[Cred]
<1>1. IInv /\ [Next]_vars => [Fine]_vars
  <2> SUFFICES ASSUME IInv, Next PROVE Fine
    OBVIOUS
  <2>1. ASSUME NEW s \in Session, NEW t \in Target, RequestReplacement(s, t) PROVE Fine
    <3> DEFINE h == sess[s].h
    <3>1. sess[s].pc = "request" /\ sess[s].pc \notin BeforeResume
      BY <2>1 DEF RequestReplacement, At, BeforeStage, BeforeJournal, BeforeResume
    <3>2. sent \in [Handle -> [Target -> 0..2]] /\ h \in Handle
      BY <3>1, Resumed DEF IInv, TypeOK
    <3>3. CASE UNCHANGED sent
      BY <3>2, <3>3
    <3>4. CASE Staged(s) /\ Send(s, t)
      <4>1. journal[h].payload.expected = vault.rev[Cred]
        BY <3>1, <3>4, Resumed DEF Staged, IInv, SessionsInv, Placed, PlacedIn
      <4>2. \A g \in Handle, u \in Target : g # h => sent'[g][u] = sent[g][u]
        BY <3>2, <3>4 DEF Send
      <4>3. \A g \in Handle, u \in Target : sent[g][u] \in Nat
        BY <3>2
      <4> QED BY <4>1, <4>2, <4>3
    <3> QED BY <2>1, <3>3, <3>4 DEF RequestReplacement
  <2>2. CASE UNCHANGED sent
    BY <2>2 DEF IInv, TypeOK
  <2>3. ASSUME NEW s \in Session, BeginReplace(s) \/ BeginRetry(s) PROVE UNCHANGED sent
    BY <2>3 DEF BeginReplace, BeginRetry, world
  <2>4. ASSUME NEW s \in Session, NEW p \in Pin, StagePin(s, p) PROVE UNCHANGED sent
    BY <2>4 DEF StagePin
  <2>5. ASSUME NEW s \in Session,
               \/ CaptureRegistry(s) \/ CaptureRevision(s) \/ CreateOperation(s)
               \/ DiscardStage(s) \/ PersistIntent(s) \/ LoadOperation(s) \/ MarkRunning(s)
               \/ FinishTargets(s) \/ RevalidatePromotion(s) \/ IntendPromotion(s)
        PROVE  UNCHANGED sent
    BY <2>5 DEF CaptureRegistry, CaptureRevision, CreateOperation, DiscardStage, PersistIntent,
       LoadOperation, MarkRunning, FinishTargets, RevalidatePromotion, IntendPromotion, world
  <2>6. ASSUME NEW s \in Session,
               \/ PromotePin(s) \/ RecordPromotion(s) \/ FinalizeCheck(s)
               \/ FinalizeCommit(s) \/ PauseRetryable(s) \/ PauseStale(s)
        PROVE  UNCHANGED sent
    BY <2>6 DEF PromotePin, RecordPromotion, FinalizeCheck, FinalizeCommit,
       PauseRetryable, PauseStale, world
  <2>7. ASSUME NEW s \in Session, NEW t \in Target,
               \/ AssumeDispatched(s, t) \/ RevalidateTarget(s, t) \/ IntendRequest(s, t)
               \/ RecordAnswer(s, t) \/ ReadBack(s, t) \/ RecordReadBack(s, t)
        PROVE  UNCHANGED sent
    BY <2>7 DEF AssumeDispatched, RevalidateTarget, IntendRequest, RecordAnswer,
       ReadBack, RecordReadBack, world
  <2>8. (\E t \in Target, p \in Pin : Deliver(t, p)) \/ EditRegistry \/ Crash => UNCHANGED sent
    BY DEF Deliver, EditRegistry, Crash, world
  <2> HIDE DEF Fine
  <2>9. ASSUME NEW s \in Session, SessionStep(s) PROVE Fine
    <3>1. ASSUME TargetStep(s) PROVE Fine
      BY <2>1, <2>2, <2>7, <3>1 DEF TargetStep
    <3> QED BY <2>2, <2>4, <2>5, <2>6, <2>9, <3>1 DEF SessionStep
  <2> QED BY <2>2, <2>3, <2>8, <2>9 DEF Next
<1> QED BY <1>1, Invariance, PTL DEF Spec, NoStaleCommand

-----------------------------------------------------------------------------
(* One call at a time.  Nothing keeps two calls of the service from working *)
(* on one operation, and then a lock may be sent the PIN twice; as long as  *)
(* calls are made one after the other, it is not, and what the locks hold   *)
(* follows from the operation.                                              *)

OneCall == \A s, r \in Session : s = r

\* The locks hold the authoritative PIN and nothing is on its way to them.
LockRests(t) == slot[t] = vault.env[Cred] /\ \A p \in Pin : air[t][p] = 0

\* The new PIN of h, staged or by now authoritative.
NewPin(h, p) ==
  \/ vault.receipts[h] # None /\ p = vault.env[Cred]
  \/ vault.receipts[h] = None /\ vault.staged[h] # None /\ p = vault.staged[h].env

\* The stages of a lock under replacement h: not reached yet, sent the new PIN,
\* and holding it.
Untouched(h, t) == vault.receipts[h] = None /\ LockRests(t)

Underway(h, t) ==
  /\ t \in ZWaves
  /\ vault.receipts[h] = None /\ vault.staged[h] # None
  /\ slot[t] = vault.env[Cred]
  /\ \A p \in Pin : air[t][p] = IF p = vault.staged[h].env THEN 1 ELSE 0

Replaced(h, t) == NewPin(h, slot[t]) /\ \A p \in Pin : air[t][p] = 0

RegistryCurrent == \A t \in Target : registry.rev[t] = vault.rev[Cred]

AllRests == RegistryCurrent /\ \A t \in Locks : LockRests(t)

ActiveIn(j) == {h \in Handle : j[h] # None /\ Incomplete(j[h])}

\* The locks, the registry and the vault are where the payload of h says.
Follows(h, payload) ==
  /\ vault.receipts[h] = None => RegistryCurrent
  /\ \A t \in Locks :
       /\ Untouched(h, t) \/ Underway(h, t) \/ Replaced(h, t)
       /\ t \in ZWaves /\ sent[h][t] = 0 /\ vault.receipts[h] = None => Untouched(h, t)
       /\ payload.target[t] = "confirmed" => Replaced(h, t)
  /\ payload.phase \notin {"staged", "intent_persisted"} =>
       \A t \in Target : payload.target[t] = "confirmed"

\* A command that was sent is never forgotten.
Remembers(payload, t) ==
  payload.target[t] \in {"request_dispatching", "verification_pending", "confirmed", "unsupported"}

OperationsInv ==
  /\ \A g, h \in Active : g = h
  /\ Active = {} => AllRests
  /\ \A h \in Active : Follows(h, journal[h].payload)
  /\ \A h \in Handle : vault.staged[h] # None => vault.staged[h].env # vault.env[Cred]
  /\ \A h \in Handle, t \in ZWaves : sent[h][t] # 0 =>
       sent[h][t] = 1 /\ journal[h] # None /\ Remembers(journal[h].payload, t)

\* What a call in state x knows, j being the journal.
Knows(x, j) ==
  /\ x.pc \in {"capture", "revision", "stage", "create"} => ActiveIn(j) = {}
  /\ x.pc = "create" => vault.staged[x.h] # None /\ Fresh(x.payload)
  /\ x.pc = "discard" => /\ AllRests /\ vault.receipts[x.h] = None
                         /\ \A g \in ActiveIn(j) : g = x.h
  /\ x.pc \notin BeforeJournal => x.h \in ActiveIn(j)
  /\ x.pc \notin BeforeResume => j[x.h].payload = x.payload
  /\ x.pc \in AllConfirmed => \A t \in Target : x.payload.target[t] = "confirmed"
  /\ x.pc = "commit" => vault.rev[Cred] = x.payload.promoted
  /\ \A t \in Target : FirstOpen(x.payload, t) =>
       /\ x.pc = "intend" => x.payload.target[t] \in {"request_not_started", "request_rejected"}
       /\ x.pc \in {"request", "answered"} => x.payload.target[t] = "request_dispatching"
       /\ t \in ZWaves /\ (x.pc = "request" \/ (x.pc = "answered" /\ x.answer = "rejected")) =>
            sent[x.h][t] = 0
       /\ t \in Locks /\ x.pc = "verified" /\ x.answer = "confirmed" => Replaced(x.h, t)

CallsInv == \A s \in Session : Knows(sess[s], journal)

LInv == OperationsInv /\ CallsInv

\* An idle call knows nothing.
LEMMA IdleKnows == ASSUME NEW j PROVE Knows(Idle, j)
BY DEF Knows, Idle, NoPayload, BeforeJournal, BeforeResume, BeforeStage, AllConfirmed

\* In the initial state everything is at rest.
LEMMA InitAlone == Init => LInv
<1> SUFFICES ASSUME Init PROVE LInv
  OBVIOUS
<1>1. TypeOK /\ vault.rev[Cred] = 1 /\ vault.env[Cred] = FirstPin
      /\ \A h \in Handle : vault.staged[h] = None /\ vault.receipts[h] = None
  <2>1. /\ EmptyState.rev = [c \in Credential |-> 0] /\ EmptyState.env = [c \in Credential |-> None]
        /\ EmptyState.staged = [h \in Handle |-> None]
        /\ EmptyState.receipts = [h \in Handle |-> None]
    BY DEF EmptyState
  <2>2. vault = [EmptyState EXCEPT !.env = [EmptyState.env EXCEPT ![Cred] = FirstPin],
                   !.rev = [EmptyState.rev EXCEPT ![Cred] = EmptyState.rev[Cred] + 1]]
    BY DEF Init, StoreEnvelope
  <2>3. vault.env = [EmptyState.env EXCEPT ![Cred] = FirstPin]
        /\ vault.rev = [EmptyState.rev EXCEPT ![Cred] = EmptyState.rev[Cred] + 1]
        /\ vault.staged = EmptyState.staged /\ vault.receipts = EmptyState.receipts
    BY <2>2 DEF EmptyState
  <2> QED BY <2>1, <2>3, InitInv DEF IInv, Credential
<1>2. AllRests
  BY <1>1, Assumptions DEF Init, AllRests, RegistryCurrent, LockRests, Locks, Target
<1>3. Active = {}
  BY DEF Init, Active, Operations
<1>4. \A h \in Handle, t \in ZWaves : sent[h][t] = 0
  BY DEF Init, ZWaves, Locks
<1>5. OperationsInv
  BY <1>1, <1>2, <1>3, <1>4 DEF OperationsInv
<1>6. CallsInv
  BY IdleKnows DEF Init, CallsInv
<1> QED BY <1>5, <1>6 DEF LInv

\* A step that only moves the call.
LEMMA CallMoves ==
  ASSUME IInv, LInv, OneCall, NEW s \in Session, NEW y, Knows(y, journal),
         sess' = [sess EXCEPT ![s] = y],
         UNCHANGED <<vault, journal, slot, air, sent, registry>>
  PROVE  LInv'
<1>1. \A r \in Session : sess'[r] = y
  BY DEF OneCall, IInv, TypeOK
<1>2. OperationsInv'
  BY DEF LInv, OperationsInv, Active, Operations, AllRests, RegistryCurrent, LockRests,
     Follows, Untouched, Underway, Replaced, NewPin, Remembers
<1>3. CallsInv'
  BY <1>1 DEF CallsInv, Knows, AllRests, RegistryCurrent, LockRests, ActiveIn, FirstOpen,
     Replaced, NewPin
<1> QED BY <1>2, <1>3 DEF LInv

\* The same when the call ends.
LEMMA CallEnds ==
  ASSUME IInv, LInv, OneCall, NEW s \in Session, End(s),
         UNCHANGED <<vault, journal, slot, air, sent, registry>>
  PROVE  LInv'
BY IdleKnows, CallMoves DEF End

\* The call writes its operation as op, which is not completed, and goes on as y.
LEMMA CallWrites ==
  ASSUME IInv, LInv, OneCall, NEW s \in Session, NEW y, NEW op \in Operation(Payload),
         sess[s].h \in Handle, op.status # "completed",
         \A g \in Active : g = sess[s].h,
         Follows(sess[s].h, op.payload),
         \A t \in ZWaves : sent[sess[s].h][t] # 0 => Remembers(op.payload, t),
         Knows(y, [journal EXCEPT ![sess[s].h] = op]),
         StoreOperation(s, op, y),
         UNCHANGED <<vault, slot, air, sent, registry>>
  PROVE  LInv'
<1>1. PICK h \in Handle : h = sess[s].h
  OBVIOUS
<1>2. PICK j : j = [journal EXCEPT ![h] = op]
  OBVIOUS
<1>3. /\ journal' = j /\ j[h] = op /\ op # None
      /\ \A g \in Handle : g # h => j[g] = journal[g]
  BY <1>1, <1>2, Assumptions DEF StoreOperation, IInv, TypeOK
<1>4. \A r \in Session : sess'[r] = y
  BY DEF OneCall, StoreOperation
<1>5. Active' = {h}
  BY <1>1, <1>3 DEF Active, Operations, Incomplete
<1>6. Follows(h, op.payload)'
  BY <1>1 DEF Follows, Untouched, Underway, Replaced, NewPin, LockRests, RegistryCurrent
<1>7. ASSUME NEW g \in Handle, NEW t \in ZWaves, sent[g][t] # 0
      PROVE  sent[g][t] = 1 /\ journal'[g] # None /\ Remembers(journal'[g].payload, t)
  <2>1. sent[g][t] = 1 /\ journal[g] # None /\ Remembers(journal[g].payload, t)
    BY <1>7 DEF LInv, OperationsInv
  <2> QED BY <1>1, <1>3, <1>7, <2>1
<1>8. OperationsInv'
  <2>1. ASSUME NEW g \in Active' PROVE Follows(g, journal[g].payload)'
    <3>1. g = h /\ journal'[g].payload = op.payload
      BY <1>3, <1>5
    <3> QED BY <1>6, <3>1 DEF Follows, Untouched, Underway, Replaced, NewPin, LockRests, RegistryCurrent
  <2>2. \A g \in Handle : vault'.staged[g] # None => vault'.staged[g].env # vault'.env[Cred]
    BY DEF LInv, OperationsInv
  <2>3. \A g \in Handle, t \in ZWaves : sent'[g][t] # 0 =>
          sent'[g][t] = 1 /\ journal'[g] # None /\ Remembers(journal'[g].payload, t)
    BY <1>7
  <2> QED BY <1>5, <2>1, <2>2, <2>3 DEF OperationsInv, Remembers
<1>9. Knows(y, j)'
  BY <1>1, <1>2 DEF Knows, AllRests, RegistryCurrent, LockRests, ActiveIn, FirstOpen, Replaced, NewPin
<1>10. CallsInv'
  BY <1>3, <1>4, <1>9 DEF CallsInv, Knows, AllRests, RegistryCurrent, LockRests, ActiveIn, FirstOpen,
     Replaced, NewPin
<1> QED BY <1>8, <1>10 DEF LInv

\* What a call at work has in hand.
LEMMA AtWork ==
  ASSUME IInv, LInv, NEW s \in Session, sess[s].pc \notin BeforeResume
  PROVE  /\ sess[s].h \in Active /\ sess[s].h \in Handle
         /\ journal[sess[s].h] \in Operation(Payload)
         /\ journal[sess[s].h].payload = sess[s].payload
         /\ sess[s].payload \in Payload /\ sess[s] \in Sessions
         /\ \A g \in Active : g = sess[s].h
         /\ Follows(sess[s].h, sess[s].payload)
         /\ \A t \in ZWaves : sent[sess[s].h][t] # 0 => Remembers(sess[s].payload, t)
         /\ Knows(sess[s], journal)
<1>1. Knows(sess[s], journal) /\ sess[s].pc \notin BeforeJournal
  BY DEF LInv, CallsInv, BeforeResume
<1>2. sess[s].h \in Active /\ journal[sess[s].h].payload = sess[s].payload
  BY <1>1 DEF Knows, ActiveIn, Active, Operations
<1>3. sess[s].h \in Handle
  BY <1>2 DEF Active, Operations
<1> QED BY <1>1, <1>2, <1>3, Resumed DEF LInv, OperationsInv

\* A checkpoint of payload p, after which the call goes on at pc.
LEMMA CheckpointAlone ==
  ASSUME IInv, LInv, OneCall, NEW s \in Session, sess[s].pc \notin BeforeResume,
         NEW p \in Payload,
         NEW pc \in {"load", "targets", "request", "revalidate", "promote", "finalize"},
         Follows(sess[s].h, p),
         \A t \in ZWaves : sent[sess[s].h][t] # 0 => Remembers(p, t),
         pc \in AllConfirmed => \A t \in Target : p.target[t] = "confirmed",
         pc = "request" => \A t \in Target : FirstOpen(p, t) =>
           /\ p.target[t] = "request_dispatching"
           /\ t \in ZWaves => sent[sess[s].h][t] = 0,
         Checkpoint(s, p, pc), UNCHANGED <<vault, slot, air, sent, registry>>
  PROVE  LInv'
<1> DEFINE h == sess[s].h
           op == Checkpointed(p)
           new == [sess[s] EXCEPT !.pc = pc, !.payload = p, !.fresh = TRUE, !.answer = "none"]
           j == [journal EXCEPT ![h] = op]
<1>1. /\ op \in Operation(Payload) /\ op.payload = p /\ op.status = "running"
  BY Assumptions DEF Checkpointed, Operation, OperationStatus, RetryCount
<1>2. new.pc = pc /\ new.h = h /\ new.payload = p /\ new.answer = "none"
  BY AtWork DEF Sessions
<1>3. j[h] = op /\ op # None /\ h \in Handle
  BY <1>1, AtWork, Assumptions DEF IInv, TypeOK
<1> HIDE DEF op, new, j
<1>4. h \in ActiveIn(j)
  BY <1>1, <1>3 DEF ActiveIn, Incomplete
<1>5. Knows(new, j)
  BY <1>1, <1>2, <1>3, <1>4 DEF Knows, BeforeJournal, BeforeResume, BeforeStage, AllConfirmed
<1>6. CASE StoreOperation(s, op, new)
  BY <1>1, <1>3, <1>5, <1>6, AtWork, CallWrites DEF j
<1>7. CASE StoreOperation(s, op, Idle)
  BY <1>1, <1>3, <1>7, AtWork, CallWrites, IdleKnows DEF j
<1>8. CASE End(s) /\ UNCHANGED journal
  BY <1>8, CallEnds
<1> QED BY <1>6, <1>7, <1>8 DEF Checkpoint, op, new

\* A failure recorded with payload p.
LEMMA PauseAlone ==
  ASSUME IInv, LInv, OneCall, NEW s \in Session, sess[s].pc \notin BeforeResume,
         NEW p \in Payload, NEW retryable \in BOOLEAN,
         Follows(sess[s].h, p),
         \A t \in ZWaves : sent[sess[s].h][t] # 0 => Remembers(p, t),
         Pause(s, p, retryable), UNCHANGED <<vault, slot, air, sent, registry>>
  PROVE  LInv'
<1> DEFINE h == sess[s].h
           q == [p EXCEPT !.resumable = retryable]
           op == FailureRecorded(journal[h], q, retryable)
<1>1. q \in Payload /\ q.phase = p.phase /\ q.target = p.target
  BY DEF Payload
<1>2. op \in Operation(Payload) /\ op.payload = q /\ op.status # "completed"
  BY <1>1, AtWork, Assumptions DEF FailureRecorded, Operation, OperationStatus, RetryCount
<1>3. Follows(h, q) /\ \A t \in ZWaves : sent[h][t] # 0 => Remembers(q, t)
  BY <1>1 DEF Follows, Remembers
<1> HIDE DEF op, q
<1>4. CASE StoreOperation(s, op, Idle)
  <2>1. Knows(Idle, [journal EXCEPT ![h] = op])
    BY IdleKnows
  <2> QED BY <1>2, <1>3, <1>4, <2>1, AtWork, CallWrites
<1>5. CASE End(s) /\ UNCHANGED journal
  BY <1>5, CallEnds
<1> QED BY <1>4, <1>5 DEF Pause, op, q

\* Moving on to pc, where no command depends on what the call knows.
LEMMA GoesOnAlone ==
  ASSUME IInv, LInv, OneCall, NEW s \in Session, sess[s].pc \notin BeforeResume,
         NEW pc \in {"intend", "stale", "pause", "intend_promotion", "record_promotion", "commit"},
         pc \in AllConfirmed => sess[s].pc \in AllConfirmed,
         pc = "commit" => vault.rev[Cred] = sess[s].payload.promoted,
         pc = "intend" => \A t \in Target : FirstOpen(sess[s].payload, t) =>
           sess[s].payload.target[t] \in {"request_not_started", "request_rejected"},
         GoTo(s, pc), UNCHANGED <<vault, journal, slot, air, sent, registry>>
  PROVE  LInv'
<1> DEFINE y == [sess[s] EXCEPT !.pc = pc]
<1>1. y.pc = pc /\ y.h = sess[s].h /\ y.payload = sess[s].payload /\ y.answer = sess[s].answer
  BY AtWork DEF Sessions
<1>2. sess[s].pc \notin BeforeJournal /\ pc \notin BeforeJournal /\ pc \notin BeforeResume
      /\ pc \notin {"capture", "revision", "stage", "create", "discard", "request", "answered", "verified"}
  BY DEF BeforeStage, BeforeJournal, BeforeResume
<1> HIDE DEF y
<1>3. Knows(y, journal)
  BY <1>1, <1>2, AtWork DEF Knows
<1> QED BY <1>3, CallMoves DEF GoTo, y

\* Beginning: nothing is under way, the locks and the registry are at rest.
LEMMA BeginAlone ==
  ASSUME IInv, LInv, OneCall, NEW s \in Session,
         BeginReplace(s) \/ CaptureRegistry(s) \/ CaptureRevision(s)
  PROVE  LInv'
<1>1. sess[s] \in Sessions /\ UNCHANGED <<vault, journal, slot, air, sent, registry>>
  BY DEF IInv, TypeOK, BeginReplace, CaptureRegistry, CaptureRevision, world
<1>2. ActiveIn(journal) = {}
  BY DEF LInv, CallsInv, Knows, BeginReplace, CaptureRegistry, CaptureRevision, At, Active,
     Operations, ActiveIn
<1>3. \A y \in Sessions : y.pc \in {"capture", "revision", "stage"} => Knows(y, journal)
  BY <1>2 DEF Knows, BeforeStage, BeforeJournal, BeforeResume, AllConfirmed
<1>4. CASE BeginReplace(s)
  <2>1. [sess[s] EXCEPT !.pc = "capture"] \in Sessions
        /\ [sess[s] EXCEPT !.pc = "capture"].pc = "capture"
    BY <1>1 DEF Sessions, Control
  <2> QED BY <1>1, <1>3, <1>4, <2>1, CallMoves DEF BeginReplace, GoTo
<1>5. CASE CaptureRegistry(s)
  <2> DEFINE p == [sess[s].payload EXCEPT !.version = registry.version]
             y == [sess[s] EXCEPT !.pc = "revision", !.payload = p]
  <2>1. p \in Payload
    BY <1>1 DEF Sessions, Payload, IInv, TypeOK
  <2>2. y \in Sessions /\ y.pc = "revision"
    BY <1>1, <2>1 DEF Sessions, Control
  <2>3. sess' = [sess EXCEPT ![s] = y]
    BY <1>5 DEF CaptureRegistry
  <2> HIDE DEF y
  <2> QED BY <1>1, <1>3, <2>2, <2>3, CallMoves
<1>6. CASE CaptureRevision(s)
  <2> DEFINE p == [sess[s].payload EXCEPT !.expected = vault.rev[Cred]]
             y == [sess[s] EXCEPT !.pc = "stage", !.payload = p]
  <2>1. p \in Payload
    BY <1>1 DEF Sessions, Payload, IInv, TypeOK, EnvelopeState, Credential
  <2>2. y \in Sessions /\ y.pc = "stage"
    BY <1>1, <2>1 DEF Sessions, Control
  <2>3. sess' = [sess EXCEPT ![s] = y] \/ End(s)
    BY <1>6 DEF CaptureRevision
  <2> HIDE DEF y
  <2> QED BY <1>1, <1>3, <2>2, <2>3, CallMoves, CallEnds
<1> QED BY <1>4, <1>5, <1>6

\* The phase of a payload is written: it stays what the locks and the registry
\* are, where every target is confirmed or the phase does not say so.
LEMMA PhaseWritten ==
  ASSUME IInv, LInv, NEW s \in Session, sess[s].pc \notin BeforeResume,
         NEW p \in Payload, p.target = sess[s].payload.target,
         \/ p.phase \in {"staged", "intent_persisted"}
         \/ \A t \in Target : p.target[t] = "confirmed"
  PROVE  /\ Follows(sess[s].h, p)
         /\ \A t \in ZWaves : sent[sess[s].h][t] # 0 => Remembers(p, t)
<1>1. Follows(sess[s].h, sess[s].payload)
      /\ \A t \in ZWaves : sent[sess[s].h][t] # 0 => Remembers(sess[s].payload, t)
  BY AtWork
<1> QED BY <1>1 DEF Follows, Remembers

LEMMA PhasesAlone ==
  ASSUME IInv, LInv, OneCall, NEW s \in Session,
         \/ PersistIntent(s) \/ FinishTargets(s) \/ IntendPromotion(s) \/ RecordPromotion(s)
  PROVE  LInv'
<1>1. sess[s].pc \notin BeforeResume
  BY DEF PersistIntent, FinishTargets, IntendPromotion, RecordPromotion, At,
         BeforeStage, BeforeJournal, BeforeResume
<1>2. sess[s].payload \in Payload /\ UNCHANGED <<vault, slot, air, sent, registry>>
  BY <1>1, AtWork DEF PersistIntent, FinishTargets, IntendPromotion, RecordPromotion, world
<1>3. ASSUME NEW phase \in Phase
      PROVE  /\ WithPhase(s, phase) \in Payload
             /\ WithPhase(s, phase).target = sess[s].payload.target
             /\ WithPhase(s, phase).phase = phase
  BY <1>2 DEF WithPhase, Payload
<1>4. CASE PersistIntent(s)
  <2> DEFINE p == WithPhase(s, "intent_persisted")
  <2>1. p \in Payload /\ p.target = sess[s].payload.target /\ p.phase = "intent_persisted"
    BY <1>3 DEF Phase
  <2>2. Checkpoint(s, p, "load") /\ "load" \notin AllConfirmed
    BY <1>4 DEF PersistIntent, AllConfirmed
  <2> HIDE DEF p
  <2> QED BY <1>1, <1>2, <2>1, <2>2, PhaseWritten, CheckpointAlone
<1>5. CASE FinishTargets(s)
  <2> DEFINE p == WithPhase(s, "verification_confirmed")
  <2>1. p \in Payload /\ p.target = sess[s].payload.target
    BY <1>3 DEF Phase
  <2>2. Checkpoint(s, p, "revalidate") /\ \A t \in Target : p.target[t] = "confirmed"
    BY <1>5, <2>1 DEF FinishTargets, Unconfirmed
  <2> HIDE DEF p
  <2> QED BY <1>1, <1>2, <2>1, <2>2, PhaseWritten, CheckpointAlone
<1>6. CASE IntendPromotion(s)
  <2> DEFINE p == WithPhase(s, "promotion_pending")
  <2>1. p \in Payload /\ p.target = sess[s].payload.target
    BY <1>3 DEF Phase
  <2>2. Checkpoint(s, p, "promote") /\ \A t \in Target : p.target[t] = "confirmed"
    BY <1>1, <1>6, <2>1, AtWork DEF IntendPromotion, At, Knows, AllConfirmed
  <2> HIDE DEF p
  <2> QED BY <1>1, <1>2, <2>1, <2>2, PhaseWritten, CheckpointAlone
<1>7. CASE RecordPromotion(s)
  <2> DEFINE w == WithPhase(s, "vault_promoted")
             n == sess[s].payload.expected + 1
             p == [w EXCEPT !.promoted = n]
  <2>1. w \in Payload /\ w.target = sess[s].payload.target /\ n \in Nat
    BY <1>2, <1>3 DEF Phase, Payload
  <2> HIDE DEF w, n
  <2>2. p \in Payload /\ p.target = sess[s].payload.target
    BY <2>1 DEF Payload
  <2>3. Checkpoint(s, p, "finalize") /\ \A t \in Target : p.target[t] = "confirmed"
    BY <1>1, <1>7, <2>2, AtWork DEF RecordPromotion, At, Knows, AllConfirmed, w, n
  <2> HIDE DEF p
  <2> QED BY <1>1, <1>2, <2>2, <2>3, PhaseWritten, CheckpointAlone
<1> QED BY <1>4, <1>5, <1>6, <1>7

LEMMA StopsAlone ==
  ASSUME IInv, LInv, OneCall, NEW s \in Session,
         \/ RevalidatePromotion(s) \/ FinalizeCheck(s) \/ PauseRetryable(s) \/ PauseStale(s)
  PROVE  LInv'
<1>1. sess[s].pc \notin BeforeResume
  BY DEF RevalidatePromotion, FinalizeCheck, PauseRetryable, PauseStale, At,
         BeforeStage, BeforeJournal, BeforeResume
<1>2. UNCHANGED <<vault, slot, air, sent, registry>>
  BY DEF RevalidatePromotion, FinalizeCheck, PauseRetryable, PauseStale, world
<1>3. CASE RevalidatePromotion(s)
  <2>1. GoTo(s, "intend_promotion") \/ GoTo(s, "stale")
    BY <1>3 DEF RevalidatePromotion
  <2>2. sess[s].pc \in AllConfirmed /\ UNCHANGED journal
    BY <1>3 DEF RevalidatePromotion, At, AllConfirmed
  <2> QED BY <1>1, <1>2, <2>1, <2>2, GoesOnAlone
<1>4. CASE FinalizeCheck(s)
  <2>1. \/ GoTo(s, "commit") /\ vault.rev[Cred] = sess[s].payload.promoted
        \/ GoTo(s, "stale")
    BY <1>4 DEF FinalizeCheck
  <2>2. sess[s].pc \in AllConfirmed /\ UNCHANGED journal
    BY <1>4 DEF FinalizeCheck, At, AllConfirmed
  <2> QED BY <1>1, <1>2, <2>1, <2>2, GoesOnAlone
<1>5. CASE PauseRetryable(s) \/ PauseStale(s)
  <2>1. \E retryable \in BOOLEAN : Pause(s, sess[s].payload, retryable)
    BY <1>5 DEF PauseRetryable, PauseStale
  <2> QED BY <1>1, <1>2, <2>1, AtWork, PauseAlone
<1> QED BY <1>3, <1>4, <1>5

LEMMA ResumeAlone ==
  ASSUME IInv, LInv, OneCall, NEW s \in Session,
         BeginRetry(s) \/ LoadOperation(s) \/ MarkRunning(s)
  PROVE  LInv'
<1>1. sess[s] \in Sessions /\ Knows(sess[s], journal)
      /\ UNCHANGED <<vault, slot, air, sent, registry>>
  BY DEF IInv, TypeOK, LInv, CallsInv, BeginRetry, LoadOperation, MarkRunning, world
<1>2. \A y \in Sessions : y.pc \in {"load", "mark"} /\ y.h \in ActiveIn(journal) => Knows(y, journal)
  BY DEF Knows, BeforeStage, BeforeJournal, BeforeResume, AllConfirmed
<1>3. CASE BeginRetry(s)
  <2>1. PICK h \in Active : sess' = [sess EXCEPT ![s] = [Idle EXCEPT !.pc = "load", !.h = h]]
    BY <1>3 DEF BeginRetry
  <2>2. h \in Handle /\ h \in ActiveIn(journal)
    BY DEF Active, Operations, ActiveIn
  <2> DEFINE y == [Idle EXCEPT !.pc = "load", !.h = h]
  <2>3. y \in Sessions /\ y.pc = "load" /\ y.h = h
    BY <2>2 DEF NoPayload, Payload, Phase, TargetState, Idle, Sessions, Control
  <2>4. sess' = [sess EXCEPT ![s] = y] /\ UNCHANGED journal
    BY <1>3, <2>1 DEF BeginRetry
  <2> HIDE DEF y
  <2> QED BY <1>1, <1>2, <2>2, <2>3, <2>4, CallMoves
<1>4. CASE LoadOperation(s)
  <2> DEFINE y == [sess[s] EXCEPT !.pc = "mark"]
  <2>1. y \in Sessions /\ y.pc = "mark" /\ y.h = sess[s].h
    BY <1>1 DEF Sessions, Control
  <2>2. y.h \in ActiveIn(journal)
    BY <1>1, <1>4, <2>1 DEF LoadOperation, At, Knows, BeforeStage, BeforeJournal
  <2>3. UNCHANGED journal /\ (End(s) \/ sess' = [sess EXCEPT ![s] = y])
    BY <1>4 DEF LoadOperation, GoTo
  <2> HIDE DEF y
  <2> QED BY <1>1, <1>2, <2>1, <2>2, <2>3, CallMoves, CallEnds
<1>5. CASE MarkRunning(s)
  <2>1. PICK h \in Handle : h = sess[s].h /\ h \in Active
    BY <1>1, <1>5 DEF MarkRunning, At, Knows, BeforeStage, BeforeJournal, ActiveIn, Active, Operations
  <2>2. PICK old \in Operation(Payload) : old = journal[h]
    BY <2>1 DEF IInv, TypeOK, Active, Operations
  <2> DEFINE op == MarkedRunning(old)
             j == [journal EXCEPT ![h] = op]
             y == [sess[s] EXCEPT !.pc = EntryPoint(old.payload.phase),
                                  !.payload = old.payload, !.fresh = TRUE]
  <2>3. op \in Operation(Payload) /\ op.payload = old.payload /\ op.status = "running"
        /\ op # None /\ j[h] = op
    BY <2>1, <2>2, Assumptions DEF MarkedRunning, Operation, OperationStatus, IInv, TypeOK
  <2>4. \A g \in Active : g = h
    BY <2>1 DEF LInv, OperationsInv
  <2>5. Follows(h, old.payload) /\ \A t \in ZWaves : sent[h][t] # 0 => Remembers(old.payload, t)
    BY <2>1, <2>2 DEF LInv, OperationsInv
  <2>6. y.pc = EntryPoint(old.payload.phase) /\ y.h = h /\ y.payload = old.payload
    BY <1>1, <2>1 DEF Sessions
  <2>7. /\ EntryPoint(old.payload.phase) \in {"promote", "finalize", "targets"}
        /\ EntryPoint(old.payload.phase) # "targets" =>
             old.payload.phase \notin {"staged", "intent_persisted"}
    BY DEF EntryPoint
  <2>8. StoreOperation(s, op, y) \/ StoreOperation(s, op, Idle) \/ (End(s) /\ UNCHANGED journal)
    BY <1>5, <2>1, <2>2 DEF MarkRunning
  <2> HIDE DEF op, y, j
  <2>9. h \in ActiveIn(j)
    BY <2>3 DEF ActiveIn, Incomplete
  <2>10. Knows(y, j)
    BY <2>3, <2>5, <2>6, <2>7, <2>9 DEF Knows, BeforeStage, BeforeJournal, BeforeResume, AllConfirmed, Follows
  <2>11. Knows(Idle, j)
    BY IdleKnows
  <2>12. CASE StoreOperation(s, op, y)
    BY <1>1, <2>1, <2>3, <2>4, <2>5, <2>10, <2>12, CallWrites DEF j
  <2>13. CASE StoreOperation(s, op, Idle)
    BY <1>1, <2>1, <2>3, <2>4, <2>5, <2>11, <2>13, CallWrites DEF j
  <2> QED BY <1>1, <2>8, <2>12, <2>13, CallEnds
<1> QED BY <1>3, <1>4, <1>5

\* The state of the target at hand is written.
LEMMA StateWritten ==
  ASSUME IInv, LInv, NEW s \in Session, sess[s].pc \notin BeforeResume,
         NEW t \in Target, FirstOpen(sess[s].payload, t), NEW state \in TargetState,
         t \in Locks /\ state = "confirmed" => Replaced(sess[s].h, t),
         \/ state \in {"request_dispatching", "verification_pending", "confirmed", "unsupported"}
         \/ t \in ZWaves => sent[sess[s].h][t] = 0
  PROVE  /\ WithTarget(s, t, state) \in Payload
         /\ Follows(sess[s].h, WithTarget(s, t, state))
         /\ \A u \in ZWaves : sent[sess[s].h][u] # 0 => Remembers(WithTarget(s, t, state), u)
         /\ \A u \in Target : FirstOpen(WithTarget(s, t, state), u) /\ state # "confirmed" =>
              u = t /\ WithTarget(s, t, state).target[u] = state
<1> DEFINE p == sess[s].payload
           target == [p.target EXCEPT ![t] = state]
           q == WithTarget(s, t, state)
<1>1. p \in Payload /\ Follows(sess[s].h, p)
      /\ \A u \in ZWaves : sent[sess[s].h][u] # 0 => Remembers(p, u)
  BY AtWork
<1>2. target \in [Target -> TargetState]
      /\ \A u \in Target : target[u] = IF u = t THEN state ELSE p.target[u]
  BY <1>1 DEF Payload
<1>3. q \in Payload /\ q.phase = p.phase /\ q.target = target
  BY <1>1, <1>2 DEF WithTarget, Payload
<1>4. p.phase \in {"staged", "intent_persisted"}
  BY <1>1 DEF Follows, FirstOpen
<1> HIDE DEF q, target, p
<1>5. Follows(sess[s].h, q)
  BY <1>1, <1>2, <1>3, <1>4 DEF Follows, Locks
<1>6. \A u \in ZWaves : sent[sess[s].h][u] # 0 => Remembers(q, u)
  BY <1>1, <1>2, <1>3 DEF Remembers, ZWaves, Locks
<1>7. ASSUME NEW u \in Target, FirstOpen(q, u), state # "confirmed" PROVE u = t /\ q.target[u] = state
  <2>1. t <= u /\ u <= t
    BY <1>2, <1>3, <1>7 DEF FirstOpen, p
  <2> QED BY <1>2, <1>3, <2>1, Assumptions DEF Target
<1> QED BY <1>3, <1>5, <1>6, <1>7 DEF q

\* The target an action is at.
LEMMA AtTargetIs ==
  ASSUME NEW s \in Session, NEW t \in Target, AtTarget(s, t)
  PROVE  /\ FirstOpen(sess[s].payload, t)
         /\ \A u \in Target : FirstOpen(sess[s].payload, u) => u = t
BY Assumptions DEF AtTarget, Unconfirmed, FirstOpen, Target

LEMMA TargetsAlone ==
  ASSUME IInv, LInv, OneCall, NEW s \in Session, NEW t \in Target,
         \/ AssumeDispatched(s, t) \/ RevalidateTarget(s, t) \/ IntendRequest(s, t)
         \/ RecordAnswer(s, t) \/ RecordReadBack(s, t)
  PROVE  LInv'
<1>1. sess[s].pc \notin BeforeResume
  BY DEF AssumeDispatched, RevalidateTarget, IntendRequest, RecordAnswer, RecordReadBack, At,
         BeforeStage, BeforeJournal, BeforeResume
<1>2. /\ UNCHANGED <<vault, slot, air, sent, registry>>
      /\ FirstOpen(sess[s].payload, t)
      /\ \A u \in Target : FirstOpen(sess[s].payload, u) => u = t
      /\ Knows(sess[s], journal)
  BY <1>1, AtTargetIs, AtWork DEF AssumeDispatched, RevalidateTarget, IntendRequest, RecordAnswer,
     RecordReadBack, world
<1>3. "targets" \notin AllConfirmed /\ "request" \notin AllConfirmed
  BY DEF AllConfirmed
<1>4. ASSUME NEW state \in TargetState,
             \/ state \in {"request_dispatching", "verification_pending", "confirmed", "unsupported"}
             \/ t \in ZWaves => sent[sess[s].h][t] = 0,
             t \in Locks /\ state = "confirmed" => Replaced(sess[s].h, t),
             \/ Checkpoint(s, WithTarget(s, t, state), "targets")
             \/ \E retryable \in BOOLEAN : Pause(s, WithTarget(s, t, state), retryable)
      PROVE  LInv'
  <2> DEFINE p == WithTarget(s, t, state)
  <2>1. p \in Payload /\ Follows(sess[s].h, p)
        /\ \A u \in ZWaves : sent[sess[s].h][u] # 0 => Remembers(p, u)
    BY <1>1, <1>2, <1>4, StateWritten
  <2>2. Checkpoint(s, p, "targets") \/ \E retryable \in BOOLEAN : Pause(s, p, retryable)
    BY <1>4
  <2> HIDE DEF p
  <2> QED BY <1>1, <1>2, <1>3, <2>1, <2>2, CheckpointAlone, PauseAlone
<1>5. CASE AssumeDispatched(s, t)
  BY <1>4, <1>5 DEF AssumeDispatched, TargetState
<1>6. CASE RevalidateTarget(s, t)
  <2>1. GoTo(s, "intend") \/ GoTo(s, "stale")
    BY <1>6 DEF RevalidateTarget
  <2>2. \A u \in Target : FirstOpen(sess[s].payload, u) =>
          sess[s].payload.target[u] \in {"request_not_started", "request_rejected"}
    BY <1>2, <1>6 DEF RevalidateTarget, StateOf
  <2> QED BY <1>1, <1>2, <1>6, <2>1, <2>2, GoesOnAlone DEF RevalidateTarget, AllConfirmed
<1>7. CASE IntendRequest(s, t)
  <2> DEFINE p == WithTarget(s, t, "request_dispatching")
  <2>1. "request_dispatching" \in TargetState /\ sess[s].pc = "intend"
    BY <1>7 DEF TargetState, IntendRequest, At
  <2>2. sess[s].payload.target[t] \in {"request_not_started", "request_rejected"}
    BY <1>2, <2>1 DEF Knows
  <2>3. t \in ZWaves => sent[sess[s].h][t] = 0
    BY <1>1, <2>2, AtWork DEF Remembers
  <2>4. /\ p \in Payload /\ Follows(sess[s].h, p)
        /\ \A u \in ZWaves : sent[sess[s].h][u] # 0 => Remembers(p, u)
        /\ \A u \in Target : FirstOpen(p, u) => u = t /\ p.target[u] = "request_dispatching"
    BY <1>1, <1>2, <2>1, StateWritten
  <2>5. Checkpoint(s, p, "request")
    BY <1>7 DEF IntendRequest
  <2> HIDE DEF p
  <2> QED BY <1>1, <1>2, <1>3, <2>3, <2>4, <2>5, CheckpointAlone
<1>8. CASE RecordAnswer(s, t)
  <2>1. sess[s].pc = "answered"
    BY <1>8 DEF RecordAnswer, At
  <2>2. sess[s].answer = "rejected" /\ t \in ZWaves => sent[sess[s].h][t] = 0
    BY <1>2, <2>1 DEF Knows
  <2> QED BY <1>4, <1>8, <2>2 DEF RecordAnswer, TargetState
<1>9. CASE RecordReadBack(s, t)
  <2>1. sess[s].pc = "verified"
    BY <1>9 DEF RecordReadBack, At
  <2>2. sess[s].answer = "confirmed" /\ t \in Locks => Replaced(sess[s].h, t)
    BY <1>2, <2>1 DEF Knows
  <2> QED BY <1>4, <1>9, <2>2 DEF RecordReadBack, TargetState
<1> QED BY <1>5, <1>6, <1>7, <1>8, <1>9

\* A lock that reads back the staged PIN has been replaced: the staged PIN is not
\* the one it held before.
LEMMA ReadBackAlone ==
  ASSUME IInv, LInv, OneCall, NEW s \in Session, NEW t \in Target, ReadBack(s, t)
  PROVE  LInv'
<1>1. sess[s].pc \notin BeforeResume /\ "verified" \notin AllConfirmed
  BY DEF ReadBack, At, BeforeStage, BeforeJournal, BeforeResume, AllConfirmed
<1>2. UNCHANGED <<vault, journal, slot, air, sent, registry>>
  BY DEF ReadBack
<1>3. CASE End(s)
  BY <1>2, <1>3, CallEnds
<1>4. ASSUME NEW a \in {"confirmed", "unconfirmed", "unsupported"}, Answer(s, "verified", a),
             a = "confirmed" => Staged(s) /\ ReadsBack(t, StagedPin(s))
      PROVE  LInv'
  <2> DEFINE y == [sess[s] EXCEPT !.pc = "verified", !.answer = a]
  <2>1. y.pc = "verified" /\ y.h = sess[s].h /\ y.payload = sess[s].payload /\ y.answer = a
    BY <1>1, AtWork DEF Sessions
  <2>2. t \in Locks /\ a = "confirmed" => Replaced(sess[s].h, t)
    <3> SUFFICES ASSUME t \in Locks, a = "confirmed" PROVE Replaced(sess[s].h, t)
      OBVIOUS
    <3>1. PICK h \in Handle : h = sess[s].h /\ Follows(h, sess[s].payload)
      BY <1>1, AtWork
    <3>2. vault.staged[h] # None /\ slot[t] = vault.staged[h].env /\ t \notin Keypads
      BY <1>4, <3>1 DEF Staged, StagedPin, ReadsBack, Locks
    <3>3. vault.receipts[h] = None /\ vault.staged[h].env # vault.env[Cred]
      BY <3>2 DEF IInv, VaultInv, LInv, OperationsInv
    <3> QED BY <3>1, <3>2, <3>3 DEF Follows, Untouched, LockRests, Underway
  <2>3. sess' = [sess EXCEPT ![s] = y]
    BY <1>4 DEF Answer
  <2>4. \A u \in Target : FirstOpen(sess[s].payload, u) => u = t
    BY AtTargetIs DEF ReadBack
  <2>5. sess[s].h \in ActiveIn(journal) /\ journal[sess[s].h].payload = sess[s].payload
    BY <1>1, AtWork DEF Active, Operations, ActiveIn
  <2> HIDE DEF y
  <2>6. Knows(y, journal)
    BY <1>1, <2>1, <2>2, <2>4, <2>5 DEF Knows
  <2> QED BY <1>2, <2>3, <2>6, CallMoves
<1> QED BY <1>3, <1>4 DEF ReadBack

\* Active operations are unchanged where the journal is.
LEMMA SameActive == ASSUME UNCHANGED journal PROVE Active' = Active
BY DEF Active, Operations

\* A request leaves a Z-Wave lock with the new PIN underway, and a Nuki lock
\* holding it; a Z-Wave lock was never sent it before.
LEMMA RequestAlone ==
  ASSUME IInv, LInv, OneCall, NEW s \in Session, NEW t \in Target, RequestReplacement(s, t)
  PROVE  LInv'
<1>1. sess[s].pc = "request" /\ sess[s].pc \notin BeforeResume
  BY DEF RequestReplacement, At, BeforeStage, BeforeJournal, BeforeResume
<1>2. PICK h \in Handle : h = sess[s].h
  BY <1>1, AtWork
<1>3. PICK p \in Payload : p = sess[s].payload
  BY <1>1, AtWork
<1>4. /\ h \in Active /\ journal[h].payload = p /\ Follows(h, p) /\ Knows(sess[s], journal)
      /\ \A g \in Active : g = h
      /\ sess[s] \in Sessions
  BY <1>1, <1>2, <1>3, AtWork
<1>5. /\ FirstOpen(p, t) /\ \A u \in Target : FirstOpen(p, u) => u = t
      /\ p.target[t] = "request_dispatching"
      /\ t \in ZWaves => sent[h][t] = 0
  BY <1>1, <1>2, <1>3, <1>4, AtTargetIs DEF RequestReplacement, Knows
<1>6. UNCHANGED <<vault, journal, registry>>
  BY DEF RequestReplacement
<1>7. "answered" \notin BeforeJournal /\ "answered" \notin BeforeResume /\ "answered" \notin AllConfirmed
  BY DEF BeforeStage, BeforeJournal, BeforeResume, AllConfirmed
<1>8. h \in ActiveIn(journal)
  BY <1>4 DEF Active, Operations, ActiveIn
<1>9. CASE UNCHANGED <<slot, air, sent>>
  <2>1. ASSUME NEW a \in {"taken", "rejected", "unsupported"}, Answer(s, "answered", a)
        PROVE  LInv'
    <3> DEFINE y == [sess[s] EXCEPT !.pc = "answered", !.answer = a]
    <3>1. y.pc = "answered" /\ y.h = h /\ y.payload = p /\ y.answer = a
      BY <1>2, <1>3, <1>4 DEF Sessions
    <3>2. sess' = [sess EXCEPT ![s] = y]
      BY <2>1 DEF Answer
    <3> HIDE DEF y
    <3>3. Knows(y, journal)
      BY <1>4, <1>5, <1>7, <1>8, <3>1 DEF Knows
    <3> QED BY <1>6, <1>9, <3>2, <3>3, CallMoves
  <2>2. CASE End(s)
    BY <1>6, <1>9, <2>2, CallEnds
  <2> QED BY <2>1, <2>2 DEF RequestReplacement
<1>10. CASE /\ Staged(s) /\ Send(s, t)
            /\ \/ /\ t \in ZWaves /\ UNCHANGED slot
                  /\ air' = [air EXCEPT ![t] = [air[t] EXCEPT ![StagedPin(s)] = More(@)]]
                  /\ Answer(s, "answered", "taken")
               \/ /\ t \in Nukis /\ UNCHANGED air
                  /\ slot' = [slot EXCEPT ![t] = StagedPin(s)]
                  /\ \E a \in {"taken", "rejected"} : Answer(s, "answered", a)
  <2>1. PICK a \in {"taken", "rejected"} :
          Answer(s, "answered", a) /\ (t \in ZWaves => a = "taken")
    <3>1. t \notin ZWaves \/ t \notin Nukis
      BY DEF ZWaves
    <3> QED BY <1>10, <3>1
  <2>2. PICK e \in Pin : e = vault.staged[h].env /\ vault.staged[h] # None /\ StagedPin(s) = e
    BY <1>2, <1>10 DEF Staged, StagedPin, IInv, TypeOK, EnvelopeState, StagedSecret, Envelope
  <2>3. vault.receipts[h] = None /\ e # vault.env[Cred]
    BY <2>2 DEF IInv, VaultInv, LInv, OperationsInv
  <2>4. /\ slot \in [Target -> Pin] /\ air \in [Target -> [Pin -> 0..2]]
        /\ sent \in [Handle -> [Target -> 0..2]]
    BY DEF IInv, TypeOK
  <2>5. /\ \A g \in Handle, u \in Target : g # h \/ u # t => sent'[g][u] = sent[g][u]
        /\ t \in ZWaves => sent'[h][t] = 1
    BY <1>2, <1>5, <1>10, <2>4 DEF Send, More
  <2>6. \A u \in Target : u # t => slot'[u] = slot[u] /\ air'[u] = air[u]
    BY <1>10, <2>4
  <2>7. ASSUME t \in ZWaves PROVE Underway(h, t)'
    <3>1. Untouched(h, t)
      BY <1>4, <1>5, <2>3, <2>7 DEF Follows, ZWaves
    <3>2. air'[t] = [air[t] EXCEPT ![e] = More(@)] /\ slot'[t] = slot[t]
      BY <1>10, <2>2, <2>4, <2>7 DEF ZWaves
    <3>3. \A q \in Pin : air'[t][q] = IF q = e THEN 1 ELSE 0
      BY <2>4, <3>1, <3>2 DEF Untouched, LockRests, More
    <3>4. Underway(h, t)'
      BY <1>6, <2>2, <2>3, <2>7, <3>1, <3>2, <3>3 DEF Underway, Untouched, LockRests
    <3> QED BY <3>4
  <2>8. ASSUME t \in Nukis PROVE Replaced(h, t)'
    <3>1. slot'[t] = e /\ air'[t] = air[t]
      BY <1>10, <2>2, <2>4, <2>8 DEF ZWaves
    <3>2. \A q \in Pin : air[t][q] = 0
      <4>1. t \in Locks /\ t \notin ZWaves
        BY <2>8, Assumptions DEF Locks, ZWaves, Target
      <4> QED BY <1>4, <4>1 DEF Follows, Untouched, LockRests, Underway, Replaced
    <3>3. Replaced(h, t)'
      BY <1>6, <2>2, <2>3, <3>1, <3>2 DEF Replaced, NewPin
    <3> QED BY <3>3
  <2>9. Underway(h, t)' \/ Replaced(h, t)'
    BY <1>10, <2>7, <2>8
  <2>10. Follows(h, p)'
    <3>1. vault'.receipts[h] = None => RegistryCurrent'
      BY <1>4, <1>6 DEF Follows, RegistryCurrent
    <3>2. ASSUME NEW u \in Locks, u # t
          PROVE  /\ Untouched(h, u)' \/ Underway(h, u)' \/ Replaced(h, u)'
                 /\ u \in ZWaves /\ sent'[h][u] = 0 /\ vault'.receipts[h] = None => Untouched(h, u)'
                 /\ p.target[u] = "confirmed" => Replaced(h, u)'
      <4>1. slot'[u] = slot[u] /\ air'[u] = air[u] /\ sent'[h][u] = sent[h][u]
        BY <2>5, <2>6, <3>2 DEF Locks
      <4>2. /\ Untouched(h, u) => Untouched(h, u)'
            /\ Underway(h, u) => Underway(h, u)'
            /\ Replaced(h, u) => Replaced(h, u)'
        BY <1>6, <4>1 DEF Untouched, LockRests, Underway, Replaced, NewPin
      <4> QED BY <1>4, <1>6, <4>1, <4>2 DEF Follows
    <3>3. p.target[t] # "confirmed"
      BY <1>5
    <3>4. p.phase \in {"staged", "intent_persisted"}
      BY <1>4, <1>5 DEF Follows, FirstOpen
    <3> QED BY <2>5, <2>9, <3>1, <3>2, <3>3, <3>4 DEF Follows
  <2>11. ASSUME NEW g \in Handle, NEW u \in ZWaves, sent'[g][u] # 0
         PROVE  sent'[g][u] = 1 /\ journal'[g] # None /\ Remembers(journal'[g].payload, u)
    <3>1. CASE g = h /\ u = t
      BY <1>4, <1>5, <1>6, <2>5, <2>11, <3>1 DEF Remembers, Active, Operations
    <3>2. CASE g # h \/ u # t
      <4>1. sent[g][u] = sent'[g][u] /\ u \in Target
        BY <2>5, <3>2 DEF ZWaves, Locks
      <4> QED BY <1>6, <2>11, <4>1 DEF LInv, OperationsInv
    <3> QED BY <3>1, <3>2
  <2>12. OperationsInv'
    <3>1. Active' = {h} /\ journal'[h].payload = p
      BY <1>4, <1>6, SameActive
    <3>2. ASSUME NEW g \in Active' PROVE Follows(g, journal[g].payload)'
      BY <2>10, <3>1 DEF Follows, Untouched, Underway, Replaced, NewPin, LockRests, RegistryCurrent
    <3>3. \A g \in Handle : vault'.staged[g] # None => vault'.staged[g].env # vault'.env[Cred]
      BY <1>6 DEF LInv, OperationsInv
    <3> QED BY <2>11, <3>1, <3>2, <3>3 DEF OperationsInv, Remembers
  <2>13. \A r \in Session : /\ sess'[r].pc = "answered" /\ sess'[r].h = h /\ sess'[r].payload = p
                            /\ sess'[r].answer = a
    BY <1>2, <1>3, <1>4, <2>1 DEF Answer, OneCall, IInv, TypeOK, Sessions
  <2>14. CallsInv'
    <3> SUFFICES ASSUME NEW r \in Session PROVE Knows(sess[r], journal)'
      BY DEF CallsInv
    <3>1. a = "rejected" => t \notin ZWaves
      BY <2>1
    <3> QED BY <1>4, <1>5, <1>6, <1>7, <1>8, <2>13, <3>1 DEF Knows, ActiveIn, FirstOpen
  <2> QED BY <2>12, <2>14 DEF LInv
<1> QED BY <1>9, <1>10 DEF RequestReplacement

-----------------------------------------------------------------------------
(* Steps of the vault, the registry and the locks, one call at a time.      *)

LEMMA StagePinAlone ==
  ASSUME IInv, LInv, OneCall, NEW s \in Session, NEW p \in Pin, StagePin(s, p)
  PROVE  LInv'
<1> DEFINE h == minted + 1
           y == [sess[s] EXCEPT !.pc = "create", !.h = h]
<1>1. sess[s] \in Sessions /\ ActiveIn(journal) = {} /\ Fresh(sess[s].payload)
      /\ UNCHANGED <<journal, registry, slot, air, sent>>
  BY DEF IInv, TypeOK, LInv, CallsInv, Knows, SessionsInv, Placed, PlacedIn, BeforeStage, At, StagePin
<1>2. CASE End(s) /\ UNCHANGED <<vault, minted>>
  BY <1>1, <1>2, CallEnds
<1>3. CASE /\ h \in Handle
           /\ vault' = Stage(vault, h, Cred, vault.rev[Cred], p)
           /\ sess' = [sess EXCEPT ![s] = y]
  <2> DEFINE new == [cred |-> Cred, expected |-> vault.rev[Cred], env |-> p]
  <2>1. vault \in EnvelopeState
    BY DEF IInv, TypeOK
  <2>2. new \in StagedSecret /\ new # None /\ new.env = p /\ p # vault.env[Cred]
    BY <2>1, Assumptions DEF StagedSecret, EnvelopeState, Credential, Envelope, StagePin
  <2>3. /\ vault'.env = vault.env /\ vault'.rev = vault.rev /\ vault'.receipts = vault.receipts
        /\ vault'.staged = [vault.staged EXCEPT ![h] = new]
    BY <1>3, <2>1 DEF Stage, EnvelopeState
  <2>4. y.pc = "create" /\ y.h = h /\ y.payload = sess[s].payload
    BY <1>1 DEF Sessions
  <2>5. \A r \in Session : sess'[r] = y
    BY <1>3 DEF OneCall, IInv, TypeOK
  <2> HIDE DEF new, y, h
  <2>6. \A g \in Handle : vault'.staged[g] = IF g = h THEN new ELSE vault.staged[g]
    BY <1>3, <2>1, <2>3 DEF EnvelopeState
  <2>7. Active = {} /\ Active' = {}
    BY <1>1 DEF ActiveIn, Active, Operations
  <2>8. AllRests'
    BY <1>1, <2>3, <2>7 DEF LInv, OperationsInv, AllRests, RegistryCurrent, LockRests
  <2>9. \A g \in Handle : vault'.staged[g] # None => vault'.staged[g].env # vault'.env[Cred]
    BY <2>2, <2>3, <2>6 DEF LInv, OperationsInv
  <2>10. \A g \in Handle, t \in ZWaves : sent'[g][t] # 0 =>
           sent'[g][t] = 1 /\ journal'[g] # None /\ Remembers(journal'[g].payload, t)
    BY <1>1 DEF LInv, OperationsInv
  <2>11. OperationsInv'
    BY <2>7, <2>8, <2>9, <2>10 DEF OperationsInv, Remembers
  <2>12. CallsInv'
    <3> SUFFICES ASSUME NEW r \in Session PROVE Knows(sess[r], journal)'
      BY DEF CallsInv
    <3>1. sess'[r].pc = "create" /\ sess'[r].payload = sess[s].payload /\ vault'.staged[sess'[r].h] # None
      BY <1>3, <2>2, <2>4, <2>5, <2>6
    <3>2. "create" \in BeforeJournal /\ "create" \in BeforeResume /\ "create" \notin AllConfirmed
      BY DEF BeforeJournal, BeforeResume, AllConfirmed
    <3>3. ActiveIn(journal)' = {}
      BY <1>1 DEF ActiveIn
    <3> QED BY <1>1, <3>1, <3>2, <3>3 DEF Knows, Fresh
  <2> QED BY <2>11, <2>12 DEF LInv
<1> QED BY <1>2, <1>3 DEF StagePin

LEMMA CreateAlone ==
  ASSUME IInv, LInv, OneCall, NEW s \in Session, CreateOperation(s)
  PROVE  LInv'
<1> DEFINE op == NewOperation(sess[s].payload)
           y == [sess[s] EXCEPT !.pc = "intent", !.fresh = TRUE]
           z == [sess[s] EXCEPT !.pc = "discard"]
<1>1. /\ sess[s] \in Sessions /\ sess[s].payload \in Payload /\ sess[s].pc = "create"
      /\ Knows(sess[s], journal) /\ PlacedIn(sess[s], journal)
      /\ UNCHANGED <<vault, slot, air, sent, registry>>
  BY DEF IInv, TypeOK, Sessions, LInv, CallsInv, SessionsInv, Placed, At, CreateOperation, world
<1>2. PICK h \in Handle : h = sess[s].h /\ journal[h] = None
  BY <1>1 DEF PlacedIn, BeforeStage
<1>3. vault.staged[h] # None /\ vault.receipts[h] = None /\ Fresh(sess[s].payload)
  BY <1>1, <1>2 DEF Knows, IInv, VaultInv
<1>4. Active = {} /\ ActiveIn(journal) = {} /\ AllRests
  BY <1>1 DEF Knows, ActiveIn, Active, Operations, LInv, OperationsInv
<1>5. \A t \in ZWaves : sent[h][t] = 0
  BY <1>2 DEF LInv, OperationsInv
<1>6. Follows(h, sess[s].payload)
  BY <1>3, <1>4 DEF Follows, AllRests, Untouched, Fresh, Locks
<1>7. op \in Operation(Payload) /\ op.payload = sess[s].payload /\ op.status = "pending" /\ op # None
  BY <1>1, Assumptions DEF NewOperation, Operation, OperationStatus, RetryCount
<1>8. /\ y.pc = "intent" /\ y.h = h /\ y.payload = sess[s].payload
      /\ z.pc = "discard" /\ z.h = h /\ z.payload = sess[s].payload
  BY <1>1, <1>2 DEF Sessions
<1> DEFINE j == [journal EXCEPT ![h] = op]
<1>9. j[h] = op /\ \A g \in Handle : g # h => j[g] = journal[g]
  BY <1>7 DEF IInv, TypeOK
<1> HIDE DEF op, y, z, j
<1>10. h \in ActiveIn(j) /\ \A g \in ActiveIn(j) : g = h
  BY <1>4, <1>7, <1>9 DEF ActiveIn, Incomplete
<1>11. Knows(y, j) /\ Knows(z, j) /\ Knows(z, journal)
  BY <1>3, <1>4, <1>7, <1>8, <1>9, <1>10
     DEF Knows, BeforeStage, BeforeJournal, BeforeResume, AllConfirmed
<1>12. CASE StoreOperation(s, op, y)
  BY <1>1, <1>2, <1>4, <1>5, <1>6, <1>7, <1>11, <1>12, CallWrites DEF j
<1>13. CASE StoreOperation(s, op, z)
  BY <1>1, <1>2, <1>4, <1>5, <1>6, <1>7, <1>11, <1>13, CallWrites DEF j
<1>14. CASE GoTo(s, "discard") /\ UNCHANGED journal
  <2>1. sess' = [sess EXCEPT ![s] = z]
    BY <1>14 DEF GoTo, z
  <2> QED BY <1>1, <1>11, <1>14, <2>1, CallMoves
<1> QED BY <1>12, <1>13, <1>14 DEF CreateOperation, op, y, z

LEMMA DiscardAlone ==
  ASSUME IInv, LInv, OneCall, NEW s \in Session, DiscardStage(s)
  PROVE  LInv'
<1>1. /\ sess[s].pc = "discard" /\ Knows(sess[s], journal) /\ PlacedIn(sess[s], journal)
      /\ UNCHANGED <<journal, slot, air, sent, registry>>
  BY DEF LInv, CallsInv, IInv, SessionsInv, Placed, At, DiscardStage, world
<1>2. PICK h \in Handle : h = sess[s].h
  BY <1>1 DEF PlacedIn, BeforeStage
<1>3. AllRests /\ vault.receipts[h] = None /\ \A g \in Active : g = h
  BY <1>1, <1>2 DEF Knows, Active, ActiveIn, Operations
<1>4. CASE vault' = vault
  BY <1>1, <1>4, CallEnds DEF DiscardStage
<1>5. CASE vault' = Discard(vault, h)
  <2>1. vault \in EnvelopeState
    BY DEF IInv, TypeOK
  <2>2. /\ vault'.env = vault.env /\ vault'.rev = vault.rev
        /\ vault'.receipts = vault.receipts
        /\ \A g \in Handle : vault'.staged[g] = None \/ vault'.staged[g] = vault.staged[g]
    BY <1>5, <2>1 DEF Discard, EnvelopeState
  <2>3. Active' = Active
    BY <1>1, SameActive
  <2>4. ASSUME NEW g \in Active' PROVE Follows(g, journal[g].payload)'
    <3>1. g = h /\ journal'[g].payload = journal[h].payload /\ h \in Active
      BY <1>1, <1>3, <2>3, <2>4
    <3>2. Follows(h, journal[h].payload)
      BY <3>1 DEF LInv, OperationsInv
    <3>3. \A t \in Locks : ~Replaced(h, t)
      BY <1>3 DEF AllRests, LockRests, Replaced, NewPin, LInv, OperationsInv
    <3>4. \A t \in Locks : journal[h].payload.target[t] # "confirmed"
      BY <3>2, <3>3 DEF Follows
    <3>5. \A t \in Locks : Untouched(h, t)'
      BY <1>1, <1>3, <2>2 DEF AllRests, LockRests, Untouched
    <3>6. RegistryCurrent'
      BY <1>1, <1>3, <2>2 DEF AllRests, RegistryCurrent
    <3>7. Follows(h, journal[h].payload)'
      BY <1>1, <3>2, <3>4, <3>5, <3>6 DEF Follows
    <3> QED BY <3>1, <3>7
  <2>5. AllRests'
    BY <1>1, <1>3, <2>2 DEF AllRests, LockRests, RegistryCurrent
  <2>6. \A g \in Handle : vault'.staged[g] # None => vault'.staged[g].env # vault'.env[Cred]
    BY <2>2 DEF LInv, OperationsInv
  <2>7. \A g \in Handle, t \in ZWaves : sent'[g][t] # 0 =>
           sent'[g][t] = 1 /\ journal'[g] # None /\ Remembers(journal'[g].payload, t)
    BY <1>1 DEF LInv, OperationsInv
  <2>8. OperationsInv'
    BY <1>3, <2>3, <2>4, <2>5, <2>6, <2>7 DEF OperationsInv, Remembers
  <2>9. \A r \in Session : sess'[r] = Idle
    BY DEF DiscardStage, End, OneCall, IInv, TypeOK
  <2>10. CallsInv'
    BY <2>9 DEF CallsInv, Knows, Idle, NoPayload, BeforeJournal, BeforeResume, BeforeStage, AllConfirmed
  <2> QED BY <2>8, <2>10 DEF LInv
<1> QED BY <1>2, <1>4, <1>5 DEF DiscardStage

\* By the promotion every lock has been replaced, so that what becomes the
\* authoritative PIN is what the locks hold.
LEMMA PromoteAlone ==
  ASSUME IInv, LInv, OneCall, NEW s \in Session, PromotePin(s)
  PROVE  LInv'
<1>1. sess[s].pc = "promote" /\ sess[s].pc \notin BeforeResume /\ sess[s].pc \in AllConfirmed
  BY DEF PromotePin, At, BeforeStage, BeforeJournal, BeforeResume, AllConfirmed
<1>2. PICK h \in Handle : h = sess[s].h
  BY <1>1, AtWork
<1>3. PICK p \in Payload : p = sess[s].payload
  BY <1>1, AtWork
<1>4. /\ h \in Active /\ journal[h].payload = p /\ Follows(h, p)
      /\ \A g \in Active : g = h
      /\ \A t \in Target : p.target[t] = "confirmed"
      /\ sess[s] \in Sessions
  BY <1>1, <1>2, <1>3, AtWork DEF Knows
<1>5. UNCHANGED <<journal, slot, air, sent, registry>>
  BY DEF PromotePin, world
<1>6. CASE UNCHANGED vault
  <2>1. GoTo(s, "pause") \/ GoTo(s, "record_promotion") \/ GoTo(s, "stale")
    BY DEF PromotePin
  <2> QED BY <1>1, <1>5, <1>6, <2>1, GoesOnAlone
<1>7. CASE /\ CanPromote(vault, h)
           /\ vault' = Promote(vault, h, vault.staged[h].env)
           /\ GoTo(s, "record_promotion") \/ GoTo(s, "stale")
  <2> DEFINE e == vault.staged[h].env
             r == vault.staged[h].expected + 1
             new == [cred |-> Cred, rev |-> r]
  <2>1. vault \in EnvelopeState
    BY DEF IInv, TypeOK
  <2>2. /\ vault.staged[h] # None /\ vault.staged[h].cred = Cred
        /\ vault.receipts[h] = None /\ r \in Nat
        /\ \A g \in Handle : g # h => vault.staged[g] = None
    BY <1>7, <2>1 DEF CanPromote, AlreadyPromoted, EnvelopeState, StagedSecret, Credential, IInv, VaultInv
  <2>3. new # None
    BY <2>2, Assumptions DEF PromotionReceipt, Credential
  <2>4. vault' = [env      |-> [vault.env EXCEPT ![Cred] = e],
                  rev      |-> [vault.rev EXCEPT ![Cred] = r],
                  staged   |-> [vault.staged EXCEPT ![h] = None],
                  receipts |-> [vault.receipts EXCEPT ![h] = new]]
    BY <1>7, <2>2 DEF Promote
  <2> HIDE DEF new, r
  <2>5. /\ vault'.env[Cred] = e /\ vault'.receipts[h] # None
        /\ \A g \in Handle : vault'.staged[g] = None
    BY <2>1, <2>2, <2>3, <2>4 DEF EnvelopeState, Credential
  <2>6. \A t \in Locks : slot[t] = e /\ \A q \in Pin : air[t][q] = 0
    BY <1>4, <2>2 DEF Follows, Replaced, NewPin, Locks
  <2> HIDE DEF e
  <2>7. \A t \in Locks : Replaced(h, t)'
    BY <1>5, <2>5, <2>6 DEF Replaced, NewPin
  <2>8. Follows(h, p)'
    BY <1>4, <2>5, <2>7 DEF Follows
  <2>9. Active' = {h} /\ journal'[h].payload = p
    BY <1>4, <1>5, SameActive
  <2>10. ASSUME NEW g \in Active' PROVE Follows(g, journal[g].payload)'
    <3>1. g = h /\ journal'[g].payload = p
      BY <2>9
    <3> QED BY <2>8, <3>1 DEF Follows, Untouched, Underway, Replaced, NewPin, LockRests, RegistryCurrent
  <2>11. \A g \in Handle, t \in ZWaves : sent'[g][t] # 0 =>
           sent'[g][t] = 1 /\ journal'[g] # None /\ Remembers(journal'[g].payload, t)
    BY <1>5 DEF LInv, OperationsInv
  <2>12. OperationsInv'
    BY <2>5, <2>9, <2>10, <2>11 DEF OperationsInv, Remembers
  <2>13. \A q \in Session : /\ sess'[q].pc \in {"record_promotion", "stale"}
                            /\ sess'[q].h = h /\ sess'[q].payload = p
    BY <1>2, <1>3, <1>4, <1>7 DEF GoTo, OneCall, IInv, TypeOK, Sessions
  <2>14. CallsInv'
    <3> SUFFICES ASSUME NEW q \in Session PROVE Knows(sess[q], journal)'
      BY DEF CallsInv
    <3>1. h \in ActiveIn(journal)'
      BY <2>9 DEF ActiveIn, Active, Operations
    <3> QED BY <1>4, <2>9, <2>13, <3>1 DEF Knows
  <2> QED BY <2>12, <2>14 DEF LInv
<1> QED BY <1>2, <1>6, <1>7 DEF PromotePin

LEMMA CommitAlone ==
  ASSUME IInv, LInv, OneCall, NEW s \in Session, FinalizeCommit(s)
  PROVE  LInv'
<1> DEFINE p == [WithPhase(s, "completed") EXCEPT !.resumable = FALSE]
           op == [status |-> "completed", retries |-> 0, payload |-> p]
<1>1. sess[s].pc = "commit" /\ sess[s].pc \notin BeforeResume /\ sess[s].pc \in AllConfirmed
  BY DEF FinalizeCommit, At, BeforeStage, BeforeJournal, BeforeResume, AllConfirmed
<1>2. PICK h \in Handle : h = sess[s].h
  BY <1>1, AtWork
<1>3. /\ h \in Active /\ Follows(h, sess[s].payload) /\ \A g \in Active : g = h
      /\ vault.rev[Cred] = sess[s].payload.promoted /\ vault.receipts[h] # None
      /\ sess[s].payload \in Payload /\ journal[h].payload = sess[s].payload
      /\ UNCHANGED <<vault, slot, air, sent>>
  BY <1>1, <1>2, AtWork DEF Knows, IInv, SessionsInv, Placed, PlacedIn, Promoted, FinalizeCommit
<1>4. CASE (GoTo(s, "pause") \/ GoTo(s, "stale")) /\ UNCHANGED <<registry, journal>>
  BY <1>1, <1>3, <1>4, GoesOnAlone
<1>5. CASE /\ registry' = [registry EXCEPT
                !.version = registry.version + 1,
                !.rev = [t \in Target |-> FinalRevision(s)]]
           /\ StoreOperation(s, op, Idle)
  <2>1. op.status = "completed" /\ op.payload.target = sess[s].payload.target /\ op # None
    <3>1. p \in Payload /\ p.target = sess[s].payload.target
      <4>1. WithPhase(s, "completed") \in Payload
            /\ WithPhase(s, "completed").target = sess[s].payload.target
        BY <1>3 DEF WithPhase, Payload, Phase
      <4> QED BY <4>1 DEF Payload
    <3> HIDE DEF p
    <3>2. op \in Operation(Payload)
      BY <3>1, Assumptions DEF Operation, OperationStatus, RetryCount
    <3> QED BY <3>1, <3>2, Assumptions
  <2>2. RegistryCurrent'
    <3> DEFINE rev == [t \in Target |-> FinalRevision(s)]
    <3>1. \A t \in Target : rev[t] = vault.rev[Cred]
      BY <1>3 DEF FinalRevision
    <3>2. registry \in [version : Nat, edits : 0..MaxEdits, rev : [Target -> Nat]]
      BY DEF IInv, TypeOK
    <3> HIDE DEF rev
    <3>3. registry' = [registry EXCEPT !.version = registry.version + 1, !.rev = rev]
      BY <1>5 DEF rev
    <3>4. registry'.rev = rev
      BY <3>2, <3>3
    <3> QED BY <1>3, <3>1, <3>4 DEF RegistryCurrent
  <2> HIDE DEF op
  <2>3. journal'[h] = op /\ \A g \in Handle : g # h => journal'[g] = journal[g]
    BY <1>2, <1>5 DEF StoreOperation, IInv, TypeOK
  <2>4. Active' = {}
    BY <1>3, <2>1, <2>3 DEF Active, Operations, Incomplete
  <2>5. \A t \in Locks : LockRests(t)
    BY <1>3 DEF Follows, Untouched, Underway, Replaced, NewPin, LockRests
  <2>6. AllRests'
    BY <1>3, <2>2, <2>5 DEF AllRests, LockRests
  <2>7. ASSUME NEW g \in Handle, NEW t \in ZWaves, sent'[g][t] # 0
        PROVE  sent'[g][t] = 1 /\ journal'[g] # None /\ Remembers(journal'[g].payload, t)
    BY <1>3, <2>1, <2>3, <2>7 DEF LInv, OperationsInv, Remembers
  <2>8. \A g \in Handle : vault'.staged[g] # None => vault'.staged[g].env # vault'.env[Cred]
    BY <1>3 DEF LInv, OperationsInv
  <2>9. OperationsInv'
    BY <2>4, <2>6, <2>7, <2>8 DEF OperationsInv, Remembers
  <2>10. \A r \in Session : sess'[r] = Idle
    BY <1>5 DEF StoreOperation, OneCall
  <2>11. CallsInv'
    BY <2>10 DEF CallsInv, Knows, Idle, NoPayload, BeforeJournal, BeforeResume, BeforeStage, AllConfirmed
  <2> QED BY <2>9, <2>11 DEF LInv
<1> QED BY <1>4, <1>5 DEF FinalizeCommit

\* A lock carries out a command: it was underway, and it is replaced.
LEMMA DeliverAlone ==
  ASSUME IInv, LInv, NEW t \in Target, NEW p \in Pin, Deliver(t, p)
  PROVE  LInv'
<1>1. UNCHANGED <<vault, journal, registry, sess, minted, sent, seen>> /\ air[t][p] > 0
  BY DEF Deliver
<1>2. slot \in [Target -> Pin] /\ air \in [Target -> [Pin -> 0..2]]
  BY DEF IInv, TypeOK
<1>3. \A u \in Target : u # t => slot'[u] = slot[u] /\ air'[u] = air[u]
  BY <1>2 DEF Deliver
<1>4. /\ slot'[t] = p /\ air'[t][p] = air[t][p] - 1
      /\ \A q \in Pin : q # p => air'[t][q] = air[t][q]
  BY <1>2 DEF Deliver
<1>5. t \in Locks => ~LockRests(t) /\ \A h \in Handle : ~Untouched(h, t) /\ ~Replaced(h, t)
  BY <1>1, <1>2 DEF LockRests, Untouched, Replaced
<1>6. ASSUME NEW h \in Handle, Underway(h, t) PROVE Replaced(h, t)'
  <2>1. p = vault.staged[h].env /\ air[t][p] = 1 /\ \A q \in Pin : q # p => air[t][q] = 0
    BY <1>1, <1>6 DEF Underway
  <2>2. \A q \in Pin : air'[t][q] = 0
    BY <1>2, <1>4, <2>1
  <2> QED BY <1>1, <1>4, <1>6, <2>1, <2>2 DEF Underway, Replaced, NewPin
<1>7. \A u \in Locks : LockRests(u) => LockRests(u)'
  BY <1>1, <1>3, <1>5 DEF LockRests, Locks
<1>8. ASSUME NEW h \in Handle, NEW u \in Locks
      PROVE  /\ Untouched(h, u) => Untouched(h, u)'
             /\ Underway(h, u) => Underway(h, u)' \/ Replaced(h, u)'
             /\ Replaced(h, u) => Replaced(h, u)'
  <2>1. CASE u = t
    BY <1>5, <1>6, <2>1
  <2>2. CASE u # t
    <3>1. slot'[u] = slot[u] /\ air'[u] = air[u]
      BY <1>3, <2>2 DEF Locks
    <3> QED BY <1>1, <3>1 DEF Untouched, LockRests, Underway, Replaced, NewPin
  <2> QED BY <2>1, <2>2
<1>9. AllRests => AllRests'
  BY <1>1, <1>7 DEF AllRests, RegistryCurrent
<1>10. ASSUME NEW h \in Handle, NEW q, Follows(h, q) PROVE Follows(h, q)'
  BY <1>1, <1>8, <1>10 DEF Follows, RegistryCurrent
<1>11. OperationsInv'
  <2>1. Active' = Active
    BY <1>1, SameActive
  <2>2. ASSUME NEW h \in Active PROVE Follows(h, journal[h].payload)'
    <3>1. h \in Handle /\ Follows(h, journal[h].payload)
      BY <2>2 DEF LInv, OperationsInv, Active, Operations
    <3> QED BY <1>1, <1>10, <3>1
  <2> QED BY <1>1, <1>9, <2>1, <2>2 DEF LInv, OperationsInv, Remembers
<1>12. CallsInv'
  <2> SUFFICES ASSUME NEW r \in Session PROVE Knows(sess[r], journal)'
    BY DEF CallsInv
  <2>1. Knows(sess[r], journal) /\ PlacedIn(sess[r], journal)
    BY DEF LInv, CallsInv, IInv, SessionsInv, Placed
  <2>2. sess[r].pc = "verified" => sess[r].h \in Handle
    BY <2>1 DEF PlacedIn, BeforeStage
  <2> QED BY <1>1, <1>8, <1>9, <2>1, <2>2 DEF Knows, ActiveIn, FirstOpen
<1> QED BY <1>11, <1>12 DEF LInv

\* Edits of the registry, the end of the process, and nothing at all.
LEMMA OthersAlone ==
  ASSUME IInv, LInv, EditRegistry \/ Crash \/ UNCHANGED vars
  PROVE  LInv'
<1>1. /\ UNCHANGED <<vault, journal, slot, air, sent>> /\ registry'.rev = registry.rev
      /\ UNCHANGED sess \/ \A s \in Session : sess'[s] = Idle
  BY DEF EditRegistry, Crash, vars, world, IInv, TypeOK
<1>2. Active' = Active
  BY <1>1, SameActive
<1>3. OperationsInv'
  BY <1>1, <1>2 DEF LInv, OperationsInv, AllRests, RegistryCurrent, LockRests,
     Follows, Untouched, Underway, Replaced, NewPin, Remembers
<1>4. CallsInv'
  <2>1. CASE UNCHANGED sess
    BY <1>1, <2>1 DEF LInv, CallsInv, Knows, AllRests, RegistryCurrent, LockRests, ActiveIn,
       FirstOpen, Replaced, NewPin
  <2>2. CASE \A s \in Session : sess'[s] = Idle
    BY <2>2 DEF CallsInv, Knows, Idle, NoPayload, BeforeJournal, BeforeResume, BeforeStage, AllConfirmed
  <2> QED BY <1>1, <2>1, <2>2
<1> QED BY <1>3, <1>4 DEF LInv

LEMMA NextAlone == ASSUME OneCall, IInv, LInv, [Next]_vars PROVE LInv'
<1>1. ASSUME NEW s \in Session, BeginReplace(s) \/ BeginRetry(s) PROVE LInv'
  BY <1>1, BeginAlone, ResumeAlone
<1>2. ASSUME NEW s \in Session, SessionStep(s) PROVE LInv'
  <2>1. ASSUME CaptureRegistry(s) \/ CaptureRevision(s) PROVE LInv'
    BY <2>1, BeginAlone
  <2>2. ASSUME NEW p \in Pin, StagePin(s, p) PROVE LInv'
    BY <2>2, StagePinAlone
  <2>3. ASSUME CreateOperation(s) \/ DiscardStage(s) PROVE LInv'
    BY <2>3, CreateAlone, DiscardAlone
  <2>4. ASSUME LoadOperation(s) \/ MarkRunning(s) PROVE LInv'
    BY <2>4, ResumeAlone
  <2>5. ASSUME TargetStep(s) PROVE LInv'
    BY <2>5, TargetsAlone, RequestAlone, ReadBackAlone DEF TargetStep
  <2>6. ASSUME \/ PersistIntent(s) \/ FinishTargets(s) \/ IntendPromotion(s) \/ RecordPromotion(s)
        PROVE  LInv'
    BY <2>6, PhasesAlone
  <2>7. ASSUME \/ RevalidatePromotion(s) \/ FinalizeCheck(s) \/ PauseRetryable(s) \/ PauseStale(s)
        PROVE  LInv'
    BY <2>7, StopsAlone
  <2>8. ASSUME PromotePin(s) \/ FinalizeCommit(s) PROVE LInv'
    BY <2>8, PromoteAlone, CommitAlone
  <2> QED BY <1>2, <2>1, <2>2, <2>3, <2>4, <2>5, <2>6, <2>7, <2>8 DEF SessionStep
<1> QED BY <1>1, <1>2, DeliverAlone, OthersAlone DEF Next

LEMMA AloneAlways == ASSUME OneCall PROVE Spec => [](IInv /\ LInv)
<1>1. Init => IInv /\ LInv
  BY InitInv, InitAlone
<1>2. IInv /\ LInv /\ [Next]_vars => (IInv /\ LInv)'
  BY NextInv, NextAlone
<1> QED BY <1>1, <1>2, PTL DEF Spec

\* Where calls are made one at a time, a Z-Wave lock is sent the PIN of a
\* replacement at most once, however often the process ends and the call is
\* retried.
THEOREM SentOnceAlone == ASSUME OneCall PROVE Spec => []ZWaveSentOnce
<1>1. IInv /\ LInv => ZWaveSentOnce
  <2> SUFFICES ASSUME IInv, LInv, NEW h \in Handle, NEW t \in ZWaves PROVE sent[h][t] <= 1
    BY DEF ZWaveSentOnce
  <2> QED BY DEF LInv, OperationsInv
<1> QED BY <1>1, AloneAlways, PTL

\* Where calls are made one at a time, the vault, the registry and the locks hold
\* the same PIN and revision whenever nothing is under way, and nothing is on its
\* way to a lock that could change that.
THEOREM AgreeAlone == ASSUME OneCall PROVE Spec => []AgreeAtRest
<1>1. IInv /\ LInv => AgreeAtRest
  BY DEF LInv, OperationsInv, AgreeAtRest, AtRest, AllRests, RegistryCurrent, LockRests
<1> QED BY <1>1, AloneAlways, PTL

=============================================================================
