----------------------------- MODULE UserSetup -----------------------------
(***************************************************************************)
(* Guided set-up: a request creates a person with a PIN, or gives doors to *)
(* one, and may be sent again until it is answered.  GiveAccessService     *)
(* gives one door.  Both end in record_provisioning, three transactions    *)
(* over the document, and both store a PIN in the vault first.             *)
(***************************************************************************)
EXTENDS DoorRegistry

CONSTANTS
  Asked        \* of each request: kind, person, doors, pin, schedule

VARIABLES
  vault,       \* the PINs that are stored
  stored,      \* the last PIN that was stored
  begun,       \* history: of each request how often provisioning began
  answers,     \* history: what the requests answered
  lost         \* history: PINs that a failure or the end of the process left

setup == <<vault, stored, begun, answers, lost>>
kept == <<others, met, setup>>

Wanted(c) == Asked[call[c].request]

SettingUp(c) == "request" \in DOMAIN call[c] /\ call[c].request # None
Giving(c) == "request" \in DOMAIN call[c] /\ call[c].request = None

\* The locks: one set-up and one giving at a time; a set-up and a removal of
\* access exclude each other while they are in AccessManagementService.
Adding(c) == SettingUp(c) /\ call[c].pc \in {"door", "metadata", "grant", "authority", "undo_grant",
                           "undo_metadata", "undo_authority", "rollback", "unrecord"}
Removing(c) == At(c, "forget")

Provisioning(r, pc, p, xs) ==
  [pc |-> pc, request |-> r, person |-> p, todo |-> xs, done |-> {}, door |-> None,
   had |-> {}, cred |-> None, made |-> FALSE, doors |-> xs]

(***************************************************************************)
(* A request comes in: for the first time, or again.                       *)
(***************************************************************************)
Begin(c, r, pc, cred) ==
  /\ \A o \in Caller : ~SettingUp(o)
  /\ Begins(c, "submits", [Provisioning(r, pc, Asked[r].person, Asked[r].doors) EXCEPT !.cred = cred])
  /\ UNCHANGED <<doc, others, setup>>

Submit(c, r) ==
  LET p == Asked[r].person
  IN /\ doc.requests[r] = None
     /\ IF Asked[r].kind = "create"
        THEN Begin(c, r, IF Asked[r].pin THEN "secret" ELSE "core", None)
        ELSE /\ doc.people[p] # None /\ Resolvable(doc, p)
             /\ doc.authority[p] = None => Asked[r].pin
             /\ Begin(c, r, IF doc.authority[p] = None THEN "secret" ELSE "core", doc.authority[p])

\* The person is still there, and so is the PIN if the request has one.
Repeat(c, r) ==
  LET p == Asked[r].person
  IN /\ doc.requests[r] # None /\ doc.people[p] # None
     /\ Resolvable(doc, p)
     /\ Asked[r].pin => doc.authority[p] # None
     /\ Asked[r].kind = "create" /\ ~Asked[r].pin => doc.authority[p] = None
     /\ Begin(c, r, "finish", doc.authority[p])

StoreSecret(c) ==
  /\ At(c, "secret")
  /\ vault' = vault \cup {stored + 1} /\ stored' = stored + 1
  /\ Becomes(c, [call[c] EXCEPT !.cred = stored + 1, !.made = TRUE,
                                !.pc = IF SettingUp(c) THEN "core" ELSE "metadata"])
  /\ UNCHANGED <<doc, may, others, met, begun, answers, lost>>

(***************************************************************************)
(* _create_core and _prepare_access_request: what is there when a person   *)
(* was set up, in one transaction; or the PIN goes again.                  *)
(***************************************************************************)
DoorsOpen(d, p, xs) ==
  \A x \in xs : d.grants[<<p, x>>] # None \/ Managed(d, x)

MayCreate(d, r) ==
  /\ d.people[Asked[r].person] = None
  /\ d.schedules[Asked[r].schedule] # None

MayAssign(d, r, cred, made) ==
  LET p == Asked[r].person
  IN /\ d.people[p] # None /\ d.schedules[Asked[r].schedule] # None
     /\ GrantsOf(d, p) # {} \/ Asked[r].doors = {} => Asked[r].schedule = d.people[p].default
     /\ Resolvable(d, p)
     /\ d.authority[p] = IF made THEN None ELSE cred

MayPrepare(d, r, cred, made) ==
  /\ DoorsOpen(d, Asked[r].person, Asked[r].doors)
  /\ IF Asked[r].kind = "create" THEN MayCreate(d, r) ELSE MayAssign(d, r, cred, made)

WithPerson(d, r) ==
  LET p == Asked[r].person
  IN IF Asked[r].kind = "create" THEN AddPerson(d, p, Asked[r].schedule)
     ELSE IF d.people[p].default = Asked[r].schedule THEN d
     ELSE UpdatePerson(d, p, [d.people[p] EXCEPT !.default = Asked[r].schedule, !.rev = @ + 1])

Prepared(d, r, cred) ==
  [SetAuthority(WithPerson(d, r), Asked[r].person, cred) EXCEPT
     !.requests[r] = [state |-> "core_created", added |-> {}]]

Prepare(c) ==
  LET r == call[c].request
      new == Prepared(doc, r, call[c].cred)
  IN /\ At(c, "core") /\ MayPrepare(doc, r, call[c].cred, call[c].made) /\ Valid(new)
     /\ doc' = new
     /\ Goes(c, "finish")
     /\ UNCHANGED <<may, kept>>

\* What does not hold any more, or a write that fails, raises.
PrepareFails(c) ==
  LET r == call[c].request
  IN /\ At(c, "core")
     /\ IF MayPrepare(doc, r, call[c].cred, call[c].made)
        THEN Allowed("faults") /\ Uses("faults") ELSE UNCHANGED may
     /\ IF call[c].made THEN Goes(c, "discard") ELSE Becomes(c, Free)
     /\ UNCHANGED <<doc, kept>>

Discard(c, works) ==
  /\ At(c, "discard")
  /\ IF works THEN vault' = vault \ {call[c].cred} /\ UNCHANGED <<may, lost>>
     ELSE /\ Allowed("faults") /\ Uses("faults")
          /\ lost' = lost \cup {call[c].cred} /\ UNCHANGED vault
  /\ Becomes(c, Free)
  /\ UNCHANGED <<doc, others, met, stored, begun, answers>>

(***************************************************************************)
(* _finish_assignments.  The record tells how far the request had come.    *)
(***************************************************************************)
Answered(c, state, added) == [request |-> call[c].request, state |-> state, added |-> added]

Ready(c, state, added) ==
  Becomes(c, [pc |-> "save", request |-> call[c].request, doors |-> call[c].doors,
              answer |-> Answered(c, state, added)])

AnswerAgain(c) ==
  LET record == doc.requests[call[c].request]
  IN /\ At(c, "finish") /\ record.state \in Terminal
     /\ answers' = answers \cup {Answered(c, record.state, record.added)}
     /\ Becomes(c, Free)
     /\ UNCHANGED <<doc, may, others, met, vault, stored, begun, lost>>

\* No doors: done.  An interrupted request is not taken up again.
\* Mutant: it is.
TakenUp(state) == state \in {"core_created", "provisioning"}

Fresh(state) == state = "core_created"

NothingToDo(c) ==
  LET state == doc.requests[call[c].request].state
  IN /\ At(c, "finish") /\ state \notin Terminal
     /\ \/ Wanted(c).doors = {} /\ Ready(c, "completed", {})
        \/ Wanted(c).doors # {} /\ ~Fresh(state) /\ Ready(c, "needs_attention", {})
     /\ UNCHANGED <<doc, may, kept>>

MarkProvisioning(c) ==
  LET r == call[c].request
  IN /\ At(c, "finish") /\ Fresh(doc.requests[r].state) /\ Wanted(c).doors # {}
     /\ call[c].cred # None
     /\ doc' = [doc EXCEPT !.requests[r].state = "provisioning"]
     /\ begun' = [begun EXCEPT ![r] = @ + 1]
     /\ Becomes(c, [call[c] EXCEPT !.pc = "check", !.had = {g[2] : g \in MetadataOf(doc, call[c].person)}])
     /\ UNCHANGED <<may, others, met, vault, stored, answers, lost>>

\* The person is gone, or the authorities do not agree: raises, and the
\* request stays as it is.
FinishFails(c) ==
  /\ At(c, "finish") /\ Allowed("faults") /\ Uses("faults")
  /\ Becomes(c, Free)
  /\ UNCHANGED <<doc, kept>>

(***************************************************************************)
(* add_access: everything is looked at before the first door.              *)
(***************************************************************************)
Additions(d, p, xs) == {x \in xs : d.metadata[<<p, x>>] = None}

MayAdd(d, p, xs, cred) ==
  /\ d.people[p] # None /\ GrantsOf(d, p) = MetadataOf(d, p)
  /\ \A x \in xs : Managed(d, x)
  /\ \A x \in Additions(d, p, xs) : PinCapable(d, x)
  /\ Resolvable(d, p) /\ d.authority[p] \in {None, cred} /\ cred \in vault

CheckAdditions(c) ==
  LET p == call[c].person
  IN /\ At(c, "check") /\ \A o \in Caller : ~Removing(o)
     /\ Becomes(c, IF MayAdd(doc, p, call[c].todo, call[c].cred)
                   THEN [call[c] EXCEPT !.pc = "door", !.todo = Additions(doc, p, @)]
                   ELSE [call[c] EXCEPT !.pc = "failed"])
     /\ UNCHANGED <<doc, may, kept>>

\* give_access: one door; a PIN is stored when the lock has been programmed.
Give(c, p, x) ==
  /\ \A o \in Caller : ~Giving(o)
  /\ doc.people[p] # None /\ Managed(doc, x) /\ PinCapable(doc, x)
  /\ doc.metadata[<<p, x>>] = None /\ Resolvable(doc, p)
  /\ Begins(c, "gives", [Provisioning(None, "door", p, {x}) EXCEPT !.cred = doc.authority[p]])
  /\ UNCHANGED <<doc, others, setup>>

\* The lock is programmed (a keypad needs nothing), or it refuses.
Program(c, x) ==
  /\ At(c, "door") /\ x \in call[c].todo
  /\ Becomes(c, [call[c] EXCEPT !.pc = IF @ = "door" /\ call[c].cred = None THEN "secret" ELSE "metadata",
                                !.door = x, !.todo = @ \ {x}])
  /\ UNCHANGED <<doc, may, kept>>

Refuse(c) ==
  /\ At(c, "door") /\ call[c].todo # {} /\ Allowed("faults") /\ Uses("faults")
  /\ IF Giving(c) THEN Becomes(c, Free) ELSE Goes(c, "rollback")
  /\ UNCHANGED <<doc, kept>>

(***************************************************************************)
(* record_provisioning: metadata, grant, authority.  What fails later than *)
(* the metadata is compensated.                                            *)
(***************************************************************************)
Here(c) == <<call[c].person, call[c].door>>

Record(c, pc, new, next, failed) ==
  /\ At(c, pc)
  /\ \/ Valid(new) /\ doc' = new /\ Goes(c, next) /\ UNCHANGED may
     \/ Valid(new) /\ Allowed("faults") /\ Uses("faults") /\ Goes(c, failed) /\ UNCHANGED doc
     \/ ~Valid(new) /\ Goes(c, failed) /\ UNCHANGED <<doc, may>>

RecordMetadata(c) ==
  /\ Record(c, "metadata", UpsertMetadata(doc, Here(c), call[c].cred, "synchronized"),
            "grant", "rollback")
  /\ UNCHANGED kept

\* The schedule is the person's as it is now; a person that is gone raises.
RecordGrant(c) ==
  /\ At(c, "grant") /\ doc.people[call[c].person] # None
  /\ Record(c, "grant", InheritGrant(doc, Here(c), call[c].cred), "authority", "undo_grant")
  /\ IF doc' = doc THEN UNCHANGED hours
     ELSE /\ meant' = [meant EXCEPT ![Here(c)] = Allows(doc', Here(c))]
          /\ stale' = stale \ {Here(c)}
  /\ UNCHANGED <<drawn, doors, met, setup>>

RecordNoGrant(c) ==
  /\ At(c, "grant") /\ doc.people[call[c].person] = None
  /\ Goes(c, "undo_grant")
  /\ UNCHANGED <<doc, may, kept>>

RecordAuthority(c) ==
  /\ At(c, "authority")
  /\ LET p == call[c].person
         new == SetAuthority(doc, p, call[c].cred)
         next == [call[c] EXCEPT !.pc = "door", !.done = @ \cup {call[c].door}]
     IN \/ /\ MayClaim(doc, p, call[c].cred) /\ Valid(new)
           /\ doc' = new
           /\ Becomes(c, IF Giving(c) THEN Free ELSE next)
           /\ UNCHANGED may
        \/ /\ IF MayClaim(doc, p, call[c].cred) /\ Valid(new)
              THEN Allowed("faults") /\ Uses("faults") ELSE UNCHANGED may
           /\ Goes(c, "undo_grant") /\ UNCHANGED doc
  /\ UNCHANGED kept

UndoGrant(c) ==
  /\ At(c, "undo_grant")
  /\ doc' = RemoveGrant(doc, Here(c))
  /\ Goes(c, "undo_metadata")
  /\ UNCHANGED <<may, kept>>

UndoMetadata(c) ==
  /\ At(c, "undo_metadata")
  /\ doc' = RemoveMetadata(doc, Here(c))
  /\ Goes(c, "undo_authority")
  /\ UNCHANGED <<may, kept>>

\* Without a reference left, the person has no PIN any more; the secret of a
\* set-up stays in the vault.
UndoAuthority(c) ==
  LET p == call[c].person
      release == MayRelease(doc, p, call[c].cred)
  IN /\ At(c, "undo_authority")
     /\ doc' = IF release THEN SetAuthority(doc, p, None) ELSE doc
     /\ lost' = IF release THEN lost \cup {call[c].cred} ELSE lost
     /\ Goes(c, "rollback")
     /\ UNCHANGED <<may, others, met, vault, stored, begun, answers>>

\* A compensation that fails leaves what is there.
UndoFails(c) ==
  /\ call[c].pc \in {"undo_grant", "undo_metadata"} /\ Allowed("faults") /\ Uses("faults")
  /\ Goes(c, "rollback")
  /\ UNCHANGED <<doc, kept>>

(***************************************************************************)
(* _rollback_additions: the doors that were added, and the one that was    *)
(* not; a lock that does not give its PIN back keeps its records, marked.  *)
(***************************************************************************)
Left(c) ==
  {x \in call[c].done \cup ({call[c].door} \ {None}) : doc.metadata[<<call[c].person, x>>] # None}

TakeBack(c, x) ==
  /\ At(c, "rollback") /\ SettingUp(c) /\ x \in Left(c)
  /\ doc' = RemoveGrant(doc, <<call[c].person, x>>)
  /\ Becomes(c, [call[c] EXCEPT !.pc = "unrecord", !.door = x, !.done = @ \ {x}])
  /\ UNCHANGED <<may, kept>>

Unrecord(c) ==
  /\ At(c, "unrecord")
  /\ doc' = RemoveMetadata(doc, Here(c))
  /\ Becomes(c, [call[c] EXCEPT !.pc = "rollback", !.door = None])
  /\ UNCHANGED <<may, kept>>

LeaveMarked(c, x) ==
  /\ At(c, "rollback") /\ SettingUp(c) /\ x \in Left(c)
  /\ Allowed("faults") /\ Uses("faults")
  /\ doc' = [doc EXCEPT !.metadata[<<call[c].person, x>>].status = "attention"]
  /\ Becomes(c, [call[c] EXCEPT !.done = @ \ {x}, !.door = IF @ = x THEN None ELSE @])
  /\ UNCHANGED kept

TakenBack(c) ==
  /\ At(c, "rollback") /\ SettingUp(c) /\ Left(c) = {}
  /\ Goes(c, "failed")
  /\ UNCHANGED <<doc, may, kept>>

\* give_access removes the PIN from the lock, and deletes the secret it made
\* if nothing refers to it.
GiveFails(c, removed) ==
  LET p == call[c].person
      discards == removed /\ call[c].made /\ MayRelease(doc, p, call[c].cred)
  IN /\ At(c, "rollback") /\ Giving(c)
     /\ IF removed THEN UNCHANGED may ELSE Allowed("faults") /\ Uses("faults")
     /\ IF discards
        THEN /\ doc' = SetAuthority(doc, p, None)
             /\ vault' = vault \ {call[c].cred} /\ lost' = lost \ {call[c].cred}
        ELSE /\ lost' = IF call[c].made THEN lost \cup {call[c].cred} ELSE lost
             /\ UNCHANGED <<doc, vault>>
     /\ Becomes(c, Free)
     /\ UNCHANGED <<others, met, stored, begun, answers>>

(***************************************************************************)
(* The result: from what was added, or from the records after a failure.   *)
(***************************************************************************)
Works(d, p, x) == d.metadata[<<p, x>>] # None /\ d.metadata[<<p, x>>].status = "synchronized"

\* Mutant: what was tried counts as added.
TriedCounts(d, p, xs) == xs

AddedOf(d, p, xs) == {x \in xs : Works(d, p, x)}

Marked(d, p, xs) ==
  \E x \in xs : ~Works(d, p, x) /\ (d.metadata[<<p, x>>] # None \/ d.grants[<<p, x>>] # None)

AllAdded(c) ==
  /\ At(c, "door") /\ SettingUp(c) /\ call[c].todo = {}
  /\ Ready(c, IF \A g \in MetadataOf(doc, call[c].person) : Works(doc, g[1], g[2])
              THEN "completed" ELSE "needs_attention", call[c].done)
  /\ UNCHANGED <<doc, may, kept>>

NotAdded(c) ==
  LET p == call[c].person
      new == Wanted(c).doors \ call[c].had
  IN /\ At(c, "failed")
     /\ Ready(c, IF Marked(doc, p, new) THEN "needs_attention" ELSE "failed", AddedOf(doc, p, new))
     /\ UNCHANGED <<doc, may, kept>>

SaveResult(c) ==
  LET answer == call[c].answer
  IN /\ At(c, "save")
     /\ doc' = [doc EXCEPT !.requests[answer.request] = [state |-> answer.state, added |-> answer.added]]
     /\ answers' = answers \cup {answer}
     /\ Becomes(c, Free)
     /\ UNCHANGED <<may, others, met, vault, stored, begun, lost>>

SaveFails(c) ==
  /\ At(c, "save") /\ Allowed("faults") /\ Uses("faults")
  /\ Becomes(c, Free)
  /\ UNCHANGED <<doc, kept>>

(***************************************************************************)
(* What else happens to people and to the process.                         *)
(***************************************************************************)
\* PersonDeletionService, in one step: the records and the secret.
DeletePerson(c, p) ==
  /\ AtOnce(c, "people") /\ doc.people[p] # None
  /\ doc' = RemovePerson(doc, p)
  /\ vault' = vault \ {doc.authority[p]}
  /\ UNCHANGED <<call, met, others, stored, begun, answers, lost>>

RestartHome ==
  /\ Restart
  /\ lost' = lost \cup {call[c].cred : c \in {o \in Caller : "made" \in DOMAIN call[o] /\ call[o].made}}
  /\ UNCHANGED <<vault, stored, begun, answers>>
=============================================================================
