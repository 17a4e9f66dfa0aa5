------------------------ MODULE SynchronizationRecovery ------------------------
(***************************************************************************)
(* recover: one person's access at one door.  What is to be done is        *)
(* decided from one reading of the document, before the vault is asked for *)
(* the PIN; operations and access management do it.                        *)
(***************************************************************************)
EXTENDS Synchronization

(***************************************************************************)
(* The status of one relationship, and whether a retry is offered.         *)
(***************************************************************************)
OperationsOn(d, g) == {o \in OperationsAt(d, g[2]) : d.ops[o].person = g[1]}

RelationEvidence(d, g) ==
  IF ~Exists(d, "metadata", g) \/ d.metadata[g].cred # d.grants[g].cred
  THEN "manual_attention_required"
  ELSE Aggregate({d.grants[g].status, d.metadata[g].status}
                 \cup {LifecycleEvidence[d.ops[o].status] : o \in OperationsOn(d, g)})

Relation(d, g) ==
  IF \/ Issues(d, g[2])
     \/ /\ RelationEvidence(d, g) = "retry_required"
        /\ d.statuses[g[2]].status # "retry_required"
  THEN "manual_attention_required" ELSE RelationEvidence(d, g)

RetryAllowed(d, g) ==
  /\ d.authority[g[1]] # None /\ d.grants[g].cred = d.authority[g[1]]
  /\ \/ Relation(d, g) = "retry_required"
     \/ Relation(d, g) = "unknown" /\ latest[g] \in {"pending", "failed"}
     \/ Relation(d, g) = "manual_attention_required" /\ latest[g] = "failed"

(***************************************************************************)
(* The decision.                                                           *)
(***************************************************************************)
Consistent(d, g) ==
  /\ d.people[g[1]] # None /\ g[2] \in Managed(d)
  /\ Exists(d, "grants", g) /\ Exists(d, "metadata", g)
  /\ d.metadata[g].cred # None
  /\ d.grants[g].cred = d.metadata[g].cred /\ d.grants[g].status = d.metadata[g].status
  /\ ActiveOf(d, g[1]) \subseteq OperationsOn(d, g)

Awaiting(d, g) == ActiveOf(d, g[1]) = {} /\ Relation(d, g) = "unknown" /\ d.grants[g].status = "unknown"

Resumable(d, o) == Kind[o] = "deletion" \/ d.ops[o].status = "waiting_retry"

Decision(d, g) ==
  LET active == ActiveOf(d, g[1])
  IN IF ~Consistent(d, g) THEN "unavailable"
     ELSE IF Cardinality(active) > 1 THEN "overlap"
     ELSE IF \E o \in active : d.ops[o].status \in {"pending", "running"} THEN "progress"
     ELSE IF Relation(d, g) = "synchronized" THEN "already"
     ELSE IF ~RetryAllowed(d, g) /\ ~Awaiting(d, g) THEN "refused"
     ELSE IF \E o \in active : ~Resumable(d, o) THEN "unsafe"
     ELSE IF active = {} /\ ~Awaiting(d, g) /\ d.grants[g].status # "retry_required" THEN "changed"
     ELSE IF \E o \in active : d.ops[o].status # "waiting_retry" THEN "hopeless" ELSE "resume"

Answer(said) == <<[do |-> "answer", said |-> said]>>
Look == <<Do("reevaluate")>>
Failure == Look \o Tells("other") \o Answer("failed")

\* What follows the decision, and what follows if that raises.
StepsAfter(decision) ==
  CASE decision \in {"unavailable", "unsafe"} -> <<Do("alarm")>> \o Answer(decision)
    [] decision = "overlap" -> <<Do("alarm")>> \o Tells("other") \o Answer(decision)
    [] decision = "changed" -> Look \o Answer(decision)
    [] decision = "hopeless" -> Tells("other") \o <<Do("raise")>>
    [] decision = "resume" -> Tells("other") \o <<Do("resume")>>
    [] OTHER -> Answer(IF decision = "already" THEN "completed" ELSE decision)

StepsIfRaised(decision) ==
  CASE decision = "unavailable" -> Answer(decision)
    [] decision \in {"hopeless", "resume"} -> Failure
    [] OTHER -> <<>>

Works(d, g) ==
  \A record \in {"metadata", "grants"} :
    Exists(d, record, g) /\ d[record][g].status = "synchronized"

Fact(d, g) ==
  IF Works(d, g) THEN "works" ELSE IF Exists(d, "metadata", g) THEN "recorded" ELSE "gone"

\* One recovery of a relationship at a time: a second call waits for the first.
Recoveries == {c \in Caller : "was" \in DOMAIN call[c]}

Recover(c, g) ==
  LET decision == Decision(doc, g)
      active == IF decision = "resume" THEN ActiveOf(doc, g[1]) ELSE {}
  IN /\ \A other \in Recoveries : call[other].pair # g
     /\ Begins(c, "recoveries",
          [pair |-> g, op |-> IF active = {} THEN None ELSE CHOOSE o \in active : TRUE,
           todo |-> StepsAfter(decision), undo |-> StepsIfRaised(decision), failed |-> FALSE, writes |-> 0,
           found |-> doc.metadata[g], fact |-> Fact(doc, g), seen |-> None,
           was |-> IF decision = "unavailable" THEN None ELSE Relation(doc, g)])
     /\ UNCHANGED <<doc, up, statuses, missed, told>>

(***************************************************************************)
(* Resuming.                                                               *)
(***************************************************************************)
Resumes(c, steps) ==
  /\ Becomes(c, With(c, steps))
  /\ UNCHANGED <<records, statuses, missed, told>>

\* The operation is over, the relationship has changed, or the lock or the vault fails.
ResumeFails(c) ==
  /\ Doing(c, "resume")
  /\ call[c].op # None => doc.ops[call[c].op].status = "completed"
  /\ Raises(c)
  /\ UNCHANGED <<records, statuses, told>>

\* retry_pin and delete_person
ResumeOperation(c, work) ==
  /\ Doing(c, "resume") /\ call[c].op # None
  /\ doc.ops[call[c].op].status # "completed"
  /\ Resumes(c, work \o Look \o Answer("seen"))

StillAsFound(c, status) ==
  /\ Doing(c, "resume") /\ call[c].op = None
  /\ \A record \in {"metadata", "grants"} : Exists(doc, record, call[c].pair)
  /\ doc.metadata[call[c].pair] = call[c].found /\ call[c].found.status = status

\* retry_provisioning_verification: the lock has the PIN, another one, or does not tell.
ResumeVerification(c, outcome) ==
  /\ StillAsFound(c, "unknown")
  /\ Resumes(c, (CASE outcome = "verified" -> Update("synchronized", call[c].found.cred, "other")
                   [] outcome = "failed" -> Update("manual_attention_required", call[c].found.cred, "failed")
                   [] outcome = "pending" -> Tells("pending"))
                \o <<Do("reread")>> \o Answer("seen"))

\* retry_removal_verification; the slot may hold another PIN by now, or the lock refuse.
ResumeRemoval(c, outcome) ==
  /\ StillAsFound(c, "retry_required")
  /\ Resumes(c, IF outcome = "stolen"
                THEN Update("manual_attention_required", call[c].found.cred, "other") \o <<Do("raise")>>
                ELSE RemovalSteps(call[c].found.cred, outcome, Look \o Answer("seen")))

(***************************************************************************)
(* The answer.                                                             *)
(***************************************************************************)
\* _recompute_record: if it raises, the status is the one that was found.
Reevaluate(c) ==
  LET g == call[c].pair
      rest == Tail(call[c].todo)
      Seen(failed) == [call[c] EXCEPT !.undo = rest, !.failed = failed, !.fact = Fact(doc, g),
                                      !.seen = IF failed THEN call[c].was ELSE Evaluate(doc, g[2])]
  IN /\ AfterRepair(c, "reevaluate")
     /\ IF g[2] \in Managed(doc)
        THEN /\ clock' = clock + 1 /\ queue' = Append(queue, c)
             /\ Becomes(c, [Seen(FALSE) EXCEPT !.todo =
                              Upserts({g[2]}, LAMBDA x : Evaluate(doc, x), FALSE) \o rest])
        ELSE Becomes(c, [Seen(TRUE) EXCEPT !.todo = rest]) /\ UNCHANGED <<clock, queue>>
     /\ UNCHANGED <<records, verdicts, missed, told>>

Reread(c) ==
  LET g == call[c].pair
      there == g[2] \in Managed(doc) /\ Exists(doc, "grants", g)
  IN /\ Doing(c, "reread")
     /\ Becomes(c, [With(c, Tail(call[c].todo)) EXCEPT
                      !.failed = FALSE, !.fact = Fact(doc, g),
                      !.seen = IF there THEN Relation(doc, g) ELSE call[c].was])
     /\ UNCHANGED <<records, statuses, missed, told>>

\* Mutant: what could not be evaluated is taken for done.
SaidUnchecked(status) ==
  CASE status \in {"synchronized", "retry_required"} -> "completed"
    [] status \in {"synchronizing", "pending"} -> "progress"
    [] status = "manual_attention_required" -> "attention"
    [] OTHER -> "pending"

Said(status) ==
  CASE status = "synchronized" -> "completed"
    [] status \in {"synchronizing", "pending"} -> "progress"
    [] status = "manual_attention_required" -> "attention"
    [] status = "unknown" -> "pending"
    [] OTHER -> "unconfirmed"

GiveAnswer(c) ==
  LET status == IF call[c].failed THEN call[c].was ELSE call[c].seen
      said == IF Step(c).said = "seen" THEN Said(status) ELSE Step(c).said
  IN /\ Doing(c, "answer")
     /\ answers' = answers \cup {[said |-> said, fact |-> call[c].fact]}
     /\ latest' = IF Step(c).said = "seen" /\ said = "completed"
                  THEN [latest EXCEPT ![call[c].pair] = "other"] ELSE latest
     /\ Goes(c)
     /\ UNCHANGED <<records, statuses, missed>>

(***************************************************************************)
(* The specification.                                                      *)
(***************************************************************************)
Init ==
  \E home \in Homes :
    /\ doc = home.doc /\ may = home.may
    /\ up = "down" /\ call = [c \in Caller |-> Free] /\ queue = <<>> /\ clock = 0
    /\ latest = home.latest
    /\ verdicts = {} /\ missed = [x \in Door |-> 0] /\ answers = {}

Serve(c) ==
  /\ Ready(c)
  /\ \/ \E g \in Pair :
          \/ \E status \in {"synchronized", "unknown"} : GiveAccess(c, g, status)
          \/ \E outcome \in RemovalOutcome : RemoveAccess(c, g, outcome)
          \/ Recover(c, g)
     \/ \E o \in Op, work \in Work : StartOperation(c, o, work)

Advance(c) ==
  \/ WriteMetadata(c) \/ WriteGrant(c) \/ WriteNewGrant(c) \/ DropGrant(c) \/ DropMetadata(c)
  \/ TellHistory(c) \/ RepairOrphans(c) \/ EvaluateDoor(c) \/ PronounceDoor(c) \/ StoreStatus(c)
  \/ WriteOperation(c) \/ Observe(c) \/ GiveUp(c)
  \/ FinishReplacement(c) \/ FinishDeletion(c) \/ ExpandDeletion(c) \/ NothingToDelete(c)
  \/ ResumeFails(c) \/ \E work \in Work : ResumeOperation(c, work)
  \/ \E outcome \in {"verified", "failed", "pending"} : ResumeVerification(c, outcome)
  \/ \E outcome \in RemovalOutcome \cup {"stolen"} : ResumeRemoval(c, outcome)
  \/ Reevaluate(c) \/ Reread(c) \/ GiveAnswer(c)

Next ==
  \/ Start \/ Stop
  \/ \E x \in Door : RemoveDoor(x)
  \/ \E c \in Caller : Serve(c) \/ Advance(c)

Spec == Init /\ [][Next]_vars

(***************************************************************************)
(* Every document that HomePASS has ever written loads at the next start.  *)
(***************************************************************************)
DocumentsLoad == up # "failed"

(***************************************************************************)
(* A home starts with a document of any of the schemas that load, and all  *)
(* its writes keep the document valid: a status for each managed door and  *)
(* for no other, nobody's PIN in two hands, no reference to what has gone. *)
(***************************************************************************)
TypeOK ==
  /\ up \in {"down", "up"}
  /\ up = "up" => Valid(doc)
  /\ \A x \in Door : doc.statuses[x] # None =>
       doc.statuses[x].status \in Status /\ doc.statuses[x].at <= clock
  /\ verdicts \subseteq Door /\ \A x \in Door : missed[x] <= clock

(***************************************************************************)
(* When no call is under way, the status of a door is what the document    *)
(* gives, whatever calls met: an evaluation of an older reading never      *)
(* stays.  Not so where a status was pronounced, which hides what other    *)
(* people's records at that door tell, and where a call left the door out: *)
(* it raised before it could evaluate, as an observer does that another    *)
(* evaluation overtook, or it deleted a person who was recorded there      *)
(* without access, as a crash during a removal may leave it.               *)
(***************************************************************************)
Quiet == up = "up" /\ \A c \in Caller : call[c] = Free

StatusCurrent ==
  Quiet => \A x \in Managed(doc) \ verdicts :
             missed[x] = 0 => doc.statuses[x].status = Evaluate(doc, x)

(***************************************************************************)
(* A recovery that answers that it is complete has read, after the last    *)
(* thing it did, that the PIN works at the door or is gone from it.        *)
(***************************************************************************)
RecoveryTruthful ==
  \A a \in answers : a.said = "completed" => a.fact \in {"works", "gone"}
=============================================================================
