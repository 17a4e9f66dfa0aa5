---------------------------- MODULE Synchronization ----------------------------
(***************************************************************************)
(* Statuses of the doors, derived from the document, and the recovery of   *)
(* one person's access at one door.  Every call is a sequence of steps,    *)
(* each of which is one transaction or one reading of the document; other  *)
(* calls take their steps in between.  A process that starts loads a       *)
(* document of any schema, and evaluates all doors of it.  A person has    *)
(* one PIN, and who has a PIN has the authority over it (Home has the      *)
(* rest); what a lock answers is a choice.  The lock of access management  *)
(* keeps some of these calls apart, not those that answer the locks, and   *)
(* is left out: more happens here than there.                              *)
(***************************************************************************)
EXTENDS Migration, Sequences

CONSTANTS
  Caller,      \* calls served at a time
  InOrder,     \* of each set of doors a sequence, in the order of their identifiers
  Homes        \* documents on disk, and what is going to be asked

(***************************************************************************)
(* A sequence of doors has each once.  None is nothing else.  A document   *)
(* on disk is of its type, with the statuses of its schema; a replacement  *)
(* has expectations of its targets, and no evaluation was ever made.       *)
(***************************************************************************)
WellWritten(d) ==
  /\ d \in Documents
  /\ \A g \in Granted(d) : d.grants[g].status \in StatusesOf(d.version)
  /\ \A g \in Recorded(d) : d.metadata[g].status \in StatusesOf(d.version)
  /\ \A o \in Started(d) : Kind[o] = "replacement" => d.ops[o].targets = {e[1] : e \in d.ops[o].expects}
  /\ \A x \in Door : d.statuses[x] # None => d.statuses[x].at = 0

ASSUME Assumptions ==
  /\ \A xs \in SUBSET Door :
       /\ InOrder[xs] \in Seq(xs)
       /\ \A x \in xs : \E i \in DOMAIN InOrder[xs] : InOrder[xs][i] = x
       /\ \A i, j \in DOMAIN InOrder[xs] : InOrder[xs][i] = InOrder[xs][j] => i = j
  /\ Permanent \in Schedule /\ None \notin Status \cup LegacyStatus \cup Pair \cup Op \cup Schedule
  /\ None \notin Grant /\ None \notin Metadata /\ None \notin Enrolment
  /\ None \notin DoorStatus /\ None \notin LifecycleOperation /\ None \notin Documents
  /\ \A home \in Homes : WellWritten(home.doc)

VARIABLES
  doc,         \* the document
  up,          \* "down", "up", or "failed" to start
  call,        \* of each caller what it is about, and the steps to take
  queue,       \* callers that wait for the lock of the status repository
  clock,       \* readings of the document so far: time stamps of evaluations
  latest,      \* of each pair the latest event of its history
  may,         \* what is going to be asked
  verdicts,    \* history: doors whose status was pronounced, not evaluated
  missed,      \* history: of each door the last reading before a call left it out
  answers      \* history: what recoveries answered, and what was the case

records == <<doc, up, may>>
statuses == <<queue, clock, verdicts>>
told == <<latest, answers>>
vars == <<records, call, statuses, missed, told>>

Free == [todo |-> <<>>]
Ready(c) == up = "up" /\ call[c] = Free
Doing(c, what) == up = "up" /\ call[c].todo # <<>> /\ Head(call[c].todo).do = what
Step(c) == Head(call[c].todo)

Do(what) == [do |-> what]
Writes(what, status, cred) ==
  <<[do |-> "metadata", status |-> status, cred |-> cred], [do |-> what, status |-> status]>>
Tells(event) == <<[do |-> "history", event |-> event]>>

\* update_synchronization_status, and what is told afterwards
Update(status, cred, event) ==
  Writes("grant", status, cred) \o <<Do("evaluate")>> \o Tells(event)

\* What is done if one of the steps that follow raises.
Except(undo) == <<[do |-> "except", undo |-> undo]>>

\* A verified removal: remove_grant, and then remove_synchronization_metadata.
Removal ==
  <<Do("dropgrant"), Do("evaluate"), Do("dropmetadata"), Do("pronounce")>> \o Tells("other")

\* The call goes on with other steps, or is over.
With(c, todo) == [call[c] EXCEPT !.todo = todo]
Entered(next) ==
  IF next.todo = <<>> THEN Free
  ELSE IF Head(next.todo).do = "except"
       THEN [next EXCEPT !.todo = Tail(@), !.undo = Head(next.todo).undo] ELSE next
Becomes(c, next) == call' = [call EXCEPT ![c] = Entered(next)]
Goes(c) == Becomes(c, With(c, Tail(call[c].todo)))

About(c) ==
  (IF call[c].pair = None THEN {} ELSE {call[c].pair[2]})
  \cup (IF call[c].op = None THEN {} ELSE doc.ops[call[c].op].targets)

\* The step raises: what the call does about it comes next.
Raised(c) == [call[c] EXCEPT !.todo = call[c].undo, !.undo = <<>>, !.failed = TRUE]

LeavesOut(xs) == missed' = [x \in Door |-> IF x \in xs THEN clock ELSE missed[x]]

Raises(c) ==
  /\ Becomes(c, Raised(c))
  /\ LeavesOut(About(c))

Saves(c, d) ==
  IF Valid(d) THEN doc' = d /\ Goes(c) /\ UNCHANGED missed
  ELSE UNCHANGED doc /\ Raises(c)

Begins(c, what, record) ==
  /\ Ready(c) /\ may[what] > 0 /\ may' = [may EXCEPT ![what] = @ - 1]
  /\ call' = [call EXCEPT ![c] = record]

Call(g, o, todo, undo) ==
  [pair |-> g, op |-> o, todo |-> todo, undo |-> undo, failed |-> FALSE,
   writes |-> 0]

(***************************************************************************)
(* Start: migrate and validate, and evaluate every door.                   *)
(***************************************************************************)
Evaluated(d, now) ==
  [d EXCEPT !.statuses = [x \in Door |->
     IF x \in Managed(d) THEN [status |-> Evaluate(d, x), at |-> now] ELSE None]]

Start ==
  /\ up = "down"
  /\ LET d == Migrate(doc)
     IN IF d = None THEN up' = "failed" /\ UNCHANGED <<doc, clock>>
        ELSE /\ up' = "up" /\ clock' = clock + 1
             /\ doc' = Evaluated(Repaired(d), clock + 1)
  /\ verdicts' = {} /\ missed' = [x \in Door |-> 0]
  /\ UNCHANGED <<may, call, queue, told>>

Stop ==
  /\ up = "up" /\ may["restarts"] > 0 /\ may' = [may EXCEPT !["restarts"] = @ - 1]
  /\ up' = "down" /\ call' = [c \in Caller |-> Free] /\ queue' = <<>>
  /\ UNCHANGED <<doc, clock, verdicts, missed, told>>

(***************************************************************************)
(* Access is given, removed and verified, as access management does.       *)
(***************************************************************************)
\* record_provisioning, and its compensation
GiveAccess(c, g, status) ==
  /\ doc.authority[g[1]] # None /\ ~Exists(doc, "metadata", g) /\ g[2] \in Managed(doc)
  /\ Begins(c, "gives",
       Call(g, None,
            Writes("newgrant", status, doc.authority[g[1]]) \o <<Do("evaluate")>>
              \o Tells(IF status = "unknown" THEN "pending" ELSE "other"),
            <<Do("dropgrant"), Do("dropmetadata"), Do("evaluate")>>))
  /\ UNCHANGED <<doc, up, statuses, missed, told>>

\* _verify_removal, once the lock has told what it holds; it never raises.
Mark(status, cred, after) ==
  Except(Tells("failed") \o after) \o Update(status, cred, "failed") \o after

Verified(outcome, cred, after) ==
  IF outcome # "removed" THEN Mark(outcome, cred, after)
  ELSE Except(Mark("manual_attention_required", cred, after)) \o Removal \o after

\* The intent that precedes the command is left out: AccessManagement has it.
RemovalSteps(cred, outcome, after) ==
  Update("pending", cred, "other") \o Verified(outcome, cred, after)

RemovalOutcome == {"removed", "retry_required", "manual_attention_required"}

RemoveAccess(c, g, outcome) ==
  /\ Exists(doc, "metadata", g) /\ Exists(doc, "grants", g)
  /\ Begins(c, "removals",
       Call(g, None, RemovalSteps(doc.metadata[g].cred, outcome, <<>>), <<>>))
  /\ UNCHANGED <<doc, up, statuses, missed, told>>

\* The metadata is written as it was read, whatever has become of it.
WriteMetadata(c) ==
  /\ Doing(c, "metadata")
  /\ Saves(c, [doc EXCEPT !.metadata[call[c].pair] =
                  [cred |-> Step(c).cred, status |-> Step(c).status]])
  /\ UNCHANGED <<up, may, statuses, told>>

WriteGrant(c) ==
  LET g == call[c].pair
  IN /\ Doing(c, "grant")
     /\ Saves(c, IF Exists(doc, "grants", g)
                 THEN [doc EXCEPT !.grants[g].status = Step(c).status] ELSE doc)
     /\ UNCHANGED <<up, may, statuses, told>>

\* upsert_inheriting_person_schedule needs the person.
WriteNewGrant(c) ==
  LET g == call[c].pair
  IN /\ Doing(c, "newgrant")
     /\ IF doc.people[g[1]] = None THEN UNCHANGED doc /\ Raises(c)
        ELSE Saves(c, [doc EXCEPT !.grants[g] =
               [schedule |-> doc.people[g[1]], cred |-> doc.authority[g[1]],
                status |-> Step(c).status]])
     /\ UNCHANGED <<up, may, statuses, told>>

DropGrant(c) ==
  /\ Doing(c, "dropgrant") /\ Saves(c, [doc EXCEPT !.grants[call[c].pair] = None])
  /\ UNCHANGED <<up, may, statuses, told>>

DropMetadata(c) ==
  /\ Doing(c, "dropmetadata") /\ Saves(c, [doc EXCEPT !.metadata[call[c].pair] = None])
  /\ UNCHANGED <<up, may, statuses, told>>

TellHistory(c) ==
  /\ Doing(c, "history")
  /\ latest' = [latest EXCEPT ![call[c].pair] = Step(c).event]
  /\ Goes(c)
  /\ UNCHANGED <<records, statuses, missed, answers>>

RemoveDoor(x) ==
  /\ up = "up" /\ may["doors"] > 0 /\ may' = [may EXCEPT !["doors"] = @ - 1]
  /\ x \in Managed(doc) /\ \A g \in Granted(doc) : g[2] # x
  /\ doc' = [doc EXCEPT !.doors[x].managed = FALSE, !.statuses[x] = None]
  /\ UNCHANGED <<up, call, statuses, missed, told>>

(***************************************************************************)
(* Operations on all doors of a person, and their observer.                *)
(***************************************************************************)
DoorsOf(d, p) == {g[2] : g \in {h \in Granted(d) : h[1] = p}}

\* What an operation expects to find when it is completed, and a count of its writes.
Operation(d, p, status) ==
  [person |-> p, targets |-> DoorsOf(d, p), status |-> status, writes |-> 0,
   expects |-> {<<x, d.grants[<<p, x>>], d.metadata[<<p, x>>]>> : x \in DoorsOf(d, p)}]

Written(d, o, status) == [d EXCEPT !.ops[o].status = status, !.ops[o].writes = @ + 1]

Operate(status) == [do |-> "operate", status |-> status]
Work == {<<Operate("running"), Do("finish")>>} \cup
        {<<Operate("running"), Operate(status), Do("raise")>> : status \in {"waiting_retry", "failed"}}

StartOperation(c, o, work) ==
  \E p \in Person :
    /\ doc.people[p] # None /\ doc.ops[o] = None
    /\ Kind[o] \notin {Kind[a] : a \in ActiveOf(doc, p)}
    /\ Kind[o] = "replacement" => DoorsOf(doc, p) # {}
    /\ doc' = [doc EXCEPT !.ops[o] = Operation(doc, p, "pending")]
    /\ Begins(c, "operations", Call(None, o, <<Do("observe")>> \o work, <<>>))
    /\ UNCHANGED <<up, statuses, missed, told>>

\* The journal is written first, and then observed.
WriteOperation(c) ==
  /\ Doing(c, "operate")
  /\ doc' = Written(doc, call[c].op, Step(c).status)
  /\ Becomes(c, [With(c, <<Do("observe")>> \o Tail(call[c].todo)) EXCEPT
                   !.writes = doc.ops[call[c].op].writes + 1])
  /\ UNCHANGED <<up, may, statuses, missed, told>>

GiveUp(c) ==
  /\ Doing(c, "raise") /\ Raises(c)
  /\ UNCHANGED <<records, statuses, told>>

\* The final transactions of a replacement and of a deletion.
Confirmed(d, o) ==
  LET p == d.ops[o].person
      Sure(kept) == [g \in Pair |->
        IF g[1] = p /\ g[2] \in d.ops[o].targets
        THEN [kept[g] EXCEPT !.status = "synchronized"] ELSE kept[g]]
  IN [Written(d, o, "completed") EXCEPT !.metadata = Sure(d.metadata), !.grants = Sure(d.grants)]

Deleted(d, o) ==
  LET p == d.ops[o].person
      Without(kept) == [g \in Pair |-> IF g[1] = p THEN None ELSE kept[g]]
  IN [Written(d, o, "completed") EXCEPT
        !.people[p] = None, !.authority[p] = None,
        !.metadata = Without(d.metadata), !.grants = Without(d.grants)]

\* Nobody else has written the operation since this call did.
OwnOperation(c) == doc.ops[call[c].op].writes = call[c].writes

FinishReplacement(c) ==
  LET o == call[c].op
      p == doc.ops[o].person
      asExpected == /\ OwnOperation(c) /\ doc.people[p] # None
                    /\ doc.ops[o].expects = Operation(doc, p, "running").expects
                    /\ \A x \in doc.ops[o].targets : Exists(doc, "metadata", <<p, x>>)
  IN /\ Doing(c, "finish") /\ Kind[o] = "replacement"
     /\ doc' = IF asExpected THEN Confirmed(doc, o) ELSE Written(doc, o, "failed")
     /\ Becomes(c, With(c, <<Do("observe")>> \o (IF asExpected THEN <<>> ELSE <<Do("raise")>>)
                           \o Tail(call[c].todo)))
     /\ UNCHANGED <<up, may, statuses, missed, told>>

Finishes(c) == Doing(c, "finish") /\ Kind[call[c].op] = "deletion"

\* Doors at which a person is recorded without access are no targets, and not observed.
FinishDeletion(c) ==
  LET o == call[c].op
      p == doc.ops[o].person
      recordedAt == {g[2] : g \in {h \in Recorded(doc) : h[1] = p}}
  IN /\ Finishes(c) /\ OwnOperation(c) /\ doc.people[p] # None
     /\ DoorsOf(doc, p) = doc.ops[o].targets
     /\ doc' = Deleted(doc, o)
     /\ Becomes(c, With(c, <<Do("observe")>> \o Tail(call[c].todo)))
     /\ LeavesOut(recordedAt \ doc.ops[o].targets)
     /\ UNCHANGED <<up, may, statuses, told>>

\* Doors were added or removed meanwhile: this write is not observed.
ExpandDeletion(c) ==
  LET o == call[c].op
      p == doc.ops[o].person
  IN /\ Finishes(c) /\ OwnOperation(c) /\ DoorsOf(doc, p) # doc.ops[o].targets
     /\ doc' = [Written(doc, o, "waiting_retry") EXCEPT !.ops[o].targets = @ \cup DoorsOf(doc, p)]
     /\ Becomes(c, Raised(c))
     /\ LeavesOut(About(c) \cup DoorsOf(doc, p))
     /\ UNCHANGED <<up, may, statuses, told>>

\* Another call has deleted the person, or has written the operation since.
NothingToDelete(c) ==
  LET o == call[c].op
  IN /\ Finishes(c)
     /\ ~OwnOperation(c) \/ (doc.people[doc.ops[o].person] = None /\ DoorsOf(doc, doc.ops[o].person) = doc.ops[o].targets)
     /\ Raises(c)
     /\ UNCHANGED <<records, statuses, told>>

(***************************************************************************)
(* Evaluations.  One takes its time stamp as it reads the document, and is *)
(* stored when its turn at the repository comes, never over a later one.   *)
(***************************************************************************)
Upserts(xs, StatusOf(_), pronounced) ==
  LET order == InOrder[xs]
  IN [i \in DOMAIN order |->
        [do |-> "upsert", door |-> order[i], status |-> StatusOf(order[i]), at |-> clock + 1,
         pronounced |-> pronounced]]

Reads(c, xs, StatusOf(_), pronounced) ==
  /\ clock' = clock + 1
  /\ queue' = IF xs = {} THEN queue ELSE Append(queue, c)
  /\ Becomes(c, With(c, Upserts(xs, StatusOf, pronounced) \o Tail(call[c].todo)))
  /\ UNCHANGED <<records, verdicts, missed, told>>

\* _load_repaired_snapshot: all orphans go, and then the document is read.  One that
\* arises between the two is taken to go too.
Repairing == {"evaluate", "pronounce", "alarm", "reevaluate"}

RepairOrphans(c) ==
  /\ \E what \in Repairing : Doing(c, what)
  /\ Orphans(doc) # {} /\ doc' = Repaired(doc)
  /\ UNCHANGED <<up, may, call, statuses, missed, told>>

AfterRepair(c, what) == Doing(c, what) /\ Orphans(doc) = {}

\* recompute
EvaluateDoor(c) ==
  LET x == call[c].pair[2]
  IN /\ AfterRepair(c, "evaluate")
     /\ IF x \in Managed(doc) THEN Reads(c, {x}, LAMBDA y : Evaluate(doc, y), FALSE)
        ELSE Raises(c) /\ UNCHANGED <<records, statuses, told>>

\* record_synchronized, and record_manual_attention
Pronounced(what, x) ==
  IF what = "pronounce" /\ ~Issues(doc, x) THEN "synchronized" ELSE "manual_attention_required"

PronounceDoor(c) ==
  LET x == call[c].pair[2]
  IN \E what \in {"pronounce", "alarm"} :
       /\ AfterRepair(c, what)
       /\ IF x \in Managed(doc) THEN Reads(c, {x}, LAMBDA y : Pronounced(what, y), TRUE)
          ELSE Raises(c) /\ UNCHANGED <<records, statuses, told>>

\* lifecycle_changed, which repairs nothing
Observe(c) ==
  /\ Doing(c, "observe")
  /\ Reads(c, doc.ops[call[c].op].targets \cap Managed(doc), LAMBDA y : Evaluate(doc, y), FALSE)

\* Mutant: the time stamps are not compared.
NotOvertaken(d, x, at) == x \in Managed(d)

MayStore(d, x, at) == x \in Managed(d) /\ at >= d.statuses[x].at

Waiting(c) == {i \in DOMAIN call[c].todo : call[c].todo[i].do = "upsert"}

StoreStatus(c) ==
  LET step == Step(c)
  IN /\ Doing(c, "upsert") /\ queue # <<>> /\ Head(queue) = c
     /\ IF MayStore(doc, step.door, step.at)
        THEN /\ doc' = [doc EXCEPT !.statuses[step.door] = [status |-> step.status, at |-> step.at]]
             /\ verdicts' = IF step.pronounced THEN verdicts \cup {step.door} ELSE verdicts \ {step.door}
             /\ missed' = [missed EXCEPT ![step.door] = IF step.at > @ THEN 0 ELSE @]
             /\ queue' = IF Cardinality(Waiting(c)) > 1 THEN Append(Tail(queue), c) ELSE Tail(queue)
             /\ Goes(c)
        ELSE /\ Becomes(c, Raised(c))
             /\ LeavesOut({call[c].todo[i].door : i \in Waiting(c) \ {1}})
             /\ queue' = Tail(queue)
             /\ UNCHANGED <<doc, verdicts>>
     /\ UNCHANGED <<up, may, clock, told>>
=============================================================================
