------------------------------- MODULE Migration -------------------------------
(***************************************************************************)
(* Documents of older schemas and their migration to the current one: a    *)
(* chain of steps from one schema to the next, each of which checks which  *)
(* collections there are, and a validation of the whole at the end.        *)
(* None stands for a step that raises.  A door's enrolment has two fields  *)
(* or ten (full); names, devices and capabilities are left out.            *)
(***************************************************************************)
EXTENDS SynchronizationEvidence

CONSTANTS
  Schedule, Credential,
  Permanent,   \* the protected schedule
  Legacy       \* the only door of the first schemas

Current == 19

\* The schema that introduced each collection.
Since ==
  [people |-> 1, properties |-> 1, settings |-> 1, access_metadata |-> 2, access_grants |-> 3,
   schedules |-> 5, lifecycle_operations |-> 7, access_points |-> 10,
   synchronization_statuses |-> 11, synchronization_history |-> 12, activity_events |-> 13,
   credential_metadata |-> 14, access_devices |-> 18]

Collections(version) == {c \in DOMAIN Since : Since[c] <= version}

\* _validate_root: exactly the collections of the schema.
Rooted(d, version) == d.has = Collections(version)

Adding(d, names) == [d EXCEPT !.has = @ \cup names]
To(d, version) == [d EXCEPT !.version = version]

(***************************************************************************)
(* The type of documents, of whatever schema.  The statuses of access had  *)
(* other names up to schema 10, and grants of schema 3 may have none.      *)
(***************************************************************************)
LegacyStatus ==
  {"healthy", "working", "pending_verification", "out_of_sync", "needs_attention", "error"}

AnyStatus == Status \cup LegacyStatus \cup {None}

StatusesOf(version) ==
  CASE version > 10 -> Status
    [] version = 3 -> AnyStatus
    [] OTHER -> AnyStatus \ {None}

Grant == [schedule : Schedule \cup {None}, cred : Credential \cup {None}, status : AnyStatus]
Metadata == [cred : Credential \cup {None}, status : AnyStatus \ {None}]
Enrolment == [managed : BOOLEAN, full : BOOLEAN]
DoorStatus == [status : Status, at : Nat]

Expectation == Door \X (Grant \cup {None}) \X (Metadata \cup {None})

LifecycleOperation ==
  [person : Person, targets : SUBSET Door, status : OperationStatus, writes : Nat,
   expects : SUBSET Expectation]

Documents ==
  [version : 1..Current, has : SUBSET DOMAIN Since,
   people : [Person -> Schedule \cup {None}], schedules : SUBSET Schedule,
   points : SUBSET Door, doors : [Door -> Enrolment \cup {None}],
   authority : [Person -> Credential \cup {None}],
   metadata : [Pair -> Metadata \cup {None}], grants : [Pair -> Grant \cup {None}],
   statuses : [Door -> DoorStatus \cup {None}], ops : [Op -> LifecycleOperation \cup {None}]]

Enrolled(d) == {x \in Door : d.doors[x] # None}
Managed(d) == {x \in Enrolled(d) : d.doors[x].managed}

\* _validate_managed_access_points
DoorsFull(d) == \A x \in Enrolled(d) : d.doors[x].full

Granted(d) == {g \in Pair : Exists(d, "grants", g)}
Recorded(d) == {g \in Pair : Exists(d, "metadata", g)}
Started(d) == {o \in Op : d.ops[o] # None}

Named(d) ==
  {g[2] : g \in Granted(d) \cup Recorded(d)} \cup UNION {d.ops[o].targets : o \in Started(d)}

(***************************************************************************)
(* _validate_domain_snapshot                                               *)
(***************************************************************************)
Referential(d) ==
  /\ Permanent \in d.schedules
  /\ \A p \in Person : d.people[p] # None => d.people[p] \in d.schedules
  /\ \A g \in Granted(d) : d.people[g[1]] # None /\ d.grants[g].schedule \in d.schedules
  /\ Named(d) \cup Enrolled(d) \subseteq d.points
  /\ {x \in Door : d.statuses[x] # None} = Managed(d)

Claims(d) ==
  \A p \in Person : d.authority[p] # None =>
    /\ d.people[p] # None
    /\ \A q \in Person \ {p} : d.authority[q] # d.authority[p]
    /\ \A g \in Granted(d) : g[1] = p <=> d.grants[g].cred = d.authority[p]
    /\ \A g \in Recorded(d) : g[1] = p <=> d.metadata[g].cred = d.authority[p]

Valid(d) == Rooted(d, Current) /\ DoorsFull(d) /\ Referential(d) /\ Claims(d)

Validated(d) == IF Valid(d) THEN d ELSE None

(***************************************************************************)
(* From schema 18 back to schema 10.                                       *)
(***************************************************************************)
From18(d) == IF ~Rooted(d, 18) THEN None ELSE Validated(To(d, 19))
From17(d) == IF ~Rooted(d, 17) THEN None ELSE From18(To(Adding(d, {"access_devices"}), 18))
From16(d) == IF ~Rooted(d, 16) THEN None ELSE From17(To(d, 17))

From15(d) ==
  IF ~Rooted(d, 15) THEN None
  ELSE From16(To([d EXCEPT !.doors = [x \in Door |->
                   IF d.doors[x] = None THEN None ELSE [d.doors[x] EXCEPT !.full = TRUE]]], 16))

\* Records of a slot that nobody can own any more.
Orphans(d) ==
  {g \in Recorded(d) :
     /\ d.people[g[1]] = None /\ g \notin Granted(d) /\ d.authority[g[1]] = None
     /\ d.metadata[g].cred = None /\ d.metadata[g].status # "synchronized"
     /\ ActiveOf(d, g[1]) = {}}

Repaired(d) ==
  [d EXCEPT !.metadata = [g \in Pair |-> IF g \in Orphans(d) THEN None ELSE d.metadata[g]]]

From14(d) == IF ~Rooted(d, 14) THEN None ELSE From15(To(Repaired(d), 15))

\* Mutant: retained records of people who have gone own nothing.
LivingOwnersOf(d, cred) ==
  {g[1] : g \in {h \in Granted(d) : d.grants[h].cred = cred}}
  \cup {g[1] : g \in {h \in Recorded(d) : d.metadata[h].cred = cred /\ d.people[h[1]] # None}}

OwnersOf(d, cred) ==
  {g[1] : g \in {h \in Granted(d) : d.grants[h].cred = cred}}
  \cup {g[1] : g \in {h \in Recorded(d) : d.metadata[h].cred = cred}}

\* A PIN becomes a person's if all records agree on it and nobody else has it.
Establishes(d, p, cred) ==
  LET granted == {g \in Granted(d) : g[1] = p}
      recorded == {g \in Recorded(d) : g[1] = p}
  IN /\ d.people[p] # None /\ recorded # {} /\ granted = recorded
     /\ \A g \in recorded : d.metadata[g].cred = cred /\ d.grants[g].cred = cred
     /\ OwnersOf(d, cred) = {p}

AuthorityOf(d, p) ==
  LET creds == {d.metadata[g].cred : g \in Recorded(d)} \ {None}
  IN IF \E cred \in creds : Establishes(d, p, cred)
     THEN CHOOSE cred \in creds : Establishes(d, p, cred) ELSE None

From13(d) ==
  IF ~Rooted(d, 13) THEN None
  ELSE From14(To(Adding([d EXCEPT !.authority = [p \in Person |-> AuthorityOf(d, p)]],
                        {"credential_metadata"}), 14))

From12(d) == IF ~Rooted(d, 12) THEN None ELSE From13(To(Adding(d, {"activity_events"}), 13))
From11(d) ==
  IF ~Rooted(d, 11) THEN None ELSE From12(To(Adding(d, {"synchronization_history"}), 12))

LegacyStatuses ==
  [healthy |-> "synchronized", working |-> "synchronized", pending_verification |-> "pending",
   out_of_sync |-> "retry_required", needs_attention |-> "manual_attention_required",
   error |-> "manual_attention_required"]

Modern(status) == IF status \in DOMAIN LegacyStatuses THEN LegacyStatuses[status] ELSE status

Modernized(d) ==
  [d EXCEPT
    !.metadata = [g \in Pair |->
       IF g \in Recorded(d) THEN [d.metadata[g] EXCEPT !.status = Modern(@)] ELSE None],
    !.grants = [g \in Pair |->
       IF g \in Granted(d) THEN [d.grants[g] EXCEPT !.status = Modern(@)] ELSE None]]

WithStatuses(d) ==
  [d EXCEPT !.statuses = [x \in Door |->
     IF x \in Managed(d) THEN [status |-> Aggregate(Evidence(d, x)), at |-> 0] ELSE None]]

From10(d) ==
  IF ~Rooted(d, 10) \/ ~DoorsFull(d) \/ ~(Managed(d) \subseteq d.points) THEN None
  ELSE From12(To(Adding(WithStatuses(Modernized(d)),
                        {"synchronization_statuses", "synchronization_history"}), 12))

(***************************************************************************)
(* From schema 9 back to schema 1.                                         *)
(***************************************************************************)
\* _migrate_access_point_policy_schema
PolicyStep(d) ==
  IF ~DoorsFull(d) THEN None
  ELSE From10(To(Adding([d EXCEPT !.points = Enrolled(d) \cup Named(d)], {"access_points"}), 10))

LegacyDoor(d) == [d EXCEPT !.doors[Legacy] = [managed |-> TRUE, full |-> FALSE]]

From9(d) == IF ~Rooted(d, 9) \/ ~DoorsFull(d) THEN None ELSE PolicyStep(d)
From8(d) == IF ~Rooted(d, 8) THEN None ELSE PolicyStep(LegacyDoor(d))
From7(d) == IF ~Rooted(d, 7) THEN None ELSE PolicyStep(LegacyDoor(d))
From6(d) ==
  IF ~Rooted(d, 6) THEN None ELSE PolicyStep(LegacyDoor(Adding(d, {"lifecycle_operations"})))

ScheduleOf(grant) == IF grant.schedule = None THEN Permanent ELSE grant.schedule

\* A person's schedule is the one that all of the person's grants have.
DefaultOf(d, p) ==
  LET used == {ScheduleOf(d.grants[g]) : g \in {h \in Granted(d) : h[1] = p}}
  IN IF Cardinality(used) = 1 THEN CHOOSE s \in used : TRUE ELSE Permanent

\* _migrate_person_schedule_schema
ScheduleStep(d) ==
  LET known == d.schedules \cup {Permanent}
      next == [d EXCEPT
        !.schedules = known,
        !.grants = [g \in Pair |->
          IF g \in Granted(d) THEN [d.grants[g] EXCEPT !.schedule = ScheduleOf(d.grants[g])] ELSE None],
        !.people = [p \in Person |-> IF d.people[p] = None THEN None ELSE DefaultOf(d, p)]]
  IN IF \E g \in Granted(d) : d.people[g[1]] = None \/ ScheduleOf(d.grants[g]) \notin known
     THEN None
     ELSE PolicyStep(Adding(IF Enrolled(d) = {} THEN LegacyDoor(next) ELSE next,
                            {"lifecycle_operations"}))

Working(g, cred) == [schedule |-> None, cred |-> cred, status |-> "working"]

From5(d) == IF ~Rooted(d, 5) THEN None ELSE ScheduleStep(d)
From4(d) == IF ~Rooted(d, 4) THEN None ELSE ScheduleStep(Adding(d, {"schedules"}))

From3(d) ==
  IF ~Rooted(d, 3) THEN None
  ELSE ScheduleStep(Adding([d EXCEPT !.grants = [g \in Pair |->
         IF g \in Granted(d) /\ d.grants[g].status = None
         THEN [d.grants[g] EXCEPT !.status = "working"] ELSE d.grants[g]]], {"schedules"}))

From2(d) ==
  IF ~Rooted(d, 2) THEN None
  ELSE ScheduleStep(Adding([d EXCEPT !.grants = [g \in Pair |->
         IF g \in Recorded(d) /\ d.metadata[g].cred # None
         THEN Working(g, d.metadata[g].cred) ELSE None]], {"access_grants", "schedules"}))

From1(d) ==
  IF ~Rooted(d, 1) THEN None
  ELSE ScheduleStep(Adding(d, {"access_metadata", "access_grants", "schedules"}))

Migrate(d) ==
  CASE d.version = 19 -> Validated(d)
    [] d.version = 18 -> From18(d) [] d.version = 17 -> From17(d) [] d.version = 16 -> From16(d)
    [] d.version = 15 -> From15(d) [] d.version = 14 -> From14(d) [] d.version = 13 -> From13(d)
    [] d.version = 12 -> From12(d) [] d.version = 11 -> From11(d) [] d.version = 10 -> From10(d)
    [] d.version = 9 -> From9(d) [] d.version = 8 -> From8(d) [] d.version = 7 -> From7(d)
    [] d.version = 6 -> From6(d) [] d.version = 5 -> From5(d) [] d.version = 4 -> From4(d)
    [] d.version = 3 -> From3(d) [] d.version = 2 -> From2(d) [] d.version = 1 -> From1(d)
=============================================================================
