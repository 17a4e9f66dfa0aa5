---------------------------- MODULE HomeDocument ----------------------------
(***************************************************************************)
(* The stored document of a home and the repositories over it.  A          *)
(* transaction works on a copy under one lock; the copy is validated as a  *)
(* whole and saved, or nothing changes: so each mutation is an operator    *)
(* from the document to the document, and Valid decides.  Names, notes,    *)
(* time stamps of creation and display data are left out.  `rev` stands    *)
(* for updated_at or for the revision, whichever the code compares.  A     *)
(* door's policy, its enrolment and its synchronization status are one     *)
(* record here, for the repositories write them in one transaction.        *)
(***************************************************************************)
EXTENDS Naturals, FiniteSets

CONSTANTS
  Person, Door, Keypad,
  Schedule, Permanent,   \* schedules, and the protected one that always allows
  Policy, Always,        \* what a schedule allows
  Request,               \* identifiers of guided set-ups
  None

Pair == Person \X Door

PersonRecord == [default : Schedule, enabled : BOOLEAN, rev : Nat]
ScheduleRecord == [policy : Policy, rev : Nat]
Pin == Nat \cup {None}
GrantRecord == [schedule : Schedule, cred : Pin]
MetadataRecord == [cred : Pin, status : {"synchronized", "attention"}]
DoorRecord == [managed : BOOLEAN, pin : BOOLEAN, rev : Nat \ {0}]
KeypadRecord == [door : Door, enabled : BOOLEAN]
Terminal == {"completed", "failed", "needs_attention"}
RequestRecord == [state : Terminal \cup {"core_created", "provisioning"}, added : SUBSET Door]

Document ==
  [people    : [Person -> PersonRecord \cup {None}],
   schedules : [Schedule -> ScheduleRecord \cup {None}],
   grants    : [Pair -> GrantRecord \cup {None}],
   metadata  : [Pair -> MetadataRecord \cup {None}],
   authority : [Person -> Pin],
   doors     : [Door -> DoorRecord \cup {None}],
   keypads   : [Keypad -> KeypadRecord \cup {None}],
   requests  : [Request -> RequestRecord \cup {None}]]

Empty ==
  [people    |-> [p \in Person |-> None],
   schedules |-> [s \in Schedule |-> IF s = Permanent THEN [policy |-> Always, rev |-> 1] ELSE None],
   grants    |-> [g \in Pair |-> None],
   metadata  |-> [g \in Pair |-> None],
   authority |-> [p \in Person |-> None],
   doors     |-> [x \in Door |-> None],
   keypads   |-> [k \in Keypad |-> None],
   requests  |-> [r \in Request |-> None]]

(***************************************************************************)
(* _validate_domain_snapshot: what refers to something refers to something *)
(* that is there, and a PIN belongs to one person in all three records.    *)
(***************************************************************************)
SchedulesExist(d) ==
  /\ d.schedules[Permanent] = [policy |-> Always, rev |-> 1]
  /\ \A p \in Person : d.people[p] # None => d.schedules[d.people[p].default] # None
  /\ \A g \in Pair : d.grants[g] # None => d.schedules[d.grants[g].schedule] # None

OwnersExist(d) ==
  /\ \A p \in Person : d.authority[p] # None => d.people[p] # None
  /\ \A g \in Pair : d.grants[g] # None => d.people[g[1]] # None
  /\ \A g \in Pair : d.grants[g] # None \/ d.metadata[g] # None => d.doors[g[2]] # None
  /\ \A k \in Keypad : d.keypads[k] # None => d.doors[d.keypads[k].door] # None

\* The records of a PIN's owner all name it, and nobody else's do.
Names(records, p, cred) == \A g \in Pair : records[g] # None => (g[1] = p <=> records[g].cred = cred)

ClaimAgrees(d, p) ==
  /\ \A q \in Person \ {p} : d.authority[q] # d.authority[p]
  /\ Names(d.grants, p, d.authority[p]) /\ Names(d.metadata, p, d.authority[p])

Valid(d) ==
  /\ SchedulesExist(d) /\ OwnersExist(d)
  /\ \A p \in Person : d.authority[p] # None => ClaimAgrees(d, p)

(***************************************************************************)
(* People and schedules.                                                   *)
(***************************************************************************)
GrantsOf(d, p) == {g \in {p} \X Door : d.grants[g] # None}
MetadataOf(d, p) == {g \in {p} \X Door : d.metadata[g] # None}

AddPerson(d, p, schedule) ==
  [d EXCEPT !.people[p] = [default |-> schedule, enabled |-> TRUE, rev |-> 1]]

UpdatePerson(d, p, person) == [d EXCEPT !.people[p] = person]

RemovePerson(d, p) ==
  [d EXCEPT !.people[p] = None, !.authority[p] = None,
            !.grants = [g \in Pair |-> IF g[1] = p THEN None ELSE @[g]],
            !.metadata = [g \in Pair |-> IF g[1] = p THEN None ELSE @[g]]]

Unowned(d, s) ==
  /\ \A p \in Person : d.people[p] # None => d.people[p].default # s
  /\ \A g \in Pair : d.grants[g] # None => d.grants[g].schedule # s

PutSchedule(d, s, policy, rev) == [d EXCEPT !.schedules[s] = [policy |-> policy, rev |-> rev]]

\* Neither the protected schedule nor one in use is changed or removed.
MayChange(d, s) == s # Permanent /\ d.schedules[s] # None /\ Unowned(d, s)

RemoveSchedule(d, s) == [d EXCEPT !.schedules[s] = None]

Allows(d, g) == d.schedules[d.grants[g].schedule].policy

(***************************************************************************)
(* Grants, metadata and the authority over a PIN.                          *)
(***************************************************************************)
UpsertGrant(d, g, grant) == [d EXCEPT !.grants[g] = grant]

InheritGrant(d, g, cred) ==
  UpsertGrant(d, g, [schedule |-> d.people[g[1]].default, cred |-> cred])

RemoveGrant(d, g) == [d EXCEPT !.grants[g] = None]

UpsertMetadata(d, g, cred, status) ==
  [d EXCEPT !.metadata[g] = [cred |-> cred, status |-> status]]

RemoveMetadata(d, g) == [d EXCEPT !.metadata[g] = None]

\* A PIN is replaced by a workflow of its own only.
MayClaim(d, p, cred) == d.authority[p] \in {None, cred}

SetAuthority(d, p, cred) == [d EXCEPT !.authority[p] = cred]

\* resolve_for_provisioning raises unless all the records agree.
Resolvable(d, p) ==
  /\ GrantsOf(d, p) = MetadataOf(d, p)
  /\ \A g \in GrantsOf(d, p) : d.grants[g].cred = d.metadata[g].cred
  /\ IF d.authority[p] = None THEN GrantsOf(d, p) = {} ELSE ClaimAgrees(d, p)

\* release_orphaned_person_credential: the authority goes with the last reference.
Referenced(d, p, cred) ==
  \/ \E g \in GrantsOf(d, p) : d.grants[g].cred = cred
  \/ \E g \in MetadataOf(d, p) : d.metadata[g].cred = cred

MayRelease(d, p, cred) == ~Referenced(d, p, cred) /\ d.authority[p] \in {None, cred}

(***************************************************************************)
(* Doors and keypads.                                                      *)
(***************************************************************************)
Managed(d, x) == d.doors[x] # None /\ d.doors[x].managed

\* The policy must be as it was read, but nothing guards the enrolment.
MayUpsertDoor(d, x, rev) ==
  d.doors[x] # None => d.doors[x].rev = rev

UpsertDoor(d, x, door) == [d EXCEPT !.doors[x] = door]

RemoveEnrolment(d, x) ==
  [d EXCEPT !.doors[x] = IF @ = None THEN None ELSE [@ EXCEPT !.managed = FALSE]]

HasGrants(d, x) == \E p \in Person : d.grants[<<p, x>>] # None

UpsertKeypad(d, k, door, enabled) ==
  [d EXCEPT !.keypads[k] = [door |-> door, enabled |-> enabled]]

RemoveKeypad(d, k) == [d EXCEPT !.keypads[k] = None]

RemoveKeypadsOf(d, x) ==
  [d EXCEPT !.keypads = [k \in Keypad |->
     IF d.keypads[k] # None /\ d.keypads[k].door = x THEN None ELSE @[k]]]
=============================================================================
