-------------------------------- MODULE Home --------------------------------
(***************************************************************************)
(* A home: people, schedules, doors, keypads, set-ups and the vault.       *)
(***************************************************************************)
EXTENDS UserSetup

CONSTANTS
  Homes        \* what a home holds at first, and what is going to be asked

VARIABLES
  crossed,     \* history: doors at which another call met one that takes away
  unsettled    \* history: the same since the last start

marks == <<crossed, unsettled>>

\* A person who is created by a request has an identifier made from the request's.
Creating == {r \in Request : Asked[r].kind = "create"}
Awaited == {Asked[r].person : r \in Creating}

ASSUME Assumptions ==
  /\ Permanent \in Schedule /\ Always \in Policy
  /\ Discovered \subseteq WithLock \cap Known /\ Coded \subseteq Known
  /\ WithLock \cup Known \subseteq Door
  /\ None \notin Nat \cup Person \cup Door \cup Schedule \cup Request
  /\ None \notin PersonRecord \cup ScheduleRecord \cup GrantRecord \cup MetadataRecord
  /\ None \notin DoorRecord \cup KeypadRecord \cup RequestRecord
  /\ Asked \in [Request -> [kind : {"create", "assign"}, person : Person, doors : SUBSET Door,
                            pin : BOOLEAN, schedule : Schedule]]
  /\ \A r, q \in Creating : Asked[r].person = Asked[q].person => r = q
  /\ \A home \in Homes :
       /\ home.doc \in Document /\ Valid(home.doc) /\ home.stored \in Nat
       /\ {home.doc.authority[p] : p \in Person} \ {None} = 1..home.stored
       /\ \A p \in Awaited : home.doc.people[p] = None
       /\ \A r \in Request : home.doc.requests[r] = None
       /\ \A x \in Door : HasGrants(home.doc, x) => Managed(home.doc, x) /\ PinCapable(home.doc, x)
       /\ \A x \in InUse(home.doc) : Managed(home.doc, x) /\ Exposed(home.doc, x)
       /\ \A what \in DOMAIN home.may : home.may[what] \in Nat

Init ==
  \E home \in Homes :
    /\ doc = home.doc /\ may = home.may
    /\ vault = 1..home.stored /\ stored = home.stored
    /\ call = [c \in Caller |-> Free]
    /\ drawn = Awaited \cup {p \in Person : home.doc.people[p] # None}
               \cup {s \in Schedule : home.doc.schedules[s] # None}
               \cup {k \in Keypad : home.doc.keypads[k] # None}
    /\ meant = [g \in Pair |-> IF home.doc.grants[g] = None THEN None ELSE Allows(home.doc, g)]
    /\ stale = {} /\ met = {} /\ moved = {} /\ out = {} /\ crossed = {} /\ unsettled = {}
    /\ begun = [r \in Request |-> 0] /\ answers = {} /\ lost = {}

Serve(c) ==
  \/ \E p \in Person : CreatePerson(c, p) \/ ReadPerson(c, p)
  \/ WritePerson(c)
  \/ \E s \in Schedule :
       \/ ReadSchedule(c, s) \/ DeleteSchedule(c, s)
       \/ \E policy \in Policy : CreateSchedule(c, s, policy)
       \/ \E p \in Person : OpenForm(c, p, s)
  \/ \E policy \in Policy :
       \/ WriteSchedule(c, policy)
       \/ \E selection \in {None} \cup SUBSET Door, new \in Schedule \cup {None} :
            SaveForm(c, selection, policy, new)
  \/ CloseForm(c)
  \/ \E g \in Pair : ReadGrant(c, g) \/ ForgetGrant(c, g)
  \/ WriteGrant(c) \/ ForgetMetadata(c)

Equip(c) ==
  \/ \E x \in Door : StartEnrolment(c, x) \/ ReadPolicy(c, x) \/ ReadEnrolment(c, x) \/ StartRemoval(c, x)
  \/ FinishEnrolment(c) \/ WritePolicy(c) \/ WriteEnrolment(c) \/ RemoveKeypads(c) \/ RemoveDoor(c)
  \/ \E k \in Keypad :
       \/ StartUnkeypad(c, k)
       \/ \E x \in Door : StartKeypad(c, k, x) \/ \E on \in BOOLEAN : ReadKeypad(c, k, x, on)
  \/ Expose(c) \/ RecordKeypad(c) \/ Withdraw(c) \/ ForgetKeypad(c) \/ ForgetFails(c) \/ WriteKeypad(c)

SetUp(c) ==
  \/ \E r \in Request : Submit(c, r) \/ Repeat(c, r)
  \/ StoreSecret(c) \/ Prepare(c) \/ PrepareFails(c) \/ \E works \in BOOLEAN : Discard(c, works)
  \/ AnswerAgain(c) \/ NothingToDo(c) \/ MarkProvisioning(c) \/ FinishFails(c)
  \/ CheckAdditions(c) \/ \E p \in Person, x \in Door : Give(c, p, x)
  \/ \E x \in Door : Program(c, x) \/ TakeBack(c, x) \/ LeaveMarked(c, x)
  \/ Refuse(c) \/ RecordMetadata(c) \/ RecordGrant(c) \/ RecordNoGrant(c) \/ RecordAuthority(c)
  \/ UndoGrant(c) \/ UndoMetadata(c) \/ UndoAuthority(c) \/ UndoFails(c)
  \/ Unrecord(c) \/ TakenBack(c) \/ \E removed \in BOOLEAN : GiveFails(c, removed)
  \/ AllAdded(c) \/ NotAdded(c) \/ SaveResult(c) \/ SaveFails(c)
  \/ \E p \in Person : DeletePerson(c, p)

(***************************************************************************)
(* Calls that take away: one that removes a door or its last keypad, and   *)
(* one that writes an enrolment back as it was read.  Doors at which such  *)
(* a call is together with another are remembered.                         *)
(***************************************************************************)
TakesAway(record) == record.pc \in {"keypads", "depart", "withdraw", "enrolment"}

Crossing ==
  {x \in Door : \E c, o \in Caller :
     c # o /\ TakesAway(call[c]) /\ x \in Doors(call[c]) \cap Doors(call[o])}

Crosses == crossed' = crossed \cup Crossing' /\ unsettled' = unsettled \cup Crossing'

\* A start that succeeds leaves no calls and every keypad at a door that takes its PINs.
Settles ==
  /\ unsettled' = IF \E c \in Caller : At(c, "free")' THEN {} ELSE unsettled
  /\ UNCHANGED crossed

Next ==
  \/ \E c \in Caller :
       \/ Serve(c) /\ UNCHANGED <<doors, setup>> /\ Crosses
       \/ Equip(c) /\ UNCHANGED setup /\ Crosses
       \/ SetUp(c) /\ Crosses
  \/ RestartHome /\ Settles

vars == <<registry, doors, setup, marks>>

Spec == Init /\ [][Next]_vars

(***************************************************************************)
(* The calls, each with what it has read.                                  *)
(***************************************************************************)
Provision ==
  [pc : {"secret", "core", "discard", "finish", "check", "door", "metadata", "grant", "authority",
         "undo_grant", "undo_metadata", "undo_authority", "rollback", "unrecord", "failed"},
   request : Request \cup {None}, person : Person, todo : SUBSET Door, done : SUBSET Door,
   door : Door \cup {None}, had : SUBSET Door, cred : Pin, made : BOOLEAN, doors : SUBSET Door]

Answer == [request : Request, state : Terminal, added : SUBSET Door]

CallRecord ==
       [pc : {"free", "down"}]
  \cup [pc : {"person"}, person : Person, copy : PersonRecord]
  \cup [pc : {"schedule"}, schedule : Schedule, copy : ScheduleRecord]
  \cup [pc : {"form"}, person : Person, rev : Nat, schedule : Schedule, srev : Nat]
  \cup [pc : {"status"}, grant : Pair, copy : GrantRecord, doors : SUBSET Door]
  \cup [pc : {"forget"}, grant : Pair, doors : SUBSET Door]
  \cup [pc : {"enrol", "policy"}, door : Door, rev : Nat, doors : SUBSET Door]
  \cup [pc : {"enrolment"}, door : Door, copy : DoorRecord, doors : SUBSET Door]
  \cup [pc : {"keypads", "depart"}, door : Door, doors : SUBSET Door]
  \cup [pc : {"expose", "keypad", "withdraw", "unkeypad"}, keypad : Keypad, door : Door,
        enabled : BOOLEAN, copy : DoorRecord, doors : SUBSET Door]
  \cup [pc : {"update"}, keypad : Keypad, door : Door, enabled : BOOLEAN, doors : SUBSET Door]
  \cup Provision
  \cup [pc : {"save"}, request : Request, doors : SUBSET Door, answer : Answer]

(***************************************************************************)
(* The document is valid whenever it is saved.                             *)
(***************************************************************************)
TypeOK ==
  /\ doc \in Document /\ Valid(doc)
  /\ call \in [Caller -> CallRecord]
  /\ meant \in [Pair -> Policy \cup {None}] /\ stale \subseteq Pair
  /\ met \cup out \subseteq Door /\ moved \subseteq Keypad /\ unsettled \subseteq crossed
  /\ begun \in [Request -> Nat] /\ answers \subseteq Answer
  /\ vault \subseteq 1..stored /\ stored \in Nat /\ lost \subseteq Pin
  /\ \A what \in DOMAIN may : may[what] \in Nat

(***************************************************************************)
(* A grant allows what was last decided for it: an edit for one person, or *)
(* for some doors, does not reach the others, however schedules are shared *)
(* and whatever else is edited meanwhile.  Only a status that is written   *)
(* with an older copy of the grant can undo an edit.                       *)
(***************************************************************************)
HoursAsMeant ==
  \A g \in Pair \ stale : doc.grants[g] # None => Allows(doc, g) = meant[g]

(***************************************************************************)
(* Doors, keypads and grants agree while any calls are under way together, *)
(* unless one that takes away was among them: what was removed stays       *)
(* removed, who has access has it at a door that HomePASS manages and that *)
(* takes PINs, and a keypad that is switched on is at a door that is       *)
(* managed and exposed, but for the keypad that is just being removed and  *)
(* one that was moved since the last start.  Whatever became of a keypad,  *)
(* the next start puts it right, unless HomePASS does not start.           *)
(***************************************************************************)
SwitchedOn(k, x) == doc.keypads[k] # None /\ doc.keypads[k].door = x /\ doc.keypads[k].enabled

Withdrawn(c, k, x) ==
  At(c, "unkeypad") /\ call[c].keypad = k /\ call[c].door = x /\ ~call[c].enabled

DoorsAgree ==
  /\ \A x \in Door \ crossed :
       /\ x \in out => ~Managed(doc, x)
       /\ HasGrants(doc, x) => Managed(doc, x) /\ PinCapable(doc, x)
  /\ \A x \in Door \ unsettled, k \in Keypad \ moved :
       SwitchedOn(k, x) =>
         \/ Managed(doc, x) /\ Exposed(doc, x)
         \/ \E c \in Caller : At(c, "down") \/ Withdrawn(c, k, x)

(***************************************************************************)
(* A request that is sent again, after any failure or restart, provisions  *)
(* once and has one answer; and a PIN that somebody has is in the vault,   *)
(* where no other PIN is but those that a failure left there.              *)
(***************************************************************************)
Held == {call[c].cred : c \in {o \in Caller : "cred" \in DOMAIN call[o]}}
Owners == {doc.authority[p] : p \in Person} \ {None}

SetUpOnce ==
  /\ \A r \in Request : begun[r] <= 1
  /\ \A a, b \in answers : a.request = b.request => a = b
  /\ Owners \subseteq vault
  /\ vault \subseteq Owners \cup Held \cup lost

(***************************************************************************)
(* An answer names a door as added only if the PIN works there, whatever   *)
(* failed, unless another call was at that door or the person was deleted. *)
(***************************************************************************)
AnswersTrue ==
  [][\A a \in answers' \ answers : ~(\E b \in answers : b.request = a.request) =>
       \A x \in a.added \ met : LET p == Asked[a.request].person
                          IN doc.people[p] # None => Works(doc, p, x)]_vars
=============================================================================
