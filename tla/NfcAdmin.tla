------------------------------ MODULE NfcAdmin ------------------------------
(***************************************************************************)
(* The administrators' NFC actions.  Each handler is a coroutine: what it  *)
(* has checked may have changed when it writes, and the keys of a tag are  *)
(* in the vault while the tag is in the repository's file.                 *)
(***************************************************************************)
EXTENDS NfcAccess, Sequences

CONSTANTS
  Admin,
  InviteTtl, TestTtl     \* hours in the code

VARIABLES
  jobs,        \* of each administrator the action under way
  unsure,      \* history: a tag action was cut, failed to delete, or met another
  packages,    \* history: of each tag the administrator keys handed out
  drawn        \* history: identifiers drawn at random, none of them twice

admin == <<jobs, unsure, packages, drawn>>

Free == [pc |-> "free"]
Runs(a, pc) == jobs[a].pc = pc
Becomes(a, job) == jobs' = [jobs EXCEPT ![a] = job]
NextKey == stored + 1
Busy == \E a \in Admin : jobs[a].pc \in {"store", "undo", "delete", "package", "attach"}
Starts(what) == Allowed(what) /\ Uses(what)

(***************************************************************************)
(* Actions that are one operation of the repository.                       *)
(***************************************************************************)
SwitchTag(a, t, enabled) ==
  /\ Runs(a, "free") /\ Registered(data, t) /\ data.tags[t].enabled # enabled
  /\ Starts("switches") /\ data' = SetTagEnabled(data, t, enabled)
  /\ UNCHANGED <<now, vault, stored, policy, memory, past, admin>>

RevokeTest(a, door) ==
  /\ Runs(a, "free") /\ \E x \in Test : data.tests[x] # None /\ data.tests[x].door = door
  /\ Starts("revocations") /\ data' = RevokeTestTags(data, door)
  /\ UNCHANGED <<now, vault, stored, policy, memory, past, admin>>

Void(person) ==
  voided' = voided \cup {i \in Invite : data.invites[i] # None /\ data.invites[i].person = person}
                   \cup {k \in Passkey : data.passkeys[k] # None /\ data.passkeys[k].person = person}

RevokeEnrolment(a, person) ==
  /\ Runs(a, "free") /\ people[person] # None
  /\ Starts("revocations") /\ data' = DisableCredentials(data, person)
  /\ Void(person)
  /\ UNCHANGED <<now, vault, stored, policy, memory, opened, commands, enrolled, confirms, admin>>

ConfirmProtection(a, t) ==
  /\ Runs(a, "free") /\ MayConfirm(data, t)
  /\ Starts("protections") /\ data' = ConfirmTagWriteProtected(data, t)
  /\ confirms' = [confirms EXCEPT ![t] = @ + 1]
  /\ UNCHANGED <<now, vault, stored, policy, memory, opened, commands, enrolled, voided, admin>>

(***************************************************************************)
(* Actions that check a person or a door first, and write then.            *)
(***************************************************************************)
CheckInvite(a, person, i) ==
  /\ Runs(a, "free") /\ people[person] # None /\ i \notin drawn
  /\ Starts("invites")
  /\ Becomes(a, [pc |-> "invite", person |-> person, invite |-> i])
  /\ drawn' = drawn \cup {i}
  /\ UNCHANGED <<now, data, vault, stored, policy, memory, past, unsure, packages>>

WriteInvite(a) ==
  LET job == jobs[a]
  IN /\ Runs(a, "invite")
     /\ data' = CreateInvite(data, job.invite, job.person, now + InviteTtl)
     /\ Becomes(a, Free)
     /\ UNCHANGED <<now, vault, stored, policy, memory, may, past, unsure, packages, drawn>>

CheckAccess(a, person, selected) ==
  /\ Runs(a, "free") /\ people[person] # None /\ \A d \in selected : doors[d].managed
  /\ Starts("grants")
  /\ Becomes(a, [pc |-> "access", person |-> person, selected |-> selected])
  /\ UNCHANGED <<now, data, vault, stored, policy, memory, past, unsure, packages, drawn>>

WriteAccess(a) ==
  LET job == jobs[a]
  IN /\ Runs(a, "access")
     /\ data' = ReplaceAccessGrants(data, job.person, job.selected)
     /\ Becomes(a, Free)
     /\ UNCHANGED <<now, vault, stored, policy, memory, may, past, unsure, packages, drawn>>

CheckTest(a, door, x) ==
  /\ Runs(a, "free") /\ doors[door].managed /\ x \notin drawn
  /\ Starts("tests")
  /\ Becomes(a, [pc |-> "test", door |-> door, test |-> x])
  /\ drawn' = drawn \cup {x}
  /\ UNCHANGED <<now, data, vault, stored, policy, memory, past, unsure, packages>>

WriteTest(a) ==
  LET job == jobs[a]
  IN /\ Runs(a, "test")
     /\ data' = ReplaceTestTag(data, job.test, job.door, now + TestTtl)
     /\ Becomes(a, Free)
     /\ UNCHANGED <<now, vault, stored, policy, memory, may, past, unsure, packages, drawn>>

(***************************************************************************)
(* prepare_tag: three keys, then the tag; what fails undoes the keys.      *)
(***************************************************************************)
StartPrepare(a, t, door) ==
  /\ Runs(a, "free") /\ doors[door].managed /\ t \notin drawn
  /\ Starts("prepares")
  /\ Becomes(a, [pc |-> "store", tag |-> t, door |-> door, keys |-> <<>>])
  /\ unsure' = (unsure \/ Busy)
  /\ drawn' = drawn \cup {t}
  /\ UNCHANGED <<now, data, vault, stored, policy, memory, past, packages>>

StoreKey(a) ==
  LET job == jobs[a]
  IN /\ Runs(a, "store") /\ Len(job.keys) < 3 /\ NextKey \in Key
     /\ vault' = vault \cup {NextKey} /\ stored' = NextKey
     /\ Becomes(a, [job EXCEPT !.keys = Append(@, NextKey)])
     /\ UNCHANGED <<now, data, policy, memory, may, past, unsure, packages, drawn>>

RecordTag(a) ==
  LET job == jobs[a]
  IN /\ Runs(a, "store") /\ Len(job.keys) = 3
     /\ data' = UpsertTag(data, job.tag, NewTag(job.door, {job.keys[1], job.keys[2]}, job.keys[3]))
     /\ packages' = [packages EXCEPT ![job.tag] = {job.keys[3]}]
     /\ Becomes(a, Free)
     /\ UNCHANGED <<now, vault, stored, policy, memory, may, past, unsure, drawn>>

\* Mutant: the first key is thought to be the caller's.
UndoneButFirst(keys) == Tail(keys)

Undone(keys) == keys

FailPrepare(a) ==
  LET job == jobs[a]
  IN /\ Runs(a, "store") /\ Allowed("faults") /\ Uses("faults")
     /\ Becomes(a, IF job.keys = <<>> THEN Free
                   ELSE [pc |-> "undo", keys |-> Undone(job.keys)])
     /\ UNCHANGED <<now, data, vault, stored, policy, memory, past, unsure, packages, drawn>>

(* The keys are deleted in order; one that fails ends the compensation. *)
UndoKey(a) ==
  LET keys == jobs[a].keys
  IN /\ Runs(a, "undo")
     /\ vault' = vault \ {Head(keys)}
     /\ Becomes(a, IF Len(keys) = 1 THEN Free ELSE [pc |-> "undo", keys |-> Tail(keys)])
     /\ UNCHANGED <<now, data, stored, policy, memory, may, past, unsure, packages, drawn>>

(***************************************************************************)
(* delete_tag works on a copy of the tag.                                  *)
(***************************************************************************)
StartDelete(a, t) ==
  /\ Runs(a, "free") /\ Registered(data, t)
  /\ Starts("deletes")
  /\ Becomes(a, [pc |-> "delete", tag |-> t, keys |-> data.tags[t].keys \cup ({data.tags[t].admin} \ {None})])
  /\ unsure' = (unsure \/ Busy)
  /\ UNCHANGED <<now, data, vault, stored, policy, memory, past, packages, drawn>>

DeleteKey(a) ==
  LET job == jobs[a]
  IN /\ Runs(a, "delete") /\ job.keys # {}
     /\ LET key == CHOOSE k \in job.keys : \A l \in job.keys : k <= l
        IN /\ vault' = vault \ {key}
           /\ Becomes(a, [job EXCEPT !.keys = @ \ {key}])
     /\ UNCHANGED <<now, data, stored, policy, memory, may, past, unsure, packages, drawn>>

DeleteRecord(a) ==
  LET job == jobs[a]
  IN /\ Runs(a, "delete") /\ job.keys = {}
     /\ data' = IF Registered(data, job.tag) THEN DeleteTag(data, job.tag) ELSE data
     /\ Becomes(a, Free)
     /\ UNCHANGED <<now, vault, stored, policy, memory, may, past, unsure, packages, drawn>>

(***************************************************************************)
(* prepare_tag_protection.                                                 *)
(***************************************************************************)
StartProtection(a, t) ==
  /\ Runs(a, "free") /\ Registered(data, t) /\ ~data.tags[t].protected
  /\ Starts("protections")
  /\ Becomes(a, [pc |-> "package", tag |-> t, copy |-> data.tags[t]])
  /\ unsure' = (unsure \/ Busy)
  /\ UNCHANGED <<now, data, vault, stored, policy, memory, past, packages, drawn>>

PackageKnown(a) ==
  LET job == jobs[a]
  IN /\ Runs(a, "package") /\ job.copy.admin # None
     /\ job.copy.keys \cup {job.copy.admin} \subseteq vault
     /\ packages' = [packages EXCEPT ![job.tag] = @ \cup {job.copy.admin}]
     /\ Becomes(a, Free)
     /\ UNCHANGED <<now, data, vault, stored, policy, memory, may, past, unsure, drawn>>

StoreAdminKey(a) ==
  LET job == jobs[a]
  IN /\ Runs(a, "package") /\ job.copy.admin = None /\ job.copy.keys \subseteq vault
     /\ NextKey \in Key
     /\ vault' = vault \cup {NextKey} /\ stored' = NextKey
     /\ Becomes(a, [pc |-> "attach", tag |-> job.tag, keys |-> <<NextKey>>])
     /\ UNCHANGED <<now, data, policy, memory, may, past, unsure, packages, drawn>>

AttachAdminKey(a) ==
  LET job == jobs[a]
  IN /\ Runs(a, "attach")
     /\ IF Registered(data, job.tag)
        THEN /\ data' = SetTagAdminKey(data, job.tag, job.keys[1])
             /\ packages' = [packages EXCEPT ![job.tag] = @ \cup {job.keys[1]}]
             /\ Becomes(a, Free)
        ELSE Becomes(a, [pc |-> "undo", keys |-> job.keys]) /\ UNCHANGED <<data, packages>>
     /\ UNCHANGED <<now, vault, stored, policy, memory, may, past, unsure, drawn>>

FailAttach(a) ==
  /\ Runs(a, "attach") /\ Allowed("faults") /\ Uses("faults")
  /\ Becomes(a, [pc |-> "undo", keys |-> jobs[a].keys])
  /\ UNCHANGED <<now, data, vault, stored, policy, memory, past, unsure, packages, drawn>>

(* A retrieval, a deletion or a save of these actions fails. *)
FailTag(a) ==
  /\ jobs[a].pc \in {"undo", "delete", "package"} /\ Allowed("faults") /\ Uses("faults")
  /\ Becomes(a, Free)
  /\ unsure' = (unsure \/ ~Runs(a, "package"))
  /\ UNCHANGED <<now, data, vault, stored, policy, memory, past, packages, drawn>>

(***************************************************************************)
(* Removals: what NFC keeps goes first.  The person's record goes in the   *)
(* registry, the door is no longer managed there.                          *)
(***************************************************************************)
RemovePerson(a, person) ==
  /\ Runs(a, "free") /\ people[person] # None /\ Starts("removals")
  /\ data' = DisableCredentials(data, person)
  /\ Void(person)
  /\ Becomes(a, [pc |-> "person", person |-> person])
  /\ UNCHANGED <<now, vault, stored, policy, memory, opened, commands, enrolled, confirms, unsure, packages, drawn>>

RemovePersonRecord(a) ==
  /\ Runs(a, "person")
  /\ people' = [people EXCEPT ![jobs[a].person] = None]
  /\ Becomes(a, Free)
  /\ UNCHANGED <<now, data, vault, stored, pins, doors, schedules, memory, may, past, unsure, packages, drawn>>

RemoveDoor(a, door) ==
  /\ Runs(a, "free") /\ doors[door].managed /\ Starts("removals")
  /\ data' = DisableTags(data, door)
  /\ Becomes(a, [pc |-> "door", door |-> door])
  /\ UNCHANGED <<now, vault, stored, policy, memory, past, unsure, packages, drawn>>

RemoveDoorRecord(a) ==
  /\ Runs(a, "door")
  /\ doors' = [doors EXCEPT ![jobs[a].door].managed = FALSE]
  /\ Becomes(a, Free)
  /\ UNCHANGED <<now, data, vault, stored, people, pins, schedules, memory, may, past, unsure, packages, drawn>>

(* The process ends: what is in memory, and every action under way, is gone. *)
Restart ==
  /\ Allowed("restarts") /\ Uses("restarts")
  /\ taps' = {} /\ ceremonies' = {} /\ enrolments' = {}
  /\ requests' = [r \in Request |-> Idle] /\ jobs' = [a \in Admin |-> Free]
  /\ unsure' = (unsure \/ Busy)
  /\ UNCHANGED <<now, data, vault, stored, policy, issued, past, packages, drawn>>

Administer ==
  \/ \E a \in Admin :
       \/ \E t \in Tag, enabled \in BOOLEAN : SwitchTag(a, t, enabled)
       \/ \E t \in Tag : ConfirmProtection(a, t) \/ StartDelete(a, t) \/ StartProtection(a, t)
       \/ \E t \in Tag, d \in Door : StartPrepare(a, t, d)
       \/ \E d \in Door : RevokeTest(a, d) \/ RemoveDoor(a, d)
       \/ \E d \in Door, x \in Test : CheckTest(a, d, x)
       \/ \E p \in Person : RevokeEnrolment(a, p) \/ RemovePerson(a, p)
       \/ \E p \in Person, i \in Invite : CheckInvite(a, p, i)
       \/ \E p \in Person, selected \in SUBSET Door : CheckAccess(a, p, selected)
       \/ WriteInvite(a) \/ WriteAccess(a) \/ WriteTest(a)
       \/ StoreKey(a) \/ RecordTag(a) \/ FailPrepare(a) \/ UndoKey(a)
       \/ DeleteKey(a) \/ DeleteRecord(a)
       \/ PackageKnown(a) \/ StoreAdminKey(a) \/ AttachAdminKey(a) \/ FailAttach(a) \/ FailTag(a)
       \/ RemovePersonRecord(a) \/ RemoveDoorRecord(a)
  \/ Restart

=============================================================================
