-------------------------------- MODULE Nfc --------------------------------
(***************************************************************************)
(* NFC access as a whole: visitors, administrators, the policy, the vault. *)
(***************************************************************************)
EXTENDS NfcAdmin

CONSTANTS
  Installations    \* what the system holds at first, and what is going to happen

(***************************************************************************)
(* What the file holds of a tag, a test tag, a passkey and an invitation.  *)
(***************************************************************************)
NfcTags ==
  [door : Door, keys : SUBSET Key, admin : Key \cup {None}, enabled : BOOLEAN,
   last : Counter \cup {None}, protected : BOOLEAN]
TestTags == [door : Door, expires : Int]
Passkeys == [person : Person, enabled : BOOLEAN]
Invites == [person : Person, expires : Int, used : BOOLEAN]

Repository ==
  [tags : [Tag -> NfcTags \cup {None}], tests : [Test -> TestTags \cup {None}],
   passkeys : [Passkey -> Passkeys \cup {None}], invites : [Invite -> Invites \cup {None}],
   grants : SUBSET (Person \X Door)]

UsableSchedule(s) ==
  IsSchedule(s) /\ \A instant \in 0..LastInstant : Offset(s.zone, instant) \in Int

(* The keys of a tag, and of all tags. *)
KeysIn(d, t) == d.tags[t].keys \cup ({d.tags[t].admin} \ {None})
TagKeys(d) == UNION {KeysIn(d, t) : t \in {u \in Tag : Registered(d, u)}}

(* Times, counters and tokens are numbers, None is nothing else, passkeys  *)
(* are not invitations, and an installation is of its type, names          *)
(* schedules that it has, and has in its vault the keys of its tags, each  *)
(* of one tag.                                                             *)
ASSUME Assumptions ==
  /\ Key \subseteq Nat /\ Counter \subseteq Int /\ {LastInstant, LastToken} \subseteq Nat
  /\ {TapTtl, CeremonyTtl, EnrolTtl, InviteTtl, TestTtl} \subseteq Nat
  /\ None \notin Int /\ None \notin Invite \cup Passkey /\ Invite \cap Passkey = {}
  /\ None \notin NfcTags \cup TestTags \cup Passkeys \cup Invites
  /\ \A i \in Installations :
       /\ i.now \in 0..LastInstant /\ i.data \in Repository
       /\ i.stored \in Nat /\ TagKeys(i.data) = 1..i.stored
       /\ \A t, u \in Tag : Registered(i.data, t) /\ Registered(i.data, u) /\ t # u =>
            KeysIn(i.data, t) \cap KeysIn(i.data, u) = {}
       /\ DOMAIN i.people = Person
       /\ i.doors \in [Door -> [managed : BOOLEAN, enabled : BOOLEAN]]
       /\ \A p \in Person : i.people[p] # None =>
            UsableSchedule(i.schedules[i.people[p].schedule])
       /\ \A g \in Person \X Door : i.pins[g] # None =>
            UsableSchedule(i.schedules[i.pins[g].schedule])

Init ==
  \E i \in Installations :
    /\ now = i.now /\ data = i.data /\ vault = 1..i.stored /\ stored = i.stored
    /\ people = i.people /\ pins = i.pins /\ doors = i.doors /\ schedules = i.schedules
    /\ taps = {} /\ ceremonies = {} /\ enrolments = {} /\ issued = 0
    /\ requests = [r \in Request |-> Idle]
    /\ may = i.may
    /\ opened = {} /\ commands = {} /\ enrolled = [k \in Passkey |-> None]
    /\ voided = {} /\ confirms = [t \in Tag |-> 0]
    /\ jobs = [a \in Admin |-> Free] /\ unsure = FALSE
    /\ packages = [t \in Tag |-> {}]
    /\ drawn = {t \in Tag : Registered(i.data, t)} \cup {x \in Test : i.data.tests[x] # None}
               \cup {v \in Invite : i.data.invites[v] # None}

Next == (Visit /\ UNCHANGED admin) \/ Administer

vars == <<access, admin>>

Spec == Init /\ [][Next]_vars

(***************************************************************************)
(* What is stored has its type, and no store of tokens outgrows its bound: *)
(* what anybody can issue at the door cannot fill the memory.              *)
(***************************************************************************)
Store(items, values) ==
  /\ Cardinality(items) <= MaxItems
  /\ \A i \in items : i.token \in 1..issued /\ i.value \in values

TypeOK ==
  /\ stored \in Nat /\ vault \subseteq 1..stored /\ 1..stored \subseteq Key /\ now \in 0..LastInstant
  /\ issued \in 0..LastToken
  /\ data \in Repository
  /\ Store(taps, [tag : Tag \cup Test, door : Door, counter : Counter \cup {None}, test : BOOLEAN])
  /\ Store(ceremonies, 1..LastToken)
  /\ Store(enrolments, [invite : Invite, person : Person])

(***************************************************************************)
(* What is for one use is used once: a reading of a tag opens one session  *)
(* until the tag is written anew, a session moves a door once however      *)
(* often the passkey answers, and an invitation enrols one passkey.        *)
(***************************************************************************)
SpentOnce ==
  /\ \A o, q \in opened : o.tap = q.tap /\ ~o.tap.test /\ o.epoch = q.epoch => o = q
  /\ \A c, d \in commands : c.token = d.token => c = d
  /\ \A k, l \in Passkey : enrolled[k] # None /\ enrolled[k] = enrolled[l] => k = l

(***************************************************************************)
(* What is revoked stays revoked, whatever was under way: a session that   *)
(* is consumed after its person, its door or its test tag was gone moves   *)
(* nothing, and neither a passkey nor an invitation that was revoked with  *)
(* its person comes to be accepted.                                        *)
(***************************************************************************)
RevocationHolds ==
  /\ \A c \in commands : ~c.gone
  /\ \A k \in Passkey : PasskeyEnabled(data, k) => k \notin voided /\ enrolled[k] \notin voided

(***************************************************************************)
(* The vault and the file agree, as long as no action on a tag was cut or  *)
(* met another: the keys of a registered tag exist unless it is just being *)
(* deleted, no key exists that belongs to nothing, and the administrator   *)
(* key that was handed out is the one that is recorded.                    *)
(***************************************************************************)
KeysOf(t) == KeysIn(data, t)

HeldBy(job) ==
  IF job.pc \in {"store", "undo", "attach"} THEN {job.keys[n] : n \in 1..Len(job.keys)} ELSE {}

VaultFollowsTags ==
  unsure \/
    /\ \A t \in Tag : Registered(data, t) =>
         /\ KeysOf(t) \subseteq vault \/ \E a \in Admin : Runs(a, "delete") /\ jobs[a].tag = t
         /\ packages[t] \subseteq {data.tags[t].admin}
    /\ vault \subseteq TagKeys(data) \cup UNION {HeldBy(jobs[a]) : a \in Admin}

(***************************************************************************)
(* The door opens when the rules of the week say so and not otherwise: the *)
(* evaluation, minute by minute and across midnight and the end of the     *)
(* week, agrees with the segments of the week that were validated when the *)
(* schedule was saved; and a denial never names hours in which the door    *)
(* would have opened.                                                      *)
(***************************************************************************)
Told(schedule, instant) ==
  /\ WeeklyHours(schedule.rules) = "simple"
  /\ \E range \in Ranges({r.day : r \in schedule.rules}), h \in Hours(schedule.rules) :
       /\ LocalDay(schedule.zone, instant) \in range.first..range.last
       /\ LocalMinute(schedule.zone, instant) \in h.start..h.end - 1

PolicyRespected ==
  \A r \in Request : At(r, "decided") =>
    LET s == requests[r].snapshot
        instant == requests[r].instant
    IN /\ requests[r].decision = "allowed"
          <=> Permitted(s.person, s.grant, s.door, s.schedules, instant)
       /\ requests[r].decision = "outside_weekly_rule"
          => ~Told(s.schedules[s.grant.schedule], instant)
=============================================================================
