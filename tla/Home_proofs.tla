----------------------------- MODULE Home_proofs -----------------------------
(***************************************************************************)
(* Invariants of a home, for any number of people, schedules, doors,       *)
(* keypads, requests and calls served at a time.                           *)
(***************************************************************************)
EXTENDS Home, FiniteSetTheorems, TLAPS

(***************************************************************************)
(* The calls: what each holds, by the place it is at.                      *)
(***************************************************************************)

\* The places of a call that provisions, and of one that is at a door.
ProvisionPc ==
  {"secret", "core", "discard", "finish", "check", "door", "metadata", "grant", "authority",
   "undo_grant", "undo_metadata", "undo_authority", "rollback", "unrecord", "failed"}
DoorPc ==
  {"enrol", "policy", "enrolment", "keypads", "depart", "expose", "keypad", "withdraw",
   "unkeypad", "update"}
Busy(r) == r.pc \in ProvisionPc \cup {"save"}

\* What a call under way holds, by the place it is at.
LEMMA Shapes ==
  ASSUME NEW r \in CallRecord
  PROVE  /\ r.pc = "person" => r \in [pc : {"person"}, person : Person, copy : PersonRecord]
         /\ r.pc = "schedule" => r \in [pc : {"schedule"}, schedule : Schedule, copy : ScheduleRecord]
         /\ r.pc = "form" =>
              r \in [pc : {"form"}, person : Person, rev : Nat, schedule : Schedule, srev : Nat]
         /\ r.pc = "status" =>
              r \in [pc : {"status"}, grant : Pair, copy : GrantRecord, doors : SUBSET Door]
         /\ r.pc = "forget" => r \in [pc : {"forget"}, grant : Pair, doors : SUBSET Door]
         /\ r.pc \in {"enrol", "policy"} =>
              r \in [pc : {"enrol", "policy"}, door : Door, rev : Nat, doors : SUBSET Door]
         /\ r.pc = "enrolment" =>
              r \in [pc : {"enrolment"}, door : Door, copy : DoorRecord, doors : SUBSET Door]
         /\ r.pc \in {"keypads", "depart"} =>
              r \in [pc : {"keypads", "depart"}, door : Door, doors : SUBSET Door]
         /\ r.pc \in {"expose", "keypad", "withdraw", "unkeypad"} =>
              r \in [pc : {"expose", "keypad", "withdraw", "unkeypad"}, keypad : Keypad, door : Door,
                     enabled : BOOLEAN, copy : DoorRecord, doors : SUBSET Door]
         /\ r.pc = "update" =>
              r \in [pc : {"update"}, keypad : Keypad, door : Door, enabled : BOOLEAN, doors : SUBSET Door]
         /\ r.pc \in ProvisionPc => r \in Provision
         /\ r.pc = "save" =>
              r \in [pc : {"save"}, request : Request, doors : SUBSET Door, answer : Answer]
  BY DEF CallRecord, Provision, ProvisionPc

\* The fields that the records of calls have.
LEMMA Fields ==
  ASSUME NEW r \in CallRecord
  PROVE  /\ "request" \in DOMAIN r <=> Busy(r)
         /\ "made" \in DOMAIN r <=> r.pc \in ProvisionPc
         /\ "cred" \in DOMAIN r <=> r.pc \in ProvisionPc
         /\ r \in Provision <=> r.pc \in ProvisionPc
         /\ r.pc \in {"free", "down", "person", "schedule", "form"} => Doors(r) = {}
         /\ r.pc \notin {"free", "down", "person", "schedule", "form"} =>
              Doors(r) = r.doors /\ r.doors \in SUBSET Door
         /\ Doors(r) \subseteq Door
         /\ r.pc \in {"free", "down", "person", "schedule", "form", "status", "forget", "save"} \cup DoorPc
                \cup ProvisionPc
  BY DEF CallRecord, Provision, ProvisionPc, Busy, Doors, DoorPc

(***************************************************************************)
(* Documents.                                                              *)
(***************************************************************************)
LEMMA Puts ==
  ASSUME NEW d \in Document
  PROVE  /\ \A p \in Person, v \in PersonRecord \cup {None} : [d EXCEPT !.people[p] = v] \in Document
         /\ \A s \in Schedule,
              v \in ScheduleRecord \cup {None} : [d EXCEPT !.schedules[s] = v] \in Document
         /\ \A g \in Pair, v \in GrantRecord \cup {None} : [d EXCEPT !.grants[g] = v] \in Document
         /\ \A g \in Pair, v \in MetadataRecord \cup {None} : [d EXCEPT !.metadata[g] = v] \in Document
         /\ \A p \in Person, v \in Pin : [d EXCEPT !.authority[p] = v] \in Document
         /\ \A x \in Door, v \in DoorRecord \cup {None} : [d EXCEPT !.doors[x] = v] \in Document
         /\ \A k \in Keypad, v \in KeypadRecord \cup {None} : [d EXCEPT !.keypads[k] = v] \in Document
         /\ \A r \in Request, v \in RequestRecord \cup {None} : [d EXCEPT !.requests[r] = v] \in Document
<1>1. ASSUME NEW p \in Person, NEW v \in PersonRecord \cup {None}
      PROVE  [d EXCEPT !.people[p] = v] \in Document
  BY DEF Document
<1>2. ASSUME NEW s \in Schedule, NEW v \in ScheduleRecord \cup {None}
      PROVE  [d EXCEPT !.schedules[s] = v] \in Document
  BY DEF Document
<1>3. ASSUME NEW g \in Pair, NEW v \in GrantRecord \cup {None}
      PROVE  [d EXCEPT !.grants[g] = v] \in Document
  BY DEF Document
<1>4. ASSUME NEW g \in Pair, NEW v \in MetadataRecord \cup {None}
      PROVE  [d EXCEPT !.metadata[g] = v] \in Document
  BY DEF Document
<1>5. ASSUME NEW p \in Person, NEW v \in Pin PROVE [d EXCEPT !.authority[p] = v] \in Document
  BY DEF Document
<1>6. ASSUME NEW x \in Door, NEW v \in DoorRecord \cup {None}
      PROVE  [d EXCEPT !.doors[x] = v] \in Document
  BY DEF Document
<1>7. ASSUME NEW k \in Keypad, NEW v \in KeypadRecord \cup {None}
      PROVE  [d EXCEPT !.keypads[k] = v] \in Document
  BY DEF Document
<1>8. ASSUME NEW r \in Request, NEW v \in RequestRecord \cup {None}
      PROVE  [d EXCEPT !.requests[r] = v] \in Document
  BY DEF Document
<1> QED BY <1>1, <1>2, <1>3, <1>4, <1>5, <1>6, <1>7, <1>8

(* What is removed from a valid document leaves it valid, as long as the   *)
(* records of a person go with the person.                                 *)
LEMMA ValidAfterRemoval ==
  ASSUME Assumptions, NEW d \in Document, NEW e \in Document, Valid(d),
         e.schedules = d.schedules,
         \A p \in Person : e.people[p] # None =>
           d.people[p] # None /\ e.people[p].default = d.people[p].default,
         \A g \in Pair : e.grants[g] \in {None, d.grants[g]},
         \A g \in Pair : e.metadata[g] # None =>
           d.metadata[g] # None /\ e.metadata[g].cred = d.metadata[g].cred,
         \A p \in Person : e.authority[p] \in {None, d.authority[p]},
         \A p \in Person : e.people[p] = None =>
           e.authority[p] = None /\ \A x \in Door : e.grants[<<p, x>>] = None,
         \A x \in Door : d.doors[x] # None => e.doors[x] # None,
         \A k \in Keypad : e.keypads[k] \in {None, d.keypads[k]}
  PROVE  Valid(e)
<1>1. SchedulesExist(e)
  <2>1. SchedulesExist(d) /\ e.grants \in [Pair -> GrantRecord \cup {None}]
    BY DEF Valid, Document
  <2>2. \A p \in Person : e.people[p] # None => e.schedules[e.people[p].default] # None
    BY <2>1 DEF SchedulesExist
  <2>3. \A g \in Pair : e.grants[g] # None => e.schedules[e.grants[g].schedule] # None
    BY <2>1 DEF SchedulesExist
  <2> QED BY <2>1, <2>2, <2>3 DEF SchedulesExist
<1>2. OwnersExist(e)
  <2>1. \A g \in Pair : g = <<g[1], g[2]>> /\ g[1] \in Person /\ g[2] \in Door
    BY DEF Pair
  <2>2. \A g \in Pair : e.grants[g] # None => e.people[g[1]] # None
    BY <2>1 DEF Document
  <2>3. \A k \in Keypad : e.keypads[k] # None => e.doors[e.keypads[k].door] # None
    <3>1. \A k \in Keypad : e.keypads[k] # None =>
            d.keypads[k] = e.keypads[k] /\ e.keypads[k].door \in Door
      BY DEF Document, KeypadRecord
    <3> QED BY <3>1 DEF Valid, OwnersExist
  <2>4. \A g \in Pair : e.grants[g] # None \/ e.metadata[g] # None => e.doors[g[2]] # None
    BY <2>1 DEF Valid, OwnersExist
  <2> QED BY <2>2, <2>3, <2>4 DEF OwnersExist, Document
<1>3. ASSUME NEW p \in Person, e.authority[p] # None PROVE ClaimAgrees(e, p)
  <2>1. e.authority[p] = d.authority[p] /\ ClaimAgrees(d, p)
    BY <1>3 DEF Valid
  <2>2. \A q \in Person \ {p} : e.authority[q] # e.authority[p]
    BY <2>1, <1>3 DEF ClaimAgrees
  <2>3. Names(e.grants, p, e.authority[p]) /\ Names(e.metadata, p, e.authority[p])
    BY <2>1 DEF ClaimAgrees, Names
  <2> QED BY <2>2, <2>3 DEF ClaimAgrees
<1> QED BY <1>1, <1>2, <1>3 DEF Valid

(***************************************************************************)
(* Calls that are coherent, and apart from each other.                     *)
(***************************************************************************)

\* The places of record_provisioning, and those before the first door.
Recording == {"metadata", "grant", "authority", "undo_grant", "undo_metadata", "undo_authority"}
Early == {"secret", "core", "discard", "finish", "check"}

\* What a call that provisions keeps about itself.
Steady(r) ==
  /\ r.todo \cup r.done \subseteq r.doors /\ r.door \in r.doors \cup {None}
  /\ r.todo \cap r.done = {} /\ r.door \notin r.todo
  /\ r.pc \in Recording \cup {"unrecord"} => r.door # None /\ r.door \notin r.done
  /\ r.pc \in Recording \cup {"check"} => r.cred # None
  /\ r.made => r.cred # None
  /\ r.pc = "secret" => r.cred = None /\ ~r.made
  /\ r.pc = "discard" => r.made

\* The same of a door that is given, and of a request.
SteadyGift(r) ==
  /\ r.pc \in {"door", "secret", "rollback"} \cup Recording
  /\ r.done = {}
  /\ r.pc = "secret" => r.door # None
  /\ r.pc = "door" => ~r.made

SteadySetUp(r) ==
  /\ r.person = Asked[r.request].person /\ r.doors = Asked[r.request].doors
  /\ r.pc \in Early => r.done = {}
  /\ r.pc = "door" => r.cred # None
  /\ r.pc = "core" /\ Asked[r.request].kind = "create" /\ r.cred # None => r.made

\* What a call under way keeps about itself.
Coherent(r) ==
  /\ r.pc \in ProvisionPc =>
       Steady(r) /\ IF r.request = None THEN SteadyGift(r) ELSE SteadySetUp(r)
  /\ r.pc \in {"status", "forget"} => r.grant[2] \in r.doors
  /\ r.pc \in DoorPc => r.door \in r.doors
  /\ r.pc \in {"expose", "keypad"} => r.enabled
  /\ r.pc = "withdraw" => ~r.enabled
  /\ r.pc = "policy" => r.rev # 0
  /\ r.pc = "save" => /\ r.answer.request = r.request /\ r.answer.added \subseteq r.doors
                      /\ r.doors = Asked[r.request].doors

\* A request that is served, and a door that is given.
Sets(r) == Busy(r) /\ r.request # None
Gives(r) == Busy(r) /\ r.request = None

\* Calls are coherent; two that are at one door have met; one set-up and one gift at a time.
Calls ==
  /\ \A c \in Caller : Coherent(call[c])
  /\ \A c, o \in Caller : c # o =>
       /\ Doors(call[c]) \cap Doors(call[o]) \subseteq met
       /\ ~(Sets(call[c]) /\ Sets(call[o])) /\ ~(Gives(call[c]) /\ Gives(call[o]))
       /\ At(c, "down") => At(o, "down")

\* What a step of call c does to the calls.
Turn(c) ==
  /\ call' = [call EXCEPT ![c] = call'[c]]
  /\ call'[c] \in CallRecord /\ Coherent(call'[c])
  /\ met \subseteq met' /\ met' \subseteq Door
  /\ \A x \in Doors(call'[c]) \ met' : x \in Doors(call[c]) \/ \A o \in Caller \ {c} : x \notin Doors(call[o])
  /\ Sets(call'[c]) => Sets(call[c]) \/ \A o \in Caller \ {c} : ~Sets(call[o])
  /\ Gives(call'[c]) => Gives(call[c]) \/ \A o \in Caller \ {c} : ~Gives(call[o])
  /\ call[c].pc # "down" /\ call'[c].pc # "down"

\* A call starts, goes on, or is served at once.
Starts(c) ==
  /\ At(c, "free") /\ call' = [call EXCEPT ![c] = call'[c]]
  /\ met' = met \cup (Doors(call'[c]) \cap UNION {Doors(call[o]) : o \in Caller \ {c}})

GoesOn(c) ==
  /\ call' = [call EXCEPT ![c] = call'[c]] /\ met' = met
  /\ Doors(call'[c]) \subseteq Doors(call[c])

Waits(c) == At(c, "free") /\ call' = call /\ met' = met

\* The types of the calls, of the document, and what is drawn.
CallTypes == call \in [Caller -> CallRecord] /\ met \subseteq Door

\* A step of one call keeps the calls coherent and apart from each other.
LEMMA TurnKeepsCalls ==
  ASSUME CallTypes, Calls, NEW c \in Caller, Turn(c)
  PROVE  CallTypes' /\ Calls'
<1>1. CallTypes'
  BY DEF CallTypes, Turn
<1>2. \A o \in Caller : o # c => call'[o] = call[o]
  BY DEF CallTypes, Turn
<1>3. \A o \in Caller : Coherent(call'[o])
  BY <1>2 DEF Calls, Turn
<1>4. ASSUME NEW o \in Caller, NEW a \in Caller, o # a
      PROVE  /\ Doors(call'[o]) \cap Doors(call'[a]) \subseteq met'
             /\ ~(Sets(call'[o]) /\ Sets(call'[a])) /\ ~(Gives(call'[o]) /\ Gives(call'[a]))
             /\ call'[o].pc = "down" => call'[a].pc = "down"
  <2>1. CASE o # c /\ a # c
    BY <1>4, <2>1, <1>2 DEF Calls, Turn, At
  <2>2. CASE o = c
    <3>1. call'[a] = call[a]
      BY <1>4, <2>2, <1>2
    <3>2. Doors(call[c]) \cap Doors(call[a]) \subseteq met /\ (call[a].pc = "down" => call[c].pc = "down")
          /\ ~(Sets(call[c]) /\ Sets(call[a])) /\ ~(Gives(call[c]) /\ Gives(call[a]))
      BY <1>4, <2>2 DEF Calls, At
    <3> QED BY <1>4, <2>2, <3>1, <3>2 DEF Turn
  <2>3. CASE a = c
    <3>1. call'[o] = call[o]
      BY <1>4, <2>3, <1>2
    <3>2. Doors(call[c]) \cap Doors(call[o]) \subseteq met /\ (call[o].pc = "down" => call[c].pc = "down")
          /\ ~(Sets(call[c]) /\ Sets(call[o])) /\ ~(Gives(call[c]) /\ Gives(call[o]))
      BY <1>4, <2>3 DEF Calls, At
    <3> QED BY <1>4, <2>3, <3>1, <3>2 DEF Turn
  <2> QED BY <2>1, <2>2, <2>3
<1> QED BY <1>1, <1>3, <1>4 DEF Calls, At

\* A call that starts, and provisions nothing.
LEMMA Starting ==
  ASSUME CallTypes, NEW c \in Caller, Starts(c), call'[c] \in CallRecord, Coherent(call'[c]),
         call'[c].pc # "down",
         Sets(call'[c]) => \A o \in Caller : ~Sets(call[o]),
         Gives(call'[c]) => \A o \in Caller : ~Gives(call[o])
  PROVE  Turn(c)
<1>1. met' \subseteq Door
  BY Fields DEF CallTypes, Starts
<1> QED BY <1>1 DEF Turn, Starts, At

\* A call that goes on, and provisions nothing.
LEMMA GoingOn ==
  ASSUME CallTypes, NEW c \in Caller, GoesOn(c), call'[c] \in CallRecord, Coherent(call'[c]),
         call'[c].pc # "down", call[c].pc # "down",
         Sets(call'[c]) => Sets(call[c]), Gives(call'[c]) => Gives(call[c])
  PROVE  Turn(c)
  BY DEF Turn, GoesOn, CallTypes

\* A call that is served at once.
LEMMA Waiting ==
  ASSUME CallTypes, Calls, NEW c \in Caller, Waits(c)
  PROVE  Turn(c)
<1>1. call' = [call EXCEPT ![c] = call'[c]]
  BY DEF CallTypes, Waits
<1> QED BY <1>1 DEF Turn, Waits, CallTypes, Calls, At

\* A call that ends.
LEMMA Ending ==
  ASSUME CallTypes, NEW c \in Caller, Becomes(c, Free), met' = met, call[c].pc # "down"
  PROVE  Turn(c) /\ call'[c] = Free
<1>1. call'[c] = Free /\ call' = [call EXCEPT ![c] = call'[c]]
  BY DEF CallTypes, Becomes
<1>2. Free \in CallRecord /\ Coherent(Free) /\ ~Busy(Free) /\ Free.pc = "free" /\ Doors(Free) = {}
  <2>1. Free \in CallRecord /\ Free.pc = "free" /\ ~Busy(Free)
    BY DEF Free, CallRecord, Busy, ProvisionPc
  <2>2. Coherent(Free)
    BY DEF Coherent, Free, ProvisionPc, DoorPc
  <2> QED BY <2>1, <2>2, Fields
<1>3. GoesOn(c) /\ ~Sets(call'[c]) /\ ~Gives(call'[c])
  BY <1>1, <1>2 DEF GoesOn, Sets, Gives
<1> QED BY <1>1, <1>2, <1>3, GoingOn

\* Serving people, schedules and grants keeps the calls coherent.
LEMMA ServeTurns ==
  ASSUME Assumptions, doc \in Document, Valid(doc), CallTypes, Calls, NEW c \in Caller, Serve(c)
  PROVE  Turn(c) /\ ~Busy(call[c]) /\ ~Busy(call'[c])
<1> DEFINE Done == Turn(c) /\ ~Busy(call[c]) /\ ~Busy(call'[c])
<1> USE DEF CallTypes
<1>1. ASSUME NEW p \in Person, ReadPerson(c, p) PROVE Done
  <2>1. /\ Starts(c)
        /\ call'[c] = [pc |-> "person", person |-> p, copy |-> doc.people[p]]
    BY <1>1 DEF ReadPerson, Begins, Becomes, Starts
  <2>2. doc.people[p] \in PersonRecord
    BY <1>1 DEF ReadPerson, Document
  <2>3. call'[c] \in CallRecord /\ Coherent(call'[c])
    BY <2>1, <2>2 DEF CallRecord, Coherent, ProvisionPc, DoorPc
  <2>4. call'[c].pc # "down" /\ ~Busy(call'[c]) /\ ~Busy(call[c])
    BY <2>1 DEF Busy, ProvisionPc, Starts, At
  <2> QED BY <2>1, <2>3, <2>4, Starting DEF Sets, Gives
<1>2. ASSUME NEW s \in Schedule, ReadSchedule(c, s) PROVE Done
  <2>1. /\ Starts(c)
        /\ call'[c] = [pc |-> "schedule", schedule |-> s, copy |-> doc.schedules[s]]
    BY <1>2 DEF ReadSchedule, Begins, Becomes, Starts
  <2>2. doc.schedules[s] \in ScheduleRecord
    BY <1>2 DEF ReadSchedule, Document
  <2>3. call'[c] \in CallRecord /\ Coherent(call'[c])
    BY <2>1, <2>2 DEF CallRecord, Coherent, ProvisionPc, DoorPc
  <2>4. call'[c].pc # "down" /\ ~Busy(call'[c]) /\ ~Busy(call[c])
    BY <2>1 DEF Busy, ProvisionPc, Starts, At
  <2> QED BY <2>1, <2>3, <2>4, Starting DEF Sets, Gives
<1>3. ASSUME NEW p \in Person, NEW s \in Schedule, OpenForm(c, p, s) PROVE Done
  <2>1. /\ Starts(c)
        /\ call'[c] = [pc |-> "form", person |-> p, rev |-> doc.people[p].rev,
                         schedule |-> s, srev |-> doc.schedules[s].rev]
    BY <1>3 DEF OpenForm, Begins, Becomes, Starts
  <2>2. doc.people[p].rev \in Nat /\ doc.schedules[s].rev \in Nat
    <3>1. doc.people[p] \in PersonRecord
      BY <1>3 DEF OpenForm, Document
    <3>2. doc.schedules[s] # None
      BY <1>3 DEF OpenForm, Owned, GrantsOf, Valid, SchedulesExist, Pair
    <3> QED BY <3>1, <3>2 DEF Document, PersonRecord, ScheduleRecord
  <2>3. call'[c] \in CallRecord /\ Coherent(call'[c])
    BY <2>1, <2>2 DEF CallRecord, Coherent, ProvisionPc, DoorPc
  <2>4. call'[c].pc # "down" /\ ~Busy(call'[c]) /\ ~Busy(call[c])
    BY <2>1 DEF Busy, ProvisionPc, Starts, At
  <2> QED BY <2>1, <2>3, <2>4, Starting DEF Sets, Gives
<1>4. ASSUME NEW g \in Pair, ReadGrant(c, g) PROVE Done
  <2>1. /\ Starts(c)
        /\ call'[c] = [pc |-> "status", grant |-> g, copy |-> doc.grants[g], doors |-> {g[2]}]
    BY <1>4 DEF ReadGrant, Begins, Becomes, Starts
  <2>2. doc.grants[g] \in GrantRecord /\ g[2] \in Door
    BY <1>4 DEF ReadGrant, Document, Pair
  <2>3. call'[c] \in CallRecord /\ Coherent(call'[c])
    BY <2>1, <2>2 DEF CallRecord, Coherent, ProvisionPc, DoorPc
  <2>4. call'[c].pc # "down" /\ ~Busy(call'[c]) /\ ~Busy(call[c])
    BY <2>1 DEF Busy, ProvisionPc, Starts, At
  <2> QED BY <2>1, <2>3, <2>4, Starting DEF Sets, Gives
<1>5. ASSUME NEW g \in Pair, ForgetGrant(c, g) PROVE Done
  <2>1. /\ Starts(c)
        /\ call'[c] = [pc |-> "forget", grant |-> g, doors |-> {g[2]}]
    BY <1>5 DEF ForgetGrant, Begins, Becomes, Starts
  <2>2. g[2] \in Door
    BY <1>5 DEF Pair
  <2>3. call'[c] \in CallRecord /\ Coherent(call'[c])
    BY <2>1, <2>2 DEF CallRecord, Coherent, ProvisionPc, DoorPc
  <2>4. call'[c].pc # "down" /\ ~Busy(call'[c]) /\ ~Busy(call[c])
    BY <2>1 DEF Busy, ProvisionPc, Starts, At
  <2> QED BY <2>1, <2>3, <2>4, Starting DEF Sets, Gives
<1>6. ASSUME NEW p \in Person, CreatePerson(c, p) PROVE Done
  <2>1. Waits(c)
    BY <1>6 DEF CreatePerson, AtOnce, Waits
  <2> QED BY <2>1, Waiting DEF Waits, At, Busy, ProvisionPc
<1>7. ASSUME NEW s \in Schedule, NEW policy \in Policy, CreateSchedule(c, s, policy) PROVE Done
  <2>1. Waits(c)
    BY <1>7 DEF CreateSchedule, AtOnce, Waits
  <2> QED BY <2>1, Waiting DEF Waits, At, Busy, ProvisionPc
<1>8. ASSUME NEW s \in Schedule, DeleteSchedule(c, s) PROVE Done
  <2>1. Waits(c)
    BY <1>8 DEF DeleteSchedule, AtOnce, Waits
  <2> QED BY <2>1, Waiting DEF Waits, At, Busy, ProvisionPc
<1>9. ASSUME WritePerson(c) PROVE Done
  <2>1. Becomes(c, Free) /\ met' = met /\ call[c].pc = "person"
    BY <1>9 DEF WritePerson, At, hours
  <2> QED BY <2>1, Ending DEF Busy, ProvisionPc, Free
<1>10. ASSUME NEW policy \in Policy, WriteSchedule(c, policy) PROVE Done
  <2>1. Becomes(c, Free) /\ met' = met /\ call[c].pc = "schedule"
    BY <1>10 DEF WriteSchedule, At, hours
  <2> QED BY <2>1, Ending DEF Busy, ProvisionPc, Free
<1>11. ASSUME NEW selection \in {None} \cup SUBSET Door, NEW policy \in Policy,
              NEW new \in Schedule \cup {None}, SaveForm(c, selection, policy, new) PROVE Done
  <2>1. Becomes(c, Free) /\ met' = met /\ call[c].pc = "form"
    BY <1>11 DEF SaveForm, At, hours
  <2> QED BY <2>1, Ending DEF Busy, ProvisionPc, Free
<1>12. ASSUME CloseForm(c) PROVE Done
  <2>1. Becomes(c, Free) /\ met' = met /\ call[c].pc = "form"
    BY <1>12 DEF CloseForm, At, hours
  <2> QED BY <2>1, Ending DEF Busy, ProvisionPc, Free
<1>13. ASSUME WriteGrant(c) PROVE Done
  <2>1. Becomes(c, Free) /\ met' = met /\ call[c].pc = "status"
    BY <1>13 DEF WriteGrant, At, hours
  <2> QED BY <2>1, Ending DEF Busy, ProvisionPc, Free
<1>14. ASSUME ForgetMetadata(c) PROVE Done
  <2>1. Becomes(c, Free) /\ met' = met /\ call[c].pc = "forget"
    BY <1>14 DEF ForgetMetadata, At, hours
  <2> QED BY <2>1, Ending DEF Busy, ProvisionPc, Free
<1> QED BY <1>1, <1>2, <1>3, <1>4, <1>5, <1>6, <1>7, <1>8, <1>9, <1>10, <1>11, <1>12, <1>13, <1>14
           DEF Serve

(***************************************************************************)
(* The document stays valid.                                               *)
(***************************************************************************)

DocOK == doc \in Document /\ Valid(doc)

Drawn ==
  /\ Awaited \subseteq drawn
  /\ \A p \in Person : doc.people[p] # None => p \in drawn
  /\ \A s \in Schedule : doc.schedules[s] # None => s \in drawn

\* What is assumed of the constants, but for the homes.
LEMMA Constants ==
  ASSUME Assumptions
  PROVE  /\ Permanent \in Schedule /\ Always \in Policy /\ WithLock \subseteq Door
         /\ None \notin Nat /\ None \notin Person /\ None \notin Door /\ None \notin Schedule
         /\ None \notin Request
         /\ None \notin PersonRecord /\ None \notin ScheduleRecord /\ None \notin GrantRecord
         /\ None \notin MetadataRecord /\ None \notin DoorRecord /\ None \notin KeypadRecord
         /\ None \notin RequestRecord
         /\ Asked \in [Request -> [kind : {"create", "assign"}, person : Person, doors : SUBSET Door,
                                   pin : BOOLEAN, schedule : Schedule]]
         /\ \A r, q \in Creating : Asked[r].person = Asked[q].person => r = q
  BY DEF Assumptions

\* Pairs of a person and a door.
LEMMA Pairs ==
  /\ \A g \in Pair : g = <<g[1], g[2]>> /\ g[1] \in Person /\ g[2] \in Door
  /\ \A p \in Person, x \in Door : <<p, x>> \in Pair /\ <<p, x>>[1] = p /\ <<p, x>>[2] = x
BY DEF Pair

\* A new person may be added.
LEMMA ValidWithPerson ==
  ASSUME Assumptions, NEW d \in Document, Valid(d), NEW p \in Person, d.people[p] = None
  PROVE  AddPerson(d, p, Permanent) \in Document /\ Valid(AddPerson(d, p, Permanent))
<1> DEFINE e == AddPerson(d, p, Permanent)
<1>1. /\ e = [d EXCEPT !.people[p] = [default |-> Permanent, enabled |-> TRUE, rev |-> 1]]
      /\ [default |-> Permanent, enabled |-> TRUE, rev |-> 1] \in PersonRecord
  BY DEF AddPerson, PersonRecord, Assumptions
<1> HIDE DEF e
<1>2. e \in Document
  <2> DEFINE v == [default |-> Permanent, enabled |-> TRUE, rev |-> 1]
  <2>1. [d EXCEPT !.people[p] = v] \in Document
    <3>1. v \in PersonRecord \cup {None}
      BY <1>1
    <3> HIDE DEF v
    <3> QED BY <3>1, Puts
  <2> QED BY <1>1, <2>1
<1>3. /\ e.schedules = d.schedules /\ e.grants = d.grants /\ e.metadata = d.metadata /\ e.doors = d.doors
      /\ e.authority = d.authority /\ e.keypads = d.keypads
      /\ \A q \in Person : e.people[q] = IF q = p THEN [default |-> Permanent, enabled |-> TRUE, rev |-> 1]
                                         ELSE d.people[q]
  BY <1>1 DEF Document
<1>4. d.schedules[Permanent] # None
  BY DEF Valid, SchedulesExist, Document, ScheduleRecord, Assumptions
<1>5. SchedulesExist(e)
  BY <1>3, <1>4 DEF Valid, SchedulesExist
<1>6. \A q \in Person : d.people[q] # None => e.people[q] # None
  BY <1>3
<1>7. OwnersExist(e)
  BY <1>3, <1>6, Pairs DEF Valid, OwnersExist
<1>8. \A q \in Person : e.authority[q] # None => ClaimAgrees(e, q)
  BY <1>3 DEF Valid, ClaimAgrees
<1> QED BY <1>2, <1>5, <1>7, <1>8 DEF Valid, e

\* A schedule that nobody has may be written or removed.
LEMMA ValidWithSchedule ==
  ASSUME Assumptions, NEW d \in Document, Valid(d), NEW s \in Schedule, s # Permanent, Unowned(d, s),
         NEW v \in ScheduleRecord \cup {None}
  PROVE  LET e == [d EXCEPT !.schedules[s] = v] IN e \in Document /\ Valid(e)
<1> DEFINE e == [d EXCEPT !.schedules[s] = v]
<1>2. e \in Document
  BY Puts
<1>3. /\ e.people = d.people /\ e.grants = d.grants /\ e.metadata = d.metadata /\ e.doors = d.doors
      /\ e.authority = d.authority /\ e.keypads = d.keypads
      /\ \A q \in Schedule : q # s => e.schedules[q] = d.schedules[q]
  BY DEF Document
<1> HIDE DEF e
<1>5. SchedulesExist(e)
  <2>1. \A p \in Person : e.people[p] # None => e.people[p].default \in Schedule \ {s}
    BY <1>3 DEF Unowned, Document, PersonRecord
  <2>2. \A g \in Pair : e.grants[g] # None => e.grants[g].schedule \in Schedule \ {s}
    BY <1>3 DEF Unowned, Document, GrantRecord
  <2> QED BY <1>3, <2>1, <2>2 DEF Valid, SchedulesExist, Assumptions
<1>7. OwnersExist(e)
  BY <1>3 DEF Valid, OwnersExist
<1>8. \A q \in Person : e.authority[q] # None => ClaimAgrees(e, q)
  BY <1>3 DEF Valid, ClaimAgrees
<1> QED BY <1>2, <1>5, <1>7, <1>8 DEF Valid, e

\* A schedule that does not exist is nobody's.
LEMMA NobodyHas ==
  ASSUME NEW d \in Document, Valid(d), NEW s \in Schedule, d.schedules[s] = None
  PROVE  Unowned(d, s)
  BY DEF Unowned, Valid, SchedulesExist

\* What was saved from a form: the schedules that it names, and what stays.
LEMMA FormSaved ==
  ASSUME Assumptions, NEW d \in Document, Valid(d), NEW form \in CallRecord, form.pc = "form",
         NEW selection \in {None} \cup SUBSET Door, NEW policy \in Policy,
         NEW new \in Schedule \cup {None}, MaySave(d, form, selection),
         Target(d, form, Selected(d, form.person, selection), policy, new) # None,
         new # None => d.schedules[new] = None
  PROVE  LET e == SavedForm(d, form, selection, policy, new)
             selected == Selected(d, form.person, selection)
             target == Target(d, form, selected, policy, new)
         IN /\ e \in Document /\ target \in Schedule /\ e.schedules[target] # None
            /\ e.schedules[target].policy = policy
            /\ e.schedules[Permanent] = d.schedules[Permanent]
            /\ \A s \in Schedule \ {target} : e.schedules[s] = d.schedules[s]
            /\ target \notin {Permanent, form.schedule} => d.schedules[target] = None
            /\ \A s \in Schedule : d.schedules[s] # None => e.schedules[s] # None
            /\ target # Permanent =>
                 \A g \in Pair \ selected : d.grants[g] # None => d.grants[g].schedule # target
            /\ \A g \in Pair : IF g \in selected THEN /\ d.grants[g] # None /\ e.grants[g] # None
                                                     /\ e.grants[g].schedule = target
                                                     /\ e.grants[g].cred = d.grants[g].cred
                               ELSE e.grants[g] = d.grants[g]
            /\ \A p \in Person : (e.people[p] = None <=> d.people[p] = None)
            /\ \A p \in Person : d.people[p] # None =>
                 e.people[p].default \in {target, d.people[p].default}
            /\ e.metadata = d.metadata /\ e.authority = d.authority /\ e.doors = d.doors
            /\ e.keypads = d.keypads /\ e.requests = d.requests
<1> DEFINE p == form.person
           selected == Selected(d, p, selection)
           target == Target(d, form, selected, policy, new)
           e == SavedForm(d, form, selection, policy, new)
           f == Stored(d, form, target, policy)
           default == NextDefault(d, p, selection, selected, target)
<1>1. form \in [pc : {"form"}, person : Person, rev : Nat, schedule : Schedule, srev : Nat]
  BY Shapes
<1>2. d.people[p] \in PersonRecord /\ d.schedules[form.schedule] \in ScheduleRecord
  BY <1>1 DEF MaySave, Document
<1>3. selected \subseteq Pair /\ \A g \in selected : d.grants[g] \in GrantRecord
  <2>1. selected \subseteq GrantsOf(d, p)
    BY DEF MaySave, Selected
  <2> QED BY <2>1, <1>1 DEF GrantsOf, Pair, Document
<1>4. target \in {Permanent, form.schedule, new} \ {None} /\ target \in Schedule
  BY <1>1 DEF Target, Assumptions
<1>5. /\ d.schedules[Permanent] = [policy |-> Always, rev |-> 1]
      /\ policy = Always => target = Permanent
  BY DEF Valid, SchedulesExist, Target
<1>6. target = Permanent => policy = Always
  <2>1. CASE policy # Always /\ (form.schedule = Permanent \/ SharedOutside(d, p, form.schedule, selected))
    <3>1. target = new
      BY <2>1 DEF Target
    <3> QED BY <3>1, <1>4, <1>5 DEF Assumptions, Document, ScheduleRecord
  <2>2. CASE policy # Always /\ ~(form.schedule = Permanent \/ SharedOutside(d, p, form.schedule, selected))
    BY <2>2 DEF Target
  <2> QED BY <2>1, <2>2
<1>7. /\ target = form.schedule /\ target # Permanent => ~SharedOutside(d, p, target, selected)
      /\ target # form.schedule /\ target # Permanent => target = new /\ d.schedules[target] = None
  <2>1. target = form.schedule /\ target # Permanent => ~SharedOutside(d, p, target, selected)
    <3>1. form.schedule # new \/ new = None
      BY <1>2 DEF Assumptions
    <3> QED BY <3>1, <1>4 DEF Target
  <2> QED BY <2>1, <1>4
<1> HIDE DEF target, selected
<1>8. /\ f \in Document /\ f.schedules[target] \in ScheduleRecord /\ f.schedules[target].policy = policy
      /\ \A s \in Schedule \ {target} : f.schedules[s] = d.schedules[s]
      /\ f.schedules[Permanent] = d.schedules[Permanent]
      /\ f.people = d.people /\ f.grants = d.grants /\ f.metadata = d.metadata /\ f.doors = d.doors
      /\ f.authority = d.authority /\ f.keypads = d.keypads /\ f.requests = d.requests
  <2>1. CASE target = Permanent
    <3>1. f = d
      BY <2>1 DEF Stored
    <3>2. [policy |-> Always, rev |-> 1] \in ScheduleRecord
      BY Constants DEF ScheduleRecord
    <3> QED BY <3>1, <3>2, <2>1, <1>5, <1>6
  <2>2. CASE target # Permanent
    <3>1. PICK rev \in Nat : f = [d EXCEPT !.schedules[target] = [policy |-> policy, rev |-> rev]]
      <4>1. CASE target = form.schedule
        <5>1. form.srev + (IF d.schedules[target].policy = policy THEN 0 ELSE 1) \in Nat
          BY <1>1
        <5> QED BY <5>1, <4>1, <2>2 DEF Stored, PutSchedule
      <4>2. CASE target # form.schedule
        BY <4>2, <2>2 DEF Stored, PutSchedule
      <4> QED BY <4>1, <4>2
    <3>2. [policy |-> policy, rev |-> rev] \in ScheduleRecord
      BY DEF ScheduleRecord
    <3>3. f \in Document
      BY <3>1, <3>2, <1>4, Puts
    <3> HIDE DEF f
    <3>4. f.schedules = [d.schedules EXCEPT ![target] = [policy |-> policy, rev |-> rev]]
      BY <3>1 DEF Document
    <3>5. /\ f.people = d.people /\ f.grants = d.grants /\ f.metadata = d.metadata /\ f.doors = d.doors
          /\ f.authority = d.authority /\ f.keypads = d.keypads /\ f.requests = d.requests
      BY <3>1 DEF Document
    <3>6. f.schedules[target] = [policy |-> policy, rev |-> rev]
      BY <3>4, <1>4 DEF Document
    <3>7. \A s \in Schedule \ {target} : f.schedules[s] = d.schedules[s]
      BY <3>4 DEF Document
    <3>8. f.schedules[Permanent] = d.schedules[Permanent]
      BY <3>7, <2>2, Constants
    <3> QED BY <3>2, <3>3, <3>5, <3>6, <3>7, <3>8
  <2> QED BY <2>1, <2>2
<1>9. e = [f EXCEPT !.people[p].default = default, !.people[p].rev = @ + 1,
             !.grants = [g \in Pair |-> IF g \in selected THEN [d.grants[g] EXCEPT !.schedule = target]
                                        ELSE d.grants[g]]]
  BY DEF SavedForm, selected, target
<1>10. default \in {target, d.people[p].default} /\ default \in Schedule
  BY <1>2, <1>4 DEF NextDefault, PersonRecord
<1> HIDE DEF default, f, e, p
<1>11. /\ e.people = [d.people EXCEPT ![p] = [d.people[p] EXCEPT !.default = default, !.rev = @ + 1]]
       /\ e.grants = [g \in Pair |-> IF g \in selected THEN [d.grants[g] EXCEPT !.schedule = target]
                                     ELSE d.grants[g]]
       /\ e.schedules = f.schedules /\ e.metadata = d.metadata /\ e.authority = d.authority
       /\ e.doors = d.doors /\ e.keypads = d.keypads /\ e.requests = d.requests
  <2>0. /\ d.people[p] \in PersonRecord /\ p \in Person /\ f.people = d.people
        /\ d.people \in [Person -> PersonRecord \cup {None}]
    BY <1>8, <1>1, <1>2 DEF Document, p
  <2>1. e.people = [f.people EXCEPT ![p].default = default, ![p].rev = @ + 1]
    BY <1>9, <1>8 DEF Document
  <2>2. e.people = [d.people EXCEPT ![p] = [d.people[p] EXCEPT !.default = default, !.rev = @ + 1]]
    BY <2>0, <2>1 DEF PersonRecord
  <2>3. /\ e.schedules = f.schedules /\ e.metadata = f.metadata /\ e.authority = f.authority
        /\ e.doors = f.doors /\ e.keypads = f.keypads /\ e.requests = f.requests
    BY <1>9, <1>8 DEF Document
  <2>4. e.grants = [g \in Pair |-> IF g \in selected THEN [d.grants[g] EXCEPT !.schedule = target]
                                   ELSE d.grants[g]]
    BY <1>9, <1>8 DEF Document
  <2> QED BY <2>2, <2>3, <2>4, <1>8
<1>12. [d.people[p] EXCEPT !.default = default, !.rev = @ + 1] \in PersonRecord
  <2>1. PICK q \in PersonRecord : q = d.people[p]
    BY <1>2
  <2>2. q.rev + 1 \in Nat
    BY DEF PersonRecord
  <2>3. [q EXCEPT !.default = default, !.rev = q.rev + 1] \in PersonRecord
    BY <1>10, <2>2 DEF PersonRecord
  <2> QED BY <2>1, <2>3
<1>13. \A g \in selected : /\ [d.grants[g] EXCEPT !.schedule = target] \in GrantRecord
                           /\ [d.grants[g] EXCEPT !.schedule = target].schedule = target
                           /\ [d.grants[g] EXCEPT !.schedule = target].cred = d.grants[g].cred
  BY <1>3, <1>4 DEF GrantRecord
<1>14. e \in Document
  <2>1. e.people \in [Person -> PersonRecord \cup {None}]
    BY <1>11, <1>12, <1>1 DEF Document, p
  <2>2. e.grants \in [Pair -> GrantRecord \cup {None}]
    BY <1>11, <1>13, <1>3 DEF Document
  <2>3. e = [people |-> e.people, schedules |-> e.schedules, grants |-> e.grants, metadata |-> e.metadata,
             authority |-> e.authority, doors |-> e.doors, keypads |-> e.keypads,
                  requests |-> e.requests]
    BY <1>9, <1>8 DEF Document
  <2> QED BY <2>1, <2>2, <2>3, <1>8, <1>11 DEF Document
<1>15. \A q \in Person : q # p => e.people[q] = d.people[q]
  BY <1>11 DEF Document
<1>16. e.people[p].default = default /\ e.people[p] # None /\ d.people[p] # None
  <2>1. e.people[p] = [d.people[p] EXCEPT !.default = default, !.rev = @ + 1]
    <3>1. p \in Person /\ d.people \in [Person -> PersonRecord \cup {None}]
      BY <1>1 DEF Document, p
    <3> QED BY <1>11, <3>1
  <2> QED BY <2>1, <1>2, <1>12 DEF PersonRecord, Assumptions
<1>17. \A g \in Pair : IF g \in selected THEN /\ d.grants[g] # None /\ e.grants[g] # None
                                             /\ e.grants[g].schedule = target
                                             /\ e.grants[g].cred = d.grants[g].cred
                       ELSE e.grants[g] = d.grants[g]
  <2>1. ASSUME NEW g \in selected
        PROVE  /\ d.grants[g] # None /\ e.grants[g] # None
               /\ e.grants[g].schedule = target /\ e.grants[g].cred = d.grants[g].cred
    <3>1. e.grants[g] = [d.grants[g] EXCEPT !.schedule = target]
      BY <1>11, <1>3
    <3>2. e.grants[g] \in GrantRecord /\ e.grants[g].schedule = target /\ e.grants[g].cred = d.grants[g].cred
      BY <3>1, <1>13
    <3> QED BY <3>2, <1>3, Constants
  <2>2. \A g \in Pair \ selected : e.grants[g] = d.grants[g]
    BY <1>11
  <2> QED BY <2>1, <2>2
<1>18. target # Permanent =>
     \A g \in Pair \ selected : d.grants[g] # None => d.grants[g].schedule # target
  <2>1. CASE target = form.schedule
    BY <2>1, <1>7 DEF SharedOutside
  <2>2. CASE target # form.schedule
    BY <2>2, <1>7 DEF Valid, SchedulesExist
  <2> QED BY <2>1, <2>2
<1>19. \A s \in Schedule : d.schedules[s] # None => e.schedules[s] # None
  BY <1>8, <1>11, Constants
<1>20. e.schedules[target] # None
  BY <1>8, <1>11, Constants
<1>21. \A q \in Person : /\ (e.people[q] = None <=> d.people[q] = None)
                         /\ d.people[q] # None => e.people[q].default \in {target, d.people[q].default}
  BY <1>10, <1>15, <1>16
<1>22. target \notin {Permanent, form.schedule} => d.schedules[target] = None
  BY <1>7
<1> QED BY <1>4, <1>8, <1>11, <1>14, <1>17, <1>18, <1>19, <1>20, <1>21, <1>22 DEF e, target, selected, p

\* A form is saved as a valid document.
LEMMA FormValid ==
  ASSUME Assumptions, NEW d \in Document, Valid(d), NEW form \in CallRecord, form.pc = "form",
         NEW selection \in {None} \cup SUBSET Door, NEW policy \in Policy,
         NEW new \in Schedule \cup {None}, MaySave(d, form, selection),
         Target(d, form, Selected(d, form.person, selection), policy, new) # None,
         new # None => d.schedules[new] = None
  PROVE  Valid(SavedForm(d, form, selection, policy, new))
<1> DEFINE selected == Selected(d, form.person, selection)
           target == Target(d, form, selected, policy, new)
           e == SavedForm(d, form, selection, policy, new)
<1>1. /\ e \in Document /\ target \in Schedule /\ e.schedules[target] # None
      /\ e.schedules[Permanent] = d.schedules[Permanent]
      /\ \A s \in Schedule : d.schedules[s] # None => e.schedules[s] # None
      /\ \A g \in Pair : IF g \in selected THEN /\ d.grants[g] # None /\ e.grants[g] # None
                                               /\ e.grants[g].schedule = target
                                               /\ e.grants[g].cred = d.grants[g].cred
                         ELSE e.grants[g] = d.grants[g]
      /\ \A p \in Person : (e.people[p] = None <=> d.people[p] = None)
      /\ \A p \in Person : d.people[p] # None =>
           e.people[p].default \in {target, d.people[p].default}
      /\ e.metadata = d.metadata /\ e.authority = d.authority /\ e.doors = d.doors
      /\ e.keypads = d.keypads /\ e.requests = d.requests
  BY FormSaved, SMTT(20)
<1> HIDE DEF e, target, selected
<1>2. SchedulesExist(e)
  <2>1. \A p \in Person : e.people[p] # None =>
          d.people[p] # None /\ d.people[p].default \in Schedule /\ d.schedules[d.people[p].default] # None
    BY <1>1 DEF Document, PersonRecord, Valid, SchedulesExist
  <2>2. \A g \in Pair : d.grants[g] # None =>
          d.grants[g].schedule \in Schedule /\ d.schedules[d.grants[g].schedule] # None
    BY DEF Document, GrantRecord, Valid, SchedulesExist
  <2> QED BY <2>1, <2>2, <1>1 DEF SchedulesExist, Valid
<1>3. \A g \in Pair : e.grants[g] # None <=> d.grants[g] # None
  BY <1>1
<1>4. OwnersExist(e)
  BY <1>1, <1>3, Pairs DEF Valid, OwnersExist
<1>5. ASSUME NEW p \in Person, e.authority[p] # None PROVE ClaimAgrees(e, p)
  <2>1. ClaimAgrees(d, p)
    BY <1>1, <1>5 DEF Valid
  <2>2. \A g \in Pair : e.grants[g] # None => e.grants[g].cred = d.grants[g].cred
    BY <1>1
  <2> QED BY <2>1, <2>2, <1>1, <1>3 DEF ClaimAgrees, Names
<1> QED BY <1>2, <1>4, <1>5 DEF Valid, e

\* What calls do that provision nothing.
Elsewhere(c) ==
  /\ doc'.requests = doc.requests /\ doc'.authority = doc.authority
  /\ \A p \in Person : doc.people[p] # None => doc'.people[p] # None
  /\ \A p \in Person : doc'.people[p] # None => doc.people[p] # None \/ p \notin drawn
  /\ drawn \subseteq drawn'
  /\ \A p \in Person : doc'.people[p] # None => p \in drawn'
  /\ \A s \in Schedule : doc'.schedules[s] # None => s \in drawn'

\* Serving people, schedules and grants keeps the document valid, and draws whom it adds.
LEMMA ServeDocuments ==
  ASSUME Assumptions, DocOK, Drawn, CallTypes, NEW c \in Caller, Serve(c)
  PROVE  DocOK' /\ Elsewhere(c)
<1> DEFINE Done == DocOK' /\ Elsewhere(c)
<1>0. call[c] \in CallRecord
  BY DEF CallTypes
<1> USE DEF DocOK, CallTypes
<1>1. ASSUME NEW p \in Person, CreatePerson(c, p) PROVE Done
  <2>1. doc.people[p] = None /\ doc' = AddPerson(doc, p, Permanent) /\ drawn' = drawn \cup {p}
    BY <1>1 DEF CreatePerson, Drawn
  <2>2. DocOK'
    BY <2>1, ValidWithPerson
  <2>3. /\ doc'.requests = doc.requests /\ doc'.authority = doc.authority /\ doc'.schedules = doc.schedules
        /\ \A q \in Person : q # p => doc'.people[q] = doc.people[q]
    BY <2>1 DEF AddPerson, Document
  <2>4. p \notin drawn
    BY <1>1 DEF CreatePerson
  <2> QED BY <2>1, <2>2, <2>3, <2>4 DEF Elsewhere, Drawn
<1>2. ASSUME doc' = doc, drawn' = drawn PROVE Done
  BY <1>2 DEF Elsewhere, Drawn
<1>3. ASSUME WritePerson(c) PROVE Done
  <2> DEFINE p == call[c].person
             updated == [call[c].copy EXCEPT !.enabled = ~@, !.rev = doc.people[p].rev + 1]
  <2>1. CASE doc.people[p] # None /\ Valid(UpdatePerson(doc, p, updated))
    <3>1. p \in Person /\ call[c].copy \in PersonRecord
      BY <1>0, <1>3, Shapes DEF WritePerson, At
    <3>2. doc.people[p].rev + 1 \in Nat
      BY <3>1, <2>1 DEF Document, PersonRecord
    <3>3. updated \in PersonRecord
      BY <3>1, <3>2 DEF PersonRecord
    <3> HIDE DEF updated, p
    <3>4. doc' = [doc EXCEPT !.people[p] = updated] /\ drawn' = drawn /\ Valid(doc')
      BY <1>3, <2>1 DEF WritePerson, Saves, UpdatePerson, updated, p
    <3>5. doc' \in Document
      BY <3>1, <3>3, <3>4, Puts
    <3>6. updated # None
      BY <3>3, Constants
    <3>7. doc'.people = [doc.people EXCEPT ![p] = updated] /\ doc'.authority = doc.authority
          /\ doc'.requests = doc.requests /\ doc'.schedules = doc.schedules
      BY <3>4 DEF Document
    <3> QED BY <3>1, <3>4, <3>5, <3>6, <3>7, <2>1, ZenonT(20) DEF Elsewhere, Drawn, Document
  <2>2. CASE ~(doc.people[p] # None /\ Valid(UpdatePerson(doc, p, updated)))
    BY <1>2, <1>3, <2>2 DEF WritePerson, Saves
  <2> QED BY <2>1, <2>2
<1>4. ASSUME NEW s \in Schedule, NEW v \in ScheduleRecord \cup {None}, s # Permanent, Unowned(doc, s),
             doc' = [doc EXCEPT !.schedules[s] = v], drawn' = drawn \/ drawn' = drawn \cup {s},
             s \in drawn'
      PROVE  Done
  <2>1. DocOK'
    BY <1>4, ValidWithSchedule
  <2>2. doc'.people = doc.people /\ doc'.authority = doc.authority /\ doc'.requests = doc.requests
        /\ \A q \in Schedule : q # s => doc'.schedules[q] = doc.schedules[q]
    BY <1>4 DEF Document
  <2> QED BY <2>1, <2>2, <1>4 DEF Elsewhere, Drawn
<1>5. ASSUME NEW s \in Schedule, NEW policy \in Policy, CreateSchedule(c, s, policy) PROVE Done
  <2>1. s \notin drawn /\ drawn' = drawn \cup {s} /\ doc.schedules[s] = None
    BY <1>5 DEF CreateSchedule, Drawn
  <2>2. s # Permanent
    BY <2>1, Constants DEF Valid, SchedulesExist, Document, ScheduleRecord
  <2>3. Unowned(doc, s)
    BY <2>1, NobodyHas
  <2>4. [policy |-> policy, rev |-> 1] \in ScheduleRecord
    BY DEF ScheduleRecord
  <2>5. doc' = [doc EXCEPT !.schedules[s] = [policy |-> policy, rev |-> 1]]
    BY <1>5 DEF CreateSchedule, PutSchedule
  <2> QED BY <2>1, <2>2, <2>3, <2>4, <2>5, <1>4
<1>6. ASSUME NEW policy \in Policy, WriteSchedule(c, policy) PROVE Done
  <2> DEFINE s == call[c].schedule
             rev == call[c].copy.rev + (IF policy = call[c].copy.policy THEN 0 ELSE 1)
  <2>1. CASE MayChange(doc, s)
    <3>1. s \in Schedule /\ call[c].copy \in ScheduleRecord
      BY <1>0, <1>6, Shapes DEF WriteSchedule, At
    <3>2. rev \in Nat
      BY <3>1 DEF ScheduleRecord
    <3> HIDE DEF rev, s
    <3>3. doc' = [doc EXCEPT !.schedules[s] = [policy |-> policy, rev |-> rev]] /\ drawn' = drawn
      BY <1>6, <2>1 DEF WriteSchedule, PutSchedule, rev, s
    <3>4. [policy |-> policy, rev |-> rev] \in ScheduleRecord
      BY <3>2 DEF ScheduleRecord
    <3>5. s # Permanent /\ Unowned(doc, s) /\ s \in drawn'
      BY <3>1, <3>3, <2>1 DEF MayChange, Drawn
    <3> QED BY <3>1, <3>3, <3>4, <3>5, <1>4
  <2>2. CASE ~MayChange(doc, s)
    BY <1>2, <1>6, <2>2 DEF WriteSchedule
  <2> QED BY <2>1, <2>2
<1>7. ASSUME NEW s \in Schedule, DeleteSchedule(c, s) PROVE Done
  <2>1. doc' = [doc EXCEPT !.schedules[s] = None] /\ drawn' = drawn
    BY <1>7 DEF DeleteSchedule, RemoveSchedule
  <2>2. s # Permanent /\ Unowned(doc, s) /\ s \in drawn'
    BY <1>7, <2>1 DEF DeleteSchedule, MayChange, Drawn
  <2> QED BY <2>1, <2>2, <1>4
<1>8. ASSUME NEW selection \in {None} \cup SUBSET Door, NEW policy \in Policy,
             NEW new \in Schedule \cup {None}, SaveForm(c, selection, policy, new)
      PROVE  Done
  <2> DEFINE target == Target(doc, call[c], Selected(doc, call[c].person, selection), policy, new)
             e == SavedForm(doc, call[c], selection, policy, new)
  <2>1. /\ call[c].pc = "form" /\ MaySave(doc, call[c], selection)
        /\ target # None /\ (new # None => target = new /\ new \notin drawn)
        /\ doc' = e /\ drawn' = drawn \cup {target}
    BY <1>8 DEF SaveForm, At
  <2>2. new # None => doc.schedules[new] = None
    BY <2>1 DEF Drawn
  <2>3. /\ e \in Document /\ e.authority = doc.authority /\ e.requests = doc.requests
        /\ \A p \in Person : (e.people[p] = None <=> doc.people[p] = None)
        /\ \A s \in Schedule \ {target} : e.schedules[s] = doc.schedules[s]
    BY <2>1, <2>2, <1>0, FormSaved
  <2>4. Valid(e)
    BY <2>1, <2>2, <1>0, FormValid
  <2> HIDE DEF e, target
  <2> QED BY <2>1, <2>3, <2>4 DEF Elsewhere, Drawn
<1>9. ASSUME WriteGrant(c) PROVE Done
  <2> DEFINE g == call[c].grant
  <2>1. g \in Pair /\ call[c].copy \in GrantRecord
    BY <1>0, <1>9, Shapes DEF WriteGrant, At
  <2>2. CASE Valid(UpsertGrant(doc, g, call[c].copy))
    <3>1. doc' = [doc EXCEPT !.grants[g] = call[c].copy] /\ drawn' = drawn /\ Valid(doc')
      BY <1>9, <2>2 DEF WriteGrant, Saves, UpsertGrant
    <3>2. doc' \in Document
      BY <3>1, <2>1, Puts
    <3>3. doc'.people = doc.people /\ doc'.authority = doc.authority
          /\ doc'.requests = doc.requests /\ doc'.schedules = doc.schedules
      BY <3>1 DEF Document
    <3> QED BY <3>1, <3>2, <3>3 DEF Elsewhere, Drawn
  <2>3. CASE ~Valid(UpsertGrant(doc, g, call[c].copy))
    BY <1>2, <1>9, <2>3 DEF WriteGrant, Saves
  <2> QED BY <2>2, <2>3
<1>10. ASSUME NEW g \in Pair, doc' = RemoveGrant(doc, g) \/ doc' = RemoveMetadata(doc, g), drawn' = drawn
       PROVE  Done
  <2>1. doc' \in Document
    BY <1>10, Puts DEF RemoveGrant, RemoveMetadata
  <2>2. /\ doc'.people = doc.people /\ doc'.authority = doc.authority /\ doc'.doors = doc.doors
        /\ doc'.requests = doc.requests /\ doc'.schedules = doc.schedules /\ doc'.keypads = doc.keypads
        /\ \A h \in Pair : doc'.grants[h] \in {None, doc.grants[h]}
        /\ \A h \in Pair : doc'.metadata[h] \in {None, doc.metadata[h]}
    <3>1. CASE doc' = RemoveGrant(doc, g)
      BY <3>1 DEF RemoveGrant, Document
    <3>2. CASE doc' = RemoveMetadata(doc, g)
      BY <3>2 DEF RemoveMetadata, Document
    <3> QED BY <3>1, <3>2, <1>10
  <2>3. \A p \in Person : doc.people[p] = None =>
          doc.authority[p] = None /\ \A x \in Door : doc.grants[<<p, x>>] = None
    BY Pairs DEF Valid, OwnersExist
  <2>4. \A p \in Person : doc'.people[p] = None =>
          doc'.authority[p] = None /\ \A x \in Door : doc'.grants[<<p, x>>] = None
    BY <2>2, <2>3, Pairs
  <2>5. Valid(doc')
    <3>1. \A h \in Pair : doc'.metadata[h] # None =>
         doc.metadata[h] # None /\ doc'.metadata[h].cred = doc.metadata[h].cred
      BY <2>2
    <3> QED BY <2>1, <2>2, <2>4, <3>1, ValidAfterRemoval, ZenonT(20)
  <2> QED BY <2>1, <2>2, <2>5, <1>10 DEF Elsewhere, Drawn
<1>11. ASSUME NEW g \in Pair, ForgetGrant(c, g) PROVE Done
  BY <1>10, <1>11 DEF ForgetGrant
<1>12. ASSUME ForgetMetadata(c) PROVE Done
  <2>1. PICK g \in Pair : g = call[c].grant
    BY <1>0, <1>12, Shapes DEF ForgetMetadata, At
  <2>2. doc' = RemoveMetadata(doc, g) /\ drawn' = drawn
    BY <2>1, <1>12 DEF ForgetMetadata
  <2> HIDE DEF Done
  <2> QED BY <2>2, <1>10
<1> QED
  <2>1. ASSUME NEW p \in Person, ReadPerson(c, p) PROVE Done
    BY <2>1, <1>2 DEF ReadPerson
  <2>2. ASSUME NEW s \in Schedule, ReadSchedule(c, s) PROVE Done
    BY <2>2, <1>2 DEF ReadSchedule
  <2>3. ASSUME NEW p \in Person, NEW s \in Schedule, OpenForm(c, p, s) PROVE Done
    BY <2>3, <1>2 DEF OpenForm
  <2>4. ASSUME NEW g \in Pair, ReadGrant(c, g) PROVE Done
    BY <2>4, <1>2 DEF ReadGrant
  <2>5. ASSUME CloseForm(c) PROVE Done
    BY <2>5, <1>2 DEF CloseForm
  <2> HIDE DEF Done
  <2>6. Done
    BY <1>1, <1>3, <1>5, <1>6, <1>7, <1>8, <1>9, <1>11, <1>12, <2>1, <2>2, <2>3, <2>4, <2>5 DEF Serve
  <2> QED BY <2>6 DEF Done

\* Serving doors and keypads keeps the calls coherent.
LEMMA EquipTurns ==
  ASSUME Assumptions, DocOK, CallTypes, Calls, NEW c \in Caller, Equip(c)
  PROVE  Turn(c) /\ ~Busy(call[c]) /\ ~Busy(call'[c])
<1> DEFINE Done == Turn(c) /\ ~Busy(call[c]) /\ ~Busy(call'[c])
<1>0. call[c] \in CallRecord /\ Coherent(call[c])
  BY DEF CallTypes, Calls
<1> USE DEF CallTypes, DocOK
<1>1. ASSUME NEW x \in Door, StartEnrolment(c, x) PROVE Done
  <2>1. /\ Starts(c)
        /\ call'[c] = [pc |-> "enrol", door |-> x, rev |-> Revision(x), doors |-> {x}]
    BY <1>1 DEF StartEnrolment, Begins, Becomes, Starts
  <2>2. Revision(x) \in Nat
    BY <1>1 DEF Revision, Document, DoorRecord
  <2>3. call'[c] \in CallRecord /\ Coherent(call'[c])
    BY <2>1, <2>2 DEF CallRecord, Coherent, ProvisionPc, DoorPc
  <2>4. call'[c].pc # "down" /\ ~Busy(call'[c]) /\ ~Busy(call[c])
    BY <2>1 DEF Busy, ProvisionPc, Starts, At
  <2> QED BY <2>1, <2>3, <2>4, Starting DEF Sets, Gives
<1>2. ASSUME NEW x \in Door, ReadPolicy(c, x) PROVE Done
  <2>1. /\ Starts(c)
        /\ call'[c] = [pc |-> "policy", door |-> x, rev |-> Revision(x), doors |-> {x}]
    BY <1>2 DEF ReadPolicy, Begins, Becomes, Starts
  <2>2. Revision(x) \in Nat /\ Revision(x) # 0
    BY <1>2 DEF ReadPolicy, Revision, Document, DoorRecord
  <2>3. call'[c] \in CallRecord /\ Coherent(call'[c])
    BY <2>1, <2>2 DEF CallRecord, Coherent, ProvisionPc, DoorPc
  <2>4. call'[c].pc # "down" /\ ~Busy(call'[c]) /\ ~Busy(call[c])
    BY <2>1 DEF Busy, ProvisionPc, Starts, At
  <2> QED BY <2>1, <2>3, <2>4, Starting DEF Sets, Gives
<1>3. ASSUME NEW x \in Door, ReadEnrolment(c, x) PROVE Done
  <2>1. /\ Starts(c)
        /\ call'[c] = [pc |-> "enrolment", door |-> x, copy |-> doc.doors[x], doors |-> {x}]
    BY <1>3 DEF ReadEnrolment, Begins, Becomes, Starts
  <2>2. doc.doors[x] \in DoorRecord
    BY <1>3 DEF ReadEnrolment, Managed, Document
  <2>3. call'[c] \in CallRecord /\ Coherent(call'[c])
    BY <2>1, <2>2 DEF CallRecord, Coherent, ProvisionPc, DoorPc
  <2>4. call'[c].pc # "down" /\ ~Busy(call'[c]) /\ ~Busy(call[c])
    BY <2>1 DEF Busy, ProvisionPc, Starts, At
  <2> QED BY <2>1, <2>3, <2>4, Starting DEF Sets, Gives
<1>4. ASSUME NEW x \in Door, StartRemoval(c, x) PROVE Done
  <2>1. /\ Starts(c)
        /\ call'[c] = [pc |-> "keypads", door |-> x, doors |-> {x}]
    BY <1>4 DEF StartRemoval, Begins, Becomes, Starts
  <2>2. {x} \in SUBSET Door
    OBVIOUS
  <2>3. call'[c] \in CallRecord /\ Coherent(call'[c])
    BY <2>1, <2>2 DEF CallRecord, Coherent, ProvisionPc, DoorPc
  <2>4. call'[c].pc # "down" /\ ~Busy(call'[c]) /\ ~Busy(call[c])
    BY <2>1 DEF Busy, ProvisionPc, Starts, At
  <2> QED BY <2>1, <2>3, <2>4, Starting DEF Sets, Gives
<1>5. ASSUME NEW k \in Keypad, NEW x \in Door, StartKeypad(c, k, x) PROVE Done
  <2>1. /\ Starts(c)
        /\ call'[c] = Capability("expose", k, x, TRUE)
    BY <1>5 DEF StartKeypad, Begins, Becomes, Starts
  <2>2. doc.doors[x] \in DoorRecord
    BY <1>5 DEF StartKeypad, MaySetCapability, Managed, Document
  <2>3. call'[c] \in CallRecord /\ Coherent(call'[c])
    BY <2>1, <2>2 DEF CallRecord, Coherent, ProvisionPc, DoorPc, Capability
  <2>4. call'[c].pc # "down" /\ ~Busy(call'[c]) /\ ~Busy(call[c])
    BY <2>1 DEF Busy, ProvisionPc, Starts, At, Capability
  <2> QED BY <2>1, <2>3, <2>4, Starting DEF Sets, Gives
<1>6. ASSUME NEW k \in Keypad, StartUnkeypad(c, k) PROVE Done
  <2>1. PICK x, last : /\ x = doc.keypads[k].door /\ last = (OtherKeypads(doc, k, x) = {})
                       /\ last \in BOOLEAN
    OBVIOUS
  <2>2. /\ Starts(c)
        /\ call'[c] = [pc |-> IF last THEN "withdraw" ELSE "unkeypad", keypad |-> k, door |-> x,
                       enabled |-> ~last, copy |-> doc.doors[x], doors |-> {x}]
    BY <1>6, <2>1 DEF StartUnkeypad, Begins, Becomes, Starts, Capability
  <2>3. doc.keypads[k] \in KeypadRecord
    BY <1>6 DEF StartUnkeypad, Document
  <2>4. x \in Door /\ doc.doors[x] \in DoorRecord
    BY <2>1, <2>3 DEF KeypadRecord, Document, Valid, OwnersExist, StartUnkeypad, Assumptions
  <2>5. call'[c] \in CallRecord /\ Coherent(call'[c])
    <3>1. CASE last = TRUE
      <4>1. call'[c] = [pc |-> "withdraw", keypad |-> k, door |-> x,
                        enabled |-> FALSE, copy |-> doc.doors[x], doors |-> {x}]
        BY <3>1, <2>2
      <4> QED BY <4>1, <2>4 DEF CallRecord, Coherent, ProvisionPc, DoorPc
    <3>2. CASE last = FALSE
      <4>1. call'[c] = [pc |-> "unkeypad", keypad |-> k, door |-> x,
                        enabled |-> TRUE, copy |-> doc.doors[x], doors |-> {x}]
        BY <3>2, <2>2
      <4> QED BY <4>1, <2>4 DEF CallRecord, Coherent, ProvisionPc, DoorPc
    <3> QED BY <2>1, <3>1, <3>2
  <2>6. call'[c].pc # "down" /\ ~Busy(call'[c]) /\ ~Busy(call[c])
    BY <2>2 DEF Busy, ProvisionPc, Starts, At
  <2> QED BY <2>2, <2>5, <2>6, Starting DEF Sets, Gives
<1>7. ASSUME NEW k \in Keypad, NEW x \in Door, NEW on \in BOOLEAN, ReadKeypad(c, k, x, on) PROVE Done
  <2>1. /\ Starts(c)
        /\ call'[c] = [pc |-> "update", keypad |-> k, door |-> x, enabled |-> on,
                       doors |-> {doc.keypads[k].door, x}]
    BY <1>7 DEF ReadKeypad, Begins, Becomes, Starts
  <2>2. doc.keypads[k].door \in Door
    BY <1>7 DEF ReadKeypad, Document, KeypadRecord
  <2>3. call'[c] \in CallRecord /\ Coherent(call'[c])
    BY <2>1, <2>2 DEF CallRecord, Coherent, ProvisionPc, DoorPc
  <2>4. call'[c].pc # "down" /\ ~Busy(call'[c]) /\ ~Busy(call[c])
    BY <2>1 DEF Busy, ProvisionPc, Starts, At
  <2> QED BY <2>1, <2>3, <2>4, Starting DEF Sets, Gives
<1>8. ASSUME FinishEnrolment(c) PROVE Done
  <2>1. Becomes(c, Free) /\ met' = met /\ call[c].pc = "enrol"
    BY <1>8 DEF FinishEnrolment, At
  <2> QED BY <2>1, Ending DEF Busy, ProvisionPc, Free
<1>9. ASSUME WritePolicy(c) PROVE Done
  <2>1. Becomes(c, Free) /\ met' = met /\ call[c].pc = "policy"
    BY <1>9 DEF WritePolicy, At
  <2> QED BY <2>1, Ending DEF Busy, ProvisionPc, Free
<1>10. ASSUME WriteEnrolment(c) PROVE Done
  <2>1. Becomes(c, Free) /\ met' = met /\ call[c].pc = "enrolment"
    BY <1>10 DEF WriteEnrolment, At
  <2> QED BY <2>1, Ending DEF Busy, ProvisionPc, Free
<1>11. ASSUME RemoveDoor(c) PROVE Done
  <2>1. Becomes(c, Free) /\ met' = met /\ call[c].pc = "depart"
    BY <1>11 DEF RemoveDoor, At
  <2> QED BY <2>1, Ending DEF Busy, ProvisionPc, Free
<1>12. ASSUME RecordKeypad(c) PROVE Done
  <2>1. Becomes(c, Free) /\ met' = met /\ call[c].pc = "keypad"
    BY <1>12 DEF RecordKeypad, At
  <2> QED BY <2>1, Ending DEF Busy, ProvisionPc, Free
<1>13. ASSUME ForgetKeypad(c) PROVE Done
  <2>1. Becomes(c, Free) /\ met' = met /\ call[c].pc = "unkeypad"
    BY <1>13 DEF ForgetKeypad, At
  <2> QED BY <2>1, Ending DEF Busy, ProvisionPc, Free
<1>14. ASSUME ForgetFails(c) PROVE Done
  <2>1. Becomes(c, Free) /\ met' = met /\ call[c].pc = "unkeypad"
    BY <1>14 DEF ForgetFails, At
  <2> QED BY <2>1, Ending DEF Busy, ProvisionPc, Free
<1>15. ASSUME WriteKeypad(c) PROVE Done
  <2>1. Becomes(c, Free) /\ met' = met /\ call[c].pc = "update"
    BY <1>15 DEF WriteKeypad, At
  <2> QED BY <2>1, Ending DEF Busy, ProvisionPc, Free
<1>16. ASSUME RemoveKeypads(c) PROVE Done
  <2>1. /\ call' = [call EXCEPT ![c] = call'[c]] /\ met' = met
        /\ call'[c] = [call[c] EXCEPT !.pc = "depart"] /\ call[c].pc = "keypads"
    BY <1>16 DEF RemoveKeypads, At, Goes, Becomes
  <2>2. call[c] \in [pc : {"keypads", "depart"}, door : Door, doors : SUBSET Door]
        /\ call[c].door \in call[c].doors
    BY <2>1, <1>0, Shapes DEF Coherent, DoorPc
  <2>3. /\ call'[c] \in [pc : {"keypads", "depart"}, door : Door, doors : SUBSET Door]
        /\ call'[c].door \in call'[c].doors /\ call'[c].doors = call[c].doors
        /\ call'[c].pc = "depart"
    BY <2>1, <2>2
  <2>4. call'[c] \in CallRecord
    BY <2>3 DEF CallRecord
  <2>5. Coherent(call'[c]) /\ ~Busy(call'[c]) /\ ~Busy(call[c])
    BY <2>1, <2>3 DEF Coherent, ProvisionPc, DoorPc, Busy
  <2>6. GoesOn(c)
    BY <2>1, <2>3, <2>4, <1>0, Fields DEF GoesOn
  <2> QED BY <2>1, <2>3, <2>4, <2>5, <2>6, GoingOn DEF Sets, Gives
<1>17. ASSUME NEW pc \in {"expose", "withdraw"}, NEW next \in {"keypad", "unkeypad"}, At(c, pc),
             pc = "expose" <=> next = "keypad", SetCapability(c, next)
      PROVE  Done
  <2>1. CASE Becomes(c, Free)
    <3>1. met' = met /\ call[c].pc = pc
      BY <1>17 DEF SetCapability, At
    <3> QED BY <2>1, <3>1, Ending DEF Busy, ProvisionPc, Free
  <2>2. CASE Goes(c, next)
    <3>1. /\ call' = [call EXCEPT ![c] = call'[c]] /\ met' = met
          /\ call'[c] = [call[c] EXCEPT !.pc = next] /\ call[c].pc = pc
      BY <1>17, <2>2 DEF SetCapability, At, Goes, Becomes
    <3> DEFINE Set == [pc : {"expose", "keypad", "withdraw", "unkeypad"}, keypad : Keypad, door : Door,
                       enabled : BOOLEAN, copy : DoorRecord, doors : SUBSET Door]
    <3>2. /\ call[c] \in Set /\ call[c].door \in call[c].doors
          /\ pc = "expose" => call[c].enabled
      BY <3>1, <1>0, Shapes DEF Coherent, DoorPc
    <3>3. /\ call'[c] \in Set /\ call'[c].pc = next
          /\ call'[c].door \in call'[c].doors /\ call'[c].doors = call[c].doors
          /\ call'[c].enabled = call[c].enabled
      BY <3>1, <3>2
    <3>4. call'[c] \in CallRecord
      BY <3>3 DEF CallRecord
    <3>5. Coherent(call'[c]) /\ ~Busy(call'[c]) /\ ~Busy(call[c])
      BY <1>17, <3>1, <3>2, <3>3 DEF Coherent, ProvisionPc, DoorPc, Busy
    <3>6. GoesOn(c)
      BY <3>1, <3>3, <3>4, <1>0, Fields DEF GoesOn
    <3> QED BY <3>1, <3>3, <3>4, <3>5, <3>6, GoingOn DEF Sets, Gives
  <2> QED BY <1>17, <2>1, <2>2 DEF SetCapability
<1>18. ASSUME Expose(c) \/ Withdraw(c) PROVE Done
  BY <1>18, <1>17 DEF Expose, Withdraw
<1> HIDE DEF Done
<1>19. Done
  BY <1>1, <1>2, <1>3, <1>4, <1>5, <1>6, <1>7, <1>8, <1>9, <1>10, <1>11, <1>12, <1>13, <1>14, <1>15,
     <1>16, <1>17, <1>18 DEF Equip
<1> QED BY <1>19 DEF Done

\* Doors and keypads apart, the document stays.
Furnished ==
  /\ doc'.people = doc.people /\ doc'.schedules = doc.schedules /\ doc'.grants = doc.grants
  /\ doc'.metadata = doc.metadata /\ doc'.authority = doc.authority /\ doc'.requests = doc.requests

\* Changing doors and keypads keeps a document valid as long as no door goes that a keypad needs.
LEMMA FurnishedDocument ==
  ASSUME Assumptions, DocOK, Furnished, doc' \in Document,
         \A x \in Door : doc.doors[x] # None => doc'.doors[x] # None,
         \A k \in Keypad : doc'.keypads[k] \in {None, doc.keypads[k]}
  PROVE  DocOK'
<1>1. \A p \in Person : doc'.people[p] = None =>
        doc'.authority[p] = None /\ \A x \in Door : doc'.grants[<<p, x>>] = None
  BY Pairs DEF Furnished, DocOK, Valid, OwnersExist
<1>2. /\ \A p \in Person : doc'.people[p] # None =>
           doc.people[p] # None /\ doc'.people[p].default = doc.people[p].default
      /\ \A g \in Pair : doc'.grants[g] \in {None, doc.grants[g]}
      /\ \A g \in Pair : doc'.metadata[g] # None =>
           doc.metadata[g] # None /\ doc'.metadata[g].cred = doc.metadata[g].cred
      /\ \A p \in Person : doc'.authority[p] \in {None, doc.authority[p]}
      /\ doc'.schedules = doc.schedules
  BY DEF Furnished
<1>3. Valid(doc')
  BY <1>1, <1>2, ValidAfterRemoval DEF DocOK
<1> QED BY <1>3 DEF DocOK

\* Serving doors and keypads keeps the document valid and everything else in it.
LEMMA EquipDocuments ==
  ASSUME Assumptions, DocOK, CallTypes, Calls, NEW c \in Caller, Equip(c)
  PROVE  DocOK' /\ Furnished /\ drawn \subseteq drawn' /\ UNCHANGED <<hours>>
<1> DEFINE Done == DocOK' /\ Furnished /\ drawn \subseteq drawn' /\ UNCHANGED <<hours>>
<1>0. call[c] \in CallRecord /\ Coherent(call[c])
  BY DEF CallTypes, Calls
<1>1. ASSUME doc' = doc, drawn \subseteq drawn', UNCHANGED <<hours>> PROVE Done
  BY <1>1 DEF Furnished, DocOK
<1>2. ASSUME NEW x \in Door, NEW v \in DoorRecord, doc' = [doc EXCEPT !.doors[x] = v],
             UNCHANGED <<drawn, hours>>
      PROVE  Done
  <2>1. doc' \in Document
    BY <1>2, Puts DEF DocOK
  <2>2. /\ Furnished /\ doc'.keypads = doc.keypads
        /\ \A y \in Door : y # x => doc'.doors[y] = doc.doors[y]
        /\ doc'.doors[x] = v
    BY <1>2 DEF Furnished, DocOK, Document
  <2>3. v # None
    BY Constants
  <2>4. /\ \A y \in Door : doc.doors[y] # None => doc'.doors[y] # None
        /\ \A k \in Keypad : doc'.keypads[k] \in {None, doc.keypads[k]}
    BY <2>2, <2>3
  <2> QED BY <2>1, <2>2, <2>4, <1>2, FurnishedDocument
<1>3. ASSUME NEW x \in Door, NEW rev, NEW v \in DoorRecord, WriteDoor(x, rev, v),
             UNCHANGED <<drawn, hours>>
      PROVE  Done
  <2> HIDE DEF Done
  <2>1. CASE MayUpsertDoor(doc, x, rev)
    <3>1. doc' = [doc EXCEPT !.doors[x] = v]
      BY <1>3, <2>1 DEF WriteDoor, UpsertDoor
    <3> QED BY <3>1, <1>2, <1>3
  <2>2. CASE ~MayUpsertDoor(doc, x, rev)
    BY <2>2, <1>1, <1>3 DEF WriteDoor
  <2> QED BY <2>1, <2>2
<1>4. ASSUME NEW x \in Door, doc.doors[x] # None PROVE doc.doors[x] \in DoorRecord
  BY <1>4 DEF DocOK, Document
<1>5. \A x \in Door : Revision(x) \in Nat
  BY DEF Revision, DocOK, Document, DoorRecord
<1>6. ASSUME FinishEnrolment(c) PROVE Done
  <2> HIDE DEF Done
  <2>1. PICK x \in Door : x = call[c].door
    BY <1>0, <1>6, Shapes DEF FinishEnrolment, At
  <2>2. NextRevision(x) \in Nat \ {0}
    BY <1>4, <1>5 DEF NextRevision, Revision, DoorRecord
  <2>6. [managed |-> TRUE, pin |-> x \in Discovered, rev |-> NextRevision(x)] \in DoorRecord
    BY <2>2 DEF DoorRecord
  <2>3. PICK rev : rev = call[c].rev
    OBVIOUS
  <2>4. PICK v \in DoorRecord : v = [managed |-> TRUE, pin |-> x \in Discovered, rev |-> NextRevision(x)]
    BY <2>6
  <2>5. WriteDoor(x, rev, v) /\ UNCHANGED <<drawn, hours>>
    BY <1>6, <2>1, <2>3, <2>4 DEF FinishEnrolment
  <2> QED BY <2>5, <1>3
<1>7. ASSUME WritePolicy(c) PROVE Done
  <2> HIDE DEF Done
  <2>1. PICK x \in Door : x = call[c].door
    BY <1>0, <1>7, Shapes DEF WritePolicy, At
  <2>2. UNCHANGED <<drawn, hours>>
    BY <1>7 DEF WritePolicy, others
  <2>3. CASE call[c].rev = Revision(x)
    <3>1. doc.doors[x] # None
      BY <1>0, <1>7, <2>1, <2>3 DEF WritePolicy, Revision, Coherent, At
    <3>2. PICK w \in DoorRecord : w = doc.doors[x]
      BY <3>1, <1>4
    <3>3. [w EXCEPT !.rev = @ + 1] \in DoorRecord
      BY DEF DoorRecord
    <3>4. doc' = [doc EXCEPT !.doors[x] = [w EXCEPT !.rev = @ + 1]]
      BY <1>7, <2>1, <2>3, <3>2 DEF WritePolicy, DocOK, Document
    <3> QED BY <3>3, <3>4, <2>2, <1>2
  <2>4. CASE call[c].rev # Revision(x)
    BY <1>1, <1>7, <2>1, <2>2, <2>4 DEF WritePolicy
  <2> QED BY <2>3, <2>4
<1>8. ASSUME WriteEnrolment(c) PROVE Done
  <2> HIDE DEF Done
  <2>1. PICK x \in Door, rev \in Nat,
       v \in DoorRecord : x = call[c].door /\ rev = call[c].copy.rev /\ v = call[c].copy
    BY <1>0, <1>8, Shapes DEF WriteEnrolment, At, DoorRecord
  <2>2. WriteDoor(x, rev, v) /\ UNCHANGED <<drawn, hours>>
    BY <1>8, <2>1 DEF WriteEnrolment, others
  <2> QED BY <2>2, <1>3
<1>9. ASSUME RemoveDoor(c) PROVE Done
  <2> HIDE DEF Done
  <2>1. PICK x \in Door : x = call[c].door
    BY <1>0, <1>9, Shapes DEF RemoveDoor, At
  <2>2. doc' = RemoveEnrolment(doc, x) /\ UNCHANGED <<drawn, hours>>
    BY <1>9, <2>1 DEF RemoveDoor
  <2>3. CASE doc.doors[x] = None
    <3>1. doc' = doc
      BY <2>2, <2>3 DEF RemoveEnrolment, DocOK, Document
    <3> QED BY <3>1, <2>2, <1>1, Zenon
  <2>4. CASE doc.doors[x] # None
    <3>1. PICK w \in DoorRecord : w = doc.doors[x]
      BY <2>4, <1>4
    <3>2. [w EXCEPT !.managed = FALSE] \in DoorRecord
      BY DEF DoorRecord
    <3>3. doc' = [doc EXCEPT !.doors[x] = [w EXCEPT !.managed = FALSE]]
      BY <2>2, <2>4, <3>1 DEF RemoveEnrolment, DocOK, Document
    <3> QED BY <3>2, <3>3, <2>2, <1>2
  <2> QED BY <2>3, <2>4
<1>10. ASSUME NEW next \in {"keypad", "unkeypad"}, NEW pc \in {"expose", "withdraw"}, At(c, pc),
              SetCapability(c, next) PROVE Done
  <2> HIDE DEF Done
  <2>1. /\ call[c].door \in Door /\ call[c].copy \in DoorRecord /\ call[c].enabled \in BOOLEAN
    BY <1>0, <1>10, Shapes DEF At
  <2>2. [call[c].copy EXCEPT !.pin = call[c].enabled] \in DoorRecord
    BY <2>1 DEF DoorRecord
  <2>3. PICK x \in Door, rev \in Nat, v \in DoorRecord : x = call[c].door /\ rev = call[c].copy.rev
                                            /\ v = [call[c].copy EXCEPT !.pin = call[c].enabled]
    BY <2>1, <2>2 DEF DoorRecord
  <2>4. (WriteDoor(x, rev, v) \/ doc' = doc) /\ UNCHANGED <<drawn, hours>>
    BY <1>10, <2>3 DEF SetCapability, others
  <2> QED BY <2>4, <1>1, <1>3
<1>11. ASSUME ForgetFails(c) PROVE Done
  <2> HIDE DEF Done
  <2>1. PICK x \in Door : x = call[c].door
    BY <1>0, <1>11, Shapes DEF ForgetFails, At
  <2>2. UNCHANGED <<drawn, hours>>
    BY <1>11 DEF ForgetFails, others
  <2>3. CASE ~call[c].enabled /\ Managed(doc, x) /\ x \notin WithLock
    <3>1. PICK w \in DoorRecord : w = doc.doors[x]
      BY <2>3, <1>4 DEF Managed
    <3>2. [w EXCEPT !.pin = TRUE] \in DoorRecord
      BY DEF DoorRecord
    <3>3. doc' = [doc EXCEPT !.doors[x] = [w EXCEPT !.pin = TRUE]]
      BY <1>11, <2>1, <2>3, <3>1 DEF ForgetFails, DocOK, Document
    <3> QED BY <3>2, <3>3, <2>2, <1>2
  <2>4. CASE ~(~call[c].enabled /\ Managed(doc, x) /\ x \notin WithLock)
    BY <1>1, <1>11, <2>1, <2>2, <2>4 DEF ForgetFails
  <2> QED BY <2>3, <2>4
<1>12. ASSUME NEW ks, ks \in [Keypad -> KeypadRecord \cup {None}], doc' = [doc EXCEPT !.keypads = ks],
              \A k \in Keypad : ks[k] \in {None, doc.keypads[k]}, UNCHANGED <<drawn, hours>>
       PROVE  Done
  <2>1. doc' \in Document
    BY <1>12 DEF DocOK, Document
  <2>2. Furnished /\ doc'.doors = doc.doors /\ doc'.keypads = ks
    BY <1>12 DEF Furnished, DocOK, Document
  <2> QED BY <2>1, <2>2, <1>12, FurnishedDocument
<1>13. ASSUME RemoveKeypads(c) PROVE Done
  <2> HIDE DEF Done
  <2> DEFINE ks == [k \in Keypad |-> IF doc.keypads[k] # None /\ doc.keypads[k].door = call[c].door
                                     THEN None ELSE doc.keypads[k]]
  <2>1. PICK es : es = ks
    OBVIOUS
  <2>2. es \in [Keypad -> KeypadRecord \cup {None}] /\ \A k \in Keypad : es[k] \in {None, doc.keypads[k]}
    BY <2>1 DEF DocOK, Document
  <2>3. doc' = [doc EXCEPT !.keypads = es] /\ UNCHANGED <<drawn, hours>>
    BY <2>1, <1>13 DEF RemoveKeypads, RemoveKeypadsOf, others
  <2> QED BY <2>2, <2>3, <1>12
<1>14. ASSUME ForgetKeypad(c) PROVE Done
  <2> HIDE DEF Done
  <2>1. PICK es : es = [doc.keypads EXCEPT ![call[c].keypad] = None]
    OBVIOUS
  <2>2. es \in [Keypad -> KeypadRecord \cup {None}] /\ \A k \in Keypad : es[k] \in {None, doc.keypads[k]}
    BY <2>1 DEF DocOK, Document
  <2>3. doc' = [doc EXCEPT !.keypads = es] /\ UNCHANGED <<drawn, hours>>
    BY <2>1, <1>14 DEF ForgetKeypad, RemoveKeypad, others
  <2> QED BY <2>2, <2>3, <1>12
<1>15. ASSUME NEW k \in Keypad, NEW x \in Door, NEW on \in BOOLEAN, Saves(UpsertKeypad(doc, k, x, on)),
              UNCHANGED <<drawn, hours>>
       PROVE  Done
  <2>1. [door |-> x, enabled |-> on] \in KeypadRecord
    BY DEF KeypadRecord
  <2>2. UpsertKeypad(doc, k, x, on) \in Document
    BY <2>1, Puts DEF UpsertKeypad, DocOK
  <2>3. CASE Valid(UpsertKeypad(doc, k, x, on))
    <3>1. doc' = UpsertKeypad(doc, k, x, on)
      BY <1>15, <2>3 DEF Saves
    <3>2. DocOK'
      BY <3>1, <2>2, <2>3 DEF DocOK
    <3>3. Furnished
      BY <3>1 DEF UpsertKeypad, Furnished, DocOK, Document
    <3> QED BY <3>2, <3>3, <1>15
  <2>4. CASE ~Valid(UpsertKeypad(doc, k, x, on))
    BY <2>4, <1>1, <1>15 DEF Saves
  <2> QED BY <2>3, <2>4
<1>16. ASSUME RecordKeypad(c) PROVE Done
  <2> HIDE DEF Done
  <2>1. PICK k \in Keypad, x \in Door : k = call[c].keypad /\ x = call[c].door
    BY <1>0, <1>16, Shapes DEF RecordKeypad, At
  <2>2. Saves(UpsertKeypad(doc, k, x, TRUE)) /\ UNCHANGED <<drawn, hours>>
    BY <1>16, <2>1 DEF RecordKeypad, others
  <2> QED BY <2>2, <1>15
<1>17. ASSUME WriteKeypad(c) PROVE Done
  <2> HIDE DEF Done
  <2>1. PICK k \in Keypad, x \in Door, on \in BOOLEAN :
          k = call[c].keypad /\ x = call[c].door /\ on = call[c].enabled
    BY <1>0, <1>17, Shapes DEF WriteKeypad, At
  <2>2. Saves(UpsertKeypad(doc, k, x, on)) /\ UNCHANGED <<drawn, hours>>
    BY <1>17, <2>1 DEF WriteKeypad
  <2> QED BY <2>2, <1>15
<1>18. ASSUME NEW x \in Door,
              StartEnrolment(c, x) \/ ReadPolicy(c, x) \/ ReadEnrolment(c, x) \/ StartRemoval(c, x)
       PROVE  Done
  <2> HIDE DEF Done
  <2> QED BY <1>1, <1>18 DEF StartEnrolment, ReadPolicy, ReadEnrolment, StartRemoval, others
<1>19. ASSUME NEW k \in Keypad, NEW x \in Door, StartKeypad(c, k, x) PROVE Done
  <2> HIDE DEF Done
  <2>1. drawn \subseteq drawn'
    BY <1>19 DEF StartKeypad
  <2> QED BY <2>1, <1>1, <1>19 DEF StartKeypad
<1>20. ASSUME NEW k \in Keypad, StartUnkeypad(c, k) PROVE Done
  <2> HIDE DEF Done
  <2> QED BY <1>1, <1>20 DEF StartUnkeypad, others
<1>23. ASSUME NEW k \in Keypad, NEW x \in Door, NEW on \in BOOLEAN, ReadKeypad(c, k, x, on) PROVE Done
  <2> HIDE DEF Done
  <2> QED BY <1>1, <1>23 DEF ReadKeypad, others
<1>21. ASSUME Expose(c) \/ Withdraw(c) PROVE Done
  <2> HIDE DEF Done
  <2>1. CASE Expose(c)
    BY <2>1, <1>10 DEF Expose
  <2>2. CASE Withdraw(c)
    BY <2>2, <1>10 DEF Withdraw
  <2> QED BY <1>21, <2>1, <2>2
<1> HIDE DEF Done
<1>22. Done
  BY <1>6, <1>7, <1>8, <1>9, <1>11, <1>13, <1>14, <1>16, <1>17, <1>18, <1>19, <1>20, <1>21, <1>23
     DEF Equip
<1> QED BY <1>22 DEF Done

\* A call that provisions, by who asked for it.
LEMMA Provisions ==
  ASSUME CallTypes, Calls, NEW c \in Caller, call[c].pc \in ProvisionPc
  PROVE  /\ call[c] \in Provision /\ Steady(call[c])
         /\ IF call[c].request = None THEN SteadyGift(call[c]) ELSE SteadySetUp(call[c])
         /\ Doors(call[c]) = call[c].doors /\ Busy(call[c])
         /\ SettingUp(c) <=> call[c].request # None
         /\ Giving(c) <=> call[c].request = None
<1>1. call[c] \in CallRecord /\ Coherent(call[c])
  BY DEF CallTypes, Calls
<1>2. Busy(call[c]) /\ call[c].pc \notin {"free", "down", "person", "schedule", "form"}
  BY DEF Busy, ProvisionPc
<1> QED BY <1>1, <1>2, Shapes, Fields DEF Coherent, SettingUp, Giving

\* A step of a call that provisions and goes on.
LEMMA ProvisionTurn ==
  ASSUME CallTypes, Calls, NEW c \in Caller, call[c].pc \in ProvisionPc,
         call' = [call EXCEPT ![c] = call'[c]], met' = met,
         call'[c] \in Provision, Steady(call'[c]),
         IF call'[c].request = None THEN SteadyGift(call'[c]) ELSE SteadySetUp(call'[c]),
         call'[c].request = call[c].request, call'[c].doors = call[c].doors
  PROVE  Turn(c)
<1>1. call'[c] \in CallRecord
  BY DEF CallRecord
<1>2. call'[c].pc \in ProvisionPc
  BY DEF Provision, ProvisionPc
<1>3. /\ Doors(call'[c]) = call'[c].doors /\ Doors(call[c]) = call[c].doors
      /\ Busy(call'[c]) /\ Busy(call[c]) /\ call'[c].pc # "down" /\ call[c].pc # "down"
  <2>1. call[c] \in CallRecord
    BY DEF CallTypes
  <2>2. /\ call'[c].pc \notin {"free", "down", "person", "schedule", "form"}
        /\ call[c].pc \notin {"free", "down", "person", "schedule", "form"}
    BY <1>2 DEF ProvisionPc
  <2> QED BY <2>1, <2>2, <1>1, <1>2, Fields DEF Busy
<1>4. Coherent(call'[c])
  BY <1>2 DEF Coherent, ProvisionPc, DoorPc
<1>5. GoesOn(c)
  BY <1>3 DEF GoesOn
<1> QED BY <1>1, <1>3, <1>4, <1>5, GoingOn DEF Sets, Gives

\* A call that provisions goes on to another place.
LEMMA Moving ==
  ASSUME CallTypes, Calls, NEW c \in Caller, NEW next \in ProvisionPc, Goes(c, next), met' = met,
         \/ call[c].pc = "core" /\ (next = "finish" \/ (next = "discard" /\ call[c].made))
         \/ call[c].pc \in Recording /\ next \in Recording \cup {"rollback"}
         \/ call[c].pc = "door" /\ next = "rollback"
         \/ call[c].pc = "rollback" /\ next = "failed" /\ call[c].request # None
  PROVE  Turn(c) /\ call'[c] = [call[c] EXCEPT !.pc = next]
<1>1. call[c].pc \in ProvisionPc
  BY DEF ProvisionPc, Recording
<1>2. /\ call[c] \in Provision /\ Steady(call[c])
      /\ IF call[c].request = None THEN SteadyGift(call[c]) ELSE SteadySetUp(call[c])
  BY <1>1, Provisions
<1>3. call' = [call EXCEPT ![c] = call'[c]] /\ call'[c] = [call[c] EXCEPT !.pc = next]
  BY DEF Goes, Becomes, CallTypes
<1>4. PICK r \in Provision : r = call[c]
  BY <1>2
<1>5. PICK s : s = [r EXCEPT !.pc = next]
  OBVIOUS
<1>6. /\ s \in Provision /\ s.pc = next /\ s.request = r.request /\ s.person = r.person /\ s.todo = r.todo
      /\ s.done = r.done /\ s.door = r.door /\ s.cred = r.cred /\ s.made = r.made /\ s.doors = r.doors
  BY <1>5 DEF Provision, ProvisionPc
<1>7. Steady(s) /\ IF s.request = None THEN SteadyGift(s) ELSE SteadySetUp(s)
  <2>1. CASE r.pc = "core"
    <3>1. next = "finish" \/ (next = "discard" /\ r.made)
      BY <2>1, <1>4 DEF Recording
    <3> QED BY <2>1, <3>1, <1>2, <1>4, <1>6 DEF Steady, SteadyGift, SteadySetUp, Recording, Early
  <2>2. CASE r.pc \in Recording
    <3>1. next \in Recording \cup {"rollback"}
      BY <2>2, <1>4 DEF Recording
    <3> QED BY <2>2, <3>1, <1>2, <1>4, <1>6 DEF Steady, SteadyGift, SteadySetUp, Recording, Early
  <2>3. CASE r.pc \in {"door", "rollback"}
    <3>1. next = "rollback" \/ (next = "failed" /\ r.request # None)
      BY <2>3, <1>4 DEF Recording
    <3> QED BY <2>3, <3>1, <1>2, <1>4, <1>6 DEF Steady, SteadyGift, SteadySetUp, Recording, Early
  <2> QED BY <2>1, <2>2, <2>3, <1>4
<1> QED BY <1>1, <1>3, <1>4, <1>5, <1>6, <1>7, ProvisionTurn

\* A result is ready to be saved.
LEMMA Answering ==
  ASSUME Assumptions, CallTypes, Calls, NEW c \in Caller, NEW state \in Terminal,
         NEW added \in SUBSET Door,
         call[c].pc \in ProvisionPc, call[c].request # None, added \subseteq call[c].doors,
         Ready(c, state, added), met' = met
  PROVE  Turn(c) /\ call'[c] = [pc |-> "save", request |-> call[c].request, doors |-> call[c].doors,
                                answer |-> Answered(c, state, added)]
<1>1. /\ call[c] \in Provision /\ SteadySetUp(call[c]) /\ Doors(call[c]) = call[c].doors /\ Busy(call[c])
  BY Provisions
<1>2. /\ call' = [call EXCEPT ![c] = call'[c]]
      /\ call'[c] = [pc |-> "save", request |-> call[c].request, doors |-> call[c].doors,
                     answer |-> Answered(c, state, added)]
  BY DEF Ready, Becomes, CallTypes
<1>3. call[c].request \in Request /\ call[c].doors \in SUBSET Door
  BY <1>1 DEF Provision
<1>4. Answered(c, state, added) = [request |-> call[c].request, state |-> state, added |-> added]
      /\ Answered(c, state, added) \in Answer
  BY <1>3 DEF Answered, Answer
<1>5. call'[c] \in CallRecord /\ call'[c].pc = "save" /\ call'[c].doors = call[c].doors
      /\ call'[c].request = call[c].request
  BY <1>2, <1>3, <1>4 DEF CallRecord
<1>6. Coherent(call'[c])
  <2>1. call'[c].answer.request = call'[c].request /\ call'[c].answer.added \subseteq call'[c].doors
    BY <1>2, <1>4
  <2>2. call'[c].doors = Asked[call'[c].request].doors
    BY <1>1, <1>5 DEF SteadySetUp
  <2> QED BY <1>5, <2>1, <2>2 DEF Coherent, ProvisionPc, DoorPc
<1>7. Doors(call'[c]) = call'[c].doors /\ Busy(call'[c])
  BY <1>5, Fields DEF Busy
<1>8. GoesOn(c)
  BY <1>1, <1>2, <1>5, <1>7 DEF GoesOn
<1>9. call[c].pc # "down"
  BY DEF ProvisionPc
<1> QED BY <1>1, <1>2, <1>5, <1>6, <1>7, <1>8, <1>9, GoingOn DEF Sets, Gives

\* A request or a giving begins.
LEMMA Provisioned ==
  ASSUME Assumptions, CallTypes, Calls, NEW c \in Caller, Starts(c),
         call'[c] \in Provision, Steady(call'[c]),
         IF call'[c].request = None THEN SteadyGift(call'[c]) ELSE SteadySetUp(call'[c]),
         IF call'[c].request = None THEN \A o \in Caller : ~Giving(o) ELSE \A o \in Caller : ~SettingUp(o)
  PROVE  Turn(c)
<1>1. call'[c] \in CallRecord /\ call'[c].pc \in ProvisionPc /\ call'[c].pc # "down"
  BY DEF CallRecord, Provision, ProvisionPc
<1>2. Coherent(call'[c])
  BY <1>1 DEF Coherent, ProvisionPc, DoorPc
<1>3. \A o \in Caller : (SettingUp(o) <=> Sets(call[o])) /\ (Giving(o) <=> Gives(call[o]))
  BY Fields DEF CallTypes, SettingUp, Giving, Sets, Gives
<1> QED BY <1>1, <1>2, <1>3, Starting DEF Sets, Gives

\* A request begins.
LEMMA BeginTurn ==
  ASSUME Assumptions, DocOK, CallTypes, Calls, NEW c \in Caller, NEW r \in Request,
         NEW pc \in {"secret", "core", "finish"}, NEW cred \in Pin, Begin(c, r, pc, cred),
         pc = "secret" => cred = None,
         pc = "core" /\ Asked[r].kind = "create" => cred = None
  PROVE  /\ Turn(c) /\ At(c, "free")
         /\ call'[c] = [Provisioning(r, pc, Asked[r].person, Asked[r].doors) EXCEPT !.cred = cred]
<1>1. /\ Starts(c) /\ \A o \in Caller : ~SettingUp(o)
      /\ call'[c] = [Provisioning(r, pc, Asked[r].person, Asked[r].doors) EXCEPT !.cred = cred]
  BY DEF Begin, Begins, Becomes, Starts, CallTypes
<1>2. Asked[r].person \in Person /\ Asked[r].doors \in SUBSET Door /\ r # None
  BY Constants
<1>3. call'[c] = [pc |-> pc, request |-> r, person |-> Asked[r].person, todo |-> Asked[r].doors, done |-> {},
                  door |-> None, had |-> {}, cred |-> cred, made |-> FALSE, doors |-> Asked[r].doors]
  BY <1>1 DEF Provisioning
<1>4. call'[c] \in Provision
  BY <1>2, <1>3 DEF Provision
<1>5. Steady(call'[c]) /\ SteadySetUp(call'[c])
  BY <1>2, <1>3, Constants DEF Steady, SteadySetUp, Recording
<1>6. call'[c].request # None
  BY <1>2, <1>3
<1> QED BY <1>1, <1>4, <1>5, <1>6, Provisioned DEF Starts

\* A door is given.
LEMMA GiveTurn ==
  ASSUME Assumptions, DocOK, CallTypes, Calls, NEW c \in Caller, NEW p \in Person, NEW x \in Door,
         Give(c, p, x)
  PROVE  /\ Turn(c) /\ At(c, "free")
         /\ call'[c] = [pc |-> "door", request |-> None, person |-> p, todo |-> {x}, done |-> {},
                        door |-> None, had |-> {}, cred |-> doc.authority[p], made |-> FALSE,
                             doors |-> {x}]
<1>1. /\ Starts(c) /\ \A o \in Caller : ~Giving(o)
      /\ call'[c] = [Provisioning(None, "door", p, {x}) EXCEPT !.cred = doc.authority[p]]
  BY DEF Give, Begins, Becomes, Starts, CallTypes
<1>2. call'[c] = [pc |-> "door", request |-> None, person |-> p, todo |-> {x}, done |-> {},
                  door |-> None, had |-> {}, cred |-> doc.authority[p], made |-> FALSE, doors |-> {x}]
  BY <1>1 DEF Provisioning
<1>3. doc.authority[p] \in Pin
  BY DEF DocOK, Document
<1>4. call'[c] \in Provision
  BY <1>2, <1>3 DEF Provision
<1>5. Steady(call'[c]) /\ SteadyGift(call'[c])
  BY <1>2, Constants DEF Steady, SteadyGift, Recording
<1>6. call'[c].request = None
  BY <1>2
<1> QED BY <1>1, <1>2, <1>4, <1>5, <1>6, Provisioned DEF Starts

\* Such a call is for no request.
LEMMA GiveAsksNothing ==
  ASSUME Assumptions, DocOK, CallTypes, Calls, NEW c \in Caller, NEW p \in Person, NEW x \in Door,
         Give(c, p, x)
  PROVE  call'[c].request = None
<1>1. call'[c] = [Provisioning(None, "door", p, {x}) EXCEPT !.cred = doc.authority[p]]
  BY DEF Give, Begins, Becomes, CallTypes
<1> QED BY <1>1 DEF Provisioning

\* Set-ups, gifts and deletions of people keep the calls coherent.
LEMMA SetUpTurns ==
  ASSUME Assumptions, DocOK, CallTypes, Calls, stored \in Nat, NEW c \in Caller, SetUp(c)
  PROVE  Turn(c)
<1>0. call[c] \in CallRecord
  BY DEF CallTypes
<1>1. ASSUME NEW r \in Request, Submit(c, r) PROVE Turn(c)
  <2> DEFINE p == Asked[r].person
  <2>0. doc.authority[p] \in Pin /\ None \in Pin
    BY Constants DEF DocOK, Document, Pin
  <2>1. PICK pc \in {"secret", "core"}, cred \in Pin :
          /\ Begin(c, r, pc, cred) /\ (pc = "secret" => cred = None)
          /\ (pc = "core" /\ Asked[r].kind = "create" => cred = None)
    <3>1. CASE Asked[r].kind = "create"
      <4>1. PICK pc \in {"secret", "core"} : Begin(c, r, pc, None)
        BY <1>1, <3>1 DEF Submit
      <4> QED BY <4>1, <2>0
    <3>2. CASE Asked[r].kind # "create"
      <4>1. CASE doc.authority[p] = None
        BY <1>1, <3>2, <4>1, <2>0 DEF Submit
      <4>2. CASE doc.authority[p] # None
        BY <1>1, <3>2, <4>2, <2>0 DEF Submit
      <4> QED BY <4>1, <4>2
    <3> QED BY <3>1, <3>2
  <2>2. pc \in {"secret", "core", "finish"} /\ cred \in Pin
    BY <2>1
  <2>3. Begin(c, r, pc, cred)
    BY <2>1
  <2>4. pc = "secret" => cred = None
    BY <2>1
  <2>5. pc = "core" /\ Asked[r].kind = "create" => cred = None
    BY <2>1
  <2>6. CASE pc = "secret"
    <3>1. Begin(c, r, "secret", None) /\ None \in Pin
      BY <2>0, <2>3, <2>4, <2>6
    <3> QED BY <3>1, BeginTurn
  <2>7. CASE pc = "core"
    <3>1. Begin(c, r, "core", cred)
      BY <2>3, <2>7
    <3>2. Asked[r].kind = "create" => cred = None
      BY <2>5, <2>7
    <3> QED BY <2>2, <3>1, <3>2, BeginTurn
  <2> QED BY <2>1, <2>6, <2>7
<1>2. ASSUME NEW r \in Request, Repeat(c, r) PROVE Turn(c)
  <2>1. doc.authority[Asked[r].person] \in Pin
    BY Constants DEF DocOK, Document
  <2>2. PICK cred \in Pin : cred = doc.authority[Asked[r].person]
    BY <2>1
  <2>3. Begin(c, r, "finish", cred)
    BY <1>2, <2>2 DEF Repeat
  <2> QED BY <2>3, BeginTurn
<1>3. ASSUME NEW p \in Person, NEW x \in Door, Give(c, p, x) PROVE Turn(c)
  BY <1>3, GiveTurn
<1>4. ASSUME NEW p \in Person, DeletePerson(c, p) PROVE Turn(c)
  <2>1. Waits(c)
    BY <1>4 DEF DeletePerson, AtOnce, Waits
  <2> QED BY <2>1, Waiting
<1>5. ASSUME Becomes(c, Free), met' = met, call[c].pc # "down" PROVE Turn(c)
  BY <1>5, Ending
<1>6. ASSUME NEW works \in BOOLEAN, Discard(c, works) PROVE Turn(c)
  BY <1>6, <1>5 DEF Discard, At
<1>7. ASSUME NEW removed \in BOOLEAN, GiveFails(c, removed) PROVE Turn(c)
  BY <1>7, <1>5 DEF GiveFails, At
<1>8. ASSUME AnswerAgain(c) \/ FinishFails(c) \/ SaveResult(c) \/ SaveFails(c) PROVE Turn(c)
  BY <1>8, <1>5 DEF AnswerAgain, FinishFails, SaveResult, SaveFails, At, kept
<1>9. ASSUME Prepare(c) PROVE Turn(c)
  <2>1. Goes(c, "finish") /\ met' = met /\ call[c].pc = "core"
    BY <1>9 DEF Prepare, At, kept
  <2>2. "finish" \in ProvisionPc
    BY DEF ProvisionPc
  <2> QED BY <2>1, <2>2, Moving
<1>10. ASSUME PrepareFails(c) PROVE Turn(c)
  <2>1. met' = met /\ call[c].pc = "core"
    BY <1>10 DEF PrepareFails, At, kept
  <2>2. CASE call[c].made
    <3>1. Goes(c, "discard") /\ "discard" \in ProvisionPc
      BY <1>10, <2>2 DEF PrepareFails, ProvisionPc
    <3> QED BY <2>1, <2>2, <3>1, Moving
  <2>3. CASE ~call[c].made
    BY <1>10, <2>1, <2>3, <1>5 DEF PrepareFails
  <2> QED BY <2>2, <2>3
<1>11. ASSUME NEW next \in Recording \cup {"rollback"}, Goes(c, next), met' = met,
              call[c].pc \in Recording PROVE Turn(c)
  <2>1. next \in ProvisionPc
    BY DEF ProvisionPc, Recording
  <2> QED BY <2>1, <1>11, Moving
<1>12. ASSUME RecordMetadata(c) \/ RecordGrant(c) \/ RecordNoGrant(c) \/ UndoGrant(c) \/ UndoMetadata(c)
             \/ UndoAuthority(c) \/ UndoFails(c)
      PROVE Turn(c)
  <2>1. met' = met /\ call[c].pc \in Recording
    BY <1>12 DEF RecordMetadata, RecordGrant, RecordNoGrant, UndoGrant, UndoMetadata, UndoAuthority,
                 UndoFails, Record, At, kept, Recording
  <2>2. PICK next \in Recording \cup {"rollback"} : Goes(c, next)
    <3>1. CASE RecordMetadata(c) \/ RecordGrant(c) \/ RecordNoGrant(c)
      BY <3>1 DEF RecordMetadata, RecordGrant, RecordNoGrant, Record, Recording
    <3>2. CASE UndoGrant(c) \/ UndoMetadata(c) \/ UndoAuthority(c) \/ UndoFails(c)
      BY <3>2 DEF UndoGrant, UndoMetadata, UndoAuthority, UndoFails, Recording
    <3> QED BY <1>12, <3>1, <3>2
  <2> QED BY <2>1, <2>2, <1>11
<1>13. ASSUME Refuse(c) PROVE Turn(c)
  <2>1. met' = met /\ call[c].pc = "door"
    BY <1>13 DEF Refuse, At, kept
  <2>2. CASE Goes(c, "rollback")
    <3>1. "rollback" \in ProvisionPc
      BY DEF ProvisionPc
    <3> QED BY <2>1, <2>2, <3>1, Moving
  <2>3. CASE Becomes(c, Free)
    BY <2>1, <2>3, <1>5
  <2> QED BY <1>13, <2>2, <2>3 DEF Refuse
<1>14. ASSUME TakenBack(c) PROVE Turn(c)
  <2>1. met' = met /\ call[c].pc = "rollback" /\ Goes(c, "failed")
    BY <1>14 DEF TakenBack, At, kept
  <2>2. call[c].request # None /\ "failed" \in ProvisionPc
    BY <1>14 DEF TakenBack, SettingUp, ProvisionPc
  <2> QED BY <2>1, <2>2, Moving
<1>15. ASSUME NothingToDo(c) PROVE Turn(c)
  <2>1. met' = met /\ call[c].pc = "finish"
    BY <1>15 DEF NothingToDo, At, kept
  <2>2. call[c].pc \in ProvisionPc /\ call[c].request # None
    <3>1. call[c].pc \in ProvisionPc
      BY <2>1 DEF ProvisionPc
    <3> QED BY <2>1, <3>1, Provisions DEF SteadyGift, Recording
  <2>3. PICK state \in {"completed", "needs_attention"} : Ready(c, state, {})
    BY <1>15 DEF NothingToDo
  <2>4. state \in Terminal /\ {} \in SUBSET Door /\ {} \subseteq call[c].doors
    BY DEF Terminal
  <2> QED BY <2>1, <2>2, <2>3, <2>4, Answering
<1>16. ASSUME AllAdded(c) PROVE Turn(c)
  <2>1. met' = met /\ call[c].pc = "door" /\ SettingUp(c)
    BY <1>16 DEF AllAdded, At, kept
  <2>2. call[c].pc \in ProvisionPc
    BY <2>1 DEF ProvisionPc
  <2>3. call[c].request # None /\ call[c].done \subseteq call[c].doors /\ call[c].done \in SUBSET Door
    BY <2>1, <2>2, Provisions DEF Steady, Provision
  <2>4. PICK state \in {"completed", "needs_attention"}, added \in SUBSET Door :
          added = call[c].done /\ Ready(c, state, added)
    BY <1>16, <2>3 DEF AllAdded
  <2>5. state \in Terminal
    BY DEF Terminal
  <2> QED BY <2>1, <2>2, <2>3, <2>4, <2>5, Answering
<1>17. ASSUME NotAdded(c) PROVE Turn(c)
  <2>1. met' = met /\ call[c].pc = "failed"
    BY <1>17 DEF NotAdded, At, kept
  <2>2. call[c].pc \in ProvisionPc
    BY <2>1 DEF ProvisionPc
  <2>3. call[c].request # None /\ Wanted(c).doors = call[c].doors /\ call[c].doors \in SUBSET Door
    BY <2>1, <2>2, Provisions DEF SteadyGift, SteadySetUp, Recording, Provision, Wanted
  <2> DEFINE new == Wanted(c).doors \ call[c].had
             found == AddedOf(doc, call[c].person, new)
  <2>4. found \subseteq call[c].doors
    BY <2>3 DEF AddedOf
  <2> HIDE DEF found
  <2>5. PICK state \in {"failed", "needs_attention"}, added \in SUBSET Door :
          added = found /\ Ready(c, state, added)
    BY <1>17, <2>3, <2>4 DEF NotAdded, found
  <2>6. state \in Terminal /\ added \subseteq call[c].doors
    BY <2>4, <2>5 DEF Terminal
  <2> QED BY <2>1, <2>2, <2>3, <2>5, <2>6, Answering
<1>18. ASSUME StoreSecret(c) PROVE Turn(c)
  <2>0. call[c].pc = "secret"
    BY <1>18 DEF StoreSecret, At
  <2>2. call[c].pc \in ProvisionPc
    BY <2>0 DEF ProvisionPc
  <2>01. SettingUp(c) <=> call[c].request # None
    BY <2>2, Provisions
  <2>1. /\ call' = [call EXCEPT ![c] = call'[c]] /\ met' = met
        /\ call'[c] = [call[c] EXCEPT !.cred = stored + 1, !.made = TRUE,
                                      !.pc = IF call[c].request # None THEN "core" ELSE "metadata"]
        /\ call[c].pc = "secret"
    <3>1. Becomes(c, [call[c] EXCEPT !.cred = stored + 1, !.made = TRUE,
                                     !.pc = IF SettingUp(c) THEN "core" ELSE "metadata"]) /\ met' = met
      BY <1>18 DEF StoreSecret
    <3> QED BY <3>1, <2>0, <2>01 DEF Becomes, CallTypes
  <2>3. /\ call[c] \in Provision /\ Steady(call[c])
        /\ IF call[c].request = None THEN SteadyGift(call[c]) ELSE SteadySetUp(call[c])
    BY <2>2, Provisions
  <2>4. stored + 1 \in Nat
    OBVIOUS
  <2>5. PICK r \in Provision : r = call[c]
    BY <2>3
  <2>6. PICK s : s = [r EXCEPT !.cred = stored + 1, !.made = TRUE,
                               !.pc = IF r.request # None THEN "core" ELSE "metadata"]
    OBVIOUS
  <2>7. s \in Provision
    BY <2>1, <2>4, <2>5, <2>6 DEF Provision, Pin
  <2>8. Steady(s) /\ IF s.request = None THEN SteadyGift(s) ELSE SteadySetUp(s)
    BY <2>1, <2>3, <2>4, <2>5, <2>6, <2>7, Constants DEF Steady, SteadyGift, SteadySetUp, Recording,
       Early, Provision, Pin
  <2>9. s.request = r.request /\ s.doors = r.doors /\ s = call'[c]
    BY <2>1, <2>5, <2>6, <2>7
  <2> QED BY <2>1, <2>2, <2>5, <2>7, <2>8, <2>9, ProvisionTurn
<1>19. ASSUME MarkProvisioning(c) PROVE Turn(c)
  <2>1. /\ call' = [call EXCEPT ![c] = call'[c]] /\ met' = met
        /\ call'[c] = [call[c] EXCEPT !.pc = "check",
                                      !.had = {g[2] : g \in MetadataOf(doc, call[c].person)}]
        /\ call[c].pc = "finish"
    BY <1>19 DEF MarkProvisioning, At, Becomes, CallTypes, kept
  <2>2. call[c].pc \in ProvisionPc
    BY <2>1 DEF ProvisionPc
  <2>3. /\ call[c] \in Provision /\ Steady(call[c])
        /\ IF call[c].request = None THEN SteadyGift(call[c]) ELSE SteadySetUp(call[c])
    BY <2>2, Provisions
  <2>4. call[c].cred # None /\ {g[2] : g \in MetadataOf(doc, call[c].person)} \in SUBSET Door
    BY <1>19, <2>3, Pairs DEF MarkProvisioning, MetadataOf, Provision
  <2>5. PICK r \in Provision : r = call[c]
    BY <2>3
  <2>6. PICK had \in SUBSET Door : had = {g[2] : g \in MetadataOf(doc, call[c].person)}
    BY <2>4
  <2>7. PICK s : s = [r EXCEPT !.pc = "check", !.had = had]
    OBVIOUS
  <2>8. s \in Provision /\ s.request = r.request /\ s.doors = r.doors
    BY <2>7 DEF Provision
  <2>9. Steady(s) /\ IF s.request = None THEN SteadyGift(s) ELSE SteadySetUp(s)
    BY <2>1, <2>3, <2>4, <2>5, <2>7, Constants DEF Steady, SteadyGift, SteadySetUp, Recording,
       Early, Provision
  <2>10. s = call'[c]
    BY <2>1, <2>5, <2>6, <2>7
  <2> QED BY <2>1, <2>2, <2>5, <2>8, <2>9, <2>10, ProvisionTurn
<1>20. ASSUME CheckAdditions(c) PROVE Turn(c)
  <2>1. call[c].pc = "check" /\ met' = met
    BY <1>20 DEF CheckAdditions, At, kept
  <2>2. call[c].pc \in ProvisionPc
    BY <2>1 DEF ProvisionPc
  <2>3. /\ call[c] \in Provision /\ Steady(call[c])
        /\ IF call[c].request = None THEN SteadyGift(call[c]) ELSE SteadySetUp(call[c])
    BY <2>2, Provisions
  <2>4. PICK xs \in SUBSET call[c].todo : xs = Additions(doc, call[c].person, call[c].todo)
    BY DEF Additions
  <2>5. PICK r \in Provision : r = call[c]
    BY <2>3
  <2>6. PICK s : s = call'[c]
    OBVIOUS
  <2>7. call' = [call EXCEPT ![c] = call'[c]]
        /\ (s = [r EXCEPT !.pc = "door", !.todo = xs] \/ s = [r EXCEPT !.pc = "failed"])
    <3>1. CASE MayAdd(doc, call[c].person, call[c].todo, call[c].cred)
      <4>1. Becomes(c, [call[c] EXCEPT !.pc = "door", !.todo = xs])
        BY <1>20, <3>1, <2>4 DEF CheckAdditions
      <4> QED BY <4>1, <2>5, <2>6 DEF Becomes, CallTypes
    <3>2. CASE ~MayAdd(doc, call[c].person, call[c].todo, call[c].cred)
      <4>1. Becomes(c, [call[c] EXCEPT !.pc = "failed"])
        BY <1>20, <3>2 DEF CheckAdditions
      <4> QED BY <4>1, <2>5, <2>6 DEF Becomes, CallTypes
    <3> QED BY <3>1, <3>2
  <2>8. s \in Provision
    <3>1. xs \in SUBSET Door
      BY <2>4, <2>5 DEF Provision
    <3>2. CASE s = [r EXCEPT !.pc = "door", !.todo = xs]
      BY <3>1, <3>2 DEF Provision
    <3>3. CASE s = [r EXCEPT !.pc = "failed"]
      BY <3>3 DEF Provision
    <3> QED BY <2>7, <3>2, <3>3
  <2>9. Steady(s) /\ IF s.request = None THEN SteadyGift(s) ELSE SteadySetUp(s)
    <3>1. CASE s = [r EXCEPT !.pc = "door", !.todo = xs]
      BY <2>1, <2>3, <2>4, <2>5, <3>1 DEF Steady, SteadyGift, SteadySetUp, Recording, Early, Provision
    <3>2. CASE s = [r EXCEPT !.pc = "failed"]
      BY <2>1, <2>3, <2>5, <3>2 DEF Steady, SteadyGift, SteadySetUp, Recording, Early, Provision
    <3> QED BY <2>7, <3>1, <3>2
  <2>10. s.request = r.request /\ s.doors = r.doors
    <3>1. CASE s = [r EXCEPT !.pc = "door", !.todo = xs]
      BY <3>1 DEF Provision
    <3>2. CASE s = [r EXCEPT !.pc = "failed"]
      BY <3>2 DEF Provision
    <3> QED BY <2>7, <3>1, <3>2
  <2> QED BY <2>1, <2>2, <2>5, <2>6, <2>7, <2>8, <2>9, <2>10, ProvisionTurn
<1>21. ASSUME NEW x \in Door, Program(c, x) PROVE Turn(c)
  <2>1. /\ call' = [call EXCEPT ![c] = call'[c]] /\ met' = met
        /\ call'[c] = [call[c] EXCEPT !.pc = IF call[c].cred = None THEN "secret" ELSE "metadata",
                                !.door = x, !.todo = call[c].todo \ {x}] /\ call[c].pc = "door"
    BY <1>21 DEF Program, At, Becomes, CallTypes, kept
  <2>2. call[c].pc \in ProvisionPc
    BY <2>1 DEF ProvisionPc
  <2>3. /\ call[c] \in Provision /\ Steady(call[c])
        /\ IF call[c].request = None THEN SteadyGift(call[c]) ELSE SteadySetUp(call[c])
    BY <2>2, Provisions
  <2>4. x \in call[c].todo
    BY <1>21 DEF Program
  <2>5. PICK r \in Provision : r = call[c]
    BY <2>3
  <2>6. PICK s : s = [r EXCEPT !.pc = IF r.cred = None THEN "secret" ELSE "metadata",
                                !.door = x, !.todo = r.todo \ {x}]
    OBVIOUS
  <2>7. s \in Provision
    <3>1. (IF r.cred = None THEN "secret" ELSE "metadata") \in {"secret", "metadata"}
      OBVIOUS
    <3>2. r.todo \ {x} \in SUBSET Door
      BY DEF Provision
    <3> QED BY <2>6, <3>1, <3>2 DEF Provision
  <2>8. Steady(s) /\ IF s.request = None THEN SteadyGift(s) ELSE SteadySetUp(s)
    BY <2>1, <2>3, <2>4, <2>5, <2>6, <2>7, Constants DEF Steady, SteadyGift, SteadySetUp, Recording,
       Early, Provision
  <2>9. s.request = r.request /\ s.doors = r.doors /\ s = call'[c]
    BY <2>1, <2>5, <2>6, <2>7
  <2> QED BY <2>1, <2>2, <2>5, <2>7, <2>8, <2>9, ProvisionTurn
<1>22. ASSUME NEW x \in Door, TakeBack(c, x) PROVE Turn(c)
  <2>1. /\ call' = [call EXCEPT ![c] = call'[c]] /\ met' = met
        /\ call'[c] = [call[c] EXCEPT !.pc = "unrecord", !.door = x, !.done = call[c].done \ {x}]
        /\ call[c].pc = "rollback" /\ call[c].request # None
    BY <1>22 DEF TakeBack, At, Becomes, CallTypes, kept, SettingUp
  <2>2. call[c].pc \in ProvisionPc
    BY <2>1 DEF ProvisionPc
  <2>3. /\ call[c] \in Provision /\ Steady(call[c])
        /\ IF call[c].request = None THEN SteadyGift(call[c]) ELSE SteadySetUp(call[c])
    BY <2>2, Provisions
  <2>4. x \in call[c].done \cup {call[c].door}
    BY <1>22 DEF TakeBack, Left
  <2>5. PICK r \in Provision : r = call[c]
    BY <2>3
  <2>6. PICK s : s = [r EXCEPT !.pc = "unrecord", !.door = x, !.done = r.done \ {x}]
    OBVIOUS
  <2>7. s \in Provision
    BY <2>1, <2>4, <2>5, <2>6 DEF Provision
  <2>8. Steady(s) /\ IF s.request = None THEN SteadyGift(s) ELSE SteadySetUp(s)
    BY <2>1, <2>3, <2>4, <2>5, <2>6, <2>7, Constants DEF Steady, SteadyGift, SteadySetUp, Recording,
       Early, Provision
  <2>9. s.request = r.request /\ s.doors = r.doors /\ s = call'[c]
    BY <2>1, <2>5, <2>6, <2>7
  <2> QED BY <2>1, <2>2, <2>5, <2>7, <2>8, <2>9, ProvisionTurn
<1>23. ASSUME NEW x \in Door, LeaveMarked(c, x) PROVE Turn(c)
  <2>1. /\ call' = [call EXCEPT ![c] = call'[c]] /\ met' = met
        /\ call'[c] = [call[c] EXCEPT !.done = call[c].done \ {x},
                                      !.door = IF call[c].door = x THEN None ELSE call[c].door]
        /\ call[c].pc = "rollback" /\ call[c].request # None
    BY <1>23 DEF LeaveMarked, At, Becomes, CallTypes, kept, SettingUp
  <2>2. call[c].pc \in ProvisionPc
    BY <2>1 DEF ProvisionPc
  <2>3. /\ call[c] \in Provision /\ Steady(call[c])
        /\ IF call[c].request = None THEN SteadyGift(call[c]) ELSE SteadySetUp(call[c])
    BY <2>2, Provisions
  <2>4. x \in call[c].done \cup {call[c].door}
    BY <1>23 DEF LeaveMarked, Left
  <2>5. PICK r \in Provision : r = call[c]
    BY <2>3
  <2>6. PICK s : s = [r EXCEPT !.done = r.done \ {x}, !.door = IF r.door = x THEN None ELSE r.door]
    OBVIOUS
  <2>7. s \in Provision
    <3>1. (IF r.door = x THEN None ELSE r.door) \in Door \cup {None} /\ r.done \ {x} \in SUBSET Door
      BY DEF Provision
    <3> QED BY <2>6, <3>1 DEF Provision
  <2>8. Steady(s) /\ IF s.request = None THEN SteadyGift(s) ELSE SteadySetUp(s)
    BY <2>1, <2>3, <2>4, <2>5, <2>6, <2>7, Constants DEF Steady, SteadyGift, SteadySetUp, Recording,
       Early, Provision
  <2>9. s.request = r.request /\ s.doors = r.doors /\ s = call'[c]
    BY <2>1, <2>5, <2>6, <2>7
  <2> QED BY <2>1, <2>2, <2>5, <2>7, <2>8, <2>9, ProvisionTurn
<1>24. ASSUME Unrecord(c) PROVE Turn(c)
  <2>1. /\ call' = [call EXCEPT ![c] = call'[c]] /\ met' = met
        /\ call'[c] = [call[c] EXCEPT !.pc = "rollback", !.door = None] /\ call[c].pc = "unrecord"
    BY <1>24 DEF Unrecord, At, Becomes, CallTypes, kept
  <2>2. call[c].pc \in ProvisionPc
    BY <2>1 DEF ProvisionPc
  <2>3. /\ call[c] \in Provision /\ Steady(call[c])
        /\ IF call[c].request = None THEN SteadyGift(call[c]) ELSE SteadySetUp(call[c])
    BY <2>2, Provisions
  <2>4. None \in Door \cup {None}
    OBVIOUS
  <2>5. PICK r \in Provision : r = call[c]
    BY <2>3
  <2>6. PICK s : s = [r EXCEPT !.pc = "rollback", !.door = None]
    OBVIOUS
  <2>7. s \in Provision
    BY <2>1, <2>4, <2>5, <2>6 DEF Provision
  <2>8. Steady(s) /\ IF s.request = None THEN SteadyGift(s) ELSE SteadySetUp(s)
    BY <2>1, <2>3, <2>4, <2>5, <2>6, <2>7, Constants DEF Steady, SteadyGift, SteadySetUp, Recording,
       Early, Provision
  <2>9. s.request = r.request /\ s.doors = r.doors /\ s = call'[c]
    BY <2>1, <2>5, <2>6, <2>7
  <2> QED BY <2>1, <2>2, <2>5, <2>7, <2>8, <2>9, ProvisionTurn
<1>25. ASSUME RecordAuthority(c),
              Becomes(c, [call[c] EXCEPT !.pc = "door", !.done = call[c].done \cup {call[c].door}]),
             ~Giving(c)
      PROVE Turn(c)
  <2>0. call[c].pc = "authority" /\ call[c].pc \in ProvisionPc
    BY <1>25 DEF RecordAuthority, At, ProvisionPc
  <2>01. call[c].request # None
    BY <1>25, <2>0, Provisions
  <2>1. /\ call' = [call EXCEPT ![c] = call'[c]] /\ met' = met
        /\ call'[c] = [call[c] EXCEPT !.pc = "door", !.done = call[c].done \cup {call[c].door}]
        /\ call[c].pc = "authority" /\ call[c].request # None
    BY <1>25, <2>0, <2>01 DEF RecordAuthority, Becomes, CallTypes, kept
  <2>2. call[c].pc \in ProvisionPc
    BY <2>1 DEF ProvisionPc
  <2>3. /\ call[c] \in Provision /\ Steady(call[c])
        /\ IF call[c].request = None THEN SteadyGift(call[c]) ELSE SteadySetUp(call[c])
    BY <2>2, Provisions
  <2>4. None \in Door \cup {None}
    OBVIOUS
  <2>5. PICK r \in Provision : r = call[c]
    BY <2>3
  <2>6. PICK s : s = [r EXCEPT !.pc = "door", !.done = r.done \cup {r.door}]
    OBVIOUS
  <2>7. s \in Provision
    <3>1. r.door \in Door /\ r.done \cup {r.door} \in SUBSET Door
      BY <2>1, <2>3, <2>5 DEF Provision, Steady, Recording
    <3> QED BY <2>6, <3>1 DEF Provision
  <2>8. Steady(s) /\ IF s.request = None THEN SteadyGift(s) ELSE SteadySetUp(s)
    BY <2>1, <2>3, <2>4, <2>5, <2>6, <2>7, Constants DEF Steady, SteadyGift, SteadySetUp, Recording,
       Early, Provision
  <2>9. s.request = r.request /\ s.doors = r.doors /\ s = call'[c]
    BY <2>1, <2>5, <2>6, <2>7
  <2> QED BY <2>1, <2>2, <2>5, <2>7, <2>8, <2>9, ProvisionTurn
<1>26. ASSUME RecordAuthority(c) PROVE Turn(c)
  <2>1. met' = met /\ call[c].pc = "authority" /\ call[c].pc \in Recording
    BY <1>26 DEF RecordAuthority, At, kept, Recording
  <2>2. CASE Goes(c, "undo_grant")
    <3>1. "undo_grant" \in Recording
      BY DEF Recording
    <3> QED BY <2>1, <2>2, <3>1, <1>11
  <2>3. CASE Becomes(c, Free)
    BY <2>1, <2>3, <1>5
  <2>4. CASE ~Giving(c) /\ Becomes(c, [call[c] EXCEPT !.pc = "door", !.done = call[c].done \cup {call[c].door}])
    BY <1>26, <2>4, <1>25
  <2> QED BY <1>26, <2>2, <2>3, <2>4 DEF RecordAuthority
<1>27. Turn(c)
  BY <1>1, <1>2, <1>3, <1>4, <1>6, <1>7, <1>8, <1>9, <1>10, <1>12, <1>13, <1>14, <1>15, <1>16, <1>17,
     <1>18, <1>19, <1>20, <1>21, <1>22, <1>23, <1>24, <1>26 DEF SetUp
<1> QED BY <1>27

(***************************************************************************)
(* What set-ups change in the document.                                    *)
(***************************************************************************)

\* Schedules, doors and keypads stay, and no identifier is drawn.
Housed ==
  /\ doc'.schedules = doc.schedules /\ doc'.doors = doc.doors /\ doc'.keypads = doc.keypads
  /\ drawn' = drawn /\ UNCHANGED doors

\* Where grants, records of locks and PINs only go, the document stays valid.
LEMMA Lighter ==
  ASSUME Assumptions, DocOK, Housed, doc' \in Document, doc'.people = doc.people,
         \A g \in Pair : doc'.grants[g] \in {None, doc.grants[g]},
         \A g \in Pair : doc'.metadata[g] # None =>
           doc.metadata[g] # None /\ doc'.metadata[g].cred = doc.metadata[g].cred,
         \A p \in Person : doc'.authority[p] \in {None, doc.authority[p]}
  PROVE  DocOK'
<1>1. \A p \in Person : doc'.people[p] = None =>
        doc'.authority[p] = None /\ \A x \in Door : doc'.grants[<<p, x>>] = None
  BY Pairs DEF DocOK, Valid, OwnersExist
<1>2. /\ doc'.schedules = doc.schedules
      /\ \A x \in Door : doc.doors[x] # None => doc'.doors[x] # None
      /\ \A k \in Keypad : doc'.keypads[k] \in {None, doc.keypads[k]}
      /\ \A p \in Person : doc'.people[p] # None =>
           doc.people[p] # None /\ doc'.people[p].default = doc.people[p].default
  BY DEF Housed
<1>3. Valid(doc')
  BY <1>1, <1>2, ValidAfterRemoval DEF DocOK
<1> QED BY <1>3 DEF DocOK

\* Only the record of a request changes.
LEMMA RequestOnly ==
  ASSUME Assumptions, DocOK, NEW r \in Request, NEW v \in RequestRecord,
         doc' = [doc EXCEPT !.requests[r] = v]
  PROVE  /\ DocOK' /\ doc'.requests = [doc.requests EXCEPT ![r] = v]
         /\ doc'.people = doc.people /\ doc'.schedules = doc.schedules /\ doc'.grants = doc.grants
         /\ doc'.metadata = doc.metadata /\ doc'.authority = doc.authority
         /\ doc'.doors = doc.doors /\ doc'.keypads = doc.keypads
<1>1. doc' \in Document
  BY Puts DEF DocOK
<1>2. /\ doc'.requests = [doc.requests EXCEPT ![r] = v]
      /\ doc'.people = doc.people /\ doc'.schedules = doc.schedules /\ doc'.grants = doc.grants
      /\ doc'.metadata = doc.metadata /\ doc'.authority = doc.authority
      /\ doc'.doors = doc.doors /\ doc'.keypads = doc.keypads
  BY DEF DocOK, Document
<1>3. Valid(doc')
  BY <1>2 DEF DocOK, Valid, SchedulesExist, OwnersExist, ClaimAgrees
<1> QED BY <1>1, <1>2, <1>3 DEF DocOK

\* Only a grant changes.
LEMMA GrantOnly ==
  ASSUME DocOK, NEW g \in Pair, NEW v \in GrantRecord \cup {None}, doc' = [doc EXCEPT !.grants[g] = v]
  PROVE  /\ doc' \in Document /\ doc'.grants = [doc.grants EXCEPT ![g] = v]
         /\ doc'.grants[g] = v /\ \A h \in Pair : h # g => doc'.grants[h] = doc.grants[h]
         /\ doc'.people = doc.people /\ doc'.schedules = doc.schedules /\ doc'.requests = doc.requests
         /\ doc'.metadata = doc.metadata /\ doc'.authority = doc.authority
         /\ doc'.doors = doc.doors /\ doc'.keypads = doc.keypads
<1>1. doc' \in Document
  BY Puts DEF DocOK
<1> QED BY <1>1 DEF DocOK, Document

\* Only the record of a lock changes.
LEMMA MetadataOnly ==
  ASSUME DocOK, NEW g \in Pair, NEW v \in MetadataRecord \cup {None},
         doc' = [doc EXCEPT !.metadata[g] = v]
  PROVE  /\ doc' \in Document /\ doc'.metadata = [doc.metadata EXCEPT ![g] = v]
         /\ doc'.metadata[g] = v /\ \A h \in Pair : h # g => doc'.metadata[h] = doc.metadata[h]
         /\ doc'.people = doc.people /\ doc'.schedules = doc.schedules /\ doc'.requests = doc.requests
         /\ doc'.grants = doc.grants /\ doc'.authority = doc.authority
         /\ doc'.doors = doc.doors /\ doc'.keypads = doc.keypads
<1>1. doc' \in Document
  BY Puts DEF DocOK
<1> QED BY <1>1 DEF DocOK, Document

\* Only a person's PIN changes.
LEMMA AuthorityOnly ==
  ASSUME DocOK, NEW p \in Person, NEW v \in Pin, doc' = [doc EXCEPT !.authority[p] = v]
  PROVE  /\ doc' \in Document /\ doc'.authority = [doc.authority EXCEPT ![p] = v]
         /\ doc'.authority[p] = v /\ \A q \in Person : q # p => doc'.authority[q] = doc.authority[q]
         /\ doc'.people = doc.people /\ doc'.schedules = doc.schedules /\ doc'.requests = doc.requests
         /\ doc'.grants = doc.grants /\ doc'.metadata = doc.metadata
         /\ doc'.doors = doc.doors /\ doc'.keypads = doc.keypads
<1>1. doc' \in Document
  BY Puts DEF DocOK
<1> QED BY <1>1 DEF DocOK, Document

\* A person is deleted with all the person's records.
LEMMA Deleted ==
  ASSUME Assumptions, DocOK, NEW p \in Person, doc' = RemovePerson(doc, p)
  PROVE  /\ DocOK' /\ doc'.people = [doc.people EXCEPT ![p] = None]
         /\ doc'.authority = [doc.authority EXCEPT ![p] = None]
         /\ \A g \in Pair : /\ doc'.grants[g] = IF g[1] = p THEN None ELSE doc.grants[g]
                            /\ doc'.metadata[g] = IF g[1] = p THEN None ELSE doc.metadata[g]
         /\ doc'.schedules = doc.schedules /\ doc'.requests = doc.requests
         /\ doc'.doors = doc.doors /\ doc'.keypads = doc.keypads
<1>1. /\ doc'.people = [doc.people EXCEPT ![p] = None]
      /\ doc'.authority = [doc.authority EXCEPT ![p] = None]
      /\ doc'.grants = [g \in Pair |-> IF g[1] = p THEN None ELSE doc.grants[g]]
      /\ doc'.metadata = [g \in Pair |-> IF g[1] = p THEN None ELSE doc.metadata[g]]
      /\ doc'.schedules = doc.schedules /\ doc'.requests = doc.requests
      /\ doc'.doors = doc.doors /\ doc'.keypads = doc.keypads
  BY DEF RemovePerson, DocOK, Document
<1>2. /\ doc'.people \in [Person -> PersonRecord \cup {None}]
      /\ doc'.authority \in [Person -> Pin]
      /\ doc'.grants \in [Pair -> GrantRecord \cup {None}]
      /\ doc'.metadata \in [Pair -> MetadataRecord \cup {None}]
  BY <1>1 DEF DocOK, Document, Pin
<1>3. doc' \in Document
  BY <1>1, <1>2, Zenon DEF RemovePerson, DocOK, Document
<1>4. /\ \A q \in Person : doc'.people[q] # None =>
           doc.people[q] # None /\ doc'.people[q].default = doc.people[q].default
      /\ \A g \in Pair : doc'.grants[g] \in {None, doc.grants[g]}
      /\ \A g \in Pair : doc'.metadata[g] # None =>
           doc.metadata[g] # None /\ doc'.metadata[g].cred = doc.metadata[g].cred
      /\ \A q \in Person : doc'.authority[q] \in {None, doc.authority[q]}
      /\ \A x \in Door : doc.doors[x] # None => doc'.doors[x] # None
      /\ \A k \in Keypad : doc'.keypads[k] \in {None, doc.keypads[k]}
  BY <1>1 DEF DocOK, Document
<1>5. ASSUME NEW q \in Person, doc'.people[q] = None
      PROVE  doc'.authority[q] = None /\ \A x \in Door : doc'.grants[<<q, x>>] = None
  <2>1. CASE q = p
    BY <2>1, <1>1, Pairs DEF DocOK, Document
  <2>2. CASE q # p
    <3>1. doc.people[q] = None
      BY <2>2, <1>5, <1>1 DEF DocOK, Document
    <3>2. doc.authority[q] = None /\ \A x \in Door : doc.grants[<<q, x>>] = None
      BY <3>1, Pairs DEF DocOK, Valid, OwnersExist
    <3> QED BY <3>2, <1>4, Pairs
  <2> QED BY <2>1, <2>2
<1>6. Valid(doc')
  <2>1. \A q \in Person : doc'.people[q] = None =>
          doc'.authority[q] = None /\ \A x \in Door : doc'.grants[<<q, x>>] = None
    BY <1>5
  <2>2. doc'.schedules = doc.schedules
    BY <1>1
  <2> QED BY <1>3, <1>4, <2>1, <2>2, ValidAfterRemoval DEF DocOK
<1> QED BY <1>1, <1>3, <1>6 DEF DocOK

\* A set-up prepares a person: the document stays valid, and doors, grants and records of locks stay.
LEMMA Preparing ==
  ASSUME Assumptions, DocOK, NEW r \in Request, NEW cred \in Pin,
         Asked[r].kind = "create" \/ doc.people[Asked[r].person] # None,
         doc' = Prepared(doc, r, cred), Valid(doc')
  PROVE  /\ DocOK' /\ doc'.authority = [doc.authority EXCEPT ![Asked[r].person] = cred]
         /\ doc'.requests = [doc.requests EXCEPT ![r] = [state |-> "core_created", added |-> {}]]
         /\ doc'.people[Asked[r].person] # None
         /\ \A q \in Person : q # Asked[r].person => doc'.people[q] = doc.people[q]
         /\ doc'.schedules = doc.schedules /\ doc'.grants = doc.grants /\ doc'.metadata = doc.metadata
         /\ doc'.doors = doc.doors /\ doc'.keypads = doc.keypads
<1> DEFINE p == Asked[r].person
           s == Asked[r].schedule
           request == [state |-> "core_created", added |-> {}]
           e == WithPerson(doc, r)
           f == [e EXCEPT !.authority[p] = cred]
<1>1. p \in Person /\ s \in Schedule /\ request \in RequestRecord
  BY Constants DEF RequestRecord
<1> HIDE DEF p, s
<1>2. \/ e = doc /\ doc.people[p] # None
      \/ \E v \in PersonRecord : e = [doc EXCEPT !.people[p] = v]
  <2>1. CASE Asked[r].kind = "create"
    <3>1. [default |-> s, enabled |-> TRUE, rev |-> 1] \in PersonRecord
      BY <1>1 DEF PersonRecord
    <3>2. e = [doc EXCEPT !.people[p] = [default |-> s, enabled |-> TRUE, rev |-> 1]]
      BY <2>1 DEF WithPerson, AddPerson, p, s
    <3> QED BY <3>1, <3>2
  <2>2. CASE Asked[r].kind # "create" /\ doc.people[p].default = s
    BY <2>2 DEF WithPerson, p, s
  <2>3. CASE Asked[r].kind # "create" /\ doc.people[p].default # s
    <3>1. doc.people[p] \in PersonRecord
      BY <1>1, <2>3 DEF DocOK, Document, p
    <3>2. PICK v \in PersonRecord : v = [doc.people[p] EXCEPT !.default = s, !.rev = doc.people[p].rev + 1]
      <4>1. doc.people[p].rev + 1 \in Nat
        BY <3>1 DEF PersonRecord
      <4> QED BY <3>1, <4>1, <1>1 DEF PersonRecord
    <3>3. e = [doc EXCEPT !.people[p] = v]
      BY <2>3, <3>2 DEF WithPerson, UpdatePerson, p, s
    <3> QED BY <3>3
  <2> QED BY <2>1, <2>2, <2>3 DEF p
<1> HIDE DEF e
<1>3. /\ e \in Document /\ e.people[p] # None
      /\ \A q \in Person : q # p => e.people[q] = doc.people[q]
      /\ e.authority = doc.authority /\ e.requests = doc.requests
      /\ e.schedules = doc.schedules /\ e.grants = doc.grants /\ e.metadata = doc.metadata
      /\ e.doors = doc.doors /\ e.keypads = doc.keypads
  <2>1. CASE e = doc /\ doc.people[p] # None
    BY <2>1 DEF DocOK
  <2>2. ASSUME NEW v \in PersonRecord, e = [doc EXCEPT !.people[p] = v]
        PROVE  /\ e \in Document /\ e.people[p] # None
               /\ \A q \in Person : q # p => e.people[q] = doc.people[q]
               /\ e.authority = doc.authority /\ e.requests = doc.requests
               /\ e.schedules = doc.schedules /\ e.grants = doc.grants /\ e.metadata = doc.metadata
               /\ e.doors = doc.doors /\ e.keypads = doc.keypads
    <3>1. e \in Document
      BY <1>1, <2>2, Puts DEF DocOK
    <3>2. v # None
      BY Constants
    <3> QED BY <1>1, <2>2, <3>1, <3>2 DEF DocOK, Document
  <2> QED BY <1>2, <2>1, <2>2
<1>4. f \in Document /\ doc' = [f EXCEPT !.requests[r] = request]
  <2>1. f \in Document
    BY <1>1, <1>3, Puts
  <2> QED BY <2>1 DEF Prepared, SetAuthority, e, p
<1>5. doc' \in Document
  <2> HIDE DEF f, request
  <2> QED BY <1>1, <1>4, Puts
<1>6. /\ f.people = e.people /\ f.authority = [e.authority EXCEPT ![p] = cred] /\ f.requests = e.requests
      /\ f.schedules = e.schedules /\ f.grants = e.grants /\ f.metadata = e.metadata
      /\ f.doors = e.doors /\ f.keypads = e.keypads
  BY <1>3 DEF Document
<1> HIDE DEF f, request
<1>7. /\ doc'.people = f.people /\ doc'.authority = f.authority
      /\ doc'.requests = [f.requests EXCEPT ![r] = request]
      /\ doc'.schedules = f.schedules /\ doc'.grants = f.grants /\ doc'.metadata = f.metadata
      /\ doc'.doors = f.doors /\ doc'.keypads = f.keypads
  BY <1>4 DEF Document
<1> QED BY <1>3, <1>5, <1>6, <1>7 DEF DocOK, p, request

\* The same for the person asked for: the claim, and nobody else's row.
LEMMA PreparingClaims ==
  ASSUME Assumptions, DocOK, NEW r \in Request, NEW cred \in Pin,
         Asked[r].kind = "create" \/ doc.people[Asked[r].person] # None,
         doc' = Prepared(doc, r, cred), Valid(doc')
  PROVE  /\ doc'.authority = [doc.authority EXCEPT ![Asked[r].person] = cred]
         /\ \A q \in Person : q # Asked[r].person => doc'.people[q] = doc.people[q]
<1>1. doc'.authority = [doc.authority EXCEPT ![Asked[r].person] = cred]
  BY Preparing, ZenonT(60)
<1>2. \A q \in Person : q # Asked[r].person => doc'.people[q] = doc.people[q]
  BY Preparing
<1> QED BY <1>1, <1>2

\* Where a call that provisions is.
LEMMA Places ==
  ASSUME Assumptions, CallTypes, Calls, NEW c \in Caller, call[c].pc \in ProvisionPc
  PROVE  /\ call[c].person \in Person /\ call[c].cred \in Pin /\ call[c].doors \in SUBSET Door
         /\ call[c].todo \subseteq call[c].doors /\ call[c].done \subseteq call[c].doors
         /\ call[c].made \in BOOLEAN /\ call[c].had \in SUBSET Door
         /\ call[c].request \in Request \cup {None}
         /\ call[c].pc \in Recording \cup {"unrecord"} =>
              call[c].door \in Door /\ call[c].door \in call[c].doors /\ Here(c) \in Pair
         /\ call[c].door # None => call[c].door \in call[c].doors /\ call[c].door \in Door
  BY Provisions, Pairs DEF Provision, Steady, Here

\* A request that was prepared and has no result yet.
Unfinished(r) ==
  doc.requests[r] # None /\ doc.requests[r].state \in {"core_created", "provisioning"}

\* How far a request has come, in the document, in the calls and in the answers.
Requests ==
  /\ \A r \in Request :
       /\ begun[r] <= 1
       /\ doc.requests[r] = None \/ doc.requests[r].state = "core_created" => begun[r] = 0
       /\ doc.requests[r] # None /\ doc.requests[r].state \in Terminal =>
            [request |-> r, state |-> doc.requests[r].state, added |-> doc.requests[r].added] \in answers
  /\ \A a \in answers :
       /\ doc.requests[a.request] # None
       /\ doc.requests[a.request].state = a.state /\ doc.requests[a.request].added = a.added
  /\ \A c \in Caller : Sets(call[c]) =>
       IF call[c].pc \in {"secret", "core", "discard"} THEN doc.requests[call[c].request] = None
       ELSE IF call[c].pc = "finish" THEN doc.requests[call[c].request] # None
       ELSE Unfinished(call[c].request)

\* Set-ups keep the document valid: grants only go, but for the one that is recorded; whoever is new
\* was asked for, and a request that has a record keeps one.
LEMMA SetUpDocuments ==
  ASSUME Assumptions, DocOK, CallTypes, Calls, Requests, NEW c \in Caller, SetUp(c)
  PROVE  /\ DocOK' /\ Housed
         /\ \A g \in Pair : doc'.grants[g] \in {None, doc.grants[g]} \/ (RecordGrant(c) /\ g = Here(c))
         /\ \A p \in Person :
              /\ doc.people[p] # None => doc'.people[p] # None \/ DeletePerson(c, p)
              /\ doc'.people[p] # None =>
                   doc.people[p] # None \/ \E r \in Creating : Asked[r].person = p /\ doc'.requests[r] # None
         /\ \A r \in Request : doc.requests[r] # None => doc'.requests[r] # None
<1> DEFINE Done == /\ DocOK' /\ Housed
                   /\ \A g \in Pair : doc'.grants[g] \in {None, doc.grants[g]}
                                      \/ (RecordGrant(c) /\ g = Here(c))
                   /\ \A p \in Person :
                        /\ doc.people[p] # None => doc'.people[p] # None \/ DeletePerson(c, p)
                        /\ doc'.people[p] # None =>
                             doc.people[p] # None
                             \/ \E r \in Creating : Asked[r].person = p /\ doc'.requests[r] # None
                   /\ \A r \in Request : doc.requests[r] # None => doc'.requests[r] # None
<1>1. ASSUME doc' = doc, drawn' = drawn, UNCHANGED doors PROVE Done
  BY <1>1 DEF DocOK, Housed
<1>2. ASSUME NEW g \in Pair, doc' = RemoveGrant(doc, g), drawn' = drawn, UNCHANGED doors PROVE Done
  <2>1. doc' = [doc EXCEPT !.grants[g] = None]
    BY <1>2 DEF RemoveGrant
  <2>2. Housed /\ \A h \in Pair : doc'.grants[h] \in {None, doc.grants[h]}
    BY <2>1, <1>2, GrantOnly DEF Housed
  <2>4. doc'.people = doc.people /\ doc'.requests = doc.requests
    BY <2>1, GrantOnly
  <2>3. DocOK'
    BY <2>1, <2>2, GrantOnly, Lighter
  <2> QED BY <2>2, <2>3, <2>4
<1>3. ASSUME NEW g \in Pair, NEW v \in MetadataRecord \cup {None}, doc' = [doc EXCEPT !.metadata[g] = v],
             v # None => doc.metadata[g] # None /\ doc.metadata[g].cred = v.cred,
             drawn' = drawn, UNCHANGED doors PROVE Done
  <2>1. Housed /\ \A h \in Pair : doc'.grants[h] \in {None, doc.grants[h]}
    BY <1>3, MetadataOnly DEF Housed
  <2>2. /\ doc' \in Document /\ doc'.people = doc.people /\ doc'.authority = doc.authority
        /\ doc'.requests = doc.requests
        /\ \A h \in Pair : doc'.metadata[h] # None =>
             doc.metadata[h] # None /\ doc'.metadata[h].cred = doc.metadata[h].cred
    BY <1>3, MetadataOnly
  <2>3. DocOK'
    BY <2>1, <2>2, Lighter
  <2> QED BY <2>1, <2>2, <2>3
<1>4. ASSUME NEW p \in Person, doc' = SetAuthority(doc, p, None), drawn' = drawn, UNCHANGED doors
      PROVE Done
  <2>1. doc' = [doc EXCEPT !.authority[p] = None] /\ None \in Pin
    BY <1>4 DEF SetAuthority, Pin
  <2>2. Housed /\ \A h \in Pair : doc'.grants[h] \in {None, doc.grants[h]}
    BY <2>1, <1>4, AuthorityOnly DEF Housed
  <2>3. /\ doc' \in Document /\ doc'.people = doc.people /\ doc'.metadata = doc.metadata
        /\ doc'.requests = doc.requests
        /\ \A q \in Person : doc'.authority[q] \in {None, doc.authority[q]}
    BY <2>1, AuthorityOnly
  <2>4. DocOK'
    BY <2>2, <2>3, Lighter
  <2> QED BY <2>2, <2>3, <2>4
<1>5. ASSUME NEW r \in Request, NEW v \in RequestRecord, doc' = [doc EXCEPT !.requests[r] = v],
             drawn' = drawn, UNCHANGED doors PROVE Done
  <2>1. v # None
    BY Constants
  <2>2. \A q \in Request : doc.requests[q] # None => doc'.requests[q] # None
    <3>1. doc'.requests = [doc.requests EXCEPT ![r] = v]
      BY <1>5, RequestOnly
    <3> QED BY <2>1, <3>1 DEF DocOK, Document
  <2> QED BY <1>5, <2>2, RequestOnly DEF Housed
<1> HIDE DEF Done
<1>6. ASSUME Prepare(c) PROVE Done
  <2>0. call[c].pc = "core" /\ call[c].pc \in ProvisionPc
    BY <1>6 DEF Prepare, At, ProvisionPc
  <2>1. PICK r \in Request : r = call[c].request
    <3>1. call[c].request # None
      BY <2>0, Provisions DEF SteadyGift, Recording
    <3> QED BY <2>0, <3>1, Places
  <2>2. PICK cred \in Pin : cred = call[c].cred
    BY <2>0, Places
  <2>3. /\ doc' = Prepared(doc, r, cred) /\ Valid(doc') /\ MayPrepare(doc, r, cred, call[c].made)
        /\ drawn' = drawn /\ UNCHANGED doors
    BY <1>6, <2>1, <2>2 DEF Prepare, kept, others
  <2>4. Asked[r].kind = "create" \/ doc.people[Asked[r].person] # None
    BY <2>3 DEF MayPrepare, MayAssign
  <2>5. call[c].person = Asked[r].person /\ Asked[r].kind \in {"create", "assign"}
    BY <2>0, <2>1, Provisions, Constants DEF SteadySetUp
  <2>6. Asked[r].kind = "create" => r \in Creating
    BY DEF Creating
  <2>7. \A q \in Request : doc.requests[q] # None \/ q = r => doc'.requests[q] # None
    <3>1. doc'.requests = [doc.requests EXCEPT ![r] = [state |-> "core_created", added |-> {}]]
      BY <2>3, <2>4, Preparing
    <3>2. [state |-> "core_created", added |-> {}] # None
      <4>1. [state |-> "core_created", added |-> {}] \in RequestRecord
        BY DEF RequestRecord
      <4> QED BY <4>1, Constants
    <3> QED BY <3>1, <3>2 DEF DocOK, Document
  <2>8. \A p \in Person :
          /\ doc.people[p] # None => doc'.people[p] # None
          /\ doc'.people[p] # None =>
               doc.people[p] # None \/ \E q \in Creating : Asked[q].person = p /\ doc'.requests[q] # None
    <3>1. /\ doc'.people[Asked[r].person] # None
          /\ \A q \in Person : q # Asked[r].person => doc'.people[q] = doc.people[q]
      BY <2>3, <2>4, Preparing
    <3>2. doc'.requests[r] # None
      BY <2>7
    <3> QED BY <2>4, <2>5, <2>6, <3>1, <3>2
  <2> QED BY <2>3, <2>4, <2>7, <2>8, Preparing DEF Done, Housed
<1>7. ASSUME NEW p \in Person, DeletePerson(c, p) PROVE Done
  <2>1. doc' = RemovePerson(doc, p) /\ drawn' = drawn /\ UNCHANGED doors
    BY <1>7 DEF DeletePerson, others
  <2>2. (\A q \in Person : q # p => doc'.people[q] = doc.people[q]) /\ doc'.people[p] = None
    <3>1. doc'.people = [doc.people EXCEPT ![p] = None]
      BY <2>1, Deleted
    <3> QED BY <3>1 DEF DocOK, Document
  <2>4. \A q \in Person :
          /\ doc.people[q] # None => doc'.people[q] # None \/ DeletePerson(c, q)
          /\ doc'.people[q] # None => doc.people[q] # None
    BY <1>7, <2>2
  <2> QED BY <2>1, <2>4, Deleted DEF Done, Housed
<1>8. ASSUME RecordMetadata(c) PROVE Done
  <2>0. call[c].pc = "metadata" /\ call[c].pc \in ProvisionPc /\ call[c].pc \in Recording
    BY <1>8 DEF RecordMetadata, Record, At, ProvisionPc, Recording
  <2>1. PICK g \in Pair, cred \in Pin : g = Here(c) /\ cred = call[c].cred
    BY <2>0, Places
  <2>2. drawn' = drawn /\ UNCHANGED doors
    BY <1>8 DEF RecordMetadata, kept, others
  <2>3. CASE doc' = UpsertMetadata(doc, g, cred, "synchronized") /\ Valid(doc')
    <3>1. [cred |-> cred, status |-> "synchronized"] \in MetadataRecord
      BY DEF MetadataRecord
    <3>2. doc' = [doc EXCEPT !.metadata[g] = [cred |-> cred, status |-> "synchronized"]]
      BY <2>3 DEF UpsertMetadata
    <3> QED BY <2>2, <2>3, <3>1, <3>2, MetadataOnly DEF Done, Housed, DocOK
  <2>4. CASE doc' = doc
    BY <2>2, <2>4, <1>1
  <2> QED BY <1>8, <2>1, <2>3, <2>4 DEF RecordMetadata, Record
<1>9. ASSUME RecordGrant(c) PROVE Done
  <2>0. call[c].pc = "grant" /\ call[c].pc \in ProvisionPc /\ call[c].pc \in Recording
    BY <1>9 DEF RecordGrant, At, ProvisionPc, Recording
  <2>1. PICK g \in Pair, cred \in Pin : g = Here(c) /\ cred = call[c].cred
    BY <2>0, Places
  <2>2. drawn' = drawn /\ UNCHANGED doors
    BY <1>9 DEF RecordGrant
  <2>3. CASE doc' = InheritGrant(doc, g, cred) /\ Valid(doc')
    <3>1. [schedule |-> doc.people[g[1]].default, cred |-> cred] \in GrantRecord
      <4>1. g[1] = call[c].person /\ g[1] \in Person /\ doc.people[g[1]] # None
        BY <1>9, <2>1, Pairs DEF RecordGrant, Here
      <4> QED BY <4>1 DEF DocOK, Document, PersonRecord, GrantRecord
    <3>2. doc' = [doc EXCEPT !.grants[g] = [schedule |-> doc.people[g[1]].default, cred |-> cred]]
      BY <2>3 DEF InheritGrant, UpsertGrant
    <3>3. /\ doc' \in Document /\ doc'.people = doc.people /\ doc'.requests = doc.requests
          /\ \A h \in Pair : h # g => doc'.grants[h] = doc.grants[h]
          /\ doc'.schedules = doc.schedules /\ doc'.doors = doc.doors /\ doc'.keypads = doc.keypads
      BY <3>1, <3>2, GrantOnly
    <3> QED BY <2>1, <2>2, <2>3, <3>3, <1>9 DEF Done, Housed, DocOK
  <2>4. CASE doc' = doc
    BY <2>2, <2>4, <1>1
  <2> QED BY <1>9, <2>1, <2>3, <2>4 DEF RecordGrant, Record
<1>10. ASSUME RecordAuthority(c) PROVE Done
  <2>0. call[c].pc = "authority" /\ call[c].pc \in ProvisionPc
    BY <1>10 DEF RecordAuthority, At, ProvisionPc
  <2>1. PICK p \in Person, cred \in Pin : p = call[c].person /\ cred = call[c].cred
    BY <2>0, Places
  <2>2. drawn' = drawn /\ UNCHANGED doors
    BY <1>10 DEF RecordAuthority, kept, others
  <2>3. CASE doc' = SetAuthority(doc, p, cred) /\ Valid(doc')
    <3>1. doc' = [doc EXCEPT !.authority[p] = cred]
      BY <2>3 DEF SetAuthority
    <3> QED BY <2>2, <2>3, <3>1, AuthorityOnly DEF Done, Housed, DocOK
  <2>4. CASE doc' = doc
    BY <2>2, <2>4, <1>1
  <2> QED BY <1>10, <2>1, <2>3, <2>4 DEF RecordAuthority
<1>11. ASSUME UndoGrant(c) PROVE Done
  <2>0. call[c].pc = "undo_grant" /\ call[c].pc \in ProvisionPc /\ call[c].pc \in Recording
    BY <1>11 DEF UndoGrant, At, ProvisionPc, Recording
  <2>1. PICK g \in Pair : g = Here(c)
    BY <2>0, Places
  <2> QED BY <1>2, <1>11, <2>1 DEF UndoGrant, kept, others
<1>12. ASSUME UndoMetadata(c) \/ Unrecord(c) PROVE Done
  <2>0. call[c].pc \in ProvisionPc /\ call[c].pc \in Recording \cup {"unrecord"}
    BY <1>12 DEF UndoMetadata, Unrecord, At, ProvisionPc, Recording
  <2>1. PICK g \in Pair : g = Here(c)
    BY <2>0, Places
  <2>2. doc' = [doc EXCEPT !.metadata[g] = None] /\ drawn' = drawn /\ UNCHANGED doors
    BY <1>12, <2>1 DEF UndoMetadata, Unrecord, RemoveMetadata, kept, others
  <2> QED BY <1>3, <2>2
<1>13. ASSUME UndoAuthority(c) PROVE Done
  <2>0. call[c].pc \in ProvisionPc /\ drawn' = drawn /\ UNCHANGED doors
    BY <1>13 DEF UndoAuthority, At, ProvisionPc, others
  <2>1. PICK p \in Person : p = call[c].person
    BY <2>0, Places
  <2>2. doc' = doc \/ doc' = SetAuthority(doc, p, None)
    BY <1>13, <2>1 DEF UndoAuthority
  <2> QED BY <1>1, <1>4, <2>0, <2>2
<1>14. ASSUME NEW removed \in BOOLEAN, GiveFails(c, removed) PROVE Done
  <2>0. call[c].pc \in ProvisionPc /\ drawn' = drawn /\ UNCHANGED doors
    BY <1>14 DEF GiveFails, At, ProvisionPc, others
  <2>1. PICK p \in Person : p = call[c].person
    BY <2>0, Places
  <2>2. doc' = doc \/ doc' = SetAuthority(doc, p, None)
    BY <1>14, <2>1 DEF GiveFails
  <2> QED BY <1>1, <1>4, <2>0, <2>2
<1>15. ASSUME NEW x \in Door, TakeBack(c, x) PROVE Done
  <2>0. call[c].pc \in ProvisionPc /\ drawn' = drawn /\ UNCHANGED doors
    BY <1>15 DEF TakeBack, At, ProvisionPc, kept, others
  <2>1. PICK g \in Pair : g = <<call[c].person, x>>
    BY <2>0, Places, Pairs
  <2> QED BY <1>2, <1>15, <2>0, <2>1 DEF TakeBack
<1>16. ASSUME NEW x \in Door, LeaveMarked(c, x) PROVE Done
  <2>0. call[c].pc \in ProvisionPc /\ drawn' = drawn /\ UNCHANGED doors
    BY <1>16 DEF LeaveMarked, At, ProvisionPc, kept, others
  <2>1. PICK g \in Pair : g = <<call[c].person, x>>
    BY <2>0, Places, Pairs
  <2>2. doc.metadata[g] # None
    BY <1>16, <2>1 DEF LeaveMarked, Left
  <2>3. doc.metadata[g] \in MetadataRecord
    BY <2>2 DEF DocOK, Document
  <2>4. PICK v \in MetadataRecord : v = [doc.metadata[g] EXCEPT !.status = "attention"]
    BY <2>3 DEF MetadataRecord
  <2>5. v.cred = doc.metadata[g].cred
    BY <2>3, <2>4 DEF MetadataRecord
  <2>6. doc' = [doc EXCEPT !.metadata[g] = v]
    BY <1>16, <2>1, <2>4 DEF LeaveMarked
  <2> QED BY <1>3, <2>0, <2>2, <2>5, <2>6
<1>17. ASSUME MarkProvisioning(c) PROVE Done
  <2>0. call[c].pc = "finish" /\ call[c].pc \in ProvisionPc /\ drawn' = drawn /\ UNCHANGED doors
    BY <1>17 DEF MarkProvisioning, At, ProvisionPc, others
  <2>1. PICK r \in Request : r = call[c].request
    <3>1. call[c].request # None
      BY <2>0, Provisions DEF SteadyGift, Recording
    <3> QED BY <2>0, <3>1, Places
  <2>2. doc.requests[r] \in RequestRecord
    <3>1. doc.requests[r] # None
      BY <2>0, <2>1, Provisions, Constants DEF Requests, Sets
    <3> QED BY <3>1 DEF DocOK, Document
  <2>3. PICK v \in RequestRecord : v = [doc.requests[r] EXCEPT !.state = "provisioning"]
    BY <2>2 DEF RequestRecord
  <2>4. doc' = [doc EXCEPT !.requests[r] = v]
    BY <1>17, <2>1, <2>3 DEF MarkProvisioning
  <2> QED BY <1>5, <2>0, <2>4
<1>18. ASSUME SaveResult(c) PROVE Done
  <2>0. call[c].pc = "save" /\ drawn' = drawn /\ UNCHANGED doors
    BY <1>18 DEF SaveResult, At, others
  <2>1. PICK a \in Answer : a = call[c].answer
    BY <2>0, Shapes DEF CallTypes
  <2>2. a.request \in Request /\ [state |-> a.state, added |-> a.added] \in RequestRecord
    BY <2>1 DEF Answer, RequestRecord
  <2>3. doc' = [doc EXCEPT !.requests[a.request] = [state |-> a.state, added |-> a.added]]
    BY <1>18, <2>1 DEF SaveResult
  <2> QED BY <1>5, <2>0, <2>2, <2>3
<1>19. ASSUME \/ \E r \in Request : Submit(c, r) \/ Repeat(c, r)
              \/ \E p \in Person, x \in Door : Give(c, p, x)
              \/ \E x \in Door : Program(c, x)
              \/ \E works \in BOOLEAN : Discard(c, works)
              \/ StoreSecret(c) \/ PrepareFails(c) \/ AnswerAgain(c) \/ NothingToDo(c) \/ FinishFails(c)
              \/ CheckAdditions(c) \/ Refuse(c) \/ RecordNoGrant(c) \/ UndoFails(c) \/ TakenBack(c)
              \/ AllAdded(c) \/ NotAdded(c) \/ SaveFails(c)
       PROVE  Done
  <2>1. doc' = doc /\ drawn' = drawn /\ UNCHANGED doors
    BY <1>19, Zenon DEF Submit, Repeat, Begin, Give, Program, Discard, StoreSecret, PrepareFails, AnswerAgain,
                 NothingToDo, FinishFails, CheckAdditions, Refuse, RecordNoGrant, UndoFails, TakenBack,
                 AllAdded, NotAdded, SaveFails, kept, others
  <2> QED BY <1>1, <2>1, Zenon
<1>20. Done
  BY <1>6, <1>7, <1>8, <1>9, <1>10, <1>11, <1>12, <1>13, <1>14, <1>15, <1>16, <1>17, <1>18, <1>19
     DEF SetUp
<1> QED BY <1>20 DEF Done

\* A restart keeps the document valid: doors with a keypad that is switched on take PINs again.
LEMMA RestartDocuments ==
  ASSUME Assumptions, DocOK, Restart
  PROVE  /\ DocOK' /\ Furnished /\ drawn' = drawn /\ UNCHANGED hours /\ doc'.keypads = doc.keypads
         /\ \E xs \in SUBSET InUse(doc) :
              /\ \A x \in xs : Managed(doc, x)
              /\ (\A x \in InUse(doc) : Managed(doc, x)) => xs = InUse(doc)
              /\ \A x \in Door : doc'.doors[x] = IF x \in xs \ WithLock THEN [doc.doors[x] EXCEPT !.pin = TRUE]
                                                 ELSE doc.doors[x]
<1> DEFINE astray == {x \in InUse(doc) : ~Managed(doc, x)}
<1>1. PICK xs \in SUBSET InUse(doc) :
        /\ \A x \in xs : Managed(doc, x)
        /\ astray = {} => xs = InUse(doc)
        /\ doc' = Reconciled(doc, xs)
  BY DEF Restart
<1>2. InUse(doc) \subseteq Door
  BY DEF InUse, DocOK, Document, KeypadRecord
<1>3. PICK f : f = [x \in Door |-> IF x \in xs \ WithLock THEN [doc.doors[x] EXCEPT !.pin = TRUE]
                                   ELSE doc.doors[x]]
  OBVIOUS
<1>4. f \in [Door -> DoorRecord \cup {None}]
  <2>1. ASSUME NEW x \in Door PROVE f[x] \in DoorRecord \cup {None}
    <3>1. CASE x \in xs \ WithLock
      <4>1. doc.doors[x] \in DoorRecord
        BY <1>1, <3>1 DEF Managed, DocOK, Document
      <4>2. PICK v \in DoorRecord : v = [doc.doors[x] EXCEPT !.pin = TRUE]
        BY <4>1 DEF DoorRecord
      <4> QED BY <1>3, <3>1, <4>2
    <3>2. CASE x \notin xs \ WithLock
      BY <1>3, <3>2 DEF DocOK, Document
    <3> QED BY <3>1, <3>2
  <2> QED BY <2>1, <1>3
<1>5. doc' = [doc EXCEPT !.doors = f]
  BY <1>1, <1>3 DEF Reconciled
<1>6. doc' \in Document /\ Furnished /\ doc'.keypads = doc.keypads /\ doc'.doors = f
  BY <1>4, <1>5 DEF Furnished, DocOK, Document
<1>7. \A x \in Door : doc.doors[x] # None => doc'.doors[x] # None
  <2>1. ASSUME NEW x \in Door, doc.doors[x] # None PROVE f[x] # None
    <3>1. CASE x \in xs \ WithLock
      <4>1. doc.doors[x] \in DoorRecord
        BY <2>1 DEF DocOK, Document
      <4>2. PICK v \in DoorRecord : v = [doc.doors[x] EXCEPT !.pin = TRUE]
        BY <4>1 DEF DoorRecord
      <4> QED BY <1>3, <3>1, <4>2, Constants
    <3>2. CASE x \notin xs \ WithLock
      BY <1>3, <2>1, <3>2
    <3> QED BY <3>1, <3>2
  <2> QED BY <2>1, <1>6
<1>8. DocOK'
  <2>1. \A k \in Keypad : doc'.keypads[k] \in {None, doc.keypads[k]}
    BY <1>6
  <2> QED BY <1>6, <1>7, <2>1, FurnishedDocument
<1>9. drawn' = drawn /\ UNCHANGED hours
  BY DEF Restart
<1>10. (\A x \in InUse(doc) : Managed(doc, x)) => xs = InUse(doc)
  BY <1>1
<1>11. \A x \in Door : doc'.doors[x] = IF x \in xs \ WithLock THEN [doc.doors[x] EXCEPT !.pin = TRUE]
                                        ELSE doc.doors[x]
  BY <1>3, <1>6
<1>12. Furnished /\ doc'.keypads = doc.keypads
  BY <1>6
<1>13. xs \in SUBSET InUse(doc) /\ \A x \in xs : Managed(doc, x)
  BY <1>1
<1>14. \E ys \in SUBSET InUse(doc) :
         /\ \A x \in ys : Managed(doc, x)
         /\ (\A x \in InUse(doc) : Managed(doc, x)) => ys = InUse(doc)
         /\ \A x \in Door : doc'.doors[x] = IF x \in ys \ WithLock THEN [doc.doors[x] EXCEPT !.pin = TRUE]
                                            ELSE doc.doors[x]
  <2> WITNESS xs \in SUBSET InUse(doc)
  <2> QED BY <1>10, <1>11, <1>13
<1> QED BY <1>8, <1>9, <1>12, <1>14

\* A restart ends all calls, or the home stays down.
LEMMA RestartCalls ==
  ASSUME CallTypes, Restart
  PROVE  /\ CallTypes' /\ Calls' /\ met' = met
         /\ \A c \in Caller : call'[c].pc \in {"free", "down"} /\ Doors(call'[c]) = {} /\ ~Busy(call'[c])
         /\ (\A x \in InUse(doc) : Managed(doc, x)) =>
              moved' = {} /\ \A c \in Caller : call'[c].pc = "free"
         /\ (\E x \in InUse(doc) : ~Managed(doc, x)) =>
              moved' = moved /\ \A c \in Caller : call'[c].pc = "down"
<1> DEFINE astray == {x \in InUse(doc) : ~Managed(doc, x)}
           next == IF astray = {} THEN Free ELSE [pc |-> "down"]
<1>1. /\ call' = [c \in Caller |-> next] /\ met' = met
      /\ moved' = IF astray = {} THEN {} ELSE moved
  BY DEF Restart
<1>2. next \in CallRecord /\ next.pc \in {"free", "down"} /\ (next.pc = "free" <=> astray = {})
  BY DEF Free, CallRecord
<1>3. Doors(next) = {} /\ ~Busy(next) /\ Coherent(next)
  <2>1. Doors(next) = {}
    BY <1>2, Fields
  <2>2. ~Busy(next) /\ Coherent(next)
    BY <1>2 DEF Busy, Coherent, ProvisionPc, DoorPc
  <2> QED BY <2>1, <2>2
<1> HIDE DEF next
<1>4. CallTypes'
  BY <1>1, <1>2 DEF CallTypes
<1>5. Calls'
  BY <1>1, <1>3 DEF Calls, Sets, Gives, At
<1>6. \A c \in Caller : call'[c].pc \in {"free", "down"} /\ Doors(call'[c]) = {} /\ ~Busy(call'[c])
  BY <1>1, <1>2, <1>3
<1>7. CASE astray = {}
  <2>1. \A x \in InUse(doc) : Managed(doc, x)
    BY <1>7
  <2> QED BY <1>1, <1>2, <1>4, <1>5, <1>6, <1>7, <2>1
<1>8. CASE astray # {}
  <2>1. \E x \in InUse(doc) : ~Managed(doc, x)
    BY <1>8
  <2>2. next.pc = "down"
    BY <1>2, <1>8
  <2> QED BY <1>1, <1>4, <1>5, <1>6, <1>8, <2>1, <2>2
<1> QED BY <1>7, <1>8

\* What a step of a call that provisions leaves of it.
Carries(c) ==
  /\ call[c] \in Provision /\ call'[c] \in Provision
  /\ call'[c].request = call[c].request /\ call'[c].person = call[c].person
  /\ call'[c].doors = call[c].doors
SameSecret(c) == call'[c].cred = call[c].cred /\ call'[c].made = call[c].made
SamePlace(c) ==
  /\ call'[c].todo = call[c].todo /\ call'[c].done = call[c].done /\ call'[c].door = call[c].door

\* A call that provisions goes on, and keeps what it has.
LEMMA GoesFields ==
  ASSUME CallTypes, Calls, NEW c \in Caller, call[c].pc \in ProvisionPc, NEW next \in ProvisionPc,
         Goes(c, next)
  PROVE  /\ Carries(c) /\ SameSecret(c) /\ SamePlace(c)
         /\ call'[c].pc = next /\ call'[c].had = call[c].had
<1>1. call[c] \in Provision
  BY Provisions
<1>2. call'[c] = [call[c] EXCEPT !.pc = next]
  BY DEF Goes, Becomes, CallTypes
<1>3. PICK r \in Provision : r = call[c]
  BY <1>1
<1>4. PICK s : s = [r EXCEPT !.pc = next]
  OBVIOUS
<1>5. /\ s \in Provision /\ s.pc = next /\ s.request = r.request /\ s.person = r.person /\ s.todo = r.todo
      /\ s.done = r.done /\ s.door = r.door /\ s.cred = r.cred /\ s.made = r.made /\ s.doors = r.doors
      /\ s.had = r.had
  BY <1>4 DEF Provision, ProvisionPc
<1>6. call'[c] = s
  BY <1>2, <1>3, <1>4
<1> QED BY <1>3, <1>5, <1>6 DEF Carries, SameSecret, SamePlace

\* The PIN is stored.
LEMMA Secreting ==
  ASSUME CallTypes, Calls, stored \in Nat, NEW c \in Caller, StoreSecret(c)
  PROVE  /\ At(c, "secret") /\ Carries(c) /\ SamePlace(c)
         /\ call'[c].pc = IF call[c].request # None THEN "core" ELSE "metadata"
         /\ call'[c].cred = stored + 1 /\ call'[c].made
<1>0. call[c].pc = "secret" /\ call[c].pc \in ProvisionPc
  BY DEF StoreSecret, At, ProvisionPc
<1>1. call[c] \in Provision /\ (SettingUp(c) <=> call[c].request # None)
  BY <1>0, Provisions
<1>2. call'[c] = [call[c] EXCEPT !.cred = stored + 1, !.made = TRUE,
                                 !.pc = IF call[c].request # None THEN "core" ELSE "metadata"]
  <2>1. Becomes(c, [call[c] EXCEPT !.cred = stored + 1, !.made = TRUE,
                                   !.pc = IF SettingUp(c) THEN "core" ELSE "metadata"])
    BY DEF StoreSecret
  <2> QED BY <2>1, <1>1 DEF Becomes, CallTypes
<1>3. PICK r \in Provision : r = call[c]
  BY <1>1
<1>4. PICK n \in Nat, pc \in {"core", "metadata"} :
        n = stored + 1 /\ pc = IF r.request # None THEN "core" ELSE "metadata"
  OBVIOUS
<1>5. PICK s : s = [r EXCEPT !.cred = n, !.made = TRUE, !.pc = pc]
  OBVIOUS
<1>6. /\ s \in Provision /\ s.pc = pc /\ s.request = r.request /\ s.person = r.person /\ s.todo = r.todo
      /\ s.done = r.done /\ s.door = r.door /\ s.cred = n /\ s.made = TRUE /\ s.doors = r.doors
  BY <1>5 DEF Provision, Pin
<1>7. call'[c] = s
  BY <1>2, <1>3, <1>4, <1>5
<1> QED BY <1>0, <1>3, <1>4, <1>6, <1>7 DEF Carries, SamePlace, At

\* The request is marked as being provisioned.
LEMMA Marking ==
  ASSUME CallTypes, Calls, NEW c \in Caller, MarkProvisioning(c)
  PROVE  /\ At(c, "finish") /\ Carries(c) /\ SameSecret(c) /\ SamePlace(c) /\ call'[c].pc = "check"
<1>0. call[c].pc = "finish" /\ call[c].pc \in ProvisionPc
  BY DEF MarkProvisioning, At, ProvisionPc
<1>1. call[c] \in Provision
  BY <1>0, Provisions
<1>2. PICK xs \in SUBSET Door : xs = {g[2] : g \in MetadataOf(doc, call[c].person)}
  <2>1. {g[2] : g \in MetadataOf(doc, call[c].person)} \in SUBSET Door
    BY <1>1, Pairs DEF MetadataOf, Provision
  <2> QED BY <2>1
<1>3. call'[c] = [call[c] EXCEPT !.pc = "check", !.had = xs]
  BY <1>2 DEF MarkProvisioning, Becomes, CallTypes
<1>4. PICK r \in Provision : r = call[c]
  BY <1>1
<1>5. PICK s : s = [r EXCEPT !.pc = "check", !.had = xs]
  OBVIOUS
<1>6. /\ s \in Provision /\ s.pc = "check" /\ s.request = r.request /\ s.person = r.person /\ s.todo = r.todo
      /\ s.done = r.done /\ s.door = r.door /\ s.cred = r.cred /\ s.made = r.made /\ s.doors = r.doors
  BY <1>5 DEF Provision
<1>7. call'[c] = s
  BY <1>3, <1>4, <1>5
<1> QED BY <1>0, <1>4, <1>6, <1>7 DEF Carries, SameSecret, SamePlace, At

\* The doors are looked at before the first is programmed.
LEMMA Checking ==
  ASSUME CallTypes, Calls, NEW c \in Caller, CheckAdditions(c)
  PROVE  /\ At(c, "check") /\ Carries(c) /\ SameSecret(c)
         /\ call'[c].done = call[c].done /\ call'[c].door = call[c].door
         /\ \/ /\ MayAdd(doc, call[c].person, call[c].todo, call[c].cred) /\ call'[c].pc = "door"
               /\ call'[c].todo = Additions(doc, call[c].person, call[c].todo)
            \/ call'[c].pc = "failed" /\ call'[c].todo = call[c].todo
<1>0. call[c].pc = "check" /\ call[c].pc \in ProvisionPc
  BY DEF CheckAdditions, At, ProvisionPc
<1>1. call[c] \in Provision
  BY <1>0, Provisions
<1>2. PICK r \in Provision : r = call[c]
  BY <1>1
<1>3. CASE MayAdd(doc, call[c].person, call[c].todo, call[c].cred)
  <2>1. PICK xs \in SUBSET Door : xs = Additions(doc, call[c].person, call[c].todo)
    BY <1>1 DEF Additions, Provision
  <2>2. call'[c] = [call[c] EXCEPT !.pc = "door", !.todo = xs]
    BY <1>3, <2>1 DEF CheckAdditions, Becomes, CallTypes
  <2>3. PICK s : s = [r EXCEPT !.pc = "door", !.todo = xs]
    OBVIOUS
  <2>4. /\ s \in Provision /\ s.pc = "door" /\ s.request = r.request /\ s.person = r.person /\ s.todo = xs
        /\ s.done = r.done /\ s.door = r.door /\ s.cred = r.cred /\ s.made = r.made /\ s.doors = r.doors
    BY <2>3 DEF Provision
  <2>5. call'[c] = s
    BY <1>2, <2>2, <2>3
  <2> QED BY <1>0, <1>2, <1>3, <2>1, <2>4, <2>5 DEF Carries, SameSecret, At
<1>4. CASE ~MayAdd(doc, call[c].person, call[c].todo, call[c].cred)
  <2>1. Goes(c, "failed") /\ "failed" \in ProvisionPc
    BY <1>4 DEF CheckAdditions, Goes, ProvisionPc
  <2> QED BY <1>0, <2>1, GoesFields DEF SamePlace, At
<1> QED BY <1>3, <1>4

\* A door is programmed.
LEMMA Programming ==
  ASSUME Assumptions, CallTypes, Calls, NEW c \in Caller, NEW x \in Door, Program(c, x)
  PROVE  /\ At(c, "door") /\ x \in call[c].todo /\ Carries(c) /\ SameSecret(c)
         /\ call'[c].done = call[c].done /\ call'[c].door = x /\ call'[c].todo = call[c].todo \ {x}
         /\ call'[c].pc = IF call[c].cred = None THEN "secret" ELSE "metadata"
<1>0. call[c].pc = "door" /\ call[c].pc \in ProvisionPc /\ x \in call[c].todo
  BY DEF Program, At, ProvisionPc
<1>1. call[c] \in Provision
  BY <1>0, Provisions
<1>2. PICK r \in Provision : r = call[c]
  BY <1>1
<1>3. PICK pc \in {"secret", "metadata"} : pc = IF r.cred = None THEN "secret" ELSE "metadata"
  OBVIOUS
<1>4. call'[c] = [call[c] EXCEPT !.pc = pc, !.door = x, !.todo = call[c].todo \ {x}]
  BY <1>0, <1>2, <1>3 DEF Program, Becomes, CallTypes
<1>5. PICK s : s = [r EXCEPT !.pc = pc, !.door = x, !.todo = r.todo \ {x}]
  OBVIOUS
<1>6. /\ s \in Provision /\ s.pc = pc /\ s.request = r.request /\ s.person = r.person /\ s.todo = r.todo \ {x}
      /\ s.done = r.done /\ s.door = x /\ s.cred = r.cred /\ s.made = r.made /\ s.doors = r.doors
  BY <1>5 DEF Provision
<1>7. call'[c] = s
  BY <1>2, <1>4, <1>5
<1> QED BY <1>0, <1>2, <1>3, <1>6, <1>7 DEF Carries, SameSecret, At

\* The authority is recorded: the next door, or the giving ends.
LEMMA Authorizing ==
  ASSUME Assumptions, CallTypes, Calls, NEW c \in Caller, RecordAuthority(c)
  PROVE  /\ At(c, "authority")
         /\ \/ /\ Goes(c, "undo_grant") /\ doc' = doc
            \/ /\ MayClaim(doc, call[c].person, call[c].cred) /\ Valid(doc')
               /\ doc' = SetAuthority(doc, call[c].person, call[c].cred)
               /\ \/ call[c].request = None /\ Becomes(c, Free)
                  \/ /\ call[c].request # None /\ Carries(c) /\ SameSecret(c) /\ call'[c].pc = "door"
                     /\ call'[c].todo = call[c].todo /\ call'[c].door = call[c].door
                     /\ call'[c].done = call[c].done \cup {call[c].door}
<1>0. call[c].pc = "authority" /\ call[c].pc \in ProvisionPc
  BY DEF RecordAuthority, At, ProvisionPc
<1>1. /\ call[c] \in Provision /\ (Giving(c) <=> call[c].request = None) /\ Steady(call[c])
  BY <1>0, Provisions
<1>2. CASE Goes(c, "undo_grant") /\ doc' = doc
  BY <1>0, <1>2 DEF At
<1>3. CASE /\ MayClaim(doc, call[c].person, call[c].cred) /\ Valid(doc')
           /\ doc' = SetAuthority(doc, call[c].person, call[c].cred)
           /\ Becomes(c, IF Giving(c) THEN Free
                         ELSE [call[c] EXCEPT !.pc = "door", !.done = call[c].done \cup {call[c].door}])
  <2>1. CASE call[c].request = None
    BY <1>0, <1>1, <1>3, <2>1 DEF At
  <2>2. CASE call[c].request # None
    <3>1. PICK r \in Provision : r = call[c]
      BY <1>1
    <3>2. PICK xs \in SUBSET Door : xs = r.done \cup {r.door}
      <4>1. r.door \in Door /\ r.done \in SUBSET Door
        BY <1>0, <1>1, <3>1 DEF Steady, Recording, Provision
      <4> QED BY <4>1
    <3>3. call'[c] = [call[c] EXCEPT !.pc = "door", !.done = xs]
      BY <1>1, <1>3, <2>2, <3>1, <3>2 DEF Becomes, CallTypes
    <3>4. PICK s : s = [r EXCEPT !.pc = "door", !.done = xs]
      OBVIOUS
    <3>5. /\ s \in Provision /\ s.pc = "door" /\ s.request = r.request /\ s.person = r.person /\ s.todo = r.todo
          /\ s.done = xs /\ s.door = r.door /\ s.cred = r.cred /\ s.made = r.made /\ s.doors = r.doors
      BY <3>4 DEF Provision
    <3>6. call'[c] = s
      BY <3>1, <3>3, <3>4
    <3> QED BY <1>0, <1>3, <2>2, <3>1, <3>2, <3>5, <3>6 DEF Carries, SameSecret, At
  <2> QED BY <2>1, <2>2
<1> QED BY <1>2, <1>3 DEF RecordAuthority

\* What was added is taken back, or stays marked.
LEMMA Undoing ==
  ASSUME Assumptions, CallTypes, Calls, NEW c \in Caller
  PROVE  /\ \A x \in Door : TakeBack(c, x) =>
              /\ At(c, "rollback") /\ Carries(c) /\ SameSecret(c) /\ call'[c].pc = "unrecord"
              /\ call'[c].todo = call[c].todo /\ call'[c].door = x /\ call'[c].done = call[c].done \ {x}
         /\ Unrecord(c) =>
              /\ At(c, "unrecord") /\ Carries(c) /\ SameSecret(c) /\ call'[c].pc = "rollback"
              /\ call'[c].todo = call[c].todo /\ call'[c].door = None /\ call'[c].done = call[c].done
         /\ \A x \in Door : LeaveMarked(c, x) =>
              /\ At(c, "rollback") /\ Carries(c) /\ SameSecret(c) /\ call'[c].pc = "rollback"
              /\ call'[c].todo = call[c].todo /\ call'[c].door \in {None, call[c].door}
              /\ call'[c].door # x
              /\ call'[c].done = call[c].done \ {x}
<1>1. ASSUME NEW x \in Door, TakeBack(c, x)
      PROVE  /\ At(c, "rollback") /\ Carries(c) /\ SameSecret(c) /\ call'[c].pc = "unrecord"
             /\ call'[c].todo = call[c].todo /\ call'[c].door = x /\ call'[c].done = call[c].done \ {x}
  <2>1. call[c].pc = "rollback" /\ call[c].pc \in ProvisionPc
    BY <1>1 DEF TakeBack, At, ProvisionPc
  <2>2. PICK r \in Provision : r = call[c]
    BY <2>1, Provisions
  <2>3. call'[c] = [call[c] EXCEPT !.pc = "unrecord", !.door = x, !.done = call[c].done \ {x}]
    BY <1>1, <2>2 DEF TakeBack, Becomes, CallTypes
  <2>4. PICK s : s = [r EXCEPT !.pc = "unrecord", !.door = x, !.done = r.done \ {x}]
    OBVIOUS
  <2>5. /\ s \in Provision /\ s.pc = "unrecord" /\ s.request = r.request /\ s.person = r.person
        /\ s.todo = r.todo /\ s.done = r.done \ {x} /\ s.door = x /\ s.cred = r.cred /\ s.made = r.made
        /\ s.doors = r.doors
    BY <2>4 DEF Provision
  <2>6. call'[c] = s
    BY <2>2, <2>3, <2>4
  <2> QED BY <2>1, <2>2, <2>5, <2>6 DEF Carries, SameSecret, At
<1>2. ASSUME Unrecord(c)
      PROVE  /\ At(c, "unrecord") /\ Carries(c) /\ SameSecret(c) /\ call'[c].pc = "rollback"
             /\ call'[c].todo = call[c].todo /\ call'[c].door = None /\ call'[c].done = call[c].done
  <2>1. call[c].pc = "unrecord" /\ call[c].pc \in ProvisionPc
    BY <1>2 DEF Unrecord, At, ProvisionPc
  <2>2. PICK r \in Provision : r = call[c]
    BY <2>1, Provisions
  <2>3. call'[c] = [call[c] EXCEPT !.pc = "rollback", !.door = None]
    BY <1>2, <2>2 DEF Unrecord, Becomes, CallTypes
  <2>4. PICK s : s = [r EXCEPT !.pc = "rollback", !.door = None]
    OBVIOUS
  <2>5. /\ s \in Provision /\ s.pc = "rollback" /\ s.request = r.request /\ s.person = r.person
        /\ s.todo = r.todo /\ s.done = r.done /\ s.door = None /\ s.cred = r.cred /\ s.made = r.made
        /\ s.doors = r.doors
    BY <2>4 DEF Provision
  <2>6. call'[c] = s
    BY <2>2, <2>3, <2>4
  <2> QED BY <2>1, <2>2, <2>5, <2>6 DEF Carries, SameSecret, At
<1>3. ASSUME NEW x \in Door, LeaveMarked(c, x)
      PROVE  /\ At(c, "rollback") /\ Carries(c) /\ SameSecret(c) /\ call'[c].pc = "rollback"
             /\ call'[c].todo = call[c].todo /\ call'[c].door \in {None, call[c].door}
             /\ call'[c].door # x
             /\ call'[c].done = call[c].done \ {x}
  <2>1. call[c].pc = "rollback" /\ call[c].pc \in ProvisionPc
    BY <1>3 DEF LeaveMarked, At, ProvisionPc
  <2>2. PICK r \in Provision : r = call[c]
    BY <2>1, Provisions
  <2>3. PICK y \in Door \cup {None} : y = IF r.door = x THEN None ELSE r.door
    BY DEF Provision
  <2>4. call'[c] = [call[c] EXCEPT !.done = call[c].done \ {x}, !.door = y]
    BY <1>3, <2>2, <2>3 DEF LeaveMarked, Becomes, CallTypes
  <2>5. PICK s : s = [r EXCEPT !.done = r.done \ {x}, !.door = y]
    OBVIOUS
  <2>6. /\ s \in Provision /\ s.pc = r.pc /\ s.request = r.request /\ s.person = r.person
        /\ s.todo = r.todo /\ s.done = r.done \ {x} /\ s.door = y /\ s.cred = r.cred /\ s.made = r.made
        /\ s.doors = r.doors
    BY <2>5 DEF Provision
  <2>7. call'[c] = s
    BY <2>2, <2>4, <2>5
  <2>8. y # x /\ y \in {None, r.door}
    BY <2>3, Constants
  <2> QED BY <2>1, <2>2, <2>6, <2>7, <2>8 DEF Carries, SameSecret, At
<1> QED BY <1>1, <1>2, <1>3

(***************************************************************************)
(* Requests and answers.                                                   *)
(***************************************************************************)

\* What a call for a request finds in the document.
Stage(r) ==
  Sets(r) =>
    IF r.pc \in {"secret", "core", "discard"} THEN doc.requests[r.request] = None
    ELSE IF r.pc = "finish" THEN doc.requests[r.request] # None
    ELSE Unfinished(r.request)

History == answers \subseteq Answer /\ begun \in [Request -> Nat]

\* A step that changes no request, and no answer.
LEMMA RequestsStay ==
  ASSUME CallTypes, Requests, NEW c \in Caller, Turn(c), doc'.requests = doc.requests, begun' = begun,
         answers' = answers,
         Sets(call'[c]) =>
           IF call'[c].pc \in {"secret", "core", "discard"} THEN doc.requests[call'[c].request] = None
           ELSE IF call'[c].pc = "finish" THEN doc.requests[call'[c].request] # None
           ELSE Unfinished(call'[c].request)
  PROVE  Requests'
<1>1. \A o \in Caller : o # c => call'[o] = call[o]
  BY DEF Turn, CallTypes
<1>2. ASSUME NEW o \in Caller, Sets(call'[o])
      PROVE  IF call'[o].pc \in {"secret", "core", "discard"} THEN doc'.requests[call'[o].request] = None
             ELSE IF call'[o].pc = "finish" THEN doc'.requests[call'[o].request] # None
             ELSE /\ doc'.requests[call'[o].request] # None
                  /\ doc'.requests[call'[o].request].state \in {"core_created", "provisioning"}
  <2>1. CASE o = c
    BY <1>2, <2>1 DEF Unfinished
  <2>2. CASE o # c
    BY <1>1, <1>2, <2>2 DEF Requests, Unfinished
  <2> QED BY <2>1, <2>2
<1>3. /\ \A r \in Request :
           /\ begun'[r] <= 1
           /\ doc'.requests[r] = None \/ doc'.requests[r].state = "core_created" => begun'[r] = 0
           /\ doc'.requests[r] # None /\ doc'.requests[r].state \in Terminal =>
                [request |-> r, state |-> doc'.requests[r].state, added |-> doc'.requests[r].added] \in answers'
      /\ \A a \in answers' :
           /\ doc'.requests[a.request] # None
           /\ doc'.requests[a.request].state = a.state /\ doc'.requests[a.request].added = a.added
  BY DEF Requests
<1> QED BY <1>2, <1>3 DEF Requests, Unfinished

\* The record of one request changes; only the call for it is there.
LEMMA RequestMoves ==
  ASSUME CallTypes, Calls, Requests, History, NEW c \in Caller, Turn(c), Sets(call[c]),
         NEW r \in Request, NEW v \in RequestRecord,
         doc.requests \in [Request -> RequestRecord \cup {None}], None \notin RequestRecord,
         doc'.requests = [doc.requests EXCEPT ![r] = v], NEW n \in {0, 1},
              begun' = [begun EXCEPT ![r] = n],
         v.state = "core_created" => n = 0,
         \A a \in answers : a.request # r,
         answers' = IF v.state \in Terminal
                    THEN answers \cup {[request |-> r, state |-> v.state, added |-> v.added]} ELSE answers,
         Sets(call'[c]) => /\ call'[c].request = r /\ call'[c].pc \notin {"secret", "core", "discard"}
                           /\ v.state \in Terminal => call'[c].pc = "finish"
  PROVE  Requests'
<1>1. \A o \in Caller : o # c => call'[o] = call[o] /\ ~Sets(call'[o])
  BY DEF Turn, CallTypes, Calls
<1>2. doc'.requests[r] = v /\ v # None /\ \A q \in Request : q # r => doc'.requests[q] = doc.requests[q]
  OBVIOUS
<1>3. begun'[r] = n /\ \A q \in Request : q # r => begun'[q] = begun[q]
  BY DEF History
<1>4. ASSUME NEW q \in Request
      PROVE  /\ begun'[q] <= 1
             /\ doc'.requests[q] = None \/ doc'.requests[q].state = "core_created" => begun'[q] = 0
             /\ doc'.requests[q] # None /\ doc'.requests[q].state \in Terminal =>
                  [request |-> q, state |-> doc'.requests[q].state,
                      added |-> doc'.requests[q].added] \in answers'
  <2>1. CASE q = r
    BY <1>2, <1>3, <2>1
  <2>2. CASE q # r
    BY <1>2, <1>3, <2>2 DEF Requests
  <2> QED BY <2>1, <2>2
<1>5. ASSUME NEW a \in answers'
      PROVE  /\ doc'.requests[a.request] # None
             /\ doc'.requests[a.request].state = a.state /\ doc'.requests[a.request].added = a.added
  <2>1. CASE a \in answers
    <3>1. a.request \in Request /\ a.request # r
      BY <2>1 DEF History, Answer
    <3> QED BY <2>1, <3>1, <1>2 DEF Requests
  <2>2. CASE a \notin answers
    BY <1>2, <1>5, <2>2
  <2> QED BY <2>1, <2>2
<1>6. ASSUME NEW o \in Caller, Sets(call'[o])
      PROVE  IF call'[o].pc \in {"secret", "core", "discard"} THEN doc'.requests[call'[o].request] = None
             ELSE IF call'[o].pc = "finish" THEN doc'.requests[call'[o].request] # None
             ELSE /\ doc'.requests[call'[o].request] # None
                  /\ doc'.requests[call'[o].request].state \in {"core_created", "provisioning"}
  <2>1. o = c
    BY <1>1, <1>6
  <2>2. v.state \in Terminal \/ v.state \in {"core_created", "provisioning"}
    BY DEF RequestRecord
  <2> QED BY <1>2, <1>6, <2>1, <2>2 DEF Unfinished
<1> QED BY <1>4, <1>5, <1>6 DEF Requests, Unfinished

\* How far a request has come is known to the document, to the calls and to the answers alike.
LEMMA SetUpRequests ==
  ASSUME Assumptions, DocOK, CallTypes, Calls, Requests, History, stored \in Nat, NEW c \in Caller,
         SetUp(c)
  PROVE  Requests' /\ History'
<1>0. Turn(c)
  BY SetUpTurns
<1>01. doc.requests \in [Request -> RequestRecord \cup {None}] /\ None \notin RequestRecord
  BY Constants DEF DocOK, Document
<1>02. \A r \in Request : doc.requests[r] # None => doc.requests[r] \in RequestRecord
  BY <1>01
<1>03. ASSUME NEW r \in Request, doc.requests[r] = None \/ doc.requests[r].state \notin Terminal
       PROVE  \A a \in answers : a.request # r
  <2>1. \A a \in answers : a.state \in Terminal
    BY DEF History, Answer
  <2> QED BY <1>03, <2>1 DEF Requests
<1> DEFINE Quiet == doc'.requests = doc.requests /\ begun' = begun /\ answers' = answers
           Done == Requests' /\ History'

\* The call ends or it is none for a request.
<1>1. ASSUME Quiet, ~Sets(call'[c]) PROVE Done
  BY <1>0, <1>1, RequestsStay DEF History
<1>2. ASSUME Quiet, call'[c].request = call[c].request, Sets(call'[c]) => Sets(call[c]),
             call[c].pc \notin {"secret", "core", "discard", "finish"},
             call'[c].pc \notin {"secret", "core", "discard", "finish"}
      PROVE  Done
  <2>1. Sets(call[c]) => Unfinished(call[c].request)
    BY <1>2 DEF Requests
  <2> QED BY <1>0, <1>2, <2>1, RequestsStay DEF History
<1>3. Free.pc = "free" /\ ~Sets(Free)
  BY DEF Free, Sets, Busy, ProvisionPc
<1>4. ASSUME Quiet, Becomes(c, Free) PROVE Done
  <2>1. call'[c] = Free
    BY <1>4 DEF Becomes, CallTypes
  <2> QED BY <1>1, <1>3, <1>4, <2>1
<1>5. ASSUME Quiet, Carries(c), call[c].pc \notin {"secret", "core", "discard", "finish"},
             call'[c].pc \notin {"secret", "core", "discard", "finish"}
      PROVE  Done
  <2>1. call[c].pc \in ProvisionPc
    BY <1>5 DEF Carries, Provision, ProvisionPc
  <2>2. Sets(call'[c]) => Sets(call[c])
    BY <1>5, <2>1 DEF Carries, Sets, Busy
  <2> QED BY <1>2, <1>5, <2>2 DEF Carries
<1> HIDE DEF Done
<1>6. ASSUME NEW next \in {"grant", "authority", "undo_grant", "undo_metadata", "undo_authority", "rollback",
                 "failed"},
             Quiet, Goes(c, next), call[c].pc \in Recording \cup {"door", "rollback"} PROVE Done
  <2>1. call[c].pc \in ProvisionPc /\ next \in ProvisionPc
    BY <1>6 DEF ProvisionPc, Recording
  <2>2. Carries(c) /\ call'[c].pc = next
    BY <1>6, <2>1, GoesFields
  <2> QED BY <1>5, <1>6, <2>2 DEF Recording
<1>7. ASSUME \/ RecordMetadata(c) \/ RecordGrant(c) \/ RecordNoGrant(c) \/ UndoGrant(c) \/ UndoMetadata(c)
             \/ UndoAuthority(c) \/ UndoFails(c) \/ TakenBack(c)
      PROVE  Done
  <2>1. call[c].pc \in Recording \cup {"door", "rollback"}
    BY <1>7 DEF RecordMetadata, RecordGrant, RecordNoGrant, UndoGrant, UndoMetadata, UndoAuthority,
                UndoFails, TakenBack, Record, At, Recording
  <2>2. PICK next \in {"grant", "authority", "undo_grant", "undo_metadata", "undo_authority", "rollback",
            "failed"} :
          Goes(c, next)
    <3>1. CASE RecordMetadata(c) \/ RecordGrant(c) \/ RecordNoGrant(c)
      BY <3>1 DEF RecordMetadata, RecordGrant, RecordNoGrant, Record
    <3>2. CASE UndoGrant(c) \/ UndoMetadata(c) \/ UndoAuthority(c) \/ UndoFails(c) \/ TakenBack(c)
      BY <3>2 DEF UndoGrant, UndoMetadata, UndoAuthority, UndoFails, TakenBack
    <3> QED BY <1>7, <3>1, <3>2
  <2>3. Quiet
    <3>1. begun' = begun /\ answers' = answers
      BY <1>7 DEF RecordMetadata, RecordGrant, RecordNoGrant, UndoGrant, UndoMetadata, UndoAuthority,
                UndoFails, TakenBack, kept, setup
    <3>2. doc'.requests = doc.requests
      <4>1. CASE RecordMetadata(c) \/ RecordGrant(c)
        <5>1. doc' = doc \/ \E g, cred, status : doc' = UpsertMetadata(doc, g, cred, status)
              \/ \E h, pin : doc' = InheritGrant(doc, h, pin)
          BY <4>1 DEF RecordMetadata, RecordGrant, Record
        <5> QED BY <5>1 DEF UpsertMetadata, InheritGrant, UpsertGrant, DocOK, Document
      <4>2. CASE RecordNoGrant(c) \/ UndoFails(c) \/ TakenBack(c)
        BY <4>2 DEF RecordNoGrant, UndoFails, TakenBack
      <4>3. CASE UndoGrant(c) \/ UndoMetadata(c) \/ UndoAuthority(c)
        BY <4>3 DEF UndoGrant, UndoMetadata, UndoAuthority, RemoveGrant, RemoveMetadata, SetAuthority,
           DocOK, Document
      <4> QED BY <1>7, <4>1, <4>2, <4>3
    <3> QED BY <3>1, <3>2
  <2> QED BY <1>6, <2>1, <2>2, <2>3
<1>8. ASSUME NEW r \in Request, Submit(c, r) \/ Repeat(c, r) PROVE Done
  <2>1. Quiet
    BY <1>8 DEF Submit, Repeat, Begin, setup
  <2>2. /\ call'[c].request = r
        /\ IF Submit(c, r) THEN call'[c].pc \in {"secret", "core"} /\ doc.requests[r] = None
                          ELSE call'[c].pc = "finish" /\ doc.requests[r] # None
    <3>1. ASSUME NEW pc, NEW cred, Begin(c, r, pc, cred)
          PROVE  call'[c].request = r /\ call'[c].pc = pc
      BY <3>1 DEF Begin, Begins, Becomes, CallTypes, Provisioning
    <3>2. ASSUME Submit(c, r)
          PROVE call'[c].request = r /\ call'[c].pc \in {"secret", "core"} /\ doc.requests[r] = None
      BY <3>1, <3>2 DEF Submit
    <3>3. ASSUME Repeat(c, r)
          PROVE call'[c].request = r /\ call'[c].pc = "finish" /\ doc.requests[r] # None
      BY <3>1, <3>3 DEF Repeat
    <3> QED BY <1>8, <3>2, <3>3
  <2> QED BY <1>0, <2>1, <2>2, RequestsStay DEF Done, History
<1>9. ASSUME NEW p \in Person, NEW x \in Door, Give(c, p, x) PROVE Done
  <2>1. Quiet
    BY <1>9 DEF Give, setup
  <2>2. ~Sets(call'[c])
    <3>1. call'[c].request = None
      BY <1>9, GiveAsksNothing
    <3> QED BY <3>1 DEF Sets
  <2> QED BY <1>1, <2>1, <2>2
<1>10. ASSUME NEW p \in Person, DeletePerson(c, p) PROVE Done
  <2>1. Quiet /\ call' = call
    BY <1>10 DEF DeletePerson, RemovePerson, DocOK, Document
  <2>2. Sets(call[c]) =>
           IF call[c].pc \in {"secret", "core", "discard"} THEN doc.requests[call[c].request] = None
           ELSE IF call[c].pc = "finish" THEN doc.requests[call[c].request] # None
           ELSE Unfinished(call[c].request)
    BY DEF Requests
  <2> QED BY <1>0, <2>1, <2>2, RequestsStay DEF Done, History
<1>11. ASSUME StoreSecret(c) PROVE Done
  <2>1. Quiet
    BY <1>11 DEF StoreSecret
  <2>2. At(c, "secret") /\ Carries(c) /\ (call[c].request # None => call'[c].pc = "core")
    BY <1>11, Secreting
  <2>3. Sets(call[c]) => doc.requests[call[c].request] = None
    BY <2>2 DEF Requests, At
  <2>4. Sets(call'[c]) => Sets(call[c]) /\ call'[c].pc = "core" /\ call'[c].request = call[c].request
    BY <2>2 DEF Carries, Sets, Busy, At, ProvisionPc
  <2> QED BY <1>0, <2>1, <2>3, <2>4, RequestsStay DEF Done, History
<1>12. ASSUME PrepareFails(c) PROVE Done
  <2>1. Quiet /\ call[c].pc = "core"
    BY <1>12 DEF PrepareFails, At, kept, setup
  <2>2. CASE Goes(c, "discard")
    <3>1. call[c].pc \in ProvisionPc /\ "discard" \in ProvisionPc
      BY <2>1 DEF ProvisionPc
    <3>2. Carries(c) /\ call'[c].pc = "discard"
      BY <2>2, <3>1, GoesFields
    <3>3. Sets(call'[c]) => Sets(call[c]) /\ call'[c].request = call[c].request
      BY <3>1, <3>2 DEF Carries, Sets, Busy
    <3>4. Sets(call[c]) => doc.requests[call[c].request] = None
      BY <2>1 DEF Requests
    <3> QED BY <1>0, <2>1, <3>2, <3>3, <3>4, RequestsStay DEF Done, History
  <2>3. CASE Becomes(c, Free)
    BY <1>4, <2>1, <2>3
  <2> QED BY <1>12, <2>2, <2>3 DEF PrepareFails
<1>13. ASSUME (\E works \in BOOLEAN : Discard(c, works)) \/ FinishFails(c) \/ SaveFails(c) PROVE Done
  <2>1. Quiet /\ Becomes(c, Free)
    BY <1>13 DEF Discard, FinishFails, SaveFails, kept, setup
  <2> QED BY <1>4, <2>1
<1>14. ASSUME NEW removed \in BOOLEAN, GiveFails(c, removed) PROVE Done
  <2>1. Quiet /\ Becomes(c, Free)
    BY <1>14 DEF GiveFails, SetAuthority, DocOK, Document
  <2> QED BY <1>4, <2>1
<1>15. ASSUME Refuse(c) PROVE Done
  <2>1. Quiet /\ call[c].pc = "door"
    BY <1>15 DEF Refuse, At, kept, setup
  <2> QED BY <1>4, <1>6, <1>15, <2>1 DEF Refuse
<1>16. ASSUME CheckAdditions(c) PROVE Done
  <2>1. Quiet
    BY <1>16 DEF CheckAdditions, kept, setup
  <2>2. At(c, "check") /\ Carries(c) /\ call'[c].pc \in {"door", "failed"}
    BY <1>16, Checking
  <2> QED BY <1>5, <2>1, <2>2 DEF At
<1>17. ASSUME NEW x \in Door, Program(c, x) PROVE Done
  <2>1. Quiet
    BY <1>17 DEF Program, kept, setup
  <2>2. /\ At(c, "door") /\ Carries(c)
        /\ call'[c].pc = IF call[c].cred = None THEN "secret" ELSE "metadata"
    BY <1>17, Programming
  <2>3. CASE call[c].cred # None
    BY <1>5, <2>1, <2>2, <2>3 DEF At
  <2>4. CASE call[c].cred = None
    <3>1. call[c].pc \in ProvisionPc
      BY <2>2 DEF At, ProvisionPc
    <3>2. call[c].request = None
      BY <2>2, <2>4, <3>1, Provisions DEF SteadySetUp, At
    <3>3. ~Sets(call'[c])
      BY <2>2, <3>2 DEF Carries, Sets
    <3> QED BY <1>1, <2>1, <3>3
  <2> QED BY <2>3, <2>4
<1>18. ASSUME RecordAuthority(c) PROVE Done
  <2>1. Quiet
    BY <1>18 DEF RecordAuthority, kept, setup, SetAuthority, DocOK, Document
  <2>2. CASE Goes(c, "undo_grant")
    <3>1. call[c].pc \in Recording
      BY <1>18 DEF RecordAuthority, At, Recording
    <3> QED BY <1>6, <2>1, <2>2, <3>1
  <2>3. CASE Becomes(c, Free)
    BY <1>4, <2>1, <2>3
  <2>4. CASE At(c, "authority") /\ Carries(c) /\ call'[c].pc = "door"
    BY <1>5, <2>1, <2>4 DEF At
  <2> QED BY <1>18, <2>2, <2>3, <2>4, Authorizing
<1>19. ASSUME (\E x \in Door : TakeBack(c, x) \/ LeaveMarked(c, x)) \/ Unrecord(c) PROVE Done
  <2>1. Quiet
    <3>1. ASSUME NEW x \in Door, TakeBack(c, x) PROVE Quiet
      BY <3>1 DEF TakeBack, kept, setup, RemoveGrant, DocOK, Document
    <3>2. ASSUME NEW x \in Door, LeaveMarked(c, x) PROVE Quiet
      BY <3>2 DEF LeaveMarked, kept, setup, DocOK, Document
    <3>3. CASE Unrecord(c)
      BY <3>3 DEF Unrecord, kept, setup, RemoveGrant, RemoveMetadata, DocOK, Document
    <3> QED BY <1>19, <3>1, <3>2, <3>3
  <2>2. /\ Carries(c) /\ call[c].pc \in {"rollback", "unrecord"} /\ call'[c].pc \in {"rollback", "unrecord"}
    BY <1>19, Undoing DEF At
  <2> QED BY <1>5, <2>1, <2>2
<1>20. ASSUME NEW state, NEW added, Ready(c, state, added), Quiet,
              call[c].pc \in {"finish", "door", "failed"},
              call[c].request # None,
                   call[c].pc = "finish" => doc.requests[call[c].request].state \notin Terminal
       PROVE  Done
  <2>1. call'[c] = [pc |-> "save", request |-> call[c].request, doors |-> call[c].doors,
                    answer |-> Answered(c, state, added)]
    BY <1>20 DEF Ready, Becomes, CallTypes
  <2>2. call[c].pc \in ProvisionPc
    BY <1>20 DEF ProvisionPc
  <2>3. call[c].request \in Request /\ Sets(call[c])
    BY <1>20, <2>2, Places DEF Sets, Busy
  <2>4. Unfinished(call[c].request)
    <3>1. CASE call[c].pc = "finish"
      <4>1. doc.requests[call[c].request] \in RequestRecord
        BY <1>02, <2>3, <3>1 DEF Requests
      <4> QED BY <1>20, <2>3, <3>1, <4>1, Constants DEF Unfinished, RequestRecord
    <3>2. CASE call[c].pc \in {"door", "failed"}
      BY <2>3, <3>2 DEF Requests
    <3> QED BY <1>20, <3>1, <3>2
  <2> QED BY <1>0, <1>20, <2>1, <2>4, RequestsStay DEF Done, History
<1>21. ASSUME NothingToDo(c) PROVE Done
  <2>1. /\ Quiet /\ call[c].pc = "finish" /\ doc.requests[call[c].request].state \notin Terminal
        /\ \E state, added : Ready(c, state, added)
    BY <1>21 DEF NothingToDo, At, kept, setup
  <2>2. call[c].pc \in ProvisionPc
    BY <2>1 DEF ProvisionPc
  <2>3. call[c].request # None
    BY <2>1, <2>2, Provisions DEF SteadyGift, Recording
  <2> QED BY <1>20, <2>1, <2>3
<1>22. ASSUME AllAdded(c) \/ NotAdded(c) PROVE Done
  <2>1. /\ Quiet /\ call[c].pc \in {"door", "failed"} /\ \E state, added : Ready(c, state, added)
    BY <1>22 DEF AllAdded, NotAdded, At, kept, setup
  <2>2. call[c].pc \in ProvisionPc
    BY <2>1 DEF ProvisionPc
  <2>3. call[c].request # None
    <3>1. CASE AllAdded(c)
      BY <2>2, <3>1, Provisions DEF AllAdded
    <3>2. CASE NotAdded(c)
      BY <2>2, <3>2, Provisions DEF NotAdded, At, SteadyGift, Recording
    <3> QED BY <1>22, <3>1, <3>2
  <2> QED BY <1>20, <2>1, <2>3
<1>23. ASSUME Prepare(c) PROVE Done
  <2>0. call[c].pc = "core" /\ call[c].pc \in ProvisionPc /\ "finish" \in ProvisionPc
    BY <1>23 DEF Prepare, At, ProvisionPc
  <2>1. call[c].request # None
    BY <2>0, Provisions DEF SteadyGift, Recording
  <2>2. PICK r \in Request : r = call[c].request
    BY <2>0, <2>1, Places
  <2>3. PICK cred \in Pin : cred = call[c].cred
    BY <2>0, Places
  <2>4. Sets(call[c]) /\ doc.requests[r] = None
    BY <2>0, <2>1, <2>2 DEF Sets, Busy, Requests
  <2>5. PICK v \in RequestRecord : v = [state |-> "core_created", added |-> {}]
    BY DEF RequestRecord
  <2>6. /\ doc' = Prepared(doc, r, cred) /\ Valid(doc') /\ MayPrepare(doc, r, cred, call[c].made)
        /\ begun' = begun /\ answers' = answers /\ Goes(c, "finish")
    BY <1>23, <2>2, <2>3 DEF Prepare, kept, setup
  <2>7. Asked[r].kind = "create" \/ doc.people[Asked[r].person] # None
    BY <2>6 DEF MayPrepare, MayAssign
  <2>8. doc'.requests = [doc.requests EXCEPT ![r] = v]
    BY <2>5, <2>6, <2>7, Preparing
  <2>9. begun' = [begun EXCEPT ![r] = 0]
    BY <2>4, <2>6 DEF Requests, History
  <2>10. call'[c].pc = "finish" /\ call'[c].request = r
    BY <2>0, <2>2, <2>6, GoesFields DEF Carries
  <2>11. \A a \in answers : a.request # r
    BY <1>03, <2>4
  <2>12. v.state = "core_created" /\ v.state \notin Terminal
    BY <2>5 DEF Terminal
  <2>13. Requests'
    BY <1>0, <1>01, <2>2, <2>4, <2>6, <2>8, <2>9, <2>10, <2>11, <2>12, RequestMoves
  <2>14. History'
    BY <2>6 DEF History
  <2> QED BY <2>13, <2>14 DEF Done
<1>24. ASSUME MarkProvisioning(c) PROVE Done
  <2>0. /\ At(c, "finish") /\ Carries(c) /\ call'[c].pc = "check" /\ call[c].pc = "finish"
        /\ call[c].pc \in ProvisionPc
    BY <1>24, Marking DEF At, ProvisionPc
  <2>1. call[c].request # None
    BY <2>0, Provisions DEF SteadyGift, Recording
  <2>2. PICK r \in Request : r = call[c].request
    BY <2>0, <2>1, Places
  <2>3. Sets(call[c]) /\ doc.requests[r] # None
    BY <2>0, <2>1, <2>2 DEF Sets, Busy, Requests
  <2>4. /\ doc' = [doc EXCEPT !.requests[r].state = "provisioning"] /\ doc.requests[r].state = "core_created"
        /\ begun' = [begun EXCEPT ![r] = begun[r] + 1] /\ answers' = answers
    BY <1>24, <2>2 DEF MarkProvisioning, Fresh
  <2>5. doc.requests[r] \in RequestRecord /\ begun[r] = 0
    BY <1>02, <2>3, <2>4 DEF Requests
  <2>6. PICK v \in RequestRecord : v = [doc.requests[r] EXCEPT !.state = "provisioning"]
    BY <2>5 DEF RequestRecord
  <2>7. doc' = [doc EXCEPT !.requests[r] = v] /\ v.state = "provisioning"
    BY <2>4, <2>5, <2>6 DEF RequestRecord
  <2>8. doc'.requests = [doc.requests EXCEPT ![r] = v]
    BY <2>7, RequestOnly
  <2>9. begun' = [begun EXCEPT ![r] = 1]
    BY <2>4, <2>5
  <2>10. call'[c].pc = "check" /\ call'[c].request = r
    BY <2>0, <2>2 DEF Carries
  <2>11. \A a \in answers : a.request # r
    BY <1>03, <2>4 DEF Terminal
  <2>12. v.state # "core_created" /\ v.state \notin Terminal
    BY <2>7 DEF Terminal
  <2>15. answers' = IF v.state \in Terminal
                    THEN answers \cup {[request |-> r, state |-> v.state, added |-> v.added]} ELSE answers
    BY <2>4, <2>12
  <2>16. Sets(call'[c]) => /\ call'[c].request = r /\ call'[c].pc \notin {"secret", "core", "discard"}
                           /\ v.state \in Terminal => call'[c].pc = "finish"
    BY <2>10, <2>12
  <2>17. v.state = "core_created" => 1 = 0
    BY <2>12
  <2>13. Requests'
    BY <1>0, <1>01, <2>3, <2>8, <2>9, <2>11, <2>15, <2>16, <2>17, RequestMoves
  <2>14. History'
    BY <2>4, <2>9 DEF History
  <2> QED BY <2>13, <2>14 DEF Done
<1>25. ASSUME SaveResult(c) PROVE Done
  <2>0. call[c].pc = "save"
    BY <1>25 DEF SaveResult, At
  <2>1. PICK a \in Answer : a = call[c].answer
    BY <2>0, Shapes DEF CallTypes
  <2>2. call[c].request \in Request /\ a.request = call[c].request
    <3>1. Coherent(call[c]) /\ call[c] \in CallRecord
      BY DEF CallTypes, Calls
    <3> QED BY <2>0, <2>1, <3>1, Shapes DEF Coherent
  <2>3. PICK r \in Request : r = call[c].request
    BY <2>2
  <2>4. Sets(call[c]) /\ Unfinished(r)
    <3>1. r # None
      BY Constants
    <3> QED BY <2>0, <2>3, <3>1 DEF Sets, Busy, Requests
  <2>5. PICK v \in RequestRecord : v = [state |-> a.state, added |-> a.added]
    BY DEF Answer, RequestRecord
  <2>6. /\ doc' = [doc EXCEPT !.requests[r] = v] /\ begun' = begun /\ answers' = answers \cup {a}
        /\ Becomes(c, Free)
    BY <1>25, <2>1, <2>2, <2>3, <2>5 DEF SaveResult
  <2>7. doc'.requests = [doc.requests EXCEPT ![r] = v]
    BY <2>6, RequestOnly
  <2>8. v.state \in Terminal /\ v.state # "core_created"
        /\ a = [request |-> r, state |-> v.state, added |-> v.added]
    BY <2>2, <2>3, <2>5 DEF Answer, Terminal
  <2>9. begun[r] \in {0, 1}
    <3>1. begun[r] \in Nat /\ begun[r] <= 1
      BY DEF Requests, History
    <3> QED BY <3>1
  <2>10. PICK n \in {0, 1} : n = begun[r]
    BY <2>9
  <2>11. begun' = [begun EXCEPT ![r] = n]
    BY <2>6, <2>10 DEF History
  <2>12. ~Sets(call'[c])
    BY <1>3, <2>6 DEF Becomes, CallTypes
  <2>13. \A b \in answers : b.request # r
    BY <1>03, <2>4 DEF Unfinished, Terminal
  <2>16. answers' = IF v.state \in Terminal
                    THEN answers \cup {[request |-> r, state |-> v.state, added |-> v.added]} ELSE answers
    BY <2>6, <2>8
  <2>17. v.state = "core_created" => n = 0
    BY <2>8
  <2>14. Requests'
    BY <1>0, <1>01, <2>4, <2>7, <2>11, <2>12, <2>13, <2>16, <2>17, RequestMoves
  <2>15. History'
    BY <2>6 DEF History
  <2> QED BY <2>14, <2>15 DEF Done
<1>26. ASSUME AnswerAgain(c) PROVE Done
  <2>0. call[c].pc = "finish" /\ call[c].pc \in ProvisionPc
    BY <1>26 DEF AnswerAgain, At, ProvisionPc
  <2>1. call[c].request # None
    BY <2>0, Provisions DEF SteadyGift, Recording
  <2>2. PICK r \in Request : r = call[c].request
    BY <2>0, <2>1, Places
  <2>3. doc.requests[r] # None
    BY <2>0, <2>1, <2>2 DEF Sets, Busy, Requests
  <2>4. [request |-> r, state |-> doc.requests[r].state, added |-> doc.requests[r].added] \in answers
    BY <1>26, <2>2, <2>3 DEF AnswerAgain, Requests
  <2>5. Quiet /\ Becomes(c, Free)
    BY <1>26, <2>2, <2>4 DEF AnswerAgain, Answered
  <2> QED BY <1>4, <2>5
<1>27. Done
  BY <1>7, <1>8, <1>9, <1>10, <1>11, <1>12, <1>13, <1>14, <1>15, <1>16, <1>17, <1>18, <1>19, <1>21,
     <1>22,
     <1>23, <1>24, <1>25, <1>26 DEF SetUp
<1> QED BY <1>27 DEF Done

(***************************************************************************)
(* What the grants allow.                                                  *)
(***************************************************************************)

\* The types of the histories.
HourTypes == meant \in [Pair -> Policy \cup {None}] /\ stale \subseteq Pair

\* No decision is made, and no schedule that a grant has changes.
LEMMA HoursStay ==
  ASSUME DocOK, HourTypes, HoursAsMeant, UNCHANGED hours,
         \A g \in Pair : doc'.grants[g] \in {None, doc.grants[g]},
         \A g \in Pair : doc.grants[g] # None =>
           doc'.schedules[doc.grants[g].schedule] = doc.schedules[doc.grants[g].schedule]
  PROVE  HourTypes' /\ HoursAsMeant'
<1>1. meant' = meant /\ stale' = stale
  BY DEF hours
<1>2. ASSUME NEW g \in Pair, g \notin stale, doc'.grants[g] # None PROVE Allows(doc', g) = meant[g]
  <2>1. doc'.grants[g] = doc.grants[g] /\ Allows(doc', g) = Allows(doc, g)
    BY <1>2 DEF Allows
  <2> QED BY <1>2, <2>1 DEF HoursAsMeant
<1> QED BY <1>1, <1>2 DEF HoursAsMeant, HourTypes

\* Editing people, schedules and grants keeps what the grants allow as it was meant.
LEMMA ServeHours ==
  ASSUME Assumptions, DocOK, Drawn, CallTypes, HourTypes, HoursAsMeant, NEW c \in Caller, Serve(c)
  PROVE  HourTypes' /\ HoursAsMeant'
<1> DEFINE Done == HourTypes' /\ HoursAsMeant'
<1>0. call[c] \in CallRecord
  BY DEF CallTypes
<1>1. ASSUME doc' = doc, UNCHANGED hours PROVE Done
  BY <1>1, HoursStay
<1>2. ASSUME doc'.schedules = doc.schedules, UNCHANGED hours,
             \A g \in Pair : doc'.grants[g] \in {None, doc.grants[g]}
      PROVE  Done
  BY <1>2, HoursStay
<1>3. ASSUME NEW s \in Schedule, NEW v \in ScheduleRecord \cup {None},
             doc' = [doc EXCEPT !.schedules[s] = v],
             Unowned(doc, s), UNCHANGED hours
      PROVE  Done
  <2>1. doc'.grants = doc.grants /\ \A q \in Schedule : q # s => doc'.schedules[q] = doc.schedules[q]
    BY <1>3 DEF DocOK, Document
  <2>2. \A g \in Pair : doc.grants[g] # None =>
       doc.grants[g].schedule \in Schedule /\ doc.grants[g].schedule # s
    BY <1>3 DEF DocOK, Document, GrantRecord, Unowned
  <2>3. \A g \in Pair : doc'.grants[g] \in {None, doc.grants[g]}
    BY <2>1
  <2>4. \A g \in Pair : doc.grants[g] # None =>
           doc'.schedules[doc.grants[g].schedule] = doc.schedules[doc.grants[g].schedule]
    BY <2>1, <2>2
  <2> QED BY <1>3, <2>3, <2>4, HoursStay
<1> HIDE DEF Done
<1>4. ASSUME NEW p \in Person, CreatePerson(c, p) PROVE Done
  <2>1. doc'.schedules = doc.schedules /\ doc'.grants = doc.grants /\ UNCHANGED hours
    BY <1>4 DEF CreatePerson, AddPerson, DocOK, Document
  <2> QED BY <1>2, <2>1
<1>5. ASSUME WritePerson(c) PROVE Done
  <2>1. doc'.schedules = doc.schedules /\ doc'.grants = doc.grants /\ UNCHANGED hours
    BY <1>5 DEF WritePerson, Saves, UpdatePerson, DocOK, Document
  <2> QED BY <1>2, <2>1
<1>6. ASSUME NEW s \in Schedule, NEW policy \in Policy, CreateSchedule(c, s, policy) PROVE Done
  <2>1. doc.schedules[s] = None /\ UNCHANGED hours
    BY <1>6 DEF CreateSchedule, Drawn
  <2>2. Unowned(doc, s)
    BY <2>1, NobodyHas DEF DocOK
  <2>3. [policy |-> policy, rev |-> 1] \in ScheduleRecord
    BY DEF ScheduleRecord
  <2>4. doc' = [doc EXCEPT !.schedules[s] = [policy |-> policy, rev |-> 1]]
    BY <1>6 DEF CreateSchedule, PutSchedule
  <2> QED BY <1>3, <2>1, <2>2, <2>3, <2>4
<1>7. ASSUME NEW policy \in Policy, WriteSchedule(c, policy) PROVE Done
  <2>1. PICK s \in Schedule, copy \in ScheduleRecord : s = call[c].schedule /\ copy = call[c].copy
    BY <1>0, <1>7, Shapes DEF WriteSchedule, At
  <2>2. UNCHANGED hours
    BY <1>7 DEF WriteSchedule
  <2>3. CASE MayChange(doc, s)
    <3>1. PICK rev \in Nat : rev = copy.rev + (IF policy = copy.policy THEN 0 ELSE 1)
      BY DEF ScheduleRecord
    <3>2. doc' = [doc EXCEPT !.schedules[s] = [policy |-> policy, rev |-> rev]]
      BY <1>7, <2>1, <2>3, <3>1 DEF WriteSchedule, PutSchedule
    <3>3. [policy |-> policy, rev |-> rev] \in ScheduleRecord
      BY DEF ScheduleRecord
    <3> QED BY <1>3, <2>2, <2>3, <3>2, <3>3 DEF MayChange
  <2>4. CASE ~MayChange(doc, s)
    BY <1>1, <1>7, <2>1, <2>2, <2>4 DEF WriteSchedule
  <2> QED BY <2>3, <2>4
<1>8. ASSUME NEW s \in Schedule, DeleteSchedule(c, s) PROVE Done
  <2>1. doc' = [doc EXCEPT !.schedules[s] = None] /\ Unowned(doc, s) /\ UNCHANGED hours
    BY <1>8 DEF DeleteSchedule, RemoveSchedule, MayChange
  <2> QED BY <1>3, <2>1
<1>9. ASSUME NEW selection \in {None} \cup SUBSET Door, NEW policy \in Policy,
             NEW new \in Schedule \cup {None},
             SaveForm(c, selection, policy, new)
      PROVE  Done
  <2> DEFINE selected == Selected(doc, call[c].person, selection)
             target == Target(doc, call[c], selected, policy, new)
  <2>1. /\ call[c].pc = "form" /\ MaySave(doc, call[c], selection)
        /\ target # None /\ (new # None => target = new /\ new \notin drawn)
        /\ doc' = SavedForm(doc, call[c], selection, policy, new)
        /\ meant' = [g \in Pair |-> IF g \in selected THEN policy ELSE meant[g]]
        /\ stale' = stale \ selected
    BY <1>9 DEF SaveForm, At
  <2>2. new # None => doc.schedules[new] = None
    BY <2>1 DEF Drawn
  <2>3. /\ target \in Schedule /\ doc'.schedules[target].policy = policy
        /\ doc'.schedules[Permanent] = doc.schedules[Permanent]
        /\ \A s \in Schedule \ {target} : doc'.schedules[s] = doc.schedules[s]
        /\ target # Permanent =>
             \A g \in Pair \ selected : doc.grants[g] # None => doc.grants[g].schedule # target
        /\ \A g \in Pair : IF g \in selected THEN doc'.grants[g].schedule = target
                           ELSE doc'.grants[g] = doc.grants[g]
    <3>1. call[c] \in CallRecord /\ doc \in Document /\ Valid(doc)
      BY <1>0 DEF DocOK
    <3> QED BY <2>1, <2>2, <3>1, FormSaved, SMTT(60)
  <2> HIDE DEF selected, target
  <2>4. HourTypes'
    BY <2>1 DEF HourTypes
  <2>5. ASSUME NEW g \in Pair, g \notin stale', doc'.grants[g] # None PROVE Allows(doc', g) = meant'[g]
    <3>1. CASE g \in selected
      BY <2>1, <2>3, <3>1 DEF Allows
    <3>2. CASE g \notin selected
      <4>1. doc'.grants[g] = doc.grants[g] /\ meant'[g] = meant[g] /\ g \notin stale
        BY <2>1, <2>3, <2>5, <3>2
      <4>2. doc.grants[g].schedule \in Schedule
        BY <2>5, <4>1 DEF DocOK, Document, GrantRecord
      <4>3. doc'.schedules[doc.grants[g].schedule] = doc.schedules[doc.grants[g].schedule]
        BY <2>3, <2>5, <3>2, <4>1, <4>2
      <4>4. Allows(doc', g) = Allows(doc, g)
        BY <4>1, <4>3 DEF Allows
      <4> QED BY <2>5, <4>1, <4>4 DEF HoursAsMeant
    <3> QED BY <3>1, <3>2
  <2> QED BY <2>4, <2>5 DEF Done, HoursAsMeant
<1>10. ASSUME WriteGrant(c) PROVE Done
  <2>1. PICK g \in Pair, copy \in GrantRecord : g = call[c].grant /\ copy = call[c].copy
    BY <1>0, <1>10, Shapes DEF WriteGrant, At
  <2>2. /\ doc' = doc \/ doc' = [doc EXCEPT !.grants[g] = copy]
        /\ stale' = (IF doc'.grants[g] # doc.grants[g] THEN stale \cup {g} ELSE stale) /\ meant' = meant
    BY <1>10, <2>1 DEF WriteGrant, Saves, UpsertGrant
  <2>3. doc'.schedules = doc.schedules /\ \A h \in Pair : h # g => doc'.grants[h] = doc.grants[h]
    BY <2>2 DEF DocOK, Document
  <2>4. HourTypes'
    BY <2>2 DEF HourTypes
  <2>5. ASSUME NEW h \in Pair, h \notin stale', doc'.grants[h] # None PROVE Allows(doc', h) = meant'[h]
    <3>1. doc'.grants[h] = doc.grants[h] /\ h \notin stale
      BY <2>2, <2>3, <2>5
    <3>2. Allows(doc', h) = Allows(doc, h)
      BY <2>3, <3>1 DEF Allows
    <3> QED BY <2>2, <2>5, <3>1, <3>2 DEF HoursAsMeant
  <2> QED BY <2>4, <2>5 DEF Done, HoursAsMeant
<1>11. ASSUME NEW g, doc' = RemoveGrant(doc, g) \/ doc' = RemoveMetadata(doc, g), UNCHANGED hours
       PROVE Done
  <2>1. doc'.schedules = doc.schedules /\ \A h \in Pair : doc'.grants[h] \in {None, doc.grants[h]}
    <3>1. CASE doc' = RemoveGrant(doc, g)
      BY <3>1 DEF RemoveGrant, DocOK, Document
    <3>2. CASE doc' = RemoveMetadata(doc, g)
      BY <3>2 DEF RemoveMetadata, DocOK, Document
    <3> QED BY <1>11, <3>1, <3>2
  <2> QED BY <1>2, <1>11, <2>1
<1>12. ASSUME NEW g \in Pair, ForgetGrant(c, g) PROVE Done
  BY <1>11, <1>12 DEF ForgetGrant
<1>13. ASSUME ForgetMetadata(c) PROVE Done
  BY <1>11, <1>13 DEF ForgetMetadata
<1>14. ASSUME \/ \E p \in Person : ReadPerson(c, p) \/ \E s \in Schedule : OpenForm(c, p, s)
              \/ \E s \in Schedule : ReadSchedule(c, s)
              \/ \E g \in Pair : ReadGrant(c, g)
              \/ CloseForm(c)
       PROVE  Done
  <2>1. doc' = doc /\ UNCHANGED hours
    BY <1>14 DEF ReadPerson, OpenForm, ReadSchedule, ReadGrant, CloseForm
  <2> QED BY <1>1, <2>1
<1>15. Done
  BY <1>4, <1>5, <1>6, <1>7, <1>8, <1>9, <1>10, <1>12, <1>13, <1>14 DEF Serve
<1> QED BY <1>15 DEF Done

\* A set-up keeps what the grants allow as it was meant.
LEMMA SetUpHours ==
  ASSUME Assumptions, DocOK, CallTypes, Calls, Requests, HourTypes, HoursAsMeant, NEW c \in Caller,
         SetUp(c)
  PROVE  HourTypes' /\ HoursAsMeant'
<1>1. /\ DocOK' /\ doc'.schedules = doc.schedules
      /\ \A g \in Pair : doc'.grants[g] \in {None, doc.grants[g]} \/ (RecordGrant(c) /\ g = Here(c))
  BY SetUpDocuments DEF Housed
<1>2. CASE RecordGrant(c)
  <2>1. call[c].pc = "grant" /\ call[c].pc \in ProvisionPc /\ call[c].pc \in Recording
    BY <1>2 DEF RecordGrant, At, ProvisionPc, Recording
  <2>2. PICK g \in Pair : g = Here(c)
    BY <2>1, Places
  <2>3. CASE doc' = doc
    <3>1. UNCHANGED hours
      BY <1>2, <2>3 DEF RecordGrant
    <3> QED BY <2>3, <3>1, HoursStay
  <2>4. CASE doc' # doc
    <3>1. meant' = [meant EXCEPT ![g] = Allows(doc', g)] /\ stale' = stale \ {g}
      BY <1>2, <2>2, <2>4 DEF RecordGrant
    <3>2. doc' = InheritGrant(doc, g, call[c].cred)
      BY <1>2, <2>2, <2>4 DEF RecordGrant, Record
    <3>3. doc'.grants[g] # None
      <4>1. doc'.grants[g] = [schedule |-> doc.people[g[1]].default, cred |-> call[c].cred]
        BY <3>2 DEF InheritGrant, UpsertGrant, DocOK, Document
      <4>2. doc.people[g[1]] # None /\ g[1] \in Person
        BY <1>2, <2>2, Pairs DEF RecordGrant, Here
      <4>3. doc'.grants[g] \in GrantRecord
          <5>1. call[c].cred \in Pin
            BY <2>1, Places
          <5>2. doc.people[g[1]].default \in Schedule
            BY <4>2 DEF DocOK, Document, PersonRecord
          <5> QED BY <4>1, <5>1, <5>2 DEF GrantRecord
      <4> QED BY <4>3, Constants
    <3>4. Allows(doc', g) \in Policy
      <4>1. doc'.grants[g].schedule \in Schedule
        BY <1>1, <3>3 DEF DocOK, Document, GrantRecord
      <4>2. doc'.schedules[doc'.grants[g].schedule] # None
        BY <1>1, <3>3 DEF DocOK, Valid, SchedulesExist
      <4> QED BY <1>1, <4>1, <4>2 DEF Allows, DocOK, Document, ScheduleRecord
    <3>5. HourTypes'
      BY <3>1, <3>4 DEF HourTypes
    <3>6. ASSUME NEW h \in Pair, h \notin stale', doc'.grants[h] # None PROVE Allows(doc', h) = meant'[h]
      <4>1. CASE h = g
        BY <3>1, <4>1 DEF HourTypes
      <4>2. CASE h # g
        <5>1. doc'.grants[h] = doc.grants[h] /\ meant'[h] = meant[h] /\ h \notin stale
          BY <1>1, <2>2, <3>1, <3>6, <4>2 DEF HourTypes
        <5>2. Allows(doc', h) = Allows(doc, h)
          BY <1>1, <5>1 DEF Allows
        <5> QED BY <3>6, <5>1, <5>2 DEF HoursAsMeant
      <4> QED BY <4>1, <4>2
    <3> QED BY <3>5, <3>6 DEF HoursAsMeant
  <2> QED BY <2>3, <2>4
<1>3. CASE ~RecordGrant(c)
  <2>1. UNCHANGED hours
    BY <1>3, Zenon DEF SetUp, Submit, Repeat, Begin, Give, Program, Discard, StoreSecret, PrepareFails,
       AnswerAgain,
        NothingToDo, FinishFails, CheckAdditions, Refuse, RecordNoGrant, UndoFails, TakenBack, Prepare,
        AllAdded, NotAdded, SaveFails, SaveResult, MarkProvisioning, RecordMetadata, RecordAuthority,
             UndoGrant,
        UndoMetadata, UndoAuthority, Unrecord, TakeBack, LeaveMarked, GiveFails, DeletePerson, kept,
             others
  <2>2. \A g \in Pair : doc'.grants[g] \in {None, doc.grants[g]}
    BY <1>1, <1>3
  <2> QED BY <1>1, <2>1, <2>2, HoursStay
<1> QED BY <1>2, <1>3

(***************************************************************************)
(* The basis: types, the document, the calls and the requests.             *)
(***************************************************************************)

\* What may be asked stays a number.
Budgets == \A what \in DOMAIN may : may[what] \in Nat
Spends ==
  \/ UNCHANGED may
  \/ \E what \in {"people", "schedules", "forms", "statuses", "removals", "enrolments", "policies",
                  "doors", "keypads", "updates", "submits", "gives", "faults", "restarts"} :
       Allowed(what) /\ Uses(what)

\* The vault holds PINs that were stored; the histories of doors and keypads.
Secrets == vault \subseteq 1..stored /\ stored \in Nat /\ lost \subseteq Pin
Moves == out \subseteq Door /\ moved \subseteq Keypad

\* What is spent was allowed.
LEMMA Spending ==
  ASSUME Budgets, Spends
  PROVE  Budgets'
<1>1. CASE UNCHANGED may
  BY <1>1 DEF Budgets
<1>2. ASSUME NEW what, Allowed(what), Uses(what) PROVE Budgets'
  <2>1. DOMAIN may' = DOMAIN may /\ \A w \in DOMAIN may : may'[w] = IF w = what THEN may[what] - 1 ELSE may[w]
    BY <1>2 DEF Uses
  <2>2. ASSUME NEW w \in DOMAIN may PROVE may'[w] \in Nat
    <3>1. CASE w = what
      BY <1>2, <2>1, <3>1 DEF Budgets, Allowed
    <3>2. CASE w # what
      BY <2>1, <3>2 DEF Budgets
    <3> QED BY <3>1, <3>2
  <2> QED BY <2>1, <2>2 DEF Budgets
<1> QED BY <1>1, <1>2 DEF Spends

\* Serving people, schedules and grants spends at most once.
LEMMA ServeSpends ==
  ASSUME NEW c \in Caller, Serve(c)
  PROVE  Spends
BY DEF Serve, CreatePerson, ReadPerson, WritePerson, CreateSchedule, ReadSchedule, WriteSchedule,
   DeleteSchedule,
       OpenForm, SaveForm, CloseForm, ReadGrant, WriteGrant, ForgetGrant, ForgetMetadata, AtOnce, Begins,
            Spends

\* Serving doors and keypads spends at most once.
LEMMA EquipSpends ==
  ASSUME NEW c \in Caller, Equip(c)
  PROVE  Spends
BY DEF Equip, StartEnrolment, FinishEnrolment, ReadPolicy, WritePolicy, ReadEnrolment, WriteEnrolment,
   StartRemoval,
       RemoveKeypads, RemoveDoor, StartKeypad, Expose, RecordKeypad, StartUnkeypad, Withdraw,
            ForgetKeypad,
       ForgetFails, ReadKeypad, WriteKeypad, SetCapability, Begins, Spends

\* A set-up spends at most once.
LEMMA SetUpSpends ==
  ASSUME NEW c \in Caller, SetUp(c)
  PROVE  Spends
BY Zenon DEF SetUp, Submit, Repeat, Begin, Give, Program, Discard, StoreSecret, PrepareFails, AnswerAgain,
       NothingToDo, FinishFails, CheckAdditions, Refuse, RecordNoGrant, UndoFails, TakenBack, Prepare,
       AllAdded, NotAdded, SaveFails, SaveResult, MarkProvisioning, RecordMetadata, RecordGrant,
            RecordAuthority,
       UndoGrant, UndoMetadata, UndoAuthority, Unrecord, TakeBack, LeaveMarked, GiveFails, DeletePerson,
            Record,
       AtOnce, Begins, Spends

\* The histories of doors and keypads keep their types.
LEMMA EquipMoves ==
  ASSUME Assumptions, CallTypes, Moves, NEW c \in Caller, Equip(c)
  PROVE  Moves'
<1>0. call[c] \in CallRecord
  BY DEF CallTypes
<1>1. CASE FinishEnrolment(c)
  BY <1>1 DEF FinishEnrolment, Moves
<1>2. CASE RemoveDoor(c)
  <2>1. call[c].door \in Door
    BY <1>0, <1>2, Shapes DEF RemoveDoor, At
  <2> QED BY <1>2, <2>1 DEF RemoveDoor, Moves
<1>3. CASE WriteKeypad(c)
  <2>1. call[c].keypad \in Keypad
    BY <1>0, <1>3, Shapes DEF WriteKeypad, At
  <2> QED BY <1>3, <2>1 DEF WriteKeypad, Moves
<1>4. CASE ~FinishEnrolment(c) /\ ~RemoveDoor(c) /\ ~WriteKeypad(c)
  <2>1. UNCHANGED doors
    BY <1>4 DEF Equip, StartEnrolment, ReadPolicy, WritePolicy, ReadEnrolment, WriteEnrolment,
       StartRemoval,
       RemoveKeypads, StartKeypad, Expose, RecordKeypad, StartUnkeypad, Withdraw, ForgetKeypad,
       ForgetFails, ReadKeypad, SetCapability, others
  <2> QED BY <2>1 DEF doors, Moves
<1> QED BY <1>1, <1>2, <1>3, <1>4

\* The vault holds PINs that were stored.
LEMMA SetUpSecrets ==
  ASSUME Assumptions, CallTypes, Calls, Secrets, NEW c \in Caller, SetUp(c)
  PROVE  Secrets'
<1>1. ASSUME stored' = stored, vault' \subseteq vault, lost' \subseteq lost \cup {call[c].cred},
             call[c].pc \in ProvisionPc
      PROVE  Secrets'
  BY <1>1, Places DEF Secrets
<1>2. CASE StoreSecret(c)
  BY <1>2 DEF StoreSecret, Secrets
<1>3. ASSUME NEW works \in BOOLEAN, Discard(c, works) PROVE Secrets'
  BY <1>1, <1>3 DEF Discard, At, ProvisionPc
<1>4. CASE UndoAuthority(c)
  <2>1. call[c].pc \in ProvisionPc /\ vault' = vault /\ stored' = stored
        /\ lost' \subseteq lost \cup {call[c].cred}
    BY <1>4 DEF UndoAuthority, At, ProvisionPc
  <2> QED BY <1>1, <2>1
<1>5. ASSUME NEW removed \in BOOLEAN, GiveFails(c, removed) PROVE Secrets'
  <2>1. call[c].pc \in ProvisionPc /\ vault' \subseteq vault /\ stored' = stored
        /\ lost' \subseteq lost \cup {call[c].cred}
    BY <1>5 DEF GiveFails, At, ProvisionPc
  <2> QED BY <1>1, <2>1
<1>6. ASSUME NEW p \in Person, DeletePerson(c, p) PROVE Secrets'
  BY <1>6, Zenon DEF DeletePerson, Secrets
<1>7. CASE ~StoreSecret(c) /\ (\A works \in BOOLEAN : ~Discard(c, works)) /\ ~UndoAuthority(c)
           /\ (\A removed \in BOOLEAN : ~GiveFails(c, removed)) /\ \A p \in Person : ~DeletePerson(c, p)
  <2>1. vault' = vault /\ stored' = stored /\ lost' = lost
    BY <1>7, Zenon DEF SetUp, Submit, Repeat, Begin, Give, Program, PrepareFails, AnswerAgain,
       NothingToDo, FinishFails, CheckAdditions, Refuse, RecordNoGrant, UndoFails, TakenBack, Prepare,
       AllAdded, NotAdded, SaveFails, SaveResult, MarkProvisioning, RecordMetadata, RecordGrant,
            RecordAuthority,
       UndoGrant, UndoMetadata, Unrecord, TakeBack, LeaveMarked, kept, setup
  <2> QED BY <2>1 DEF Secrets
<1> QED BY <1>2, <1>3, <1>4, <1>5, <1>6, <1>7

\* The inductive invariant of the document, the calls and the requests.
Basis ==
  /\ DocOK /\ CallTypes /\ Calls /\ Drawn /\ Requests /\ History
  /\ HourTypes /\ HoursAsMeant /\ Budgets /\ Secrets /\ Moves

\* The basis of all invariants holds at first.
LEMMA InitBasis ==
  ASSUME Assumptions, Init
  PROVE  Basis
<1>1. PICK home \in Homes :
    /\ doc = home.doc /\ may = home.may
    /\ vault = 1..home.stored /\ stored = home.stored
    /\ drawn = Awaited \cup {p \in Person : home.doc.people[p] # None}
               \cup {s \in Schedule : home.doc.schedules[s] # None}
               \cup {k \in Keypad : home.doc.keypads[k] # None}
    /\ meant = [g \in Pair |-> IF home.doc.grants[g] = None THEN None ELSE Allows(home.doc, g)]
  BY DEF Init
<1>2. /\ home.doc \in Document /\ Valid(home.doc) /\ home.stored \in Nat
      /\ \A r \in Request : home.doc.requests[r] = None
      /\ \A what \in DOMAIN home.may : home.may[what] \in Nat
  BY DEF Assumptions
<1>3. DocOK
  BY <1>1, <1>2 DEF DocOK
<1>4. CallTypes /\ Calls
  <2>1. call = [c \in Caller |-> Free] /\ met = {}
    BY DEF Init
  <2>2. Free \in CallRecord /\ Free.pc = "free"
    BY DEF Free, CallRecord
  <2>3. Doors(Free) = {} /\ ~Sets(Free) /\ ~Gives(Free) /\ Coherent(Free)
    <3>1. Doors(Free) = {}
      BY <2>2, Fields
    <3> QED BY <2>2, <3>1 DEF Sets, Gives, Busy, Coherent, ProvisionPc, DoorPc
  <2>4. CallTypes
    BY <2>1, <2>2 DEF CallTypes
  <2> QED BY <2>1, <2>2, <2>3, <2>4 DEF Calls, At
<1>5. Drawn
  BY <1>1 DEF Drawn
<1>6. Requests /\ History
  <2>1. begun = [r \in Request |-> 0] /\ answers = {} /\ \A r \in Request : doc.requests[r] = None
    BY <1>1, <1>2 DEF Init
  <2>2. \A c \in Caller : ~Sets(call[c])
    <3>1. \A c \in Caller : call[c] = Free
      BY DEF Init
    <3> QED BY <3>1 DEF Free, Sets, Busy, ProvisionPc
  <2> QED BY <2>1, <2>2 DEF Requests, History
<1>7. HourTypes /\ HoursAsMeant
  <2>1. ASSUME NEW g \in Pair, doc.grants[g] # None PROVE Allows(doc, g) \in Policy
    <3>1. doc.grants[g].schedule \in Schedule /\ doc.schedules[doc.grants[g].schedule] # None
      BY <1>3, <2>1 DEF DocOK, Document, GrantRecord, Valid, SchedulesExist
    <3> QED BY <1>3, <3>1 DEF Allows, DocOK, Document, ScheduleRecord
  <2>2. stale = {}
    BY DEF Init
  <2> QED BY <1>1, <2>1, <2>2 DEF HourTypes, HoursAsMeant
<1>8. Budgets
  BY <1>1, <1>2 DEF Budgets
<1>9. Secrets
  BY <1>1, <1>2 DEF Secrets, Init
<1>10. Moves
  BY DEF Moves, Init
<1> QED BY <1>3, <1>4, <1>5, <1>6, <1>7, <1>8, <1>9, <1>10 DEF Basis

\* Every step keeps the basis.
LEMMA NextBasis ==
  ASSUME Assumptions, Basis, [Next]_vars
  PROVE  Basis'
<1> USE DEF Basis
<1>1. ASSUME NEW c \in Caller, Serve(c), UNCHANGED <<doors, setup>> PROVE Basis'
  <2>1. Turn(c) /\ ~Busy(call[c]) /\ ~Busy(call'[c])
    BY <1>1, ServeTurns DEF DocOK
  <2>2. CallTypes' /\ Calls'
    BY <2>1, TurnKeepsCalls
  <2>3. DocOK' /\ Elsewhere(c)
    BY <1>1, ServeDocuments
  <2>4. Drawn'
    BY <2>3 DEF Elsewhere, Drawn
  <2>5. Requests' /\ History'
    <3>1. begun' = begun /\ answers' = answers /\ doc'.requests = doc.requests /\ ~Sets(call'[c])
      BY <1>1, <2>1, <2>3 DEF setup, Elsewhere, Sets
    <3> QED BY <2>1, <3>1, RequestsStay DEF History
  <2>6. HourTypes' /\ HoursAsMeant'
    BY <1>1, ServeHours
  <2>7. Budgets'
    BY <1>1, ServeSpends, Spending
  <2>8. Secrets' /\ Moves'
    BY <1>1 DEF Secrets, Moves, setup, doors
  <2> QED BY <2>2, <2>3, <2>4, <2>5, <2>6, <2>7, <2>8
<1>2. ASSUME NEW c \in Caller, Equip(c), UNCHANGED setup PROVE Basis'
  <2>1. Turn(c) /\ ~Busy(call[c]) /\ ~Busy(call'[c])
    BY <1>2, EquipTurns
  <2>2. CallTypes' /\ Calls'
    BY <2>1, TurnKeepsCalls
  <2>3. DocOK' /\ Furnished /\ drawn \subseteq drawn' /\ UNCHANGED hours
    BY <1>2, EquipDocuments
  <2>4. Drawn'
    BY <2>3 DEF Furnished, Drawn
  <2>5. Requests' /\ History'
    <3>1. begun' = begun /\ answers' = answers /\ doc'.requests = doc.requests /\ ~Sets(call'[c])
      BY <1>2, <2>1, <2>3 DEF setup, Furnished, Sets
    <3> QED BY <2>1, <3>1, RequestsStay DEF History
  <2>6. HourTypes' /\ HoursAsMeant'
    BY <2>3, HoursStay DEF Furnished
  <2>7. Budgets'
    BY <1>2, EquipSpends, Spending
  <2>8. Secrets'
    BY <1>2 DEF Secrets, setup
  <2>9. Moves'
    BY <1>2, EquipMoves
  <2> QED BY <2>2, <2>3, <2>4, <2>5, <2>6, <2>7, <2>8, <2>9
<1>3. ASSUME NEW c \in Caller, SetUp(c) PROVE Basis'
  <2>1. Turn(c)
    BY <1>3, SetUpTurns DEF Secrets
  <2>2. CallTypes' /\ Calls'
    BY <2>1, TurnKeepsCalls
  <2>3. /\ DocOK' /\ Housed
        /\ \A p \in Person : doc'.people[p] # None => doc.people[p] # None \/ p \in Awaited
    BY <1>3, SetUpDocuments DEF Awaited
  <2>4. Drawn'
    BY <2>3 DEF Housed, Drawn
  <2>5. Requests' /\ History'
    BY <1>3, SetUpRequests DEF Secrets
  <2>6. HourTypes' /\ HoursAsMeant'
    BY <1>3, SetUpHours
  <2>7. Budgets'
    BY <1>3, SetUpSpends, Spending
  <2>8. Secrets'
    BY <1>3, SetUpSecrets
  <2>9. Moves'
    BY <2>3 DEF Moves, Housed, doors
  <2> QED BY <2>2, <2>3, <2>4, <2>5, <2>6, <2>7, <2>8, <2>9
<1>4. ASSUME RestartHome PROVE Basis'
  <2>0. Restart
    BY <1>4 DEF RestartHome
  <2>1. CallTypes' /\ Calls' /\ \A c \in Caller : ~Busy(call'[c])
    BY <2>0, RestartCalls
  <2>2. DocOK' /\ Furnished /\ drawn' = drawn /\ UNCHANGED hours
    BY <2>0, RestartDocuments
  <2>3. Drawn'
    BY <2>2 DEF Furnished, Drawn
  <2>4. Requests' /\ History'
    <3>1. begun' = begun /\ answers' = answers /\ doc'.requests = doc.requests
          /\ \A c \in Caller : ~Sets(call'[c])
      BY <1>4, <2>1, <2>2 DEF RestartHome, Furnished, Sets
    <3> QED BY <3>1 DEF Requests, History
  <2>5. HourTypes' /\ HoursAsMeant'
    BY <2>2, HoursStay DEF Furnished
  <2>6. Budgets'
    BY <2>0, Spending DEF Restart, Spends
  <2>7. Secrets'
    <3>1. ASSUME NEW c \in Caller, "made" \in DOMAIN call[c] PROVE call[c].cred \in Pin
      <4>1. call[c].pc \in ProvisionPc
        BY <3>1, Fields DEF CallTypes
      <4> QED BY <4>1, Places
    <3>2. {call[c].cred : c \in {o \in Caller : "made" \in DOMAIN call[o] /\ call[o].made}} \subseteq Pin
      BY <3>1
    <3> QED BY <1>4, <3>2 DEF RestartHome, Secrets
  <2>8. Moves'
    BY <2>0 DEF Restart, Moves
  <2> QED BY <2>1, <2>2, <2>3, <2>4, <2>5, <2>6, <2>7, <2>8
<1>5. ASSUME UNCHANGED vars PROVE Basis'
  BY <1>5 DEF vars, registry, doors, setup, hours, DocOK, CallTypes, Calls, Drawn, Requests, Unfinished,
     History, HourTypes,
     HoursAsMeant, Budgets, Secrets, Moves, At
<1> QED BY <1>1, <1>2, <1>3, <1>4, <1>5 DEF Next

\* The basis is an invariant.
LEMMA BasisAlways == Spec => []Basis
<1>1. Init => Basis
  BY Assumptions, InitBasis
<1>2. Basis /\ [Next]_vars => Basis'
  BY Assumptions, NextBasis
<1> QED BY <1>1, <1>2, PTL DEF Spec

\* The document is valid whenever it is saved, whatever calls are under way; and every call holds
\* what its place needs.
THEOREM TypeOKAlways == Spec => []TypeOK
<1>1. Basis /\ unsettled \subseteq crossed => TypeOK
  BY DEF Basis, TypeOK, DocOK, CallTypes, History, HourTypes, Budgets, Secrets, Moves
<1>2. Init => unsettled \subseteq crossed
  BY DEF Init
<1>3. unsettled \subseteq crossed /\ [Next]_vars => (unsettled \subseteq crossed)'
  <2>1. ASSUME Crosses, unsettled \subseteq crossed PROVE (unsettled \subseteq crossed)'
    BY <2>1 DEF Crosses
  <2>2. ASSUME Settles, unsettled \subseteq crossed PROVE (unsettled \subseteq crossed)'
    BY <2>2 DEF Settles
  <2> QED BY <2>1, <2>2 DEF Next, vars, marks
<1> QED BY <1>1, <1>2, <1>3, BasisAlways, PTL DEF Spec

\* HoursAsMeant: an edit of a schedule for one person, or for some doors, never reaches the others,
\* however schedules are shared and whatever else is edited meanwhile.
THEOREM HoursAlways == Spec => []HoursAsMeant
<1>1. Basis => HoursAsMeant
  BY DEF Basis
<1> QED BY <1>1, BasisAlways, PTL

(***************************************************************************)
(* PINs and the vault.                                                     *)
(***************************************************************************)

\* A call that is on its way to a PIN or to a door.
Provides(r) == r.pc \in ProvisionPc

\* A call that made a PIN which nobody has yet.
Own(r) == Provides(r) /\ r.made /\ (r.request = None \/ r.pc \in {"core", "discard"})

Somebody(v) == \E p \in Person : doc.authority[p] = v

\* The PIN that a call works with is its person's, or nobody's.
ItsPin(c) ==
  /\ call[c].cred \in 1..stored
  /\ \A p \in Person : doc.authority[p] = call[c].cred => p = call[c].person
  /\ \A o \in Caller : Provides(call[o]) /\ call[o].cred = call[c].cred =>
       call[o].person = call[c].person
  /\ doc.people[call[c].person] # None => call[c].cred \in vault
  /\ Own(call[c]) => /\ call[c].cred \in vault /\ ~Somebody(call[c].cred)
                     /\ \A o \in Caller \ {c} : Provides(call[o]) => call[o].cred # call[c].cred

Creds ==
  /\ \A p \in Person : doc.authority[p] # None => doc.authority[p] \in vault
  /\ \A v \in vault : Somebody(v) \/ v \in lost \/ \E c \in Caller : Own(call[c]) /\ call[c].cred = v
  /\ \A c \in Caller : Provides(call[c]) /\ call[c].cred # None => ItsPin(c)

\* The other calls stay.
LEMMA TurnsAlone ==
  ASSUME CallTypes, NEW c \in Caller, Turn(c)
  PROVE  \A o \in Caller \ {c} : call'[o] = call[o]
  BY DEF Turn, CallTypes

\* The vault and the authorities stay.
LEMMA CredsStay ==
  ASSUME Assumptions, DocOK, CallTypes, Secrets, Creds, NEW c \in Caller, Turn(c),
         vault' = vault, stored' = stored, lost \subseteq lost', doc'.authority = doc.authority,
         \A o \in Caller : Provides(call'[o]) /\ call'[o].cred # None /\ doc'.people[call'[o].person] # None
                             => doc.people[call'[o].person] # None,
         Provides(call'[c]) /\ call'[c].cred # None =>
           \/ /\ Provides(call[c]) /\ call'[c].cred = call[c].cred /\ call'[c].person = call[c].person
              /\ Own(call'[c]) => Own(call[c])
           \/ /\ call'[c].person \in Person /\ call'[c].cred = doc.authority[call'[c].person]
              /\ ~Own(call'[c]),
         Own(call[c]) => (Own(call'[c]) /\ call'[c].cred = call[c].cred) \/ call[c].cred \in lost'
  PROVE  Creds'
<1>0. \A o \in Caller \ {c} : call'[o] = call[o]
  BY TurnsAlone
<1>1. \A p \in Person : doc'.authority[p] # None => doc'.authority[p] \in vault'
  BY DEF Creds
<1>2. ASSUME NEW v \in vault'
      PROVE  Somebody(v)' \/ v \in lost' \/ \E o \in Caller : Own(call'[o]) /\ call'[o].cred = v
  <2>1. CASE \E p \in Person : doc.authority[p] = v
    BY <2>1 DEF Somebody
  <2>2. CASE v \in lost
    BY <2>2
  <2>3. ASSUME NEW o \in Caller, Own(call[o]), call[o].cred = v
        PROVE  v \in lost' \/ \E a \in Caller : Own(call'[a]) /\ call'[a].cred = v
    <3>1. CASE o = c
      BY <2>3, <3>1
    <3>2. CASE o # c
      BY <1>0, <2>3, <3>2
    <3> QED BY <3>1, <3>2
  <2> QED BY <1>2, <2>1, <2>2, <2>3 DEF Creds, Somebody
<1>3. \A p, q \in Person : doc.authority[p] # None /\ doc.authority[p] = doc.authority[q] => p = q
  BY DEF DocOK, Valid, ClaimAgrees
<1>4. ASSUME NEW o \in Caller, Provides(call'[o]), call'[o].cred # None
      PROVE  /\ call'[o].cred \in 1..stored
             /\ \A p \in Person : doc.authority[p] = call'[o].cred => p = call'[o].person
             /\ doc.people[call'[o].person] # None => call'[o].cred \in vault
             /\ Own(call'[o]) =>
                  call'[o].cred \in vault /\ \A p \in Person : doc.authority[p] # call'[o].cred
  <2>1. CASE Provides(call[o]) /\ call'[o].cred = call[o].cred /\ call'[o].person = call[o].person
             /\ (Own(call'[o]) => Own(call[o]))
    BY <1>4, <2>1 DEF Creds, ItsPin, Somebody
  <2>2. CASE /\ call'[o].person \in Person /\ call'[o].cred = doc.authority[call'[o].person] /\ ~Own(call'[o])
    <3>1. call'[o].cred \in vault
      BY <1>4, <2>2 DEF Creds
    <3>2. call'[o].cred \in 1..stored
      BY <3>1 DEF Secrets
    <3>3. \A p \in Person : doc.authority[p] = call'[o].cred => p = call'[o].person
      BY <1>3, <1>4, <2>2
    <3> QED BY <2>2, <3>1, <3>2, <3>3
  <2>3. CASE o # c
    <3>1. call'[o] = call[o]
      BY <1>0, <2>3
    <3> QED BY <1>4, <2>1, <3>1
  <2>4. CASE o = c
    BY <1>4, <2>1, <2>2, <2>4
  <2> QED BY <2>3, <2>4
<1>5. ASSUME NEW o \in Caller, NEW a \in Caller, Provides(call'[o]), Provides(call'[a]), o # a,
             call'[o].cred # None, call'[a].cred = call'[o].cred
      PROVE  call'[a].person = call'[o].person /\ ~Own(call'[o]) /\ ~Own(call'[a])
  <2>1. ASSUME NEW i \in Caller, i # c, Provides(call'[i]), call'[i].cred # None,
               Provides(call'[c]), call'[c].cred = call'[i].cred
        PROVE  call'[i].person = call'[c].person /\ ~Own(call'[c]) /\ ~Own(call'[i])
    <3>0. call'[i] = call[i] /\ ItsPin(i)
      BY <1>0, <2>1 DEF Creds
    <3>1. CASE Provides(call[c]) /\ call'[c].cred = call[c].cred /\ call'[c].person = call[c].person
               /\ (Own(call'[c]) => Own(call[c]))
      <4>1. ItsPin(c)
        BY <2>1, <3>1 DEF Creds
      <4> QED BY <2>1, <3>0, <3>1, <4>1 DEF ItsPin
    <3>2. CASE /\ call'[c].person \in Person /\ call'[c].cred = doc.authority[call'[c].person] /\ ~Own(call'[c])
      BY <2>1, <3>0, <3>2 DEF ItsPin, Somebody
    <3> QED BY <2>1, <3>1, <3>2
  <2>2. CASE o # c /\ a # c
    <3>1. call'[o] = call[o] /\ call'[a] = call[a] /\ ItsPin(o) /\ ItsPin(a)
      BY <1>0, <1>5, <2>2 DEF Creds
    <3> QED BY <1>5, <3>1 DEF ItsPin
  <2> QED BY <1>5, <2>1, <2>2
<1>6. ASSUME NEW o \in Caller, Provides(call'[o]), call'[o].cred # None PROVE ItsPin(o)'
  BY <1>4, <1>5, <1>6 DEF ItsPin, Somebody
<1> QED BY <1>1, <1>2, <1>6 DEF Creds

\* A person who has no PIN, or this one, gets it.
LEMMA CredsClaimed ==
  ASSUME Assumptions, DocOK, CallTypes, Secrets, Creds, NEW c \in Caller, Turn(c), Provides(call[c]),
         NEW p \in Person, p = call[c].person, NEW v \in vault, v = call[c].cred,
         vault' = vault, stored' = stored, lost' = lost,
         doc.authority[p] \in {None, v}, doc'.authority = [doc.authority EXCEPT ![p] = v], v # None,
         \A o \in Caller \ {c} : Provides(call[o]) /\ doc'.people[call[o].person] # None
                                    => doc.people[call[o].person] # None,
         Provides(call'[c]) => call'[c].cred = v /\ call'[c].person = p /\ ~Own(call'[c])
  PROVE  Creds'
<1>0. \A o \in Caller \ {c} : call'[o] = call[o]
  BY TurnsAlone
<1>00. ItsPin(c)
  BY DEF Creds
<1>01. doc'.authority[p] = v /\ \A q \in Person \ {p} : doc'.authority[q] = doc.authority[q]
  BY DEF DocOK, Document
<1>1. \A q \in Person : doc'.authority[q] # None => doc'.authority[q] \in vault'
  BY <1>01 DEF Creds
<1>2. ASSUME NEW w \in vault'
      PROVE  Somebody(w)' \/ w \in lost' \/ \E o \in Caller : Own(call'[o]) /\ call'[o].cred = w
  <2>0. CASE w = v
    BY <1>01, <2>0 DEF Somebody
  <2>1. ASSUME NEW q \in Person, doc.authority[q] = w PROVE Somebody(w)'
    <3>1. w # None
      BY <1>2, Constants DEF Secrets
    <3>2. doc'.authority[q] = w
      BY <1>01, <2>1, <3>1
    <3> QED BY <3>2 DEF Somebody
  <2>3. ASSUME NEW o \in Caller, Own(call[o]), call[o].cred = w, w # v
        PROVE  \E a \in Caller : Own(call'[a]) /\ call'[a].cred = w
    BY <1>0, <2>3
  <2> QED BY <1>2, <2>0, <2>1, <2>3 DEF Creds, Somebody
<1>3. ASSUME NEW o \in Caller, Provides(call'[o]), call'[o].cred # None
      PROVE  /\ call'[o].cred \in 1..stored
             /\ \A q \in Person : doc'.authority[q] = call'[o].cred => q = call'[o].person
             /\ doc'.people[call'[o].person] # None => call'[o].cred \in vault
             /\ Own(call'[o]) =>
                  call'[o].cred \in vault /\ \A q \in Person : doc'.authority[q] # call'[o].cred
  <2>1. CASE o = c
    BY <1>00, <1>01, <1>3, <2>1 DEF ItsPin
  <2>2. CASE o # c
    <3>1. call'[o] = call[o] /\ ItsPin(o)
      BY <1>0, <1>3, <2>2 DEF Creds
    <3>2. call[o].cred = v => call[o].person = p
      BY <1>00, <1>3, <3>1 DEF ItsPin
    <3>3. Own(call[o]) => call[o].cred # v
      BY <2>2, <3>1 DEF ItsPin
    <3> QED BY <1>01, <1>3, <2>2, <3>1, <3>2, <3>3 DEF ItsPin, Somebody
  <2> QED BY <2>1, <2>2
<1>5. ASSUME NEW o \in Caller, NEW a \in Caller, Provides(call'[o]), Provides(call'[a]), o # a,
             call'[o].cred # None, call'[a].cred = call'[o].cred
      PROVE  call'[a].person = call'[o].person /\ ~Own(call'[o])
  <2>1. CASE o # c /\ a # c
    <3>1. call'[o] = call[o] /\ call'[a] = call[a] /\ ItsPin(o)
      BY <1>0, <1>5, <2>1 DEF Creds
    <3> QED BY <1>5, <3>1 DEF ItsPin
  <2>2. CASE o = c
    <3>1. call'[a] = call[a] /\ call[a].cred = v
      BY <1>0, <1>5, <2>2
    <3> QED BY <1>00, <1>5, <2>2, <3>1 DEF ItsPin
  <2>3. CASE a = c
    <3>1. call'[o] = call[o] /\ call[o].cred = v /\ ItsPin(o)
      BY <1>0, <1>5, <2>3 DEF Creds
    <3> QED BY <1>5, <2>3, <3>1 DEF ItsPin
  <2> QED BY <2>1, <2>2, <2>3
<1>6. ASSUME NEW o \in Caller, Provides(call'[o]), call'[o].cred # None PROVE ItsPin(o)'
  BY <1>3, <1>5, <1>6 DEF ItsPin, Somebody
<1> QED BY <1>1, <1>2, <1>6 DEF Creds

\* A PIN that nobody has is deleted.
LEMMA CredsDiscarded ==
  ASSUME Assumptions, DocOK, CallTypes, Calls, Secrets, Creds, NEW c \in Caller, Turn(c), Own(call[c]),
         ~Provides(call'[c]),
         vault' = vault \ {call[c].cred}, stored' = stored, lost \subseteq lost' \cup {call[c].cred},
         doc'.authority = doc.authority, doc'.people = doc.people
  PROVE  Creds'
<1>0. \A o \in Caller \ {c} : call'[o] = call[o]
  BY TurnsAlone
<1>00. call[c].cred # None
  BY Provisions DEF Own, Provides, Steady
<1>01. ItsPin(c)
  BY <1>00 DEF Creds, Own
<1>1. \A q \in Person : doc'.authority[q] # None => doc'.authority[q] \in vault'
  BY <1>01 DEF Creds, ItsPin, Somebody
<1>2. ASSUME NEW w \in vault'
      PROVE  Somebody(w)' \/ w \in lost' \/ \E o \in Caller : Own(call'[o]) /\ call'[o].cred = w
  <2>1. CASE \E q \in Person : doc.authority[q] = w
    BY <2>1 DEF Somebody
  <2>2. CASE w \in lost
    BY <1>2, <2>2
  <2>3. ASSUME NEW o \in Caller, Own(call[o]), call[o].cred = w
        PROVE  \E a \in Caller : Own(call'[a]) /\ call'[a].cred = w
    <3>1. o # c
      BY <1>2, <2>3
    <3> QED BY <1>0, <2>3, <3>1
  <2> QED BY <1>2, <2>1, <2>2, <2>3 DEF Creds, Somebody
<1>3. ASSUME NEW o \in Caller, Provides(call'[o]), call'[o].cred # None PROVE ItsPin(o)'
  <2>1. o # c /\ call'[o] = call[o] /\ ItsPin(o)
    BY <1>0, <1>3 DEF Creds
  <2>2. call[o].cred # call[c].cred
    BY <1>01, <1>3, <2>1 DEF ItsPin
  <2>3. \A a \in Caller : Provides(call'[a]) => call'[a] = call[a]
    BY <1>0
  <2> QED BY <2>1, <2>2, <2>3 DEF ItsPin, Somebody
<1> QED BY <1>1, <1>2, <1>3 DEF Creds

\* A person has no PIN any more, which stays in the vault or goes with the person.
LEMMA CredsReleased ==
  ASSUME Assumptions, DocOK, CallTypes, Secrets, Creds, NEW c \in Caller, Turn(c), NEW p \in Person,
         doc'.authority = [doc.authority EXCEPT ![p] = None], stored' = stored, lost \subseteq lost',
         \/ vault' = vault /\ (doc.authority[p] # None => doc.authority[p] \in lost')
         \/ vault' = vault \ {doc.authority[p]} /\ doc'.people[p] = None,
         \A q \in Person : doc'.people[q] # None => doc.people[q] # None,
         Own(call[c]) => (Own(call'[c]) /\ call'[c].cred = call[c].cred) \/ call[c].cred \in lost',
         Provides(call'[c]) =>
           /\ Provides(call[c]) /\ call'[c].cred = call[c].cred /\ call'[c].person = call[c].person
           /\ Own(call'[c]) => Own(call[c])
  PROVE  Creds'
<1>0. \A o \in Caller \ {c} : call'[o] = call[o]
  BY TurnsAlone
<1>01. doc'.authority[p] = None /\ \A q \in Person \ {p} : doc'.authority[q] = doc.authority[q]
  BY DEF DocOK, Document
<1>02. \A q \in Person \ {p} : doc.authority[q] # None => doc.authority[q] # doc.authority[p]
  BY DEF DocOK, Valid, ClaimAgrees
<1>03. None \notin vault
  <2>1. None \notin Nat
    BY Constants
  <2>2. vault \subseteq Nat
    BY DEF Secrets
  <2> QED BY <2>1, <2>2
<1>1. ASSUME NEW q \in Person, doc'.authority[q] # None PROVE doc'.authority[q] \in vault'
  <2>1. q # p /\ doc'.authority[q] = doc.authority[q]
    BY <1>01, <1>1
  <2>2. doc.authority[q] \in vault /\ doc.authority[q] # doc.authority[p]
    BY <1>02, <1>1, <2>1 DEF Creds
  <2> QED BY <2>1, <2>2
<1>2. ASSUME NEW w \in vault'
      PROVE  Somebody(w)' \/ w \in lost' \/ \E o \in Caller : Own(call'[o]) /\ call'[o].cred = w
  <2>0. w \in vault
    BY <1>2
  <2>1. ASSUME NEW q \in Person, doc.authority[q] = w PROVE Somebody(w)' \/ w \in lost'
    <3>1. CASE q # p
      BY <1>01, <2>1, <3>1 DEF Somebody
    <3>2. CASE q = p
      BY <1>2, <1>03, <2>0, <2>1, <3>2
    <3> QED BY <3>1, <3>2
  <2>2. CASE w \in lost
    BY <2>2
  <2>3. ASSUME NEW o \in Caller, Own(call[o]), call[o].cred = w
        PROVE  w \in lost' \/ \E a \in Caller : Own(call'[a]) /\ call'[a].cred = w
    <3>1. CASE o = c
      BY <2>3, <3>1
    <3>2. CASE o # c
      BY <1>0, <2>3, <3>2
    <3> QED BY <3>1, <3>2
  <2> QED BY <2>0, <2>1, <2>2, <2>3 DEF Creds, Somebody
<1>3. ASSUME NEW o \in Caller, Provides(call'[o])
      PROVE  /\ Provides(call[o]) /\ call'[o].cred = call[o].cred /\ call'[o].person = call[o].person
             /\ Own(call'[o]) => Own(call[o])
  <2>1. CASE o = c
    BY <1>3, <2>1
  <2>2. CASE o # c
    BY <1>0, <1>3, <2>2
  <2> QED BY <2>1, <2>2
<1>4. \A v : v # None /\ (\E q \in Person : doc'.authority[q] = v) =>
     \E q \in Person : doc.authority[q] = v
  BY <1>01
<1>5. ASSUME NEW o \in Caller, Provides(call'[o]), call'[o].cred # None PROVE ItsPin(o)'
  <2>1. ItsPin(o) /\ call'[o].cred = call[o].cred /\ call'[o].person = call[o].person
        /\ (Own(call'[o]) => Own(call[o]))
    BY <1>3, <1>5 DEF Creds
  <2>2. call[o].cred \in 1..stored' /\ \A q \in Person : doc'.authority[q] = call[o].cred =>
       q = call[o].person
    BY <1>01, <1>5, <2>1 DEF ItsPin
  <2>3. \A a \in Caller : Provides(call'[a]) /\ call'[a].cred = call[o].cred =>
       call'[a].person = call[o].person
    BY <1>3, <2>1 DEF ItsPin
  <2>4. doc'.people[call[o].person] # None => call[o].cred \in vault'
    <3>1. CASE vault' = vault
      <4>1. call[o].person \in Person
        BY <1>3, <1>5, Fields DEF CallTypes, Provision, Provides
      <4> QED BY <2>1, <3>1, <4>1 DEF ItsPin
    <3>2. CASE vault' = vault \ {doc.authority[p]} /\ doc'.people[p] = None
      <4>1. call[o].person \in Person
        BY <1>3, <1>5, Fields DEF CallTypes, Provision, Provides
      <4> QED BY <2>1, <3>2, <4>1 DEF ItsPin
    <3> QED BY <3>1, <3>2
  <2>5. Own(call'[o]) => /\ call[o].cred \in vault' /\ \A q \in Person : doc'.authority[q] # call[o].cred
                         /\ \A a \in Caller \ {o} : Provides(call'[a]) => call'[a].cred # call[o].cred
    <3>1. Own(call'[o]) => call[o].cred \in vault /\ \A q \in Person : doc.authority[q] # call[o].cred
      BY <2>1 DEF ItsPin, Somebody
    <3>2. Own(call'[o]) => \A a \in Caller \ {o} : Provides(call'[a]) => call'[a].cred # call[o].cred
      BY <1>3, <2>1 DEF ItsPin
    <3>3. call[o].cred # None
      BY <1>5, <2>1
    <3> QED BY <1>01, <3>1, <3>2, <3>3
  <2> QED BY <2>1, <2>2, <2>3, <2>4, <2>5 DEF ItsPin, Somebody
<1> QED BY <1>1, <1>2, <1>5 DEF Creds

\* A new PIN is stored.
LEMMA CredsStored ==
  ASSUME Assumptions, DocOK, CallTypes, Calls, Secrets, Creds, NEW c \in Caller, Turn(c),
         Provides(call[c]),
         vault' = vault \cup {stored + 1}, stored' = stored + 1, lost' = lost,
         doc' = doc, call[c].cred = None, call'[c].cred = stored + 1, call'[c].person = call[c].person,
         Own(call'[c])
  PROVE  Creds'
<1>0. \A o \in Caller \ {c} : call'[o] = call[o]
  BY TurnsAlone
<1>00. stored \in Nat /\ stored + 1 \notin 1..stored /\ vault \subseteq 1..stored
       /\ 1..stored \subseteq 1..(stored + 1)
       /\ stored + 1 \in 1..(stored + 1)
  BY DEF Secrets
<1>1. \A q \in Person : doc'.authority[q] # None => doc'.authority[q] \in vault'
  BY DEF Creds
<1>2. ASSUME NEW w \in vault'
      PROVE  Somebody(w)' \/ w \in lost' \/ \E o \in Caller : Own(call'[o]) /\ call'[o].cred = w
  <2>0. CASE w = stored + 1
    BY <2>0
  <2>1. CASE w \in vault /\ (\E q \in Person : doc.authority[q] = w)
    BY <2>1 DEF Somebody
  <2>2. CASE w \in vault /\ w \in lost
    BY <2>2
  <2>3. ASSUME w \in vault, NEW o \in Caller, Own(call[o]), call[o].cred = w
        PROVE  \E a \in Caller : Own(call'[a]) /\ call'[a].cred = w
    <3>1. o # c
      BY <2>3, Constants DEF Secrets
    <3> QED BY <1>0, <2>3, <3>1
  <2> QED BY <1>2, <2>0, <2>1, <2>2, <2>3 DEF Creds, Somebody
<1>3. ASSUME NEW o \in Caller, Provides(call'[o]), call'[o].cred # None PROVE ItsPin(o)'
  <2>1. \A a \in Caller \ {c} : Provides(call'[a]) /\ call'[a].cred # None
                                  => call'[a] = call[a] /\ ItsPin(a) /\ call[a].cred \in 1..stored
    BY <1>0 DEF Creds, ItsPin
  <2>2. CASE o = c
    <3>1. \A a \in Caller \ {c} : Provides(call'[a]) => call'[a].cred # stored + 1
      BY <1>00, <2>1, Constants
    <3>2. \A q \in Person : doc.authority[q] # stored + 1
      BY <1>00, Constants DEF Creds
    <3> QED BY <1>00, <2>2, <3>1, <3>2 DEF ItsPin, Somebody
  <2>3. CASE o # c
    <3>1. call'[o] = call[o] /\ ItsPin(o) /\ call[o].cred # stored + 1
      BY <1>00, <1>3, <2>1, <2>3
    <3>2. \A a \in Caller : Provides(call'[a]) /\ call'[a].cred = call[o].cred => call'[a] = call[a]
      BY <1>0, <3>1
    <3>3. \A a \in Caller \ {o} : Provides(call'[a]) =>
         call'[a] = call[a] \/ call'[a].cred # call[o].cred
      BY <3>2
    <3>4. call[o].cred \in 1..stored'
      BY <1>00, <3>1 DEF ItsPin
    <3> QED BY <3>1, <3>2, <3>3, <3>4 DEF ItsPin, Somebody
  <2> QED BY <2>2, <2>3
<1> QED BY <1>1, <1>2, <1>3 DEF Creds

\* Who works for whom: a person has been drawn, and one who is going to be
\* created is not there and is given nothing before.
Unborn ==
  /\ \A c \in Caller : Provides(call[c]) => call[c].person \in drawn
  /\ \A r \in Creating : doc.requests[r] = None =>
       /\ doc.people[Asked[r].person] = None
       /\ \A c \in Caller : Gives(call[c]) => call[c].person # Asked[r].person

\* A call that provisions goes on for its person, or starts for one.
Serves(c) ==
  Provides(call'[c]) =>
    \/ /\ Provides(call[c]) /\ call'[c].person = call[c].person /\ call'[c].request = call[c].request
    \/ /\ call'[c].person \in drawn
       /\ call'[c].request = None => doc.people[call'[c].person] # None

\* A step that gives nothing to someone who is going to be created.
LEMMA UnbornStays ==
  ASSUME Assumptions, CallTypes, Unborn, Awaited \subseteq drawn, drawn \subseteq drawn',
         NEW c \in Caller, Turn(c), Serves(c),
         \A r \in Request : doc.requests[r] # None => doc'.requests[r] # None,
         \A p \in Person : doc'.people[p] # None =>
           \/ doc.people[p] # None \/ p \notin drawn
           \/ \E r \in Creating : Asked[r].person = p /\ doc'.requests[r] # None
  PROVE  Unborn'
<1>0. \A o \in Caller \ {c} : call'[o] = call[o]
  BY TurnsAlone
<1>1. ASSUME NEW o \in Caller, Provides(call'[o]) PROVE call'[o].person \in drawn'
  <2>1. CASE o = c
    BY <1>1, <2>1 DEF Unborn, Serves
  <2>2. CASE o # c
    BY <1>0, <1>1, <2>2 DEF Unborn
  <2> QED BY <2>1, <2>2
<1>2. ASSUME NEW r \in Creating, doc'.requests[r] = None
      PROVE  /\ doc'.people[Asked[r].person] = None
             /\ \A o \in Caller : Gives(call'[o]) => call'[o].person # Asked[r].person
  <2>0. r \in Request /\ Asked[r].person \in Person /\ Asked[r].person \in drawn
    BY Constants DEF Creating, Awaited
  <2>1. doc.requests[r] = None /\ doc.people[Asked[r].person] = None
    BY <1>2, <2>0 DEF Unborn
  <2>2. \A q \in Creating : Asked[q].person = Asked[r].person => q = r
    BY Constants
  <2>3. doc'.people[Asked[r].person] = None
    BY <1>2, <2>0, <2>1, <2>2
  <2>4. ASSUME NEW o \in Caller, Gives(call'[o]) PROVE call'[o].person # Asked[r].person
    <3>1. CASE o # c
      BY <1>0, <2>1, <2>4, <3>1 DEF Unborn
    <3>2. CASE o = c
      <4>0. call'[c] \in CallRecord
        BY DEF Turn
      <4>1. Provides(call'[c]) /\ call'[c].request = None
        <5>1. call'[c].pc # "save"
          BY <2>4, <3>2, <4>0, Shapes, Constants DEF Gives
        <5> QED BY <2>4, <3>2, <5>1 DEF Gives, Busy, Provides
      <4>2. CASE doc.people[call'[c].person] # None
        BY <2>1, <3>2, <4>2
      <4>3. CASE Provides(call[c]) /\ call'[c].person = call[c].person /\ call[c].request = None
        <5>1. Gives(call[c])
          BY <4>3 DEF Gives, Provides, Busy
        <5> QED BY <2>1, <3>2, <4>3, <5>1 DEF Unborn
      <4> QED BY <4>1, <4>2, <4>3 DEF Serves
    <3> QED BY <3>1, <3>2
  <2> QED BY <2>3, <2>4
<1>3. \A r \in Creating : doc'.requests[r] = None =>
       /\ doc'.people[Asked[r].person] = None
       /\ \A o \in Caller : Gives(call'[o]) => call'[o].person # Asked[r].person
  BY <1>2
<1> QED BY <1>1, <1>3 DEF Unborn

\* A set-up keeps PINs and the vault in agreement, and works for a person who has been drawn.
LEMMA SetUpCreds ==
  ASSUME Assumptions, DocOK, CallTypes, Calls, Drawn, Secrets, Requests, Creds, Unborn, NEW c \in Caller,
         SetUp(c)
  PROVE  Creds' /\ Serves(c)
<1> DEFINE Done == Creds' /\ Serves(c)
           Still == /\ vault' = vault /\ stored' = stored /\ lost \subseteq lost'
                    /\ doc'.authority = doc.authority /\ doc'.people = doc.people
<1>0. Turn(c)
  BY SetUpTurns DEF Secrets
<1>01. ASSUME Still, ~Provides(call'[c]), Own(call[c]) => call[c].cred \in lost' PROVE Done
  BY <1>0, <1>01, CredsStay DEF Serves
<1>02. ASSUME Still, Becomes(c, Free), Own(call[c]) => call[c].cred \in lost' PROVE Done
  <2>1. ~Provides(call'[c])
    BY <1>02 DEF Becomes, CallTypes, Free, Provides, ProvisionPc
  <2> QED BY <1>01, <1>02, <2>1
<1>03. ASSUME Still, Carries(c), SameSecret(c), Own(call[c]) <=> Own(call'[c]) PROVE Done
  <2>1. Provides(call[c])
    BY <1>03 DEF Carries, Provision, Provides, ProvisionPc
  <2>2. Serves(c)
    BY <1>03, <2>1 DEF Serves, Carries
  <2> QED BY <1>0, <1>03, <2>1, <2>2, CredsStay DEF Carries, SameSecret
<1>04. ASSUME Still, Carries(c), SameSecret(c), call[c].pc \notin {"core", "discard"},
              call'[c].pc \notin {"core", "discard"} PROVE Done
  <2>1. Own(call[c]) <=> Own(call'[c])
    BY <1>04 DEF Carries, SameSecret, Own, Provides, Provision, ProvisionPc
  <2> QED BY <1>03, <1>04, <2>1
<1> HIDE DEF Done
<1>05. ASSUME NEW next \in ProvisionPc \ {"core", "discard"}, Still, Goes(c, next),
              call[c].pc \in Recording \cup {"door", "rollback"} PROVE Done
  <2>1. call[c].pc \in ProvisionPc /\ call[c].pc \notin {"core", "discard"}
    BY <1>05 DEF ProvisionPc, Recording
  <2>2. Carries(c) /\ SameSecret(c) /\ call'[c].pc = next
    BY <1>05, <2>1, GoesFields
  <2> QED BY <1>04, <1>05, <2>1, <2>2
<1>1. ASSUME NEW r \in Request, Submit(c, r) \/ Repeat(c, r) PROVE Done
  <2>0. Asked[r].person \in Person /\ Asked[r].doors \in SUBSET Door /\ r # None
        /\ Asked[r].kind \in {"create", "assign"}
    BY Constants
  <2>1. Still
    BY <1>1 DEF Submit, Repeat, Begin, setup
  <2>2. /\ At(c, "free") /\ call'[c].made = FALSE /\ call'[c].request = r
        /\ call'[c].person = Asked[r].person /\ call'[c].cred \in {None, doc.authority[Asked[r].person]}
    <3>1. ASSUME NEW pc, NEW cred, Begin(c, r, pc, cred)
          PROVE  /\ At(c, "free") /\ call'[c].made = FALSE /\ call'[c].request = r
                 /\ call'[c].person = Asked[r].person /\ call'[c].cred = cred
      <4>1. At(c, "free")
        BY <3>1 DEF Begin, Begins
      <4>2. call'[c] = [Provisioning(r, pc, Asked[r].person, Asked[r].doors) EXCEPT !.cred = cred]
        BY <3>1, Zenon DEF Begin, Begins, Becomes, CallTypes
      <4> QED BY <4>1, <4>2 DEF Provisioning
    <3>2. CASE Submit(c, r)
      BY <3>1, <3>2, Zenon DEF Submit
    <3>3. CASE Repeat(c, r)
      BY <3>1, <3>3 DEF Repeat
    <3> QED BY <1>1, <3>2, <3>3
  <2>3. ~Own(call[c]) /\ ~Own(call'[c])
    BY <2>0, <2>2 DEF Own, Provides, ProvisionPc, At
  <2>4. Asked[r].person \in drawn
    <3>1. CASE Asked[r].kind = "create"
      BY <3>1 DEF Drawn, Awaited, Creating
    <3>2. CASE Asked[r].kind # "create"
      BY <1>1, <2>0, <3>2 DEF Submit, Repeat, Drawn
    <3> QED BY <3>1, <3>2
  <2>5. Serves(c)
    BY <2>0, <2>2, <2>4 DEF Serves
  <2> QED BY <1>0, <2>0, <2>1, <2>2, <2>3, <2>5, CredsStay DEF Done
<1>2. ASSUME NEW p \in Person, NEW x \in Door, Give(c, p, x) PROVE Done
  <2>1. Still /\ doc.people[p] # None
    BY <1>2 DEF Give, setup
  <2>2. At(c, "free") /\ call'[c].made = FALSE /\ call'[c].person = p /\ call'[c].cred = doc.authority[p]
    <3>1. At(c, "free") /\ call'[c] = [pc |-> "door", request |-> None, person |-> p, todo |-> {x}, done |-> {},
                        door |-> None, had |-> {}, cred |-> doc.authority[p], made |-> FALSE,
                             doors |-> {x}]
      BY <1>2, GiveTurn
    <3> QED BY <3>1
  <2>3. ~Own(call[c]) /\ ~Own(call'[c])
    BY <2>2 DEF Own, Provides, ProvisionPc, At
  <2>4. Serves(c)
    BY <2>1, <2>2 DEF Serves, Drawn
  <2> QED BY <1>0, <2>1, <2>2, <2>3, <2>4, CredsStay DEF Done
<1>3. ASSUME StoreSecret(c) PROVE Done
  <2>1. /\ call[c].pc = "secret" /\ Carries(c) /\ call'[c].cred = stored + 1 /\ call'[c].made
        /\ call'[c].pc = IF call[c].request # None THEN "core" ELSE "metadata"
    BY <1>3, Secreting DEF At, Secrets
  <2>2. Provides(call[c]) /\ Own(call'[c])
    BY <2>1 DEF Own, Provides, ProvisionPc, Carries
  <2>3. call[c].cred = None
    BY <2>1, <2>2, Provisions DEF Provides, Steady
  <2>4. doc' = doc /\ vault' = vault \cup {stored + 1} /\ stored' = stored + 1 /\ lost' = lost
    BY <1>3 DEF StoreSecret
  <2>5. Creds'
    BY <1>0, <2>1, <2>2, <2>3, <2>4, CredsStored DEF Carries
  <2> QED BY <2>1, <2>2, <2>5 DEF Done, Serves, Carries
<1>4. ASSUME PrepareFails(c) PROVE Done
  <2>0. Still /\ call[c].pc = "core" /\ call[c].pc \in ProvisionPc
    BY <1>4 DEF PrepareFails, At, ProvisionPc, kept, setup
  <2>1. CASE call[c].made
    <3>1. Goes(c, "discard") /\ "discard" \in ProvisionPc
      BY <1>4, <2>1 DEF PrepareFails, ProvisionPc
    <3>2. Carries(c) /\ SameSecret(c) /\ call'[c].pc = "discard"
      BY <2>0, <3>1, GoesFields
    <3>3. Own(call[c]) <=> Own(call'[c])
      BY <2>0, <3>1, <3>2 DEF Own, Provides, SameSecret
    <3> QED BY <1>03, <2>0, <3>2, <3>3
  <2>2. CASE ~call[c].made
    BY <1>02, <1>4, <2>0, <2>2 DEF PrepareFails, Own
  <2> QED BY <2>1, <2>2
<1>5. ASSUME NEW works \in BOOLEAN, Discard(c, works) PROVE Done
  <2>0. call[c].pc = "discard" /\ call[c].pc \in ProvisionPc /\ doc' = doc /\ stored' = stored
        /\ Becomes(c, Free)
    BY <1>5 DEF Discard, At, ProvisionPc
  <2>1. CASE works
    <3>1. Own(call[c])
      BY <2>0, Provisions DEF Own, Provides, Steady
    <3>2. ~Provides(call'[c])
      BY <2>0 DEF Becomes, CallTypes, Free, Provides, ProvisionPc
    <3>3. vault' = vault \ {call[c].cred} /\ lost' = lost
      BY <1>5, <2>1 DEF Discard
    <3>4. Creds'
      BY <1>0, <2>0, <3>1, <3>2, <3>3, CredsDiscarded
    <3> QED BY <3>2, <3>4 DEF Done, Serves
  <2>2. CASE ~works
    BY <1>02, <1>5, <2>0, <2>2 DEF Discard
  <2> QED BY <2>1, <2>2
<1>6. ASSUME AnswerAgain(c) \/ FinishFails(c) PROVE Done
  <2>1. Still /\ call[c].pc = "finish" /\ Becomes(c, Free)
    BY <1>6 DEF AnswerAgain, FinishFails, At, kept, setup
  <2>2. ~Own(call[c])
    BY <2>1, Provisions DEF Own, Provides, SteadyGift, Recording
  <2> QED BY <1>02, <2>1, <2>2
<1>7. ASSUME NothingToDo(c) \/ AllAdded(c) \/ NotAdded(c) PROVE Done
  <2>1. Still /\ call[c].pc \in {"finish", "door", "failed"} /\ \E state, added : Ready(c, state, added)
    BY <1>7 DEF NothingToDo, AllAdded, NotAdded, At, kept, setup
  <2>2. ~Own(call[c])
    BY <2>1, Provisions DEF Own, Provides, SteadyGift, Recording
  <2>3. ~Provides(call'[c])
    BY <2>1 DEF Ready, Becomes, CallTypes, Provides, ProvisionPc
  <2> QED BY <1>01, <2>1, <2>2, <2>3
<1>8. ASSUME MarkProvisioning(c) PROVE Done
  <2>1. Still
    BY <1>8 DEF MarkProvisioning, DocOK, Document
  <2>2. Carries(c) /\ SameSecret(c) /\ call[c].pc = "finish" /\ call'[c].pc = "check"
    BY <1>8, Marking DEF At
  <2> QED BY <1>04, <2>1, <2>2
<1>9. ASSUME CheckAdditions(c) PROVE Done
  <2>1. Still
    BY <1>9 DEF CheckAdditions, kept, setup
  <2>2. Carries(c) /\ SameSecret(c) /\ call[c].pc = "check" /\ call'[c].pc \in {"door", "failed"}
    BY <1>9, Checking DEF At
  <2> QED BY <1>04, <2>1, <2>2
<1>10. ASSUME NEW x \in Door, Program(c, x) PROVE Done
  <2>1. Still
    BY <1>10 DEF Program, kept, setup
  <2>2. Carries(c) /\ SameSecret(c) /\ call[c].pc = "door" /\ call'[c].pc \in {"secret", "metadata"}
    BY <1>10, Programming DEF At
  <2> QED BY <1>04, <2>1, <2>2
<1>11. ASSUME Refuse(c) PROVE Done
  <2>1. Still /\ call[c].pc = "door" /\ call[c].pc \in ProvisionPc
    BY <1>11 DEF Refuse, At, kept, setup, ProvisionPc
  <2>2. CASE Goes(c, "rollback")
    BY <1>05, <2>1, <2>2 DEF ProvisionPc
  <2>3. CASE Giving(c) /\ Becomes(c, Free)
    <3>1. ~Own(call[c])
      BY <2>1, <2>3, Provisions DEF Own, SteadyGift
    <3> QED BY <1>02, <2>1, <2>3, <3>1
  <2> QED BY <1>11, <2>2, <2>3 DEF Refuse
<1>12. ASSUME \/ RecordMetadata(c) \/ RecordGrant(c) \/ RecordNoGrant(c) \/ UndoGrant(c) \/ UndoMetadata(c)
              \/ UndoFails(c) \/ TakenBack(c)
       PROVE  Done
  <2>1. call[c].pc \in Recording \cup {"door", "rollback"}
    BY <1>12 DEF RecordMetadata, RecordGrant, RecordNoGrant, UndoGrant, UndoMetadata,
                UndoFails, TakenBack, Record, At, Recording
  <2>2. PICK next \in {"grant", "authority", "undo_grant", "undo_metadata", "undo_authority", "rollback",
            "failed"} :
          Goes(c, next)
    <3>1. CASE RecordMetadata(c) \/ RecordGrant(c) \/ RecordNoGrant(c)
      BY <3>1 DEF RecordMetadata, RecordGrant, RecordNoGrant, Record
    <3>2. CASE UndoGrant(c) \/ UndoMetadata(c) \/ UndoFails(c) \/ TakenBack(c)
      BY <3>2 DEF UndoGrant, UndoMetadata, UndoFails, TakenBack
    <3> QED BY <1>12, <3>1, <3>2
  <2>3. Still
    <3>1. vault' = vault /\ stored' = stored /\ lost' = lost
      BY <1>12 DEF RecordMetadata, RecordGrant, RecordNoGrant, UndoGrant, UndoMetadata,
                UndoFails, TakenBack, kept, setup
    <3>2. doc'.authority = doc.authority /\ doc'.people = doc.people
      <4>1. CASE RecordMetadata(c) \/ RecordGrant(c)
        <5>1. doc' = doc \/ \E g, cred, status : doc' = UpsertMetadata(doc, g, cred, status)
              \/ \E h, pin : doc' = InheritGrant(doc, h, pin)
          BY <4>1 DEF RecordMetadata, RecordGrant, Record
        <5> QED BY <5>1 DEF UpsertMetadata, InheritGrant, UpsertGrant, DocOK, Document
      <4>2. CASE RecordNoGrant(c) \/ UndoFails(c) \/ TakenBack(c)
        BY <4>2 DEF RecordNoGrant, UndoFails, TakenBack
      <4>3. CASE UndoGrant(c) \/ UndoMetadata(c)
        BY <4>3 DEF UndoGrant, UndoMetadata, RemoveGrant, RemoveMetadata, DocOK, Document
      <4> QED BY <1>12, <4>1, <4>2, <4>3
    <3> QED BY <3>1, <3>2
  <2>4. next \in ProvisionPc \ {"core", "discard"}
    BY DEF ProvisionPc
  <2> QED BY <1>05, <2>1, <2>2, <2>3, <2>4
<1>13. ASSUME (\E x \in Door : TakeBack(c, x) \/ LeaveMarked(c, x)) \/ Unrecord(c) PROVE Done
  <2>1. Still
    <3>1. ASSUME NEW x \in Door, TakeBack(c, x) PROVE Still
      BY <3>1 DEF TakeBack, kept, setup, RemoveGrant, DocOK, Document
    <3>2. ASSUME NEW x \in Door, LeaveMarked(c, x) PROVE Still
      BY <3>2 DEF LeaveMarked, kept, setup, DocOK, Document
    <3>3. CASE Unrecord(c)
      BY <3>3 DEF Unrecord, kept, setup, RemoveGrant, RemoveMetadata, DocOK, Document
    <3> QED BY <1>13, <3>1, <3>2, <3>3
  <2>2. /\ Carries(c) /\ SameSecret(c)
        /\ call[c].pc \in {"rollback", "unrecord"} /\ call'[c].pc \in {"rollback", "unrecord"}
    BY <1>13, Undoing DEF At
  <2> QED BY <1>04, <2>1, <2>2
<1>14. ASSUME SaveResult(c) \/ SaveFails(c) PROVE Done
  <2>1. vault' = vault /\ stored' = stored /\ lost' = lost /\ call[c].pc = "save" /\ Becomes(c, Free)
    BY <1>14 DEF SaveResult, SaveFails, At, kept, setup
  <2>2. doc'.authority = doc.authority /\ doc'.people = doc.people
    BY <1>14 DEF SaveResult, SaveFails, DocOK, Document
  <2>3. ~Own(call[c])
    BY <2>1 DEF Own, Provides, ProvisionPc
  <2> QED BY <1>02, <2>1, <2>2, <2>3
<1>15. ASSUME NEW p \in Person, DeletePerson(c, p) PROVE Done
  <2>1. /\ doc' = RemovePerson(doc, p) /\ vault' = vault \ {doc.authority[p]} /\ call' = call
        /\ stored' = stored /\ lost' = lost
    BY <1>15 DEF DeletePerson
  <2>2. /\ doc'.people = [doc.people EXCEPT ![p] = None]
        /\ doc'.authority = [doc.authority EXCEPT ![p] = None]
    BY <2>1, Deleted
  <2>3. doc'.people[p] = None /\ \A q \in Person : doc'.people[q] # None => doc.people[q] # None
    BY <2>2 DEF DocOK, Document
  <2>4. Creds'
    BY <1>0, <2>1, <2>2, <2>3, CredsReleased
  <2> QED BY <2>1, <2>4 DEF Done, Serves
<1>16. ASSUME UndoAuthority(c) PROVE Done
  <2>0. /\ call[c].pc = "undo_authority" /\ call[c].pc \in ProvisionPc /\ call[c].pc \in Recording
        /\ Goes(c, "rollback") /\ "rollback" \in ProvisionPc \ {"core", "discard"} /\ vault' = vault
        /\ stored' = stored
    BY <1>16 DEF UndoAuthority, At, ProvisionPc, Recording
  <2>1. Carries(c) /\ SameSecret(c) /\ call'[c].pc = "rollback"
    BY <2>0, GoesFields
  <2>2. PICK p \in Person, v \in Pin : p = call[c].person /\ v = call[c].cred
    BY <2>0, Places
  <2>3. CASE MayRelease(doc, p, v)
    <3>1. doc' = SetAuthority(doc, p, None) /\ lost' = lost \cup {v}
      BY <1>16, <2>2, <2>3 DEF UndoAuthority
    <3>2. doc' = [doc EXCEPT !.authority[p] = None] /\ None \in Pin
      BY <3>1 DEF SetAuthority, Pin
    <3>3. doc'.authority = [doc.authority EXCEPT ![p] = None] /\ doc'.people = doc.people
      BY <3>2, AuthorityOnly
    <3>4. doc.authority[p] \in {None, v}
      BY <2>3 DEF MayRelease
    <3>5. Provides(call[c]) /\ (Own(call'[c]) => Own(call[c]))
      BY <2>0, <2>1 DEF Own, Provides, Carries, SameSecret
    <3>6. Creds'
      BY <1>0, <2>0, <2>1, <2>2, <3>1, <3>3, <3>4, <3>5, CredsReleased, SMTT(20) DEF Carries, SameSecret
    <3> QED BY <2>1, <3>5, <3>6 DEF Done, Serves, Carries
  <2>4. CASE ~MayRelease(doc, p, v)
    <3>1. Still
      BY <1>16, <2>0, <2>2, <2>4 DEF UndoAuthority
    <3> QED BY <1>05, <2>0, <3>1
  <2> QED BY <2>3, <2>4
<1>17. ASSUME NEW removed \in BOOLEAN, GiveFails(c, removed) PROVE Done
  <2>0. /\ call[c].pc = "rollback" /\ call[c].pc \in ProvisionPc /\ Becomes(c, Free) /\ stored' = stored
        /\ call[c].request = None
    <3>1. call[c].pc = "rollback" /\ call[c].pc \in ProvisionPc /\ Becomes(c, Free) /\ stored' = stored
          /\ Giving(c)
      BY <1>17 DEF GiveFails, At, ProvisionPc
    <3> QED BY <3>1, Provisions
  <2>2. PICK p \in Person, v \in Pin : p = call[c].person /\ v = call[c].cred
    BY <2>0, Places
  <2>3. CASE removed /\ call[c].made /\ MayRelease(doc, p, v)
    <3>1. doc' = SetAuthority(doc, p, None) /\ vault' = vault \ {v} /\ lost' = lost \ {v}
      BY <1>17, <2>2, <2>3 DEF GiveFails
    <3>2. Own(call[c]) /\ v # None /\ ItsPin(c)
      <4>1. v # None
        BY <2>0, <2>2, <2>3, Provisions DEF Steady
      <4> QED BY <2>0, <2>2, <2>3, <4>1 DEF Own, Provides, Creds
    <3>3. doc.authority[p] = None
      BY <2>2, <2>3, <3>2 DEF MayRelease, ItsPin, Somebody
    <3>4. doc'.authority = doc.authority /\ doc'.people = doc.people
      BY <3>1, <3>3 DEF SetAuthority, DocOK, Document
    <3>5. ~Provides(call'[c])
      BY <2>0 DEF Becomes, CallTypes, Free, Provides, ProvisionPc
    <3>6. Creds'
      BY <1>0, <2>0, <2>2, <3>1, <3>2, <3>4, <3>5, CredsDiscarded
    <3> QED BY <3>5, <3>6 DEF Done, Serves
  <2>4. CASE ~(removed /\ call[c].made /\ MayRelease(doc, p, v))
    <3>1. Still /\ (call[c].made => call[c].cred \in lost')
      BY <1>17, <2>0, <2>2, <2>4 DEF GiveFails
    <3> QED BY <1>02, <2>0, <3>1 DEF Own
  <2> QED BY <2>3, <2>4
<1>18. ASSUME RecordAuthority(c) PROVE Done
  <2>0. /\ call[c].pc = "authority" /\ call[c].pc \in ProvisionPc /\ call[c].pc \in Recording
        /\ vault' = vault /\ stored' = stored /\ lost' = lost
    BY <1>18 DEF RecordAuthority, At, ProvisionPc, Recording, kept, setup
  <2>1. CASE Goes(c, "undo_grant") /\ doc' = doc
    BY <1>05, <2>0, <2>1 DEF ProvisionPc
  <2>2. CASE /\ MayClaim(doc, call[c].person, call[c].cred) /\ Valid(doc')
             /\ doc' = SetAuthority(doc, call[c].person, call[c].cred)
             /\ \/ call[c].request = None /\ Becomes(c, Free)
                \/ /\ call[c].request # None /\ Carries(c) /\ SameSecret(c) /\ call'[c].pc = "door"
    <3>1. PICK p \in Person, v \in Pin : p = call[c].person /\ v = call[c].cred
      BY <2>0, Places
    <3>2. v # None /\ Provides(call[c]) /\ ItsPin(c)
      <4>1. v # None
        BY <2>0, <3>1, Provisions DEF Steady
      <4> QED BY <2>0, <3>1, <4>1 DEF Provides, Creds
    <3>3. doc' = [doc EXCEPT !.authority[p] = v] /\ doc.authority[p] \in {None, v} /\ Valid(doc')
      BY <2>2, <3>1 DEF SetAuthority, MayClaim
    <3>4. doc'.authority = [doc.authority EXCEPT ![p] = v] /\ doc'.people = doc.people /\ doc'.authority[p] = v
      BY <3>3, AuthorityOnly
    <3>5. doc.people[p] # None
      BY <3>2, <3>3, <3>4 DEF Valid, OwnersExist
    <3>6. v \in vault
      BY <3>1, <3>2, <3>5 DEF ItsPin
    <3>7. Provides(call'[c]) => call'[c].cred = v /\ call'[c].person = p /\ ~Own(call'[c]) /\ Serves(c)
      <4>1. CASE call[c].request = None /\ Becomes(c, Free)
        BY <4>1 DEF Becomes, CallTypes, Free, Provides, ProvisionPc
      <4>2. CASE call[c].request # None /\ Carries(c) /\ SameSecret(c) /\ call'[c].pc = "door"
        BY <3>1, <3>2, <4>2 DEF Carries, SameSecret, Own, Serves
      <4> QED BY <2>2, <4>1, <4>2
    <3>8. Creds'
      BY <1>0, <2>0, <3>1, <3>2, <3>3, <3>4, <3>6, <3>7, CredsClaimed, SMTT(40)
    <3> QED BY <3>7, <3>8 DEF Done, Serves
  <2> QED BY <1>18, <2>1, <2>2, Authorizing
<1>19. ASSUME Prepare(c) PROVE Done
  <2>0. /\ call[c].pc = "core" /\ call[c].pc \in ProvisionPc /\ "finish" \in ProvisionPc /\ Goes(c, "finish")
        /\ vault' = vault /\ stored' = stored /\ lost' = lost
    BY <1>19 DEF Prepare, At, ProvisionPc, kept, setup
  <2>1. Carries(c) /\ SameSecret(c) /\ call'[c].pc = "finish"
    BY <2>0, GoesFields
  <2>2. /\ call[c].request # None /\ call[c].request \in Request /\ SteadySetUp(call[c]) /\ Steady(call[c])
    <3>1. call[c].request # None
      BY <2>0, Provisions DEF SteadyGift, Recording
    <3> QED BY <2>0, <3>1, Provisions, Places
  <2>3. PICK r \in Request : r = call[c].request
    BY <2>2
  <2>4. PICK p \in Person, v \in Pin : p = call[c].person /\ v = call[c].cred
    BY <2>0, Places
  <2>5. p = Asked[r].person /\ Provides(call[c]) /\ ~Own(call'[c]) /\ (Own(call[c]) <=> call[c].made)
    BY <2>0, <2>1, <2>2, <2>3, <2>4 DEF SteadySetUp, Own, Provides, Carries
  <2>6. /\ doc' = Prepared(doc, r, v) /\ Valid(doc') /\ MayPrepare(doc, r, v, call[c].made)
    BY <1>19, <2>3, <2>4 DEF Prepare
  <2>7. Asked[r].kind = "create" \/ doc.people[Asked[r].person] # None
    BY <2>6 DEF MayPrepare, MayAssign
  <2>8. /\ doc'.authority = [doc.authority EXCEPT ![p] = v]
        /\ \A q \in Person : q # p => doc'.people[q] = doc.people[q]
    <3>1. /\ doc'.authority = [doc.authority EXCEPT ![Asked[r].person] = v]
          /\ \A q \in Person : q # Asked[r].person => doc'.people[q] = doc.people[q]
      <4>1. /\ Asked[r].kind = "create" \/ doc.people[Asked[r].person] # None
            /\ doc' = Prepared(doc, r, v) /\ Valid(doc')
        BY <2>6, <2>7
      <4> QED BY <4>1, PreparingClaims, Zenon
    <3> QED BY <2>5, <3>1
  <2>9. doc.authority[p] = v \/ (doc.authority[p] = None /\ call[c].made)
    <3>1. CASE Asked[r].kind = "create"
      <4>1. doc.people[p] = None
        BY <2>5, <2>6, <3>1 DEF MayPrepare, MayCreate
      <4>2. doc.authority[p] = None
        BY <4>1 DEF DocOK, Valid, OwnersExist
      <4> QED BY <2>0, <2>2, <2>3, <2>4, <3>1, <4>2 DEF SteadySetUp
    <3>2. CASE Asked[r].kind # "create"
      BY <2>5, <2>6, <3>2 DEF MayPrepare, MayAssign
    <3> QED BY <3>1, <3>2
  <2>10. \A o \in Caller \ {c} : Provides(call[o]) /\ doc'.people[call[o].person] # None
                                  => doc.people[call[o].person] # None
    <3>1. ASSUME NEW o \in Caller \ {c}, Provides(call[o]), call[o].person = p, doc.people[p] = None
          PROVE FALSE
      <4>1. Asked[r].kind = "create" /\ r \in Creating
        BY <2>5, <2>7, <3>1 DEF Creating
      <4>2. doc.requests[r] = None
        BY <2>0, <2>2, <2>3 DEF Requests, Sets, Busy
      <4>3. ~Gives(call[o])
        BY <2>5, <3>1, <4>1, <4>2 DEF Unborn
      <4>4. ~Sets(call[o])
        <5>1. Sets(call[c])
          BY <2>0, <2>2 DEF Sets, Busy
        <5> QED BY <3>1, <5>1 DEF Calls
      <4> QED BY <3>1, <4>3, <4>4 DEF Gives, Sets, Busy, Provides
    <3>2. ASSUME NEW o \in Caller \ {c}, Provides(call[o]), doc'.people[call[o].person] # None
          PROVE  doc.people[call[o].person] # None
      <4>1. call[o].person \in Person
        BY <3>2, Places DEF Provides
      <4> QED BY <2>8, <3>1, <3>2, <4>1
    <3> QED BY <3>2
  <2>11. Serves(c)
    BY <2>1, <2>5 DEF Serves, Carries
  <2>12. CASE v = None
    <3>1. doc'.authority = doc.authority /\ ~Own(call[c])
      <4>1. ~call[c].made
        BY <2>2, <2>4, <2>12 DEF Steady
      <4> QED BY <2>5, <2>8, <2>9, <2>12, <4>1 DEF DocOK, Document
    <3>2. call'[c].cred = None
      BY <2>1, <2>4, <2>12 DEF SameSecret
    <3>3. \A o \in Caller : Provides(call'[o]) /\ call'[o].cred # None /\ doc'.people[call'[o].person] # None
                             => doc.people[call'[o].person] # None
      <4>1. \A o \in Caller \ {c} : call'[o] = call[o]
        BY <1>0, TurnsAlone
      <4> QED BY <2>10, <3>2, <4>1
    <3>4. Creds'
      BY <1>0, <2>0, <3>1, <3>2, <3>3, CredsStay
    <3> QED BY <2>11, <3>4 DEF Done
  <2>13. CASE v # None
    <3>1. ItsPin(c)
      BY <2>4, <2>5, <2>13 DEF Creds
    <3>2. v \in vault
      BY <2>4, <2>5, <2>9, <2>13, <3>1 DEF ItsPin, Creds
    <3>3. Provides(call'[c]) => call'[c].cred = v /\ call'[c].person = p /\ ~Own(call'[c])
      BY <2>1, <2>4, <2>5 DEF Carries, SameSecret
    <3>4. doc.authority[p] \in {None, v} /\ Provides(call[c])
      BY <2>5, <2>9
    <3>5. p = call[c].person /\ v = call[c].cred
      BY <2>4
    <3>6. doc'.authority = [doc.authority EXCEPT ![p] = v]
      BY <2>8
    <3>7. vault' = vault /\ stored' = stored /\ lost' = lost
      BY <2>0
    <3>8. Creds'
      BY <1>0, <2>10, <2>13, <3>2, <3>3, <3>4, <3>5, <3>6, <3>7, CredsClaimed
    <3> QED BY <2>11, <3>8 DEF Done
  <2> QED BY <2>12, <2>13
<1>20. Done
  BY <1>1, <1>2, <1>3, <1>4, <1>5, <1>6, <1>7, <1>8, <1>9, <1>10, <1>11, <1>12, <1>13, <1>14, <1>15,
     <1>16,
     <1>17, <1>18, <1>19 DEF SetUp
<1> QED BY <1>20 DEF Done

\* PINs, the vault, and who is going to be created.
Keeping == Creds /\ Unborn

\* PINs and the vault agree at first.
LEMMA InitKeeping ==
  ASSUME Assumptions, Init
  PROVE  Keeping
<1>1. PICK home \in Homes :
    /\ doc = home.doc /\ vault = 1..home.stored /\ stored = home.stored
    /\ call = [c \in Caller |-> Free]
  BY DEF Init
<1>2. /\ {home.doc.authority[p] : p \in Person} \ {None} = 1..home.stored
      /\ \A p \in Awaited : home.doc.people[p] = None
  BY DEF Assumptions
<1>3. \A c \in Caller : call[c].pc = "free" /\ ~Provides(call[c]) /\ ~Gives(call[c])
  BY <1>1 DEF Free, Provides, ProvisionPc, Gives, Busy
<1>4. \A p \in Person : doc.authority[p] # None => doc.authority[p] \in vault
  BY <1>1, <1>2
<1>5. \A v \in vault : Somebody(v)
  BY <1>1, <1>2 DEF Somebody
<1>6. Creds
  BY <1>3, <1>4, <1>5 DEF Creds
<1>7. Unborn
  BY <1>1, <1>2, <1>3 DEF Unborn, Awaited
<1> QED BY <1>6, <1>7 DEF Keeping

\* Every step keeps PINs and the vault in agreement.
LEMMA NextKeeping ==
  ASSUME Assumptions, Basis, Keeping, [Next]_vars
  PROVE  Keeping'
<1>0. DocOK /\ CallTypes /\ Calls /\ Drawn /\ Requests /\ History /\ Secrets /\ Creds /\ Unborn
  BY DEF Basis, Keeping
<1>1. ASSUME NEW c \in Caller, Turn(c), ~Busy(call[c]), ~Busy(call'[c]), UNCHANGED setup,
             doc'.authority = doc.authority, doc'.requests = doc.requests, drawn \subseteq drawn',
             \A p \in Person : doc'.people[p] # None => doc.people[p] # None \/ p \notin drawn
      PROVE  Keeping'
  <2>1. ~Provides(call[c]) /\ ~Provides(call'[c]) /\ ~Own(call[c])
    BY <1>1 DEF Provides, Busy, Own
  <2>2. Serves(c)
    BY <2>1 DEF Serves
  <2>3. vault' = vault /\ stored' = stored /\ lost' = lost
    BY <1>1 DEF setup
  <2>4. ASSUME NEW o \in Caller, Provides(call'[o]), doc'.people[call'[o].person] # None
        PROVE  doc.people[call'[o].person] # None
    <3>1. call'[o] = call[o]
      BY <1>0, <1>1, <2>1, <2>4, TurnsAlone
    <3>2. call[o].person \in Person /\ call[o].person \in drawn
      BY <1>0, <2>4, <3>1, Places DEF Provides, Unborn
    <3> QED BY <1>1, <2>4, <3>1, <3>2
  <2>5. Creds'
    BY <1>0, <1>1, <2>1, <2>3, <2>4, CredsStay
  <2>6. Unborn'
    BY <1>0, <1>1, <2>2, UnbornStays DEF Drawn
  <2> QED BY <2>5, <2>6 DEF Keeping
<1>2. ASSUME NEW c \in Caller, Serve(c), UNCHANGED <<doors, setup>> PROVE Keeping'
  <2>1. Turn(c) /\ ~Busy(call[c]) /\ ~Busy(call'[c])
    BY <1>0, <1>2, ServeTurns DEF DocOK
  <2>2. Elsewhere(c)
    BY <1>0, <1>2, ServeDocuments
  <2> QED BY <1>1, <1>2, <2>1, <2>2 DEF Elsewhere
<1>3. ASSUME NEW c \in Caller, Equip(c), UNCHANGED setup PROVE Keeping'
  <2>1. Turn(c) /\ ~Busy(call[c]) /\ ~Busy(call'[c])
    BY <1>0, <1>3, EquipTurns
  <2>2. Furnished /\ drawn \subseteq drawn'
    BY <1>0, <1>3, EquipDocuments
  <2> QED BY <1>1, <1>3, <2>1, <2>2 DEF Furnished
<1>4. ASSUME NEW c \in Caller, SetUp(c) PROVE Keeping'
  <2>1. Creds' /\ Serves(c)
    BY <1>0, <1>4, SetUpCreds
  <2>2. Turn(c)
    BY <1>0, <1>4, SetUpTurns DEF Secrets
  <2>3. /\ \A r \in Request : doc.requests[r] # None => doc'.requests[r] # None
        /\ \A p \in Person : doc'.people[p] # None =>
             doc.people[p] # None \/ \E r \in Creating : Asked[r].person = p /\ doc'.requests[r] # None
        /\ drawn' = drawn
    BY <1>0, <1>4, SetUpDocuments DEF Housed
  <2>4. Unborn'
    BY <1>0, <2>1, <2>2, <2>3, UnbornStays DEF Drawn
  <2> QED BY <2>1, <2>4 DEF Keeping
<1>5. ASSUME RestartHome PROVE Keeping'
  <2>0. Restart
    BY <1>5 DEF RestartHome
  <2>1. \A c \in Caller : ~Busy(call'[c])
    BY <1>0, <2>0, RestartCalls
  <2>2. \A c \in Caller : ~Provides(call'[c]) /\ ~Own(call'[c]) /\ ~Gives(call'[c])
    BY <2>1 DEF Provides, Own, Gives, Busy
  <2>3. Furnished /\ drawn' = drawn
    BY <1>0, <2>0, RestartDocuments
  <2>4. /\ vault' = vault /\ stored' = stored
        /\ lost' = lost \cup {call[c].cred : c \in {o \in Caller : "made" \in DOMAIN call[o] /\ call[o].made}}
    BY <1>5 DEF RestartHome
  <2>5. \A c \in Caller : Own(call[c]) => call[c].cred \in lost'
    <3>1. \A c \in Caller : Own(call[c]) => "made" \in DOMAIN call[c] /\ call[c].made
      BY <1>0, Fields DEF Own, Provides, CallTypes
    <3> QED BY <2>4, <3>1
  <2>6. \A v \in vault' : Somebody(v)' \/ v \in lost'
    BY <1>0, <2>3, <2>4, <2>5 DEF Creds, Somebody, Furnished
  <2>7. Creds'
    BY <1>0, <2>2, <2>3, <2>4, <2>6 DEF Creds, Furnished
  <2>8. Unborn'
    BY <1>0, <2>2, <2>3 DEF Unborn, Furnished
  <2> QED BY <2>7, <2>8 DEF Keeping
<1>6. ASSUME UNCHANGED vars PROVE Keeping'
  BY <1>6 DEF vars, registry, doors, setup, Keeping, Creds, Unborn, Somebody, ItsPin
<1> QED BY <1>2, <1>3, <1>4, <1>5, <1>6 DEF Next

\* The agreement of PINs and the vault is an invariant.
LEMMA KeepingAlways == Spec => []Keeping
<1>1. Init => Keeping
  BY Assumptions, InitKeeping
<1>2. Basis /\ Keeping /\ [Next]_vars => Keeping'
  BY Assumptions, NextKeeping
<1> QED BY <1>1, <1>2, BasisAlways, PTL DEF Spec

\* SetUpOnce: a request that is sent again provisions once and has one answer; a PIN that somebody has
\* is in the vault, where no other PIN is but those that a failure left there.
THEOREM SetUpOnceAlways == Spec => []SetUpOnce
<1>1. Basis /\ Keeping => SetUpOnce
  <2> SUFFICES ASSUME Basis, Keeping PROVE SetUpOnce
    OBVIOUS
  <2>0. Requests /\ History /\ CallTypes /\ Creds
    BY DEF Basis, Keeping
  <2>1. \A r \in Request : begun[r] <= 1
    BY <2>0 DEF Requests
  <2>2. ASSUME NEW a \in answers, NEW b \in answers, a.request = b.request PROVE a = b
    <3>1. a \in Answer /\ b \in Answer /\ a.state = b.state /\ a.added = b.added
      BY <2>0, <2>2 DEF Requests, History
    <3> QED BY <2>2, <3>1 DEF Answer
  <2>3. Owners \subseteq vault
    BY <2>0 DEF Owners, Creds
  <2>4. ASSUME NEW v \in vault PROVE v \in Owners \cup Held \cup lost
    <3>1. v # None
      <4>1. v \in Nat
        BY DEF Basis, Secrets
      <4> QED BY <4>1, Assumptions, Constants
    <3>2. CASE Somebody(v)
      BY <3>1, <3>2 DEF Somebody, Owners
    <3>3. ASSUME NEW c \in Caller, Own(call[c]), call[c].cred = v PROVE v \in Held
      BY <2>0, <3>3, Fields DEF Own, Provides, CallTypes, Held
    <3> QED BY <2>0, <3>2, <3>3 DEF Creds
  <2> QED BY <2>1, <2>2, <2>3, <2>4 DEF SetUpOnce
<1> QED BY <1>1, BasisAlways, KeepingAlways, PTL

(***************************************************************************)

(***************************************************************************)
(* Doors, grants and keypads agree.                                        *)
(***************************************************************************)

\* A door that takes PINs, one that its keypads may stay at, and a call that programs doors.
Takes(x) == Managed(doc, x) /\ PinCapable(doc, x)
Keyed(x) == Managed(doc, x) /\ Exposed(doc, x)
Programs(r) == r.pc \in {"door", "metadata", "grant", "authority"} \/ (r.pc = "secret" /\ r.request = None)

\* Keypads that are switched on, and not moved since the last start, are at a door that suits them.
Working(x) ==
  \A k \in Keypad \ moved :
    SwitchedOn(k, x) => Keyed(x) \/ \E c \in Caller : At(c, "down") \/ Withdrawn(c, k, x)

\* What was removed stays removed, and who has access has it at a door that takes PINs.
Given(x) ==
  /\ x \in out => ~Managed(doc, x)
  /\ HasGrants(doc, x) => Takes(x)

\* What a call knows of a door at which no call that takes away has met another since the last start.
Site(c, x) ==
  LET r == call[c]
  IN /\ r.pc \in DoorPc \ {"update"} => r.door = x
     /\ r.pc = "enrol" => r.rev <= Revision(x)
     /\ r.pc = "enrol" /\ x \notin Discovered /\ r.rev = Revision(x) => ~Managed(doc, x)
     /\ r.pc \in {"enrolment", "withdraw"} => Managed(doc, x) /\ r.copy = doc.doors[x]
     /\ r.pc = "expose" => Managed(doc, x) /\ r.copy.managed /\ (r.copy.pin => doc.doors[x].pin)
     /\ r.pc = "keypad" => Keyed(x)
     /\ r.pc = "unkeypad" /\ ~r.enabled => Managed(doc, x)
     /\ r.pc = "depart" => \A k \in Keypad : ~SwitchedOn(k, x)
     /\ r.pc = "withdraw" => \A k \in Keypad \ {r.keypad} : ~SwitchedOn(k, x)

\* What it knows of the grants there, where no such call ever met another.
Trust(c, x) ==
  LET r == call[c]
  IN /\ r.pc \in {"keypads", "depart"} => ~HasGrants(doc, x)
     /\ r.pc = "withdraw" /\ x \notin WithLock /\ r.copy.pin => ~HasGrants(doc, x)
     /\ r.pc = "status" => Takes(x)
     /\ Programs(r) /\ x \in r.todo \cup {r.door} => Takes(x)
     /\ r.pc \in Early /\ r.request # None => r.door # x

DoorsInv ==
  /\ Crossing \subseteq unsettled /\ unsettled \subseteq crossed
  /\ \A x \in Door \ unsettled :
       Working(x) /\ \A c \in Caller : x \in Doors(call[c]) => Site(c, x)
  /\ \A x \in Door \ crossed :
       Given(x) /\ \A c \in Caller : x \in Doors(call[c]) => Trust(c, x)

\* The same for one call.
Knows(c, x) == Working(x) /\ (x \in Doors(call[c]) => Site(c, x))
Trusts(c, x) == Given(x) /\ (x \in Doors(call[c]) => Trust(c, x))

\* A step leaves a door as it was.
Untouched(x) ==
  /\ doc'.doors[x] = doc.doors[x]
  /\ HasGrants(doc', x) => HasGrants(doc, x)
  /\ \A k \in Keypad : SwitchedOn(k, x)' => SwitchedOn(k, x)
  /\ x \in out' => x \in out

\* A step takes nothing away from a door.
Rises(x) ==
  /\ Managed(doc, x) => Managed(doc', x) /\ (doc.doors[x].pin => doc'.doors[x].pin)
  /\ Revision(x)' \in Nat /\ Revision(x) <= Revision(x)'
  /\ x \notin Discovered /\ Revision(x)' = Revision(x) /\ Managed(doc', x) => Managed(doc, x)

\* A step of a call at a door keeps what holds there, and takes away only what such a call may take.
Minds(c, x) ==
  /\ Knows(c, x) => /\ Knows(c, x)'
                    /\ Rises(x) \/ (TakesAway(call[c]) /\ x \in Doors(call[c]))
  /\ Knows(c, x) /\ Trusts(c, x) => Trusts(c, x)'

LEMMA Revisions ==
  ASSUME DocOK
  PROVE  \A x \in Door : Revision(x) \in Nat
  BY DEF Revision, DocOK, Document, DoorRecord

\* What is left alone, and what rises.
LEMMA UntouchedDoors ==
  ASSUME DocOK, NEW x \in Door, Untouched(x)
  PROVE  /\ Managed(doc', x) <=> Managed(doc, x)
         /\ Revision(x)' = Revision(x)
         /\ Takes(x)' <=> Takes(x)
         /\ Keyed(x)' <=> Keyed(x)
         /\ Rises(x)
<1>1. /\ Managed(doc', x) <=> Managed(doc, x)
      /\ Revision(x)' = Revision(x)
  BY DEF Untouched, Managed, Revision
<1>2. (Takes(x)' <=> Takes(x)) /\ (Keyed(x)' <=> Keyed(x))
  BY <1>1 DEF Untouched, Takes, Keyed, PinCapable, Exposed
<1>3. Rises(x)
  <2>1. Revision(x) \in Nat
    BY Revisions
  <2> QED BY <1>1, <2>1 DEF Untouched, Rises
<1> QED BY <1>1, <1>2, <1>3

LEMMA DoorsRise ==
  ASSUME NEW x \in Door, Rises(x)
  PROVE  /\ Takes(x) => Takes(x)'
         /\ Keyed(x) => Keyed(x)'
  BY DEF Rises, Takes, Keyed, PinCapable, Exposed

\* What a call knows of a door stays true while the door is left alone.
LEMMA SiteStays ==
  ASSUME DocOK, NEW x \in Door, NEW c \in Caller, Untouched(x), call'[c] = call[c]
  PROVE  /\ Site(c, x) => Site(c, x)'
         /\ Trust(c, x) => Trust(c, x)'
<1>1. /\ Managed(doc', x) <=> Managed(doc, x)
      /\ Revision(x)' = Revision(x)
      /\ Takes(x)' <=> Takes(x)
      /\ Keyed(x)' <=> Keyed(x)
  BY UntouchedDoors
<1>2. PICK r : r = call[c]
  OBVIOUS
<1>3. Site(c, x) => Site(c, x)'
  BY <1>1, <1>2 DEF Site, Untouched
<1>4. Trust(c, x) => Trust(c, x)'
  BY <1>1, <1>2 DEF Trust, Untouched
<1> QED BY <1>3, <1>4

\* So it does while nothing is taken away from the door, if the call itself takes nothing away.
LEMMA SiteRises ==
  ASSUME DocOK, CallTypes, NEW x \in Door, NEW c \in Caller, Rises(x), call'[c] = call[c], ~TakesAway(call[c])
  PROVE  /\ Site(c, x) => Site(c, x)'
         /\ Trust(c, x) => Trust(c, x)'
<1>1. (Takes(x) => Takes(x)') /\ (Keyed(x) => Keyed(x)')
  BY DoorsRise
<1>2. PICK r \in CallRecord : r = call[c]
  BY DEF CallTypes
<1>3. r.pc \notin {"keypads", "depart", "withdraw", "enrolment"}
  BY <1>2 DEF TakesAway
<1>4. Trust(c, x) => Trust(c, x)'
  BY <1>1, <1>2, <1>3 DEF Trust
<1>5. ASSUME Site(c, x) PROVE Site(c, x)'
  <2>1. CASE r.pc = "enrol"
    <3>1. r.rev \in Nat /\ Revision(x) \in Nat /\ Revision(x)' \in Nat /\ Revision(x) <= Revision(x)'
      BY <2>1, Revisions, Shapes DEF Rises
    <3>2. r.rev <= Revision(x)
      BY <1>2, <1>5, <2>1 DEF Site
    <3>3. r.rev <= Revision(x)'
      BY <3>1, <3>2
    <3>4. ASSUME x \notin Discovered, r.rev = Revision(x)' PROVE ~Managed(doc', x)
      <4>1. r.rev = Revision(x)
        BY <3>1, <3>2, <3>4
      <4>2. ~Managed(doc, x)
        BY <1>2, <1>5, <2>1, <3>4, <4>1 DEF Site
      <4> QED BY <3>4, <4>1, <4>2 DEF Rises
    <3>5. r.door = x
      BY <1>2, <1>5, <2>1 DEF Site, DoorPc
    <3> QED BY <1>2, <2>1, <3>3, <3>4, <3>5 DEF Site
  <2>2. CASE r.pc # "enrol"
    BY <1>1, <1>2, <1>3, <1>5, <2>2 DEF Site, Rises
  <2> QED BY <2>1, <2>2
<1> QED BY <1>4, <1>5

\* A call that withdraws a keypad is at its door.
LEMMA OnlyAtItsDoors ==
  ASSUME CallTypes, Calls, NEW c \in Caller, NEW k \in Keypad, NEW x \in Door, Withdrawn(c, k, x)
  PROVE  x \in Doors(call[c])
<1>1. call[c].pc = "unkeypad" /\ call[c] \in CallRecord /\ Coherent(call[c]) /\ call[c].door = x
  BY DEF Withdrawn, At, CallTypes, Calls
<1> QED BY <1>1, Fields DEF Coherent, DoorPc

\* Keypads that stay, and are not just given up by the call, and keypads at a door that suits them.
LEMMA WorkingStays ==
  ASSUME CallTypes, Calls, NEW c \in Caller, Turn(c), NEW x \in Door, Working(x), moved \subseteq moved',
         Keyed(x) => Keyed(x)',
         \A k \in Keypad \ moved' : SwitchedOn(k, x)' =>
           Keyed(x)' \/ (SwitchedOn(k, x) /\ (Withdrawn(c, k, x) => Withdrawn(c, k, x)'))
  PROVE  Working(x)'
<1>1. ASSUME NEW k \in Keypad \ moved', SwitchedOn(k, x)', ~Keyed(x)'
      PROVE  \E o \in Caller : Withdrawn(o, k, x)'
  <2>1. SwitchedOn(k, x) /\ (Withdrawn(c, k, x) => Withdrawn(c, k, x)') /\ k \in Keypad \ moved /\ ~Keyed(x)
    BY <1>1
  <2>2. PICK o \in Caller : At(o, "down") \/ Withdrawn(o, k, x)
    BY <2>1 DEF Working
  <2>3. ~At(o, "down")
    BY DEF Turn, Calls, At
  <2>4. CASE o = c
    BY <2>1, <2>2, <2>3, <2>4
  <2>5. CASE o # c
    <3>1. call'[o] = call[o]
      BY <2>5, TurnsAlone
    <3> QED BY <2>2, <2>3, <3>1 DEF Withdrawn, At
  <2> QED BY <2>4, <2>5
<1> QED BY <1>1 DEF Working

\* A step that minds the doors of its call, and leaves the others alone, keeps all doors.
LEMMA DoorsStep ==
  ASSUME DocOK, CallTypes, Calls, DoorsInv, NEW c \in Caller, Turn(c), moved \subseteq moved', Crosses,
         \A x \in Door :
           IF x \in Doors(call[c]) \cup Doors(call'[c]) THEN Minds(c, x) ELSE Untouched(x)
  PROVE  DoorsInv'
<1>1. \A o \in Caller \ {c} : call'[o] = call[o]
  BY TurnsAlone
<1>2. /\ Crossing' \subseteq unsettled' /\ unsettled' \subseteq crossed'
      /\ unsettled \subseteq unsettled' /\ crossed \subseteq crossed' /\ Crossing \subseteq unsettled
  BY DEF Crosses, DoorsInv
<1>3. ASSUME NEW x \in Door \ unsettled', x \in Doors(call[c]) \cup Doors(call'[c]),
             NEW o \in Caller \ {c}, x \in Doors(call'[o]), Knows(c, x)
      PROVE  Rises(x) /\ ~TakesAway(call[o])
  <2>1. x \in Door \ (Crossing \cup Crossing')
    BY <1>2, <1>3
  <2>2. call'[o] = call[o]
    BY <1>1, <1>3
  <2>3. ~TakesAway(call[o])
    BY <1>3, <2>1, <2>2 DEF Crossing
  <2>4. ~(TakesAway(call[c]) /\ x \in Doors(call[c]))
    BY <1>3, <2>1, <2>2 DEF Crossing
  <2> QED BY <1>3, <2>3, <2>4 DEF Minds
<1>4. ASSUME NEW x \in Door \ unsettled'
      PROVE  Working(x)' /\ \A o \in Caller : x \in Doors(call'[o]) => Site(o, x)'
  <2>0. /\ Knows(c, x) /\ \A o \in Caller : x \in Doors(call[o]) => Site(o, x)
    BY <1>2, <1>4 DEF DoorsInv, Knows
  <2>1. CASE x \in Doors(call[c]) \cup Doors(call'[c])
    <3>1. Knows(c, x)'
      BY <2>0, <2>1 DEF Minds
    <3>2. ASSUME NEW o \in Caller \ {c}, x \in Doors(call'[o]) PROVE Site(o, x)'
      <4>1. Rises(x) /\ ~TakesAway(call[o]) /\ call'[o] = call[o] /\ Site(o, x)
        BY <1>1, <1>3, <1>4, <2>0, <2>1, <3>2
      <4> QED BY <4>1, SiteRises
    <3> QED BY <3>1, <3>2 DEF Knows
  <2>2. CASE x \notin Doors(call[c]) \cup Doors(call'[c])
    <3>1. Untouched(x)
      BY <2>2
    <3>2. ASSUME NEW o \in Caller, x \in Doors(call'[o]) PROVE Site(o, x)'
      <4>1. call'[o] = call[o] /\ Site(o, x)
        BY <1>1, <2>0, <2>2, <3>2
      <4> QED BY <3>1, <4>1, SiteStays
    <3>3. \A k \in Keypad : ~Withdrawn(c, k, x)
      BY <2>2, OnlyAtItsDoors
    <3>4. Keyed(x) => Keyed(x)'
      BY <3>1, UntouchedDoors
    <3>5. Working(x)'
      BY <2>0, <3>1, <3>3, <3>4, WorkingStays DEF Knows, Untouched
    <3> QED BY <3>2, <3>5
  <2> QED BY <2>1, <2>2
<1>5. ASSUME NEW x \in Door \ crossed'
      PROVE  Given(x)' /\ \A o \in Caller : x \in Doors(call'[o]) => Trust(o, x)'
  <2>0. /\ Knows(c, x) /\ Trusts(c, x) /\ \A o \in Caller : x \in Doors(call[o]) => Trust(o, x)
        /\ x \in Door \ unsettled'
    BY <1>2, <1>5 DEF DoorsInv, Knows, Trusts
  <2>1. CASE x \in Doors(call[c]) \cup Doors(call'[c])
    <3>1. Trusts(c, x)'
      BY <2>0, <2>1 DEF Minds
    <3>2. ASSUME NEW o \in Caller \ {c}, x \in Doors(call'[o]) PROVE Trust(o, x)'
      <4>1. Rises(x) /\ ~TakesAway(call[o]) /\ call'[o] = call[o] /\ Trust(o, x)
        BY <1>1, <1>3, <2>0, <2>1, <3>2
      <4> QED BY <4>1, SiteRises
    <3> QED BY <3>1, <3>2 DEF Trusts
  <2>2. CASE x \notin Doors(call[c]) \cup Doors(call'[c])
    <3>1. Untouched(x)
      BY <2>2
    <3>2. ASSUME NEW o \in Caller, x \in Doors(call'[o]) PROVE Trust(o, x)'
      <4>1. call'[o] = call[o] /\ Trust(o, x)
        BY <1>1, <2>0, <2>2, <3>2
      <4> QED BY <3>1, <4>1, SiteStays
    <3>3. Given(x)'
      <4>1. (Managed(doc', x) <=> Managed(doc, x)) /\ (Takes(x)' <=> Takes(x))
        BY <3>1, UntouchedDoors
      <4> QED BY <2>0, <3>1, <4>1 DEF Trusts, Given, Untouched
    <3> QED BY <3>2, <3>3
  <2> QED BY <2>1, <2>2
<1> QED BY <1>2, <1>4, <1>5 DEF DoorsInv

\* A step that leaves a door as it was minds it.
LEMMA UntouchedMinds ==
  ASSUME DocOK, CallTypes, Calls, NEW c \in Caller, Turn(c), moved \subseteq moved',
         call[c].pc # "unkeypad", NEW x \in Door, Untouched(x),
         x \in Doors(call'[c]) /\ Knows(c, x) => Site(c, x)',
         x \in Doors(call'[c]) /\ Knows(c, x) /\ Trusts(c, x) => Trust(c, x)'
  PROVE  Minds(c, x)
<1>1. /\ Managed(doc', x) <=> Managed(doc, x)
      /\ Takes(x)' <=> Takes(x)
      /\ Keyed(x)' <=> Keyed(x)
      /\ Rises(x)
  BY UntouchedDoors
<1>2. ASSUME Knows(c, x) PROVE Knows(c, x)'
  <2>1. \A k \in Keypad : ~Withdrawn(c, k, x)
    BY DEF Withdrawn, At
  <2>2. Working(x)'
    BY <1>1, <1>2, <2>1, WorkingStays DEF Knows, Untouched
  <2> QED BY <1>2, <2>2 DEF Knows
<1>3. ASSUME Knows(c, x), Trusts(c, x) PROVE Trusts(c, x)'
  BY <1>1, <1>3 DEF Trusts, Given, Untouched
<1> QED BY <1>1, <1>2, <1>3 DEF Minds

\* A step that leaves every door as it was.
LEMMA DoorsKept ==
  ASSUME DocOK, CallTypes, Calls, DoorsInv, NEW c \in Caller, Turn(c), moved \subseteq moved', Crosses,
         call[c].pc # "unkeypad", \A x \in Door : Untouched(x),
         \A x \in Door : x \in Doors(call'[c]) /\ Knows(c, x) => Site(c, x)',
         \A x \in Door : x \in Doors(call'[c]) /\ Knows(c, x) /\ Trusts(c, x) => Trust(c, x)'
  PROVE  DoorsInv'
<1>1. \A x \in Door : Minds(c, x)
  BY UntouchedMinds
<1> QED BY <1>1, DoorsStep

\* A step of a call at one door.
LEMMA DoorsAt ==
  ASSUME DocOK, CallTypes, Calls, DoorsInv, NEW c \in Caller, Turn(c), moved \subseteq moved', Crosses,
         call[c].pc \in DoorPc \ {"update"}, NEW y \in Door, y = call[c].door,
         Doors(call'[c]) \subseteq Doors(call[c]),
         \A x \in Door \ {y} : Untouched(x),
         Working(y) /\ Site(c, y) =>
           /\ TakesAway(call[c]) \/ Rises(y)
           /\ Working(y)' /\ (y \in Doors(call'[c]) => Site(c, y)'),
         Working(y) /\ Site(c, y) /\ Given(y) /\ Trust(c, y) =>
           Given(y)' /\ (y \in Doors(call'[c]) => Trust(c, y)')
  PROVE  DoorsInv'
<1>0. call[c] \in CallRecord /\ Coherent(call[c])
  BY DEF CallTypes, Calls
<1>1. y \in Doors(call[c])
  BY <1>0, Fields DEF Coherent, DoorPc
<1>2. Minds(c, y)
  BY <1>1 DEF Minds, Knows, Trusts
<1>3. ASSUME NEW x \in Door \ {y}, x \in Doors(call[c]) PROVE Minds(c, x)
  <2>1. ~Knows(c, x)
    BY <1>3 DEF Knows, Site
  <2> QED BY <2>1 DEF Minds
<1>4. \A x \in Door : IF x \in Doors(call[c]) \cup Doors(call'[c]) THEN Minds(c, x) ELSE Untouched(x)
  BY <1>1, <1>2, <1>3
<1> QED BY <1>4, DoorsStep

\* One door changes.
LEMMA DoorPut ==
  ASSUME DocOK, NEW y \in Door, NEW v \in DoorRecord, doc' = [doc EXCEPT !.doors[y] = v],
         out' \subseteq out \cup {y}
  PROVE  /\ doc'.doors[y] = v /\ doc'.grants = doc.grants /\ doc'.keypads = doc.keypads
         /\ \A x \in Door \ {y} : Untouched(x)
<1>1. /\ doc'.doors[y] = v /\ doc'.grants = doc.grants /\ doc'.keypads = doc.keypads
      /\ \A x \in Door \ {y} : doc'.doors[x] = doc.doors[x]
  BY DEF DocOK, Document
<1> QED BY <1>1 DEF Untouched, HasGrants, SwitchedOn

\* The keypads change; a door is left alone if none is switched on there.
LEMMA KeypadsPut ==
  ASSUME DocOK, NEW ks, doc' = [doc EXCEPT !.keypads = ks], out' = out
  PROVE  /\ doc'.doors = doc.doors /\ doc'.grants = doc.grants /\ doc'.keypads = ks
         /\ \A x \in Door : (\A k \in Keypad : SwitchedOn(k, x)' => SwitchedOn(k, x)) => Untouched(x)
<1>1. doc'.doors = doc.doors /\ doc'.grants = doc.grants /\ doc'.keypads = ks
  BY DEF DocOK, Document
<1> QED BY <1>1 DEF Untouched, HasGrants

\* Doors, grants and keypads stay.
LEMMA NothingPut ==
  ASSUME doc'.doors = doc.doors, doc'.grants = doc.grants, doc'.keypads = doc.keypads, out' \subseteq out
  PROVE  \A x \in Door : Untouched(x)
  BY DEF Untouched, HasGrants, SwitchedOn

\* A call that ends has no door.
LEMMA AtNoDoor ==
  ASSUME CallTypes, NEW c \in Caller, Becomes(c, Free)
  PROVE  call'[c] = Free /\ Doors(call'[c]) = {} /\ ~At(c, "unkeypad")'
<1>1. call'[c] = Free
  BY DEF Becomes, CallTypes
<1>2. Doors(Free) = {} /\ Free.pc = "free"
  BY DEF Doors, Free
<1> QED BY <1>1, <1>2 DEF At

\* A door that is written as it was, but for what rises.
LEMMA DoorWritten ==
  ASSUME DocOK, NEW y \in Door, doc.doors[y] # None, NEW w \in DoorRecord, doc'.doors[y] = w, w # None,
         w.rev = doc.doors[y].rev, w.managed = doc.doors[y].managed, doc.doors[y].pin => w.pin
  PROVE  Rises(y) /\ (Managed(doc', y) <=> Managed(doc, y))
<1>1. Revision(y)' = Revision(y) /\ Revision(y) \in Nat
  BY Revisions DEF Revision
<1> QED BY <1>1 DEF Rises, Managed

\* The doors, as the steps of AccessPointService find them and leave them.
LEMMA FinishEnrolmentAtDoor ==
  ASSUME Assumptions, DocOK, CallTypes, Calls, DoorsInv, NEW c \in Caller, Turn(c), Crosses,
         FinishEnrolment(c)
  PROVE  DoorsInv'
<1>0. call[c] \in CallRecord /\ Coherent(call[c])
  BY DEF CallTypes, Calls
<1>1. PICK y \in Door, rev \in Nat : y = call[c].door /\ rev = call[c].rev
  BY <1>0, Shapes DEF FinishEnrolment, At
<1>2. At(c, "enrol") /\ Becomes(c, Free) /\ moved' = moved
  BY DEF FinishEnrolment
<1>3. \A x \in Door : Revision(x) \in Nat
  BY Revisions
<1>4. doc.doors[y] # None => doc.doors[y] \in DoorRecord
  BY DEF DocOK, Document
<1>5. NextRevision(y) \in Nat \ {0}
  BY <1>3, <1>4 DEF NextRevision, Revision, DoorRecord
<1>6. [managed |-> TRUE, pin |-> y \in Discovered, rev |-> NextRevision(y)] \in DoorRecord
  BY <1>5 DEF DoorRecord
<1>7. PICK v \in DoorRecord : v = [managed |-> TRUE, pin |-> y \in Discovered, rev |-> NextRevision(y)]
  BY <1>6
<1>8. v.managed = TRUE /\ v.pin = (y \in Discovered) /\ v.rev = NextRevision(y) /\ v # None
  BY <1>7, Constants
<1>9. /\ WriteDoor(y, rev, v)
      /\ out' = IF rev = Revision(y) THEN out \ {y} ELSE out
  BY <1>1, <1>7 DEF FinishEnrolment
<1>10. CASE MayUpsertDoor(doc, y, rev)
  <2>1. doc' = [doc EXCEPT !.doors[y] = v] /\ out' \subseteq out \cup {y}
    BY <1>9, <1>10 DEF WriteDoor, UpsertDoor
  <2>2. /\ doc'.doors[y] = v /\ doc'.grants = doc.grants /\ doc'.keypads = doc.keypads
        /\ \A x \in Door \ {y} : Untouched(x)
    BY <2>1, DoorPut
  <2>3. ASSUME Working(y), Site(c, y) PROVE Rises(y) /\ Working(y)' /\ rev = Revision(y)
    <3>1. rev <= Revision(y) /\ (y \notin Discovered /\ rev = Revision(y) => ~Managed(doc, y))
      BY <1>1, <1>2, <2>3 DEF Site, At
    <3>2. rev = Revision(y)
      BY <1>3, <1>10, <3>1 DEF MayUpsertDoor, Revision
    <3>3. Revision(y)' = NextRevision(y)
      BY <1>8, <2>2 DEF Revision
    <3>4. Revision(y)' \in Nat /\ Revision(y) <= Revision(y)'
          /\ (y \notin Discovered => Revision(y)' # Revision(y))
      BY <1>3, <3>3 DEF NextRevision
    <3>5. Managed(doc, y) => Managed(doc', y) /\ doc'.doors[y].pin
      BY <1>8, <2>2, <3>1, <3>2 DEF Managed
    <3>6. Rises(y)
      BY <3>4, <3>5 DEF Rises
    <3>7. \A k \in Keypad : (SwitchedOn(k, y)' => SwitchedOn(k, y)) /\ ~Withdrawn(c, k, y)
      BY <1>2, <2>2 DEF SwitchedOn, Withdrawn, At
    <3>8. Working(y)'
      BY <1>2, <2>3, <3>6, <3>7, DoorsRise, WorkingStays
    <3> QED BY <3>2, <3>6, <3>8
  <2>4. ASSUME Working(y), Site(c, y), Given(y) PROVE Given(y)'
    <3>1. y \notin out' /\ (Takes(y) => Takes(y)')
      BY <1>9, <2>3, <2>4, DoorsRise
    <3> QED BY <2>2, <2>4, <3>1 DEF Given, HasGrants
  <2>5. call[c].pc \in DoorPc \ {"update"} /\ moved \subseteq moved' /\ Doors(call'[c]) = {}
    BY <1>2, AtNoDoor DEF At, DoorPc
  <2> QED BY <1>1, <2>2, <2>3, <2>4, <2>5, DoorsAt
<1>11. CASE ~MayUpsertDoor(doc, y, rev)
  <2>1. doc' = doc /\ out' \subseteq out
    BY <1>9, <1>11 DEF WriteDoor
  <2>2. (\A x \in Door : Untouched(x)) /\ Doors(call'[c]) = {}
    BY <1>2, <2>1, NothingPut, AtNoDoor
  <2>3. call[c].pc # "unkeypad" /\ moved \subseteq moved'
    BY <1>2 DEF At
  <2> QED BY <2>2, <2>3, DoorsKept
<1> QED BY <1>10, <1>11

LEMMA WritePolicyAtDoor ==
  ASSUME Assumptions, DocOK, CallTypes, Calls, DoorsInv, NEW c \in Caller, Turn(c), Crosses, WritePolicy(c)
  PROVE  DoorsInv'
<1>0. call[c] \in CallRecord /\ Coherent(call[c])
  BY DEF CallTypes, Calls
<1>1. PICK y \in Door : y = call[c].door
  BY <1>0, Shapes DEF WritePolicy, At
<1>2. At(c, "policy") /\ Becomes(c, Free) /\ moved' = moved /\ out' = out
  BY DEF WritePolicy, others, doors
<1>3. call[c].pc \in DoorPc \ {"update"} /\ moved \subseteq moved' /\ Doors(call'[c]) = {}
      /\ call[c].pc # "unkeypad"
  BY <1>2, AtNoDoor DEF At, DoorPc
<1>4. CASE call[c].rev = Revision(y)
  <2>1. doc.doors[y] # None
    BY <1>0, <1>1, <1>2, <1>4 DEF Revision, Coherent, At
  <2>2. PICK w \in DoorRecord : w = doc.doors[y]
    BY <2>1 DEF DocOK, Document
  <2>3. [w EXCEPT !.rev = @ + 1] \in DoorRecord
    BY DEF DoorRecord
  <2>4. PICK v \in DoorRecord : v = [w EXCEPT !.rev = @ + 1]
    BY <2>3
  <2>5. v.managed = w.managed /\ v.pin = w.pin /\ v.rev = w.rev + 1 /\ w.rev \in Nat /\ v # None
    BY <2>4, Constants DEF DoorRecord
  <2>6. doc' = [doc EXCEPT !.doors[y] = v] /\ out' \subseteq out \cup {y}
    BY <1>1, <1>2, <1>4, <2>2, <2>4 DEF WritePolicy, DocOK, Document
  <2>7. /\ doc'.doors[y] = v /\ doc'.grants = doc.grants /\ doc'.keypads = doc.keypads
        /\ \A x \in Door \ {y} : Untouched(x)
    BY <2>6, DoorPut
  <2>8. Managed(doc', y) <=> Managed(doc, y)
    BY <2>1, <2>2, <2>5, <2>7 DEF Managed
  <2>9. Rises(y)
    BY <2>1, <2>2, <2>5, <2>7, <2>8 DEF Rises, Revision
  <2>10. \A k \in Keypad : (SwitchedOn(k, y)' => SwitchedOn(k, y)) /\ ~Withdrawn(c, k, y)
    BY <1>2, <2>7 DEF SwitchedOn, Withdrawn, At
  <2>11. Working(y) => Working(y)'
    BY <1>2, <2>9, <2>10, DoorsRise, WorkingStays
  <2>12. Given(y) => Given(y)'
    BY <1>2, <2>7, <2>8, <2>9, DoorsRise DEF Given, HasGrants
  <2> QED BY <1>1, <1>3, <2>7, <2>9, <2>11, <2>12, DoorsAt
<1>5. CASE call[c].rev # Revision(y)
  <2>1. doc' = doc
    BY <1>1, <1>5 DEF WritePolicy
  <2>2. \A x \in Door : Untouched(x)
    BY <1>2, <2>1, NothingPut
  <2> QED BY <1>3, <2>2, DoorsKept
<1> QED BY <1>4, <1>5

\* An enrolment that nobody changed since it was read is written as it is.
LEMMA WriteEnrolmentAtDoor ==
  ASSUME Assumptions, DocOK, CallTypes, Calls, DoorsInv, NEW c \in Caller, Turn(c), Crosses,
         WriteEnrolment(c)
  PROVE  DoorsInv'
<1>0. call[c] \in CallRecord
  BY DEF CallTypes
<1>1. PICK y \in Door, v \in DoorRecord : y = call[c].door /\ v = call[c].copy
  BY <1>0, Shapes DEF WriteEnrolment, At
<1>2. At(c, "enrolment") /\ Becomes(c, Free) /\ moved' = moved /\ out' = out
  BY DEF WriteEnrolment, others, doors
<1>3. doc' = [doc EXCEPT !.doors[y] = v] \/ doc' = doc
  BY <1>1 DEF WriteEnrolment, WriteDoor, UpsertDoor
<1>4. \A x \in Door \ {y} : Untouched(x)
  <2>1. CASE doc' = [doc EXCEPT !.doors[y] = v]
    BY <1>2, <2>1, DoorPut
  <2>2. CASE doc' = doc
    BY <1>2, <2>2, NothingPut
  <2> QED BY <1>3, <2>1, <2>2
<1>5. ASSUME Site(c, y) PROVE Untouched(y)
  <2>1. v = doc.doors[y]
    BY <1>1, <1>2, <1>5 DEF Site, At
  <2>2. doc'.doors = doc.doors /\ doc'.grants = doc.grants /\ doc'.keypads = doc.keypads
    BY <1>3, <2>1 DEF DocOK, Document
  <2> QED BY <1>2, <2>2, NothingPut
<1>6. /\ call[c].pc \in DoorPc \ {"update"} /\ moved \subseteq moved' /\ Doors(call'[c]) = {}
      /\ \A k \in Keypad : ~Withdrawn(c, k, y)
  BY <1>2, AtNoDoor DEF At, DoorPc, Withdrawn
<1>7. ASSUME Working(y), Site(c, y) PROVE Rises(y) /\ Working(y)'
  <2>1. Rises(y) /\ (Keyed(y) => Keyed(y)') /\ Untouched(y)
    BY <1>5, <1>7, UntouchedDoors
  <2> QED BY <1>6, <1>7, <2>1, WorkingStays DEF Untouched
<1>8. ASSUME Site(c, y), Given(y) PROVE Given(y)'
  <2>1. (Managed(doc', y) <=> Managed(doc, y)) /\ (Takes(y)' <=> Takes(y)) /\ Untouched(y)
    BY <1>5, <1>8, UntouchedDoors
  <2> QED BY <1>8, <2>1 DEF Given, Untouched
<1> QED BY <1>1, <1>4, <1>6, <1>7, <1>8, DoorsAt

\* The door goes when nobody has access there and no keypad is left.
LEMMA RemoveDoorAtDoor ==
  ASSUME Assumptions, DocOK, CallTypes, Calls, DoorsInv, NEW c \in Caller, Turn(c), Crosses, RemoveDoor(c)
  PROVE  DoorsInv'
<1>0. call[c] \in CallRecord
  BY DEF CallTypes
<1>1. PICK y \in Door : y = call[c].door
  BY <1>0, Shapes DEF RemoveDoor, At
<1>2. At(c, "depart") /\ Becomes(c, Free) /\ moved' = moved /\ out' = out \cup {y}
  BY <1>1 DEF RemoveDoor
<1>3. doc' = RemoveEnrolment(doc, y)
  BY <1>1 DEF RemoveDoor
<1>4. /\ doc'.grants = doc.grants /\ doc'.keypads = doc.keypads /\ ~Managed(doc', y)
      /\ \A x \in Door \ {y} : Untouched(x)
  <2>1. CASE doc.doors[y] = None
    <3>1. doc' = doc
      BY <1>3, <2>1 DEF RemoveEnrolment, DocOK, Document
    <3>2. \A x \in Door \ {y} : Untouched(x)
      BY <1>2, <3>1 DEF Untouched, SwitchedOn
    <3> QED BY <2>1, <3>1, <3>2 DEF Managed
  <2>2. CASE doc.doors[y] # None
    <3>1. PICK w \in DoorRecord : w = doc.doors[y]
      BY <2>2 DEF DocOK, Document
    <3>2. PICK v \in DoorRecord : v = [w EXCEPT !.managed = FALSE]
      BY DEF DoorRecord
    <3>3. ~v.managed
      BY <3>2 DEF DoorRecord
    <3>4. doc' = [doc EXCEPT !.doors[y] = v] /\ out' \subseteq out \cup {y}
      BY <1>2, <1>3, <2>2, <3>1, <3>2 DEF RemoveEnrolment, DocOK, Document
    <3> QED BY <3>3, <3>4, DoorPut DEF Managed
  <2> QED BY <2>1, <2>2
<1>5. /\ call[c].pc \in DoorPc \ {"update"} /\ moved \subseteq moved' /\ Doors(call'[c]) = {}
      /\ TakesAway(call[c])
  BY <1>2, AtNoDoor DEF At, DoorPc, TakesAway
<1>6. ASSUME Site(c, y) PROVE Working(y)'
  <2>1. \A k \in Keypad : ~SwitchedOn(k, y)
    BY <1>2, <1>6 DEF Site, At
  <2> QED BY <1>4, <2>1 DEF Working, SwitchedOn
<1>7. ASSUME Trust(c, y) PROVE Given(y)'
  <2>1. ~HasGrants(doc, y)
    BY <1>2, <1>7 DEF Trust, At
  <2> QED BY <1>4, <2>1 DEF Given, HasGrants
<1> QED BY <1>1, <1>4, <1>5, <1>6, <1>7, DoorsAt

\* A keypad goes; no keypad is switched on.
LEMMA KeypadGoes ==
  ASSUME CallTypes, NEW c \in Caller, call[c].pc \in {"expose", "keypad", "withdraw", "unkeypad"},
         NEW next \in {"keypad", "unkeypad"}, Goes(c, next)
  PROVE  /\ call'[c].pc = next /\ call'[c].keypad = call[c].keypad /\ call'[c].door = call[c].door
         /\ call'[c].enabled = call[c].enabled /\ Doors(call'[c]) = Doors(call[c])
<1>1. call[c] \in CallRecord
  BY DEF CallTypes
<1> DEFINE Set == [pc : {"expose", "keypad", "withdraw", "unkeypad"}, keypad : Keypad, door : Door,
                   enabled : BOOLEAN, copy : DoorRecord, doors : SUBSET Door]
<1>2. PICK r \in Set : r = call[c]
  BY <1>1, Shapes
<1>3. PICK s : s = [r EXCEPT !.pc = next]
  OBVIOUS
<1>4. /\ s \in Set /\ s.pc = next /\ s.keypad = r.keypad /\ s.door = r.door /\ s.enabled = r.enabled
      /\ s.doors = r.doors
  BY <1>3
<1>5. call'[c] = s
  BY <1>2, <1>3 DEF Goes, Becomes, CallTypes
<1>6. s \in CallRecord /\ r \in CallRecord /\ s.pc \in DoorPc /\ r.pc \in DoorPc
  BY <1>4 DEF CallRecord, DoorPc
<1>7. Doors(s) = Doors(r)
  BY <1>4, <1>6, Fields DEF DoorPc
<1> QED BY <1>2, <1>4, <1>5, <1>7

\* The keypads go before the door does.
LEMMA RemoveKeypadsAtDoor ==
  ASSUME Assumptions, DocOK, CallTypes, Calls, DoorsInv, NEW c \in Caller, Turn(c), Crosses,
         RemoveKeypads(c)
  PROVE  DoorsInv'
<1>0. call[c] \in CallRecord /\ call[c].pc = "keypads"
  BY DEF CallTypes, RemoveKeypads, At
<1>1. PICK y \in Door : y = call[c].door
  BY <1>0, Shapes
<1>2. moved' = moved /\ out' = out /\ Goes(c, "depart")
  BY DEF RemoveKeypads, others, doors
<1>3. /\ call'[c].pc = "depart" /\ call'[c].door = y /\ Doors(call'[c]) = Doors(call[c])
  <2>1. PICK r \in [pc : {"keypads", "depart"}, door : Door, doors : SUBSET Door] : r = call[c]
    BY <1>0, Shapes
  <2>2. PICK s : s = [r EXCEPT !.pc = "depart"]
    OBVIOUS
  <2>3. /\ s \in [pc : {"keypads", "depart"}, door : Door, doors : SUBSET Door]
        /\ s.pc = "depart" /\ s.door = r.door /\ s.doors = r.doors
    BY <2>2
  <2>4. call'[c] = s
    BY <1>2, <2>1, <2>2 DEF Goes, Becomes, CallTypes
  <2>5. s \in CallRecord
    BY <2>3 DEF CallRecord
  <2> QED BY <1>0, <1>1, <2>1, <2>3, <2>4, <2>5, Fields
<1>4. PICK ks : ks = [k \in Keypad |-> IF doc.keypads[k] # None /\ doc.keypads[k].door = y
                                       THEN None ELSE doc.keypads[k]]
  OBVIOUS
<1>5. doc' = [doc EXCEPT !.keypads = ks]
  BY <1>1, <1>4 DEF RemoveKeypads, RemoveKeypadsOf
<1>6. /\ doc'.doors = doc.doors /\ doc'.grants = doc.grants /\ doc'.keypads = ks
      /\ \A x \in Door : (\A k \in Keypad : SwitchedOn(k, x)' => SwitchedOn(k, x)) => Untouched(x)
  BY <1>2, <1>5, KeypadsPut
<1>7. \A k \in Keypad :
        ks[k] = IF doc.keypads[k] # None /\ doc.keypads[k].door = y THEN None ELSE doc.keypads[k]
  BY <1>4
<1>8. \A k \in Keypad : ~SwitchedOn(k, y)'
  BY <1>6, <1>7 DEF SwitchedOn
<1>9. \A x \in Door : Untouched(x)
  BY <1>6, <1>7 DEF SwitchedOn
<1>10. ASSUME NEW x \in Door, x \in Doors(call'[c]), Knows(c, x) PROVE Site(c, x)'
  <2>1. x = y
    BY <1>0, <1>1, <1>3, <1>10 DEF Knows, Site, DoorPc
  <2> QED BY <1>3, <1>8, <2>1 DEF Site
<1>11. ASSUME NEW x \in Door, x \in Doors(call'[c]), Trusts(c, x) PROVE Trust(c, x)'
  <2>1. ~HasGrants(doc', x)
    BY <1>0, <1>3, <1>6, <1>11 DEF Trusts, Trust, HasGrants
  <2> QED BY <1>3, <2>1 DEF Trust, Programs, Early
<1>12. moved \subseteq moved' /\ call[c].pc # "unkeypad"
  BY <1>0, <1>2
<1> QED BY <1>9, <1>10, <1>11, <1>12, DoorsKept

\* A keypad is recorded at a door that is exposed.
LEMMA RecordKeypadAtDoor ==
  ASSUME Assumptions, DocOK, CallTypes, Calls, DoorsInv, NEW c \in Caller, Turn(c), Crosses,
         RecordKeypad(c)
  PROVE  DoorsInv'
<1>0. call[c] \in CallRecord /\ call[c].pc = "keypad" /\ Becomes(c, Free)
  BY DEF CallTypes, RecordKeypad, At
<1>1. PICK y \in Door, k \in Keypad : y = call[c].door /\ k = call[c].keypad
  BY <1>0, Shapes
<1>2. moved' = moved /\ out' = out
  BY DEF RecordKeypad, others, doors
<1>3. PICK ks : ks = [doc.keypads EXCEPT ![k] = [door |-> y, enabled |-> TRUE]]
  OBVIOUS
<1>4. doc' = [doc EXCEPT !.keypads = ks] \/ doc' = doc
  <2>1. UpsertKeypad(doc, k, y, TRUE) = [doc EXCEPT !.keypads = ks]
    BY <1>3 DEF UpsertKeypad
  <2> QED BY <1>1, <2>1 DEF RecordKeypad, Saves
<1>5. /\ doc'.doors = doc.doors /\ doc'.grants = doc.grants
      /\ \A x \in Door : (\A j \in Keypad : SwitchedOn(j, x)' => SwitchedOn(j, x)) => Untouched(x)
      /\ doc'.keypads = ks \/ doc'.keypads = doc.keypads
  <2>1. CASE doc' = [doc EXCEPT !.keypads = ks]
    BY <1>2, <2>1, KeypadsPut
  <2>2. CASE doc' = doc
    BY <1>2, <2>2 DEF Untouched
  <2> QED BY <1>4, <2>1, <2>2
<1>6. \A j \in Keypad : ks[j] = IF j = k THEN [door |-> y, enabled |-> TRUE] ELSE doc.keypads[j]
  BY <1>3 DEF DocOK, Document
<1>7. \A x \in Door \ {y} : Untouched(x)
  BY <1>5, <1>6 DEF SwitchedOn
<1>8. (Takes(y) => Takes(y)') /\ (Keyed(y) => Keyed(y)') /\ Rises(y) /\ (Managed(doc', y) => Managed(doc, y))
  BY <1>5, Revisions DEF Takes, Keyed, Managed, PinCapable, Exposed, Rises, Revision
<1>9. ASSUME Site(c, y) PROVE Working(y)'
  BY <1>0, <1>8, <1>9 DEF Site, Working
<1>10. Given(y) => Given(y)'
  BY <1>2, <1>5, <1>8 DEF Given, HasGrants
<1>11. call[c].pc \in DoorPc \ {"update"} /\ moved \subseteq moved' /\ Doors(call'[c]) = {}
  BY <1>0, <1>2, AtNoDoor DEF DoorPc
<1> QED BY <1>1, <1>7, <1>8, <1>9, <1>10, <1>11, DoorsAt

\* The keypad is removed; the capability went before if it was the last one.
LEMMA ForgetKeypadAtDoor ==
  ASSUME Assumptions, DocOK, CallTypes, Calls, DoorsInv, NEW c \in Caller, Turn(c), Crosses,
         ForgetKeypad(c)
  PROVE  DoorsInv'
<1>0. call[c] \in CallRecord /\ call[c].pc = "unkeypad" /\ Becomes(c, Free)
  BY DEF CallTypes, ForgetKeypad, At
<1>1. PICK y \in Door, k \in Keypad : y = call[c].door /\ k = call[c].keypad
  BY <1>0, Shapes
<1>2. moved' = moved /\ out' = out
  BY DEF ForgetKeypad, others, doors
<1>3. PICK ks : ks = [doc.keypads EXCEPT ![k] = None]
  OBVIOUS
<1>4. doc' = [doc EXCEPT !.keypads = ks]
  BY <1>1, <1>3 DEF ForgetKeypad, RemoveKeypad
<1>5. /\ doc'.doors = doc.doors /\ doc'.grants = doc.grants /\ doc'.keypads = ks
      /\ \A x \in Door : (\A j \in Keypad : SwitchedOn(j, x)' => SwitchedOn(j, x)) => Untouched(x)
  BY <1>2, <1>4, KeypadsPut
<1>6. \A j \in Keypad : ks[j] = IF j = k THEN None ELSE doc.keypads[j]
  BY <1>3 DEF DocOK, Document
<1>7. \A x \in Door : Untouched(x)
  BY <1>5, <1>6 DEF SwitchedOn
<1>8. /\ Managed(doc', y) <=> Managed(doc, y)
      /\ Takes(y)' <=> Takes(y)
      /\ Keyed(y)' <=> Keyed(y)
      /\ Rises(y)
  BY <1>7, UntouchedDoors
<1>9. ASSUME NEW j \in Keypad, SwitchedOn(j, y)' PROVE SwitchedOn(j, y) /\ ~Withdrawn(c, j, y)
  BY <1>1, <1>5, <1>6, <1>9 DEF SwitchedOn, Withdrawn
<1>10. Working(y) => Working(y)'
  BY <1>2, <1>8, <1>9, WorkingStays
<1>11. Given(y) => Given(y)'
  BY <1>2, <1>5, <1>8 DEF Given, HasGrants
<1>12. call[c].pc \in DoorPc \ {"update"} /\ moved \subseteq moved' /\ Doors(call'[c]) = {}
  BY <1>0, <1>2, AtNoDoor DEF DoorPc
<1> QED BY <1>1, <1>7, <1>8, <1>10, <1>11, <1>12, DoorsAt

\* A keypad that is moved or switched on is one of the exceptions until the next start.
LEMMA WriteKeypadAtDoor ==
  ASSUME Assumptions, DocOK, CallTypes, Calls, DoorsInv, NEW c \in Caller, Turn(c), Crosses,
         WriteKeypad(c)
  PROVE  DoorsInv'
<1>0. call[c] \in CallRecord /\ call[c].pc = "update" /\ Becomes(c, Free) /\ Coherent(call[c])
  BY DEF CallTypes, WriteKeypad, At, Calls
<1>1. PICK y \in Door, k \in Keypad, on \in BOOLEAN :
        y = call[c].door /\ k = call[c].keypad /\ on = call[c].enabled
  BY <1>0, Shapes
<1>2. y \in Doors(call[c]) /\ Doors(call'[c]) = {}
  BY <1>0, <1>1, Fields, AtNoDoor DEF Coherent, DoorPc
<1>3. /\ out' = out
      /\ moved' = IF doc'.keypads[k] # doc.keypads[k] /\ on THEN moved \cup {k} ELSE moved
  BY <1>1 DEF WriteKeypad
<1>4. PICK ks : ks = [doc.keypads EXCEPT ![k] = [door |-> y, enabled |-> on]]
  OBVIOUS
<1>5. doc' = [doc EXCEPT !.keypads = ks] \/ doc' = doc
  <2>1. UpsertKeypad(doc, k, y, on) = [doc EXCEPT !.keypads = ks]
    BY <1>4 DEF UpsertKeypad
  <2> QED BY <1>1, <2>1 DEF WriteKeypad, Saves
<1>6. /\ doc'.doors = doc.doors /\ doc'.grants = doc.grants
      /\ \A x \in Door : (\A j \in Keypad : SwitchedOn(j, x)' => SwitchedOn(j, x)) => Untouched(x)
      /\ doc'.keypads = ks \/ doc'.keypads = doc.keypads
  <2>1. CASE doc' = [doc EXCEPT !.keypads = ks]
    BY <1>3, <2>1, KeypadsPut
  <2>2. CASE doc' = doc
    BY <1>3, <2>2 DEF Untouched
  <2> QED BY <1>5, <2>1, <2>2
<1>7. \A j \in Keypad : ks[j] = IF j = k THEN [door |-> y, enabled |-> on] ELSE doc.keypads[j]
  BY <1>4 DEF DocOK, Document
<1>8. \A x \in Door \ {y} : Untouched(x)
  BY <1>6, <1>7 DEF SwitchedOn
<1>9. moved \subseteq moved'
  BY <1>3
<1>10. ASSUME NEW x \in Door PROVE Minds(c, x)
  <2>1. /\ (Takes(x)' <=> Takes(x)) /\ (Keyed(x)' <=> Keyed(x))
        /\ (Managed(doc', x) <=> Managed(doc, x)) /\ Rises(x)
    BY <1>6, Revisions DEF Takes, Keyed, Managed, PinCapable, Exposed, Rises, Revision
  <2>2. ASSUME NEW j \in Keypad \ moved', SwitchedOn(j, x)' PROVE SwitchedOn(j, x) /\ ~Withdrawn(c, j, x)
    <3>1. CASE doc'.keypads[j] = doc.keypads[j]
      BY <1>0, <2>2, <3>1 DEF SwitchedOn, Withdrawn, At
    <3>2. CASE doc'.keypads[j] # doc.keypads[j]
      <4>1. j = k /\ doc'.keypads[k] = [door |-> y, enabled |-> on]
        BY <1>6, <1>7, <3>2
      <4>2. on
        BY <2>2, <4>1 DEF SwitchedOn
      <4> QED BY <1>3, <2>2, <3>2, <4>1, <4>2
    <3> QED BY <3>1, <3>2
  <2>3. Working(x) => Working(x)'
    BY <1>9, <2>1, <2>2, WorkingStays
  <2>4. Given(x) => Given(x)'
    BY <1>3, <1>6, <2>1 DEF Given, HasGrants
  <2> QED BY <1>2, <2>1, <2>3, <2>4 DEF Minds, Knows, Trusts
<1> QED BY <1>2, <1>8, <1>9, <1>10, DoorsStep
\* What a call that sets the capability of its door finds.
LEMMA CapabilityCall ==
  ASSUME CallTypes, NEW c \in Caller, call[c].pc \in {"expose", "keypad", "withdraw", "unkeypad"}
  PROVE  /\ call[c].door \in Door /\ call[c].keypad \in Keypad /\ call[c].copy \in DoorRecord
         /\ call[c].enabled \in BOOLEAN
<1>1. call[c] \in CallRecord
  BY DEF CallTypes
<1> QED BY <1>1, Shapes

\* The capability of a door is set, or is as it should be, or the policy was changed meanwhile.
CapabilityIs(c, next, y, w, on) ==
  \/ doc' = doc /\ (y \in WithLock \/ w.pin = on) /\ Goes(c, next)
  \/ doc' = doc /\ w.rev # Revision(y) /\ Becomes(c, Free)
  \/ /\ y \notin WithLock /\ w.pin # on /\ w.rev = Revision(y) /\ Goes(c, next)
     /\ doc'.doors[y] # None /\ doc'.doors[y].managed = w.managed /\ doc'.doors[y].pin = on
     /\ doc'.doors[y].rev = w.rev

LEMMA CapabilitySet ==
  ASSUME Assumptions, DocOK, CallTypes, NEW c \in Caller, call[c].pc \in {"expose", "withdraw"},
         NEW next \in {"keypad", "unkeypad"}, SetCapability(c, next), NEW y \in Door, y = call[c].door,
         NEW w \in DoorRecord, w = call[c].copy, NEW on \in BOOLEAN, on = call[c].enabled
  PROVE  /\ moved' = moved /\ out' = out /\ doc'.grants = doc.grants /\ doc'.keypads = doc.keypads
         /\ \A x \in Door \ {y} : Untouched(x)
         /\ Doors(call'[c]) \subseteq Doors(call[c])
         /\ Managed(doc, y) => CapabilityIs(c, next, y, w, on)
<1>2. [w EXCEPT !.pin = on] \in DoorRecord
  BY DEF DoorRecord
<1>3. PICK v \in DoorRecord : v = [w EXCEPT !.pin = on]
  BY <1>2
<1>4. v.managed = w.managed /\ v.pin = on /\ v.rev = w.rev /\ v # None
  BY <1>3, Constants DEF DoorRecord
<1>5. moved' = moved /\ out' = out /\ out' \subseteq out \cup {y}
  BY DEF SetCapability, others, doors
<1>6. Goes(c, next) \/ Becomes(c, Free)
  BY DEF SetCapability
<1>7. Doors(call'[c]) \subseteq Doors(call[c])
  BY <1>6, KeypadGoes, AtNoDoor
<1>8. CASE y \in WithLock \/ w.pin = on
  <2>1. doc' = doc /\ Goes(c, next)
    BY <1>8 DEF SetCapability
  <2>2. \A x \in Door \ {y} : Untouched(x)
    BY <1>5, <2>1, NothingPut
  <2> QED BY <1>5, <1>7, <1>8, <2>1, <2>2 DEF CapabilityIs
<1>9. CASE ~(y \in WithLock \/ w.pin = on)
  <2>1. /\ WriteDoor(y, w.rev, v)
        /\ IF w.rev = Revision(y) THEN Goes(c, next) ELSE Becomes(c, Free)
    BY <1>3, <1>9 DEF SetCapability
  <2>2. CASE MayUpsertDoor(doc, y, w.rev)
    <3>1. doc' = [doc EXCEPT !.doors[y] = v]
      BY <2>1, <2>2 DEF WriteDoor, UpsertDoor
    <3>2. /\ doc'.doors[y] = v /\ doc'.grants = doc.grants /\ doc'.keypads = doc.keypads
          /\ \A x \in Door \ {y} : Untouched(x)
      BY <1>5, <3>1, DoorPut
    <3>3. Managed(doc, y) => w.rev = Revision(y)
      BY <2>2 DEF MayUpsertDoor, Managed, Revision
    <3> QED BY <1>4, <1>5, <1>7, <1>9, <2>1, <3>2, <3>3 DEF CapabilityIs
  <2>3. CASE ~MayUpsertDoor(doc, y, w.rev)
    <3>1. doc' = doc
      BY <2>1, <2>3 DEF WriteDoor
    <3>2. \A x \in Door \ {y} : Untouched(x)
      BY <1>5, <3>1, NothingPut
    <3>3. w.rev # Revision(y)
      BY <2>3 DEF MayUpsertDoor, Revision
    <3> QED BY <1>5, <1>7, <2>1, <3>1, <3>2, <3>3 DEF CapabilityIs
  <2> QED BY <2>2, <2>3
<1> QED BY <1>8, <1>9

\* The door takes PINs before its keypad is recorded.
LEMMA ExposeAtDoor ==
  ASSUME Assumptions, DocOK, CallTypes, Calls, DoorsInv, NEW c \in Caller, Turn(c), Crosses, Expose(c)
  PROVE  DoorsInv'
<1>0. call[c].pc = "expose" /\ SetCapability(c, "keypad") /\ Coherent(call[c])
  BY DEF Expose, At, Calls
<1>1. PICK y \in Door, w \in DoorRecord, on \in BOOLEAN :
        y = call[c].door /\ w = call[c].copy /\ on = call[c].enabled
  BY <1>0, CapabilityCall
<1>2. PICK next \in {"keypad", "unkeypad"} : next = "keypad"
  OBVIOUS
<1>3. SetCapability(c, next) /\ on = TRUE
  BY <1>0, <1>1, <1>2 DEF Coherent
<1>4. /\ moved' = moved /\ out' = out /\ doc'.grants = doc.grants /\ doc'.keypads = doc.keypads
      /\ \A x \in Door \ {y} : Untouched(x)
      /\ Doors(call'[c]) \subseteq Doors(call[c])
      /\ Managed(doc, y) => CapabilityIs(c, next, y, w, on)
  <2>1. /\ call[c].pc \in {"expose", "withdraw"} /\ SetCapability(c, next)
        /\ y = call[c].door /\ w = call[c].copy /\ on = call[c].enabled
    BY <1>0, <1>1, <1>3, Zenon
  <2>2. moved' = moved /\ out' = out
    BY <2>1, Zenon DEF SetCapability, others, doors
  <2>3. doc'.grants = doc.grants
    BY <2>1, CapabilitySet, SMTT(20)
  <2>4. doc'.keypads = doc.keypads
    BY <2>1, CapabilitySet, SMTT(20)
  <2>5. \A x \in Door \ {y} : Untouched(x)
    BY <2>1, CapabilitySet, SMTT(40)
  <2>6. Doors(call'[c]) \subseteq Doors(call[c])
    BY <2>1, CapabilitySet
  <2>7. Managed(doc, y) => CapabilityIs(c, next, y, w, on)
    BY <2>1, CapabilitySet, SMTT(20)
  <2> QED BY <2>2, <2>3, <2>4, <2>5, <2>6, <2>7
<1>5. ASSUME Working(y), Site(c, y)
      PROVE  /\ Managed(doc, y) /\ Rises(y) /\ Working(y)'
             /\ call'[c].pc \in {"free", "keypad"} /\ (y \in Doors(call'[c]) => Site(c, y)')
  <2>1. Managed(doc, y) /\ w.managed /\ (w.pin => doc.doors[y].pin)
    BY <1>0, <1>1, <1>5 DEF Site
  <2>2. \A k \in Keypad : (SwitchedOn(k, y)' => SwitchedOn(k, y)) /\ ~Withdrawn(c, k, y)
    BY <1>0, <1>4 DEF SwitchedOn, Withdrawn, At
  <2>3. ASSUME Rises(y) PROVE Working(y)'
    BY <1>4, <1>5, <2>2, <2>3, DoorsRise, WorkingStays
  <2>4. ASSUME doc' = doc PROVE Rises(y)
    BY <2>4, Revisions DEF Rises, Revision
  <2>5. ASSUME Goes(c, next), Keyed(y)'
        PROVE  call'[c].pc \in {"free", "keypad"} /\ (y \in Doors(call'[c]) => Site(c, y)')
    <3>1. call'[c].pc = "keypad" /\ call'[c].door = y
      BY <1>0, <1>1, <1>2, <2>5, KeypadGoes
    <3> QED BY <2>5, <3>1 DEF Site
  <2>6. CASE doc' = doc /\ (y \in WithLock \/ w.pin = on) /\ Goes(c, next)
    <3>1. Keyed(y)'
      BY <1>3, <2>1, <2>6 DEF Keyed, Exposed
    <3> QED BY <2>1, <2>3, <2>4, <2>5, <2>6, <3>1
  <2>7. CASE doc' = doc /\ w.rev # Revision(y) /\ Becomes(c, Free)
    <3>1. Doors(call'[c]) = {} /\ call'[c].pc = "free"
      BY <2>7, AtNoDoor DEF Free
    <3> QED BY <2>1, <2>3, <2>4, <2>7, <3>1
  <2>8. CASE /\ y \notin WithLock /\ w.pin # on /\ w.rev = Revision(y) /\ Goes(c, next)
             /\ doc'.doors[y] # None /\ doc'.doors[y].managed = w.managed /\ doc'.doors[y].pin = on
             /\ doc'.doors[y].rev = w.rev
    <3>1. Managed(doc', y) /\ Keyed(y)'
      BY <1>3, <2>1, <2>8 DEF Managed, Keyed, Exposed
    <3>2. Revision(y)' = Revision(y) /\ Revision(y) \in Nat
      BY <2>8, Revisions DEF Revision
    <3>3. Rises(y)
      BY <1>3, <2>1, <2>8, <3>1, <3>2 DEF Rises
    <3> QED BY <2>1, <2>3, <2>5, <2>8, <3>1, <3>3
  <2> QED BY <1>4, <2>1, <2>6, <2>7, <2>8 DEF CapabilityIs
<1>6. ASSUME Working(y), Site(c, y), Given(y) PROVE Given(y)' /\ (y \in Doors(call'[c]) => Trust(c, y)')
  <2>1. Managed(doc, y) /\ Rises(y) /\ call'[c].pc \in {"free", "keypad"}
    BY <1>5, <1>6
  <2>2. Given(y)'
    BY <1>4, <1>6, <2>1, DoorsRise DEF Given, HasGrants
  <2> QED BY <2>1, <2>2 DEF Trust, Programs, Early
<1>7. call[c].pc \in DoorPc \ {"update"} /\ moved \subseteq moved'
  BY <1>0, <1>4 DEF DoorPc
<1> QED BY <1>1, <1>4, <1>5, <1>6, <1>7, DoorsAt

\* The capability is withdrawn only from a door without grants and without another keypad.
LEMMA WithdrawAtDoor ==
  ASSUME Assumptions, DocOK, CallTypes, Calls, DoorsInv, NEW c \in Caller, Turn(c), Crosses, Withdraw(c)
  PROVE  DoorsInv'
<1>0. call[c].pc = "withdraw" /\ SetCapability(c, "unkeypad") /\ Coherent(call[c])
  BY DEF Withdraw, At, Calls
<1>1. PICK y \in Door, w \in DoorRecord, on \in BOOLEAN, k \in Keypad :
        y = call[c].door /\ w = call[c].copy /\ on = call[c].enabled /\ k = call[c].keypad
  BY <1>0, CapabilityCall
<1>2. PICK next \in {"keypad", "unkeypad"} : next = "unkeypad"
  OBVIOUS
<1>3. SetCapability(c, next) /\ on = FALSE
  BY <1>0, <1>1, <1>2 DEF Coherent
<1>4. /\ moved' = moved /\ out' = out /\ doc'.grants = doc.grants /\ doc'.keypads = doc.keypads
      /\ \A x \in Door \ {y} : Untouched(x)
      /\ Doors(call'[c]) \subseteq Doors(call[c])
      /\ Managed(doc, y) => CapabilityIs(c, next, y, w, on)
  <2>1. /\ call[c].pc \in {"expose", "withdraw"} /\ SetCapability(c, next)
        /\ y = call[c].door /\ w = call[c].copy /\ on = call[c].enabled
    BY <1>0, <1>1, <1>3, Zenon
  <2>2. moved' = moved /\ out' = out
    BY <2>1, Zenon DEF SetCapability, others, doors
  <2>3. doc'.grants = doc.grants
    BY <2>1, CapabilitySet
  <2>4. doc'.keypads = doc.keypads
    BY <2>1, CapabilitySet, ZenonT(20)
  <2>5. \A x \in Door \ {y} : Untouched(x)
    BY <2>1, CapabilitySet, SMTT(20)
  <2>6. Doors(call'[c]) \subseteq Doors(call[c])
    BY <2>1, CapabilitySet
  <2>7. Managed(doc, y) => CapabilityIs(c, next, y, w, on)
    BY <2>1, CapabilitySet
  <2> QED BY <2>2, <2>3, <2>4, <2>5, <2>6, <2>7
<1>5. ASSUME Site(c, y)
      PROVE  /\ Managed(doc, y) /\ Managed(doc', y) /\ Working(y)'
             /\ call'[c].pc = "unkeypad" /\ Site(c, y)'
             /\ doc'.doors[y] = doc.doors[y] \/ (y \notin WithLock /\ w.pin)
  <2>1. /\ Managed(doc, y) /\ w = doc.doors[y] /\ w.rev = Revision(y) /\ w.managed
        /\ \A j \in Keypad \ {k} : ~SwitchedOn(j, y)
    BY <1>0, <1>1, <1>5 DEF Site, Managed, Revision
  <2>2. Goes(c, next) /\ Managed(doc', y) /\ (doc'.doors[y] = doc.doors[y] \/ (y \notin WithLock /\ w.pin))
    <3>1. CASE doc' = doc /\ (y \in WithLock \/ w.pin = on) /\ Goes(c, next)
      BY <2>1, <3>1
    <3>2. CASE /\ y \notin WithLock /\ w.pin # on /\ w.rev = Revision(y) /\ Goes(c, next)
               /\ doc'.doors[y] # None /\ doc'.doors[y].managed = w.managed /\ doc'.doors[y].pin = on
               /\ doc'.doors[y].rev = w.rev
      <4>1. w.pin
        BY <1>3, <3>2 DEF DoorRecord
      <4> QED BY <2>1, <3>2, <4>1 DEF Managed
    <3> QED BY <1>4, <2>1, <3>1, <3>2 DEF CapabilityIs
  <2>3. /\ call'[c].pc = "unkeypad" /\ call'[c].door = y /\ call'[c].keypad = k
        /\ call'[c].enabled = FALSE
    BY <1>0, <1>1, <1>2, <1>3, <2>2, KeypadGoes
  <2>4. \A j \in Keypad : SwitchedOn(j, y)' => j = k
    BY <1>4, <2>1 DEF SwitchedOn
  <2>5. Withdrawn(c, k, y)'
    BY <2>3 DEF Withdrawn, At
  <2>6. Working(y)'
    BY <2>4, <2>5 DEF Working
  <2>7. Site(c, y)'
    BY <2>2, <2>3 DEF Site
  <2> QED BY <2>1, <2>2, <2>3, <2>6, <2>7
<1>6. ASSUME Site(c, y), Given(y), Trust(c, y) PROVE Given(y)' /\ Trust(c, y)'
  <2>1. /\ Managed(doc, y) /\ Managed(doc', y) /\ call'[c].pc = "unkeypad"
        /\ doc'.doors[y] = doc.doors[y] \/ (y \notin WithLock /\ w.pin)
    BY <1>5, <1>6
  <2>2. y \notin out'
    BY <1>4, <1>6, <2>1 DEF Given
  <2>3. HasGrants(doc', y) => Takes(y)'
    <3>1. CASE doc'.doors[y] = doc.doors[y]
      BY <1>4, <1>6, <2>1, <3>1 DEF Given, HasGrants, Takes, PinCapable
    <3>2. CASE y \notin WithLock /\ w.pin
      <4>1. ~HasGrants(doc, y)
        BY <1>0, <1>1, <1>6, <3>2 DEF Trust
      <4> QED BY <1>4, <4>1 DEF HasGrants
    <3> QED BY <2>1, <3>1, <3>2
  <2> QED BY <2>1, <2>2, <2>3 DEF Given, Trust, Programs, Early
<1>7. call[c].pc \in DoorPc \ {"update"} /\ moved \subseteq moved' /\ TakesAway(call[c])
  BY <1>0, <1>4 DEF DoorPc, TakesAway
<1> QED BY <1>1, <1>4, <1>5, <1>6, <1>7, DoorsAt

\* A keypad that could not be removed gives the capability back.
LEMMA ForgetFailsAtDoor ==
  ASSUME Assumptions, DocOK, CallTypes, Calls, DoorsInv, NEW c \in Caller, Turn(c), Crosses,
         ForgetFails(c)
  PROVE  DoorsInv'
<1>0. call[c].pc = "unkeypad" /\ Becomes(c, Free) /\ moved' = moved /\ out' = out
  BY DEF ForgetFails, At, others, doors
<1>1. PICK y \in Door, k \in Keypad : y = call[c].door /\ k = call[c].keypad
  BY <1>0, CapabilityCall
<1>2. call[c].pc \in DoorPc \ {"update"} /\ moved \subseteq moved' /\ Doors(call'[c]) = {}
  BY <1>0, AtNoDoor DEF DoorPc
<1>4. CASE ~call[c].enabled /\ Managed(doc, y) /\ y \notin WithLock
  <2>1. PICK w \in DoorRecord : w = doc.doors[y] /\ w # None
    BY <1>4 DEF Managed, DocOK, Document
  <2>2. [w EXCEPT !.pin = TRUE] \in DoorRecord
    BY DEF DoorRecord
  <2>3. PICK v \in DoorRecord : v = [w EXCEPT !.pin = TRUE]
    BY <2>2
  <2>4. v.managed = w.managed /\ v.rev = w.rev /\ v.pin /\ v # None
    BY <2>3, Constants DEF DoorRecord
  <2>5. doc' = [doc EXCEPT !.doors[y] = v] /\ out' \subseteq out \cup {y}
    BY <1>0, <1>1, <1>4, <2>1, <2>3 DEF ForgetFails, DocOK, Document
  <2>6. /\ doc'.doors[y] = v /\ doc'.grants = doc.grants /\ doc'.keypads = doc.keypads
        /\ \A x \in Door \ {y} : Untouched(x)
    BY <2>5, DoorPut
  <2>7. Rises(y) /\ (Managed(doc', y) <=> Managed(doc, y))
    BY <2>1, <2>4, <2>6, DoorWritten
  <2>8. Keyed(y)'
    BY <1>4, <2>4, <2>6, <2>7 DEF Keyed, Exposed
  <2>9. Working(y)'
    BY <2>8 DEF Working
  <2>10. Given(y) => Given(y)'
    BY <1>0, <2>6, <2>7, DoorsRise DEF Given, HasGrants
  <2> QED BY <1>1, <1>2, <2>6, <2>7, <2>9, <2>10, DoorsAt
<1>5. CASE ~(~call[c].enabled /\ Managed(doc, y) /\ y \notin WithLock)
  <2>1. doc' = doc
    BY <1>1, <1>5 DEF ForgetFails
  <2>2. \A x \in Door : Untouched(x)
    BY <1>0, <2>1, NothingPut
  <2>3. /\ Managed(doc', y) <=> Managed(doc, y)
        /\ Takes(y)' <=> Takes(y)
        /\ Keyed(y)' <=> Keyed(y)
        /\ Rises(y)
    BY <2>2, UntouchedDoors
  <2>4. ASSUME Working(y), Site(c, y) PROVE Working(y)'
    <3>1. ~call[c].enabled => Keyed(y)
      BY <1>0, <1>5, <2>4 DEF Site, Keyed, Exposed
    <3>2. \A j \in Keypad : Withdrawn(c, j, y) => Keyed(y)'
      BY <2>3, <3>1 DEF Withdrawn
    <3> QED BY <1>2, <2>2, <2>3, <2>4, <3>2, WorkingStays DEF Untouched
  <2>5. Given(y) => Given(y)'
    BY <2>2, <2>3 DEF Given, Untouched
  <2> QED BY <1>1, <1>2, <2>2, <2>3, <2>4, <2>5, DoorsAt
<1> QED BY <1>4, <1>5

\* A call that begins finds the doors as they are.
LEMMA DoorsStart ==
  ASSUME DocOK, CallTypes, Calls, DoorsInv, NEW c \in Caller, Turn(c), Crosses, At(c, "free"),
         doc' = doc, moved' = moved, out' = out,
         \A x \in Door : x \in Doors(call'[c]) => Site(c, x)',
         \A x \in Door : x \in Doors(call'[c]) /\ Given(x) => Trust(c, x)'
  PROVE  DoorsInv'
<1>1. \A x \in Door : Untouched(x)
  BY NothingPut
<1>2. call[c].pc # "unkeypad" /\ moved \subseteq moved'
  BY DEF At
<1> QED BY <1>1, <1>2, DoorsKept DEF Trusts

\* A call that starts at a door knows it as it is.
LEMMA EquipStarts ==
  ASSUME Assumptions, DocOK, CallTypes, Calls, DoorsInv, NEW c \in Caller, Turn(c), Crosses,
         \/ \E x \in Door : StartEnrolment(c, x) \/ ReadPolicy(c, x) \/ ReadEnrolment(c, x)
            \/ StartRemoval(c, x)
         \/ \E k \in Keypad : \/ StartUnkeypad(c, k)
                              \/ \E x \in Door : \/ StartKeypad(c, k, x)
                                                 \/ \E on \in BOOLEAN : ReadKeypad(c, k, x, on)
  PROVE  DoorsInv'
<1>1. ASSUME NEW y \in Door, StartEnrolment(c, y) PROVE DoorsInv'
  <2>1. /\ At(c, "free") /\ doc' = doc /\ moved' = moved /\ out' = out
        /\ call'[c] = [pc |-> "enrol", door |-> y, rev |-> Revision(y), doors |-> {y}]
        /\ y \in Discovered \/ ~Managed(doc, y)
    BY <1>1 DEF StartEnrolment, Begins, Becomes, others, doors, CallTypes
  <2>2. Doors(call'[c]) = {y} /\ call'[c].pc = "enrol" /\ call'[c].door = y /\ call'[c].rev = Revision(y)
    BY <2>1 DEF Doors
  <2>3. Revision(y)' = Revision(y) /\ Revision(y) \in Nat
    BY <2>1, Revisions DEF Revision
  <2>4. Site(c, y)' /\ Trust(c, y)'
    BY <2>1, <2>2, <2>3 DEF Site, Trust, Programs, Early
  <2> QED BY <2>1, <2>2, <2>4, DoorsStart, ZenonT(20)
<1>2. ASSUME NEW y \in Door, ReadPolicy(c, y) PROVE DoorsInv'
  <2>1. /\ At(c, "free") /\ doc' = doc /\ moved' = moved /\ out' = out
        /\ call'[c] = [pc |-> "policy", door |-> y, rev |-> Revision(y), doors |-> {y}]
    BY <1>2 DEF ReadPolicy, Begins, Becomes, others, doors, CallTypes
  <2>2. Doors(call'[c]) = {y} /\ call'[c].pc = "policy" /\ call'[c].door = y
    BY <2>1 DEF Doors
  <2>3. Site(c, y)' /\ Trust(c, y)'
    BY <2>1, <2>2 DEF Site, Trust, Programs, Early
  <2> QED BY <2>1, <2>2, <2>3, DoorsStart, ZenonT(20)
<1>3. ASSUME NEW y \in Door, ReadEnrolment(c, y) PROVE DoorsInv'
  <2>1. /\ At(c, "free") /\ doc' = doc /\ moved' = moved /\ out' = out /\ Managed(doc, y)
        /\ call'[c] = [pc |-> "enrolment", door |-> y, copy |-> doc.doors[y], doors |-> {y}]
    BY <1>3 DEF ReadEnrolment, Begins, Becomes, others, doors, CallTypes
  <2>2. Doors(call'[c]) = {y} /\ call'[c].pc = "enrolment" /\ call'[c].door = y /\ call'[c].copy = doc.doors[y]
    BY <2>1 DEF Doors
  <2>3. Site(c, y)' /\ Trust(c, y)'
    BY <2>1, <2>2 DEF Site, Trust, Programs, Early
  <2> QED BY <2>1, <2>2, <2>3, DoorsStart
<1>4. ASSUME NEW y \in Door, StartRemoval(c, y) PROVE DoorsInv'
  <2>1. /\ At(c, "free") /\ doc' = doc /\ moved' = moved /\ out' = out /\ ~HasGrants(doc, y)
        /\ call'[c] = [pc |-> "keypads", door |-> y, doors |-> {y}]
    BY <1>4 DEF StartRemoval, Begins, Becomes, others, doors, CallTypes, MayLeave
  <2>2. Doors(call'[c]) = {y} /\ call'[c].pc = "keypads" /\ call'[c].door = y
    BY <2>1 DEF Doors
  <2>3. Site(c, y)' /\ Trust(c, y)'
    BY <2>1, <2>2 DEF Site, Trust, Programs, Early
  <2> QED BY <2>1, <2>2, <2>3, DoorsStart
<1>5. ASSUME NEW k \in Keypad, NEW y \in Door, StartKeypad(c, k, y) PROVE DoorsInv'
  <2>1. /\ At(c, "free") /\ doc' = doc /\ moved' = moved /\ out' = out /\ Managed(doc, y)
        /\ call'[c] = [pc |-> "expose", keypad |-> k, door |-> y, enabled |-> TRUE,
                       copy |-> doc.doors[y], doors |-> {y}]
    BY <1>5 DEF StartKeypad, Begins, Becomes, doors, CallTypes, Capability, MaySetCapability
  <2>2. Doors(call'[c]) = {y} /\ call'[c].pc = "expose" /\ call'[c].door = y /\ call'[c].copy = doc.doors[y]
    BY <2>1 DEF Doors
  <2>3. doc.doors[y].managed
    BY <2>1 DEF Managed
  <2>4. Site(c, y)' /\ Trust(c, y)'
    BY <2>1, <2>2, <2>3 DEF Site, Trust, Programs, Early
  <2> QED BY <2>1, <2>2, <2>4, DoorsStart
<1>6. ASSUME NEW k \in Keypad, StartUnkeypad(c, k) PROVE DoorsInv'
  <2>1. doc.keypads[k] \in KeypadRecord
    BY <1>6 DEF StartUnkeypad, DocOK, Document
  <2>2. PICK y \in Door, last \in BOOLEAN :
          y = doc.keypads[k].door /\ last = (OtherKeypads(doc, k, y) = {})
    BY <2>1, Zenon DEF KeypadRecord
  <2>3. /\ At(c, "free") /\ doc' = doc /\ moved' = moved /\ out' = out
        /\ last => MaySetCapability(doc, y, FALSE)
        /\ call'[c] = [pc |-> IF last THEN "withdraw" ELSE "unkeypad", keypad |-> k, door |-> y,
                       enabled |-> ~last, copy |-> doc.doors[y], doors |-> {y}]
    BY <1>6, <2>2, Zenon DEF StartUnkeypad, Begins, Becomes, others, doors, CallTypes, Capability
  <2>4. /\ Doors(call'[c]) = {y} /\ call'[c].door = y /\ call'[c].copy = doc.doors[y]
        /\ call'[c].keypad = k /\ call'[c].enabled = ~last
        /\ call'[c].pc = IF last THEN "withdraw" ELSE "unkeypad"
    BY <2>3 DEF Doors
  <2>5. ASSUME last
        PROVE Managed(doc, y) /\ (y \notin WithLock /\ doc.doors[y].pin => ~HasGrants(doc, y))
    BY <2>3, <2>5 DEF MaySetCapability
  <2>6. ASSUME last PROVE \A j \in Keypad \ {k} : ~SwitchedOn(j, y)
    BY <2>2, <2>6 DEF OtherKeypads, SwitchedOn
  <2>7. Site(c, y)' /\ Trust(c, y)'
    <3>1. CASE last
      <4>1. call'[c].pc = "withdraw" /\ (\A j \in Keypad \ {k} : ~SwitchedOn(j, y)')
        BY <2>3, <2>4, <2>6, <3>1 DEF SwitchedOn
      <4>2. Site(c, y)'
        BY <2>3, <2>4, <2>5, <3>1, <4>1 DEF Site
      <4>3. Trust(c, y)'
        BY <2>3, <2>4, <2>5, <3>1, <4>1 DEF Trust, Programs, Early
      <4> QED BY <4>2, <4>3
    <3>2. CASE ~last
      <4>1. call'[c].pc = "unkeypad" /\ call'[c].enabled
        BY <2>4, <3>2
      <4> QED BY <2>4, <4>1 DEF Site, Trust, Programs, Early
    <3> QED BY <3>1, <3>2
  <2> QED BY <2>3, <2>4, <2>7, DoorsStart
<1>7. ASSUME NEW k \in Keypad, NEW y \in Door, NEW on \in BOOLEAN, ReadKeypad(c, k, y, on)
      PROVE DoorsInv'
  <2>1. /\ At(c, "free") /\ doc' = doc /\ moved' = moved /\ out' = out
        /\ call'[c].pc = "update"
    BY <1>7 DEF ReadKeypad, Begins, Becomes, others, doors, CallTypes
  <2>2. \A x \in Door : Site(c, x)' /\ Trust(c, x)'
    BY <2>1 DEF Site, Trust, Programs, Early
  <2> QED BY <2>1, <2>2, DoorsStart
<1> QED BY <1>1, <1>2, <1>3, <1>4, <1>5, <1>6, <1>7

\* Serving doors and keypads keeps all doors.
LEMMA EquipDoors ==
  ASSUME Assumptions, DocOK, CallTypes, Calls, DoorsInv, NEW c \in Caller, Equip(c), Crosses
  PROVE  DoorsInv'
<1>1. Turn(c)
  BY EquipTurns
<1>2. CASE FinishEnrolment(c)
  BY <1>1, <1>2, FinishEnrolmentAtDoor
<1>3. CASE WritePolicy(c)
  BY <1>1, <1>3, WritePolicyAtDoor
<1>4. CASE WriteEnrolment(c)
  BY <1>1, <1>4, WriteEnrolmentAtDoor
<1>5. CASE RemoveDoor(c)
  BY <1>1, <1>5, RemoveDoorAtDoor
<1>6. CASE RemoveKeypads(c)
  BY <1>1, <1>6, RemoveKeypadsAtDoor
<1>7. CASE Expose(c)
  BY <1>1, <1>7, ExposeAtDoor
<1>8. CASE RecordKeypad(c)
  BY <1>1, <1>8, RecordKeypadAtDoor
<1>9. CASE Withdraw(c)
  BY <1>1, <1>9, WithdrawAtDoor
<1>10. CASE ForgetKeypad(c)
  BY <1>1, <1>10, ForgetKeypadAtDoor
<1>11. CASE ForgetFails(c)
  BY <1>1, <1>11, ForgetFailsAtDoor
<1>12. CASE WriteKeypad(c)
  BY <1>1, <1>12, WriteKeypadAtDoor
<1>13. CASE \/ \E x \in Door : StartEnrolment(c, x) \/ ReadPolicy(c, x) \/ ReadEnrolment(c, x)
                 \/ StartRemoval(c, x)
            \/ \E k \in Keypad : \/ StartUnkeypad(c, k)
                                 \/ \E x \in Door : \/ StartKeypad(c, k, x)
                                                    \/ \E on \in BOOLEAN : ReadKeypad(c, k, x, on)
  BY <1>1, <1>13, EquipStarts
<1> QED BY <1>2, <1>3, <1>4, <1>5, <1>6, <1>7, <1>8, <1>9, <1>10, <1>11, <1>12, <1>13 DEF Equip

\* What serving people, schedules and grants leaves of the doors.
Leaves(c) ==
  /\ doc'.doors = doc.doors /\ doc'.keypads = doc.keypads
  /\ \A g \in Pair : doc'.grants[g] # None =>
       doc.grants[g] # None \/ (WriteGrant(c) /\ g = call[c].grant)
  /\ \A g \in Pair : doc'.metadata[g] = doc.metadata[g] \/ (ForgetMetadata(c) /\ g = call[c].grant)
  /\ call[c].pc # "unkeypad"
  /\ \/ \E g \in Pair : ReadGrant(c, g)
     \/ call'[c].pc \in {"free", "person", "schedule", "form", "forget"}

\* Serving people, schedules and grants leaves the doors alone, but for a grant that is written back.
LEMMA ServeKeeps ==
  ASSUME Assumptions, DocOK, Drawn, CallTypes, NEW c \in Caller, Serve(c)
  PROVE  Leaves(c)
<1>0. call[c] \in CallRecord
  BY DEF CallTypes
<1>1. ASSUME doc' = doc, call[c].pc # "unkeypad",
             (\E g \in Pair : ReadGrant(c, g))
             \/ call'[c].pc \in {"free", "person", "schedule", "form", "forget"}
      PROVE  Leaves(c)
  BY <1>1 DEF Leaves
<1>2. ASSUME doc'.doors = doc.doors, doc'.keypads = doc.keypads, doc'.grants = doc.grants,
             doc'.metadata = doc.metadata, call[c].pc # "unkeypad", call'[c].pc = "free"
      PROVE  Leaves(c)
  BY <1>2 DEF Leaves
<1>3. ASSUME Becomes(c, Free) PROVE call'[c].pc = "free"
  BY <1>3, AtNoDoor DEF Free
<1>4. ASSUME NEW p \in Person, CreatePerson(c, p) PROVE Leaves(c)
  <2>1. doc' = AddPerson(doc, p, Permanent) /\ call[c].pc = "free" /\ call' = call
    BY <1>4 DEF CreatePerson, AtOnce, At
  <2>2. doc'.doors = doc.doors /\ doc'.keypads = doc.keypads /\ doc'.grants = doc.grants
        /\ doc'.metadata = doc.metadata
    BY <2>1 DEF AddPerson, DocOK, Document
  <2> QED BY <2>1, <2>2, <1>2
<1>5. ASSUME NEW p \in Person, ReadPerson(c, p) PROVE Leaves(c)
  <2>1. doc' = doc /\ call[c].pc = "free" /\ call'[c].pc = "person"
    BY <1>5 DEF ReadPerson, Begins, Becomes, At, CallTypes
  <2> QED BY <2>1, <1>1
<1>6. ASSUME WritePerson(c) PROVE Leaves(c)
  <2>1. call[c].pc = "person" /\ call'[c].pc = "free"
    BY <1>3, <1>6 DEF WritePerson, At
  <2>2. doc'.doors = doc.doors /\ doc'.keypads = doc.keypads /\ doc'.grants = doc.grants
        /\ doc'.metadata = doc.metadata
    BY <1>6 DEF WritePerson, Saves, UpdatePerson, DocOK, Document
  <2> QED BY <2>1, <2>2, <1>2
<1>7. ASSUME NEW s \in Schedule, NEW policy \in Policy, CreateSchedule(c, s, policy) PROVE Leaves(c)
  <2>1. call[c].pc = "free" /\ call' = call
    BY <1>7 DEF CreateSchedule, AtOnce, At
  <2>2. doc'.doors = doc.doors /\ doc'.keypads = doc.keypads /\ doc'.grants = doc.grants
        /\ doc'.metadata = doc.metadata
    BY <1>7 DEF CreateSchedule, PutSchedule, DocOK, Document
  <2> QED BY <2>1, <2>2, <1>2
<1>8. ASSUME NEW s \in Schedule, ReadSchedule(c, s) PROVE Leaves(c)
  <2>1. doc' = doc /\ call[c].pc = "free" /\ call'[c].pc = "schedule"
    BY <1>8 DEF ReadSchedule, Begins, Becomes, At, CallTypes
  <2> QED BY <2>1, <1>1
<1>9. ASSUME NEW policy \in Policy, WriteSchedule(c, policy) PROVE Leaves(c)
  <2>1. call[c].pc = "schedule" /\ call'[c].pc = "free"
    BY <1>3, <1>9 DEF WriteSchedule, At
  <2>2. doc'.doors = doc.doors /\ doc'.keypads = doc.keypads /\ doc'.grants = doc.grants
        /\ doc'.metadata = doc.metadata
    BY <1>9 DEF WriteSchedule, PutSchedule, DocOK, Document
  <2> QED BY <2>1, <2>2, <1>2
<1>10. ASSUME NEW s \in Schedule, DeleteSchedule(c, s) PROVE Leaves(c)
  <2>1. call[c].pc = "free" /\ call' = call
    BY <1>10 DEF DeleteSchedule, AtOnce, At
  <2>2. doc'.doors = doc.doors /\ doc'.keypads = doc.keypads /\ doc'.grants = doc.grants
        /\ doc'.metadata = doc.metadata
    BY <1>10 DEF DeleteSchedule, RemoveSchedule, DocOK, Document
  <2> QED BY <2>1, <2>2, <1>2
<1>11. ASSUME NEW p \in Person, NEW s \in Schedule, OpenForm(c, p, s) PROVE Leaves(c)
  <2>1. doc' = doc /\ call[c].pc = "free" /\ call'[c].pc = "form"
    BY <1>11 DEF OpenForm, Begins, Becomes, At, CallTypes
  <2> QED BY <2>1, <1>1
<1>12. ASSUME NEW selection \in {None} \cup SUBSET Door, NEW policy \in Policy,
              NEW new \in Schedule \cup {None}, SaveForm(c, selection, policy, new)
       PROVE  Leaves(c)
  <2> DEFINE target == Target(doc, call[c], Selected(doc, call[c].person, selection), policy, new)
             e == SavedForm(doc, call[c], selection, policy, new)
  <2>1. /\ call[c].pc = "form" /\ MaySave(doc, call[c], selection)
        /\ target # None /\ (new # None => target = new /\ new \notin drawn)
        /\ doc' = e /\ call'[c].pc = "free"
    BY <1>3, <1>12 DEF SaveForm, At
  <2>2. new # None => doc.schedules[new] = None
    BY <2>1 DEF Drawn
  <2>3. /\ e.doors = doc.doors /\ e.keypads = doc.keypads /\ e.metadata = doc.metadata
        /\ \A g \in Pair : e.grants[g] # None => doc.grants[g] # None
    BY <2>1, <2>2, <1>0, FormSaved DEF DocOK
  <2> HIDE DEF e, target
  <2> QED BY <2>1, <2>3 DEF Leaves
<1>13. ASSUME CloseForm(c) PROVE Leaves(c)
  <2>1. doc' = doc /\ call[c].pc = "form" /\ call'[c].pc = "free"
    BY <1>3, <1>13 DEF CloseForm, At
  <2> QED BY <2>1, <1>1
<1>14. ASSUME NEW g \in Pair, ReadGrant(c, g) PROVE Leaves(c)
  <2>1. doc' = doc /\ call[c].pc = "free"
    BY <1>14 DEF ReadGrant, Begins, At
  <2> QED BY <2>1, <1>1, <1>14
<1>15. ASSUME WriteGrant(c) PROVE Leaves(c)
  <2>1. PICK g \in Pair, v \in GrantRecord : g = call[c].grant /\ v = call[c].copy
    BY <1>0, <1>15, Shapes DEF WriteGrant, At
  <2>2. call[c].pc = "status" /\ call'[c].pc = "free"
    BY <1>3, <1>15 DEF WriteGrant, At
  <2>3. doc' = doc \/ doc' = [doc EXCEPT !.grants[g] = v]
    BY <1>15, <2>1 DEF WriteGrant, Saves, UpsertGrant
  <2>4. doc' = [doc EXCEPT !.grants[g] = v] =>
          /\ \A h \in Pair : h # g => doc'.grants[h] = doc.grants[h]
          /\ doc'.metadata = doc.metadata /\ doc'.doors = doc.doors /\ doc'.keypads = doc.keypads
    BY GrantOnly
  <2> QED BY <1>15, <2>1, <2>2, <2>3, <2>4 DEF Leaves
<1>16. ASSUME NEW g \in Pair, ForgetGrant(c, g) PROVE Leaves(c)
  <2>1. doc' = [doc EXCEPT !.grants[g] = None] /\ call[c].pc = "free" /\ call'[c].pc = "forget"
    BY <1>16 DEF ForgetGrant, Begins, Becomes, At, CallTypes, RemoveGrant
  <2>2. /\ doc'.grants[g] = None /\ \A h \in Pair : h # g => doc'.grants[h] = doc.grants[h]
        /\ doc'.metadata = doc.metadata /\ doc'.doors = doc.doors /\ doc'.keypads = doc.keypads
    BY <2>1, GrantOnly
  <2> QED BY <2>1, <2>2 DEF Leaves
<1>17. ASSUME ForgetMetadata(c) PROVE Leaves(c)
  <2>1. PICK g \in Pair : g = call[c].grant
    BY <1>0, <1>17, Shapes DEF ForgetMetadata, At
  <2>2. doc' = [doc EXCEPT !.metadata[g] = None] /\ call[c].pc = "forget" /\ call'[c].pc = "free"
    BY <1>3, <1>17, <2>1 DEF ForgetMetadata, RemoveMetadata, At
  <2>3. /\ doc'.grants = doc.grants /\ \A h \in Pair : h # g => doc'.metadata[h] = doc.metadata[h]
        /\ doc'.doors = doc.doors /\ doc'.keypads = doc.keypads
    BY <2>2, MetadataOnly
  <2> QED BY <1>17, <2>1, <2>2, <2>3 DEF Leaves
<1> QED BY <1>4, <1>5, <1>6, <1>7, <1>8, <1>9, <1>10, <1>11, <1>12, <1>13, <1>14, <1>15, <1>16, <1>17
           DEF Serve

\* Serving people, schedules and grants keeps all doors.
LEMMA ServeDoors ==
  ASSUME Assumptions, DocOK, Drawn, CallTypes, Calls, DoorsInv, NEW c \in Caller, Serve(c),
         UNCHANGED doors, Crosses
  PROVE  DoorsInv'
<1>1. Turn(c)
  BY ServeTurns DEF DocOK
<1>2. Leaves(c) /\ moved' = moved /\ out' = out
  BY ServeKeeps DEF doors
<1>3. /\ moved \subseteq moved' /\ call[c].pc # "unkeypad"
      /\ \A x \in Door, k \in Keypad : (SwitchedOn(k, x)' <=> SwitchedOn(k, x)) /\ ~Withdrawn(c, k, x)
  BY <1>2 DEF Leaves, SwitchedOn, Withdrawn, At
<1>4. ASSUME NEW x \in Door
      PROVE  (Takes(x)' <=> Takes(x)) /\ (Managed(doc', x) <=> Managed(doc, x)) /\ (Keyed(x)' <=> Keyed(x))
             /\ Rises(x)
  BY <1>2, Revisions DEF Leaves, Takes, Keyed, Managed, PinCapable, Exposed, Rises, Revision
<1>5. CASE WriteGrant(c)
  <2>0. call[c] \in CallRecord /\ call[c].pc = "status" /\ Becomes(c, Free) /\ Coherent(call[c])
    BY <1>5 DEF CallTypes, WriteGrant, At, Calls
  <2>1. PICK g \in Pair : g = call[c].grant
    BY <2>0, Shapes
  <2>2. Doors(call'[c]) = {} /\ g[2] \in Doors(call[c])
    BY <2>0, <2>1, AtNoDoor, Fields DEF Coherent, DoorPc
  <2>3. \A x \in Door \ {g[2]} : Untouched(x)
    <3>1. ASSUME NEW x \in Door \ {g[2]}, HasGrants(doc', x) PROVE HasGrants(doc, x)
      <4>1. PICK p \in Person : doc'.grants[<<p, x>>] # None
        BY <3>1 DEF HasGrants
      <4>2. <<p, x>> \in Pair /\ <<p, x>> # g
        BY <3>1, Pairs
      <4> QED BY <1>2, <2>1, <4>1, <4>2 DEF Leaves, HasGrants
    <3> QED BY <1>2, <3>1 DEF Untouched, Leaves, SwitchedOn
  <2>4. ASSUME NEW x \in Door, x \in Doors(call[c]) PROVE Minds(c, x)
    <3>1. Working(x) => Working(x)'
      BY <1>1, <1>3, <1>4, WorkingStays
    <3>2. ASSUME Given(x), Trust(c, x) PROVE Given(x)'
      <4>1. Takes(x)'
        BY <1>4, <2>0, <3>2 DEF Trust
      <4> QED BY <1>2, <1>4, <3>2, <4>1 DEF Given
    <3> QED BY <1>4, <2>2, <2>4, <3>1, <3>2 DEF Minds, Knows, Trusts
  <2>5. \A x \in Door :
          IF x \in Doors(call[c]) \cup Doors(call'[c]) THEN Minds(c, x) ELSE Untouched(x)
    BY <2>2, <2>3, <2>4, Pairs
  <2> QED BY <1>1, <1>3, <2>5, DoorsStep
<1>6. CASE ~WriteGrant(c)
  <2>1. \A x \in Door : HasGrants(doc', x) => HasGrants(doc, x)
    BY <1>2, <1>6, Pairs DEF Leaves, HasGrants
  <2>2. \A x \in Door : Untouched(x)
    BY <1>2, <2>1 DEF Untouched, Leaves, SwitchedOn
  <2>3. ASSUME NEW x \in Door, x \in Doors(call'[c])
        PROVE  Site(c, x)' /\ (Given(x) => Trust(c, x)')
    <3>1. ASSUME NEW g \in Pair, ReadGrant(c, g) PROVE Site(c, x)' /\ (Given(x) => Trust(c, x)')
      <4>1. /\ call'[c] = [pc |-> "status", grant |-> g, copy |-> doc.grants[g], doors |-> {g[2]}]
            /\ doc.grants[g] # None
        BY <3>1 DEF ReadGrant, Begins, Becomes, CallTypes
      <4>2. x = g[2] /\ call'[c].pc = "status"
        BY <2>3, <4>1 DEF Doors
      <4>3. HasGrants(doc, x)
        BY <4>1, <4>2, Pairs DEF HasGrants
      <4>4. Given(x) => Takes(x)'
        BY <1>4, <4>3 DEF Given
      <4> QED BY <4>2, <4>4 DEF Site, Trust, Programs, Early, DoorPc
    <3>2. ASSUME call'[c].pc \in {"free", "person", "schedule", "form", "forget"}
          PROVE  Site(c, x)' /\ Trust(c, x)'
      BY <3>2 DEF Site, Trust, Programs, Early, DoorPc
    <3> QED BY <1>2, <3>1, <3>2 DEF Leaves
  <2> QED BY <1>1, <1>3, <2>2, <2>3, DoorsKept DEF Trusts
<1> QED BY <1>5, <1>6

\* A set-up that has not looked at its doors yet is at none.
Looks(r) == r.pc \in Early /\ r.request # None

\* Where a step of a set-up leads: to no door, to look at the doors, or to the
\* doors that it has looked at.
Leads(c) ==
  /\ call[c].pc \in ProvisionPc \cup {"free", "save"}
  /\ \/ call'[c].pc \in {"free", "save", "undo_grant", "undo_metadata", "undo_authority",
                         "rollback", "unrecord", "failed"}
     \/ /\ Looks(call'[c])
        /\ \/ call'[c].door = None
           \/ Looks(call[c]) /\ call'[c].door = call[c].door /\ Doors(call'[c]) = Doors(call[c])
     \/ /\ Programs(call'[c])
        /\ \A x \in Door : x \in call'[c].todo \cup {call'[c].door} =>
             \/ Takes(x)
             \/ /\ Doors(call'[c]) = Doors(call[c])
                /\ \/ Programs(call[c]) /\ x \in call[c].todo \cup {call[c].door}
                   \/ Looks(call[c]) /\ x = call[c].door

\* A call that provisions keeps its doors.
LEMMA SameDoors ==
  ASSUME CallTypes, NEW c \in Caller, Carries(c)
  PROVE  Doors(call'[c]) = Doors(call[c]) /\ Doors(call[c]) = call[c].doors
<1>1. call[c].pc \in ProvisionPc /\ call'[c].pc \in ProvisionPc /\ call'[c] \in CallRecord
      /\ call[c] \in CallRecord
  BY DEF Carries, Provision, ProvisionPc, CallRecord
<1>2. /\ call[c].pc \notin {"free", "down", "person", "schedule", "form"}
      /\ call'[c].pc \notin {"free", "down", "person", "schedule", "form"}
  BY <1>1 DEF ProvisionPc
<1> QED BY <1>1, <1>2, Fields DEF Carries

\* Where a set-up leads.
LEMMA SetUpLeads ==
  ASSUME Assumptions, DocOK, CallTypes, Calls, stored \in Nat, NEW c \in Caller, SetUp(c)
  PROVE  Leads(c)
<1> DEFINE Rest == {"free", "save", "undo_grant", "undo_metadata", "undo_authority",
                    "rollback", "unrecord", "failed"}
<1>1. ASSUME call[c].pc \in ProvisionPc \cup {"free", "save"}, call'[c].pc \in Rest PROVE Leads(c)
  BY <1>1 DEF Leads
<1>2. ASSUME Becomes(c, Free), call[c].pc \in ProvisionPc \cup {"free", "save"} PROVE Leads(c)
  BY <1>1, <1>2, AtNoDoor DEF Free
<1>3. ASSUME Looks(call[c]), Carries(c), SamePlace(c), call'[c].pc \in Early PROVE Leads(c)
  <2>1. Looks(call'[c]) /\ call[c].pc \in ProvisionPc
    BY <1>3 DEF Looks, Carries, Early, ProvisionPc
  <2> QED BY <1>3, <2>1, SameDoors DEF Leads, SamePlace
<1>4. ASSUME Programs(call[c]), Carries(c), Programs(call'[c]),
             call'[c].todo \cup {call'[c].door} \subseteq call[c].todo \cup {call[c].door} PROVE Leads(c)
  <2>1. call[c].pc \in ProvisionPc
    BY <1>4 DEF Programs, ProvisionPc
  <2> QED BY <1>4, <2>1, SameDoors DEF Leads
<1> HIDE DEF Rest
<1>5. ASSUME NEW r \in Request, Submit(c, r) \/ Repeat(c, r) PROVE Leads(c)
  <2>1. PICK pc \in {"secret", "core", "finish"}, cred \in Pin : Begin(c, r, pc, cred)
    <3>1. doc.authority[Asked[r].person] \in Pin /\ None \in Pin
      BY Constants DEF DocOK, Document, Pin
    <3>2. PICK v \in Pin : v = doc.authority[Asked[r].person]
      BY <3>1
    <3>3. CASE Repeat(c, r)
      BY <3>2, <3>3 DEF Repeat
    <3>4. CASE Submit(c, r)
      BY <3>1, <3>2, <3>4 DEF Submit
    <3> QED BY <1>5, <3>3, <3>4
  <2>2. call'[c] = [Provisioning(r, pc, Asked[r].person, Asked[r].doors) EXCEPT !.cred = cred]
        /\ call[c].pc = "free"
    BY <2>1 DEF Begin, Begins, Becomes, CallTypes, At
  <2>3. call'[c] = [pc |-> pc, request |-> r, person |-> Asked[r].person, todo |-> Asked[r].doors, done |-> {},
                    door |-> None, had |-> {}, cred |-> cred, made |-> FALSE, doors |-> Asked[r].doors]
    BY <2>2 DEF Provisioning
  <2>4. Looks(call'[c]) /\ call'[c].door = None
    BY <2>3, Constants DEF Looks, Early
  <2> QED BY <2>2, <2>4 DEF Leads
<1>6. ASSUME NEW p \in Person, NEW y \in Door, Give(c, p, y) PROVE Leads(c)
  <2>0. Takes(y)
    BY <1>6, Zenon DEF Give, Takes
  <2>1. /\ At(c, "free")
        /\ call'[c] = [pc |-> "door", request |-> None, person |-> p, todo |-> {y}, done |-> {},
                       door |-> None, had |-> {}, cred |-> doc.authority[p], made |-> FALSE,
                       doors |-> {y}]
    BY <1>6, GiveTurn, SMTT(40)
  <2>2. Programs(call'[c]) /\ call'[c].todo = {y} /\ call'[c].door = None
    BY <2>1 DEF Programs
  <2> QED BY <2>0, <2>1, <2>2, Constants DEF Leads, At
<1>7. ASSUME NEW p \in Person, DeletePerson(c, p) PROVE Leads(c)
  <2>1. call[c].pc = "free" /\ call'[c].pc = "free"
    BY <1>7 DEF DeletePerson, AtOnce, At
  <2> QED BY <2>1, <1>1 DEF Rest
<1>8. ASSUME \/ AnswerAgain(c) \/ FinishFails(c) \/ SaveResult(c) \/ SaveFails(c)
             \/ (\E works \in BOOLEAN : Discard(c, works)) \/ (\E removed \in BOOLEAN : GiveFails(c, removed))
      PROVE  Leads(c)
  <2>1. Becomes(c, Free)
    BY <1>8 DEF AnswerAgain, FinishFails, SaveResult, SaveFails, Discard, GiveFails
  <2>2. call[c].pc \in ProvisionPc \cup {"free", "save"}
    BY <1>8 DEF AnswerAgain, FinishFails, SaveResult, SaveFails, Discard, GiveFails, At, ProvisionPc
  <2> QED BY <2>1, <2>2, <1>2
<1>9. ASSUME StoreSecret(c) PROVE Leads(c)
  <2>1. /\ At(c, "secret") /\ Carries(c) /\ SamePlace(c)
        /\ call'[c].pc = IF call[c].request # None THEN "core" ELSE "metadata"
    BY <1>9, Secreting
  <2>2. CASE call[c].request # None
    <3>1. Looks(call[c]) /\ call'[c].pc \in Early
      BY <2>1, <2>2 DEF Looks, At, Early
    <3> QED BY <2>1, <3>1, <1>3
  <2>3. CASE call[c].request = None
    <3>1. Programs(call[c]) /\ Programs(call'[c])
      BY <2>1, <2>3 DEF Programs, At
    <3> QED BY <2>1, <3>1, <1>4 DEF SamePlace
  <2> QED BY <2>2, <2>3
<1>10. ASSUME Prepare(c) \/ PrepareFails(c) PROVE Leads(c)
  <2>1. call[c].pc = "core" /\ call[c].pc \in ProvisionPc
    BY <1>10 DEF Prepare, PrepareFails, At, ProvisionPc
  <2>2. CASE Becomes(c, Free)
    BY <2>1, <2>2, <1>2
  <2>3. ASSUME NEW next \in {"finish", "discard"}, Goes(c, next) PROVE Leads(c)
    <3>1. next \in ProvisionPc /\ next \in Early
      BY DEF ProvisionPc, Early
    <3>2. Carries(c) /\ SamePlace(c) /\ call'[c].pc = next
      BY <2>1, <2>3, <3>1, GoesFields
    <3>3. call[c].request # None
      BY <2>1, Provisions DEF SteadyGift, Recording
    <3> QED BY <2>1, <3>1, <3>2, <3>3, <1>3 DEF Looks, Early
  <2> QED BY <1>10, <2>2, <2>3 DEF Prepare, PrepareFails
<1>11. ASSUME NothingToDo(c) \/ AllAdded(c) \/ NotAdded(c) PROVE Leads(c)
  <2>1. call[c].pc \in ProvisionPc
    BY <1>11 DEF NothingToDo, AllAdded, NotAdded, At, ProvisionPc
  <2>2. ASSUME NEW state, NEW added, Ready(c, state, added) PROVE Leads(c)
    <3>1. call'[c].pc = "save"
      BY <2>2 DEF Ready, Becomes, CallTypes
    <3> QED BY <2>1, <3>1, <1>1 DEF Rest
  <2> QED BY <1>11, <2>2 DEF NothingToDo, AllAdded, NotAdded
<1>12. ASSUME MarkProvisioning(c) PROVE Leads(c)
  <2>1. At(c, "finish") /\ Carries(c) /\ SamePlace(c) /\ call'[c].pc = "check"
    BY <1>12, Marking
  <2>2. call[c].request # None
    <3>1. call[c].pc = "finish" /\ call[c].pc \in ProvisionPc
      BY <2>1 DEF At, ProvisionPc
    <3> QED BY <3>1, Provisions DEF SteadyGift, Recording
  <2> QED BY <2>1, <2>2, <1>3 DEF Looks, At, Early
<1>13. ASSUME CheckAdditions(c) PROVE Leads(c)
  <2>1. /\ At(c, "check") /\ Carries(c) /\ call'[c].door = call[c].door
        /\ \/ /\ MayAdd(doc, call[c].person, call[c].todo, call[c].cred) /\ call'[c].pc = "door"
              /\ call'[c].todo = Additions(doc, call[c].person, call[c].todo)
           \/ call'[c].pc = "failed"
    BY <1>13, Checking
  <2>2. call[c].pc \in ProvisionPc /\ call[c].pc = "check"
    BY <2>1 DEF At, ProvisionPc
  <2>3. CASE call'[c].pc = "failed"
    BY <2>2, <2>3, <1>1 DEF Rest
  <2>4. CASE /\ MayAdd(doc, call[c].person, call[c].todo, call[c].cred) /\ call'[c].pc = "door"
             /\ call'[c].todo = Additions(doc, call[c].person, call[c].todo)
    <3>1. call[c].request # None
      BY <2>2, Provisions DEF SteadyGift, Recording
    <3>2. \A x \in call'[c].todo : Takes(x)
      BY <2>4 DEF MayAdd, Additions, Takes
    <3>3. Looks(call[c]) /\ Programs(call'[c])
      BY <2>2, <2>4, <3>1 DEF Looks, Early, Programs
    <3> QED BY <2>1, <2>2, <3>2, <3>3, SameDoors DEF Leads
  <2> QED BY <2>1, <2>3, <2>4
<1>14. ASSUME NEW x \in Door, Program(c, x) PROVE Leads(c)
  <2>1. /\ At(c, "door") /\ x \in call[c].todo /\ Carries(c)
        /\ call'[c].door = x /\ call'[c].todo = call[c].todo \ {x}
        /\ call'[c].pc = IF call[c].cred = None THEN "secret" ELSE "metadata"
    BY <1>14, Programming
  <2>2. call[c].pc = "door" /\ call[c].pc \in ProvisionPc
    BY <2>1 DEF At, ProvisionPc
  <2>3. call[c].request # None => call[c].cred # None
    BY <2>2, Provisions DEF SteadySetUp
  <2>4. Programs(call[c]) /\ Programs(call'[c])
    BY <2>1, <2>2, <2>3 DEF Programs, Carries
  <2> QED BY <2>1, <2>4, <1>4
<1>15. ASSUME NEW next \in Rest, Goes(c, next), call[c].pc \in ProvisionPc, next \notin {"free", "save"}
       PROVE Leads(c)
  <2>1. next \in ProvisionPc
    BY <1>15 DEF Rest, ProvisionPc
  <2>2. call'[c].pc = next
    BY <1>15, <2>1, GoesFields
  <2> QED BY <1>1, <1>15, <2>2
<1>16. ASSUME Refuse(c) PROVE Leads(c)
  <2>1. call[c].pc = "door" /\ call[c].pc \in ProvisionPc /\ "rollback" \in Rest
    BY <1>16 DEF Refuse, At, ProvisionPc, Rest
  <2> QED BY <1>2, <1>15, <1>16, <2>1 DEF Refuse
<1>17. ASSUME UndoGrant(c) \/ UndoMetadata(c) \/ UndoAuthority(c) \/ UndoFails(c) \/ RecordNoGrant(c)
              \/ TakenBack(c)
       PROVE Leads(c)
  <2>1. call[c].pc \in ProvisionPc
    BY <1>17 DEF UndoGrant, UndoMetadata, UndoAuthority, UndoFails, RecordNoGrant, TakenBack, At,
       ProvisionPc
  <2>2. PICK next \in {"undo_grant", "undo_metadata", "undo_authority", "rollback", "failed"} : Goes(c, next)
    BY <1>17 DEF UndoGrant, UndoMetadata, UndoAuthority, UndoFails, RecordNoGrant, TakenBack
  <2>3. next \in Rest /\ next \notin {"free", "save"}
    BY DEF Rest
  <2> QED BY <1>15, <2>1, <2>2, <2>3
<1>18. ASSUME RecordMetadata(c) \/ RecordGrant(c) PROVE Leads(c)
  <2>1. call[c].pc \in {"metadata", "grant"} /\ call[c].pc \in ProvisionPc
    BY <1>18 DEF RecordMetadata, RecordGrant, Record, At, ProvisionPc
  <2>2. PICK next \in {"grant", "authority", "undo_grant", "rollback"} : Goes(c, next)
    BY <1>18 DEF RecordMetadata, RecordGrant, Record
  <2>3. CASE next \in {"undo_grant", "rollback"}
    <3>1. next \in Rest /\ next \notin {"free", "save"}
      BY <2>3 DEF Rest
    <3> QED BY <1>15, <2>1, <2>2, <3>1
  <2>4. CASE next \in {"grant", "authority"}
    <3>1. next \in ProvisionPc
      BY <2>4 DEF ProvisionPc
    <3>2. Carries(c) /\ SamePlace(c) /\ call'[c].pc = next
      BY <2>1, <2>2, <3>1, GoesFields
    <3>3. Programs(call[c]) /\ Programs(call'[c])
      BY <2>1, <2>4, <3>2 DEF Programs
    <3> QED BY <1>4, <3>2, <3>3 DEF SamePlace
  <2> QED BY <2>3, <2>4
<1>19. ASSUME RecordAuthority(c) PROVE Leads(c)
  <2>1. /\ At(c, "authority")
        /\ \/ Goes(c, "undo_grant")
           \/ Becomes(c, Free)
           \/ /\ Carries(c) /\ call'[c].pc = "door"
              /\ call'[c].todo = call[c].todo /\ call'[c].door = call[c].door
    BY <1>19, Authorizing
  <2>2. call[c].pc = "authority" /\ call[c].pc \in ProvisionPc /\ "undo_grant" \in Rest
    BY <2>1 DEF At, ProvisionPc, Rest
  <2>3. CASE Goes(c, "undo_grant")
    BY <1>15, <2>2, <2>3
  <2>4. CASE Becomes(c, Free)
    BY <1>2, <2>2, <2>4
  <2>5. CASE Carries(c) /\ call'[c].pc = "door" /\ call'[c].todo = call[c].todo /\ call'[c].door = call[c].door
    <3>1. Programs(call[c]) /\ Programs(call'[c])
      BY <2>2, <2>5 DEF Programs
    <3> QED BY <1>4, <2>5, <3>1
  <2> QED BY <2>1, <2>3, <2>4, <2>5
<1>20. ASSUME Unrecord(c) \/ \E x \in Door : TakeBack(c, x) \/ LeaveMarked(c, x) PROVE Leads(c)
  <2>1. call[c].pc \in {"rollback", "unrecord"} /\ call'[c].pc \in {"rollback", "unrecord"}
    BY <1>20, Undoing DEF At
  <2> QED BY <1>1, <2>1 DEF Rest, ProvisionPc
<1> QED BY <1>5, <1>6, <1>7, <1>8, <1>9, <1>10, <1>11, <1>12, <1>13, <1>14, <1>16, <1>17, <1>18, <1>19,
           <1>20 DEF SetUp

\* Where a set-up leads, it knows its doors.
LEMMA LeadsToItsSite ==
  ASSUME Assumptions, NEW c \in Caller, Leads(c), NEW x \in Door, doc'.doors = doc.doors,
         x \in Doors(call'[c])
  PROVE  /\ Site(c, x)'
         /\ (x \in Doors(call[c]) => Trust(c, x)) => Trust(c, x)'
<1>1. Takes(x)' <=> Takes(x)
  BY DEF Takes, Managed, PinCapable
<1>2. CASE call'[c].pc \in {"free", "save", "undo_grant", "undo_metadata", "undo_authority",
                            "rollback", "unrecord", "failed"}
  BY <1>2 DEF Site, Trust, Programs, Early, DoorPc
<1>3. CASE /\ Looks(call'[c])
           /\ \/ call'[c].door = None
              \/ Looks(call[c]) /\ call'[c].door = call[c].door /\ Doors(call'[c]) = Doors(call[c])
  <2>1. ASSUME x \in Doors(call[c]) => Trust(c, x) PROVE call'[c].door # x
    <3>1. CASE call'[c].door = None
      BY <3>1, Constants
    <3>2. CASE Looks(call[c]) /\ call'[c].door = call[c].door /\ Doors(call'[c]) = Doors(call[c])
      BY <2>1, <3>2 DEF Trust, Looks
    <3> QED BY <1>3, <3>1, <3>2
  <2>2. call'[c].pc \in Early /\ ~Programs(call'[c])
    BY <1>3 DEF Looks, Programs, Early
  <2>3. Site(c, x)'
    BY <2>2 DEF Site, Early, DoorPc
  <2>4. (x \in Doors(call[c]) => Trust(c, x)) => Trust(c, x)'
    BY <2>1, <2>2 DEF Trust, Early
  <2> QED BY <2>3, <2>4
<1>4. CASE /\ Programs(call'[c])
           /\ \A y \in Door : y \in call'[c].todo \cup {call'[c].door} =>
                \/ Takes(y)
                \/ /\ Doors(call'[c]) = Doors(call[c])
                   /\ \/ Programs(call[c]) /\ y \in call[c].todo \cup {call[c].door}
                      \/ Looks(call[c]) /\ y = call[c].door
  <2>1. ASSUME x \in Doors(call[c]) => Trust(c, x)
        PROVE  x \in call'[c].todo \cup {call'[c].door} => Takes(x)'
    BY <1>1, <1>4, <2>1 DEF Trust, Looks
  <2>2. call'[c].pc \in {"door", "metadata", "grant", "authority"}
        \/ (call'[c].pc = "secret" /\ call'[c].request = None)
    BY <1>4 DEF Programs
  <2>3. Site(c, x)'
    BY <2>2 DEF Site, DoorPc
  <2>4. CASE call'[c].pc \in {"door", "metadata", "grant", "authority"}
    BY <2>1, <2>3, <2>4 DEF Trust, Early
  <2>5. CASE call'[c].pc = "secret" /\ call'[c].request = None
    BY <2>1, <2>3, <2>5 DEF Trust
  <2> QED BY <2>2, <2>4, <2>5
<1> QED BY <1>2, <1>3, <1>4 DEF Leads

\* Set-ups keep all doors: a grant is recorded at a door that was looked at.
LEMMA SetUpDoors ==
  ASSUME Assumptions, DocOK, CallTypes, Calls, Requests, stored \in Nat, DoorsInv, NEW c \in Caller,
         SetUp(c), Crosses
  PROVE  DoorsInv'
<1>1. Turn(c) /\ Leads(c)
  BY SetUpTurns, SetUpLeads
<1>2. /\ doc'.doors = doc.doors /\ doc'.keypads = doc.keypads /\ moved' = moved /\ out' = out
      /\ \A g \in Pair : doc'.grants[g] \in {None, doc.grants[g]} \/ (RecordGrant(c) /\ g = Here(c))
  BY SetUpDocuments DEF Housed, doors
<1>3. moved \subseteq moved' /\ call[c].pc # "unkeypad"
  BY <1>1, <1>2 DEF Leads, ProvisionPc
<1>4. ASSUME NEW x \in Door, x \in Doors(call'[c])
      PROVE  Site(c, x)' /\ (Trusts(c, x) => Trust(c, x)')
  BY <1>1, <1>2, <1>4, LeadsToItsSite DEF Trusts
<1>5. ASSUME NEW x \in Door, RecordGrant(c) => x # call[c].door PROVE Untouched(x)
  <2>1. ASSUME HasGrants(doc', x) PROVE HasGrants(doc, x)
    <3>1. PICK p \in Person : doc'.grants[<<p, x>>] # None
      BY <2>1 DEF HasGrants
    <3>2. <<p, x>> \in Pair /\ (RecordGrant(c) => <<p, x>> # Here(c))
      BY <1>5, Pairs DEF Here
    <3>3. doc.grants[<<p, x>>] # None
      BY <1>2, <3>1, <3>2
    <3> QED BY <3>3 DEF HasGrants
  <2> QED BY <1>2, <2>1 DEF Untouched, SwitchedOn
<1>6. CASE ~RecordGrant(c)
  <2>1. \A x \in Door : Untouched(x)
    BY <1>5, <1>6
  <2> QED BY <1>1, <1>3, <1>4, <2>1, DoorsKept
<1>7. CASE RecordGrant(c)
  <2>1. call[c].pc = "grant" /\ call[c] \in CallRecord
    BY <1>7 DEF RecordGrant, At, CallTypes
  <2>2. PICK y \in Door : y = call[c].door /\ y \in call[c].doors
    BY <2>1, Places DEF Recording, ProvisionPc
  <2>3. y \in Doors(call[c])
    BY <2>1, <2>2, Fields
  <2>4. \A x \in Door \ {y} : Minds(c, x) /\ Untouched(x)
    <3> TAKE x \in Door \ {y}
    <3>1. Untouched(x)
      BY <1>5, <2>2
    <3> QED BY <1>1, <1>3, <1>4, <3>1, UntouchedMinds
  <2>5. Minds(c, y)
    <3>1. /\ Takes(y)' <=> Takes(y)
          /\ Keyed(y)' <=> Keyed(y)
          /\ Managed(doc', y) <=> Managed(doc, y)
          /\ Rises(y)
      BY <1>2, Revisions DEF Takes, Keyed, Managed, PinCapable, Exposed, Rises, Revision
    <3>2. \A k \in Keypad : (SwitchedOn(k, y)' => SwitchedOn(k, y)) /\ ~Withdrawn(c, k, y)
      BY <1>2, <1>3 DEF SwitchedOn, Withdrawn, At
    <3>3. Working(y) => Working(y)'
      BY <1>1, <1>3, <3>1, <3>2, WorkingStays
    <3>4. ASSUME Trusts(c, y) PROVE Given(y)'
      <4>1. Takes(y)
        BY <2>1, <2>2, <2>3, <3>4 DEF Trusts, Trust, Programs
      <4> QED BY <1>2, <3>1, <3>4, <4>1 DEF Given, Trusts
    <3> QED BY <1>4, <3>1, <3>3, <3>4 DEF Minds, Knows, Trusts
  <2>6. \A x \in Door :
          IF x \in Doors(call[c]) \cup Doors(call'[c]) THEN Minds(c, x) ELSE Untouched(x)
    BY <2>3, <2>4, <2>5
  <2> QED BY <1>1, <1>3, <2>6, DoorsStep
<1> QED BY <1>6, <1>7

\* A restart keeps all doors, and puts the keypads right, unless HomePASS does not start.
LEMMA RestartDoors ==
  ASSUME Assumptions, DocOK, CallTypes, DoorsInv, Restart, Settles
  PROVE  DoorsInv'
<1>1. PICK xs \in SUBSET InUse(doc) :
        /\ \A x \in xs : Managed(doc, x)
        /\ (\A x \in InUse(doc) : Managed(doc, x)) => xs = InUse(doc)
        /\ \A x \in Door : doc'.doors[x] = IF x \in xs \ WithLock THEN [doc.doors[x] EXCEPT !.pin = TRUE]
                                           ELSE doc.doors[x]
  BY RestartDocuments
<1>2. doc'.keypads = doc.keypads /\ doc'.grants = doc.grants /\ out' = out /\ met' = met
  BY RestartDocuments, RestartCalls DEF Furnished, Restart
<1>3. ASSUME NEW x \in Door
      PROVE  /\ Managed(doc', x) <=> Managed(doc, x)
             /\ Takes(x) => Takes(x)'
             /\ Keyed(x) \/ x \in xs => Keyed(x)'
  <2>1. CASE x \in xs \ WithLock
    <3>1. PICK v \in DoorRecord : v = doc.doors[x]
      BY <1>1, <2>1 DEF Managed, DocOK, Document
    <3>2. doc'.doors[x] = [v EXCEPT !.pin = TRUE] /\ v.managed
      BY <1>1, <2>1, <3>1 DEF Managed
    <3>3. PICK w \in DoorRecord : w = [v EXCEPT !.pin = TRUE]
      BY <3>1 DEF DoorRecord
    <3>4. w.managed = v.managed /\ w.pin = TRUE
      BY <3>1, <3>3 DEF DoorRecord
    <3> QED BY <1>1, <2>1, <3>1, <3>2, <3>3, <3>4, Constants DEF Managed, Takes, Keyed, PinCapable, Exposed
  <2>2. CASE x \notin xs \ WithLock
    <3>1. doc'.doors[x] = doc.doors[x]
      BY <1>1, <2>2
    <3> QED BY <1>1, <2>2, <3>1 DEF Managed, Takes, Keyed, PinCapable, Exposed
  <2> QED BY <2>1, <2>2
<1>4. ASSUME NEW x \in Door \ unsettled' PROVE Working(x)'
  <2>1. ASSUME NEW k \in Keypad \ moved', SwitchedOn(k, x)', ~Keyed(x)'
        PROVE  \E c \in Caller : At(c, "down")'
    <3>1. SwitchedOn(k, x) /\ x \in InUse(doc)
      BY <1>2, <2>1 DEF SwitchedOn, InUse
    <3>2. \E y \in InUse(doc) : ~Managed(doc, y)
      BY <1>1, <1>3, <2>1, <3>1
    <3>3. moved' = moved /\ \A c \in Caller : At(c, "down")'
      BY <3>2, RestartCalls DEF At
    <3>4. unsettled' = unsettled
      BY <3>3 DEF Settles, At
    <3>5. Working(x) /\ ~Keyed(x)
      BY <1>3, <1>4, <2>1, <3>4 DEF DoorsInv
    <3>6. PICK c \in Caller : TRUE
      BY <2>1, <3>1, <3>3, <3>5 DEF Working
    <3> QED BY <3>3, <3>6
  <2> QED BY <2>1 DEF Working
<1>5. ASSUME NEW x \in Door \ crossed' PROVE Given(x)'
  <2>1. Given(x)
    BY <1>5 DEF DoorsInv, Settles
  <2> QED BY <1>2, <1>3, <2>1 DEF Given, HasGrants
<1>6. \A c \in Caller : Doors(call'[c]) = {}
  BY RestartCalls
<1>7. Crossing' \subseteq unsettled' /\ unsettled' \subseteq crossed'
  BY <1>6 DEF Crossing, Settles, DoorsInv
<1> QED BY <1>4, <1>5, <1>6, <1>7 DEF DoorsInv

\* All doors agree at first.
LEMMA InitDoors ==
  ASSUME Assumptions, Init
  PROVE  DoorsInv
<1>1. PICK home \in Homes : doc = home.doc /\ call = [c \in Caller |-> Free] /\ out = {}
  BY DEF Init
<1>2. /\ \A x \in Door : HasGrants(doc, x) => Takes(x)
      /\ \A x \in InUse(doc) : Keyed(x)
  BY <1>1 DEF Assumptions, Takes, Keyed
<1>3. \A c \in Caller : Doors(call[c]) = {}
  <2>1. Doors(Free) = {}
    BY DEF Doors, Free
  <2> QED BY <1>1, <2>1
<1>4. ASSUME NEW x \in Door PROVE Working(x) /\ Given(x)
  <2>1. \A k \in Keypad : SwitchedOn(k, x) => x \in InUse(doc)
    BY DEF SwitchedOn, InUse
  <2> QED BY <1>1, <1>2, <2>1 DEF Working, Given
<1>5. Crossing \subseteq unsettled /\ unsettled \subseteq crossed
  BY <1>3 DEF Crossing, Init
<1> QED BY <1>3, <1>4, <1>5 DEF DoorsInv

\* Every step keeps all doors.
LEMMA NextDoors ==
  ASSUME Assumptions, Basis, DoorsInv, [Next]_vars
  PROVE  DoorsInv'
<1>0. DocOK /\ CallTypes /\ Calls /\ Drawn /\ Requests /\ stored \in Nat
  BY DEF Basis, Secrets
<1>1. ASSUME NEW c \in Caller, Serve(c), UNCHANGED <<doors, setup>>, Crosses PROVE DoorsInv'
  BY <1>0, <1>1, ServeDoors
<1>2. ASSUME NEW c \in Caller, Equip(c), UNCHANGED setup, Crosses PROVE DoorsInv'
  BY <1>0, <1>2, EquipDoors
<1>3. ASSUME NEW c \in Caller, SetUp(c), Crosses PROVE DoorsInv'
  BY <1>0, <1>3, SetUpDoors
<1>4. ASSUME RestartHome, Settles PROVE DoorsInv'
  BY <1>0, <1>4, RestartDoors DEF RestartHome
<1>5. ASSUME UNCHANGED vars PROVE DoorsInv'
  <2>1. doc' = doc /\ call' = call /\ out' = out /\ moved' = moved
        /\ crossed' = crossed /\ unsettled' = unsettled
    BY <1>5 DEF vars, registry, doors, marks
  <2>2. \A x \in Door : Untouched(x)
    BY <2>1, NothingPut
  <2>3. \A c \in Caller, x \in Door : (Site(c, x) => Site(c, x)') /\ (Trust(c, x) => Trust(c, x)')
    BY <1>0, <2>1, <2>2, SiteStays
  <2>4. \A x \in Door : (Takes(x)' <=> Takes(x)) /\ (Keyed(x)' <=> Keyed(x))
    BY <1>0, <2>2, UntouchedDoors
  <2>5. \A x \in Door : (Working(x) => Working(x)') /\ (Given(x) => Given(x)')
    BY <2>1, <2>4 DEF Working, Given, SwitchedOn, Withdrawn, At
  <2>6. Crossing' = Crossing
    BY <2>1 DEF Crossing
  <2> QED BY <2>1, <2>3, <2>5, <2>6 DEF DoorsInv
<1> QED BY <1>1, <1>2, <1>3, <1>4, <1>5 DEF Next

\* What holds of the doors where no call that takes away met another is an invariant.
LEMMA DoorsAlways == Spec => []DoorsInv
<1>1. Init => DoorsInv
  BY Assumptions, InitDoors
<1>2. Basis /\ DoorsInv /\ [Next]_vars => DoorsInv'
  BY Assumptions, NextDoors
<1> QED BY <1>1, <1>2, BasisAlways, PTL DEF Spec

\* DoorsAgree: while any calls are under way together, but for one that takes away, what was removed stays
\* removed, who has access has it at a door that is managed and takes PINs, and a keypad that is switched
\* on is at a door that is managed and exposed; of the keypads this is so again after the next start.
THEOREM DoorsAgreeAlways == Spec => []DoorsAgree
<1>1. DoorsInv => DoorsAgree
  <2> SUFFICES ASSUME DoorsInv PROVE DoorsAgree
    OBVIOUS
  <2>1. ASSUME NEW x \in Door \ crossed
        PROVE  /\ x \in out => ~Managed(doc, x)
               /\ HasGrants(doc, x) => Managed(doc, x) /\ PinCapable(doc, x)
    BY <2>1 DEF DoorsInv, Given, Takes
  <2>2. ASSUME NEW x \in Door \ unsettled, NEW k \in Keypad \ moved, SwitchedOn(k, x)
        PROVE  \/ Managed(doc, x) /\ Exposed(doc, x)
               \/ \E c \in Caller : At(c, "down") \/ Withdrawn(c, k, x)
    BY <2>2 DEF DoorsInv, Working, Keyed
  <2> QED BY <2>1, <2>2 DEF DoorsAgree
<1> QED BY <1>1, DoorsAlways, PTL

(***************************************************************************)
(* Answers tell the truth.                                                 *)
(***************************************************************************)

\* What a step of a set-up changes of the people and of the records of locks.
Recorded(c) ==
  \/ doc'.people = doc.people /\ doc'.metadata = doc.metadata
  \/ /\ call[c].pc \in {"metadata", "undo_metadata", "unrecord"} /\ doc'.people = doc.people
     /\ \A g \in Pair : g # Here(c) => doc'.metadata[g] = doc.metadata[g]
  \/ \E x \in Door :
       /\ LeaveMarked(c, x) /\ doc'.people = doc.people
       /\ \A g \in Pair : g # <<call[c].person, x>> => doc'.metadata[g] = doc.metadata[g]
  \/ Prepare(c) /\ doc'.metadata = doc.metadata
  \/ \E p \in Person :
       /\ DeletePerson(c, p) /\ doc'.people[p] = None
       /\ \A q \in Person : q # p => doc'.people[q] = doc.people[q]
       /\ \A g \in Pair : g[1] # p => doc'.metadata[g] = doc.metadata[g]

\* What a set-up changes of people and of the records of locks.
LEMMA SetUpRecords ==
  ASSUME Assumptions, DocOK, CallTypes, Calls, NEW c \in Caller, SetUp(c)
  PROVE  Recorded(c)
<1>1. ASSUME doc'.people = doc.people, doc'.metadata = doc.metadata PROVE Recorded(c)
  BY <1>1 DEF Recorded
<1>2. ASSUME NEW g \in Pair, NEW v \in GrantRecord \cup {None}, doc' = [doc EXCEPT !.grants[g] = v]
      PROVE Recorded(c)
  BY <1>1, <1>2, GrantOnly
<1>3. ASSUME NEW p \in Person, NEW v \in Pin, doc' = SetAuthority(doc, p, v) PROVE Recorded(c)
  BY <1>1, <1>3, AuthorityOnly DEF SetAuthority
<1>4. ASSUME NEW r, NEW v, doc' = [doc EXCEPT !.requests[r] = v] PROVE Recorded(c)
  <2>1. doc'.people = doc.people /\ doc'.metadata = doc.metadata
    BY <1>4 DEF DocOK, Document
  <2> QED BY <1>1, <2>1
<1>5. ASSUME doc' = doc PROVE Recorded(c)
  BY <1>1, <1>5
<1>6. ASSUME NEW g \in Pair, NEW v \in MetadataRecord \cup {None}, doc' = [doc EXCEPT !.metadata[g] = v],
             g = Here(c),
             call[c].pc \in {"metadata", "undo_metadata", "unrecord"}
      PROVE  Recorded(c)
  BY <1>6, MetadataOnly DEF Recorded
<1>7. ASSUME Prepare(c) PROVE Recorded(c)
  <2>0. call[c].pc = "core" /\ call[c].pc \in ProvisionPc
    BY <1>7 DEF Prepare, At, ProvisionPc
  <2>1. PICK r \in Request : r = call[c].request
    <3>1. call[c].request # None
      BY <2>0, Provisions DEF SteadyGift, Recording
    <3> QED BY <2>0, <3>1, Places
  <2>2. PICK cred \in Pin : cred = call[c].cred
    BY <2>0, Places
  <2>3. doc' = Prepared(doc, r, cred) /\ Valid(doc') /\ MayPrepare(doc, r, cred, call[c].made)
    BY <1>7, <2>1, <2>2 DEF Prepare
  <2>4. Asked[r].kind = "create" \/ doc.people[Asked[r].person] # None
    BY <2>3 DEF MayPrepare, MayAssign
  <2>5. doc'.metadata = doc.metadata
    BY <2>3, <2>4, Preparing
  <2> QED BY <1>7, <2>5 DEF Recorded
<1>8. ASSUME NEW p \in Person, DeletePerson(c, p) PROVE Recorded(c)
  <2>1. doc' = RemovePerson(doc, p)
    BY <1>8 DEF DeletePerson
  <2>4. /\ doc'.people = [doc.people EXCEPT ![p] = None]
        /\ \A g \in Pair : doc'.metadata[g] = IF g[1] = p THEN None ELSE doc.metadata[g]
    <3>1. /\ doc'.people = [doc.people EXCEPT ![p] = None]
          /\ \A g \in Pair : /\ doc'.grants[g] = IF g[1] = p THEN None ELSE doc.grants[g]
                             /\ doc'.metadata[g] = IF g[1] = p THEN None ELSE doc.metadata[g]
      BY <2>1, Deleted
    <3> QED BY <3>1
  <2>2. /\ doc'.people = [doc.people EXCEPT ![p] = None]
        /\ \A g \in Pair : g[1] # p => doc'.metadata[g] = doc.metadata[g]
    BY <2>4
  <2>3. doc'.people[p] = None /\ \A q \in Person : q # p => doc'.people[q] = doc.people[q]
    BY <2>2 DEF DocOK, Document
  <2> QED BY <1>8, <2>2, <2>3 DEF Recorded
<1>9. ASSUME RecordMetadata(c) PROVE Recorded(c)
  <2>0. call[c].pc = "metadata" /\ call[c].pc \in ProvisionPc /\ call[c].pc \in Recording
    BY <1>9 DEF RecordMetadata, Record, At, ProvisionPc, Recording
  <2>1. PICK g \in Pair, cred \in Pin : g = Here(c) /\ cred = call[c].cred
    BY <2>0, Places
  <2>2. CASE doc' = UpsertMetadata(doc, g, cred, "synchronized")
    <3>1. PICK v \in MetadataRecord : v = [cred |-> cred, status |-> "synchronized"]
      BY DEF MetadataRecord
    <3>2. doc' = [doc EXCEPT !.metadata[g] = v]
      BY <2>2, <3>1 DEF UpsertMetadata
    <3> QED BY <1>6, <2>0, <2>1, <3>2
  <2>3. CASE doc' = doc
    BY <2>3, <1>5
  <2> QED BY <1>9, <2>1, <2>2, <2>3 DEF RecordMetadata, Record
<1>10. ASSUME RecordGrant(c) PROVE Recorded(c)
  <2>0. call[c].pc = "grant" /\ call[c].pc \in ProvisionPc /\ call[c].pc \in Recording
    BY <1>10 DEF RecordGrant, At, ProvisionPc, Recording
  <2>1. PICK g \in Pair, cred \in Pin : g = Here(c) /\ cred = call[c].cred
    BY <2>0, Places
  <2>2. CASE doc' = InheritGrant(doc, g, cred)
    <3>1. [schedule |-> doc.people[g[1]].default, cred |-> cred] \in GrantRecord
      <4>1. g[1] = call[c].person /\ g[1] \in Person /\ doc.people[g[1]] # None
        BY <1>10, <2>1, Pairs DEF RecordGrant, Here
      <4> QED BY <4>1 DEF DocOK, Document, PersonRecord, GrantRecord
    <3>2. PICK v \in GrantRecord : v = [schedule |-> doc.people[g[1]].default, cred |-> cred]
      BY <3>1
    <3>3. doc' = [doc EXCEPT !.grants[g] = v]
      BY <2>2, <3>2 DEF InheritGrant, UpsertGrant
    <3> QED BY <3>3, <1>2
  <2>3. CASE doc' = doc
    BY <2>3, <1>5
  <2> QED BY <1>10, <2>1, <2>2, <2>3 DEF RecordGrant, Record
<1>11. ASSUME RecordAuthority(c) PROVE Recorded(c)
  <2>0. call[c].pc = "authority" /\ call[c].pc \in ProvisionPc
    BY <1>11 DEF RecordAuthority, At, ProvisionPc
  <2>1. PICK p \in Person, cred \in Pin : p = call[c].person /\ cred = call[c].cred
    BY <2>0, Places
  <2> QED BY <1>3, <1>5, <1>11, <2>1 DEF RecordAuthority
<1>12. ASSUME UndoGrant(c) PROVE Recorded(c)
  <2>0. call[c].pc = "undo_grant" /\ call[c].pc \in ProvisionPc /\ call[c].pc \in Recording
    BY <1>12 DEF UndoGrant, At, ProvisionPc, Recording
  <2>1. PICK g \in Pair : g = Here(c)
    BY <2>0, Places
  <2> QED BY <1>2, <1>12, <2>1 DEF UndoGrant, RemoveGrant
<1>13. ASSUME UndoMetadata(c) \/ Unrecord(c) PROVE Recorded(c)
  <2>0. call[c].pc \in ProvisionPc /\ call[c].pc \in Recording \cup {"unrecord"}
        /\ call[c].pc \in {"undo_metadata", "unrecord"}
    BY <1>13 DEF UndoMetadata, Unrecord, At, ProvisionPc, Recording
  <2>1. PICK g \in Pair : g = Here(c)
    BY <2>0, Places
  <2> QED BY <1>6, <1>13, <2>0, <2>1 DEF UndoMetadata, Unrecord, RemoveMetadata
<1>14. ASSUME UndoAuthority(c) \/ \E removed \in BOOLEAN : GiveFails(c, removed) PROVE Recorded(c)
  <2>0. call[c].pc \in ProvisionPc /\ None \in Pin
    BY <1>14 DEF UndoAuthority, GiveFails, At, ProvisionPc, Pin
  <2>1. PICK p \in Person : p = call[c].person
    BY <2>0, Places
  <2>2. doc' = doc \/ doc' = SetAuthority(doc, p, None)
    BY <1>14, <2>1 DEF UndoAuthority, GiveFails
  <2> QED BY <1>3, <1>5, <2>0, <2>2
<1>15. ASSUME NEW x \in Door, TakeBack(c, x) PROVE Recorded(c)
  <2>0. call[c].pc \in ProvisionPc
    BY <1>15 DEF TakeBack, At, ProvisionPc
  <2>1. PICK g \in Pair : g = <<call[c].person, x>>
    BY <2>0, Places, Pairs
  <2> QED BY <1>2, <1>15, <2>1 DEF TakeBack, RemoveGrant
<1>16. ASSUME NEW x \in Door, LeaveMarked(c, x) PROVE Recorded(c)
  <2>0. call[c].pc \in ProvisionPc
    BY <1>16 DEF LeaveMarked, At, ProvisionPc
  <2>1. PICK g \in Pair : g = <<call[c].person, x>>
    BY <2>0, Places, Pairs
  <2>2. doc' = [doc EXCEPT !.metadata[g].status = "attention"]
    BY <1>16, <2>1 DEF LeaveMarked
  <2>3. doc'.people = doc.people /\ \A h \in Pair : h # g => doc'.metadata[h] = doc.metadata[h]
    BY <2>2 DEF DocOK, Document
  <2> QED BY <1>16, <2>1, <2>3 DEF Recorded
<1>17. ASSUME MarkProvisioning(c) \/ SaveResult(c) PROVE Recorded(c)
  <2>1. CASE MarkProvisioning(c)
    <3>1. doc'.people = doc.people /\ doc'.metadata = doc.metadata
      BY <2>1 DEF MarkProvisioning, DocOK, Document
    <3> QED BY <1>1, <3>1
  <2>2. CASE SaveResult(c)
    BY <1>4, <2>2, Zenon DEF SaveResult
  <2> QED BY <1>17, <2>1, <2>2
<1>18. ASSUME \/ \E r \in Request : Submit(c, r) \/ Repeat(c, r)
              \/ \E works \in BOOLEAN : Discard(c, works)
              \/ \E p \in Person, x \in Door : Give(c, p, x)
              \/ \E x \in Door : Program(c, x)
              \/ StoreSecret(c) \/ PrepareFails(c) \/ AnswerAgain(c) \/ NothingToDo(c) \/ FinishFails(c)
              \/ CheckAdditions(c) \/ Refuse(c) \/ RecordNoGrant(c) \/ UndoFails(c) \/ TakenBack(c)
              \/ AllAdded(c) \/ NotAdded(c) \/ SaveFails(c)
       PROVE  Recorded(c)
  <2>1. doc' = doc
    BY <1>18, Zenon DEF Submit, Repeat, Begin, Give, Program, Discard, StoreSecret, PrepareFails, AnswerAgain,
       NothingToDo, FinishFails, CheckAdditions, Refuse, RecordNoGrant, UndoFails, TakenBack, AllAdded,
            NotAdded, SaveFails
  <2> QED BY <1>5, <2>1
<1> QED BY <1>7, <1>8, <1>9, <1>10, <1>11, <1>12, <1>13, <1>14, <1>15, <1>16, <1>17, <1>18 DEF SetUp

\* That the PIN works at a door is true as long as the person is there.
Tells(p, x) == doc.people[p] # None => Works(doc, p, x)
Asker(r) == Asked[r.request].person

\* The doors that the answer of a set-up is going to name.
Told(r) ==
  IF r.pc = "save" THEN r.answer.added
  ELSE r.done \cup (IF r.pc \in {"grant", "authority"} THEN {r.door} ELSE {})

AnswersInv ==
  \A c \in Caller : Sets(call[c]) =>
    /\ Asker(call[c]) \in drawn
    /\ \A x \in Told(call[c]) \ met : Tells(Asker(call[c]), x)

\* A step of a set-up adds to what is told only what works.
Fate(c) ==
  Sets(call'[c]) =>
    \/ /\ Told(call'[c]) = {}
       /\ \/ Asker(call'[c]) \in drawn
          \/ Sets(call[c]) /\ call'[c].request = call[c].request
    \/ /\ Sets(call[c]) /\ call'[c].request = call[c].request /\ call[c].pc # "core"
       /\ \A x \in Told(call'[c]) :
            \/ Works(doc', Asker(call[c]), x)
            \/ /\ x \in Told(call[c]) /\ ~LeaveMarked(c, x)
               /\ call[c].pc \in {"metadata", "undo_metadata", "unrecord"} => x # call[c].door

\* A set-up works for the person of its request, and tells only of its own doors.
LEMMA Askers ==
  ASSUME Assumptions, CallTypes, Calls, NEW c \in Caller, Sets(call[c])
  PROVE  /\ call[c].request \in Request /\ Asker(call[c]) \in Person
         /\ Told(call[c]) \subseteq Doors(call[c]) /\ Told(call[c]) \subseteq Door
         /\ call[c].pc \in ProvisionPc => call[c].person = Asker(call[c])
<1>0. call[c] \in CallRecord /\ Coherent(call[c]) /\ Doors(call[c]) \subseteq Door
  BY Fields DEF CallTypes, Calls
<1>1. CASE call[c].pc \in ProvisionPc
  <2>1. call[c].pc # "save" /\ call[c].request # None
    BY <1>1 DEF ProvisionPc, Sets
  <2>2. call[c].request \in Request /\ Steady(call[c]) /\ SteadySetUp(call[c]) /\ Doors(call[c]) = call[c].doors
    BY <1>1, <2>1, Places, Provisions
  <2>3. call[c].pc \in {"grant", "authority"} => call[c].door \in call[c].doors
    BY <1>1, Places DEF Recording
  <2>4. Told(call[c]) \subseteq Doors(call[c])
    BY <2>1, <2>2, <2>3 DEF Told, Steady
  <2> QED BY <1>0, <2>2, <2>4, Constants DEF Asker, SteadySetUp
<1>2. CASE call[c].pc = "save"
  <2>1. call[c].request \in Request
    BY <1>0, <1>2, Shapes
  <2>2. call[c].answer.added \subseteq call[c].doors /\ Doors(call[c]) = call[c].doors
    BY <1>0, <1>2, Fields DEF Coherent
  <2>3. call[c].pc \notin ProvisionPc
    BY <1>2 DEF ProvisionPc
  <2> QED BY <1>0, <1>2, <2>1, <2>2, <2>3, Constants DEF Asker, Told
<1> QED BY <1>1, <1>2 DEF Sets, Busy

\* What a call that goes on tells of doors that it leaves alone.
LEMMA FateOn ==
  ASSUME Assumptions, CallTypes, Calls, NEW c \in Caller, Carries(c), call[c].pc # "core",
         call'[c].done \subseteq call[c].done, call'[c].pc \notin {"grant", "authority"},
         \A x \in call'[c].done : ~LeaveMarked(c, x)
  PROVE  Fate(c)
<1> SUFFICES ASSUME Sets(call'[c]) PROVE Fate(c)
  BY DEF Fate
<1>1. /\ call[c].pc \in ProvisionPc /\ call[c].pc # "save" /\ call'[c].pc # "save"
      /\ call'[c].request = call[c].request
  BY DEF Carries, Provision, ProvisionPc
<1>2. Sets(call[c]) /\ Steady(call[c])
  BY <1>1, Provisions DEF Sets, Busy
<1>3. Told(call'[c]) \subseteq call[c].done /\ call[c].done \subseteq Told(call[c])
  BY <1>1 DEF Told
<1>4. \A x \in Told(call'[c]) : ~LeaveMarked(c, x)
  BY <1>1 DEF Told
<1>5. call[c].pc \in {"metadata", "undo_metadata", "unrecord"} => call[c].door \notin call[c].done
  BY <1>2 DEF Steady, Recording
<1> QED BY <1>1, <1>2, <1>3, <1>4, <1>5 DEF Fate

\* The set-up is answered when its result is written.
LEMMA Readying ==
  ASSUME CallTypes, NEW c \in Caller, NEW state, NEW added, Ready(c, state, added)
  PROVE  call'[c].pc = "save" /\ call'[c].request = call[c].request /\ Told(call'[c]) = added
<1>1. call'[c] = [pc |-> "save", request |-> call[c].request, doors |-> call[c].doors,
                  answer |-> Answered(c, state, added)]
  BY DEF Ready, Becomes, CallTypes
<1>2. call'[c].pc = "save" /\ call'[c].request = call[c].request /\ call'[c].answer = Answered(c, state, added)
  BY <1>1
<1> QED BY <1>2 DEF Told, Answered

\* Every step of a set-up tells of a door as added only when its PIN works there.
LEMMA SetUpFates ==
  ASSUME Assumptions, DocOK, Drawn, CallTypes, Calls, stored \in Nat, NEW c \in Caller, SetUp(c)
  PROVE  Fate(c)
<1>0. call[c] \in CallRecord
  BY DEF CallTypes
<1>1. ASSUME ~Sets(call'[c]) PROVE Fate(c)
  BY <1>1 DEF Fate
<1>2. ASSUME Becomes(c, Free) PROVE Fate(c)
  <2>1. call'[c].pc = "free"
    BY <1>2, AtNoDoor DEF Free
  <2> QED BY <1>1, <2>1 DEF Sets, Busy, ProvisionPc
<1>3. ASSUME call[c].pc \in ProvisionPc, call[c].pc \notin {"core", "rollback"}, Carries(c),
             call'[c].done \subseteq call[c].done, call'[c].pc \notin {"grant", "authority"}
      PROVE  Fate(c)
  <2>1. \A x \in call'[c].done : ~LeaveMarked(c, x)
    BY <1>3 DEF LeaveMarked, At
  <2> QED BY <1>3, <2>1, FateOn
<1>4. ASSUME call[c].pc \in ProvisionPc, call[c].pc \notin {"core", "rollback"},
             NEW next \in ProvisionPc, next \notin {"grant", "authority"}, Goes(c, next)
      PROVE  Fate(c)
  <2>1. Carries(c) /\ SamePlace(c) /\ call'[c].pc = next
    BY <1>4, GoesFields
  <2> QED BY <1>3, <1>4, <2>1 DEF SamePlace
<1>5. ASSUME NEW r \in Request, Submit(c, r) \/ Repeat(c, r) PROVE Fate(c)
  <2>1. PICK pc \in {"secret", "core", "finish"}, cred \in Pin : Begin(c, r, pc, cred)
    <3>1. doc.authority[Asked[r].person] \in Pin /\ None \in Pin
      BY Constants DEF DocOK, Document, Pin
    <3>2. PICK v \in Pin : v = doc.authority[Asked[r].person]
      BY <3>1
    <3>3. CASE Repeat(c, r)
      BY <3>2, <3>3 DEF Repeat
    <3>4. CASE Submit(c, r)
      BY <3>1, <3>2, <3>4 DEF Submit
    <3> QED BY <1>5, <3>3, <3>4
  <2>2. call'[c] = [Provisioning(r, pc, Asked[r].person, Asked[r].doors) EXCEPT !.cred = cred]
    BY <2>1 DEF Begin, Begins, Becomes, CallTypes
  <2>3. call'[c] = [pc |-> pc, request |-> r, person |-> Asked[r].person, todo |-> Asked[r].doors, done |-> {},
                    door |-> None, had |-> {}, cred |-> cred, made |-> FALSE, doors |-> Asked[r].doors]
    BY <2>2 DEF Provisioning
  <2>4. Told(call'[c]) = {} /\ Asker(call'[c]) = Asked[r].person
    BY <2>3 DEF Told, Asker
  <2>5. Asked[r].person \in Person /\ (Asked[r].kind = "create" \/ doc.people[Asked[r].person] # None)
    BY <1>5, Constants DEF Submit, Repeat
  <2>6. Asked[r].person \in drawn
    <3>1. CASE Asked[r].kind = "create"
      BY <3>1 DEF Drawn, Awaited, Creating
    <3>2. CASE doc.people[Asked[r].person] # None
      BY <2>5, <3>2 DEF Drawn
    <3> QED BY <2>5, <3>1, <3>2
  <2> QED BY <2>4, <2>6 DEF Fate
<1>6. ASSUME NEW p \in Person, NEW y \in Door, Give(c, p, y) PROVE Fate(c)
  <2>1. call'[c] = [pc |-> "door", request |-> None, person |-> p, todo |-> {y}, done |-> {},
                    door |-> None, had |-> {}, cred |-> doc.authority[p], made |-> FALSE, doors |-> {y}]
    BY <1>6, GiveTurn, SMTT(20)
  <2>2. call'[c].request = None
    BY <2>1
  <2> QED BY <1>1, <2>2 DEF Sets
<1>7. ASSUME NEW p \in Person, DeletePerson(c, p) PROVE Fate(c)
  <2>1. call'[c].pc = "free"
    BY <1>7 DEF DeletePerson, AtOnce, At
  <2> QED BY <1>1, <2>1 DEF Sets, Busy, ProvisionPc
<1>8. ASSUME \/ AnswerAgain(c) \/ FinishFails(c) \/ SaveResult(c) \/ SaveFails(c)
             \/ (\E works \in BOOLEAN : Discard(c, works)) \/ (\E removed \in BOOLEAN : GiveFails(c, removed))
      PROVE  Fate(c)
  <2>1. Becomes(c, Free)
    BY <1>8 DEF AnswerAgain, FinishFails, SaveResult, SaveFails, Discard, GiveFails
  <2> QED BY <2>1, <1>2
<1>9. ASSUME StoreSecret(c) PROVE Fate(c)
  <2>1. /\ At(c, "secret") /\ Carries(c) /\ SamePlace(c)
        /\ call'[c].pc = IF call[c].request # None THEN "core" ELSE "metadata"
    BY <1>9, Secreting
  <2>2. call[c].pc = "secret" /\ call[c].pc \in ProvisionPc /\ call'[c].pc \notin {"grant", "authority"}
    BY <2>1 DEF At, ProvisionPc
  <2> QED BY <1>3, <2>1, <2>2 DEF SamePlace
<1>10. ASSUME Prepare(c) \/ PrepareFails(c) PROVE Fate(c)
  <2>1. call[c].pc = "core" /\ call[c].pc \in ProvisionPc
    BY <1>10 DEF Prepare, PrepareFails, At, ProvisionPc
  <2>2. CASE Becomes(c, Free)
    BY <1>2, <2>2
  <2>3. ASSUME NEW next \in {"finish", "discard"}, Goes(c, next) PROVE Fate(c)
    <3>1. next \in ProvisionPc
      BY DEF ProvisionPc
    <3>2. Carries(c) /\ SamePlace(c) /\ call'[c].pc = next
      BY <2>1, <2>3, <3>1, GoesFields
    <3>3. call[c].request # None /\ SteadySetUp(call[c])
      BY <2>1, Provisions DEF SteadyGift, Recording
    <3>4. Told(call'[c]) = {}
      BY <2>1, <3>2, <3>3 DEF SteadySetUp, Early, SamePlace, Told
    <3>5. Sets(call[c]) /\ call'[c].request = call[c].request
      BY <2>1, <3>2, <3>3 DEF Sets, Busy, Carries
    <3> QED BY <3>4, <3>5 DEF Fate
  <2> QED BY <1>10, <2>2, <2>3 DEF Prepare, PrepareFails
<1>11. ASSUME NothingToDo(c) PROVE Fate(c)
  <2>1. PICK state : Ready(c, state, {})
    BY <1>11 DEF NothingToDo
  <2>2. Told(call'[c]) = {} /\ call'[c].request = call[c].request /\ call'[c].pc = "save"
    BY <2>1, Readying
  <2>3. call[c].pc \in ProvisionPc /\ call[c].pc = "finish"
    BY <1>11 DEF NothingToDo, At, ProvisionPc
  <2>4. call[c].request # None
    BY <2>3, Provisions DEF SteadyGift, Recording
  <2> QED BY <2>2, <2>3, <2>4 DEF Fate, Sets, Busy
<1>12. ASSUME AllAdded(c) PROVE Fate(c)
  <2>1. PICK state : Ready(c, state, call[c].done)
    BY <1>12 DEF AllAdded
  <2>2. Told(call'[c]) = call[c].done /\ call'[c].request = call[c].request
    BY <2>1, Readying
  <2>3. call[c].pc \in ProvisionPc /\ call[c].pc = "door" /\ call[c].request # None
    BY <1>12 DEF AllAdded, At, ProvisionPc, SettingUp
  <2>4. \A x \in call[c].done : x \in Told(call[c]) /\ ~LeaveMarked(c, x)
    BY <2>3 DEF Told, LeaveMarked, At
  <2> QED BY <2>2, <2>3, <2>4 DEF Fate, Sets, Busy
<1>13. ASSUME NotAdded(c) PROVE Fate(c)
  <2>0. call[c].pc \in ProvisionPc /\ call[c].pc = "failed"
    BY <1>13 DEF NotAdded, At, ProvisionPc
  <2>1. PICK state,
       xs : xs = AddedOf(doc, call[c].person, Wanted(c).doors \ call[c].had) /\ Ready(c, state, xs)
    BY <1>13 DEF NotAdded
  <2>2. Told(call'[c]) = xs /\ call'[c].request = call[c].request
    BY <2>1, Readying
  <2>3. call[c].request # None
    BY <2>0, Provisions DEF SteadyGift, Recording
  <2>4. Sets(call[c]) /\ call[c].person = Asker(call[c])
    <3>1. Sets(call[c])
      BY <2>0, <2>3 DEF Sets, Busy
    <3> QED BY <2>0, <3>1, Askers
  <2>5. \A x \in xs : Works(doc', Asker(call[c]), x)
    <3>1. doc' = doc
      BY <1>13 DEF NotAdded
    <3> QED BY <2>1, <2>4, <3>1 DEF AddedOf
  <2> QED BY <2>0, <2>2, <2>4, <2>5 DEF Fate
<1>14. ASSUME MarkProvisioning(c) PROVE Fate(c)
  <2>1. At(c, "finish") /\ Carries(c) /\ SamePlace(c) /\ call'[c].pc = "check"
    BY <1>14, Marking
  <2>2. call[c].pc = "finish" /\ call[c].pc \in ProvisionPc
    BY <2>1 DEF At, ProvisionPc
  <2> QED BY <1>3, <2>1, <2>2 DEF SamePlace
<1>15. ASSUME CheckAdditions(c) PROVE Fate(c)
  <2>1. /\ At(c, "check") /\ Carries(c) /\ call'[c].done = call[c].done /\ call'[c].pc \in {"door", "failed"}
    BY <1>15, Checking
  <2>2. call[c].pc = "check" /\ call[c].pc \in ProvisionPc
    BY <2>1 DEF At, ProvisionPc
  <2> QED BY <1>3, <2>1, <2>2
<1>16. ASSUME NEW x \in Door, Program(c, x) PROVE Fate(c)
  <2>1. /\ At(c, "door") /\ Carries(c) /\ call'[c].done = call[c].done
        /\ call'[c].pc = IF call[c].cred = None THEN "secret" ELSE "metadata"
    BY <1>16, Programming
  <2>2. call[c].pc = "door" /\ call[c].pc \in ProvisionPc /\ call'[c].pc \notin {"grant", "authority"}
    BY <2>1 DEF At, ProvisionPc
  <2> QED BY <1>3, <2>1, <2>2
<1>17. ASSUME Refuse(c) \/ UndoGrant(c) \/ UndoMetadata(c) \/ UndoAuthority(c) \/ UndoFails(c)
              \/ RecordNoGrant(c)
       PROVE  Fate(c)
  <2>1. call[c].pc \in ProvisionPc /\ call[c].pc \notin {"core", "rollback"}
    BY <1>17 DEF Refuse, UndoGrant, UndoMetadata, UndoAuthority, UndoFails, RecordNoGrant, At,
       ProvisionPc
  <2>2. \/ Becomes(c, Free)
        \/ \E next \in {"rollback", "undo_grant", "undo_metadata", "undo_authority"} : Goes(c, next)
    BY <1>17 DEF Refuse, UndoGrant, UndoMetadata, UndoAuthority, UndoFails, RecordNoGrant
  <2>3. ASSUME NEW next \in {"rollback", "undo_grant", "undo_metadata", "undo_authority"}, Goes(c, next)
        PROVE Fate(c)
    <3>1. next \in ProvisionPc /\ next \notin {"grant", "authority"}
      BY DEF ProvisionPc
    <3> QED BY <1>4, <2>1, <2>3, <3>1
  <2> QED BY <1>2, <2>2, <2>3
<1>18. ASSUME TakenBack(c) PROVE Fate(c)
  <2>1. call[c].pc = "rollback" /\ call[c].pc \in ProvisionPc /\ "failed" \in ProvisionPc /\ Goes(c, "failed")
    BY <1>18 DEF TakenBack, At, ProvisionPc
  <2>2. Carries(c) /\ SamePlace(c) /\ call'[c].pc = "failed"
    BY <2>1, GoesFields
  <2>3. \A x \in call'[c].done : ~LeaveMarked(c, x)
    <3>1. ASSUME NEW x \in call'[c].done, LeaveMarked(c, x) PROVE FALSE
      BY <1>18, <3>1 DEF TakenBack, LeaveMarked
    <3> QED BY <3>1
  <2> QED BY <2>1, <2>2, <2>3, FateOn DEF SamePlace
<1>19. ASSUME Unrecord(c) \/ \E x \in Door : TakeBack(c, x) PROVE Fate(c)
  <2>1. /\ Carries(c) /\ call[c].pc \in {"rollback", "unrecord"} /\ call'[c].pc \in {"rollback", "unrecord"}
        /\ call'[c].done \subseteq call[c].done
    <3>1. CASE Unrecord(c)
      BY <3>1, Undoing DEF At
    <3>2. ASSUME NEW x \in Door, TakeBack(c, x)
          PROVE  /\ Carries(c) /\ call[c].pc \in {"rollback", "unrecord"}
                 /\ call'[c].pc \in {"rollback", "unrecord"}
                 /\ call'[c].done \subseteq call[c].done
      BY <3>2, Undoing DEF At
    <3> QED BY <1>19, <3>1, <3>2
  <2>2. \A x \in call'[c].done : ~LeaveMarked(c, x)
    <3>1. CASE Unrecord(c)
      BY <3>1 DEF Unrecord, LeaveMarked, At
    <3>2. ASSUME NEW x \in Door, TakeBack(c, x), NEW y \in call'[c].done PROVE ~LeaveMarked(c, y)
      <4>1. call'[c].pc = "unrecord"
        BY <3>2, Undoing
      <4>2. ASSUME LeaveMarked(c, y) PROVE FALSE
        <5>1. y \in Door
          BY <2>1, <3>2 DEF Carries, Provision
        <5>2. call'[c].pc = "rollback"
          BY <4>2, <5>1, Undoing
        <5> QED BY <4>1, <5>2
      <4> QED BY <4>2
    <3> QED BY <1>19, <3>1, <3>2
  <2> QED BY <2>1, <2>2, FateOn
<1>20. ASSUME NEW x \in Door, LeaveMarked(c, x) PROVE Fate(c)
  <2>1. /\ At(c, "rollback") /\ Carries(c) /\ call'[c].pc = "rollback"
        /\ call'[c].done = call[c].done \ {x}
    BY <1>20, Undoing
  <2>2. \A y \in call'[c].done : ~LeaveMarked(c, y)
    <3>1. ASSUME NEW y \in call'[c].done, LeaveMarked(c, y) PROVE FALSE
      <4>1. y \in Door /\ y # x
        BY <2>1, <3>1 DEF Carries, Provision
      <4>2. call'[c].done = call[c].done \ {y}
        BY <3>1, <4>1, Undoing
      <4> QED BY <3>1, <4>2
    <3> QED BY <3>1
  <2>3. call[c].pc # "core"
    BY <2>1 DEF At
  <2> QED BY <2>1, <2>2, <2>3, FateOn
<1>21. ASSUME RecordMetadata(c) PROVE Fate(c)
  <2>0. call[c].pc = "metadata" /\ call[c].pc \in ProvisionPc /\ call[c].pc \in Recording
    BY <1>21 DEF RecordMetadata, Record, At, ProvisionPc, Recording
  <2>1. CASE Goes(c, "rollback")
    <3>1. "rollback" \in ProvisionPc
      BY DEF ProvisionPc
    <3> QED BY <1>4, <2>0, <2>1, <3>1
  <2>2. CASE doc' = UpsertMetadata(doc, Here(c), call[c].cred, "synchronized") /\ Goes(c, "grant")
    <3>1. "grant" \in ProvisionPc
      BY DEF ProvisionPc
    <3>2. Carries(c) /\ SamePlace(c) /\ call'[c].pc = "grant"
      BY <2>0, <2>2, <3>1, GoesFields
    <3> SUFFICES ASSUME Sets(call'[c]) PROVE Fate(c)
      BY DEF Fate
    <3>3. Sets(call[c]) /\ call'[c].request = call[c].request
      BY <2>0, <3>2 DEF Sets, Busy, Carries
    <3>4. Told(call'[c]) = call[c].done \cup {call[c].door} /\ call[c].done \subseteq Told(call[c])
      BY <2>0, <3>2 DEF Told, SamePlace
    <3>5. PICK g \in Pair, v \in MetadataRecord :
            /\ g = Here(c) /\ v = [cred |-> call[c].cred, status |-> "synchronized"]
            /\ doc' = [doc EXCEPT !.metadata[g] = v]
      <4>1. Here(c) \in Pair /\ call[c].cred \in Pin
        BY <2>0, Places
      <4>2. [cred |-> call[c].cred, status |-> "synchronized"] \in MetadataRecord
        BY <4>1 DEF MetadataRecord
      <4> QED BY <2>2, <4>1, <4>2 DEF UpsertMetadata
    <3>6. doc'.metadata[g] = v
      BY <3>5, MetadataOnly
    <3>7. v # None /\ v.status = "synchronized"
      BY <3>5, Constants
    <3>8. g = <<Asker(call[c]), call[c].door>>
      BY <2>0, <3>3, <3>5, Askers DEF Here
    <3>9. Works(doc', Asker(call[c]), call[c].door)
      BY <3>6, <3>7, <3>8 DEF Works
    <3>10. call[c].door \notin call[c].done
      BY <2>0, Provisions DEF Steady
    <3>11. \A x \in Told(call'[c]) : \/ Works(doc', Asker(call[c]), x)
                                     \/ /\ x \in Told(call[c]) /\ ~LeaveMarked(c, x)
                                        /\ x # call[c].door
      BY <2>0, <3>4, <3>9, <3>10 DEF LeaveMarked, At
    <3> QED BY <2>0, <3>3, <3>11 DEF Fate
  <2> QED BY <1>21, <2>1, <2>2 DEF RecordMetadata, Record
<1>22. ASSUME RecordGrant(c) PROVE Fate(c)
  <2>0. call[c].pc = "grant" /\ call[c].pc \in ProvisionPc
    BY <1>22 DEF RecordGrant, At, ProvisionPc
  <2>1. PICK next \in {"authority", "undo_grant"} : Goes(c, next)
    BY <1>22 DEF RecordGrant, Record
  <2>2. CASE next = "undo_grant"
    <3>1. "undo_grant" \in ProvisionPc
      BY DEF ProvisionPc
    <3> QED BY <1>4, <2>0, <2>1, <2>2, <3>1
  <2>3. CASE next = "authority"
    <3>1. "authority" \in ProvisionPc
      BY DEF ProvisionPc
    <3>2. Carries(c) /\ SamePlace(c) /\ call'[c].pc = "authority"
      BY <2>0, <2>1, <2>3, <3>1, GoesFields
    <3>3. Told(call'[c]) = Told(call[c])
      BY <2>0, <3>2 DEF Told, SamePlace
    <3>4. \A x : ~LeaveMarked(c, x)
      BY <2>0 DEF LeaveMarked, At
    <3> QED BY <2>0, <3>2, <3>3, <3>4 DEF Fate, Sets, Busy, Carries
  <2> QED BY <2>2, <2>3
<1>23. ASSUME RecordAuthority(c) PROVE Fate(c)
  <2>1. /\ At(c, "authority")
        /\ \/ Goes(c, "undo_grant")
           \/ Becomes(c, Free)
           \/ /\ Carries(c) /\ call'[c].pc = "door" /\ call'[c].done = call[c].done \cup {call[c].door}
    BY <1>23, Authorizing
  <2>2. call[c].pc = "authority" /\ call[c].pc \in ProvisionPc
    BY <2>1 DEF At, ProvisionPc
  <2>3. CASE Goes(c, "undo_grant")
    <3>1. "undo_grant" \in ProvisionPc
      BY DEF ProvisionPc
    <3> QED BY <1>4, <2>2, <2>3, <3>1
  <2>4. CASE Becomes(c, Free)
    BY <1>2, <2>4
  <2>5. CASE Carries(c) /\ call'[c].pc = "door" /\ call'[c].done = call[c].done \cup {call[c].door}
    <3>1. Told(call'[c]) = Told(call[c])
      BY <2>2, <2>5 DEF Told
    <3>2. \A x : ~LeaveMarked(c, x)
      BY <2>2 DEF LeaveMarked, At
    <3> QED BY <2>2, <2>5, <3>1, <3>2 DEF Fate, Sets, Busy, Carries
  <2> QED BY <2>1, <2>3, <2>4, <2>5
<1> QED BY <1>5, <1>6, <1>7, <1>8, <1>9, <1>10, <1>11, <1>12, <1>13, <1>14, <1>15, <1>16, <1>17, <1>18,
           <1>19,
       <1>20, <1>21, <1>22, <1>23 DEF SetUp

\* What the other set-up tells stays true, for it is at other doors.
LEMMA OthersTell ==
  ASSUME Assumptions, CallTypes, Calls, AnswersInv, NEW c \in Caller, Turn(c), drawn \subseteq drawn',
         \A g \in Pair : \/ doc'.metadata[g] = doc.metadata[g]
                         \/ g[2] \in Doors(call[c])
                         \/ doc'.people[g[1]] = None,
         (\E o \in Caller \ {c} : Sets(call[o])) =>
           \A p \in Person : p \in drawn /\ doc'.people[p] # None => doc.people[p] # None,
         NEW o \in Caller \ {c}, Sets(call'[o])
  PROVE  /\ Asker(call'[o]) \in drawn'
         /\ \A x \in Told(call'[o]) \ met' : Tells(Asker(call[o]), x)'
<1>1. call'[o] = call[o] /\ Sets(call[o])
  BY TurnsAlone
<1>2. PICK p \in Person : p = Asker(call[o]) /\ p \in drawn
  BY <1>1, Askers DEF AnswersInv
<1>3. ASSUME NEW x \in Told(call[o]) \ met', doc'.people[p] # None PROVE Works(doc', p, x)
  <2>1. x \in Door /\ x \in Doors(call[o]) /\ x \notin met
    BY <1>1, <1>3, Askers DEF Turn
  <2>2. x \notin Doors(call[c])
    BY <2>1 DEF Calls
  <2>3. Tells(p, x) /\ doc.people[p] # None
    BY <1>1, <1>2, <1>3, <2>1 DEF AnswersInv
  <2>4. <<p, x>> \in Pair
    BY <2>1, Pairs
  <2>5. doc'.metadata[<<p, x>>] = doc.metadata[<<p, x>>]
    BY <1>3, <2>2, <2>4
  <2> QED BY <2>3, <2>4, <2>5 DEF Tells, Works
<1>4. \A x \in Told(call[o]) \ met' : Tells(p, x)'
  BY <1>3 DEF Tells
<1> QED BY <1>1, <1>2, <1>4

\* A step of a call that sets nothing up.
LEMMA AnswersStay ==
  ASSUME Assumptions, CallTypes, Calls, AnswersInv, NEW c \in Caller, Turn(c), ~Sets(call'[c]),
         drawn \subseteq drawn',
         \A g \in Pair : doc'.metadata[g] = doc.metadata[g] \/ g[2] \in Doors(call[c]),
         \A p \in Person : doc'.people[p] # None => doc.people[p] # None \/ p \notin drawn
  PROVE  AnswersInv'
<1>1. ASSUME NEW o \in Caller, Sets(call'[o])
      PROVE  /\ Asker(call'[o]) \in drawn'
             /\ \A x \in Told(call'[o]) \ met' : Tells(Asker(call[o]), x)'
  <2>1. o \in Caller \ {c}
    BY <1>1
  <2>2. \A g \in Pair : doc'.metadata[g] = doc.metadata[g] \/ g[2] \in Doors(call[c])
        \/ doc'.people[g[1]] = None
    OBVIOUS
  <2>3. (\E a \in Caller \ {c} : Sets(call[a])) =>
          \A p \in Person : p \in drawn /\ doc'.people[p] # None => doc.people[p] # None
    OBVIOUS
  <2> QED BY <1>1, <2>1, <2>2, <2>3, OthersTell
<1> QED BY <1>1 DEF AnswersInv

\* A set-up keeps what the set-ups tell true.
LEMMA SetUpAnswers ==
  ASSUME Assumptions, DocOK, Drawn, CallTypes, Calls, Requests, stored \in Nat, AnswersInv,
         NEW c \in Caller, SetUp(c)
  PROVE  AnswersInv'
<1>1. Turn(c) /\ Recorded(c) /\ Fate(c)
  BY SetUpTurns, SetUpRecords, SetUpFates
<1>2. drawn \subseteq drawn'
  BY SetUpDocuments DEF Housed
<1>3. \A g \in Pair : doc'.metadata[g] = doc.metadata[g] \/ g[2] \in Doors(call[c]) \/ doc'.people[g[1]] = None
  <2>1. CASE doc'.metadata = doc.metadata
    BY <2>1
  <2>2. CASE /\ call[c].pc \in {"metadata", "undo_metadata", "unrecord"}
             /\ \A g \in Pair : g # Here(c) => doc'.metadata[g] = doc.metadata[g]
    <3>1. call[c].pc \in ProvisionPc /\ call[c].pc \in Recording \cup {"unrecord"}
      BY <2>2 DEF ProvisionPc, Recording
    <3>2. call[c].door \in Doors(call[c])
      BY <3>1, Places, Provisions
    <3> QED BY <2>2, <3>2 DEF Here
  <2>3. ASSUME NEW x \in Door, LeaveMarked(c, x),
               \A g \in Pair : g # <<call[c].person, x>> => doc'.metadata[g] = doc.metadata[g]
        PROVE  \A g \in Pair : doc'.metadata[g] = doc.metadata[g] \/ g[2] \in Doors(call[c])
    <3>1. call[c].pc \in ProvisionPc /\ x \in call[c].done \cup ({call[c].door} \ {None})
      BY <2>3 DEF LeaveMarked, At, ProvisionPc, Left
    <3>2. x \in Doors(call[c])
      BY <3>1, Places, Provisions, SMTT(40)
    <3> QED BY <2>3, <3>2
  <2>4. ASSUME NEW p \in Person, doc'.people[p] = None,
               \A g \in Pair : g[1] # p => doc'.metadata[g] = doc.metadata[g]
        PROVE  \A g \in Pair : doc'.metadata[g] = doc.metadata[g] \/ doc'.people[g[1]] = None
    BY <2>4
  <2> QED BY <1>1, <2>1, <2>2, <2>3, <2>4 DEF Recorded
<1>4. call[c].pc # "core" => \A p \in Person : doc'.people[p] # None => doc.people[p] # None
  BY <1>1 DEF Recorded, Prepare, At
<1>5. (\E o \in Caller \ {c} : Sets(call[o])) =>
        \A p \in Person : p \in drawn /\ doc'.people[p] # None => doc.people[p] # None
  <2>1. ASSUME NEW o \in Caller \ {c}, Sets(call[o]), call[c].pc = "core" PROVE FALSE
    <3>1. call[c].pc \in ProvisionPc
      BY <2>1 DEF ProvisionPc
    <3>2. Sets(call[c])
      BY <2>1, <3>1, Provisions DEF SteadyGift, Recording, Sets
    <3> QED BY <2>1, <3>2 DEF Calls
  <2> QED BY <1>4, <2>1
<1>6. ASSUME Sets(call'[c])
      PROVE  /\ Asker(call'[c]) \in drawn'
             /\ \A x \in Told(call'[c]) \ met' : Tells(Asker(call[c]), x)'
  <2>1. ASSUME Sets(call[c]), call'[c].request = call[c].request
        PROVE Asker(call'[c]) = Asker(call[c]) /\ Asker(call[c]) \in drawn
    BY <2>1 DEF Asker, AnswersInv
  <2>2. CASE /\ Told(call'[c]) = {}
             /\ Asker(call'[c]) \in drawn \/ (Sets(call[c]) /\ call'[c].request = call[c].request)
    <3>1. Asker(call'[c]) \in drawn
      BY <2>1, <2>2
    <3> QED BY <1>2, <2>2, <3>1
  <2>3. CASE /\ Sets(call[c]) /\ call'[c].request = call[c].request /\ call[c].pc # "core"
             /\ \A x \in Told(call'[c]) :
                  \/ Works(doc', Asker(call[c]), x)
                  \/ /\ x \in Told(call[c]) /\ ~LeaveMarked(c, x)
                     /\ call[c].pc \in {"metadata", "undo_metadata", "unrecord"} => x # call[c].door
    <3>1. PICK p \in Person : p = Asker(call[c]) /\ p = Asker(call'[c]) /\ p \in drawn
      BY <2>1, <2>3, Askers
    <3>2. ASSUME NEW x \in Told(call'[c]) \ met', doc'.people[p] # None PROVE Works(doc', p, x)
      <4>1. CASE Works(doc', Asker(call[c]), x)
        BY <3>1, <4>1
      <4>2. CASE /\ x \in Told(call[c]) /\ ~LeaveMarked(c, x)
                 /\ call[c].pc \in {"metadata", "undo_metadata", "unrecord"} => x # call[c].door
        <5>1. x \in Door /\ x \notin met /\ doc.people[p] # None
          BY <1>1, <1>4, <2>3, <3>2, <4>2, Askers DEF Turn
        <5>2. Works(doc, p, x)
          <6>1. \A y \in Told(call[c]) \ met : Tells(Asker(call[c]), y)
            BY <2>3 DEF AnswersInv
          <6>2. x \in Told(call[c]) \ met
            BY <4>2, <5>1
          <6>3. Tells(p, x)
            BY <3>1, <6>1, <6>2
          <6> QED BY <5>1, <6>3 DEF Tells
        <5>3. <<p, x>> \in Pair
          BY <5>1, Pairs
        <5>4. doc'.metadata[<<p, x>>] = doc.metadata[<<p, x>>]
          <6>1. ASSUME NEW y \in Door, LeaveMarked(c, y) PROVE <<p, x>> # <<call[c].person, y>>
            <7>1. y # x
              BY <4>2, <6>1
            <7> QED BY <7>1
          <6>2. call[c].pc \in {"metadata", "undo_metadata", "unrecord"} => <<p, x>> # Here(c)
            BY <4>2 DEF Here
          <6>3. ~Prepare(c)
            BY <2>3 DEF Prepare, At
          <6> QED BY <1>1, <3>2, <5>3, <6>1, <6>2, <6>3 DEF Recorded
        <5> QED BY <5>2, <5>3, <5>4 DEF Works
      <4> QED BY <2>3, <3>2, <4>1, <4>2
    <3>3. \A x \in Told(call'[c]) \ met' : Tells(p, x)'
      BY <3>2 DEF Tells
    <3> QED BY <1>2, <3>1, <3>3
  <2> QED BY <1>1, <1>6, <2>2, <2>3 DEF Fate
<1>7. ASSUME NEW o \in Caller \ {c}, Sets(call'[o])
      PROVE  /\ Asker(call'[o]) \in drawn'
             /\ \A x \in Told(call'[o]) \ met' : Tells(Asker(call[o]), x)'
  BY <1>1, <1>2, <1>3, <1>5, <1>7, OthersTell
<1> QED BY <1>6, <1>7 DEF AnswersInv

\* Every step keeps what the set-ups tell true.
LEMMA NextAnswers ==
  ASSUME Assumptions, Basis, AnswersInv, [Next]_vars
  PROVE  AnswersInv'
<1>0. DocOK /\ CallTypes /\ Calls /\ Drawn /\ Requests /\ stored \in Nat
  BY DEF Basis, Secrets
<1>1. ASSUME NEW c \in Caller, Serve(c), UNCHANGED <<doors, setup>> PROVE AnswersInv'
  <2>1. Turn(c) /\ ~Busy(call'[c])
    BY <1>0, <1>1, ServeTurns DEF DocOK
  <2>2. Elsewhere(c)
    BY <1>0, <1>1, ServeDocuments
  <2>3. \A g \in Pair : doc'.metadata[g] = doc.metadata[g] \/ g[2] \in Doors(call[c])
    <3>1. Leaves(c)
      BY <1>0, <1>1, ServeKeeps
    <3>2. ASSUME ForgetMetadata(c) PROVE call[c].grant[2] \in Doors(call[c])
      <4>1. call[c].pc = "forget" /\ call[c] \in CallRecord /\ Coherent(call[c])
        BY <1>0, <3>2 DEF ForgetMetadata, At, CallTypes, Calls
      <4> QED BY <4>1, Fields DEF Coherent
    <3> QED BY <3>1, <3>2 DEF Leaves
  <2>4. ~Sets(call'[c]) /\ drawn \subseteq drawn'
        /\ \A p \in Person : doc'.people[p] # None => doc.people[p] # None \/ p \notin drawn
    BY <2>1, <2>2 DEF Sets, Elsewhere
  <2> QED BY <1>0, <2>1, <2>3, <2>4, AnswersStay
<1>2. ASSUME NEW c \in Caller, Equip(c), UNCHANGED setup PROVE AnswersInv'
  <2>1. Turn(c) /\ ~Busy(call'[c])
    BY <1>0, <1>2, EquipTurns
  <2>2. Furnished /\ drawn \subseteq drawn'
    BY <1>0, <1>2, EquipDocuments
  <2>3. ~Sets(call'[c])
    BY <2>1 DEF Sets
  <2> QED BY <1>0, <2>1, <2>2, <2>3, AnswersStay DEF Furnished
<1>3. ASSUME NEW c \in Caller, SetUp(c) PROVE AnswersInv'
  BY <1>0, <1>3, SetUpAnswers
<1>4. ASSUME RestartHome PROVE AnswersInv'
  <2>1. \A c \in Caller : ~Sets(call'[c])
    BY <1>0, <1>4, RestartCalls DEF RestartHome, Sets
  <2> QED BY <2>1 DEF AnswersInv
<1>5. ASSUME UNCHANGED vars PROVE AnswersInv'
  BY <1>5 DEF vars, registry, AnswersInv, Tells
<1> QED BY <1>1, <1>2, <1>3, <1>4, <1>5 DEF Next

\* That what the set-ups tell is true is an invariant.
LEMMA AnswersAlways == Spec => []AnswersInv
<1>1. Init => AnswersInv
  <2> SUFFICES ASSUME Init PROVE AnswersInv
    OBVIOUS
  <2>1. \A c \in Caller : call[c] = Free
    BY DEF Init
  <2> QED BY <2>1 DEF AnswersInv, Sets, Busy, ProvisionPc, Free
<1>2. Basis /\ AnswersInv /\ [Next]_vars => AnswersInv'
  BY Assumptions, NextAnswers
<1> QED BY <1>1, <1>2, BasisAlways, PTL DEF Spec

\* What a step answers for the first time names only doors where the PIN works.
LEMMA FirstAnswers ==
  ASSUME Assumptions, Basis, AnswersInv, Next,
         NEW a \in answers' \ answers, ~\E b \in answers : b.request = a.request,
              NEW x \in a.added \ met,
         doc.people[Asked[a.request].person] # None
  PROVE  Works(doc, Asked[a.request].person, x)
<1>0. CallTypes /\ Calls /\ Requests
  BY DEF Basis
<1>1. ASSUME answers' = answers PROVE FALSE
  BY <1>1
<1>2. PICK c \in Caller : SetUp(c)
  BY <1>1 DEF Next, setup, RestartHome
<1>3. AnswerAgain(c) \/ SaveResult(c)
  <2>1. AnswerAgain(c) \/ SaveResult(c) \/ answers' = answers
    BY <1>2, Zenon DEF SetUp, Submit, Repeat, Begin, Give, Program, Discard, StoreSecret, PrepareFails, kept,
       setup,
       NothingToDo, FinishFails, CheckAdditions, Refuse, RecordNoGrant, UndoFails, TakenBack, Prepare,
       AllAdded, NotAdded, SaveFails, MarkProvisioning, RecordMetadata, RecordGrant, RecordAuthority,
       UndoGrant, UndoMetadata, UndoAuthority, Unrecord, TakeBack, LeaveMarked, GiveFails, DeletePerson
  <2> QED BY <1>1, <2>1, Zenon
<1>4. CASE AnswerAgain(c)
  <2>1. call[c].pc = "finish" /\ call[c].pc \in ProvisionPc
    BY <1>4 DEF AnswerAgain, At, ProvisionPc
  <2>2. Sets(call[c])
    BY <1>0, <2>1, Provisions DEF SteadyGift, Recording, Sets
  <2>3. PICK r \in Request : r = call[c].request
    BY <1>0, <2>2, Askers
  <2>4. doc.requests[r] # None /\ doc.requests[r].state \in Terminal
    BY <1>0, <1>4, <2>1, <2>2, <2>3 DEF Requests, AnswerAgain
  <2>5. [request |-> r, state |-> doc.requests[r].state, added |-> doc.requests[r].added] \in answers
    BY <1>0, <2>4 DEF Requests
  <2>6. a = [request |-> r, state |-> doc.requests[r].state, added |-> doc.requests[r].added]
    BY <1>4, <2>3 DEF AnswerAgain, Answered
  <2> QED BY <2>5, <2>6
<1>5. CASE SaveResult(c)
  <2>1. call[c].pc = "save" /\ call[c] \in CallRecord /\ Coherent(call[c]) /\ a = call[c].answer
    BY <1>0, <1>5 DEF SaveResult, At, CallTypes, Calls
  <2>2. a.request = call[c].request /\ Told(call[c]) = a.added
    BY <2>1 DEF Coherent, Told
  <2>3. Sets(call[c])
    <3>1. call[c].request \in Request
      BY <2>1, Shapes
    <3> QED BY <2>1, <3>1, Constants DEF Sets, Busy
  <2> QED BY <2>2, <2>3 DEF AnswersInv, Tells, Asker
<1> QED BY <1>3, <1>4, <1>5

\* AnswersTrue: an answer that is given for the first time names a door as added only if the PIN works
\* there, unless another call was at that door or the person was deleted.
THEOREM AnswersTrueAlways == Spec => AnswersTrue
<1>1. Basis /\ AnswersInv /\ [Next]_vars =>
        [\A a \in answers' \ answers : ~(\E b \in answers : b.request = a.request) =>
           \A x \in a.added \ met : LET p == Asked[a.request].person
                              IN doc.people[p] # None => Works(doc, p, x)]_vars
  BY Assumptions, FirstAnswers
<1> QED BY <1>1, BasisAlways, AnswersAlways, PTL DEF Spec, AnswersTrue
==============================================================================
