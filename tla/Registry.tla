------------------------------ MODULE Registry ------------------------------
(***************************************************************************)
(* People, schedules and grants: the services that edit them.  A call      *)
(* reads a copy, and writes in a later transaction; others may write in    *)
(* between, for a reader waits while a transaction holds the lock.         *)
(***************************************************************************)
EXTENDS HomeDocument

CONSTANTS
  Caller        \* calls served at a time

VARIABLES
  doc,          \* the document
  call,         \* of each caller the call under way
  may,          \* what is going to be asked of this home
  drawn,        \* history: identifiers drawn, at random or from a request's
  meant,        \* history: what the last decision about each grant allows
  stale,        \* history: grants overwritten from an older copy since
  met           \* history: doors at which two calls met

registry == <<doc, call, may, drawn, meant, stale, met>>
hours == <<meant, stale>>

Free == [pc |-> "free"]
At(c, pc) == call[c].pc = pc
Becomes(c, next) == call' = [call EXCEPT ![c] = next]
Goes(c, pc) == Becomes(c, [call[c] EXCEPT !.pc = pc])
Allowed(what) == may[what] > 0
Uses(what) == may' = [may EXCEPT ![what] = @ - 1]

Doors(record) == IF "doors" \in DOMAIN record THEN record.doors ELSE {}

\* A call begins; it meets the calls under way at its doors.
Begins(c, what, record) ==
  /\ At(c, "free") /\ Allowed(what) /\ Uses(what)
  /\ Becomes(c, record)
  /\ met' = met \cup (Doors(record) \cap UNION {Doors(call[o]) : o \in Caller \ {c}})

\* A transaction is saved if the document is valid, or raises.
Saves(d) == doc' = IF Valid(d) THEN d ELSE doc

AtOnce(c, what) == At(c, "free") /\ Allowed(what) /\ Uses(what)

(***************************************************************************)
(* PersonService and PersonRepository.                                     *)
(***************************************************************************)
CreatePerson(c, p) ==
  /\ AtOnce(c, "people") /\ p \notin drawn
  /\ doc' = AddPerson(doc, p, Permanent)
  /\ drawn' = drawn \cup {p}
  /\ UNCHANGED <<call, hours, met>>

ReadPerson(c, p) ==
  /\ doc.people[p] # None
  /\ Begins(c, "people", [pc |-> "person", person |-> p, copy |-> doc.people[p]])
  /\ UNCHANGED <<doc, drawn, hours>>

\* The whole record is written, the copy of the schedule included.
WritePerson(c) ==
  LET p == call[c].person
      updated == [call[c].copy EXCEPT !.enabled = ~@, !.rev = doc.people[p].rev + 1]
  IN /\ At(c, "person")
     /\ IF doc.people[p] # None THEN Saves(UpdatePerson(doc, p, updated)) ELSE UNCHANGED doc
     /\ Becomes(c, Free)
     /\ UNCHANGED <<may, drawn, hours, met>>

(***************************************************************************)
(* ScheduleService: schedules that nobody has.                             *)
(***************************************************************************)
CreateSchedule(c, s, policy) ==
  /\ AtOnce(c, "schedules") /\ s \notin drawn
  /\ doc' = PutSchedule(doc, s, policy, 1)
  /\ drawn' = drawn \cup {s}
  /\ UNCHANGED <<call, hours, met>>

ReadSchedule(c, s) ==
  /\ doc.schedules[s] # None
  /\ Begins(c, "schedules", [pc |-> "schedule", schedule |-> s, copy |-> doc.schedules[s]])
  /\ UNCHANGED <<doc, drawn, hours>>

WriteSchedule(c, policy) ==
  LET s == call[c].schedule
      rev == call[c].copy.rev + (IF policy = call[c].copy.policy THEN 0 ELSE 1)
  IN /\ At(c, "schedule")
     /\ doc' = IF MayChange(doc, s) THEN PutSchedule(doc, s, policy, rev) ELSE doc
     /\ Becomes(c, Free)
     /\ UNCHANGED <<may, drawn, hours, met>>

DeleteSchedule(c, s) ==
  /\ AtOnce(c, "schedules") /\ MayChange(doc, s)
  /\ doc' = RemoveSchedule(doc, s)
  /\ UNCHANGED <<call, drawn, hours, met>>

(***************************************************************************)
(* PersonScheduleService.  The form shows one of a person's schedules and  *)
(* is saved for all the person's doors (None) or for some of them.         *)
(***************************************************************************)
Owned(d, p) == {d.people[p].default} \cup {d.grants[g].schedule : g \in GrantsOf(d, p)}

OpenForm(c, p, s) ==
  /\ doc.people[p] # None /\ s \in Owned(doc, p)
  /\ Begins(c, "forms", [pc |-> "form", person |-> p, rev |-> doc.people[p].rev,
                         schedule |-> s, srev |-> doc.schedules[s].rev])
  /\ UNCHANGED <<doc, drawn, hours>>

Selected(d, p, selection) ==
  IF selection = None THEN GrantsOf(d, p) ELSE {p} \X selection

MaySave(d, form, selection) ==
  LET p == form.person
  IN /\ d.people[p] # None /\ d.people[p].rev = form.rev
     /\ d.schedules[form.schedule] # None /\ d.schedules[form.schedule].rev = form.srev
     /\ form.schedule \in Owned(d, p)
     /\ selection # None => selection # {} /\ Selected(d, p, selection) \subseteq GrantsOf(d, p)

\* Mutant: the person's other doors are forgotten.
SharedWithOthers(d, p, s, selected) ==
  \/ \E q \in Person \ {p} : d.people[q] # None /\ d.people[q].default = s
  \/ \E g \in Pair : d.grants[g] # None /\ d.grants[g].schedule = s /\ g[1] # p

SharedOutside(d, p, s, selected) ==
  \/ \E q \in Person \ {p} : d.people[q] # None /\ d.people[q].default = s
  \/ \E g \in Pair \ selected : d.grants[g] # None /\ d.grants[g].schedule = s

\* The protected schedule, the one that is edited, or a new one.
Target(d, form, selected, policy, new) ==
  IF policy = Always THEN Permanent
  ELSE IF form.schedule = Permanent \/ SharedOutside(d, form.person, form.schedule, selected)
  THEN new
  ELSE form.schedule

Stored(d, form, target, policy) ==
  IF target = Permanent THEN d
  ELSE IF target = form.schedule
  THEN PutSchedule(d, target, policy, form.srev + (IF d.schedules[target].policy = policy THEN 0 ELSE 1))
  ELSE PutSchedule(d, target, policy, 1)

NextDefault(d, p, selection, selected, target) ==
  LET all == {IF g \in selected THEN target ELSE d.grants[g].schedule : g \in GrantsOf(d, p)}
  IN IF selection = None \/ Cardinality(all) = 1 THEN target ELSE d.people[p].default

SavedForm(d, form, selection, policy, new) ==
  LET p == form.person
      selected == Selected(d, p, selection)
      target == Target(d, form, selected, policy, new)
  IN [Stored(d, form, target, policy) EXCEPT
        !.people[p].default = NextDefault(d, p, selection, selected, target),
        !.people[p].rev = @ + 1,
        !.grants = [g \in Pair |->
           IF g \in selected THEN [d.grants[g] EXCEPT !.schedule = target] ELSE d.grants[g]]]

\* A new schedule is drawn only if one is needed.
SaveForm(c, selection, policy, new) ==
  LET form == call[c]
      selected == Selected(doc, form.person, selection)
      target == Target(doc, form, selected, policy, new)
  IN /\ At(c, "form") /\ MaySave(doc, form, selection)
     /\ target # None /\ (new # None => target = new /\ new \notin drawn)
     /\ doc' = SavedForm(doc, form, selection, policy, new)
     /\ drawn' = drawn \cup {target}
     /\ meant' = [g \in Pair |-> IF g \in selected THEN policy ELSE meant[g]]
     /\ stale' = stale \ selected
     /\ Becomes(c, Free)
     /\ UNCHANGED <<may, met>>

CloseForm(c) ==
  /\ At(c, "form") /\ Becomes(c, Free)
  /\ UNCHANGED <<doc, may, drawn, hours, met>>

(***************************************************************************)
(* update_synchronization_status writes the whole grant that it has read.  *)
(***************************************************************************)
ReadGrant(c, g) ==
  /\ doc.grants[g] # None
  /\ Begins(c, "statuses", [pc |-> "status", grant |-> g, copy |-> doc.grants[g],
                            doors |-> {g[2]}])
  /\ UNCHANGED <<doc, drawn, hours>>

WriteGrant(c) ==
  LET g == call[c].grant
  IN /\ At(c, "status")
     /\ Saves(UpsertGrant(doc, g, call[c].copy))
     /\ stale' = IF doc'.grants[g] # doc.grants[g] THEN stale \cup {g} ELSE stale
     /\ Becomes(c, Free)
     /\ UNCHANGED <<may, drawn, meant, met>>

(***************************************************************************)
(* remove_access: the grant goes, and then the metadata.                   *)
(***************************************************************************)
ForgetGrant(c, g) ==
  /\ doc.metadata[g] # None
  /\ Begins(c, "removals", [pc |-> "forget", grant |-> g, doors |-> {g[2]}])
  /\ doc' = RemoveGrant(doc, g)
  /\ UNCHANGED <<drawn, hours>>

ForgetMetadata(c) ==
  /\ At(c, "forget")
  /\ doc' = RemoveMetadata(doc, call[c].grant)
  /\ Becomes(c, Free)
  /\ UNCHANGED <<may, drawn, hours, met>>
=============================================================================
