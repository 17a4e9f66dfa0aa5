------------------------------ MODULE NukiAudit ------------------------------
(***************************************************************************)
(* NukiAuditIngestionService: the log of a Nuki is read over Bluetooth     *)
(* when the lock was unlocked, every five minutes, and when somebody asks. *)
(* What it says of an unlock is evidence for the physical ingestion, and   *)
(* what it says of a finger is observed by the fingerprint service.        *)
(***************************************************************************)
EXTENDS PhysicalActivity, NukiFingerprints

VARIABLES
  audit,   \* the log of the lock
  known,   \* the records that were read before
  poll     \* the polling task and an explicit refresh

auditVars == <<audit, known, poll>>

Poller == {"task", "refresh"}
NoPoll == [pc |-> "idle"]

At(q, pc) == poll[q].pc = pc
Becomes(q, p) == poll' = [poll EXCEPT ![q] = p]
GoesTo(q, pc) == Becomes(q, [poll[q] EXCEPT !.pc = pc])
Fails(q) == Becomes(q, NoPoll)

Polling(process) == [pc |-> "waiting", process |-> process]

(* One task is enough: while it runs, nobody else is scheduled. *)
Scheduled(process) ==
  IF provider /\ At("task", "idle") THEN [poll EXCEPT !["task"] = Polling(process)] ELSE poll

Follows(e, s) == e = "lock" /\ s = "unlocked" /\ shown[e] # s

Schedule ==
  /\ provider /\ At("task", "idle")
  /\ poll' = Scheduled(TRUE)
  /\ UNCHANGED <<audit, known>>

AskToRefresh ==
  /\ provider /\ At("refresh", "idle")
  /\ Becomes("refresh", Polling(TRUE))
  /\ UNCHANGED <<audit, known>>

(* _poll_lock *)
Reads(q) == poll[q].pc \notin {"idle", "waiting"}

AcquireLock(q) ==
  /\ At(q, "waiting") /\ \A r \in Poller : ~Reads(r)
  /\ GoesTo(q, "reading")
  /\ UNCHANGED <<audit, known>>

(***************************************************************************)
(* _poll.  What was read is known from then on, whether it will have been  *)
(* processed or not, and what was there at the start never is, but on      *)
(* request.  A keypad record without a number says nothing.                *)
(***************************************************************************)
Telling == {n \in 1..Len(audit) : audit[n].finger \/ audit[n].slot # None}
Selected(q) == IF q = "refresh" THEN Telling ELSE Telling \ known

ListAuditEvents(q) ==
  /\ At(q, "reading")
  /\ known' = 1..Len(audit)
  /\ IF poll[q].process /\ Selected(q) # {}
     THEN Becomes(q, [pc |-> "door", left |-> Selected(q)])
     ELSE Fails(q)
  /\ UNCHANGED audit

First(q) == CHOOSE n \in poll[q].left : \A m \in poll[q].left : n <= m
Event(q) == audit[First(q)]

(* On to the next record. *)
NextOf(q) ==
  LET rest == poll[q].left \ {First(q)}
  IN IF rest = {} THEN NoPoll ELSE [pc |-> "door", left |-> rest]

(***************************************************************************)
(* _process, once the door is found: evidence first, of which nobody says  *)
(* whether it found its unlock, and then the finger.                       *)
(***************************************************************************)
Correlates == started /\ "lock" \in monitored /\ provider

Process(q) ==
  /\ At(q, "door")
  /\ IF Event(q).slot # None /\ Correlates THEN AcceptEvidence(Event(q).of, Event(q).at)
     ELSE UNCHANGED <<tasks, waiting, cached>>
  /\ IF Event(q).finger
     THEN Becomes(q, [pc |-> "loading", left |-> poll[q].left,
                      told |-> Event(q).slot # None /\ Correlates])
     ELSE Becomes(q, NextOf(q))
  /\ UNCHANGED <<audit, known>>

(* The owner is found, and confirmed unless that was done before.  The     *)
(* unlock is recorded here only if it was no evidence.                     *)
Recording(q, p) == IF poll[q].told THEN NextOf(q) ELSE [p EXCEPT !.pc = "recording"]

Found(q, owners, links) ==
  IF owners = {} THEN Becomes(q, NextOf(q))
  ELSE \E o \in owners :
         LET p == [pc |-> "confirming", left |-> poll[q].left, told |-> poll[q].told,
                   owner |-> o, slot |-> links[o].slot, passed |-> FALSE]
         IN Becomes(q, IF links[o].status = "confirmed" THEN Recording(q, p) ELSE p)

LoadLinks(q) ==
  /\ At(q, "loading")
  /\ IF Event(q).slot = None THEN Found(q, Unnamed(Event(q)), link)
     ELSE Becomes(q, [pc |-> "resolving", left |-> poll[q].left, told |-> poll[q].told,
                      links |-> link, passed |-> FALSE])
  /\ UNCHANGED <<audit, known>>

ResolvePerson(q) ==
  /\ At(q, "resolving")
  /\ Found(q, Named(poll[q].links, Event(q)), poll[q].links)
  /\ UNCHANGED <<audit, known>>

ConfirmOwner(q) ==
  /\ At(q, "confirming")
  /\ Confirm(poll[q].owner, poll[q].slot)
  /\ Becomes(q, Recording(q, poll[q]))
  /\ UNCHANGED <<audit, known>>

RecordUnlock(q) ==
  /\ At(q, "recording")
  /\ Becomes(q, NextOf(q))
  /\ UNCHANGED <<audit, known>>

(* The lock does not answer in time, or the document cannot be read or     *)
(* written: the poll ends there.                                           *)
Raise(q) ==
  /\ poll[q].pc \in {"reading", "door", "loading", "confirming", "recording"}
  /\ Fails(q)
  /\ UNCHANGED <<audit, known>>

(* Requests for the document are served in their order: while an           *)
(* observation waits for it, one enrolment or change of access may pass,   *)
(* and what depends on that waits behind.                                  *)
MayPass == \A q \in Poller : poll[q].pc \in {"resolving", "confirming"} => ~poll[q].passed
Passes ==
  poll' = [q \in Poller |-> IF poll[q].pc \in {"resolving", "confirming"}
                            THEN [poll[q] EXCEPT !.passed = TRUE] ELSE poll[q]]

(***************************************************************************)
(* The lock writes its log.                                                *)
(***************************************************************************)
LockLogs(r) ==
  /\ r.slot # None => \E o \in Numbered(r.slot) : access[o].stage # "gone"
  /\ audit' = Append(audit, r)
  /\ UNCHANGED <<known, poll>>

(* Evidence goes with the provider that gave it, and a task is cancelled.  *)
StopAudit ==
  /\ provider
  /\ provider' = FALSE
  /\ cached' = None
  /\ poll' = [poll EXCEPT !["task"] = NoPoll]
  /\ known' = {}
  /\ UNCHANGED audit
=============================================================================
