-------------------------------- MODULE Door --------------------------------
(***************************************************************************)
(* One door with its lock or garage control, its contact and its keypad:   *)
(* the command service, the correlation service, the physical ingestion,   *)
(* the keypad transport and, at a Nuki, the reader of its log at work      *)
(* together, and unloaded and set up again together.                       *)
(***************************************************************************)
EXTENDS KeypadCommands, NukiAudit

CONSTANTS
  Installations   \* doors with their keypads, and how much happens at each

Access == [slot : CodeId, since : Int, stage : {"on", "going", "gone"}]
Entries == [of : Int, at : Int, finger : BOOLEAN, slot : CodeId \cup {None}]

(* Durations are natural numbers, None is nothing else, and what a lock    *)
(* has at first it has by then.                                            *)
ASSUME Assumptions ==
  /\ {Expiry, Wait, ProviderWait, Window, TransactionTtl, FailureWindow, MaxFailures} \subseteq Nat
  /\ None \notin Int /\ None \notin Call /\ None \notin Access
  /\ None \notin [report : Nat, at : Nat, due : Nat]
  /\ None \notin [id : Call, requested : Stable.lock, origin : {"app", "nfc", "keypad", None},
                   person : Person \cup {None}, at : Nat, expires : Nat]
  /\ \A i \in Installations :
       /\ i.audit \in Seq(Entries) /\ i.access \in [Owner -> Access \cup {None}]
       /\ \A o \in Owner : i.access[o] # None => i.access[o].since <= 0

(* The bounds: on the clock, on calls, on state changes, on evidence, on    *)
(* changes of policy and keypad, on unloading, on polls that no unlock      *)
(* caused, on polls that fail and on changes of fingerprints and           *)
(* authorizations.                                                         *)
VARIABLES
  bound,        \* the bounds of this installation; of polls, faults and links, what is left
  changes,      \* how many state changes there were
  told,         \* of which unlocks there was evidence
  edits,        \* how many changes of policy and keypad there were
  restarts,     \* how often the integration was unloaded
  spaced        \* history: unlocks came far apart, their evidence close by

otherVars == <<bound, changes, told, edits, restarts, spaced>>
vars == <<now, pending, physicalVars, commandVars, keypadVars, auditVars, linkVars, otherVars>>

Init ==
  /\ now = 0 /\ pending = None
  /\ \E i \in Installations :
       /\ door = i.door /\ transport = i.transport
       /\ reader = i.reader /\ bound = i.bound
       /\ access = i.access /\ audit = i.audit
  /\ provider = (reader = "nuki")
  /\ link = [o \in Owner |-> None] /\ known = {}
  /\ poll = [q \in Poller |-> IF provider /\ q = "task" THEN Polling(FALSE) ELSE NoPoll]
  /\ shown = [lock |-> "locked", contact |-> "closed"]
  /\ started = TRUE /\ monitored = Entities
  /\ stable = [e \in Entity |-> IF e \in monitored THEN shown[e] ELSE None]
  /\ waiting = None /\ cached = None /\ recent = None
  /\ tasks = {} /\ log = {} /\ reports = <<>> /\ lost = {}
  /\ call = [c \in Call |-> Idle]
  /\ listening = TRUE /\ enabled = TRUE
  /\ request = [c \in Call |-> NoRequest] /\ line = <<>> /\ failures = <<>>
  /\ seen = [t \in Transactions |-> None] /\ guesses = {}
  /\ changes = 0 /\ told = {} /\ edits = 0 /\ restarts = 0
  /\ spaced = (\A n \in 1..Len(audit) : audit[n].at < -Window)

Tick ==
  /\ now < bound.time /\ TimeMayPass
  /\ now' = now + 1
  /\ UNCHANGED <<pending, physicalVars, commandVars, keypadVars, auditVars, linkVars, otherVars>>

(***************************************************************************)
(* The entities.  Evidence is of an unlock that was reported, or of the    *)
(* next one.  Unlocks are spaced if each is reported more than two windows *)
(* after the one before it, what is evidence of it happened within one     *)
(* window of it, and what the lock had logged before is older than that.   *)
(***************************************************************************)
Ordinal(n) == Cardinality({m \in Unlocks : m <= n})
Near(a, b) == a \in b - Window..b + Window

LastUnlock == {n \in Unlocks : \A m \in Unlocks : m <= n}

FarFromLast == \A n \in LastUnlock : now - Report(n).at > 2 * Window

SpacedWith(of) ==
  spaced' = (spaced /\ IF of > Cardinality(Unlocks) THEN FarFromLast
                       ELSE \A n \in Unlocks : Ordinal(n) = of => Near(Report(n).at, now))

Tells(of) ==
  /\ of \notin told /\ Cardinality(told) < bound.evidence
  /\ told' = told \cup {of}
  /\ SpacedWith(of)

HAChanges(e, s) ==
  /\ changes < bound.changes
  /\ changes' = changes + 1
  /\ StateChanges(e, s)
  /\ poll' = IF Follows(e, s) THEN Scheduled(TRUE) ELSE poll
  /\ spaced' = (spaced /\ (Cardinality(Unlocks') > Cardinality(Unlocks) => FarFromLast))
  /\ UNCHANGED <<commandVars, keypadVars, audit, known, linkVars, bound, told, edits, restarts>>

NotificationArrives(of) ==
  /\ Tells(of)
  /\ HandleNotification(of)
  /\ UNCHANGED <<commandVars, keypadVars, auditVars, linkVars, bound, changes, edits, restarts>>

(* A Nuki logs when it was opened with a PIN or with a finger, which has   *)
(* the number of an authorization or none.                                 *)
NukiLogs(of) ==
  /\ reader = "nuki"
  /\ Tells(of)
  /\ \E finger \in BOOLEAN, slot \in CodeId \cup {None} :
       /\ finger \/ slot # None
       /\ LockLogs([of |-> of, at |-> now, finger |-> finger, slot |-> slot])
  /\ UNCHANGED <<now, pending, physicalVars, commandVars, keypadVars, linkVars, bound, changes, edits,
                 restarts>>

MayCall == Cardinality({c \in Call : call[c].pc # "idle" \/ request[c].pc # "idle"}) < bound.calls

(* What the entities of this door can show.  Whatever else they show is    *)
(* not looked at.                                                          *)
LockStates == IF door.profile = "lock"
              THEN {"locked", "unlocked", "other"} \cup (IF door.opens THEN {"unlatched"} ELSE {})
              ELSE {"locked", "other"}
ContactStates == IF door.status THEN Stable.contact \cup {"other"} ELSE {}

Physical ==
  \/ \E s \in LockStates : HAChanges("lock", s)
  \/ \E s \in ContactStates : HAChanges("contact", s)
  \/ \E of \in 1..Cardinality(Unlocks) + 1 : NotificationArrives(of) \/ NukiLogs(of)
  \/ /\ \/ ExpirePendingUnlock
        \/ DiscardUnlockEvidence
        \/ \E t \in tasks : RecordTransition(t)
        \/ Refresh(Entities)
     /\ UNCHANGED <<commandVars, keypadVars, auditVars, linkVars, otherVars>>

(***************************************************************************)
(* The reader of the log, and what is linked to its authorizations.        *)
(***************************************************************************)
Uses(what) == bound[what] > 0 /\ bound' = [bound EXCEPT ![what] = @ - 1]

Reader ==
  /\ \/ /\ \E q \in Poller :
             AcquireLock(q) \/ ListAuditEvents(q) \/ LoadLinks(q) \/ ResolvePerson(q)
               \/ RecordUnlock(q)
        /\ UNCHANGED <<now, pending, physicalVars, linkVars, bound>>
     \/ /\ Uses("faults") /\ \E q \in Poller : Raise(q)
        /\ UNCHANGED <<now, pending, physicalVars, linkVars>>
     \/ /\ \E q \in Poller : ConfirmOwner(q)
        /\ UNCHANGED <<now, pending, physicalVars, bound>>
     \/ /\ \E q \in Poller : Process(q)
        /\ UNCHANGED <<now, pending, started, monitored, reader, provider, shown, stable, recent,
                       log, reports, lost, linkVars, bound>>
     \/ /\ Uses("polls")
        /\ Schedule \/ AskToRefresh
        /\ UNCHANGED <<now, pending, physicalVars, linkVars>>
     \/ /\ Uses("links")
        /\ MayPass /\ Passes
        /\ \E o \in Owner : Enrol(o)
        /\ UNCHANGED <<now, pending, physicalVars, audit, known>>
     \/ /\ MayPass /\ Passes
        /\ \E o \in Owner : RemoveAccessLink(o) \/ RemoveRecords(o)
        /\ UNCHANGED <<now, pending, physicalVars, audit, known, bound>>
  /\ UNCHANGED <<commandVars, keypadVars, changes, told, edits, restarts, spaced>>

(***************************************************************************)
(* Commands of the app and of tags, and those of the keypad.               *)
(***************************************************************************)
NewCall(c) ==
  /\ MayCall
  /\ call[c].pc = "idle" /\ request[c].pc = "idle"
  /\ \/ \E operation \in Operations : Execute(c, operation, "app", None)
     \/ \E p \in Person : Execute(c, "unlock", "nfc", p)
  /\ UNCHANGED <<now, pending, physicalVars, door>>

Commands ==
  /\ \E c \in Call :
       \/ NewCall(c)
       \/ ResolveState(c)
       \/ Dispatch(c)
       \/ DispatchReturns(c)
       \/ DispatchRaises(c)
       \/ SwitchOn(c)
       \/ SwitchOff(c)
  /\ UNCHANGED <<keypadVars, auditVars, linkVars, otherVars>>

Keypad ==
  /\ \E r \in Call :
       \/ MayCall /\ \E t \in Transactions : ReceiveZigbee2Mqtt(r, t)
       \/ MayCall /\ ReceiveZha(r)
       \/ ManagedDevice(r)
       \/ BeginProcessing(r)
       \/ ResolvePersonId(r)
       \/ Authorize(r)
       \/ RecordFailure(r)
       \/ FinishProcessing(r)
  /\ UNCHANGED <<auditVars, linkVars, otherVars>>

(***************************************************************************)
(* Changes by the administrator, and unloading: first the keypad, which    *)
(* finishes what it accepted, then the reader of the log, then the         *)
(* ingestion, then everything else.                                        *)
(***************************************************************************)
Edits ==
  /\ edits < bound.edits
  /\ edits' = edits + 1
  /\ \/ /\ \/ \E open \in BOOLEAN, entry \in {"unlock", "open"} : UpdateOpenPolicy(open, entry)
           \/ UpdatePolicy
        /\ UNCHANGED keypadVars
     \/ UpdateKeypad
  /\ UNCHANGED <<auditVars, linkVars, bound, changes, told, restarts, spaced>>

UnloadKeypad ==
  /\ listening /\ restarts < bound.restarts
  /\ restarts' = restarts + 1
  /\ StopListening
  /\ UNCHANGED <<now, pending, physicalVars, commandVars, auditVars, linkVars, bound, changes, told,
                 edits, spaced>>

UnloadAudit ==
  /\ ~listening /\ Drained
  /\ StopAudit
  /\ UNCHANGED <<now, pending, started, monitored, reader, shown, stable, waiting, recent, tasks, log,
                 reports, lost, commandVars, keypadVars, linkVars, otherVars>>

UnloadPhysical ==
  /\ ~listening /\ Drained /\ ~provider
  /\ Stop
  /\ UNCHANGED <<commandVars, keypadVars, auditVars, linkVars, otherVars>>

(* What calls of the old process still do concerns its own services only. *)
SetUp ==
  /\ \A c \in Call : call[c].pc \notin {"switching", "pulse"}
  /\ poll["refresh"] = NoPoll
  /\ Start(Entities)
  /\ call' = [c \in Call |-> IF call[c].pc = "idle" THEN Idle ELSE [Idle EXCEPT !.pc = "done"]]
  /\ ResetKeypad
  /\ poll' = [poll EXCEPT !["task"] = IF reader = "nuki" THEN Polling(FALSE) ELSE NoPoll]
  /\ UNCHANGED <<door, audit, known, linkVars, otherVars>>

Next ==
  \/ Tick
  \/ Physical
  \/ Reader
  \/ Commands
  \/ Keypad
  \/ Edits
  \/ UnloadKeypad
  \/ UnloadAudit
  \/ UnloadPhysical
  \/ SetUp

Spec == Init /\ [][Next]_vars

-----------------------------------------------------------------------------
(***************************************************************************)
(* Properties.                                                             *)
(***************************************************************************)
TypeOK ==
  /\ now \in Nat /\ door \in Doors /\ transport \in {"none", "zha", "z2m"}
  /\ shown \in [Entity -> UNION {Shown(e) : e \in Entity}]
  /\ \A e \in Entity : stable[e] # None => stable[e] \in Stable[e] /\ e \in monitored
  /\ monitored \subseteq Entity /\ ~started => monitored = {}
  /\ waiting # None => waiting.report \in Unlocks
  /\ recent # None => \E n \in Unlocks : Report(n).at = recent
  /\ \A c \in Call : call[c].pc \in {"idle", "resolving", "resolved", "switching", "pulse",
                                    "sent", "done", "failed"}
  /\ \A r \in Call : request[r].pc \in {"idle", "received", "queued", "looking", "deciding",
                                       "denying", "executing", "recording", "done"}
  /\ \A i \in 1..Len(line) : request[line[i]].pc \notin {"idle", "received", "done"}
  /\ Len(failures) <= MaxFailures

Records == tasks \cup log \cup lost
Answered == {r \in Records : r.command # None}

(* A command that was sent is waited for until a state change confirms it, *)
(* it fails, or its time is over, whatever other commands do meanwhile: an *)
(* old one that fails late takes only itself back.  It explains at most    *)
(* one change, which happened after it was sent and before it expired.     *)
CommandsMatched ==
  /\ \A c \in Call :
       /\ call[c].confirmable /\ call[c].pc \in {"switching", "pulse", "sent", "done"}
       /\ now < call[c].at + Expiry
       /\ \A r \in Answered : r.command.id # c
       => pending # None /\ pending.id = c
  /\ \A r \in Answered :
       /\ \A q \in Answered : q.command.id = r.command.id => q = r
       /\ r.command.at <= Report(r.report).at
       /\ Report(r.report).at < r.command.expires

(* Of every stable change there is one record: it waits, is being written, *)
(* was written, or was given up for one of the reasons that the code has.  *)
EachReportOnce ==
  \A n \in 1..Number :
    Cardinality({r \in Records : r.report = n})
      + Cardinality({w \in Dropped : w.report = n}) = 1

(* If unlocks come far apart, none is explained by evidence of another.    *)
EvidenceOfItsUnlock ==
  spaced => \A r \in tasks \cup log :
              r.evidence \notin {None, Unknown} => r.evidence = Ordinal(r.report)

(* However requests overlap, no more wrong codes are looked up within one  *)
(* window than are allowed, a right one starting anew.                     *)
LockoutHolds ==
  \A g \in guesses :
    Cardinality({h \in guesses : h.at <= g.at /\ g.at - h.at <= FailureWindow}) <= MaxFailures

(* A Zigbee2MQTT message that is delivered twice moves the door once.      *)
TransactionsActOnce ==
  restarts = 0 =>
    \A r, q \in Call :
      /\ r # q
      /\ request[r].transaction # None /\ request[r].transaction = request[q].transaction
      /\ call[r].pc # "idle" /\ call[q].pc # "idle"
      => \/ request[r].received - request[q].received > TransactionTtl
         \/ request[q].received - request[r].received > TransactionTtl

(* A fingerprint is confirmed only if the lock told that a finger opened   *)
(* it since the person has had this authorization: an older record of the  *)
(* same number, however often and whenever it is read, is not taken for it. *)
ConfirmedTruly ==
  \A o \in Owner : Confirmed(o) =>
    \E n \in 1..Len(audit) :
      /\ audit[n].finger /\ audit[n].at >= access[o].since
      /\ audit[n].slot \in {None, access[o].slot}
=============================================================================
