------------------------------ MODULE Door_proofs ------------------------------
(***************************************************************************)
(* Proofs about Door, for any number of calls, people, transactions and    *)
(* installations, and for any waits.                                       *)
(***************************************************************************)
EXTENDS Door, TLAPS, FiniteSetTheorems, SequenceTheorems, WellFoundedInduction

(***************************************************************************)
(* Reports and their records.                                              *)
(***************************************************************************)
StateNames == {"locked", "unlocked", "unlatched", "open", "closed", "other"}

ReportSet == [entity : Entity, state : StateNames, at : Nat]

Waits == waiting # None

\* What waits and what is recorded are of reports, and of each just once.
Reported ==
  /\ now \in Nat
  /\ reports \in Seq(ReportSet)
  /\ \A r \in Records : r.report \in 1..Number
  /\ \A q, r \in Records : q.report = r.report => q = r
  /\ Waits => waiting.report \in 1..Number
  /\ Waits => \A r \in Records : r.report # waiting.report
  /\ \A n \in 1..Number :
       (\A r \in Records : r.report # n) => Waits /\ waiting.report = n

\* What is neither reported nor recorded changes nothing.
LEMMA ReportedStutter ==
  ASSUME Reported, UNCHANGED <<waiting, tasks, log, reports, lost>>, now' \in Nat
  PROVE  Reported'
  BY DEF Reported, Records, Waits, Number

\* A change that is reported is recorded at once, or waits in the place of another.
LEMMA ReportAdded ==
  ASSUME NEW e \in Entity, NEW s \in StateNames, Reported, UNCHANGED now,
         reports' = Append(reports, [entity |-> e, state |-> s, at |-> now]),
         UNCHANGED log,
         \/ /\ \E command, evidence : tasks' = tasks \cup {Record(Number + 1, command, evidence)}
            /\ UNCHANGED <<waiting, lost>>
         \/ /\ waiting' # None /\ waiting'.report = Number + 1
            /\ lost' = lost \cup Dropped
            /\ UNCHANGED tasks
  PROVE  Reported'
<1>1. /\ reports' \in Seq(ReportSet) /\ Number' = Number + 1 /\ Number \in Nat
  BY DEF Reported, ReportSet, Number
<1>2. CASE /\ \E command, evidence : tasks' = tasks \cup {Record(Number + 1, command, evidence)}
           /\ UNCHANGED <<waiting, lost>>
  <2>. PICK command, evidence : tasks' = tasks \cup {Record(Number + 1, command, evidence)}
    BY <1>2
  <2>. DEFINE new == Record(Number + 1, command, evidence)
  <2>1. Records' = Records \cup {new} /\ new.report = Number + 1
    BY <1>2 DEF Records, Record
  <2>. HIDE DEF new
  <2>. QED
    BY <1>1, <1>2, <2>1 DEF Reported, Waits
<1>3. CASE /\ waiting' # None /\ waiting'.report = Number + 1
           /\ lost' = lost \cup Dropped
           /\ UNCHANGED tasks
  <2>1. CASE Waits
    <3>. DEFINE old == Record(waiting.report, None, Unknown)
    <3>1. Records' = Records \cup {old} /\ old.report = waiting.report
      BY <1>3, <2>1 DEF Records, Record, Dropped, Waits
    <3>. HIDE DEF old
    <3>. QED
      BY <1>1, <1>3, <2>1, <3>1 DEF Reported, Waits
  <2>2. CASE ~Waits
    <3>1. Records' = Records
      BY <1>3, <2>2 DEF Records, Dropped, Waits
    <3>. QED
      BY <1>1, <1>3, <2>2, <3>1 DEF Reported, Waits
  <2>. QED
    BY <2>1, <2>2
<1>. QED
  BY <1>2, <1>3

\* What waits ends in a record, whoever writes it, or goes on waiting.
LEMMA WaitingEnds ==
  ASSUME Reported, UNCHANGED <<now, reports, log>>, waiting' = None,
         \/ \E evidence : tasks' = tasks \cup {Record(waiting.report, None, evidence)}
              /\ Waits /\ UNCHANGED lost
         \/ lost' = lost \cup Dropped /\ UNCHANGED tasks
  PROVE  Reported'
<1>1. Number' = Number
  BY DEF Number
<1>2. CASE ~Waits
  <2>1. Records' = Records
    BY <1>2 DEF Records, Dropped, Waits
  <2>. QED
    BY <1>1, <1>2, <2>1 DEF Reported, Waits
<1>3. CASE Waits
  <2>1. \E evidence : Records' = Records \cup {Record(waiting.report, None, evidence)}
    BY <1>3 DEF Records, Dropped, Waits
  <2>. PICK evidence : Records' = Records \cup {Record(waiting.report, None, evidence)}
    BY <2>1
  <2>. DEFINE new == Record(waiting.report, None, evidence)
  <2>2. Records' = Records \cup {new} /\ new.report = waiting.report
    BY DEF Record
  <2>. HIDE DEF new
  <2>. QED
    BY <1>1, <1>3, <2>2 DEF Reported, Waits
<1>. QED
  BY <1>2, <1>3

\* Evidence records what waits, or is kept or declined.
LEMMA EvidenceKeepsReported ==
  ASSUME Reported, NEW of, NEW observed, AcceptEvidence(of, observed),
         UNCHANGED <<now, reports, log, lost>>
  PROVE  Reported'
<1>1. CASE UNCHANGED <<tasks, waiting>>
  BY <1>1, ReportedStutter DEF Reported
<1>2. CASE /\ Waits /\ waiting' = None
           /\ tasks' = tasks \cup {Record(waiting.report, None, of)}
  BY <1>2, WaitingEnds
<1>. QED
  BY <1>1, <1>2 DEF AcceptEvidence, Waits

\* A change of state is recorded, or waits, or is not reported.
LEMMA StateChangesKeepReported ==
  ASSUME Assumptions, Reported, NEW e \in Entity, NEW s \in StateNames, StateChanges(e, s)
  PROVE  Reported'
<1>. UNCHANGED <<now, log>>
  BY DEF StateChanges
<1>. /\ now \in Nat /\ Number + 1 \in Nat
  BY DEF Reported, Number
<1>1. CASE Unremarkable(e, s)
  BY <1>1, ReportedStutter DEF Unremarkable
<1>2. CASE Explained(e, s)
  BY <1>2, ReportAdded DEF Explained
<1>3. CASE ClassifiedAtOnce(e, s)
  BY <1>3, ReportAdded DEF ClassifiedAtOnce
<1>4. CASE QueueUnlock(e, s)
  <2>1. /\ waiting' \in [report : Nat, at : Nat, due : Nat] /\ waiting'.report = Number + 1
    BY <1>4 DEF QueueUnlock, Assumptions
  <2>2. waiting' # None
    BY <2>1 DEF Assumptions
  <2>. QED
    BY <1>4, <2>1, <2>2, ReportAdded DEF QueueUnlock
<1>. QED
  BY <1>1, <1>2, <1>3, <1>4 DEF StateChanges

\* A record that is written, or lost, is the same record.
LEMMA RecordKeepsReported ==
  ASSUME Reported, NEW t, RecordTransition(t)
  PROVE  Reported'
<1>1. Records' = Records
  BY DEF RecordTransition, Records
<1>. QED
  BY <1>1 DEF RecordTransition, Reported, Waits, Number

\* What waits at a lock that is no longer listened to is given up.
LEMMA ReplacingKeepsReported ==
  ASSUME Reported, NEW next, ReplaceMonitored(next), UNCHANGED <<now, tasks, log, reports>>
  PROVE  Reported'
<1>1. CASE UNCHANGED <<lost, waiting>>
  BY <1>1, ReportedStutter DEF Reported
<1>2. CASE lost' = lost \cup Dropped /\ waiting' = None
  BY <1>2, WaitingEnds
<1>. QED
  BY <1>1, <1>2 DEF ReplaceMonitored

\* Every step keeps the account of the reports.
LEMMA ReportedStep ==
  ASSUME Assumptions, Reported, [Next]_vars
  PROVE  Reported'
<1>. now \in Nat
  BY DEF Reported
<1>1. CASE Tick
  BY <1>1, ReportedStutter DEF Tick, physicalVars
<1>2. CASE Physical
  <2>1. ASSUME NEW s \in LockStates, HAChanges("lock", s) PROVE Reported'
    <3>1. s \in StateNames /\ "lock" \in Entity
      BY DEF LockStates, StateNames, Entity
    <3>. QED
      BY <2>1, <3>1, StateChangesKeepReported DEF HAChanges
  <2>2. ASSUME NEW s \in ContactStates, HAChanges("contact", s) PROVE Reported'
    <3>1. s \in StateNames /\ "contact" \in Entity
      BY DEF ContactStates, StateNames, Entity, Stable
    <3>. QED
      BY <2>2, <3>1, StateChangesKeepReported DEF HAChanges
  <2>3. ASSUME NEW of, NotificationArrives(of) PROVE Reported'
    BY <2>3, EvidenceKeepsReported DEF NotificationArrives, HandleNotification
  <2>4. ASSUME NEW of, NukiLogs(of) PROVE Reported'
    BY <2>4, ReportedStutter DEF NukiLogs, physicalVars
  <2>5. CASE ExpirePendingUnlock
    BY <2>5, WaitingEnds DEF ExpirePendingUnlock, Waits
  <2>6. CASE DiscardUnlockEvidence
    BY <2>6, ReportedStutter DEF DiscardUnlockEvidence
  <2>7. ASSUME NEW t \in tasks, RecordTransition(t) PROVE Reported'
    BY <2>7, RecordKeepsReported
  <2>8. CASE Refresh(Entities)
    BY <2>8, ReplacingKeepsReported DEF Refresh
  <2>. QED
    BY <1>2, <2>1, <2>2, <2>3, <2>4, <2>5, <2>6, <2>7, <2>8 DEF Physical
<1>3. CASE Reader
  <2>1. ASSUME NEW q \in Poller, Process(q), UNCHANGED <<now, reports, log, lost>> PROVE Reported'
    <3>1. CASE UNCHANGED <<tasks, waiting>>
      BY <2>1, <3>1, ReportedStutter
    <3>. QED
      BY <2>1, <3>1, EvidenceKeepsReported DEF Process
  <2>2. CASE UNCHANGED <<now, physicalVars>>
    BY <2>2, ReportedStutter DEF physicalVars
  <2>. QED
    BY <1>3, <2>1, <2>2 DEF Reader
<1>4. CASE Commands
  <2>. UNCHANGED <<now, physicalVars>>
    BY <1>4 DEF Commands, NewCall, ResolveState, Dispatch, DispatchReturns, DispatchRaises,
                SwitchOn, SwitchOff
  <2>. QED
    BY ReportedStutter DEF physicalVars
<1>5. CASE Keypad
  <2>. UNCHANGED <<now, physicalVars>>
    BY <1>5 DEF Keypad, ReceiveZigbee2Mqtt, ReceiveZha, ManagedDevice, BeginProcessing,
                ResolvePersonId, Authorize, RecordFailure, FinishProcessing
  <2>. QED
    BY ReportedStutter DEF physicalVars
<1>6. CASE Edits \/ UnloadKeypad
  <2>. UNCHANGED <<now, physicalVars>>
    BY <1>6 DEF Edits, UpdateOpenPolicy, UpdatePolicy, UpdateKeypad, UnloadKeypad
  <2>. QED
    BY ReportedStutter DEF physicalVars
<1>7. CASE UnloadAudit
  BY <1>7, ReportedStutter DEF UnloadAudit
<1>8. CASE UnloadPhysical
  BY <1>8, WaitingEnds DEF UnloadPhysical, Stop
<1>9. CASE SetUp
  BY <1>9, ReportedStutter DEF SetUp, Start
<1>10. CASE UNCHANGED vars
  BY <1>10, ReportedStutter DEF vars, physicalVars
<1>. QED
  BY <1>1, <1>2, <1>3, <1>4, <1>5, <1>6, <1>7, <1>8, <1>9, <1>10 DEF Next

\* At first nothing was reported.
LEMMA ReportedInit ==
  ASSUME Init
  PROVE  Reported
  BY DEF Init, Reported, Records, Waits, Number, ReportSet

\* The account of the reports has one record for each.
LEMMA ReportedOnce ==
  ASSUME Reported
  PROVE  EachReportOnce
<1>. SUFFICES ASSUME NEW n \in 1..Number
              PROVE  Cardinality({r \in Records : r.report = n})
                       + Cardinality({w \in Dropped : w.report = n}) = 1
  BY DEF EachReportOnce
<1>. DEFINE recorded == {r \in Records : r.report = n}
            dropped == {w \in Dropped : w.report = n}
<1>. Cardinality({}) = 0 /\ \A x : Cardinality({x}) = 1
  BY FS_EmptySet, FS_Singleton
<1>1. CASE \E r \in Records : r.report = n
  <2>1. PICK r \in Records : r.report = n
    BY <1>1
  <2>2. recorded = {r}
    BY <2>1 DEF Reported
  <2>3. dropped = {}
    BY <2>1 DEF Reported, Dropped, Record, Waits
  <2>4. Cardinality(recorded) = 1 /\ Cardinality(dropped) = 0
    BY <2>2, <2>3
  <2>. QED
    BY <2>4
<1>2. CASE \A r \in Records : r.report # n
  <2>1. recorded = {}
    BY <1>2
  <2>2. Dropped = {Record(waiting.report, None, Unknown)} /\ waiting.report = n
    BY <1>2 DEF Reported, Dropped, Waits
  <2>3. dropped = Dropped
    BY <2>2 DEF Record
  <2>4. Cardinality(recorded) = 0 /\ Cardinality(dropped) = 1
    BY <2>1, <2>2, <2>3
  <2>. QED
    BY <2>4
<1>. QED
  BY <1>1, <1>2

(* EachReportOnce: every stable change of the lock or the contact is       *)
(* recorded once, for any number of changes, pieces of evidence, calls and *)
(* refreshes in any order, through unloading.                              *)
THEOREM ReportsRecordedOnce == Spec => []EachReportOnce
<1>1. Init => Reported
  BY ReportedInit
<1>2. Reported /\ [Next]_vars => Reported'
  BY Assumptions, ReportedStep
<1>. QED
  BY <1>1, <1>2, ReportedOnce, PTL DEF Spec

(***************************************************************************)
(* Commands and requests: their records, and what a step may do to them.   *)
(***************************************************************************)
CallFields == {"pc", "operation", "origin", "person", "saw", "confirmable", "at"}
RequestFields == {"pc", "at", "received", "transaction", "enabled", "person", "answer"}
Origins == {"app", "nfc", "keypad", None}

IsCall(x) ==
  DOMAIN x = CallFields /\ x.at \in Nat /\ x.origin \in Origins /\ x.person \in Person \cup {None}

IsRequest(x) == DOMAIN x = RequestFields /\ x.person \in Person \cup {None}

Typed ==
  /\ now \in Nat
  /\ DOMAIN call = Call /\ DOMAIN request = Call
  /\ \A c \in Call : IsCall(call[c]) /\ IsRequest(request[c])

\* A call that has not reached Home Assistant, and one that has and did not raise.
Unsent == {"idle", "resolving", "resolved"}
Sent == {"switching", "pulse", "sent", "done"}

\* What one call does to the calls: it goes on, and the others stay.
CallMoves(c) ==
  /\ DOMAIN call' = Call
  /\ \A d \in Call \ {c} : call'[d] = call[d]
  /\ IsCall(call'[c])

\* A call that is made, one that ends, and one that is sent.
LEMMA ExecuteMoves ==
  ASSUME Typed, NEW c \in Call, NEW operation, NEW origin \in Origins,
         NEW person \in Person \cup {None}, Execute(c, operation, origin, person)
  PROVE  CallMoves(c) /\ call'[c].pc = "resolving" /\ ~call'[c].confirmable
  BY DEF Typed, Execute, CallMoves, IsCall, CallFields

LEMMA EndsMoves ==
  ASSUME Typed, NEW c \in Call, NEW how, Ends(c, how)
  PROVE  /\ CallMoves(c) /\ call'[c].pc = how
         /\ call'[c].at = call[c].at /\ call'[c].confirmable = call[c].confirmable
  BY DEF Typed, Ends, Idle, CallMoves, IsCall, CallFields, Origins

LEMMA SendMoves ==
  ASSUME Typed, NEW c \in Call, Send(c)
  PROVE  /\ CallMoves(c) /\ call'[c].pc \in Sent \ {"done"}
         /\ call'[c].at = now /\ call'[c].confirmable = ConfirmationRequired(door)
  BY DEF Typed, Send, CallMoves, IsCall, CallFields, Sent

\* What is waited for was sent, is about the call as it stands, and is not
\* answered yet; what was answered was sent once.
Commanded ==
  /\ \A c \in Call : call[c].pc \in Unsent => ~call[c].confirmable
  /\ pending # None =>
       /\ pending.id \in Call
       /\ call[pending.id].pc \in Sent
       /\ call[pending.id].confirmable
       /\ pending.at = call[pending.id].at
       /\ pending.expires = pending.at + Expiry
       /\ \A r \in Answered : r.command.id # pending.id
  /\ \A r \in Answered :
       /\ r.command.id \in Call
       /\ call[r.command.id].pc \notin Unsent
  /\ CommandsMatched

\* No command was answered in a step, and what was reported stays.
AnswersKept ==
  /\ Answered' = Answered
  /\ \A r \in Answered : Report(r.report)' = Report(r.report)

\* A call that is not touched stays as it was, while time passes.
LEMMA CommandedKept ==
  ASSUME Assumptions, Typed, Commanded, AnswersKept, UNCHANGED <<call, pending>>, now' \in {now, now + 1}
  PROVE  Commanded'
<1>. Expiry \in Nat /\ now \in Nat /\ \A c \in Call : call[c].at \in Nat
  BY DEF Assumptions, Typed, IsCall
<1>. QED
  BY DEF Commanded, CommandsMatched, AnswersKept

\* A call goes on that was not sent: nothing is waited for, nor was answered.
LEMMA UnsentMoves ==
  ASSUME Typed, Commanded, AnswersKept, UNCHANGED <<now, pending>>,
         NEW c \in Call, CallMoves(c), call[c].pc \in Unsent, ~call'[c].confirmable
  PROVE  Commanded'
<1>1. pending # None => pending.id # c
  BY DEF Commanded, Sent, Unsent
<1>2. \A r \in Answered : r.command.id # c
  BY DEF Commanded
<1>. QED
  BY <1>1, <1>2 DEF Commanded, CommandsMatched, AnswersKept, CallMoves

\* A call that was sent goes on, and is waited for as before.
LEMMA SentMoves ==
  ASSUME Typed, Commanded, AnswersKept, UNCHANGED <<now, pending>>,
         NEW c \in Call, CallMoves(c), call[c].pc \in Sent, call'[c].pc \in Sent,
         call'[c].at = call[c].at, call'[c].confirmable = call[c].confirmable
  PROVE  Commanded'
  BY DEF Commanded, CommandsMatched, AnswersKept, CallMoves, Sent, Unsent

\* A call that was sent raises, and takes back itself alone.
LEMMA SentFails ==
  ASSUME Typed, Commanded, AnswersKept, UNCHANGED now,
         NEW c \in Call, CallMoves(c), call[c].pc \in Sent, call'[c].pc = "failed",
         pending' = IF call[c].confirmable THEN Cancelled(c) ELSE pending
  PROVE  Commanded'
<1>1. /\ pending # None /\ pending.id # c => pending' = pending
      /\ pending # None /\ pending.id = c => pending' = None
      /\ pending = None => pending' = None
  BY DEF Commanded, Cancelled
<1>. QED
  BY <1>1 DEF Commanded, CommandsMatched, AnswersKept, CallMoves, Sent, Unsent

(* The command is registered only if none is waited for that may still be *)
(* confirmed, so that whoever is replaced had its time.                    *)
LEMMA CommandSent ==
  ASSUME Assumptions, Typed, Commanded, AnswersKept, UNCHANGED now,
         NEW c \in Call, call[c].pc = "resolved", Accepted(c), Send(c)
  PROVE  Commanded'
<1>1. /\ CallMoves(c) /\ call'[c].pc \in Sent \ {"done"}
      /\ call'[c].at = now /\ call'[c].confirmable = ConfirmationRequired(door)
  BY SendMoves
<1>2. CASE ConfirmationRequired(door)
  <2>1. PICK requested \in Stable.lock :
          pending' = Registered(c, requested, call[c].origin, call[c].person)
    BY <1>2 DEF Send, RequestedState, Stable
  <2>2. pending' # None
    <3>1. pending' \in [id : Call, requested : Stable.lock, origin : {"app", "nfc", "keypad", None},
                        person : Person \cup {None}, at : Nat, expires : Nat]
      BY <2>1 DEF Registered, Typed, IsCall, Origins, Assumptions
    <3>. QED
      BY <3>1 DEF Assumptions
  <2>3. pending'.id = c /\ pending'.at = now /\ pending'.expires = now + Expiry
    BY <2>1 DEF Registered
  <2>4. \A r \in Answered : r.command.id # c
    BY DEF Commanded, Unsent
  <2>5. pending = None \/ pending.expires <= now
    BY <1>2 DEF Accepted, MayRegister, Live
  <2>6. \A d \in Call : /\ call[d].confirmable /\ call[d].pc \in Sent
                        /\ now < call[d].at + Expiry
                        => \E r \in Answered : r.command.id = d
    <3>. SUFFICES ASSUME NEW d \in Call, call[d].confirmable, call[d].pc \in Sent,
                         now < call[d].at + Expiry, \A r \in Answered : r.command.id # d
                  PROVE  FALSE
      OBVIOUS
    <3>1. pending # None /\ pending.id = d
      BY DEF Commanded, CommandsMatched, Sent
    <3>2. pending.expires = call[d].at + Expiry
      BY <3>1 DEF Commanded
    <3>3. now \in Nat /\ Expiry \in Nat /\ call[d].at \in Nat
      BY DEF Typed, IsCall, Assumptions
    <3>. QED
      BY <2>5, <3>1, <3>2, <3>3
  <2>7. /\ Answered' = Answered /\ now' = now
        /\ \A r \in Answered : Report(r.report)' = Report(r.report)
    BY DEF AnswersKept
  <2>8. \A r \in Answered : /\ r.command.id \in Call \ {c}
                            /\ call'[r.command.id].pc \notin Unsent
    BY <1>1, <2>4 DEF Commanded, CallMoves
  <2>9. \A d \in Call : call'[d].pc \in Unsent => ~call'[d].confirmable
    BY <1>1 DEF Commanded, CallMoves, Sent, Unsent
  <2>10. CommandsMatched'
    <3>1. \A d \in Call :
            /\ call'[d].confirmable /\ call'[d].pc \in Sent
            /\ now < call'[d].at + Expiry
            /\ \A r \in Answered : r.command.id # d
            => d = c
      BY <1>1, <2>6 DEF CallMoves
    <3>2. \A r \in Answered :
            /\ \A q \in Answered : q.command.id = r.command.id => q = r
            /\ r.command.at <= Report(r.report)'.at
            /\ Report(r.report)'.at < r.command.expires
      BY <2>7 DEF Commanded, CommandsMatched
    <3>. QED
      BY <2>2, <2>3, <2>7, <3>1, <3>2 DEF CommandsMatched, Sent
  <2>. QED
    BY <1>1, <1>2, <2>2, <2>3, <2>4, <2>7, <2>8, <2>9, <2>10
       DEF Commanded, Sent, CallMoves
<1>3. CASE ~ConfirmationRequired(door)
  BY <1>1, <1>3, UnsentMoves DEF Send, Unsent
<1>. QED
  BY <1>2, <1>3

\* Nothing is confirmed: what is waited for is waited for until it expires.
LEMMA AwaitingGoesOn ==
  ASSUME Assumptions, Typed, Commanded, AnswersKept, UNCHANGED <<now, call>>,
         NEW state, ~Confirms(state, now), pending' = Awaited(state, now)
  PROVE  Commanded'
<1>1. \/ pending' = pending
      \/ pending' = None /\ (pending # None => pending.expires <= now)
  BY DEF Awaited, Live
<1>2. /\ now \in Nat /\ Expiry \in Nat
      /\ \A c \in Call : call[c].at \in Nat
  BY DEF Typed, IsCall, Assumptions
<1>3. CommandsMatched'
  <2>1. \A d \in Call :
          /\ call[d].confirmable /\ call[d].pc \in {"switching", "pulse", "sent", "done"}
          /\ now < call[d].at + Expiry
          /\ \A r \in Answered : r.command.id # d
          => pending' # None /\ pending'.id = d
    BY <1>1, <1>2 DEF Commanded, CommandsMatched
  <2>. QED
    BY <2>1 DEF Commanded, CommandsMatched, AnswersKept
<1>. QED
  BY <1>1, <1>3 DEF Commanded, AnswersKept

(* A change of state answers the command that is waited for, or none, and  *)
(* afterwards nothing is waited for that could have been answered.         *)
LEMMA ChangeMatches ==
  ASSUME Assumptions, Typed, Reported, Commanded, UNCHANGED <<now, call>>,
         NEW e \in Entity, NEW s \in StateNames, NEW state, NEW evidence, NEW gone,
         tasks' = tasks \cup {Record(Number + 1, ConfirmedBy(state, now), evidence)},
         UNCHANGED <<log, lost>>,
         reports' = Append(reports, [entity |-> e, state |-> s, at |-> now]),
         pending' = Awaited(state, now)
  PROVE  Commanded'
<1>. DEFINE new == Record(Number + 1, ConfirmedBy(state, now), evidence)
<1>1. /\ Records' = Records \cup {new}
      /\ new.report = Number + 1 /\ new.command = ConfirmedBy(state, now)
  BY DEF Records, Record
<1>2. Number \in Nat /\ Number + 1 = Len(reports') /\ reports' \in Seq(ReportSet)
  BY DEF Reported, Number, ReportSet
<1>3. /\ reports'[Number + 1].at = now
      /\ \A n \in 1..Number : reports'[n] = reports[n]
  BY <1>2 DEF Reported, Number, ReportSet
<1>4. /\ now \in Nat /\ Expiry \in Nat
      /\ \A c \in Call : call[c].at \in Nat
  BY DEF Typed, IsCall, Assumptions
<1>5. \A r \in Answered : reports'[r.report] = Report(r.report)
  BY <1>3 DEF Answered, Reported, Report
<1>. HIDE DEF new
<1>6. CASE Confirms(state, now)
  <2>1. /\ pending # None /\ new.command = pending /\ pending' = None
        /\ pending.at <= now /\ now < pending.expires
    BY <1>1, <1>6 DEF Confirms, ConfirmedBy, Awaited, Live
  <2>2. Answered' = Answered \cup {new}
    BY <1>1, <2>1 DEF Answered
  <2>3. /\ new.command.id \in Call /\ call[new.command.id].pc \in Sent
        /\ \A r \in Answered : r.command.id # new.command.id
    BY <2>1 DEF Commanded
  <2>4. /\ new.command.at <= reports'[new.report].at
        /\ reports'[new.report].at < new.command.expires
    BY <1>1, <1>3, <2>1
  <2>5. CommandsMatched'
    <3>1. \A r \in Answered' :
            /\ \A q \in Answered' : q.command.id = r.command.id => q = r
            /\ r.command.at <= reports'[r.report].at
            /\ reports'[r.report].at < r.command.expires
      BY <1>5, <2>2, <2>3, <2>4 DEF Commanded, CommandsMatched
    <3>2. \A d \in Call :
            /\ call[d].confirmable /\ call[d].pc \in {"switching", "pulse", "sent", "done"}
            /\ now < call[d].at + Expiry
            => \E r \in Answered' : r.command.id = d
      BY <2>1, <2>2 DEF Commanded, CommandsMatched
    <3>. QED
      BY <3>1, <3>2 DEF CommandsMatched, Report
  <2>. QED
    BY <2>1, <2>2, <2>3, <2>5 DEF Commanded, Sent, Unsent
<1>7. CASE ~Confirms(state, now)
  <2>1. Answered' = Answered
    BY <1>1, <1>7 DEF ConfirmedBy, Answered
  <2>2. AnswersKept
    BY <1>5, <2>1 DEF AnswersKept, Report
  <2>. QED
    BY <1>7, <2>2, AwaitingGoesOn
<1>. QED
  BY <1>6, <1>7

\* Nothing that is recorded answers a command.
LEMMA NothingAnswered ==
  ASSUME NEW R, Records' = Records \cup R, \A r \in R : r.command = None, UNCHANGED reports
  PROVE  AnswersKept
  BY DEF AnswersKept, Answered, Report

\* Without a new record no command is answered.
LEMMA NothingRecorded ==
  ASSUME UNCHANGED <<tasks, log, lost, reports>>
  PROVE  AnswersKept
  BY DEF AnswersKept, Answered, Records, Report

\* Evidence explains unlocks that no command does.
LEMMA EvidenceAnswersNothing ==
  ASSUME NEW of, NEW observed, AcceptEvidence(of, observed), UNCHANGED <<reports, log, lost>>
  PROVE  AnswersKept
<1>1. CASE UNCHANGED tasks
  BY <1>1, NothingRecorded
<1>2. CASE tasks' = tasks \cup {Record(waiting.report, None, of)}
  <2>. DEFINE added == {Record(waiting.report, None, of)}
  <2>1. Records' = Records \cup added
    BY <1>2 DEF Records
  <2>2. \A r \in added : r.command = None
    BY DEF Record
  <2>. HIDE DEF added
  <2>. QED
    BY <2>1, <2>2, NothingAnswered
<1>. QED
  BY <1>1, <1>2 DEF AcceptEvidence

\* What is given up was to be explained by evidence.
LEMMA DroppingAnswersNothing ==
  ASSUME lost' \in {lost, lost \cup Dropped}, UNCHANGED <<tasks, log, reports>>
  PROVE  AnswersKept
<1>1. CASE lost' = lost
  BY <1>1, NothingRecorded
<1>2. CASE lost' = lost \cup Dropped
  <2>1. Records' = Records \cup Dropped
    BY <1>2 DEF Records
  <2>2. \A r \in Dropped : r.command = None
    BY DEF Dropped, Record
  <2>. QED
    BY <2>1, <2>2, NothingAnswered
<1>. QED
  BY <1>1, <1>2

\* Whatever a change is classified as, it answers the right command.
LEMMA StateChangesMatch ==
  ASSUME Assumptions, Typed, Reported, Commanded, UNCHANGED call,
         NEW e \in Entity, NEW s \in StateNames, StateChanges(e, s)
  PROVE  Commanded'
<1>. UNCHANGED <<now, log>>
  BY DEF StateChanges
<1>1. CASE Unremarkable(e, s)
  BY <1>1, NothingRecorded, CommandedKept DEF Unremarkable
<1>2. CASE Explained(e, s)
  BY <1>2, ChangeMatches DEF Explained
<1>3. CASE ClassifiedAtOnce(e, s)
  <2>1. ConfirmedBy(s, now) = None
    BY <1>3 DEF ClassifiedAtOnce, Unexplained
  <2>2. tasks' = tasks \cup {Record(Number + 1, ConfirmedBy(s, now), CachedEvidence)}
    BY <1>3, <2>1 DEF ClassifiedAtOnce
  <2>. QED
    BY <1>3, <2>2, ChangeMatches DEF ClassifiedAtOnce
<1>4. CASE QueueUnlock(e, s)
  <2>1. ~Confirms(s, now)
    BY <1>4 DEF QueueUnlock, Unexplained, ConfirmedBy, Confirms
  <2>2. Records' = Records \cup Dropped /\ \A r \in Dropped : r.command = None
    BY <1>4 DEF QueueUnlock, Records, Dropped, Record
  <2>3. Answered' = Answered
    BY <2>2 DEF Answered
  <2>4. \A n \in 1..Number : reports'[n] = reports[n]
    BY <1>4 DEF QueueUnlock, Reported, Number, ReportSet
  <2>5. AnswersKept
    BY <2>3, <2>4 DEF AnswersKept, Answered, Reported, Report
  <2>. QED
    BY <1>4, <2>1, <2>5, AwaitingGoesOn DEF QueueUnlock
<1>. QED
  BY <1>1, <1>2, <1>3, <1>4 DEF StateChanges

(* A keypad calls the command service only with a call that was not made. *)
Paired ==
  \A r \in Call :
    request[r].pc \in {"received", "queued", "looking", "deciding"} => call[r].pc = "idle"

CommandInv == Reported /\ Typed /\ Paired /\ Commanded

\* At first there is no command.
LEMMA CommandInit ==
  ASSUME Init
  PROVE  Typed /\ Paired /\ Commanded
<1>. Answered = {}
  BY DEF Init, Answered, Records
<1>. QED
  BY DEF Init, Typed, IsCall, IsRequest, CallFields, RequestFields, Origins, Idle, NoRequest,
         Paired, Commanded, CommandsMatched, Unsent

(* One step of a call of the command service. *)
LEMMA CommandsStep ==
  ASSUME Assumptions, CommandInv, Commands
  PROVE  Typed' /\ Paired' /\ Commanded'
<1>. UNCHANGED <<physicalVars, keypadVars, now>>
  BY DEF Commands, NewCall, ResolveState, Dispatch, DispatchReturns, DispatchRaises,
         SwitchOn, SwitchOff, physicalVars
<1>. /\ AnswersKept /\ UNCHANGED request
  BY NothingRecorded DEF physicalVars, keypadVars
<1>. Typed /\ Paired /\ Commanded
  BY DEF CommandInv
<1>1. ASSUME NEW c \in Call, CallMoves(c),
             request[c].pc \in {"received", "queued", "looking", "deciding"} => call[c].pc # "idle"
      PROVE  Typed' /\ Paired'
  BY <1>1 DEF Typed, Paired, CallMoves
<1>2. ASSUME NEW c \in Call, NewCall(c)
      PROVE  Typed' /\ Paired' /\ Commanded'
  <2>. "app" \in Origins /\ "nfc" \in Origins
    BY DEF Origins
  <2>1. ASSUME NEW operation, Execute(c, operation, "app", None)
        PROVE  CallMoves(c) /\ call'[c].pc = "resolving" /\ ~call'[c].confirmable
    BY <2>1, ExecuteMoves
  <2>2. ASSUME NEW p \in Person, Execute(c, "unlock", "nfc", p)
        PROVE  CallMoves(c) /\ call'[c].pc = "resolving" /\ ~call'[c].confirmable
    BY <2>2, ExecuteMoves
  <2>3. CallMoves(c) /\ call'[c].pc = "resolving" /\ ~call'[c].confirmable
    BY <1>2, <2>1, <2>2 DEF NewCall
  <2>4. Commanded'
    BY <1>2, <2>3, UnsentMoves DEF NewCall, Unsent
  <2>5. Typed' /\ Paired'
    BY <1>2, <2>3 DEF NewCall, Typed, Paired, CallMoves
  <2>. QED
    BY <2>4, <2>5
<1>3. ASSUME NEW c \in Call, ResolveState(c)
      PROVE  Typed' /\ Paired' /\ Commanded'
  <2>1. CallMoves(c) /\ call'[c].confirmable = call[c].confirmable
    <3>1. CASE Ends(c, "failed")
      BY <3>1, EndsMoves
    <3>2. CASE call' = [call EXCEPT ![c] = [@ EXCEPT !.pc = "resolved", !.saw = Visible]]
      BY <3>2 DEF Typed, CallMoves, IsCall, CallFields
    <3>. QED
      BY <1>3, <3>1, <3>2 DEF ResolveState
  <2>2. call[c].pc \in Unsent /\ ~call'[c].confirmable /\ UNCHANGED <<now, pending>>
    BY <1>3, <2>1 DEF ResolveState, Unsent, Commanded
  <2>3. Commanded'
    BY <2>1, <2>2, UnsentMoves
  <2>. QED
    BY <1>1, <1>3, <2>1, <2>3 DEF ResolveState
<1>4. ASSUME NEW c \in Call, Dispatch(c)
      PROVE  Typed' /\ Paired' /\ Commanded'
  <2>1. CASE Accepted(c) /\ Send(c)
    <3>1. CallMoves(c)
      BY <2>1, SendMoves
    <3>2. Commanded'
      BY <1>4, <2>1, CommandSent DEF Dispatch
    <3>. QED
      BY <1>1, <1>4, <3>1, <3>2 DEF Dispatch
  <2>2. CASE /\ \E how \in {"done", "failed"} : Ends(c, how)
             /\ UNCHANGED pending
    <3>1. CallMoves(c) /\ call'[c].confirmable = call[c].confirmable
      BY <2>2, EndsMoves
    <3>2. call[c].pc \in Unsent /\ ~call'[c].confirmable
      BY <1>4, <3>1 DEF Dispatch, Unsent, Commanded
    <3>3. Commanded'
      BY <2>2, <3>1, <3>2, UnsentMoves
    <3>. QED
      BY <1>1, <1>4, <3>1, <3>3 DEF Dispatch
  <2>. QED
    BY <1>4, <2>1, <2>2 DEF Dispatch
<1>5. ASSUME NEW c \in Call, DispatchReturns(c)
      PROVE  Typed' /\ Paired' /\ Commanded'
  <2>1. /\ CallMoves(c) /\ call'[c].pc = "done"
        /\ call'[c].at = call[c].at /\ call'[c].confirmable = call[c].confirmable
    BY <1>5, EndsMoves DEF DispatchReturns
  <2>2. Commanded'
    BY <1>5, <2>1, SentMoves DEF DispatchReturns, Sent
  <2>. QED
    BY <1>1, <1>5, <2>1, <2>2 DEF DispatchReturns
<1>6. ASSUME NEW c \in Call, DispatchRaises(c)
      PROVE  Typed' /\ Paired' /\ Commanded'
  <2>1. CallMoves(c) /\ call'[c].pc = "failed"
    BY <1>6, EndsMoves DEF DispatchRaises
  <2>2. Commanded'
    BY <1>6, <2>1, SentFails DEF DispatchRaises, Sent
  <2>. QED
    BY <1>1, <1>6, <2>1, <2>2 DEF DispatchRaises
<1>7. ASSUME NEW c \in Call, SwitchOn(c)
      PROVE  Typed' /\ Paired' /\ Commanded'
  <2>1. /\ CallMoves(c) /\ call'[c].pc = "pulse"
        /\ call'[c].at = call[c].at /\ call'[c].confirmable = call[c].confirmable
    BY <1>7 DEF SwitchOn, Typed, CallMoves, IsCall, CallFields
  <2>2. Commanded'
    BY <1>7, <2>1, SentMoves DEF SwitchOn, Sent
  <2>. QED
    BY <1>1, <1>7, <2>1, <2>2 DEF SwitchOn
<1>8. ASSUME NEW c \in Call, SwitchOff(c)
      PROVE  Typed' /\ Paired' /\ Commanded'
  <2>. PICK raised \in BOOLEAN :
         /\ Ends(c, IF raised THEN "failed" ELSE "done")
         /\ pending' = IF raised /\ call[c].confirmable THEN Cancelled(c) ELSE pending
    BY <1>8 DEF SwitchOff
  <2>1. /\ CallMoves(c) /\ call'[c].pc = (IF raised THEN "failed" ELSE "done")
        /\ call'[c].at = call[c].at /\ call'[c].confirmable = call[c].confirmable
    BY EndsMoves
  <2>2. Commanded'
    <3>1. CASE raised
      BY <1>8, <2>1, <3>1, SentFails DEF SwitchOff, Sent
    <3>2. CASE ~raised
      BY <1>8, <2>1, <3>2, SentMoves DEF SwitchOff, Sent
    <3>. QED
      BY <3>1, <3>2
  <2>. QED
    BY <1>1, <1>8, <2>1, <2>2 DEF SwitchOff
<1>. QED
  BY <1>2, <1>3, <1>4, <1>5, <1>6, <1>7, <1>8 DEF Commands

\* What concerns neither calls nor requests, and answers no command.
LEMMA CommandsStay ==
  ASSUME Assumptions, CommandInv, AnswersKept, UNCHANGED <<call, request, pending>>,
         now' \in {now, now + 1}
  PROVE  Typed' /\ Paired' /\ Commanded'
<1>1. Typed' /\ Paired'
  BY DEF CommandInv, Typed, Paired
<1>. QED
  BY <1>1, CommandedKept DEF CommandInv

(* One step of a request of the keypad. *)
LEMMA KeypadStep ==
  ASSUME Assumptions, CommandInv, Keypad
  PROVE  Typed' /\ Paired' /\ Commanded'
<1>. UNCHANGED <<physicalVars, now, pending>>
  BY DEF Keypad, ReceiveZigbee2Mqtt, ReceiveZha, ManagedDevice, BeginProcessing,
         ResolvePersonId, Authorize, RecordFailure, FinishProcessing
<1>. AnswersKept
  BY NothingRecorded DEF physicalVars
<1>. Typed /\ Paired /\ Commanded
  BY DEF CommandInv
<1>1. ASSUME NEW r \in Call, UNCHANGED call,
             DOMAIN request' = Call, \A q \in Call \ {r} : request'[q] = request[q],
             IsRequest(request'[r]),
             request'[r].pc \in {"received", "queued", "looking", "deciding"} => call[r].pc = "idle"
      PROVE  Typed' /\ Paired' /\ Commanded'
  <2>1. Commanded'
    BY <1>1, CommandedKept
  <2>2. Typed' /\ Paired'
    BY <1>1 DEF Typed, Paired
  <2>. QED
    BY <2>1, <2>2
<1>2. ASSUME NEW r \in Call, NEW t, ReceiveZigbee2Mqtt(r, t)
      PROVE  Typed' /\ Paired' /\ Commanded'
  BY <1>1, <1>2 DEF ReceiveZigbee2Mqtt, commandVars, Typed, IsRequest, RequestFields
<1>3. ASSUME NEW r \in Call, ReceiveZha(r)
      PROVE  Typed' /\ Paired' /\ Commanded'
  BY <1>1, <1>3 DEF ReceiveZha, commandVars, Typed, IsRequest, RequestFields
<1>4. ASSUME NEW r \in Call, ManagedDevice(r)
      PROVE  Typed' /\ Paired' /\ Commanded'
  BY <1>1, <1>4 DEF ManagedDevice, Moves, commandVars, Typed, Paired, IsRequest, RequestFields
<1>5. ASSUME NEW r \in Call, BeginProcessing(r)
      PROVE  Typed' /\ Paired' /\ Commanded'
  BY <1>1, <1>5 DEF BeginProcessing, Moves, Answers, commandVars, Typed, Paired, IsRequest,
                    RequestFields
<1>6. ASSUME NEW r \in Call, ResolvePersonId(r)
      PROVE  Typed' /\ Paired' /\ Commanded'
  BY <1>1, <1>6 DEF ResolvePersonId, Failed, Answers, Moves, commandVars, Typed, Paired, IsRequest,
                    RequestFields
<1>7. ASSUME NEW r \in Call, Authorize(r)
      PROVE  Typed' /\ Paired' /\ Commanded'
  <2>1. CASE (Failed(r, "recording") \/ Answers(r, "not_ready")) /\ UNCHANGED call
    BY <1>1, <2>1 DEF Failed, Answers, Moves, Typed, IsRequest, RequestFields
  <2>2. CASE /\ Moves(r, "executing")
             /\ \E operation \in {"lock", "unlock"} :
                  Execute(r, operation, "keypad", request[r].person)
    <3>1. request[r].person \in Person \cup {None} /\ "keypad" \in Origins
      BY DEF Typed, IsRequest, Origins
    <3>2. CallMoves(r) /\ call'[r].pc = "resolving" /\ ~call'[r].confirmable
      BY <2>2, <3>1, ExecuteMoves
    <3>3. call[r].pc = "idle"
      BY <1>7 DEF Authorize, Paired
    <3>4. Commanded'
      BY <3>2, <3>3, UnsentMoves DEF Unsent
    <3>5. /\ DOMAIN request' = Call /\ \A q \in Call \ {r} : request'[q] = request[q]
          /\ IsRequest(request'[r]) /\ request'[r].pc = "executing"
      BY <2>2 DEF Moves, Typed, IsRequest, RequestFields
    <3>6. Typed' /\ Paired'
      BY <3>2, <3>5 DEF Typed, Paired, CallMoves
    <3>. QED
      BY <3>4, <3>6
  <2>. QED
    BY <1>7, <2>1, <2>2 DEF Authorize
<1>8. ASSUME NEW r \in Call, RecordFailure(r)
      PROVE  Typed' /\ Paired' /\ Commanded'
  BY <1>1, <1>8 DEF RecordFailure, Answers, commandVars, Typed, IsRequest, RequestFields
<1>9. ASSUME NEW r \in Call, FinishProcessing(r)
      PROVE  Typed' /\ Paired' /\ Commanded'
  BY <1>1, <1>9 DEF FinishProcessing, Answers, commandVars, Typed, IsRequest, RequestFields
<1>. QED
  BY <1>2, <1>3, <1>4, <1>5, <1>6, <1>7, <1>8, <1>9 DEF Keypad

\* Setting up forgets the commands, and no call of before is waited for.
LEMMA SetUpStep ==
  ASSUME Assumptions, CommandInv, SetUp
  PROVE  Typed' /\ Paired' /\ Commanded'
<1>. UNCHANGED <<request, now, tasks, log, lost, reports>> /\ pending' = None
  BY DEF SetUp, Start, ResetKeypad
<1>1. Answered' = Answered
  BY DEF Answered, Records
<1>2. /\ DOMAIN call' = Call
      /\ \A c \in Call : call'[c] = IF call[c].pc = "idle" THEN Idle
                                     ELSE [Idle EXCEPT !.pc = "done"]
  BY DEF SetUp
<1>3. \A c \in Call : /\ IsCall(call'[c]) /\ ~call'[c].confirmable
                      /\ call'[c].pc = IF call[c].pc = "idle" THEN "idle" ELSE "done"
  BY <1>2 DEF Idle, IsCall, CallFields, Origins
<1>4. Typed' /\ Paired'
  BY <1>2, <1>3 DEF CommandInv, Typed, Paired
<1>5. \A r \in Answered : /\ r.command.id \in Call
                          /\ call'[r.command.id].pc \notin Unsent
  BY <1>3 DEF CommandInv, Commanded, Unsent
<1>6. CommandsMatched'
  <2>1. \A r \in Answered :
          /\ \A q \in Answered : q.command.id = r.command.id => q = r
          /\ r.command.at <= reports'[r.report].at
          /\ reports'[r.report].at < r.command.expires
    BY DEF CommandInv, Commanded, CommandsMatched, Report
  <2>. QED
    BY <1>1, <1>3, <2>1 DEF CommandsMatched, Report
<1>7. Commanded'
  BY <1>1, <1>3, <1>5, <1>6 DEF Commanded
<1>. QED
  BY <1>4, <1>7

\* Every step keeps the account of the commands.
LEMMA CommandStep ==
  ASSUME Assumptions, CommandInv, [Next]_vars
  PROVE  CommandInv'
<1>. Reported /\ Typed /\ Commanded
  BY DEF CommandInv
<1>. SUFFICES Typed' /\ Paired' /\ Commanded'
  BY ReportedStep DEF CommandInv
<1>1. CASE Tick
  BY <1>1, NothingRecorded, CommandsStay DEF Tick, physicalVars, commandVars, keypadVars
<1>2. CASE Physical
  <2>1. ASSUME NEW e \in Entity, NEW s \in StateNames, HAChanges(e, s)
        PROVE  Typed' /\ Paired' /\ Commanded'
    <3>1. Commanded'
      BY <2>1, StateChangesMatch DEF HAChanges, commandVars
    <3>2. Typed' /\ Paired'
      BY <2>1 DEF HAChanges, StateChanges, commandVars, keypadVars, CommandInv, Typed, Paired
    <3>. QED
      BY <3>1, <3>2
  <2>2. ASSUME NEW s \in LockStates, HAChanges("lock", s)
        PROVE  Typed' /\ Paired' /\ Commanded'
    <3>1. s \in StateNames /\ "lock" \in Entity
      BY DEF LockStates, StateNames, Entity
    <3>. QED
      BY <2>1, <2>2, <3>1
  <2>3. ASSUME NEW s \in ContactStates, HAChanges("contact", s)
        PROVE  Typed' /\ Paired' /\ Commanded'
    <3>1. s \in StateNames /\ "contact" \in Entity
      BY DEF ContactStates, StateNames, Entity, Stable
    <3>. QED
      BY <2>1, <2>3, <3>1
  <2>4. ASSUME NEW of, NotificationArrives(of) PROVE Typed' /\ Paired' /\ Commanded'
    BY <2>4, EvidenceAnswersNothing, CommandsStay
       DEF NotificationArrives, HandleNotification, commandVars, keypadVars
  <2>5. ASSUME NEW of, NukiLogs(of) PROVE Typed' /\ Paired' /\ Commanded'
    BY <2>5, NothingRecorded, CommandsStay DEF NukiLogs, physicalVars, commandVars, keypadVars
  <2>6. CASE /\ \/ ExpirePendingUnlock \/ DiscardUnlockEvidence
                \/ (\E t \in tasks : RecordTransition(t)) \/ Refresh(Entities)
             /\ UNCHANGED <<commandVars, keypadVars>>
    <3>. UNCHANGED <<call, request, pending, now>>
      BY <2>6 DEF ExpirePendingUnlock, DiscardUnlockEvidence, RecordTransition, Refresh,
                  commandVars, keypadVars
    <3>1. CASE ExpirePendingUnlock
      <4>. DEFINE added == {Record(waiting.report, None, Unknown)}
      <4>1. Records' = Records \cup added /\ UNCHANGED reports
        BY <3>1 DEF ExpirePendingUnlock, Records
      <4>2. \A r \in added : r.command = None
        BY DEF Record
      <4>. HIDE DEF added
      <4>. QED
        BY <4>1, <4>2, NothingAnswered, CommandsStay
    <3>2. CASE DiscardUnlockEvidence
      BY <3>2, NothingRecorded, CommandsStay DEF DiscardUnlockEvidence
    <3>3. CASE \E t \in tasks : RecordTransition(t)
      <4>1. Records' = Records /\ UNCHANGED reports
        BY <3>3 DEF RecordTransition, Records
      <4>. QED
        BY <4>1, CommandsStay DEF AnswersKept, Answered, Report
    <3>4. CASE Refresh(Entities)
      <4>1. lost' \in {lost, lost \cup Dropped} /\ UNCHANGED <<tasks, log, reports>>
        BY <3>4 DEF Refresh, ReplaceMonitored
      <4>. QED
        BY <4>1, DroppingAnswersNothing, CommandsStay
    <3>. QED
      BY <2>6, <3>1, <3>2, <3>3, <3>4
  <2>. QED
    BY <1>2, <2>2, <2>3, <2>4, <2>5, <2>6 DEF Physical
<1>3. CASE Reader
  <2>. UNCHANGED <<call, request>>
    BY <1>3 DEF Reader, commandVars, keypadVars
  <2>1. ASSUME NEW q \in Poller, Process(q), UNCHANGED <<now, pending, reports, log, lost>>
        PROVE  Typed' /\ Paired' /\ Commanded'
    <3>1. CASE UNCHANGED tasks
      BY <2>1, <3>1, NothingRecorded, CommandsStay
    <3>. QED
      BY <2>1, <3>1, EvidenceAnswersNothing, CommandsStay DEF Process
  <2>2. CASE UNCHANGED <<now, pending, physicalVars>>
    BY <2>2, NothingRecorded, CommandsStay DEF physicalVars
  <2>. QED
    BY <1>3, <2>1, <2>2 DEF Reader
<1>4. CASE Commands
  BY <1>4, CommandsStep
<1>5. CASE Keypad
  BY <1>5, KeypadStep
<1>6. CASE Edits \/ UnloadKeypad
  <2>. UNCHANGED <<now, pending, physicalVars, call, request>>
    BY <1>6 DEF Edits, UpdateOpenPolicy, UpdatePolicy, UpdateKeypad, UnloadKeypad, StopListening,
                commandVars, keypadVars
  <2>. QED
    BY NothingRecorded, CommandsStay DEF physicalVars
<1>7. CASE UnloadAudit \/ UnloadPhysical
  <2>. UNCHANGED <<now, pending, call, request>>
    BY <1>7 DEF UnloadAudit, UnloadPhysical, Stop, commandVars, keypadVars
  <2>1. lost' \in {lost, lost \cup Dropped} /\ UNCHANGED <<tasks, log, reports>>
    BY <1>7 DEF UnloadAudit, UnloadPhysical, Stop
  <2>. QED
    BY <2>1, DroppingAnswersNothing, CommandsStay
<1>8. CASE SetUp
  BY <1>8, SetUpStep
<1>9. CASE UNCHANGED vars
  BY <1>9, NothingRecorded, CommandsStay DEF vars, physicalVars, commandVars, keypadVars
<1>. QED
  BY <1>1, <1>2, <1>3, <1>4, <1>5, <1>6, <1>7, <1>8, <1>9 DEF Next

(* CommandsMatched: a command that was sent is waited for until a change  *)
(* confirms it, it fails or its time is over, and explains at most one    *)
(* change, in its time; for any number of calls that overlap in any way.  *)
THEOREM CommandsMatchedAlways == Spec => []CommandsMatched
<1>1. Init => CommandInv
  BY ReportedInit, CommandInit DEF CommandInv
<1>2. CommandInv /\ [Next]_vars => CommandInv'
  BY Assumptions, CommandStep
<1>3. CommandInv => CommandsMatched
  BY DEF CommandInv, Commanded
<1>. QED
  BY <1>1, <1>2, <1>3, PTL DEF Spec

(***************************************************************************)
(* Transactions of a Zigbee2MQTT keypad.  A request that is admitted, and  *)
(* not turned away, is one of the transaction that was not seen for so     *)
(* long; unloading forgets what was seen.                                  *)
(***************************************************************************)
Admitted(r) ==
  request[r].transaction # None /\ ~(request[r].pc = "done" /\ call[r].pc = "idle")

Apart(r, q) ==
  \/ request[r].received - request[q].received > TransactionTtl
  \/ request[q].received - request[r].received > TransactionTtl

Transacted ==
  /\ restarts \in Nat
  /\ DOMAIN seen = Transactions
  /\ \A t \in Transactions : seen[t] # None => seen[t] \in Nat /\ seen[t] <= now
  /\ \A r \in Call : request[r].pc = "idle" => request[r].transaction = None
  /\ restarts = 0 =>
       /\ listening /\ started
       /\ \A r \in Call : Admitted(r) =>
            /\ request[r].transaction \in Transactions
            /\ request[r].received \in Nat
            /\ seen[request[r].transaction] \in Nat
            /\ request[r].received <= seen[request[r].transaction]
       /\ \A r, q \in Call :
            /\ r # q /\ Admitted(r) /\ Admitted(q)
            /\ request[r].transaction = request[q].transaction
            => Apart(r, q)

TransactionInv == CommandInv /\ Transacted

\* At first no transaction was seen.
LEMMA TransactionInit ==
  ASSUME Init
  PROVE  Transacted
  BY DEF Init, Transacted, NoRequest, Admitted

\* Nobody is admitted anew.
LEMMA NoneAdmitted ==
  ASSUME TransactionInv, UNCHANGED <<restarts, listening, seen>>,
         restarts = 0 => started', now' \in {now, now + 1},
         \A r \in Call :
           /\ request'[r].transaction = request[r].transaction
           /\ request'[r].pc = "idle" => request[r].pc = "idle"
           /\ Admitted(r)' => Admitted(r) /\ request'[r].received = request[r].received
  PROVE  Transacted'
<1>1. now \in Nat
  BY DEF TransactionInv, CommandInv, Typed
<1>2. restarts = 0 =>
        \A r \in Call : Admitted(r)' =>
          /\ request'[r].transaction \in Transactions
          /\ request'[r].received \in Nat
          /\ seen'[request'[r].transaction] \in Nat
          /\ request'[r].received <= seen'[request'[r].transaction]
  BY DEF TransactionInv, Transacted
<1>3. restarts = 0 =>
        \A r, q \in Call :
          /\ r # q /\ Admitted(r)' /\ Admitted(q)'
          /\ request'[r].transaction = request'[q].transaction
          => Apart(r, q)'
  BY DEF TransactionInv, Transacted, Apart
<1>. QED
  BY <1>1, <1>2, <1>3 DEF TransactionInv, Transacted

\* A message arrives, for the first time or again.
LEMMA ReceiveTransacts ==
  ASSUME Assumptions, TransactionInv, NEW r \in Call, NEW t \in Transactions,
         ReceiveZigbee2Mqtt(r, t), UNCHANGED restarts
  PROVE  Transacted'
<1>. UNCHANGED <<now, call, listening, started>>
  BY DEF ReceiveZigbee2Mqtt, physicalVars, commandVars
<1>1. now \in Nat /\ DOMAIN request = Call /\ TransactionTtl \in Nat /\ None \notin Nat
  BY DEF TransactionInv, CommandInv, Typed, Assumptions
<1>2. IsRequest(request[r])
  BY DEF TransactionInv, CommandInv, Typed
<1>3. CASE Fresh(t)
  <2>1. /\ DOMAIN request' = Call /\ \A q \in Call \ {r} : request'[q] = request[q]
        /\ request'[r].pc = "received" /\ request'[r].transaction = t
        /\ request'[r].received = now
        /\ seen' = [seen EXCEPT ![t] = now]
    BY <1>1, <1>2, <1>3 DEF ReceiveZigbee2Mqtt, IsRequest, RequestFields
  <2>2. \A q \in Call \ {r} : Admitted(q)' = Admitted(q)
    BY <2>1 DEF Admitted
  <2>3. restarts = 0 =>
          \A q \in Call \ {r} : Admitted(q) /\ request[q].transaction = t
            => now - request[q].received > TransactionTtl /\ request[q].received \in Nat
    BY <1>1, <1>3 DEF TransactionInv, Transacted, Fresh
  <2>4. restarts = 0 =>
          \A q \in Call : Admitted(q)' =>
            /\ request'[q].transaction \in Transactions
            /\ request'[q].received \in Nat
            /\ seen'[request'[q].transaction] \in Nat
            /\ request'[q].received <= seen'[request'[q].transaction]
    BY <1>1, <2>1, <2>2 DEF TransactionInv, Transacted
  <2>5. restarts = 0 =>
          \A p, q \in Call :
            /\ p # q /\ Admitted(p)' /\ Admitted(q)'
            /\ request'[p].transaction = request'[q].transaction
            => Apart(p, q)'
    BY <2>1, <2>2, <2>3 DEF TransactionInv, Transacted, Apart
  <2>. QED
    BY <1>1, <2>1, <2>4, <2>5 DEF TransactionInv, Transacted
<1>4. CASE ~Fresh(t)
  <2>1. /\ DOMAIN request' = Call /\ \A q \in Call \ {r} : request'[q] = request[q]
        /\ request'[r].pc = "done" /\ call[r].pc = "idle"
        /\ seen' = seen
    BY <1>1, <1>2, <1>4 DEF ReceiveZigbee2Mqtt, IsRequest, RequestFields
  <2>2. ~Admitted(r)' /\ \A q \in Call \ {r} : Admitted(q)' = Admitted(q)
    BY <2>1 DEF Admitted
  <2>3. restarts = 0 =>
          \A p, q \in Call :
            /\ p # q /\ Admitted(p)' /\ Admitted(q)'
            /\ request'[p].transaction = request'[q].transaction
            => Apart(p, q)'
    BY <2>1, <2>2 DEF TransactionInv, Transacted, Apart
  <2>4. restarts = 0 =>
          \A q \in Call : Admitted(q)' =>
            /\ request'[q].transaction \in Transactions
            /\ request'[q].received \in Nat
            /\ seen'[request'[q].transaction] \in Nat
            /\ request'[q].received <= seen'[request'[q].transaction]
    BY <2>1, <2>2 DEF TransactionInv, Transacted
  <2>. QED
    BY <2>1, <2>3, <2>4 DEF TransactionInv, Transacted
<1>. QED
  BY <1>3, <1>4

\* Every step keeps the account of the transactions.
LEMMA TransactionStep ==
  ASSUME Assumptions, TransactionInv, [Next]_vars
  PROVE  TransactionInv'
<1>. /\ CommandInv /\ Transacted /\ Typed
     /\ restarts = 0 => listening /\ started
  BY DEF TransactionInv, CommandInv, Transacted
<1>. SUFFICES Transacted'
  BY CommandStep DEF TransactionInv
<1>1. CASE UNCHANGED <<restarts, call, keypadVars>> /\ now' \in {now, now + 1}
           /\ (listening => started' = started)
  BY <1>1, NoneAdmitted DEF keypadVars, Admitted
<1>2. CASE Tick
  BY <1>1, <1>2 DEF Tick, physicalVars, commandVars, otherVars
<1>3. CASE Physical
  <2>. UNCHANGED <<restarts, call, keypadVars, now, started>>
    BY <1>3 DEF Physical, HAChanges, StateChanges, NotificationArrives, HandleNotification, NukiLogs,
         ExpirePendingUnlock, DiscardUnlockEvidence, RecordTransition, Refresh, physicalVars,
         commandVars, otherVars
  <2>. QED
    BY <1>1
<1>4. CASE Reader
  <2>. UNCHANGED <<restarts, call, keypadVars, now, started>>
    BY <1>4 DEF Reader, physicalVars, commandVars
  <2>. QED
    BY <1>1
<1>5. CASE Commands
  <2>. UNCHANGED <<restarts, listening, seen, started, request, now>>
    BY <1>5 DEF Commands, NewCall, ResolveState, Dispatch, DispatchReturns, DispatchRaises,
         SwitchOn, SwitchOff, physicalVars, keypadVars, otherVars
  <2>1. \A r \in Call : Admitted(r)' => Admitted(r)
    <3>. SUFFICES ASSUME NEW r \in Call, request[r].pc = "done", request[r].transaction # None,
                         call[r].pc = "idle"
                  PROVE  call'[r].pc = "idle"
      BY DEF Admitted
    <3>1. PICK c \in Call :
            \/ NewCall(c) \/ ResolveState(c) \/ Dispatch(c) \/ DispatchReturns(c)
            \/ DispatchRaises(c) \/ SwitchOn(c) \/ SwitchOff(c)
      BY <1>5 DEF Commands
    <3>2. c # r
      BY <3>1 DEF NewCall, ResolveState, Dispatch, DispatchReturns, DispatchRaises, SwitchOn,
                  SwitchOff
    <3>3. call'[r] = call[r]
      BY <3>1, <3>2 DEF NewCall, ResolveState, Dispatch, DispatchReturns, DispatchRaises, SwitchOn,
                  SwitchOff, Execute, Ends, Send, Typed
    <3>. QED
      BY <3>3
  <2>. QED
    BY <2>1, NoneAdmitted
<1>6. CASE Keypad
  <2>. UNCHANGED <<restarts, listening, started, now>>
    BY <1>6 DEF Keypad, ReceiveZigbee2Mqtt, ReceiveZha, ManagedDevice, BeginProcessing,
         ResolvePersonId, Authorize, RecordFailure, FinishProcessing, physicalVars, otherVars
  <2>1. ASSUME NEW r \in Call, NEW t \in Transactions, ReceiveZigbee2Mqtt(r, t)
        PROVE  Transacted'
    BY <2>1, ReceiveTransacts
  <2>2. ASSUME NEW r \in Call, UNCHANGED seen,
               \A q \in Call \ {r} : request'[q] = request[q] /\ call'[q] = call[q],
               request'[r].transaction = request[r].transaction, request'[r].pc # "idle",
               Admitted(r)' => Admitted(r) /\ request'[r].received = request[r].received
        PROVE  Transacted'
    <3>1. \A q \in Call :
            /\ request'[q].transaction = request[q].transaction
            /\ request'[q].pc = "idle" => request[q].pc = "idle"
            /\ Admitted(q)' => Admitted(q) /\ request'[q].received = request[q].received
      BY <2>2 DEF Admitted
    <3>. QED
      BY <2>2, <3>1, NoneAdmitted
  <2>3. ASSUME NEW r \in Call, ReceiveZha(r) PROVE Transacted'
    BY <2>2, <2>3 DEF ReceiveZha, Typed, IsRequest, RequestFields, commandVars, Admitted, Transacted
  <2>4. ASSUME NEW r \in Call, ManagedDevice(r) PROVE Transacted'
    BY <2>2, <2>4 DEF ManagedDevice, Moves, Typed, IsRequest, RequestFields, commandVars, Admitted
  <2>5. ASSUME NEW r \in Call, BeginProcessing(r) PROVE Transacted'
    BY <2>2, <2>5 DEF BeginProcessing, Moves, Answers, Typed, IsRequest, RequestFields, commandVars,
                      Admitted
  <2>6. ASSUME NEW r \in Call, ResolvePersonId(r) PROVE Transacted'
    BY <2>2, <2>6 DEF ResolvePersonId, Failed, Answers, Moves, Typed, IsRequest, RequestFields,
                      commandVars, Admitted
  <2>7. ASSUME NEW r \in Call, Authorize(r) PROVE Transacted'
    BY <2>2, <2>7 DEF Authorize, Failed, Answers, Moves, Execute, Typed, IsRequest, RequestFields,
                      Admitted
  <2>8. ASSUME NEW r \in Call, RecordFailure(r) PROVE Transacted'
    BY <2>2, <2>8 DEF RecordFailure, Answers, Typed, IsRequest, RequestFields, commandVars, Admitted
  <2>9. ASSUME NEW r \in Call, FinishProcessing(r) PROVE Transacted'
    BY <2>2, <2>9 DEF FinishProcessing, Answers, Typed, IsRequest, RequestFields, commandVars,
                      Admitted
  <2>. QED
    BY <1>6, <2>1, <2>3, <2>4, <2>5, <2>6, <2>7, <2>8, <2>9 DEF Keypad
<1>7. CASE Edits
  <2>. UNCHANGED <<restarts, listening, seen, started, request, call, now>>
    BY <1>7 DEF Edits, UpdateOpenPolicy, UpdatePolicy, UpdateKeypad, physicalVars, commandVars,
                keypadVars
  <2>. QED
    BY NoneAdmitted DEF Admitted
<1>8. CASE UnloadKeypad
  BY <1>8 DEF UnloadKeypad, StopListening, Transacted
<1>9. CASE UnloadAudit \/ UnloadPhysical
  BY <1>1, <1>9 DEF UnloadAudit, UnloadPhysical, Stop, otherVars, commandVars
<1>10. CASE SetUp
  BY <1>10 DEF SetUp, Start, ResetKeypad, otherVars, Transacted
<1>11. CASE UNCHANGED vars
  BY <1>1, <1>11 DEF vars, otherVars, commandVars, physicalVars
<1>. QED
  BY <1>2, <1>3, <1>4, <1>5, <1>6, <1>7, <1>8, <1>9, <1>10, <1>11 DEF Next

(* TransactionsActOnce: a message that MQTT delivers again within the time *)
(* of its transaction makes no second call, until the integration is       *)
(* unloaded; for any transactions, delays and requests that overlap.       *)
THEOREM TransactionsActOnceAlways == Spec => []TransactionsActOnce
<1>1. Init => TransactionInv
  BY ReportedInit, CommandInit, TransactionInit DEF TransactionInv, CommandInv
<1>2. TransactionInv /\ [Next]_vars => TransactionInv'
  BY Assumptions, TransactionStep
<1>3. TransactionInv => TransactionsActOnce
  BY DEF TransactionInv, Transacted, TransactionsActOnce, Admitted, Apart
<1>. QED
  BY <1>1, <1>2, <1>3, PTL DEF Spec

(***************************************************************************)
(* Fingerprints.  While an observation of a finger is on its way from the  *)
(* log to the link, the authorization that it is about is taken away at    *)
(* most, and never given anew: of what goes on meanwhile one step passes.  *)
(***************************************************************************)
Links == [slot : CodeId, status : {"awaiting_nuki_app", "enrolled_unverified", "confirmed"},
          updated : Int]

Earliest(left) == CHOOSE n \in left : \A m \in left : n <= m

Before == {p \in Nat \X Nat : p[1] < p[2]}

\* The record that is processed is the first of those that are left.
LEMMA EarliestIsLeft ==
  ASSUME NEW left, left \subseteq Nat, left # {}
  PROVE  Earliest(left) \in left /\ \A m \in left : Earliest(left) <= m
<1>1. IsWellFoundedOn(Before, Nat)
  BY NatLessThanWellFounded DEF OpToRel, Before
<1>2. PICK x \in left : \A y \in left : ~(<<y, x>> \in Before)
  BY <1>1, WFMin
<1>3. \A y \in left : x <= y
  <2>. TAKE y \in left
  <2>1. ~(y < x) /\ x \in Nat /\ y \in Nat
    BY <1>2 DEF Before
  <2>. QED
    BY <2>1
<1>. QED
  BY <1>3 DEF Earliest

\* The log tells that a finger opened the door since then.
Shows(slot, since) ==
  \E n \in 1..Len(audit) :
    audit[n].finger /\ audit[n].at >= since /\ audit[n].slot \in {None, slot}

Linking ==
  /\ audit \in Seq(Entries)
  /\ access \in [Owner -> Access \cup {None}]
  /\ link \in [Owner -> Links \cup {None}]
  /\ \A o \in Owner : access[o] # None => access[o].since <= now
  /\ \A o \in Owner : link[o] # None =>
       /\ access[o] # None /\ access[o].stage # "gone"
       /\ link[o].slot = access[o].slot /\ access[o].since <= link[o].updated
       /\ link[o].status = "confirmed" => Shows(access[o].slot, access[o].since)

\* What an observation has seen is still so, or one step has passed.
Observed(p) ==
  /\ p.pc \in {"door", "loading", "resolving", "confirming", "recording"} =>
       p.left \subseteq 1..Len(audit) /\ p.left # {}
  /\ p.pc \in {"loading", "resolving"} => audit[Earliest(p.left)].finger
  /\ p.pc \in {"resolving", "confirming"} => p.passed \in BOOLEAN /\ "passed" \in DOMAIN p
  /\ p.pc = "resolving" =>
       /\ p.links \in [Owner -> Links \cup {None}]
       /\ \A o \in Owner : p.links[o] # None =>
            /\ access[o] # None /\ access[o].slot = p.links[o].slot
            /\ access[o].since <= p.links[o].updated
            /\ p.passed \/ access[o].stage # "gone"
  /\ p.pc = "confirming" =>
       /\ p.owner \in Owner /\ access[p.owner] # None
       /\ access[p.owner].slot = p.slot
       /\ p.passed \/ access[p.owner].stage # "gone"
       /\ Shows(p.slot, access[p.owner].since)

Observing == DOMAIN poll = Poller /\ \A q \in Poller : Observed(poll[q])

FingerInv == Reported /\ Linking /\ Observing

\* At first nobody is enrolled.
LEMMA FingerInit ==
  ASSUME Init, Assumptions
  PROVE  Linking /\ Observing
<1>. PICK i \in Installations : access = i.access /\ audit = i.audit
  BY DEF Init
<1>1. Linking
  BY DEF Init, Assumptions, Linking
<1>2. Observing
  BY DEF Init, Observing, Observed, Poller, NoPoll, Polling
<1>. QED
  BY <1>1, <1>2

\* Time passes, and pollers start or stop.
LEMMA PollersChange ==
  ASSUME FingerInv, UNCHANGED <<audit, access, link>>, now' \in {now, now + 1},
         DOMAIN poll' = Poller,
         \A q \in Poller :
           poll'[q] = poll[q] \/ poll'[q].pc \in {"idle", "waiting", "reading"}
  PROVE  Linking' /\ Observing'
<1>1. Linking'
  <2>1. \A o \in Owner : access[o] # None => access[o].since <= now'
    <3>. SUFFICES ASSUME NEW o \in Owner, access[o] # None
                  PROVE  access[o].since <= now'
      OBVIOUS
    <3>1. access[o].since \in Int /\ access[o].since <= now /\ now \in Nat
      BY DEF FingerInv, Reported, Linking, Access
    <3>. QED
      BY <3>1
  <2>. QED
    BY <2>1 DEF FingerInv, Linking, Shows
<1>2. Observing'
  BY DEF FingerInv, Observing, Observed, Shows
<1>. QED
  BY <1>1, <1>2

\* One poller goes on.
LEMMA PollerGoesOn ==
  ASSUME FingerInv, UNCHANGED <<audit, access, link, now>>, NEW q \in Poller, NEW p,
         Becomes(q, p), Observed(p)
  PROVE  Linking' /\ Observing'
<1>1. Linking'
  BY DEF FingerInv, Linking, Shows
<1>2. \A r \in Poller : Observed(poll'[r])
  BY DEF FingerInv, Observing, Becomes
<1>3. Observing'
  BY <1>2 DEF FingerInv, Observing, Observed, Shows, Becomes
<1>. QED
  BY <1>1, <1>3

\* The lock writes a record, and those before it stay.
LEMMA LogGrows ==
  ASSUME FingerInv, NEW r \in Entries, LockLogs(r), UNCHANGED <<linkVars, now>>
  PROVE  Linking' /\ Observing'
<1>1. /\ audit' \in Seq(Entries) /\ Len(audit') = Len(audit) + 1 /\ Len(audit) \in Nat
      /\ \A n \in 1..Len(audit) : audit'[n] = audit[n]
      /\ UNCHANGED <<poll, access, link>>
  BY DEF LockLogs, FingerInv, Linking, linkVars
<1>2. \A slot, since : Shows(slot, since) => Shows(slot, since)'
  BY <1>1 DEF Shows
<1>3. Linking'
  BY <1>1, <1>2 DEF FingerInv, Linking
<1>4. ASSUME NEW q \in Poller
      PROVE  Observed(poll[q])'
  <2>1. Observed(poll[q])
    BY DEF FingerInv, Observing
  <2>2. poll[q].pc \in {"loading", "resolving"} => Earliest(poll[q].left) \in 1..Len(audit)
    <3>1. 1..Len(audit) \subseteq Nat
      BY <1>1
    <3>. QED
      BY <2>1, <3>1, EarliestIsLeft DEF Observed
  <2>. QED
    BY <1>1, <1>2, <2>1, <2>2 DEF Observed
<1>. QED
  BY <1>1, <1>3, <1>4 DEF FingerInv, Observing

\* One step passes the observations: of an authorization the number and the
\* time stay, and one that was given stays given for now.
LEMMA OnePasses ==
  ASSUME FingerInv, MayPass, Passes, UNCHANGED audit,
         \A o \in Owner : access[o] # None =>
           \/ access[o].stage = "gone"
           \/ /\ access'[o] # None /\ access'[o].slot = access[o].slot
              /\ access'[o].since = access[o].since
  PROVE  Observing'
<1>1. ASSUME NEW q \in Poller
      PROVE  Observed(poll[q])'
  <2>1. CASE poll[q].pc \notin {"resolving", "confirming"}
    <3>1. poll'[q] = poll[q]
      BY <2>1 DEF Passes
    <3>. QED
      BY <2>1, <3>1 DEF FingerInv, Observing, Observed
  <2>2. CASE poll[q].pc \in {"resolving", "confirming"}
    <3>1. /\ poll'[q] = [poll[q] EXCEPT !.passed = TRUE] /\ Observed(poll[q])
          /\ ~poll[q].passed
      BY <2>2 DEF FingerInv, Observing, Passes, MayPass
    <3>2. /\ poll'[q].passed /\ poll'[q].passed \in BOOLEAN /\ "passed" \in DOMAIN poll'[q]
          /\ poll'[q].pc = poll[q].pc /\ poll'[q].left = poll[q].left
          /\ poll'[q].links = poll[q].links /\ poll'[q].owner = poll[q].owner
          /\ poll'[q].slot = poll[q].slot
      BY <2>2, <3>1 DEF Observed
    <3>3. CASE poll[q].pc = "resolving"
      BY <3>1, <3>2, <3>3 DEF Observed
    <3>4. CASE poll[q].pc = "confirming"
      BY <3>1, <3>2, <3>4 DEF Observed, Shows
    <3>. QED
      BY <2>2, <3>3, <3>4
  <2>. QED
    BY <2>1, <2>2
<1>. QED
  BY <1>1 DEF Observing, Passes

\* An enrolment or a change of access, which passes what is under way.
LEMMA EnrolPasses ==
  ASSUME Assumptions, FingerInv, MayPass, Passes, UNCHANGED <<audit, now>>,
         NEW o \in Owner, Enrol(o) \/ RemoveAccessLink(o) \/ RemoveRecords(o)
  PROVE  Linking' /\ Observing'
<1>. Linking /\ now \in Nat /\ None \notin Access
  BY DEF FingerInv, Reported, Assumptions
<1>1. ASSUME NEW fresh \in Links, UNCHANGED access, link' = [link EXCEPT ![o] = fresh],
             access[o] # None, access[o].stage # "gone", fresh.slot = access[o].slot,
             access[o].since <= fresh.updated, fresh.status # "confirmed"
      PROVE  Linking' /\ Observing'
  <2>1. Linking'
    BY <1>1 DEF Linking, Shows
  <2>. QED
    BY <1>1, <2>1, OnePasses
<1>2. CASE StartEnrolment(o)
  <2>. DEFINE fresh == [slot |-> access[o].slot, status |-> "awaiting_nuki_app", updated |-> now]
  <2>1. /\ fresh \in Links /\ fresh.slot = access[o].slot
        /\ access[o].since <= fresh.updated /\ fresh.status # "confirmed"
    BY <1>2 DEF StartEnrolment, Linking, Links, Access
  <2>2. /\ UNCHANGED access /\ link' = [link EXCEPT ![o] = fresh]
        /\ access[o] # None /\ access[o].stage # "gone"
    BY <1>2 DEF StartEnrolment
  <2>. HIDE DEF fresh
  <2>. QED
    BY <1>1, <2>1, <2>2
<1>3. CASE CompleteEnrolment(o)
  <2>. DEFINE fresh == [link[o] EXCEPT !.status = "enrolled_unverified", !.updated = now]
  <2>1. link[o] \in Links /\ link[o].slot = access[o].slot /\ access[o] # None
        /\ access[o].stage # "gone"
    BY <1>3 DEF CompleteEnrolment, Linked, Matches, Linking
  <2>2. /\ fresh \in Links /\ fresh.slot = access[o].slot
        /\ fresh.updated = now /\ fresh.status = "enrolled_unverified"
    <3>1. link[o] \in Links /\ now \in Int
      BY <2>1
    <3>2. fresh \in Links /\ fresh.slot = link[o].slot
          /\ fresh.updated = now /\ fresh.status = "enrolled_unverified"
      BY ONLY <3>1 DEF fresh, Links
    <3>. QED
      BY <2>1, <3>2
  <2>3. UNCHANGED access /\ link' = [link EXCEPT ![o] = fresh]
    BY <1>3 DEF CompleteEnrolment
  <2>. HIDE DEF fresh
  <2>. QED
    BY <1>1, <2>1, <2>2, <2>3 DEF Linking
<1>4. CASE Withdraw(o)
  <2>1. /\ access' = [access EXCEPT ![o].stage = "going"] /\ UNCHANGED link
        /\ access[o] \in Access /\ access[o].stage = "on"
    BY <1>4 DEF Withdraw, Linking
  <2>2. /\ access'[o] \in Access /\ access'[o] # None
        /\ access'[o].slot = access[o].slot /\ access'[o].since = access[o].since
        /\ access'[o].stage = "going"
        /\ \A p \in Owner \ {o} : access'[p] = access[p]
    BY <2>1 DEF Linking, Access
  <2>3. access' \in [Owner -> Access \cup {None}]
    BY <2>1, <2>2 DEF Linking
  <2>4. Linking'
    BY <2>1, <2>2, <2>3 DEF Linking, Shows
  <2>. QED
    BY <2>2, <2>4, OnePasses
<1>5. ASSUME NEW s \in CodeId, GiveAccess(o, s)
      PROVE  Linking' /\ Observing'
  <2>. DEFINE fresh == [slot |-> s, since |-> now, stage |-> "on"]
  <2>1. access[o] = None /\ access' = [access EXCEPT ![o] = fresh] /\ UNCHANGED link
    BY <1>5 DEF GiveAccess
  <2>2. fresh \in Access /\ fresh.since = now /\ now <= now
    BY DEF Access
  <2>. HIDE DEF fresh
  <2>3. Linking'
    BY <2>1, <2>2 DEF Linking, Shows
  <2>. QED
    BY <2>1, <2>3, OnePasses DEF Linking
<1>6. CASE RemoveAccessLink(o)
  <2>1. /\ access' = [access EXCEPT ![o].stage = "gone"] /\ link' = [link EXCEPT ![o] = None]
        /\ access[o] \in Access /\ access[o].stage = "going"
    BY <1>6 DEF RemoveAccessLink, Linking
  <2>2. /\ access'[o] \in Access /\ access'[o] # None
        /\ access'[o].slot = access[o].slot /\ access'[o].since = access[o].since
        /\ \A p \in Owner \ {o} : access'[p] = access[p]
    BY <2>1 DEF Linking, Access
  <2>3. access' \in [Owner -> Access \cup {None}]
    BY <2>1, <2>2 DEF Linking
  <2>4. Linking'
    BY <2>1, <2>2, <2>3 DEF Linking, Shows
  <2>. QED
    BY <2>2, <2>4, OnePasses
<1>7. CASE RemoveRecords(o)
  <2>1. /\ access' = [access EXCEPT ![o] = None] /\ UNCHANGED link
        /\ access[o].stage = "gone"
    BY <1>7 DEF RemoveRecords
  <2>2. Linking'
    BY <2>1 DEF Linking, Shows
  <2>. QED
    BY <2>1, <2>2, OnePasses DEF Linking
<1>. QED
  BY <1>2, <1>3, <1>4, <1>5, <1>6, <1>7 DEF Enrol

\* What has been seen of a finger is so when its owner is to be confirmed.
LEMMA FoundObserved ==
  ASSUME FingerInv, UNCHANGED <<audit, access, link, now>>, NEW q \in Poller,
         poll[q].left \subseteq 1..Len(audit), poll[q].left # {},
         NEW owners, NEW links, Found(q, owners, links),
         \A o \in owners :
           /\ o \in Owner /\ access[o] # None /\ access[o].stage # "gone"
           /\ access[o].slot = links[o].slot
           /\ Shows(links[o].slot, access[o].since)
  PROVE  Linking' /\ Observing'
<1>1. Observed(NextOf(q))
  BY DEF NextOf, Observed, NoPoll
<1>2. CASE owners = {}
  BY <1>1, <1>2, PollerGoesOn DEF Found
<1>3. ASSUME NEW o \in owners
      PROVE  LET p == [pc |-> "confirming", left |-> poll[q].left, told |-> poll[q].told,
                       owner |-> o, slot |-> links[o].slot, passed |-> FALSE]
             IN Observed(p) /\ Observed(Recording(q, p))
  <2>1. Observed([pc |-> "confirming", left |-> poll[q].left, told |-> poll[q].told,
                  owner |-> o, slot |-> links[o].slot, passed |-> FALSE])
    BY DEF Observed
  <2>. DEFINE p == [pc |-> "confirming", left |-> poll[q].left, told |-> poll[q].told,
                    owner |-> o, slot |-> links[o].slot, passed |-> FALSE]
  <2>2. Observed([p EXCEPT !.pc = "recording"])
    BY DEF Observed
  <2>3. Recording(q, p) = NextOf(q) \/ Recording(q, p) = [p EXCEPT !.pc = "recording"]
    BY DEF Recording
  <2>. QED
    BY <1>1, <2>1, <2>2, <2>3
<1>4. CASE owners # {}
  <2>1. \E p : Becomes(q, p) /\ Observed(p)
    BY <1>3, <1>4 DEF Found
  <2>. QED
    BY <2>1, PollerGoesOn
<1>. QED
  BY <1>2, <1>4

\* One step of a poller, which may confirm a fingerprint.
LEMMA PollerStep ==
  ASSUME Assumptions, FingerInv, UNCHANGED <<audit, now>>, NEW q \in Poller,
         \/ /\ \/ AcquireLock(q) \/ ListAuditEvents(q) \/ LoadLinks(q) \/ ResolvePerson(q)
               \/ RecordUnlock(q) \/ Raise(q) \/ Process(q)
            /\ UNCHANGED linkVars
         \/ ConfirmOwner(q)
  PROVE  Linking' /\ Observing'
<1>. Linking /\ Observed(poll[q]) /\ now \in Nat /\ 1..Len(audit) \subseteq Nat
  BY DEF FingerInv, Observing, Reported, Linking
<1>0. /\ Observed(NoPoll)
      /\ poll[q].left \subseteq 1..Len(audit) => Observed(NextOf(q))
  BY DEF Observed, NextOf, NoPoll
<1>1. CASE AcquireLock(q) /\ UNCHANGED linkVars
  <2>. DEFINE p == [poll[q] EXCEPT !.pc = "reading"]
  <2>1. p.pc = "reading"
    BY <1>1 DEF AcquireLock, At
  <2>2. Becomes(q, p) /\ UNCHANGED <<access, link>>
    BY <1>1 DEF AcquireLock, GoesTo, linkVars
  <2>. HIDE DEF p
  <2>3. Observed(p)
    BY <2>1 DEF Observed
  <2>. QED
    BY <2>2, <2>3, PollerGoesOn
<1>2. CASE ListAuditEvents(q) /\ UNCHANGED linkVars
  <2>1. \/ Becomes(q, NoPoll)
        \/ Selected(q) # {} /\ Becomes(q, [pc |-> "door", left |-> Selected(q)])
    BY <1>2 DEF ListAuditEvents, Fails
  <2>2. Selected(q) # {} => Observed([pc |-> "door", left |-> Selected(q)])
    BY DEF Observed, Selected, Telling
  <2>. QED
    BY <1>0, <1>2, <2>1, <2>2, PollerGoesOn DEF linkVars
<1>3. CASE Process(q) /\ UNCHANGED linkVars
  <2>. DEFINE p == [pc |-> "loading", left |-> poll[q].left,
                    told |-> Event(q).slot # None /\ Correlates]
  <2>1. poll[q].left \subseteq 1..Len(audit) /\ poll[q].left # {}
    BY <1>3 DEF Process, At, Observed
  <2>2. Event(q).finger => Observed(p)
    BY <2>1 DEF Observed, Event, First, Earliest
  <2>3. /\ \/ Becomes(q, NextOf(q))
           \/ Event(q).finger /\ Becomes(q, p)
        /\ UNCHANGED <<access, link>>
    BY <1>3 DEF Process, linkVars
  <2>. HIDE DEF p
  <2>. QED
    BY <1>0, <2>1, <2>2, <2>3, PollerGoesOn
<1>4. CASE LoadLinks(q) /\ UNCHANGED linkVars
  <2>1. /\ poll[q].left \subseteq 1..Len(audit) /\ poll[q].left # {} /\ Event(q).finger
        /\ First(q) \in 1..Len(audit) /\ poll[q].pc = "loading"
    BY <1>4, EarliestIsLeft DEF LoadLinks, At, Observed, Event, First, Earliest
  <2>2. CASE Event(q).slot = None
    <3>1. ASSUME NEW o \in Unnamed(Event(q))
          PROVE  /\ o \in Owner /\ access[o] # None /\ access[o].stage # "gone"
                 /\ access[o].slot = link[o].slot
                 /\ Shows(link[o].slot, access[o].since)
      <4>1. o \in Owner /\ Linked(o) /\ Event(q).at >= link[o].updated
        BY DEF Unnamed, Candidates
      <4>2. /\ access[o] # None /\ access[o].stage = "on" /\ link[o].slot = access[o].slot
            /\ link[o].updated >= access[o].since
        BY <4>1 DEF Linked, Matches
      <4>3. Event(q).at \in Int /\ link[o].updated \in Int /\ access[o].since \in Int
        <5>1. audit[First(q)] \in Entries /\ link[o] \in Links /\ access[o] \in Access
          BY <2>1, <4>1, <4>2 DEF Linking, Linked, Matches
        <5>. QED
          BY <5>1 DEF Event, Entries, Links, Access
      <4>4. Event(q).at >= access[o].since
        BY <4>1, <4>2, <4>3
      <4>. QED
        BY <2>1, <2>2, <4>1, <4>2, <4>4 DEF Shows, Event
    <3>. QED
      BY <1>4, <2>1, <2>2, <3>1, FoundObserved DEF LoadLinks, linkVars
  <2>3. CASE Event(q).slot # None
    <3>. DEFINE p == [pc |-> "resolving", left |-> poll[q].left, told |-> poll[q].told,
                      links |-> link, passed |-> FALSE]
    <3>1. Observed(p)
      BY <2>1 DEF Observed, Linking, Event, First, Earliest
    <3>2. Becomes(q, p) /\ UNCHANGED <<access, link>>
      BY <1>4, <2>3 DEF LoadLinks, linkVars
    <3>. HIDE DEF p
    <3>. QED
      BY <3>1, <3>2, PollerGoesOn
  <2>. QED
    BY <2>2, <2>3
<1>5. CASE ResolvePerson(q) /\ UNCHANGED linkVars
  <2>1. /\ poll[q].left \subseteq 1..Len(audit) /\ poll[q].left # {} /\ Event(q).finger
        /\ First(q) \in 1..Len(audit) /\ poll[q].pc = "resolving"
    BY <1>5, EarliestIsLeft DEF ResolvePerson, At, Observed, Event, First, Earliest
  <2>. DEFINE links == poll[q].links
  <2>2. ASSUME NEW o \in Named(links, Event(q))
        PROVE  /\ o \in Owner /\ access[o] # None /\ access[o].stage # "gone"
               /\ access[o].slot = links[o].slot
               /\ Shows(links[o].slot, access[o].since)
    <3>1. /\ o \in Owner /\ links[o] # None /\ links[o].slot = Event(q).slot
          /\ Event(q).at >= links[o].updated
          /\ access[o] # None /\ access[o].stage = "on"
      BY DEF Named, Holders, Numbered
    <3>2. access[o].slot = links[o].slot /\ access[o].since <= links[o].updated
      BY <2>1, <3>1 DEF Observed
    <3>3. Event(q).at \in Int /\ links[o].updated \in Int /\ access[o].since \in Int
      <4>1. audit[First(q)] \in Entries /\ links[o] \in Links /\ access[o] \in Access
        BY <2>1, <3>1 DEF Linking, Observed
      <4>. QED
        BY <4>1 DEF Event, Entries, Links, Access
    <3>4. Event(q).at >= access[o].since
      BY <3>1, <3>2, <3>3
    <3>. QED
      BY <2>1, <3>1, <3>2, <3>4 DEF Shows, Event
  <2>. QED
    BY <1>5, <2>1, <2>2, FoundObserved DEF ResolvePerson, linkVars
<1>6. CASE RecordUnlock(q) /\ UNCHANGED linkVars
  BY <1>0, <1>6, PollerGoesOn DEF RecordUnlock, At, Observed, linkVars
<1>7. CASE Raise(q) /\ UNCHANGED linkVars
  BY <1>0, <1>7, PollerGoesOn DEF Raise, Fails, linkVars
<1>8. CASE ConfirmOwner(q)
  <2>1. /\ poll[q].left \subseteq 1..Len(audit) /\ poll[q].left # {} /\ poll[q].owner \in Owner
        /\ access[poll[q].owner] # None /\ access[poll[q].owner].slot = poll[q].slot
        /\ Shows(poll[q].slot, access[poll[q].owner].since) /\ poll[q].pc = "confirming"
    BY <1>8 DEF ConfirmOwner, At, Observed
  <2>. DEFINE o == poll[q].owner
              fresh == [link[o] EXCEPT !.status = "confirmed", !.updated = now]
  <2>2. /\ UNCHANGED access
        /\ link' = link \/ (link[o] # None /\ link' = [link EXCEPT ![o] = fresh])
    <3>1. Confirm(o, poll[q].slot)
      BY <1>8 DEF ConfirmOwner
    <3>. QED
      BY <3>1 DEF Confirm
  <2>. HIDE DEF fresh
  <2>3. Linking'
    <3>1. CASE link' = link
      BY <2>2, <3>1 DEF Linking, Shows
    <3>2. CASE link[o] # None /\ link' = [link EXCEPT ![o] = fresh]
      <4>1. link[o] \in Links
        BY <2>1, <3>2 DEF Linking
      <4>2. fresh \in Links /\ fresh.slot = link[o].slot /\ fresh.updated = now
        BY ONLY <4>1, now \in Int DEF fresh, Links
      <4>. QED
        BY <2>1, <2>2, <3>2, <4>2 DEF Linking, Shows
    <3>. QED
      BY <2>2, <3>1, <3>2
  <2>4. \E p : Becomes(q, p) /\ Observed(p)
    <3>. DEFINE p == [poll[q] EXCEPT !.pc = "recording"]
    <3>1. p.pc = "recording" /\ p.left = poll[q].left
      BY <2>1 DEF Observed
    <3>. HIDE DEF p
    <3>2. Observed(p)
      BY <2>1, <3>1 DEF Observed
    <3>3. Becomes(q, p) \/ Becomes(q, NextOf(q))
      BY <1>8 DEF ConfirmOwner, Recording, p
    <3>. QED
      BY <1>0, <2>1, <3>2, <3>3
  <2>5. Observing'
    BY <2>2, <2>4 DEF FingerInv, Observing, Observed, Becomes, Shows
  <2>. QED
    BY <2>3, <2>5
<1>. QED
  BY <1>1, <1>2, <1>3, <1>4, <1>5, <1>6, <1>7, <1>8

\* Every step keeps the account of the fingerprints.
LEMMA FingerStep ==
  ASSUME Assumptions, FingerInv, [Next]_vars
  PROVE  FingerInv'
<1>. Reported /\ Observing /\ now \in Nat
  BY DEF FingerInv, Reported
<1>. SUFFICES Linking' /\ Observing'
  BY ReportedStep DEF FingerInv
<1>1. CASE UNCHANGED <<auditVars, linkVars>> /\ now' \in {now, now + 1}
  BY <1>1, PollersChange DEF auditVars, linkVars, Observing
<1>2. CASE Tick
  BY <1>1, <1>2 DEF Tick
<1>3. CASE Physical
  <2>1. ASSUME NEW e, NEW s, HAChanges(e, s)
        PROVE  Linking' /\ Observing'
    <3>1. UNCHANGED <<audit, access, link, now>>
      BY <2>1 DEF HAChanges, StateChanges, linkVars
    <3>2. poll' = poll \/ poll' = [poll EXCEPT !["task"] = Polling(TRUE)]
      BY <2>1 DEF HAChanges, Scheduled
    <3>3. /\ DOMAIN poll' = Poller
          /\ \A q \in Poller : poll'[q] = poll[q] \/ poll'[q].pc = "waiting"
      BY <3>2 DEF Observing, Poller, Polling
    <3>. QED
      BY <3>1, <3>3, PollersChange
  <2>2. ASSUME NEW of \in 1..Cardinality(Unlocks) + 1, NukiLogs(of)
        PROVE  Linking' /\ Observing'
    <3>1. of \in Int
      <4>1. Unlocks \subseteq 1..Number /\ Number \in Nat
        BY DEF Unlocks, Reported, Number
      <4>2. Cardinality(Unlocks) \in Nat
        <5>1. IsFiniteSet(1..Number)
          BY <4>1, 1 \in Int, Number \in Int, FS_Interval
        <5>2. IsFiniteSet(Unlocks)
          BY <4>1, <5>1, FS_Subset
        <5>. QED
          BY <5>2, FS_CardinalityType
      <4>. QED
        BY <4>2
    <3>2. PICK finger \in BOOLEAN, slot \in CodeId \cup {None} :
            LockLogs([of |-> of, at |-> now, finger |-> finger, slot |-> slot])
      BY <2>2 DEF NukiLogs
    <3>3. [of |-> of, at |-> now, finger |-> finger, slot |-> slot] \in Entries
      BY <3>1 DEF Entries
    <3>4. UNCHANGED <<linkVars, now>>
      BY <2>2 DEF NukiLogs
    <3>. QED
      BY <3>2, <3>3, <3>4, LogGrows
  <2>3. ASSUME NEW of, NotificationArrives(of)
        PROVE  Linking' /\ Observing'
    BY <1>1, <2>3 DEF NotificationArrives, HandleNotification
  <2>4. CASE /\ \/ ExpirePendingUnlock \/ DiscardUnlockEvidence
                \/ (\E t \in tasks : RecordTransition(t)) \/ Refresh(Entities)
             /\ UNCHANGED <<auditVars, linkVars>>
    BY <1>1, <2>4 DEF ExpirePendingUnlock, DiscardUnlockEvidence, RecordTransition, Refresh
  <2>. QED
    BY <1>3, <2>1, <2>2, <2>3, <2>4 DEF Physical
<1>4. CASE Reader
  <2>1. ASSUME NEW q \in Poller,
               \/ /\ \/ AcquireLock(q) \/ ListAuditEvents(q) \/ LoadLinks(q) \/ ResolvePerson(q)
                     \/ RecordUnlock(q) \/ Raise(q) \/ Process(q)
                  /\ UNCHANGED linkVars
               \/ ConfirmOwner(q),
               UNCHANGED now
        PROVE  Linking' /\ Observing'
    <3>1. UNCHANGED audit
      BY <2>1 DEF AcquireLock, ListAuditEvents, LoadLinks, ResolvePerson, RecordUnlock, Raise,
                  Process, ConfirmOwner
    <3>. QED
      BY <2>1, <3>1, PollerStep
  <2>2. CASE Schedule /\ UNCHANGED <<now, linkVars>>
    <3>1. poll' = poll \/ poll' = [poll EXCEPT !["task"] = Polling(TRUE)]
      BY <2>2 DEF Schedule, Scheduled
    <3>2. /\ DOMAIN poll' = Poller
          /\ \A q \in Poller : poll'[q] = poll[q] \/ poll'[q].pc = "waiting"
      BY <3>1 DEF Observing, Poller, Polling
    <3>. QED
      BY <2>2, <3>2, PollersChange DEF Schedule, linkVars
  <2>3. CASE AskToRefresh /\ UNCHANGED <<now, linkVars>>
    <3>1. /\ DOMAIN poll' = Poller
          /\ \A q \in Poller : poll'[q] = poll[q] \/ poll'[q].pc = "waiting"
      BY <2>3 DEF AskToRefresh, Becomes, Observing, Poller, Polling
    <3>. QED
      BY <2>3, <3>1, PollersChange DEF AskToRefresh, linkVars
  <2>4. ASSUME NEW o \in Owner, MayPass, Passes, UNCHANGED <<now, audit>>,
               Enrol(o) \/ RemoveAccessLink(o) \/ RemoveRecords(o)
        PROVE  Linking' /\ Observing'
    BY <2>4, EnrolPasses
  <2>. QED
    BY <1>4, <2>1, <2>2, <2>3, <2>4 DEF Reader
<1>5. CASE Commands
  BY <1>1, <1>5 DEF Commands, NewCall, ResolveState, Dispatch, DispatchReturns, DispatchRaises,
                    SwitchOn, SwitchOff
<1>6. CASE Keypad
  BY <1>1, <1>6 DEF Keypad, ReceiveZigbee2Mqtt, ReceiveZha, ManagedDevice, BeginProcessing,
                    ResolvePersonId, Authorize, RecordFailure, FinishProcessing
<1>7. CASE Edits \/ UnloadKeypad
  BY <1>1, <1>7 DEF Edits, UpdateOpenPolicy, UpdatePolicy, UpdateKeypad, UnloadKeypad
<1>8. CASE UnloadAudit
  <2>1. UNCHANGED <<now, audit, access, link>> /\ poll' = [poll EXCEPT !["task"] = NoPoll]
    BY <1>8 DEF UnloadAudit, StopAudit, linkVars
  <2>2. /\ DOMAIN poll' = Poller
        /\ \A q \in Poller : poll'[q] = poll[q] \/ poll'[q].pc = "idle"
    BY <2>1 DEF Observing, Poller, NoPoll
  <2>. QED
    BY <2>1, <2>2, PollersChange
<1>9. CASE UnloadPhysical
  BY <1>1, <1>9 DEF UnloadPhysical, Stop
<1>10. CASE SetUp
  <2>1. /\ UNCHANGED <<now, audit, access, link>>
        /\ poll' = [poll EXCEPT !["task"] = IF reader = "nuki" THEN Polling(FALSE) ELSE NoPoll]
    BY <1>10 DEF SetUp, Start, linkVars
  <2>2. /\ DOMAIN poll' = Poller
        /\ \A q \in Poller : poll'[q] = poll[q] \/ poll'[q].pc \in {"idle", "waiting"}
    BY <2>1 DEF Observing, Poller, NoPoll, Polling
  <2>. QED
    BY <2>1, <2>2, PollersChange
<1>11. CASE UNCHANGED vars
  BY <1>1, <1>11 DEF vars
<1>. QED
  BY <1>2, <1>3, <1>4, <1>5, <1>6, <1>7, <1>8, <1>9, <1>10, <1>11 DEF Next

(* ConfirmedTruly: a fingerprint that is linked as confirmed was seen in  *)
(* the log since its person has the authorization; for any number of      *)
(* people, numbers and records, and whatever is read, given or taken away *)
(* meanwhile.                                                             *)
THEOREM ConfirmedTrulyAlways == Spec => []ConfirmedTruly
<1>1. Init => FingerInv
  BY Assumptions, ReportedInit, FingerInit DEF FingerInv
<1>2. FingerInv /\ [Next]_vars => FingerInv'
  BY Assumptions, FingerStep
<1>3. FingerInv => ConfirmedTruly
  BY DEF FingerInv, Linking, ConfirmedTruly, Confirmed, Linked, Matches, Shows
<1>. QED
  BY <1>1, <1>2, <1>3, PTL DEF Spec

(***************************************************************************)
(* The lockout.  Who holds the lock of the keypad is the first in its      *)
(* line, and the line is in the order of the times of its requests.  Ahead *)
(* are the times at which codes are still to be judged: of a request that  *)
(* was accepted, of a ZHA event that is looked up, and from now on.  Every *)
(* guess is in the past of them all, and is counted among the failures,    *)
(* each as one of them, unless it is outside of every window ahead.        *)
(***************************************************************************)
Serving == {"looking", "deciding", "denying", "executing", "recording"}
Accepting == Serving \cup {"queued"}

Coming(r) ==
  \/ request[r].pc \in Accepting
  \/ request[r].pc = "received" /\ transport # "z2m"

Ahead == {now} \cup {request[r].at : r \in {q \in Call : Coming(q)}}

Lined ==
  /\ line \in Seq(Call)
  /\ \A i \in 1..Len(line) : request[line[i]].pc \in Accepting
  /\ \A i, j \in 1..Len(line) : line[i] = line[j] => i = j
  /\ \A i \in 2..Len(line) : request[line[i]].pc = "queued"
  /\ \A r \in Call : request[r].pc \in Accepting => \E i \in 1..Len(line) : line[i] = r

Timed ==
  /\ \A r \in Call : Coming(r) => request[r].at \in Nat /\ request[r].at <= now
  /\ \A r \in Call : request[r].pc = "received" /\ transport # "z2m" =>
       /\ request[r].received = request[r].at
       /\ \A i \in 1..Len(line) : request[line[i]].at <= request[r].at
  /\ \A i, j \in 1..Len(line) : i <= j => request[line[i]].at <= request[line[j]].at

(* The guesses of D are counted, g as the failure of number f[g]. *)
Counts(D, f) ==
  /\ D \subseteq guesses /\ f \in [D -> 1..Len(failures)]
  /\ \A g, h \in D : f[g] = f[h] => g = h
  /\ \A g \in D : failures[f[g]] = g.at
  /\ \A g \in guesses \ D : \A a \in Ahead : g.at + FailureWindow < a

Counted ==
  /\ failures \in Seq(Nat)
  /\ \A g \in guesses : g.at \in Nat /\ \A a \in Ahead : g.at <= a
  /\ \E D \in SUBSET guesses : \E f \in [D -> 1..Len(failures)] : Counts(D, f)

Room ==
  \A r \in Call : request[r].pc \in {"looking", "deciding"} => Len(failures) < MaxFailures

LockoutInv == CommandInv /\ Lined /\ Timed /\ Counted /\ Room /\ LockoutHolds

\* Without guesses and failures there is nothing to account for.
LEMMA NothingCounts ==
  ASSUME failures' = <<>>, guesses' = {}
  PROVE  Counted' /\ LockoutHolds'
<1>. DEFINE f == [g \in {} |-> 1]
<1>1. f \in [{} -> 1..Len(failures')] /\ Counts({}, f)'
  BY DEF Counts
<1>. HIDE DEF f
<1>2. \E D \in SUBSET guesses' : \E g \in [D -> 1..Len(failures')] : Counts(D, g)'
  <2>. {} \in SUBSET guesses'
    OBVIOUS
  <2>. QED
    BY <1>1
<1>3. failures' \in Seq(Nat)
  OBVIOUS
<1>. QED
  BY <1>2, <1>3 DEF Counted, LockoutHolds

\* At first nobody has guessed.
LEMMA LockoutInit ==
  ASSUME Assumptions, Init
  PROVE  Lined /\ Timed /\ Counted /\ Room /\ LockoutHolds
<1>1. Lined /\ Timed /\ Room
  BY DEF Init, NoRequest, Lined, Timed, Room, Coming, Accepting, Serving
<1>2. Counted
  <2>1. guesses = {} /\ failures = <<>> /\ Len(failures) = 0
    BY DEF Init
  <2>. DEFINE f == [g \in {} |-> 1]
  <2>2. f \in [{} -> 1..Len(failures)] /\ Counts({}, f)
    BY <2>1 DEF Counts
  <2>. HIDE DEF f
  <2>3. \E D \in SUBSET guesses : \E g \in [D -> 1..Len(failures)] : Counts(D, g)
    <3>. {} \in SUBSET guesses
      OBVIOUS
    <3>. QED
      BY <2>2
  <2>4. failures \in Seq(Nat)
    BY <2>1
  <2>. QED
    BY <2>1, <2>3, <2>4 DEF Counted
<1>3. LockoutHolds
  BY DEF Init, LockoutHolds
<1>. QED
  BY <1>1, <1>2, <1>3

\* What is ahead are times, not before now or of the past.
LEMMA AheadIsTime ==
  ASSUME CommandInv, Timed
  PROVE  \A a \in Ahead : a \in Nat /\ a <= now
  BY DEF Ahead, Timed, CommandInv, Typed

\* Of all that is ahead the first in line comes first.
LEMMA FirstInLine ==
  ASSUME CommandInv, Lined, Timed, Len(line) > 0
  PROVE  /\ line[1] \in Call /\ request[line[1]].at \in Ahead
         /\ \A a \in Ahead : request[line[1]].at <= a
<1>. Len(line) \in Nat /\ 1 \in 1..Len(line)
  BY DEF Lined
<1>1. line[1] \in Call /\ Coming(line[1])
  BY DEF Lined, Coming
<1>2. ASSUME NEW r \in Call, Coming(r) PROVE request[line[1]].at <= request[r].at
  <2>1. CASE request[r].pc \in Accepting
    <3>. PICK i \in 1..Len(line) : line[i] = r
      BY <2>1 DEF Lined
    <3>. QED
      BY DEF Timed
  <2>2. CASE request[r].pc = "received" /\ transport # "z2m"
    BY <2>2 DEF Timed
  <2>. QED
    BY <1>2, <2>1, <2>2 DEF Coming
<1>3. request[line[1]].at <= now
  BY <1>1 DEF Timed
<1>. QED
  BY <1>1, <1>2, <1>3 DEF Ahead

\* Who is served is the first in line, and the only one.
LEMMA ServedIsFirst ==
  ASSUME Lined, NEW r \in Call, request[r].pc \in Serving
  PROVE  Len(line) > 0 /\ line[1] = r
<1>. Len(line) \in Nat
  BY DEF Lined
<1>. PICK i \in 1..Len(line) : line[i] = r
  BY DEF Lined, Accepting
<1>1. i = 1
  BY DEF Lined, Serving
<1>. QED
  BY <1>1

\* While nobody guesses and time goes on, the account stays as it is.
LEMMA CountedStays ==
  ASSUME Assumptions, CommandInv, Timed, Counted, UNCHANGED <<failures, guesses>>,
         \A b \in Ahead' : b \in Nat /\ \E a \in Ahead : a <= b
  PROVE  Counted'
<1>. FailureWindow \in Nat
  BY DEF Assumptions
<1>. PICK D \in SUBSET guesses : \E f \in [D -> 1..Len(failures)] : Counts(D, f)
  BY DEF Counted
<1>. PICK f \in [D -> 1..Len(failures)] : Counts(D, f)
  OBVIOUS
<1>1. \A g \in guesses : g.at \in Nat /\ \A b \in Ahead' : g.at <= b
  BY AheadIsTime DEF Counted
<1>2. \A g \in guesses \ D : \A b \in Ahead' : g.at + FailureWindow < b
  BY <1>1, AheadIsTime DEF Counts
<1>3. Counts(D, f)'
  BY <1>2 DEF Counts
<1>. QED
  BY <1>1, <1>3 DEF Counted

\* A queue without the elements before the n-th.
LEMMA FromNth ==
  ASSUME NEW s \in Seq(Nat), NEW n \in 1..Len(s) + 1
  PROVE  /\ SubSeq(s, n, Len(s)) \in Seq(Nat)
         /\ \A k \in 1..Len(s) : n <= k => /\ k - n + 1 \in 1..Len(SubSeq(s, n, Len(s)))
                                        /\ SubSeq(s, n, Len(s))[k - n + 1] = s[k]
<1>1. SubSeq(s, n, Len(s)) \in Seq(Nat)
  BY SMT
<1>2. Len(SubSeq(s, n, Len(s))) = Len(s) - n + 1
  BY SMT
<1>3. ASSUME NEW k \in 1..Len(s), n <= k
      PROVE  /\ k - n + 1 \in 1..Len(s) - n + 1
             /\ SubSeq(s, n, Len(s))[k - n + 1] = s[k]
  BY <1>3, SMT
<1>. QED
  BY <1>1, <1>2, <1>3

\* Without them, those of the others who had one still have one each.
LEMMA OthersKeep ==
  ASSUME NEW D, NEW l \in Nat, NEW f \in [D -> 1..l], NEW n \in Nat,
         \A g, h \in D : f[g] = f[h] => g = h,
         NEW E, E = {g \in D : n <= f[g]}, NEW e, e = [g \in E |-> f[g] - n + 1]
  PROVE  /\ DOMAIN e = E /\ \A g \in E : e[g] = f[g] - n + 1
         /\ \A g, h \in E : e[g] = e[h] => g = h
<1>1. \A g \in E : g \in D /\ f[g] \in Nat /\ n \in Nat
  OBVIOUS
<1>2. DOMAIN e = E /\ \A g \in E : e[g] = f[g] - n + 1
  OBVIOUS
<1>3. ASSUME NEW g \in E, NEW h \in E, e[g] = e[h] PROVE g = h
  <2>1. f[g] - n + 1 = f[h] - n + 1
    BY <1>2, <1>3
  <2>2. f[g] = f[h]
    BY <1>1, <2>1
  <2>. QED
    BY <1>1, <2>2
<1>. QED
  BY <1>2, <1>3

\* The failures before the first that counts are outside of the window.
LEMMA GoneAreOld ==
  ASSUME Assumptions, NEW r, request[r].at \in Nat, failures \in Seq(Nat)
  PROVE  \E n \in 1..Len(failures) + 1 :
           /\ Current(r) = SubSeq(failures, n, Len(failures))
           /\ \A m \in 1..Len(failures) :
                m < n => failures[m] + FailureWindow < request[r].at
<1>. PICK n : n = Earliest(Counting(r))
  OBVIOUS
<1>. PICK l : l = Len(failures)
  OBVIOUS
<1>1. l \in Nat /\ FailureWindow \in Nat
  BY LenProperties DEF Assumptions
<1>2. Counting(r) \subseteq Nat /\ l + 1 \in Counting(r)
  BY <1>1 DEF Counting
<1>3. n \in Counting(r)
  BY <1>2, EarliestIsLeft
<1>4. \A m \in Counting(r) : n <= m
  BY <1>2, EarliestIsLeft
<1>5. n \in 1..l + 1
  BY <1>3 DEF Counting
<1>6. ASSUME NEW m \in 1..l, m < n PROVE failures[m] + FailureWindow < request[r].at
  <2>1. failures[m] \in Nat
    BY ElementOfSeq
  <2>2. m \notin Counting(r)
    BY <1>4, <1>5, <1>6
  <2>3. m \in 1..l + 1
    BY <1>1
  <2>4. ~(failures[m] >= request[r].at - FailureWindow)
    BY <2>2, <2>3 DEF Counting
  <2>. QED
    BY <1>1, <2>1, <2>4
<1>7. Current(r) = SubSeq(failures, n, l)
  BY DEF Current, Earliest
<1>. QED
  BY <1>5, <1>6, <1>7

\* Failures go only if they are outside of every window ahead.
LEMMA CurrentCounts ==
  ASSUME Assumptions, CommandInv, Lined, Timed, Counted, Len(line) > 0,
         failures' = Current(line[1]), UNCHANGED guesses, Ahead' \subseteq Ahead
  PROVE  Counted'
<1>0. FailureWindow \in Nat
  BY DEF Assumptions
<1>. PICK l : l = Len(failures)
  OBVIOUS
<1>1. failures \in Seq(Nat) /\ l \in Nat
  BY LenProperties DEF Counted
<1>. PICK at : at = request[line[1]].at
  OBVIOUS
<1>2. at \in Nat /\ at \in Ahead /\ \A a \in Ahead : a \in Nat /\ at <= a
  BY FirstInLine, AheadIsTime
<1>3. PICK D \in SUBSET guesses : \E f \in [D -> 1..l] : Counts(D, f)
  BY DEF Counted
<1>4. PICK f \in [D -> 1..l] : Counts(D, f)
  BY <1>3
<1>5. PICK n \in 1..l + 1 :
        /\ failures' = SubSeq(failures, n, l)
        /\ \A m \in 1..l : m < n => failures[m] + FailureWindow < at
  BY <1>1, <1>2, GoneAreOld
<1>6. /\ failures' \in Seq(Nat)
      /\ \A k \in 1..l :
           n <= k => k - n + 1 \in 1..Len(failures') /\ failures'[k - n + 1] = failures[k]
  <2>1. n \in 1..Len(failures) + 1 /\ failures' = SubSeq(failures, n, Len(failures))
    BY <1>5
  <2>2. /\ SubSeq(failures, n, Len(failures)) \in Seq(Nat)
        /\ \A k \in 1..Len(failures) : n <= k =>
             /\ k - n + 1 \in 1..Len(SubSeq(failures, n, Len(failures)))
             /\ SubSeq(failures, n, Len(failures))[k - n + 1] = failures[k]
    BY <1>1, <2>1, FromNth
  <2>. QED
    BY <2>1, <2>2
<1>7. PICK E : E = {g \in D : n <= f[g]}
  OBVIOUS
<1>. PICK e : e = [g \in E |-> f[g] - n + 1]
  OBVIOUS
<1>8. /\ DOMAIN e = E /\ \A g \in E : e[g] = f[g] - n + 1
      /\ \A g, h \in E : e[g] = e[h] => g = h
  <2>1. \A g, h \in D : f[g] = f[h] => g = h
    BY <1>4 DEF Counts
  <2>2. n \in Nat
    BY <1>1
  <2>. QED
    BY <1>1, <1>7, <2>1, <2>2, OthersKeep
<1>9. ASSUME NEW g \in E PROVE e[g] \in 1..Len(failures') /\ failures'[e[g]] = g.at
  <2>1. f[g] \in 1..l /\ n <= f[g] /\ failures[f[g]] = g.at
    BY <1>4, <1>7 DEF Counts
  <2>2. e[g] = f[g] - n + 1
    BY <1>8
  <2>. QED
    BY <1>6, <2>1, <2>2
<1>10. ASSUME NEW g \in guesses, g \notin E, NEW a \in Ahead' PROVE g.at + FailureWindow < a
  <2>1. a \in Ahead /\ a \in Nat /\ at <= a
    BY <1>2
  <2>2. g.at \in Nat
    BY DEF Counted
  <2>3. CASE g \in D
    <3>1. f[g] \in 1..l /\ ~(n <= f[g])
      BY <1>7, <1>10, <2>3
    <3>2. f[g] < n
      BY <1>1, <1>5, <3>1
    <3>3. failures[f[g]] = g.at
      BY <1>4, <2>3 DEF Counts
    <3>4. g.at + FailureWindow < at
      BY <1>5, <3>1, <3>2, <3>3
    <3>5. \A p, q, r, w \in Nat : p + w < q /\ q <= r => p + w < r
      OBVIOUS
    <3>6. at \in Nat /\ a \in Nat /\ FailureWindow \in Nat /\ at <= a
      BY <1>0, <1>2, <2>1
    <3>. QED
      BY <2>2, <3>4, <3>5, <3>6
  <2>4. CASE g \notin D
    BY <1>4, <2>1, <2>4 DEF Counts
  <2>. QED
    BY <2>3, <2>4
<1>11. e \in [E -> 1..Len(failures')] /\ E \in SUBSET guesses'
  BY <1>7, <1>9
<1>12. Counts(E, e)'
  BY <1>8, <1>9, <1>10, <1>11 DEF Counts
<1>13. \A g \in guesses : g.at \in Nat /\ \A a \in Ahead' : g.at <= a
  BY DEF Counted
<1>. QED
  BY <1>6, <1>11, <1>12, <1>13 DEF Counted

\* One element more.
LEMMA OneMore ==
  ASSUME NEW S, NEW x, IsFiniteSet(S), NEW n \in Nat, Cardinality(S) <= n
  PROVE  IsFiniteSet(S \cup {x}) /\ Cardinality(S \cup {x}) <= n + 1
<1>1. Cardinality(S) \in Nat
  BY FS_CardinalityType
<1>2. /\ IsFiniteSet(S \cup {x})
      /\ Cardinality(S \cup {x}) = IF x \in S THEN Cardinality(S) ELSE Cardinality(S) + 1
  BY FS_AddElement
<1>. QED
  BY <1>1, <1>2

\* A guess is counted as the last failure, and within its window there were no more
\* guesses than failures counted.
LEMMA GuessCounts ==
  ASSUME Assumptions, CommandInv, Lined, Timed, Counted, LockoutHolds,
         NEW r \in Call, Len(line) > 0, line[1] = r, Len(failures) < MaxFailures,
         failures' = Append(failures, request[r].at),
         guesses' = guesses \cup {[by |-> r, at |-> request[r].at]},
         Ahead' \subseteq Ahead
  PROVE  Counted' /\ LockoutHolds'
<1>. /\ FailureWindow \in Nat /\ MaxFailures \in Nat
     /\ failures \in Seq(Nat) /\ Len(failures) \in Nat
  BY DEF Assumptions, Counted
<1>. PICK at : at = request[r].at
  OBVIOUS
<1>. PICK x : x = [by |-> r, at |-> at]
  OBVIOUS
<1>1. /\ at \in Nat /\ at \in Ahead /\ x.at = at
      /\ \A a \in Ahead : a \in Nat /\ at <= a
  BY FirstInLine, AheadIsTime
<1>2. \A g \in guesses : g.at \in Nat /\ g.at <= at
  BY <1>1 DEF Counted
<1>. PICK D \in SUBSET guesses : \E f \in [D -> 1..Len(failures)] : Counts(D, f)
  BY DEF Counted
<1>. PICK f \in [D -> 1..Len(failures)] : Counts(D, f)
  OBVIOUS
<1>3. Counted'
  <2>1. /\ failures' \in Seq(Nat) /\ Len(failures') = Len(failures) + 1
        /\ \A i \in 1..Len(failures) : failures'[i] = failures[i]
        /\ failures'[Len(failures')] = at
    BY <1>1, AppendProperties
  <2>. PICK E : E = D \cup {x}
    OBVIOUS
  <2>. PICK e : e = [g \in E |-> IF g = x THEN Len(failures) + 1 ELSE f[g]]
    OBVIOUS
  <2>2. E \in SUBSET guesses' /\ e \in [E -> 1..Len(failures')]
    BY <2>1
  <2>3. \A g \in E : g # x => g \in D /\ e[g] = f[g] /\ e[g] \in 1..Len(failures)
    OBVIOUS
  <2>4. x \in E /\ e[x] = Len(failures')
    BY <2>1
  <2>5. \A g, h \in E : e[g] = e[h] => g = h
    BY <2>1, <2>3, <2>4 DEF Counts
  <2>6. \A g \in E : failures'[e[g]] = g.at
    BY <1>1, <2>1, <2>3, <2>4 DEF Counts
  <2>7. \A g \in guesses' \ E : \A a \in Ahead' : g.at + FailureWindow < a
    BY DEF Counts
  <2>8. Counts(E, e)'
    BY <2>2, <2>5, <2>6, <2>7 DEF Counts
  <2>9. \A g \in guesses' : g.at \in Nat /\ \A a \in Ahead' : g.at <= a
    BY <1>1, <1>2 DEF Counted
  <2>. QED
    BY <2>1, <2>2, <2>8, <2>9 DEF Counted
<1>4. IsFiniteSet(D) /\ Cardinality(D) \in Nat /\ Cardinality(D) <= Len(failures)
  <2>1. f \in Injection(D, 1..Len(failures))
    BY DEF Counts, Injection, IsInjective
  <2>. PICK n \in Nat : n = Len(failures)
    OBVIOUS
  <2>2. IsFiniteSet(1..n) /\ Cardinality(1..n) = n
    <3>1. 1 \in Int /\ n \in Int
      OBVIOUS
    <3>2. IsFiniteSet(1..n) /\ Cardinality(1..n) = IF 1 > n THEN 0 ELSE n - 1 + 1
      BY <3>1, FS_Interval
    <3>. QED
      BY <3>2
  <2>3. IsFiniteSet(D) /\ Cardinality(D) <= Len(failures)
    <3>1. /\ IsFiniteSet(D)
          /\ Cardinality(D) <= Cardinality(1..n)
      BY <2>1, <2>2, FS_Injection
    <3>. QED
      BY <2>2, <3>1
  <2>. QED
    BY <2>3, FS_CardinalityType
<1>5. ASSUME NEW g \in guesses', g.at = at
      PROVE  Cardinality({h \in guesses' : h.at <= g.at /\ g.at - h.at <= FailureWindow})
               <= MaxFailures
  <2>. PICK W : W = {h \in guesses' : h.at <= g.at /\ g.at - h.at <= FailureWindow}
    OBVIOUS
  <2>1. W \subseteq D \cup {x}
    <3>. SUFFICES ASSUME NEW h \in guesses, at - h.at <= FailureWindow, h \notin D PROVE FALSE
      BY <1>5
    <3>1. h.at \in Nat /\ h.at + FailureWindow < at
      BY <1>1, <1>2 DEF Counts
    <3>. QED
      BY <1>1, <3>1
  <2>2. IsFiniteSet(D \cup {x}) /\ Cardinality(D \cup {x}) <= Len(failures) + 1
    BY <1>4, OneMore
  <2>3. Cardinality(D \cup {x}) \in Nat /\ Cardinality(W) \in Nat
        /\ Cardinality(W) <= Cardinality(D \cup {x})
    BY <2>1, <2>2, FS_Subset, FS_CardinalityType
  <2>. QED
    BY <2>2, <2>3
<1>6. ASSUME NEW g \in guesses', g.at # at
      PROVE  Cardinality({h \in guesses' : h.at <= g.at /\ g.at - h.at <= FailureWindow})
               <= MaxFailures
  <2>1. g \in guesses /\ g.at \in Nat /\ g.at < at
    BY <1>1, <1>2, <1>6
  <2>2. {h \in guesses' : h.at <= g.at /\ g.at - h.at <= FailureWindow}
          = {h \in guesses : h.at <= g.at /\ g.at - h.at <= FailureWindow}
    BY <1>1, <2>1
  <2>. QED
    BY <2>1, <2>2 DEF LockoutHolds
<1>. QED
  BY <1>3, <1>5, <1>6 DEF LockoutHolds

\* A request that is first in line goes on being served.
LEMMA ServedGoesOn ==
  ASSUME CommandInv, Lined, Timed, NEW r \in Call, Len(line) > 0, line[1] = r,
         UNCHANGED <<now, transport, line>>, DOMAIN request' = Call,
         \A q \in Call \ {r} : request'[q] = request[q],
         request'[r].pc \in Serving, request'[r].at = request[r].at
  PROVE  Lined' /\ Timed' /\ Ahead' \subseteq Ahead
<1>. Len(line) \in Nat /\ 1 \in 1..Len(line)
  BY DEF Lined
<1>1. request[r].pc \in Accepting /\ request[r].pc # "received" /\ request'[r].pc # "received"
  BY DEF Lined, Accepting, Serving
<1>2. Lined'
  <2>1. \A i \in 1..Len(line) : line[i] = r => i = 1
    BY DEF Lined
  <2>2. \A i \in 1..Len(line) : line[i] \in Call
    BY DEF Lined
  <2>3. \A i \in 1..Len(line) : request'[line[i]].pc \in Accepting
    BY <2>2 DEF Lined, Accepting
  <2>4. \A i \in 2..Len(line) : request'[line[i]].pc = "queued"
    <3>1. \A i \in 2..Len(line) : i \in 1..Len(line) /\ i # 1
      OBVIOUS
    <3>. QED
      BY <2>1, <2>2, <3>1 DEF Lined
  <2>5. \A q \in Call : request'[q].pc \in Accepting => request[q].pc \in Accepting
    BY <1>1
  <2>. QED
    BY <2>3, <2>4, <2>5 DEF Lined
<1>3. \A q \in Call : /\ Coming(q)' => Coming(q)
                      /\ request'[q].at = request[q].at
                      /\ request'[q].pc = "received" => request'[q] = request[q]
  BY <1>1 DEF Coming
<1>4. Timed'
  <2>. \A i \in 1..Len(line) : line[i] \in Call
    BY DEF Lined
  <2>. QED
    BY <1>3 DEF Timed
<1>5. Ahead' \subseteq Ahead
  BY <1>3 DEF Ahead
<1>. QED
  BY <1>2, <1>4, <1>5

\* An answered request leaves the line to the next.
LEMMA AnsweredLeaves ==
  ASSUME CommandInv, Lined, Timed, NEW r \in Call, Len(line) > 0, line[1] = r,
         UNCHANGED <<now, transport>>, NEW answer, Answers(r, answer)
  PROVE  Lined' /\ Timed' /\ Ahead' \subseteq Ahead
<1>1. line \in Seq(Call) /\ Len(line) \in Nat /\ line # <<>>
  BY DEF Lined
<1>2. /\ line' \in Seq(Call) /\ Len(line') = Len(line) - 1
      /\ \A i \in 1..Len(line') : line'[i] = line[i + 1]
  BY <1>1, HeadTailProperties DEF Answers
<1>3. /\ \A q \in Call \ {r} : request'[q] = request[q]
      /\ request'[r].pc = "done"
  BY DEF Answers, CommandInv, Typed, IsRequest, RequestFields
<1>4. \A i \in 1..Len(line') :
        /\ i + 1 \in 1..Len(line) /\ i + 1 \in 2..Len(line)
        /\ line'[i] \in Call /\ line'[i] # r /\ line'[i] = line[i + 1]
        /\ request'[line'[i]] = request[line[i + 1]]
  <2>. TAKE i \in 1..Len(line')
  <2>1. i + 1 \in 2..Len(line) /\ i + 1 \in 1..Len(line) /\ i + 1 # 1 /\ 1 \in 1..Len(line)
    BY <1>1, <1>2
  <2>2. line[i + 1] \in Call /\ line[i + 1] # r
    BY <2>1, <1>1, ElementOfSeq DEF Lined
  <2>. QED
    BY <1>2, <1>3, <2>1, <2>2
<1>5. \A q \in Call : /\ Coming(q)' => Coming(q) /\ q # r
                      /\ request'[q].pc = "received" => request'[q] = request[q]
                      /\ request'[q].pc \in Accepting => request'[q] = request[q]
  BY <1>3 DEF Coming, Accepting, Serving
<1>6. Lined'
  <2>1. \A i \in 1..Len(line') : request'[line'[i]].pc \in Accepting
    BY <1>4 DEF Lined
  <2>2. \A i \in 2..Len(line') : request'[line'[i]].pc = "queued"
    <3>. TAKE i \in 2..Len(line')
    <3>. i \in 1..Len(line')
      BY <1>1, <1>2
    <3>. QED
      BY <1>4 DEF Lined
  <2>3. ASSUME NEW i \in 1..Len(line'), NEW j \in 1..Len(line'), line'[i] = line'[j]
        PROVE  i = j
    <3>1. line[i + 1] = line[j + 1] /\ i + 1 \in 1..Len(line) /\ j + 1 \in 1..Len(line)
      BY <1>4, <2>3
    <3>2. i + 1 = j + 1
      BY <3>1 DEF Lined
    <3>. QED
      BY <3>2
  <2>4. ASSUME NEW q \in Call, request'[q].pc \in Accepting
        PROVE  \E i \in 1..Len(line') : line'[i] = q
    <3>1. request[q].pc \in Accepting /\ q # r
      BY <1>3, <1>5, <2>4 DEF Accepting, Serving
    <3>2. PICK k \in 1..Len(line) : line[k] = q
      BY <3>1 DEF Lined
    <3>3. k # 1 /\ k - 1 \in 1..Len(line') /\ k - 1 + 1 = k
      BY <1>1, <1>2, <3>1, <3>2
    <3>. QED
      BY <1>2, <3>2, <3>3
  <2>. QED
    BY <1>2, <2>1, <2>2, <2>3, <2>4 DEF Lined
<1>7. Timed'
  <2>1. \A q \in Call : Coming(q)' => request'[q] = request[q]
    BY <1>3, <1>5
  <2>2. ASSUME NEW i \in 1..Len(line'), NEW j \in 1..Len(line'), i <= j
        PROVE  request'[line'[i]].at <= request'[line'[j]].at
    <3>1. i + 1 \in 1..Len(line) /\ j + 1 \in 1..Len(line) /\ i + 1 <= j + 1
      BY <1>4, <2>2
    <3>2. request[line[i + 1]].at <= request[line[j + 1]].at
      BY <3>1 DEF Timed
    <3>. QED
      BY <1>4, <3>2
  <2>3. \A q \in Call : request'[q].pc = "received" /\ transport' # "z2m" =>
          /\ request'[q].received = request'[q].at
          /\ \A i \in 1..Len(line') : request'[line'[i]].at <= request'[q].at
    BY <1>4, <1>5 DEF Timed
  <2>. QED
    BY <1>5, <2>1, <2>2, <2>3 DEF Timed
<1>8. Ahead' \subseteq Ahead
  BY <1>3, <1>5 DEF Ahead
<1>. QED
  BY <1>6, <1>7, <1>8

\* A request arrives, or is turned away.
LEMMA OutsideLine ==
  ASSUME CommandInv, Lined, Timed, NEW r \in Call, UNCHANGED <<now, transport, line>>,
         \A q \in Call \ {r} : request'[q] = request[q],
         request[r].pc \notin Accepting, request'[r].pc \notin Accepting,
         request'[r].pc = "received" /\ transport # "z2m" =>
           request'[r].at = now /\ request'[r].received = now
  PROVE  Lined' /\ Timed' /\ Ahead' \subseteq Ahead
<1>. now \in Nat
  BY DEF CommandInv, Typed
<1>1. \A i \in 1..Len(line) :
        line[i] \in Call /\ line[i] # r /\ request'[line[i]] = request[line[i]]
  BY DEF Lined
<1>2. \A q \in Call \ {r} : Coming(q)' <=> Coming(q)
  BY DEF Coming
<1>3. Coming(r)' => request'[r].at = now
  BY DEF Coming
<1>4. Lined'
  <2>1. \A q \in Call : request'[q].pc \in Accepting => q # r /\ request[q].pc \in Accepting
    OBVIOUS
  <2>2. \A i \in 2..Len(line) : i \in 1..Len(line)
    BY DEF Lined
  <2>. QED
    BY <1>1, <2>1, <2>2 DEF Lined
<1>5. Timed'
  <2>1. \A q \in Call : Coming(q)' => request'[q].at \in Nat /\ request'[q].at <= now
    BY <1>2, <1>3 DEF Timed
  <2>2. \A i \in 1..Len(line) : request[line[i]].at <= now
    BY <1>1 DEF Timed, Lined, Coming
  <2>3. \A q \in Call : request'[q].pc = "received" /\ transport # "z2m" =>
          /\ request'[q].received = request'[q].at
          /\ \A i \in 1..Len(line) : request'[line[i]].at <= request'[q].at
    BY <1>1, <2>2 DEF Timed
  <2>. QED
    BY <1>1, <2>1, <2>3 DEF Timed
<1>6. Ahead' \subseteq Ahead
  BY <1>2, <1>3 DEF Ahead
<1>. QED
  BY <1>4, <1>5, <1>6

\* The foremost of the requests that arrived joins the line, and is the last in time.
LEMMA ForemostJoins ==
  ASSUME CommandInv, Lined, Timed, NEW r \in Call, UNCHANGED <<now, transport>>,
         request[r].pc = "received", Foremost(r), line' = Append(line, r),
         \A q \in Call \ {r} : request'[q] = request[q], request'[r].pc = "queued",
         request'[r].at = IF transport = "z2m" THEN now ELSE request[r].at
  PROVE  Lined' /\ Timed' /\ Ahead' \subseteq Ahead
<1>. now \in Nat
  BY DEF CommandInv, Typed
<1>1. line \in Seq(Call) /\ Len(line) \in Nat
  BY DEF Lined
<1>2. /\ line' \in Seq(Call) /\ Len(line') = Len(line) + 1
      /\ \A i \in 1..Len(line) : line'[i] = line[i]
      /\ line'[Len(line) + 1] = r
  BY <1>1, AppendProperties
<1>3. \A i \in 1..Len(line) :
        line[i] \in Call /\ line[i] # r /\ request'[line[i]] = request[line[i]]
  <2>1. request[r].pc \notin Accepting
    BY DEF Accepting, Serving
  <2>. QED
    BY <1>1, <2>1, ElementOfSeq DEF Lined
<1>4. \A i \in 1..Len(line') : i \in 1..Len(line) \/ i = Len(line) + 1
  BY <1>1, <1>2
<1>5. Coming(r) \/ transport = "z2m"
  BY DEF Coming
<1>6. request'[r].at \in Nat /\ request'[r].at <= now
  BY <1>5 DEF Timed
<1>7. \A i \in 1..Len(line) : request[line[i]].at \in Nat /\ request[line[i]].at <= request'[r].at
  <2>1. \A i \in 1..Len(line) : Coming(line[i])
    BY <1>3 DEF Lined, Coming
  <2>2. CASE transport = "z2m"
    BY <1>3, <2>1, <2>2 DEF Timed
  <2>3. CASE transport # "z2m"
    BY <1>3, <2>1, <2>3 DEF Timed
  <2>. QED
    BY <2>2, <2>3
<1>8. Lined'
  <2>1. \A i \in 1..Len(line') : request'[line'[i]].pc \in Accepting
    BY <1>2, <1>3, <1>4 DEF Lined, Accepting
  <2>2. \A i \in 2..Len(line') : request'[line'[i]].pc = "queued"
    <3>. TAKE i \in 2..Len(line')
    <3>1. (i \in 2..Len(line) /\ i \in 1..Len(line)) \/ i = Len(line) + 1
      BY <1>1, <1>2
    <3>. QED
      BY <1>2, <1>3, <3>1 DEF Lined
  <2>3. \A i, j \in 1..Len(line') : line'[i] = line'[j] => i = j
    BY <1>2, <1>3, <1>4 DEF Lined
  <2>4. ASSUME NEW q \in Call, request'[q].pc \in Accepting
        PROVE  \E i \in 1..Len(line') : line'[i] = q
    <3>1. CASE q = r
      BY <1>1, <1>2, <3>1
    <3>2. CASE q # r
      <4>1. PICK i \in 1..Len(line) : line[i] = q
        BY <2>4, <3>2 DEF Lined
      <4>2. i \in 1..Len(line')
        BY <1>1, <1>2
      <4>. QED
        BY <1>2, <4>1, <4>2
    <3>. QED
      BY <3>1, <3>2
  <2>. QED
    BY <1>2, <2>1, <2>2, <2>3, <2>4 DEF Lined
<1>9. \A q \in Call \ {r} : Coming(q)' <=> Coming(q)
  BY DEF Coming
<1>10. Timed'
  <2>1. \A q \in Call : Coming(q)' => request'[q].at \in Nat /\ request'[q].at <= now
    BY <1>6, <1>9 DEF Timed
  <2>2. ASSUME NEW i \in 1..Len(line'), NEW j \in 1..Len(line'), i <= j
        PROVE  request'[line'[i]].at <= request'[line'[j]].at
    <3>1. CASE j \in 1..Len(line)
      <4>1. i \in 1..Len(line)
        BY <1>1, <1>2, <2>2, <3>1
      <4>. QED
        BY <1>2, <1>3, <2>2, <3>1, <4>1 DEF Timed
    <3>2. CASE j = Len(line) + 1
      BY <1>2, <1>3, <1>4, <1>6, <1>7, <3>2
    <3>. QED
      BY <1>4, <3>1, <3>2
  <2>3. ASSUME NEW q \in Call, request'[q].pc = "received", transport # "z2m"
        PROVE  /\ request'[q].received = request'[q].at
               /\ \A i \in 1..Len(line') : request'[line'[i]].at <= request'[q].at
    <3>1. q # r /\ request'[q] = request[q] /\ request[q].received = request[q].at
      BY <2>3 DEF Timed
    <3>2. request'[r].at <= request[q].at
      BY <2>3, <3>1 DEF Foremost, Timed
    <3>. QED
      BY <1>2, <1>3, <1>4, <2>3, <3>1, <3>2 DEF Timed
  <2>. QED
    BY <2>1, <2>2, <2>3 DEF Timed
<1>11. Ahead' \subseteq Ahead
  <2>1. request'[r].at \in Ahead
    BY <1>5 DEF Ahead
  <2>. QED
    BY <1>9, <2>1 DEF Ahead
<1>. QED
  BY <1>8, <1>10, <1>11

LockoutParts == Lined /\ Timed /\ Counted /\ Room /\ LockoutHolds

\* Nobody else is served, and no guess is made.
LEMMA NobodyGuesses ==
  ASSUME Assumptions, LockoutInv, Lined', Timed', Ahead' \subseteq Ahead,
         UNCHANGED <<failures, guesses>>,
         \A q \in Call : request'[q].pc \in {"looking", "deciding"} =>
                           request[q].pc \in {"looking", "deciding"}
  PROVE  LockoutParts'
<1>1. Counted'
  <2>1. \A b \in Ahead' : b \in Ahead /\ b \in Nat /\ b <= b
    BY AheadIsTime DEF LockoutInv
  <2>. QED
    BY <2>1, CountedStays DEF LockoutInv
<1>2. Room' /\ LockoutHolds'
  BY DEF LockoutInv, Room, LockoutHolds
<1>. QED
  BY <1>1, <1>2 DEF LockoutParts

(* One step of a request of the keypad. *)
LEMMA KeypadLocks ==
  ASSUME Assumptions, LockoutInv, Keypad
  PROVE  LockoutParts'
<1>. UNCHANGED <<now, transport>>
  BY DEF Keypad, ReceiveZigbee2Mqtt, ReceiveZha, ManagedDevice, BeginProcessing,
         ResolvePersonId, Authorize, RecordFailure, FinishProcessing
<1>. CommandInv /\ Lined /\ Timed /\ Counted /\ Room /\ LockoutHolds
  BY DEF LockoutInv
<1>. DOMAIN request = Call /\ \A r \in Call : IsRequest(request[r])
  BY DEF CommandInv, Typed
<1>1. ASSUME NEW r \in Call, NEW t, ReceiveZigbee2Mqtt(r, t) PROVE LockoutParts'
  <2>1. UNCHANGED <<line, failures, guesses>> /\ transport = "z2m"
    BY <1>1 DEF ReceiveZigbee2Mqtt
  <2>2. /\ \A q \in Call \ {r} : request'[q] = request[q]
        /\ request[r].pc = "idle" /\ request'[r].pc \in {"received", "done"}
    BY <1>1 DEF ReceiveZigbee2Mqtt, IsRequest, RequestFields
  <2>3. Lined' /\ Timed' /\ Ahead' \subseteq Ahead
    BY <2>1, <2>2, OutsideLine DEF Accepting, Serving
  <2>. QED
    BY <2>1, <2>2, <2>3, NobodyGuesses
<1>2. ASSUME NEW r \in Call, ReceiveZha(r) PROVE LockoutParts'
  <2>1. UNCHANGED <<line, failures, guesses>>
    BY <1>2 DEF ReceiveZha
  <2>2. /\ \A q \in Call \ {r} : request'[q] = request[q]
        /\ request[r].pc = "idle" /\ request'[r].pc = "received"
        /\ request'[r].at = now /\ request'[r].received = now
    BY <1>2 DEF ReceiveZha, IsRequest, RequestFields
  <2>3. Lined' /\ Timed' /\ Ahead' \subseteq Ahead
    BY <2>1, <2>2, OutsideLine DEF Accepting, Serving
  <2>. QED
    BY <2>1, <2>2, <2>3, NobodyGuesses
<1>3. ASSUME NEW r \in Call, ManagedDevice(r) PROVE LockoutParts'
  <2>1. UNCHANGED <<failures, guesses>> /\ request[r].pc = "received" /\ Foremost(r)
    BY <1>3 DEF ManagedDevice
  <2>2. \A q \in Call \ {r} : request'[q] = request[q]
    BY <1>3 DEF ManagedDevice, Moves
  <2>3. CASE Moves(r, "done") /\ UNCHANGED line
    <3>1. request'[r].pc = "done"
      BY <2>3 DEF Moves, IsRequest, RequestFields
    <3>2. Lined' /\ Timed' /\ Ahead' \subseteq Ahead
      BY <2>1, <2>2, <2>3, <3>1, OutsideLine DEF Accepting, Serving
    <3>. QED
      BY <2>1, <2>2, <3>1, <3>2, NobodyGuesses
  <2>4. CASE /\ request' = [request EXCEPT ![r].pc = "queued", ![r].enabled = enabled,
                               ![r].at = IF transport = "z2m" THEN now ELSE @]
             /\ line' = Append(line, r)
    <3>1. /\ request'[r].pc = "queued"
          /\ request'[r].at = IF transport = "z2m" THEN now ELSE request[r].at
      BY <2>4 DEF IsRequest, RequestFields
    <3>2. Lined' /\ Timed' /\ Ahead' \subseteq Ahead
      BY <2>1, <2>2, <2>4, <3>1, ForemostJoins
    <3>. QED
      BY <2>1, <2>2, <3>1, <3>2, NobodyGuesses
  <2>. QED
    BY <1>3, <2>3, <2>4 DEF ManagedDevice
<1>4. ASSUME NEW r \in Call, Len(line) > 0, line[1] = r, NEW answer, Answers(r, answer),
             UNCHANGED <<failures, guesses>>
      PROVE  LockoutParts'
  <2>1. Lined' /\ Timed' /\ Ahead' \subseteq Ahead
    BY <1>4, AnsweredLeaves
  <2>2. \A q \in Call : request'[q].pc \in {"looking", "deciding"} => request'[q] = request[q]
    BY <1>4 DEF Answers, IsRequest, RequestFields
  <2>. QED
    BY <1>4, <2>1, <2>2, NobodyGuesses
<1>5. ASSUME NEW r \in Call, Len(line) > 0, line[1] = r, UNCHANGED line, NEW pc \in Serving,
             Moves(r, pc) \/ \E p \in Person :
               request' = [request EXCEPT ![r].pc = pc, ![r].person = p]
      PROVE  /\ \A q \in Call \ {r} : request'[q] = request[q]
             /\ request'[r].pc = pc /\ Lined' /\ Timed' /\ Ahead' \subseteq Ahead
  <2>1. /\ DOMAIN request' = Call /\ \A q \in Call \ {r} : request'[q] = request[q]
        /\ request'[r].pc = pc /\ request'[r].at = request[r].at
    BY <1>5 DEF Moves, IsRequest, RequestFields
  <2>2. Lined' /\ Timed' /\ Ahead' \subseteq Ahead
    BY <1>5, <2>1, ServedGoesOn
  <2>. QED
    BY <2>1, <2>2
<1>6. \A q \in Call : request[q].pc \in Serving => Len(line) > 0 /\ line[1] = q
  BY ServedIsFirst
<1>7. ASSUME NEW r \in Call, BeginProcessing(r) PROVE LockoutParts'
  <2>1. UNCHANGED guesses /\ Holds(r) /\ request[r].pc = "queued"
    BY <1>7 DEF BeginProcessing
  <2>2. Len(line) > 0 /\ line[1] = r
    BY <2>1 DEF Holds, Lined, Accepting
  <2>3. CASE Answers(r, "not_ready") /\ UNCHANGED failures
    BY <1>4, <2>1, <2>2, <2>3
  <2>4. ASSUME NEW pc \in {"looking", "recording"}, Moves(r, pc), UNCHANGED line,
               failures' = Current(r),
               pc = "looking" => ~(Len(Current(r)) >= MaxFailures)
        PROVE  LockoutParts'
    <3>. pc \in Serving
      BY DEF Serving
    <3>1. /\ \A q \in Call \ {r} : request'[q] = request[q]
          /\ request'[r].pc = pc /\ Lined' /\ Timed' /\ Ahead' \subseteq Ahead
      BY <1>5, <2>2, <2>4
    <3>2. Counted'
      BY <2>1, <2>2, <2>4, <3>1, CurrentCounts
    <3>3. Len(failures') \in Nat /\ MaxFailures \in Nat
      BY <3>2, LenProperties DEF Counted, Assumptions
    <3>4. \A q \in Call : request'[q].pc \in {"looking", "deciding"} => q = r
      BY <1>6, <2>1, <2>2, <3>1 DEF Serving
    <3>5. Room'
      BY <2>4, <3>1, <3>3, <3>4 DEF Room
    <3>. QED
      BY <2>1, <3>1, <3>2, <3>5 DEF LockoutHolds, LockoutParts
  <2>. QED
    BY <1>7, <2>3, <2>4 DEF BeginProcessing
<1>8. ASSUME NEW r \in Call, request[r].pc \in {"looking", "deciding"},
             NEW pc \in {"denying", "recording"}, Failed(r, pc)
      PROVE  LockoutParts'
  <2>. pc \in Serving
    BY DEF Serving
  <2>1. Len(line) > 0 /\ line[1] = r /\ Len(failures) < MaxFailures
    BY <1>6, <1>8 DEF Serving, Room
  <2>2. /\ \A q \in Call \ {r} : request'[q] = request[q]
        /\ request'[r].pc = pc /\ Lined' /\ Timed' /\ Ahead' \subseteq Ahead
    BY <1>5, <1>8, <2>1 DEF Failed
  <2>3. Counted' /\ LockoutHolds'
    BY <1>8, <2>1, <2>2, GuessCounts DEF Failed
  <2>4. Room'
    BY <1>6, <2>1, <2>2 DEF Room, Serving
  <2>. QED
    BY <2>2, <2>3, <2>4 DEF LockoutParts
<1>9. ASSUME NEW r \in Call, ResolvePersonId(r) PROVE LockoutParts'
  <2>1. request[r].pc = "looking" /\ Len(line) > 0 /\ line[1] = r
    BY <1>6, <1>9 DEF ResolvePersonId, Serving
  <2>2. ASSUME NEW p \in Person, UNCHANGED <<line, failures, guesses>>,
               request' = [request EXCEPT ![r].pc = "deciding", ![r].person = p]
        PROVE  LockoutParts'
    <3>. "deciding" \in Serving
      BY DEF Serving
    <3>1. /\ \A q \in Call \ {r} : request'[q] = request[q]
          /\ Lined' /\ Timed' /\ Ahead' \subseteq Ahead
      BY <1>5, <2>1, <2>2
    <3>. QED
      BY <2>1, <2>2, <3>1, NobodyGuesses
  <2>3. CASE Failed(r, "denying")
    BY <1>8, <2>1, <2>3
  <2>4. CASE Answers(r, "not_ready") /\ UNCHANGED <<failures, guesses>>
    BY <1>4, <2>1, <2>4
  <2>. QED
    BY <1>9, <2>2, <2>3, <2>4 DEF ResolvePersonId
<1>10. ASSUME NEW r \in Call, Authorize(r) PROVE LockoutParts'
  <2>1. request[r].pc = "deciding" /\ Len(line) > 0 /\ line[1] = r
    BY <1>6, <1>10 DEF Authorize, Serving
  <2>2. CASE Moves(r, "executing") /\ UNCHANGED <<line, failures, guesses>>
    <3>. "executing" \in Serving
      BY DEF Serving
    <3>1. /\ \A q \in Call \ {r} : request'[q] = request[q]
          /\ Lined' /\ Timed' /\ Ahead' \subseteq Ahead
      BY <1>5, <2>1, <2>2
    <3>. QED
      BY <2>1, <2>2, <3>1, NobodyGuesses
  <2>3. CASE Failed(r, "recording")
    BY <1>8, <2>1, <2>3
  <2>4. CASE Answers(r, "not_ready") /\ UNCHANGED <<failures, guesses>>
    BY <1>4, <2>1, <2>4
  <2>. QED
    BY <1>10, <2>2, <2>3, <2>4 DEF Authorize
<1>11. ASSUME NEW r \in Call, RecordFailure(r) PROVE LockoutParts'
  <2>1. request[r].pc \in {"denying", "recording"} /\ Len(line) > 0 /\ line[1] = r
    BY <1>6, <1>11 DEF RecordFailure, Serving
  <2>. QED
    BY <1>4, <1>11, <2>1 DEF RecordFailure
<1>12. ASSUME NEW r \in Call, FinishProcessing(r) PROVE LockoutParts'
  <2>1. request[r].pc = "executing" /\ Len(line) > 0 /\ line[1] = r
    BY <1>6, <1>12 DEF FinishProcessing, Serving
  <2>2. ASSUME NEW answer, Answers(r, answer), failures' = <<>>, guesses' = {}
        PROVE  LockoutParts'
    <3>1. Lined' /\ Timed' /\ Ahead' \subseteq Ahead
      BY <2>1, <2>2, AnsweredLeaves
    <3>2. Counted' /\ LockoutHolds'
      BY <2>2, NothingCounts
    <3>3. \A q \in Call : request'[q].pc \notin {"looking", "deciding"}
      BY <1>6, <2>1, <2>2 DEF Answers, IsRequest, RequestFields, Serving
    <3>. QED
      BY <3>1, <3>2, <3>3 DEF Room, LockoutParts
  <2>. QED
    BY <1>4, <1>12, <2>1, <2>2 DEF FinishProcessing
<1>. QED
  BY <1>1, <1>2, <1>3, <1>7, <1>9, <1>10, <1>11, <1>12 DEF Keypad

\* What concerns no request and no failure, while time may go on.
LEMMA LockoutStays ==
  ASSUME Assumptions, LockoutInv, now' \in {now, now + 1},
         UNCHANGED <<transport, request, line, failures, guesses>>
  PROVE  LockoutParts'
<1>. CommandInv /\ Lined /\ Timed /\ Counted /\ Room /\ LockoutHolds /\ now \in Nat
  BY DEF LockoutInv, CommandInv, Typed
<1>1. Lined' /\ Room' /\ LockoutHolds'
  BY DEF Lined, Room, LockoutHolds
<1>2. \A r \in Call : Coming(r)' <=> Coming(r)
  BY DEF Coming
<1>3. Timed'
  <2>1. \A r \in Call : Coming(r)' => request[r].at \in Nat /\ request[r].at <= now'
    BY <1>2 DEF Timed
  <2>. QED
    BY <2>1 DEF Timed
<1>4. \A b \in Ahead' : b \in Nat /\ \E a \in Ahead : a <= b
  <2>1. Ahead' = {now'} \cup {request[r].at : r \in {q \in Call : Coming(q)}}
    BY <1>2 DEF Ahead
  <2>2. now \in Ahead /\ now <= now' /\ now' \in Nat
    BY DEF Ahead
  <2>3. \A r \in Call : Coming(r) => request[r].at \in Ahead /\ request[r].at \in Nat
    BY DEF Ahead, Timed
  <2>. QED
    BY <2>1, <2>2, <2>3
<1>5. Counted'
  BY <1>4, CountedStays
<1>. QED
  BY <1>1, <1>3, <1>5 DEF LockoutParts

\* Setting up forgets the failures.
LEMMA SetUpForgets ==
  ASSUME Assumptions, LockoutInv, SetUp
  PROVE  LockoutParts'
<1>1. UNCHANGED <<now, transport, request, line>> /\ failures' = <<>> /\ guesses' = {}
  BY DEF SetUp, Start, ResetKeypad
<1>2. Lined' /\ Timed'
  BY <1>1 DEF LockoutInv, Lined, Timed, Coming
<1>3. Counted' /\ LockoutHolds'
  BY <1>1, NothingCounts
<1>4. Room'
  <2>1. Len(failures) \in Nat /\ MaxFailures \in Nat /\ Len(failures') = 0
    BY <1>1, LenProperties DEF LockoutInv, Counted, Assumptions
  <2>. QED
    BY <1>1, <2>1 DEF LockoutInv, Room
<1>. QED
  BY <1>2, <1>3, <1>4 DEF LockoutParts

\* Every step keeps the account of the guesses.
LEMMA LockoutStep ==
  ASSUME Assumptions, LockoutInv, [Next]_vars
  PROVE  LockoutInv'
<1>. CommandInv /\ now \in Nat
  BY DEF LockoutInv, CommandInv, Typed
<1>. SUFFICES LockoutParts'
  BY CommandStep DEF LockoutInv, LockoutParts
<1>1. CASE UNCHANGED keypadVars /\ now' \in {now, now + 1}
  BY <1>1, LockoutStays DEF keypadVars
<1>2. CASE Tick
  BY <1>1, <1>2 DEF Tick
<1>3. CASE Physical
  BY <1>1, <1>3 DEF Physical, HAChanges, StateChanges, NotificationArrives, HandleNotification,
       NukiLogs, ExpirePendingUnlock, DiscardUnlockEvidence, RecordTransition, Refresh
<1>4. CASE Reader
  BY <1>1, <1>4 DEF Reader
<1>5. CASE Commands
  BY <1>1, <1>5 DEF Commands, NewCall, ResolveState, Dispatch, DispatchReturns, DispatchRaises,
                    SwitchOn, SwitchOff
<1>6. CASE Keypad
  BY <1>6, KeypadLocks
<1>7. CASE Edits
  <2>. UNCHANGED <<now, transport, request, line, failures, guesses>>
    BY <1>7 DEF Edits, UpdateOpenPolicy, UpdatePolicy, UpdateKeypad, keypadVars
  <2>. QED
    BY LockoutStays
<1>8. CASE UnloadKeypad
  BY <1>8, LockoutStays DEF UnloadKeypad, StopListening
<1>9. CASE UnloadAudit \/ UnloadPhysical
  BY <1>1, <1>9 DEF UnloadAudit, UnloadPhysical, Stop
<1>10. CASE SetUp
  BY <1>10, SetUpForgets
<1>11. CASE UNCHANGED vars
  BY <1>1, <1>11 DEF vars
<1>. QED
  BY <1>2, <1>3, <1>4, <1>5, <1>6, <1>7, <1>8, <1>9, <1>10, <1>11 DEF Next

(* LockoutHolds: however requests of the keypad overlap, and whenever they *)
(* are looked up, no more wrong codes are compared within one window than  *)
(* are allowed; for any number of requests, failures allowed and window.   *)
THEOREM LockoutHoldsAlways == Spec => []LockoutHolds
<1>1. Init => LockoutInv
  BY Assumptions, ReportedInit, CommandInit, LockoutInit DEF LockoutInv, CommandInv
<1>2. LockoutInv /\ [Next]_vars => LockoutInv'
  BY Assumptions, LockoutStep
<1>3. LockoutInv => LockoutHolds
  BY DEF LockoutInv
<1>. QED
  BY <1>1, <1>2, <1>3, PTL DEF Spec

(***************************************************************************)
(* Evidence.  Reports are in the order of their times, and each unlock has *)
(* its number.  A clue, of which unlock it is and when it was observed,    *)
(* fits if no other unlock is within a window of it, and none will be:     *)
(* its unlock is the next one, or one was since then or is near, or it was *)
(* there before all of them.                                               *)
(***************************************************************************)
Fits(of, observed) ==
  /\ observed <= now
  /\ \A n \in Unlocks : Within(Report(n).at, observed) => Ordinal(n) = of
  /\ \/ of = Cardinality(Unlocks) + 1
     \/ \E n \in Unlocks : observed <= Report(n).at + Window
     \/ observed < -Window

Ordered ==
  /\ \A n \in 1..Number : Report(n).at <= now /\ \A m \in 1..n : Report(m).at <= Report(n).at
  /\ \A o \in 1..Cardinality(Unlocks) : \E n \in Unlocks : Ordinal(n) = o
  /\ Waits => waiting.report \in Unlocks /\ waiting.at = Report(waiting.report).at

Spread == \A m, n \in Unlocks : m < n => Report(n).at - Report(m).at > 2 * Window

Fitting ==
  /\ \A n \in 1..Len(audit) : Fits(audit[n].of, audit[n].at)
  /\ cached # None =>
       cached.of \in Int /\ cached.observed \in Int /\ Fits(cached.of, cached.observed)

Classified ==
  \A r \in tasks \cup log : r.evidence \notin {None, Unknown} => r.evidence = Ordinal(r.report)

EvidenceInv == FingerInv /\ Ordered /\ (spaced => Spread /\ Fitting /\ Classified)

\* Reports have times, and of the unlocks among them there is a number.
LEMMA UnlocksCounted ==
  ASSUME Reported
  PROVE  /\ now \in Nat /\ Number \in Nat /\ Unlocks \subseteq 1..Number
         /\ \A n \in 1..Number : Report(n).at \in Nat
         /\ IsFiniteSet(Unlocks) /\ Cardinality(Unlocks) \in Nat
         /\ \A n \in 1..Number : Ordinal(n) \in Nat
<1>1. Number \in Nat /\ Unlocks \subseteq 1..Number /\ now \in Nat
  BY DEF Reported, Number, Unlocks
<1>2. \A n \in 1..Number : Report(n).at \in Nat
  <2>. TAKE n \in 1..Number
  <2>1. reports[n] \in ReportSet
    BY ElementOfSeq DEF Reported, Number
  <2>. QED
    BY <2>1 DEF ReportSet, Report
<1>3. IsFiniteSet(1..Number)
  BY <1>1, 1 \in Int, Number \in Int, FS_Interval
<1>4. \A S : S \subseteq 1..Number => IsFiniteSet(S) /\ Cardinality(S) \in Nat
  BY <1>3, FS_Subset, FS_CardinalityType
<1>5. \A n \in 1..Number : {m \in Unlocks : m <= n} \subseteq 1..Number
  BY <1>1
<1>. QED
  BY <1>1, <1>2, <1>4, <1>5 DEF Ordinal

\* A report that is added leaves the unlocks before it, and their numbers, as
\* they were; if it is an unlock itself it gets the next number.
LEMMA ReportCounts ==
  ASSUME Reported, NEW r \in ReportSet, reports' = Append(reports, r), NEW k, k = Number + 1
  PROVE  /\ Number' = k
         /\ \A n \in 1..Number : Report(n)' = Report(n) /\ Ordinal(n)' = Ordinal(n)
         /\ Report(k)' = r
         /\ \/ /\ Unlocks' = Unlocks \cup {k}
               /\ Cardinality(Unlocks)' = Cardinality(Unlocks) + 1
               /\ Ordinal(k)' = Cardinality(Unlocks) + 1
               /\ r.entity = "lock" /\ r.state = "unlocked"
            \/ Unlocks' = Unlocks /\ ~(r.entity = "lock" /\ r.state = "unlocked")
<1>1. Number \in Nat /\ Unlocks \subseteq 1..Number /\ IsFiniteSet(Unlocks)
  BY UnlocksCounted
<1>2. /\ Number' = k /\ Report(k)' = r
      /\ \A n \in 1..Number : Report(n)' = Report(n)
  BY DEF Reported, Number, Report
<1>3. Unlocks' = {n \in 1..k : Report(n)'.entity = "lock" /\ Report(n)'.state = "unlocked"}
  BY <1>2 DEF Unlocks
<1>4. \A n : n \in Unlocks' <=>
          n \in Unlocks \/ (n = k /\ r.entity = "lock" /\ r.state = "unlocked")
  <2>1. \A n : n \in 1..k <=> n \in 1..Number \/ n = k
    BY <1>1
  <2>2. k \notin 1..Number
    BY <1>1
  <2>. TAKE n
  <2>3. CASE n \in 1..Number
    BY <1>2, <1>3, <2>1, <2>2, <2>3 DEF Unlocks
  <2>4. CASE n = k
    BY <1>1, <1>2, <1>3, <2>1, <2>2, <2>4
  <2>5. CASE n \notin 1..Number /\ n # k
    BY <1>1, <1>3, <2>1, <2>5
  <2>. QED
    BY <2>3, <2>4, <2>5
<1>. PICK U : U = Unlocks'
  OBVIOUS
<1>5. \A n \in 1..Number : Ordinal(n)' = Ordinal(n)
  <2>. TAKE n \in 1..Number
  <2>1. \A m : m \in U /\ m <= n <=> m \in Unlocks /\ m <= n
    BY <1>1, <1>4
  <2>2. {m \in U : m <= n} = {m \in Unlocks : m <= n}
    BY <2>1
  <2>. QED
    BY <2>2 DEF Ordinal
<1>6. CASE r.entity = "lock" /\ r.state = "unlocked"
  <2>1. U = Unlocks \cup {k}
    BY <1>4, <1>6
  <2>2. k \notin Unlocks
    BY <1>1
  <2>3. Cardinality(Unlocks \cup {k}) = Cardinality(Unlocks) + 1
    BY <1>1, <2>2, FS_AddElement
  <2>4. \A m \in U : m <= k
    BY <1>1, <2>1
  <2>5. {m \in U : m <= k} = U
    BY <2>4
  <2>6. Ordinal(k)' = Cardinality(U)
    BY <2>5 DEF Ordinal
  <2>. QED
    BY <1>2, <1>5, <1>6, <2>1, <2>3, <2>6
<1>7. CASE ~(r.entity = "lock" /\ r.state = "unlocked")
  <2>1. U = Unlocks
    BY <1>4, <1>7
  <2>. QED
    BY <1>2, <1>5, <1>7, <2>1
<1>. QED
  BY <1>6, <1>7

\* An unlock that comes more than two windows after the last one comes so after all.
LEMMA FarFromAll ==
  ASSUME Assumptions, Reported, Ordered, FarFromLast
  PROVE  \A n \in Unlocks : now - Report(n).at > 2 * Window
<1>. Window \in Nat
  BY DEF Assumptions
<1>0. /\ now \in Nat /\ Number \in Nat /\ Unlocks \subseteq 1..Number
      /\ \A n \in 1..Number : Report(n).at \in Nat
  BY UnlocksCounted
<1>. SUFFICES ASSUME NEW n \in Unlocks
              PROVE  now - Report(n).at > 2 * Window
  OBVIOUS
<1>. DEFINE left == {Number - m : m \in Unlocks}
<1>1. left \subseteq Nat /\ left # {}
  <2>1. \A m \in Unlocks : Number - m \in Nat
    BY <1>0
  <2>2. Number - n \in left
    OBVIOUS
  <2>. QED
    BY <2>1, <2>2
<1>2. PICK l \in left : \A x \in left : l <= x
  BY <1>1, EarliestIsLeft
<1>3. PICK last \in Unlocks : l = Number - last
  OBVIOUS
<1>4. \A m \in Unlocks : m <= last
  <2>. TAKE m \in Unlocks
  <2>1. l <= Number - m
    BY <1>2
  <2>. QED
    BY <1>0, <1>3, <2>1
<1>5. last \in LastUnlock
  BY <1>4 DEF LastUnlock
<1>6. now - Report(last).at > 2 * Window
  BY <1>5 DEF FarFromLast
<1>7. Report(n).at <= Report(last).at
  <2>1. n \in 1..last /\ last \in 1..Number
    BY <1>0, <1>4
  <2>. QED
    BY <2>1 DEF Ordered
<1>. PICK a, b, t \in Nat : a = Report(n).at /\ b = Report(last).at /\ t = now
  BY <1>0
<1>8. t - a > 2 * Window
  BY <1>6, <1>7, SMTT(30)
<1>. QED
  BY <1>8

\* What fits goes on to fit while time passes,
LEMMA FitsOn ==
  ASSUME Reported, UNCHANGED reports, now' \in {now, now + 1},
         NEW of, NEW observed \in Int, Fits(of, observed)
  PROVE  Fits(of, observed)'
<1>. now \in Nat
  BY DEF Reported
<1>1. UNCHANGED <<Unlocks, Number>> /\ \A n : Report(n)' = Report(n) /\ Ordinal(n)' = Ordinal(n)
  BY DEF Unlocks, Number, Report, Ordinal
<1>2. observed <= now'
  BY DEF Fits
<1>. QED
  BY <1>1, <1>2 DEF Fits

\* and when something is reported, if unlocks come far apart.
LEMMA FitsAfterReport ==
  ASSUME Assumptions, Reported, Ordered, NEW r \in ReportSet, r.at = now,
         reports' = Append(reports, r), UNCHANGED now,
         Cardinality(Unlocks') > Cardinality(Unlocks) => FarFromLast,
         NEW of, NEW observed \in Int, Fits(of, observed)
  PROVE  Fits(of, observed)'
<1>. Window \in Nat
  BY DEF Assumptions
<1>0. /\ now \in Nat /\ Number \in Nat /\ Unlocks \subseteq 1..Number
      /\ \A n \in 1..Number : Report(n).at \in Nat
      /\ Cardinality(Unlocks) \in Nat
  BY UnlocksCounted
<1>. PICK k : k = Number + 1
  OBVIOUS
<1>1. /\ \A n \in 1..Number : Report(n)' = Report(n) /\ Ordinal(n)' = Ordinal(n)
      /\ Report(k)' = r
      /\ \/ /\ Unlocks' = Unlocks \cup {k}
            /\ Cardinality(Unlocks)' = Cardinality(Unlocks) + 1
            /\ Ordinal(k)' = Cardinality(Unlocks) + 1
         \/ Unlocks' = Unlocks
  BY ReportCounts
<1>2. observed <= now /\ UNCHANGED now
  BY DEF Fits
<1>3. \A n \in Unlocks : Within(Report(n).at, observed)' => Ordinal(n)' = of
  BY <1>0, <1>1 DEF Fits, Within
<1>4. (\E n \in Unlocks : observed <= Report(n).at + Window)
        => \E n \in Unlocks : observed <= Report(n).at' + Window
  BY <1>0, <1>1
<1>5. CASE Unlocks' = Unlocks
  <2>1. Cardinality(Unlocks') = Cardinality(Unlocks)
    BY <1>5
  <2>. QED
    BY <1>2, <1>3, <1>4, <1>5, <2>1 DEF Fits
<1>6. CASE /\ Unlocks' = Unlocks \cup {k}
           /\ Cardinality(Unlocks)' = Cardinality(Unlocks) + 1
           /\ Ordinal(k)' = Cardinality(Unlocks) + 1
  <2>1. \A n \in Unlocks : now - Report(n).at > 2 * Window
    BY <1>0, <1>6, FarFromAll
  <2>2. Report(k)'.at = now
    BY <1>1
  <2>3. Within(now, observed) => of = Cardinality(Unlocks) + 1
    <3>1. CASE \E n \in Unlocks : observed <= Report(n).at + Window
      <4>1. PICK n \in Unlocks : observed <= Report(n).at + Window
        BY <3>1
      <4>2. now - Report(n).at > 2 * Window /\ Report(n).at \in Nat
        BY <1>0, <2>1
      <4>. PICK a, t \in Nat : a = Report(n).at /\ t = now
        BY <1>0, <4>2
      <4>3. t - observed > Window
        BY <4>1, <4>2, SMTT(30)
      <4>. QED
        BY <4>3, SMTT(30) DEF Within
    <3>2. CASE observed < -Window
      <4>1. now - observed > Window
        BY <3>2, <1>0
      <4>. QED
        BY <1>0, <4>1 DEF Within
    <3>3. CASE of = Cardinality(Unlocks) + 1
      BY <3>3
    <3>. QED
      BY <3>1, <3>2, <3>3 DEF Fits
  <2>4. Within(Report(k).at, observed)' => Ordinal(k)' = of
    BY <1>6, <2>2, <2>3 DEF Within
  <2>5. k \in Unlocks' /\ observed <= Report(k)'.at + Window
    BY <1>0, <1>2, <1>6, <2>2
  <2>6. \A n \in Unlocks' : Within(Report(n).at, observed)' => Ordinal(n)' = of
    BY <1>3, <1>6, <2>4
  <2>. QED
    BY <1>2, <2>5, <2>6 DEF Fits
<1>. QED
  BY <1>1, <1>5, <1>6

\* What is told of an unlock that was reported nearby, or of the next one, fits.
LEMMA ToldFits ==
  ASSUME Assumptions, Reported, Ordered, Spread,
         NEW of \in 1..Cardinality(Unlocks) + 1, SpacedWith(of), spaced'
  PROVE  of \in Int /\ now \in Int /\ Fits(of, now)
<1>. Window \in Nat
  BY DEF Assumptions
<1>0. /\ now \in Nat /\ Number \in Nat /\ Unlocks \subseteq 1..Number
      /\ \A n \in 1..Number : Report(n).at \in Nat
      /\ Cardinality(Unlocks) \in Nat
  BY UnlocksCounted
<1>1. CASE of > Cardinality(Unlocks)
  <2>1. of = Cardinality(Unlocks) + 1
    BY <1>0, <1>1
  <2>2. \A n \in Unlocks : now - Report(n).at > 2 * Window
    BY <1>1, FarFromAll DEF SpacedWith
  <2>3. ASSUME NEW n \in Unlocks PROVE ~Within(Report(n).at, now)
    <3>. PICK a, t \in Nat : a = Report(n).at /\ t = now
      BY <1>0
    <3>1. t - a > Window
      BY <2>2, SMTT(30)
    <3>. QED
      BY <3>1, SMTT(30) DEF Within
  <2>. QED
    BY <1>0, <2>1, <2>3 DEF Fits
<1>2. CASE ~(of > Cardinality(Unlocks))
  <2>1. of \in 1..Cardinality(Unlocks)
    BY <1>0, <1>2
  <2>2. PICK n \in Unlocks : Ordinal(n) = of
    BY <2>1 DEF Ordered
  <2>3. Near(Report(n).at, now)
    BY <1>2, <2>2 DEF SpacedWith
  <2>4. now <= Report(n).at + Window /\ Report(n).at <= now + Window
    BY <1>0, <2>3 DEF Near
  <2>5. ASSUME NEW m \in Unlocks, Within(Report(m).at, now) PROVE Ordinal(m) = of
    <3>. /\ m \in Nat /\ n \in Nat /\ Report(m).at \in Nat /\ Report(n).at \in Nat
      BY <1>0
    <3>1. now - Report(m).at <= Window /\ Report(m).at - now <= Window
      BY <2>5 DEF Within
    <3>. PICK a, b \in Nat : a = Report(m).at /\ b = Report(n).at
      OBVIOUS
    <3>2. b - a <= 2 * Window /\ a - b <= 2 * Window
      <4>1. now \in Nat /\ Window \in Nat
        BY <1>0
      <4>2. now <= b + Window /\ b <= now + Window /\ now - a <= Window /\ a - now <= Window
        BY <2>4, <3>1
      <4>. QED
        BY ONLY <4>1, <4>2, a \in Nat, b \in Nat
    <3>3. ~(m < n)
      <4>. SUFFICES ASSUME m < n PROVE FALSE
        OBVIOUS
      <4>1. b - a > 2 * Window
        BY DEF Spread
      <4>. QED
        BY <3>2, <4>1, SMTT(30)
    <3>4. ~(n < m)
      <4>. SUFFICES ASSUME n < m PROVE FALSE
        OBVIOUS
      <4>1. a - b > 2 * Window
        BY DEF Spread
      <4>. QED
        BY <3>2, <4>1, SMTT(30)
    <3>5. m = n
      BY <3>3, <3>4
    <3>. QED
      BY <2>2, <3>5
  <2>. QED
    BY <1>0, <2>1, <2>4, <2>5 DEF Fits
<1>. QED
  BY <1>1, <1>2

EvidenceParts == Ordered /\ (spaced => Spread /\ Fitting /\ Classified)

\* Nothing is reported, while what waits may end and time may pass.
LEMMA UnlocksStay ==
  ASSUME Reported, Ordered, UNCHANGED reports, now' \in {now, now + 1},
         waiting' \in {None, waiting}
  PROVE  /\ Ordered' /\ Spread' = Spread
         /\ \A n : Ordinal(n)' = Ordinal(n) /\ Report(n)' = Report(n)
         /\ Unlocks' = Unlocks
<1>0. /\ now \in Nat /\ Number \in Nat /\ \A n \in 1..Number : Report(n).at \in Nat
  BY UnlocksCounted
<1>1. UNCHANGED <<Unlocks, Number>> /\ \A n : Report(n)' = Report(n) /\ Ordinal(n)' = Ordinal(n)
  BY DEF Unlocks, Number, Report, Ordinal
<1>2. \A n \in 1..Number : Report(n).at <= now'
  BY <1>0 DEF Ordered
<1>3. Waits' => waiting'.report \in Unlocks /\ waiting'.at = Report(waiting'.report).at
  BY DEF Ordered, Waits
<1>4. Ordered'
  BY <1>1, <1>2, <1>3 DEF Ordered
<1>5. Spread' = Spread
  BY <1>1 DEF Spread
<1>. QED
  BY <1>1, <1>4, <1>5

\* Clues that fit, of the log and of what is kept, go on to fit if all do.
LEMMA FittingGoesOn ==
  ASSUME FingerInv, Fitting, UNCHANGED audit,
         \A of : \A observed \in Int : Fits(of, observed) => Fits(of, observed)',
         \/ cached' \in {None, cached}
         \/ \E of, observed \in Int :
              Fits(of, observed) /\ cached'.of = of /\ cached'.observed = observed
  PROVE  Fitting'
<1>1. \A n \in 1..Len(audit) : Fits(audit[n].of, audit[n].at)'
  <2>. TAKE n \in 1..Len(audit)
  <2>. PICK of, observed : of = audit[n].of /\ observed = audit[n].at
    OBVIOUS
  <2>1. audit[n] \in Entries
    BY ElementOfSeq DEF FingerInv, Linking
  <2>2. Fits(of, observed) /\ observed \in Int
    BY <2>1 DEF Fitting, Entries
  <2>3. Fits(of, observed)'
    BY <2>2
  <2>. QED
    BY <2>3
<1>2. cached' # None =>
        \E of, observed \in Int :
          Fits(of, observed) /\ cached'.of = of /\ cached'.observed = observed
  BY DEF Fitting
<1>3. ASSUME cached' # None
      PROVE  cached'.of \in Int /\ cached'.observed \in Int /\ Fits(cached.of, cached.observed)'
  <2>. PICK of, observed \in Int :
         Fits(of, observed) /\ cached'.of = of /\ cached'.observed = observed
    BY <1>2, <1>3
  <2>1. Fits(of, observed)'
    OBVIOUS
  <2>. QED
    BY <2>1
<1>. QED
  BY <1>1, <1>3 DEF Fitting

\* No step that neither reports nor tells anything classifies an unlock.
LEMMA NothingTold ==
  ASSUME Assumptions, EvidenceInv, UNCHANGED <<reports, audit>>, now' \in {now, now + 1},
         cached' \in {None, cached}, waiting' \in {None, waiting}, spaced' => spaced,
         \A r \in tasks' \cup log' : r \in tasks \cup log \/ r.evidence \in {None, Unknown}
  PROVE  EvidenceParts'
<1>. Reported /\ Ordered
  BY DEF EvidenceInv, FingerInv
<1>1. Ordered' /\ Spread' = Spread /\ \A n : Ordinal(n)' = Ordinal(n)
  BY UnlocksStay
<1>. SUFFICES ASSUME spaced' PROVE Fitting' /\ Classified'
  BY <1>1 DEF EvidenceInv, EvidenceParts
<1>. Fitting /\ Classified
  BY DEF EvidenceInv
<1>2. \A of : \A observed \in Int : Fits(of, observed) => Fits(of, observed)'
  BY FitsOn
<1>3. Fitting'
  BY <1>2, FittingGoesOn DEF EvidenceInv
<1>4. Classified'
  BY <1>1 DEF Classified
<1>. QED
  BY <1>3, <1>4

\* Evidence that fits classifies the unlock it is of.
LEMMA FitClassifies ==
  ASSUME Assumptions, EvidenceInv, UNCHANGED <<now, reports, audit, log>>,
         NEW of \in Int, NEW observed \in Int, AcceptEvidence(of, observed),
         spaced' => spaced /\ Fits(of, observed)
  PROVE  EvidenceParts'
<1>. Reported /\ Ordered
  BY DEF EvidenceInv, FingerInv
<1>1. /\ waiting' \in {None, waiting}
      /\ cached' = cached \/ (cached'.of = of /\ cached'.observed = observed)
      /\ \/ tasks' = tasks
         \/ /\ Waits /\ Within(waiting.at, observed)
            /\ tasks' = tasks \cup {Record(waiting.report, None, of)}
  BY DEF AcceptEvidence, Waits
<1>2. /\ Ordered' /\ Spread' = Spread
      /\ \A n : Ordinal(n)' = Ordinal(n) /\ Report(n)' = Report(n)
      /\ Unlocks' = Unlocks
  BY <1>1, UnlocksStay
<1>. SUFFICES ASSUME spaced' PROVE Fitting' /\ Classified'
  BY <1>2 DEF EvidenceInv, EvidenceParts
<1>. Fitting /\ Classified /\ Fits(of, observed)
  BY DEF EvidenceInv
<1>3. \A x : \A y \in Int : Fits(x, y) => Fits(x, y)'
  BY FitsOn
<1>4. Fitting'
  BY <1>1, <1>3, FittingGoesOn DEF EvidenceInv
<1>5. Waits /\ Within(waiting.at, observed) => Ordinal(waiting.report) = of
  BY DEF Fits, Ordered
<1>6. Classified'
  <2>1. CASE tasks' = tasks
    BY <1>2, <2>1 DEF Classified
  <2>2. CASE /\ Waits /\ Within(waiting.at, observed)
             /\ tasks' = tasks \cup {Record(waiting.report, None, of)}
    <3>. PICK new : new = Record(waiting.report, None, of)
      OBVIOUS
    <3>1. new.evidence = Ordinal(new.report)
      BY <1>5, <2>2 DEF Record
    <3>. QED
      BY <1>2, <2>2, <3>1 DEF Classified
  <2>. QED
    BY <1>1, <2>1, <2>2
<1>. QED
  BY <1>4, <1>6

\* What the lock logs fits like what it had logged.
LEMMA LoggedFits ==
  ASSUME Assumptions, EvidenceInv, UNCHANGED <<now, reports, cached, waiting, tasks, log>>,
         NEW of \in Int, NEW observed \in Int, NEW e, e.of = of, e.at = observed,
         audit' = Append(audit, e), spaced' => spaced /\ Fits(of, observed)
  PROVE  EvidenceParts'
<1>. Reported /\ Ordered /\ audit \in Seq(Entries)
  BY DEF EvidenceInv, FingerInv, Linking
<1>1. /\ Ordered' /\ Spread' = Spread
      /\ \A n : Ordinal(n)' = Ordinal(n) /\ Report(n)' = Report(n)
      /\ Unlocks' = Unlocks
  BY UnlocksStay
<1>. SUFFICES ASSUME spaced' PROVE Fitting' /\ Classified'
  BY <1>1 DEF EvidenceInv, EvidenceParts
<1>. Fitting /\ Classified /\ Fits(of, observed)
  BY DEF EvidenceInv
<1>2. \A x : \A y \in Int : Fits(x, y) => Fits(x, y)'
  BY FitsOn
<1>. PICK a : a = audit'
  OBVIOUS
<1>3. \A n \in 1..Len(a) : Fits(a[n].of, a[n].at)'
  <2>. TAKE n \in 1..Len(a)
  <2>. PICK x, y : x = a[n].of /\ y = a[n].at
    OBVIOUS
  <2>1. Fits(x, y) /\ y \in Int
    <3>1. CASE n \in 1..Len(audit)
      <4>1. a[n] = audit[n] /\ audit[n] \in Entries
        BY <3>1, ElementOfSeq
      <4>. QED
        BY <3>1, <4>1 DEF Fitting, Entries
    <3>2. CASE n \notin 1..Len(audit)
      <4>1. a[n] = e
        BY <3>2
      <4>. QED
        BY <4>1
    <3>. QED
      BY <3>1, <3>2
  <2>2. Fits(x, y)'
    BY <1>2, <2>1
  <2>. QED
    BY <2>2
<1>4. cached' # None =>
        cached'.of \in Int /\ cached'.observed \in Int /\ Fits(cached.of, cached.observed)'
  <2>. PICK x, y : x = cached.of /\ y = cached.observed
    OBVIOUS
  <2>1. cached # None => Fits(x, y) /\ x \in Int /\ y \in Int
    BY DEF Fitting
  <2>2. cached # None => Fits(x, y)'
    BY <1>2, <2>1
  <2>. QED
    BY <2>1, <2>2
<1>5. Fitting'
  BY <1>3, <1>4 DEF Fitting
<1>6. Classified'
  BY <1>1 DEF Classified
<1>. QED
  BY <1>5, <1>6

\* A report comes last, and if it is an unlock it has the next number.
LEMMA OrderedAfterReport ==
  ASSUME Assumptions, Reported, Ordered, NEW r \in ReportSet, r.at = now,
         reports' = Append(reports, r), UNCHANGED now,
         \/ waiting' = waiting
         \/ /\ waiting'.report = Number + 1 /\ waiting'.at = now
            /\ r.entity = "lock" /\ r.state = "unlocked"
  PROVE  /\ Ordered'
         /\ Spread /\ (Cardinality(Unlocks') > Cardinality(Unlocks) => FarFromLast) => Spread'
<1>. Window \in Nat
  BY DEF Assumptions
<1>0. /\ now \in Nat /\ Number \in Nat /\ Unlocks \subseteq 1..Number
      /\ \A n \in 1..Number : Report(n).at \in Nat
      /\ Cardinality(Unlocks) \in Nat
  BY UnlocksCounted
<1>. PICK k : k = Number + 1
  OBVIOUS
<1>1. /\ Number' = k
      /\ \A n \in 1..Number : Report(n)' = Report(n) /\ Ordinal(n)' = Ordinal(n)
      /\ Report(k)' = r
      /\ \/ /\ Unlocks' = Unlocks \cup {k}
            /\ Cardinality(Unlocks)' = Cardinality(Unlocks) + 1
            /\ Ordinal(k)' = Cardinality(Unlocks) + 1
            /\ r.entity = "lock" /\ r.state = "unlocked"
         \/ Unlocks' = Unlocks /\ ~(r.entity = "lock" /\ r.state = "unlocked")
  BY ReportCounts
<1>2. \A n \in 1..k : n \in 1..Number \/ n = k
  BY <1>0
<1>3. \A n \in 1..k : Report(n)'.at <= now /\ \A m \in 1..n : Report(m)'.at <= Report(n)'.at
  <2>1. ASSUME NEW n \in 1..Number, NEW m \in 1..n
        PROVE  Report(n)'.at <= now /\ Report(m)'.at <= Report(n)'.at
    <3>1. m \in 1..Number
      BY <1>0
    <3>. QED
      BY <1>1, <2>1, <3>1 DEF Ordered
  <2>2. Report(k)'.at = now
    BY <1>1
  <2>3. ASSUME NEW m \in 1..k PROVE Report(m)'.at <= now
    <3>1. CASE m \in 1..Number
      BY <1>1, <3>1 DEF Ordered
    <3>. QED
      BY <1>0, <1>2, <2>2, <3>1
  <2>. QED
    BY <1>2, <2>1, <2>2, <2>3
<1>4. \A o \in 1..Cardinality(Unlocks') : \E n \in Unlocks' : Ordinal(n)' = o
  <2>1. \A o \in 1..Cardinality(Unlocks) : \E n \in Unlocks : Ordinal(n)' = o
    BY <1>0, <1>1 DEF Ordered
  <2>2. CASE Unlocks' = Unlocks
    <3>1. Cardinality(Unlocks') = Cardinality(Unlocks)
      BY <2>2
    <3>. QED
      BY <2>1, <2>2, <3>1
  <2>3. CASE /\ Unlocks' = Unlocks \cup {k}
             /\ Cardinality(Unlocks)' = Cardinality(Unlocks) + 1
             /\ Ordinal(k)' = Cardinality(Unlocks) + 1
    <3>1. \A o \in 1..Cardinality(Unlocks) + 1 :
            o \in 1..Cardinality(Unlocks) \/ o = Cardinality(Unlocks) + 1
      BY <1>0
    <3>2. \A o \in 1..Cardinality(Unlocks) + 1 : \E n \in Unlocks \cup {k} : Ordinal(n)' = o
      BY <2>1, <2>3, <3>1
    <3>. QED
      BY <2>3, <3>2
  <2>. QED
    BY <1>1, <2>2, <2>3
<1>5. Waits' => waiting'.report \in Unlocks' /\ waiting'.at = Report(waiting.report)'.at
  <2>1. CASE waiting' = waiting
    <3>1. Unlocks \subseteq Unlocks'
      BY <1>1
    <3>. PICK n : n = waiting.report
      OBVIOUS
    <3>2. Waits => n \in Unlocks /\ waiting.at = Report(n).at
      BY DEF Ordered
    <3>3. Waits => waiting.at = Report(n)'.at
      BY <1>0, <1>1, <3>2
    <3>4. Waits' = Waits
      BY <2>1 DEF Waits
    <3>5. Report(waiting.report)' = Report(n)'
      BY <2>1 DEF Report
    <3>. QED
      BY <2>1, <3>1, <3>2, <3>3, <3>4, <3>5
  <2>2. CASE /\ waiting'.report = k /\ waiting'.at = now
             /\ r.entity = "lock" /\ r.state = "unlocked"
    <3>1. k \in Unlocks' /\ Report(k)'.at = now
      BY <1>1, <2>2
    <3>2. Report(waiting.report)' = Report(k)'
      BY <2>2 DEF Report
    <3>. QED
      BY <2>2, <3>1, <3>2
  <2>. QED
    BY <2>1, <2>2
<1>6. Ordered'
  BY <1>1, <1>3, <1>4, <1>5 DEF Ordered
<1>7. ASSUME Spread, Cardinality(Unlocks') > Cardinality(Unlocks) => FarFromLast
      PROVE  Spread'
  <2>1. \A m, n \in Unlocks : m < n => Report(n)'.at - Report(m)'.at > 2 * Window
    BY <1>0, <1>1, <1>7 DEF Spread
  <2>2. CASE Unlocks' = Unlocks
    BY <2>1, <2>2 DEF Spread
  <2>3. CASE Unlocks' = Unlocks \cup {k} /\ Cardinality(Unlocks)' = Cardinality(Unlocks) + 1
    <3>1. \A m \in Unlocks : now - Report(m).at > 2 * Window
      <4>1. Cardinality(Unlocks') > Cardinality(Unlocks)
        BY <1>0, <2>3
      <4>2. FarFromLast
        BY <1>7, <4>1
      <4>. QED
        BY <4>2, FarFromAll
    <3>2. \A m \in Unlocks : Report(k)'.at - Report(m)'.at > 2 * Window
      BY <1>0, <1>1, <3>1
    <3>3. \A m \in Unlocks : ~(k < m) /\ ~(k < k)
      BY <1>0
    <3>. QED
      BY <2>1, <2>3, <3>2, <3>3 DEF Spread
  <2>. QED
    BY <1>1, <2>2, <2>3
<1>. QED
  BY <1>6, <1>7

\* A change of state that is reported is classified by what fits, or not at all.
LEMMA StateChangesClassify ==
  ASSUME Assumptions, EvidenceInv, NEW e \in Entity, NEW s \in StateNames, StateChanges(e, s),
         UNCHANGED audit,
         spaced' => spaced /\ (Cardinality(Unlocks') > Cardinality(Unlocks) => FarFromLast)
  PROVE  EvidenceParts'
<1>. Reported /\ Ordered /\ FingerInv
  BY DEF EvidenceInv, FingerInv
<1>. UNCHANGED <<now, log>>
  BY DEF StateChanges
<1>0. /\ now \in Nat /\ Number \in Nat /\ Unlocks \subseteq 1..Number
      /\ \A n \in 1..Number : Report(n).at \in Nat
      /\ Cardinality(Unlocks) \in Nat
  BY UnlocksCounted
<1>1. CASE Unremarkable(e, s)
  <2>1. /\ UNCHANGED <<reports, audit>> /\ now' \in {now, now + 1}
        /\ cached' \in {None, cached} /\ waiting' \in {None, waiting}
        /\ \A r \in tasks' \cup log' : r \in tasks \cup log
    BY <1>1 DEF Unremarkable
  <2>. QED
    BY <2>1, NothingTold
<1>. PICK r : r = [entity |-> e, state |-> s, at |-> now]
  OBVIOUS
<1>2. r \in ReportSet /\ r.at = now /\ r.entity = e /\ r.state = s
  BY <1>0 DEF ReportSet
<1>. PICK k : k = Number + 1
  OBVIOUS
<1>3. ASSUME reports' = Append(reports, r),
             \/ waiting' = waiting
             \/ /\ waiting'.report = k /\ waiting'.at = now
                /\ e = "lock" /\ s = "unlocked",
             cached' \in {None, cached},
             \A t \in tasks' : t \in tasks \/ t.evidence \in {None, Unknown}
               \/ (cached # None /\ Within(cached.observed, now) /\ e = "lock" /\ s = "unlocked"
                   /\ t.report = k /\ t.evidence = cached.of)
      PROVE  EvidenceParts'
  <2>1. /\ Ordered'
        /\ Spread /\ (Cardinality(Unlocks') > Cardinality(Unlocks) => FarFromLast) => Spread'
    BY <1>2, <1>3, OrderedAfterReport
  <2>. SUFFICES ASSUME spaced' PROVE Fitting' /\ Classified'
    BY <2>1 DEF EvidenceInv, EvidenceParts
  <2>. /\ Fitting /\ Classified
       /\ Cardinality(Unlocks') > Cardinality(Unlocks) => FarFromLast
    BY DEF EvidenceInv
  <2>2. \A x : \A y \in Int : Fits(x, y) => Fits(x, y)'
    BY <1>2, <1>3, FitsAfterReport
  <2>3. Fitting'
    BY <1>3, <2>2, FittingGoesOn
  <2>4. /\ \A n \in 1..Number : Ordinal(n)' = Ordinal(n)
        /\ Report(k)' = r
        /\ e = "lock" /\ s = "unlocked" => k \in Unlocks'
    BY <1>2, <1>3, ReportCounts
  <2>5. \A t \in tasks \cup log : t.report \in 1..Number
    BY DEF Reported, Records
  <2>6. ASSUME NEW t, t \in tasks \cup log, t.evidence \notin {None, Unknown}
        PROVE  t.evidence = Ordinal(t.report)'
    BY <2>4, <2>5, <2>6 DEF Classified
  <2>7. ASSUME NEW t, cached # None, Within(cached.observed, now), e = "lock", s = "unlocked",
               t.report = k, t.evidence = cached.of
        PROVE  t.evidence = Ordinal(t.report)'
    <3>. PICK of, observed : of = cached.of /\ observed = cached.observed
      OBVIOUS
    <3>1. observed \in Int /\ Fits(of, observed)
      BY <2>7 DEF Fitting
    <3>2. Fits(of, observed)'
      BY <2>2, <3>1
    <3>3. k \in Unlocks' /\ Report(k)'.at = now
      BY <1>2, <2>4, <2>7
    <3>4. Within(Report(k).at, observed)'
      BY <2>7, <3>3 DEF Within
    <3>5. Ordinal(k)' = of
      BY <3>2, <3>3, <3>4 DEF Fits
    <3>. QED
      BY <2>7, <3>5
  <2>8. Classified'
    <3>. SUFFICES ASSUME NEW t \in tasks' \cup log', t.evidence \notin {None, Unknown}
                  PROVE  t.evidence = Ordinal(t.report)'
      BY DEF Classified
    <3>. QED
      BY <1>3, <2>6, <2>7
  <2>. QED
    BY <2>3, <2>8
<1>4. CASE Explained(e, s)
  <2>1. reports' = Append(reports, r) /\ waiting' = waiting /\ cached' = cached
    BY <1>4 DEF Explained
  <2>2. \A t \in tasks' : t \in tasks \/ t.evidence \in {None, Unknown}
    BY <1>4 DEF Explained, Record
  <2>. QED
    BY <1>3, <2>1, <2>2
<1>5. CASE ClassifiedAtOnce(e, s)
  <2>1. reports' = Append(reports, r) /\ waiting' = waiting /\ cached' = None
    BY <1>5 DEF ClassifiedAtOnce
  <2>2. /\ cached # None /\ Within(cached.observed, now) /\ CachedEvidence = cached.of
        /\ e = "lock" /\ s = "unlocked"
    BY <1>5 DEF ClassifiedAtOnce, CachedEvidence, Unexplained
  <2>3. \A t \in tasks' : t \in tasks \/ (t.report = k /\ t.evidence = cached.of)
    <3>1. tasks' = tasks \cup {Record(k, None, cached.of)}
      BY <1>5, <2>2 DEF ClassifiedAtOnce
    <3>. PICK new : new = Record(k, None, cached.of)
      OBVIOUS
    <3>2. new.report = k /\ new.evidence = cached.of
      BY DEF Record
    <3>3. tasks' = tasks \cup {new}
      BY <3>1
    <3>. QED
      BY <3>2, <3>3
  <2>. QED
    BY <1>3, <2>1, <2>2, <2>3
<1>6. CASE QueueUnlock(e, s)
  <2>1. reports' = Append(reports, r) /\ cached' = None /\ tasks' = tasks
    BY <1>6 DEF QueueUnlock
  <2>2. waiting'.report = k /\ waiting'.at = now /\ e = "lock" /\ s = "unlocked"
    BY <1>6 DEF QueueUnlock, Unexplained
  <2>. QED
    BY <1>3, <2>1, <2>2
<1>. QED
  BY <1>1, <1>4, <1>5, <1>6 DEF StateChanges

\* Every step keeps the account of the evidence.
LEMMA EvidenceStep ==
  ASSUME Assumptions, EvidenceInv, [Next]_vars
  PROVE  EvidenceInv'
<1>. Reported /\ Ordered /\ Linking /\ Observing
  BY DEF EvidenceInv, FingerInv
<1>0. now \in Nat /\ Cardinality(Unlocks) \in Nat
  BY UnlocksCounted
<1>. SUFFICES EvidenceParts'
  BY FingerStep DEF EvidenceInv, EvidenceParts
<1>1. CASE UNCHANGED <<physicalVars, audit, spaced>> /\ now' \in {now, now + 1}
  <2>1. /\ UNCHANGED <<reports, audit>> /\ spaced' = spaced
        /\ cached' \in {None, cached} /\ waiting' \in {None, waiting}
        /\ \A r \in tasks' \cup log' : r \in tasks \cup log
    BY <1>1 DEF physicalVars
  <2>. QED
    BY <1>1, <2>1, NothingTold
<1>2. CASE Tick
  BY <1>1, <1>2 DEF Tick, auditVars, otherVars
<1>3. CASE Physical
  <2>1. ASSUME NEW s \in LockStates, HAChanges("lock", s) PROVE EvidenceParts'
    <3>1. s \in StateNames /\ "lock" \in Entity
      BY DEF LockStates, StateNames, Entity
    <3>. QED
      BY <2>1, <3>1, StateChangesClassify DEF HAChanges
  <2>2. ASSUME NEW s \in ContactStates, HAChanges("contact", s) PROVE EvidenceParts'
    <3>1. s \in StateNames /\ "contact" \in Entity
      BY DEF ContactStates, StateNames, Entity, Stable
    <3>. QED
      BY <2>2, <3>1, StateChangesClassify DEF HAChanges
  <2>3. ASSUME NEW of \in 1..Cardinality(Unlocks) + 1, Tells(of)
        PROVE  of \in Int /\ (spaced' => spaced /\ Fits(of, now))
    <3>1. SpacedWith(of) /\ (spaced' => spaced)
      BY <2>3 DEF Tells, SpacedWith
    <3>2. spaced => Spread
      BY DEF EvidenceInv
    <3>3. spaced' => Fits(of, now)
      BY <3>1, <3>2, ToldFits
    <3>. QED
      BY <1>0, <3>1, <3>3
  <2>. PICK at \in Nat : at = now
    BY <1>0
  <2>4. ASSUME NEW of \in 1..Cardinality(Unlocks) + 1, NotificationArrives(of)
        PROVE  EvidenceParts'
    <3>1. of \in Int /\ (spaced' => spaced /\ Fits(of, at))
      BY <2>3, <2>4 DEF NotificationArrives
    <3>2. AcceptEvidence(of, at)
      BY <2>4 DEF NotificationArrives, HandleNotification
    <3>3. UNCHANGED <<now, reports, audit, log>>
      BY <2>4 DEF NotificationArrives, HandleNotification, auditVars
    <3>. QED
      BY <3>1, <3>2, <3>3, at \in Int, FitClassifies, Zenon
  <2>5. ASSUME NEW of \in 1..Cardinality(Unlocks) + 1, NukiLogs(of)
        PROVE  EvidenceParts'
    <3>1. of \in Int /\ (spaced' => spaced /\ Fits(of, at))
      BY <2>3, <2>5 DEF NukiLogs
    <3>2. PICK finger, slot :
            audit' = Append(audit, [of |-> of, at |-> at, finger |-> finger, slot |-> slot])
      BY <2>5 DEF NukiLogs, LockLogs
    <3>. PICK e : e = [of |-> of, at |-> at, finger |-> finger, slot |-> slot]
      OBVIOUS
    <3>3. e.of = of /\ e.at = at /\ audit' = Append(audit, e)
      BY <3>2
    <3>4. UNCHANGED <<now, reports, cached, waiting, tasks, log>>
      BY <2>5 DEF NukiLogs, physicalVars
    <3>. QED
      BY <3>1, <3>3, <3>4, at \in Int, LoggedFits, Zenon
  <2>6. ASSUME UNCHANGED <<auditVars, otherVars>>,
               \/ ExpirePendingUnlock \/ DiscardUnlockEvidence
               \/ (\E t \in tasks : RecordTransition(t)) \/ Refresh(Entities)
        PROVE  EvidenceParts'
    <3>1. /\ UNCHANGED <<now, reports>>
          /\ cached' \in {None, cached} /\ waiting' \in {None, waiting}
      BY <2>6 DEF ExpirePendingUnlock, DiscardUnlockEvidence, RecordTransition, Refresh,
                  ReplaceMonitored
    <3>2. \A r \in tasks' \cup log' : r \in tasks \cup log \/ r.evidence \in {None, Unknown}
      BY <2>6 DEF ExpirePendingUnlock, DiscardUnlockEvidence, RecordTransition, Refresh, Record
    <3>3. UNCHANGED audit /\ spaced' = spaced
      BY <2>6 DEF auditVars, otherVars
    <3>. QED
      BY <3>1, <3>2, <3>3, NothingTold
  <2>. QED
    BY <1>3, <2>1, <2>2, <2>4, <2>5, <2>6 DEF Physical
<1>4. CASE Reader
  <2>1. UNCHANGED <<now, audit, spaced>>
    BY <1>4 DEF Reader, AcquireLock, ListAuditEvents, LoadLinks, ResolvePerson, RecordUnlock,
                Raise, ConfirmOwner, Process, Schedule, AskToRefresh
  <2>2. CASE UNCHANGED physicalVars
    BY <1>1, <2>1, <2>2
  <2>3. ASSUME NEW q \in Poller, Process(q), UNCHANGED <<reports, log>>
        PROVE  EvidenceParts'
    <3>1. CASE UNCHANGED <<tasks, waiting, cached>>
      <4>1. \A r \in tasks' \cup log' : r \in tasks \cup log
        BY <2>3, <3>1
      <4>. QED
        BY <2>1, <2>3, <3>1, <4>1, NothingTold
    <3>2. CASE AcceptEvidence(Event(q).of, Event(q).at)
      <4>1. poll[q].left \subseteq 1..Len(audit) /\ poll[q].left # {}
        BY <2>3 DEF Process, At, Observing, Observed
      <4>. PICK n : n = First(q)
        OBVIOUS
      <4>2. n \in 1..Len(audit)
        <5>1. 1..Len(audit) \subseteq Nat
          OBVIOUS
        <5>2. First(q) = Earliest(poll[q].left)
          BY DEF First, Earliest
        <5>. QED
          BY <4>1, <5>1, <5>2, EarliestIsLeft
      <4>3. audit[n] \in Entries
        BY <4>2, ElementOfSeq DEF Linking
      <4>. PICK of, observed : of = audit[n].of /\ observed = audit[n].at
        OBVIOUS
      <4>4. of \in Int /\ observed \in Int
        BY <4>3 DEF Entries
      <4>5. spaced => Fits(of, observed)
        BY <4>2 DEF EvidenceInv, Fitting
      <4>6. AcceptEvidence(of, observed)
        BY <3>2 DEF Event
      <4>. QED
        BY <2>1, <2>3, <4>4, <4>5, <4>6, FitClassifies
    <3>. QED
      BY <2>3, <3>1, <3>2 DEF Process
  <2>. QED
    BY <1>4, <2>2, <2>3 DEF Reader
<1>5. CASE Commands
  BY <1>1, <1>5 DEF Commands, NewCall, ResolveState, Dispatch, DispatchReturns, DispatchRaises,
                    SwitchOn, SwitchOff, auditVars, otherVars
<1>6. CASE Keypad
  BY <1>1, <1>6 DEF Keypad, ReceiveZigbee2Mqtt, ReceiveZha, ManagedDevice, BeginProcessing,
                    ResolvePersonId, Authorize, RecordFailure, FinishProcessing,
                    auditVars, otherVars
<1>7. CASE Edits \/ UnloadKeypad
  BY <1>1, <1>7 DEF Edits, UpdateOpenPolicy, UpdatePolicy, UpdateKeypad, UnloadKeypad, auditVars
<1>8. CASE UnloadAudit \/ UnloadPhysical \/ SetUp
  <2>1. /\ UNCHANGED <<now, reports, audit, tasks, log, spaced>>
        /\ cached' \in {None, cached} /\ waiting' \in {None, waiting}
    BY <1>8 DEF UnloadAudit, StopAudit, UnloadPhysical, Stop, SetUp, Start, auditVars, otherVars
  <2>2. \A r \in tasks' \cup log' : r \in tasks \cup log
    BY <2>1
  <2>. QED
    BY <2>1, <2>2, NothingTold
<1>9. CASE UNCHANGED vars
  BY <1>1, <1>9 DEF vars, auditVars, otherVars
<1>. QED
  BY <1>2, <1>3, <1>4, <1>5, <1>6, <1>7, <1>8, <1>9 DEF Next

\* At first nothing was reported, and what is logged is older than a window.
LEMMA EvidenceInit ==
  ASSUME Init, Assumptions
  PROVE  EvidenceInv
<1>1. FingerInv
  BY ReportedInit, FingerInit DEF FingerInv
<1>2. /\ Number = 0 /\ Unlocks = {} /\ Cardinality(Unlocks) = 0 /\ now = 0
      /\ waiting = None /\ cached = None /\ tasks = {} /\ log = {}
  BY FS_EmptySet DEF Init, Number, Unlocks
<1>3. Ordered /\ Spread /\ Classified
  BY <1>2 DEF Ordered, Spread, Classified, Waits
<1>4. spaced => Fitting
  <2>. SUFFICES ASSUME spaced, NEW n \in 1..Len(audit)
                PROVE  Fits(audit[n].of, audit[n].at)
    BY <1>2 DEF Fitting
  <2>1. audit[n].at < -Window
    BY DEF Init
  <2>2. audit[n].at \in Int /\ Window \in Nat
    <3>1. audit[n] \in Entries
      BY <1>1, ElementOfSeq DEF FingerInv, Linking
    <3>. QED
      BY <3>1 DEF Entries, Assumptions
  <2>. QED
    BY <1>2, <2>1, <2>2 DEF Fits
<1>. QED
  BY <1>1, <1>3, <1>4 DEF EvidenceInv

(* EvidenceOfItsUnlock: when unlocks come far apart and each is told close *)
(* by, no unlock is attributed to the evidence of another: whatever waits, *)
(* is kept, expires or is read again from the log; for any number of       *)
(* unlocks and clues and any waits and window.                             *)
THEOREM EvidenceOfItsUnlockAlways == Spec => []EvidenceOfItsUnlock
<1>1. Init => EvidenceInv
  BY Assumptions, EvidenceInit
<1>2. EvidenceInv /\ [Next]_vars => EvidenceInv'
  BY Assumptions, EvidenceStep
<1>3. EvidenceInv => EvidenceOfItsUnlock
  BY DEF EvidenceInv, Classified, EvidenceOfItsUnlock
<1>. QED
  BY <1>1, <1>2, <1>3, PTL DEF Spec
=============================================================================
