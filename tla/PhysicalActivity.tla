-------------------------- MODULE PhysicalActivity --------------------------
(***************************************************************************)
(* PhysicalActivityIngestionService at one door: what Home Assistant       *)
(* reports of its lock and of its contact becomes one Activity record for  *)
(* each stable change, with the command or the evidence that explains it.  *)
(*                                                                         *)
(* Evidence (a Z-Wave notification, the log of a Nuki) comes before or     *)
(* after the report that it explains.  An unlock that no command explains  *)
(* waits for it, and evidence that nothing waits for is kept for a while.  *)
(* A report is handled in the step in which it is fired up to the first    *)
(* await, which is the write of the record or the attribution of a slot.   *)
(***************************************************************************)
EXTENDS LockCorrelation, FiniteSets, Sequences

CONSTANTS
  Wait,          \* how long an unlock or a piece of evidence is kept
  ProviderWait,  \* how long an unlock is kept for a local provider
  Window         \* how far apart an unlock and its evidence may be

VARIABLES
  started,     \* the listeners are registered
  monitored,   \* the entities that are listened to
  reader,      \* what tells how the lock was opened: "zwave", "nuki" or nothing
  provider,    \* the reader of a Nuki declared that it can classify unlocks
  shown,       \* the state that Home Assistant shows for each entity
  stable,      \* the last stable state of each monitored entity, or None
  waiting,     \* the unlock that waits for evidence, or None
  cached,      \* the evidence that waits for an unlock, or None
  recent,      \* when the last recorded unlock happened, or None
  tasks,       \* the records that are being written
  log,         \* the records that were written
  reports,     \* history: the reports so far, in their order
  lost         \* history: the records that will never be written

physicalVars == <<started, monitored, reader, provider, shown, stable, waiting, cached,
                  recent, tasks, log, reports, lost>>

Entity == {"lock", "contact"}
Stable == [lock |-> {"locked", "unlocked", "unlatched"},
           contact |-> {"open", "closed"}]
Shown(e) == Stable[e] \cup {"other"}

(* Evidence is of the n-th unlock; 0 stands for no evidence at all. *)
Unknown == 0

\* Mutant: the difference is taken with its sign.
WithinAfter(a, b) == b - a <= Window

Within(a, b) == a - b <= Window /\ b - a <= Window

Report(n) == reports[n]
Number == Len(reports)
Unlocks == {n \in 1..Number : Report(n).entity = "lock" /\ Report(n).state = "unlocked"}

(***************************************************************************)
(* Records.  A record names the report that it is about, the command that  *)
(* the report confirmed, and the evidence that classified it.              *)
(***************************************************************************)
Record(n, command, evidence) == [report |-> n, command |-> command, evidence |-> evidence]

(* A lock says which command it answers by its state; an open contact      *)
(* answers an unlock and a closed one a lock.                              *)
ConfirmedState(e, s) ==
  CASE e = "lock" -> s
    [] s = "open" -> "unlocked"
    [] OTHER -> "locked"

TimerOf(w) == IF w = None THEN {} ELSE {w.due}

(* No timer is overdue. *)
TimeMayPass == \A d \in TimerOf(waiting) \cup TimerOf(cached) : now < d

(* The unlock that waits, when it is given up without a record. *)
Dropped == IF waiting = None THEN {} ELSE {Record(waiting.report, None, Unknown)}

(* The evidence of a pending unlock, which is taken in any case. *)
CachedEvidence ==
  IF cached # None /\ Within(cached.observed, now) THEN cached.of ELSE None

(***************************************************************************)
(* A state change is reported.  What is not stable, what only establishes  *)
(* the baseline and what repeats the last stable state is not recorded.    *)
(***************************************************************************)
Notable(e, s) ==
  started /\ e \in monitored /\ s \in Stable[e] /\ stable[e] \notin {None, s}

SeesState(e, s) ==
  /\ stable' = IF started /\ e \in monitored /\ s \in Stable[e]
               THEN [stable EXCEPT ![e] = s] ELSE stable
  /\ shown' = [shown EXCEPT ![e] = s]

Unremarkable(e, s) ==
  /\ ~Notable(e, s)
  /\ SeesState(e, s)
  /\ UNCHANGED <<pending, waiting, cached, tasks, reports, lost>>

(* The lock has a device whose notifications are classified. *)
Notifying == reader = "zwave"

(* An unlock that no command explains, at a lock whose unlocks are         *)
(* classified by somebody: by a provider, or by notifications.             *)
Unexplained(e, s) ==
  /\ e = "lock" /\ s = "unlocked"
  /\ ConfirmedBy(s, now) = None
  /\ Notifying \/ provider

Explained(e, s) ==
  /\ Notable(e, s)
  /\ ~Unexplained(e, s)
  /\ LET state == ConfirmedState(e, s)
         answered == ConfirmedBy(state, now)
     IN /\ tasks' = tasks \cup {Record(Number + 1, answered, None)}
        /\ pending' = Awaited(state, now)
  /\ reports' = Append(reports, [entity |-> e, state |-> s, at |-> now])
  /\ SeesState(e, s)
  /\ UNCHANGED <<waiting, cached, lost>>

ClassifiedAtOnce(e, s) ==
  /\ Notable(e, s)
  /\ Unexplained(e, s)
  /\ CachedEvidence # None
  /\ tasks' = tasks \cup {Record(Number + 1, None, CachedEvidence)}
  /\ cached' = None
  /\ pending' = Awaited(s, now)
  /\ reports' = Append(reports, [entity |-> e, state |-> s, at |-> now])
  /\ SeesState(e, s)
  /\ UNCHANGED <<waiting, lost>>

(* An unlock that has to wait takes the place of one that waits. *)
QueueUnlock(e, s) ==
  /\ Notable(e, s)
  /\ Unexplained(e, s)
  /\ CachedEvidence = None
  /\ lost' = lost \cup Dropped
  /\ waiting' = [report |-> Number + 1, at |-> now,
                 due |-> now + (IF provider THEN ProviderWait ELSE Wait)]
  /\ cached' = None
  /\ pending' = Awaited(s, now)
  /\ reports' = Append(reports, [entity |-> e, state |-> s, at |-> now])
  /\ SeesState(e, s)
  /\ UNCHANGED tasks

StateChanges(e, s) ==
  /\ s # shown[e]
  /\ \/ Unremarkable(e, s)
     \/ Explained(e, s)
     \/ ClassifiedAtOnce(e, s)
     \/ QueueUnlock(e, s)
  /\ UNCHANGED <<now, started, monitored, reader, provider, recent, log>>

(***************************************************************************)
(* Evidence of an unlock that was reported already, or was recorded, or    *)
(* was not.                                                                *)
(***************************************************************************)
AcceptEvidence(of, observed) ==
  \/ /\ waiting # None /\ Within(waiting.at, observed)
     /\ tasks' = tasks \cup {Record(waiting.report, None, of)}
     /\ waiting' = None
     /\ UNCHANGED cached
  \/ /\ waiting # None => ~Within(waiting.at, observed)
     /\ recent # None /\ Within(recent, observed)
     /\ UNCHANGED <<tasks, waiting, cached>>
  \/ /\ waiting # None => ~Within(waiting.at, observed)
     /\ recent # None => ~Within(recent, observed)
     /\ cached' = [of |-> of, observed |-> observed, due |-> now + Wait]
     /\ UNCHANGED <<tasks, waiting>>

HandleNotification(of) ==
  /\ started /\ "lock" \in monitored /\ Notifying
  /\ AcceptEvidence(of, now)
  /\ UNCHANGED <<now, pending, started, monitored, reader, provider, shown, stable,
                 recent, log, reports, lost>>

\* Mutant: what has expired still waits.
ExpireAgain ==
  /\ waiting # None /\ waiting.due <= now
  /\ tasks' = tasks \cup {Record(waiting.report, None, Unknown)}
  /\ UNCHANGED <<now, pending, started, monitored, reader, provider, shown, stable,
                 waiting, cached, recent, log, reports, lost>>

ExpirePendingUnlock ==
  /\ waiting # None /\ waiting.due <= now
  /\ tasks' = tasks \cup {Record(waiting.report, None, Unknown)}
  /\ waiting' = None
  /\ UNCHANGED <<now, pending, started, monitored, reader, provider, shown, stable,
                 cached, recent, log, reports, lost>>

DiscardUnlockEvidence ==
  /\ cached # None /\ cached.due <= now
  /\ cached' = None
  /\ UNCHANGED <<now, pending, started, monitored, reader, provider, shown, stable,
                 waiting, recent, tasks, log, reports, lost>>

(* The record is written, or the write fails and it is lost.  Evidence of  *)
(* an unlock is declined only from then on.                                *)
RecordTransition(t) ==
  /\ t \in tasks
  /\ tasks' = tasks \ {t}
  /\ \/ /\ log' = log \cup {t}
        /\ recent' = IF t.report \in Unlocks THEN Report(t.report).at ELSE recent
        /\ UNCHANGED lost
     \/ /\ lost' = lost \cup {t}
        /\ UNCHANGED <<log, recent>>
  /\ UNCHANGED <<now, pending, started, monitored, reader, provider, shown, stable,
                 waiting, cached, reports>>

(***************************************************************************)
(* The door is enabled or disabled, or its entities change.  What is new   *)
(* starts from the state that is shown, what is gone is forgotten.         *)
(***************************************************************************)
Baseline(e) == IF shown[e] \in Stable[e] THEN shown[e] ELSE None

ReplaceMonitored(next) ==
  /\ stable' = [e \in Entity |->
                  CASE e \notin next -> None
                    [] e \notin monitored -> Baseline(e)
                    [] OTHER -> stable[e]]
  /\ monitored' = next
  /\ IF "lock" \in monitored \ next
     THEN /\ lost' = lost \cup Dropped
          /\ waiting' = None
          /\ cached' = None
          /\ recent' = None
     ELSE UNCHANGED <<lost, waiting, cached, recent>>

Refresh(next) ==
  /\ started
  /\ next # monitored
  /\ ReplaceMonitored(next)
  /\ UNCHANGED <<now, pending, started, reader, provider, shown, tasks, log, reports>>

(* What waits for evidence is dropped, what is being written is awaited,   *)
(* and then the commands are forgotten.                                    *)
Stop ==
  /\ started
  /\ started' = FALSE
  /\ lost' = lost \cup Dropped
  /\ waiting' = None
  /\ cached' = None
  /\ recent' = None
  /\ monitored' = {}
  /\ stable' = [e \in Entity |-> None]
  /\ UNCHANGED <<now, pending, reader, provider, shown, tasks, log, reports>>

Start(next) ==
  /\ ~started /\ tasks = {}
  /\ started' = TRUE
  /\ monitored' = next
  /\ stable' = [e \in Entity |-> IF e \in next THEN Baseline(e) ELSE None]
  /\ provider' = (reader = "nuki")
  /\ pending' = None
  /\ recent' = None
  /\ UNCHANGED <<now, reader, shown, waiting, cached, tasks, log, reports, lost>>
=============================================================================
