--------------------------- MODULE KeypadCommands ---------------------------
(***************************************************************************)
(* One keypad of a door: the ZHA or Zigbee2MQTT service that receives its  *)
(* requests, and KeypadCommandProcessor, which looks the code up, decides  *)
(* and calls the command service, one request at a time.  A request is the *)
(* call of the same name.  Codes, people and schedules are elsewhere: what *)
(* they say of a code is chosen at the await that asks them.               *)
(***************************************************************************)
EXTENDS AccessPointCommands

CONSTANTS
  Transactions,   \* numbers that a Zigbee2MQTT keypad gives its requests
  TransactionTtl, \* for how long a number is not accepted again
  FailureWindow,  \* for how long a failure counts
  MaxFailures     \* failures after which no code is looked up

VARIABLES
  transport,  \* "zha" or "z2m"
  listening,  \* the transport accepts requests
  enabled,    \* the keypad is enabled in the registry
  request,    \* the requests
  line,       \* who holds the lock of the keypad, and who waits for it
  failures,   \* the times of the failures
  seen,       \* when each transaction was received, or None
  guesses     \* history: the times of the wrong codes since the last right one

keypadVars == <<transport, listening, enabled, request, line, failures, seen, guesses>>

NoRequest == [pc |-> "idle", at |-> 0, received |-> 0, transaction |-> None,
              enabled |-> FALSE, person |-> None, answer |-> None]

Moves(r, pc) == request' = [request EXCEPT ![r].pc = pc]

Answers(r, answer) ==
  /\ request' = [request EXCEPT ![r].pc = "done", ![r].answer = answer]
  /\ line' = Tail(line)

InFlight == Len(line) > 0

(***************************************************************************)
(* Receiving.  MQTT may deliver a message again; a transaction counts as   *)
(* seen from its first arrival, whatever becomes of it.                    *)
(***************************************************************************)
\* Mutant: what was seen an instant ago has expired.
FreshAfterward(t) == seen[t] = None \/ seen[t] <= now - TransactionTtl

Fresh(t) == seen[t] = None \/ seen[t] < now - TransactionTtl

ReceiveZigbee2Mqtt(r, t) ==
  /\ transport = "z2m" /\ listening
  /\ request[r].pc = "idle" /\ call[r].pc = "idle"
  /\ IF Fresh(t)
     THEN /\ seen' = [seen EXCEPT ![t] = now]
          /\ request' = [request EXCEPT ![r].pc = "received", ![r].transaction = t,
                                        ![r].received = now]
     ELSE /\ request' = [request EXCEPT ![r].pc = "done", ![r].transaction = t]
          /\ UNCHANGED seen
  /\ UNCHANGED <<now, pending, physicalVars, commandVars, transport, listening, enabled, line,
                 failures, guesses>>

ReceiveZha(r) ==
  /\ transport = "zha" /\ listening
  /\ request[r].pc = "idle" /\ call[r].pc = "idle"
  /\ request' = [request EXCEPT ![r].pc = "received", ![r].at = now, ![r].received = now]
  /\ UNCHANGED <<now, pending, physicalVars, commandVars, transport, listening, enabled, line,
                 failures, seen, guesses>>

(* The keypad is looked up in the registry, and the copy that was found is *)
(* used from then on.  The lock of the storage lets the requests in as     *)
(* they came.  ZHA ignores a keypad that is busy; the time of a request is *)
(* that of its event, with Zigbee2MQTT the time now.                       *)
Foremost(r) ==
  \A q \in Call : request[q].pc = "received" => request[r].received <= request[q].received

ManagedDevice(r) ==
  /\ request[r].pc = "received" /\ Foremost(r)
  /\ IF (transport = "zha" /\ InFlight) \/ (transport = "z2m" /\ ~enabled)
     THEN Moves(r, "done") /\ UNCHANGED line
     ELSE /\ request' = [request EXCEPT ![r].pc = "queued", ![r].enabled = enabled,
                           ![r].at = IF transport = "z2m" THEN now ELSE @]
          /\ line' = Append(line, r)
  /\ UNCHANGED <<now, pending, physicalVars, commandVars, transport, listening, enabled,
                 failures, seen, guesses>>

(***************************************************************************)
(* _process_locked.  The failures go, up to the first that still counts.   *)
(***************************************************************************)
Counting(r) ==
  {n \in 1..Len(failures) + 1 :
     n <= Len(failures) => failures[n] >= request[r].at - FailureWindow}

Current(r) ==
  SubSeq(failures, CHOOSE n \in Counting(r) : \A m \in Counting(r) : n <= m, Len(failures))

\* Mutant: there is no lock.
Queues(r) == TRUE

Holds(r) == line[1] = r

BeginProcessing(r) ==
  /\ request[r].pc = "queued" /\ Holds(r)
  /\ IF ~request[r].enabled
     THEN Answers(r, "not_ready") /\ UNCHANGED failures
     ELSE /\ failures' = Current(r)
          /\ IF Len(Current(r)) >= MaxFailures
             THEN Moves(r, "recording") /\ UNCHANGED line
             ELSE Moves(r, "looking") /\ UNCHANGED line
  /\ UNCHANGED <<now, pending, physicalVars, commandVars, transport, listening, enabled, seen, guesses>>

(* A failure counts before it is recorded. *)
Failed(r, pc) ==
  /\ Moves(r, pc)
  /\ failures' = Append(failures, request[r].at)
  /\ guesses' = guesses \cup {[by |-> r, at |-> request[r].at]}
  /\ UNCHANGED line

(* Every PIN is opened and compared; one match names a person.  A PIN that *)
(* cannot be opened ends the request, and nothing counts.                  *)
ResolvePersonId(r) ==
  /\ request[r].pc = "looking"
  /\ \/ \E p \in Person :
          /\ request' = [request EXCEPT ![r].pc = "deciding", ![r].person = p]
          /\ UNCHANGED <<line, failures, guesses>>
     \/ Failed(r, "denying")
     \/ Answers(r, "not_ready") /\ UNCHANGED <<failures, guesses>>
  /\ UNCHANGED <<now, pending, physicalVars, commandVars, transport, listening, enabled, seen>>

(* What the person may do is read, which may raise. *)
Authorize(r) ==
  /\ request[r].pc = "deciding"
  /\ \/ /\ Moves(r, "executing")
        /\ \E operation \in {"lock", "unlock"} : Execute(r, operation, "keypad", request[r].person)
        /\ UNCHANGED <<line, failures, guesses>>
     \/ Failed(r, "recording") /\ UNCHANGED call
     \/ Answers(r, "not_ready") /\ UNCHANGED <<call, failures, guesses>>
  /\ UNCHANGED <<now, pending, physicalVars, door, transport, listening, enabled, seen>>

(* The failure is recorded in the Activity, which may raise. *)
RecordFailure(r) ==
  /\ request[r].pc \in {"denying", "recording"}
  /\ \/ Answers(r, IF request[r].pc = "denying" THEN "invalid_code" ELSE "not_ready")
     \/ Answers(r, "not_ready")
  /\ UNCHANGED <<now, pending, physicalVars, commandVars, transport, listening, enabled,
                 failures, seen, guesses>>

(* The command was sent; that the keypad works is noted, which may raise.  *)
(* A command that raised leaves the failures as they were.                 *)
FinishProcessing(r) ==
  /\ request[r].pc = "executing"
  /\ \/ /\ call[r].pc = "done"
        /\ failures' = <<>>
        /\ guesses' = {}
        /\ \E answer \in {"success", "not_ready"} : Answers(r, answer)
     \/ /\ call[r].pc = "failed"
        /\ Answers(r, "not_ready")
        /\ UNCHANGED <<failures, guesses>>
  /\ UNCHANGED <<now, pending, physicalVars, commandVars, transport, listening, enabled, seen>>

UpdateKeypad ==
  /\ enabled' = ~enabled
  /\ UNCHANGED <<now, pending, physicalVars, commandVars, transport, listening, request, line,
                 failures, seen, guesses>>

(* Nothing more is accepted; what was accepted is finished first. *)
StopListening ==
  /\ listening' = FALSE
  /\ UNCHANGED <<transport, enabled, request, line, failures, seen, guesses>>

Drained == \A r \in Call : request[r].pc \in {"idle", "done"}

ResetKeypad ==
  /\ listening' = TRUE
  /\ seen' = [t \in Transactions |-> None]
  /\ failures' = <<>>
  /\ guesses' = {}
  /\ UNCHANGED <<transport, enabled, request, line>>
=============================================================================
