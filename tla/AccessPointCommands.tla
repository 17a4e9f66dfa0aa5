------------------------ MODULE AccessPointCommands ------------------------
(***************************************************************************)
(* AccessPointCommandService at one door: the one way in which the app, a  *)
(* tag and a keypad lock, unlock or open it.  A call reads the state of    *)
(* the door, reads the door again, registers the command with the          *)
(* correlation service and sends it; a relay is switched on and, whatever  *)
(* happens, off again.                                                     *)
(***************************************************************************)
EXTENDS PhysicalActivity

CONSTANTS
  Call,      \* calls of execute
  Person     \* who may be named by a command

VARIABLES
  door,      \* the target: profile, domain of its entity, policy
  call       \* the calls

commandVars == <<door, call>>

Profiles == {"lock", "garage_cover", "garage_toggle", "electric_strike"}
Domain == [lock |-> {"lock"}, garage_cover |-> {"cover"},
           garage_toggle |-> {"button", "switch"},
           electric_strike |-> {"button", "switch", "lock"}]
Operations == {"lock", "unlock", "open"}

Doors == {d \in [profile : Profiles, domain : {"lock", "cover", "button", "switch"},
                 status : BOOLEAN, opens : BOOLEAN, enabled : BOOLEAN,
                 open_enabled : BOOLEAN, entry_action : {"unlock", "open"}] :
            /\ d.domain \in Domain[d.profile]
            /\ d.opens => d.profile = "lock"
            /\ d.open_enabled => d.opens
            /\ d.entry_action = "open" => d.open_enabled}

(* resolve_state: what is shown of the control entity and of the contact.  *)
Visible == [available |-> shown.lock # "other",
            state |-> IF door.status /\ shown.contact # "other" THEN shown.contact ELSE None]

(* What the ingestion listens to: only a lock is a lock entity. *)
Entities == IF ~door.enabled THEN {}
            ELSE (IF door.profile = "lock" THEN {"lock"} ELSE {})
                 \cup (IF door.status THEN {"contact"} ELSE {})

Idle == [pc |-> "idle", operation |-> None, origin |-> None, person |-> None,
         saw |-> None, confirmable |-> FALSE, at |-> 0]

(* A garage toggle is opened by a tag only if a sensor tells its state. *)
NfcCapable == door.profile # "garage_toggle" \/ door.status

SupportsNfc ==
  /\ NfcCapable /\ Visible.available
  /\ door.profile = "lock" /\ door.entry_action = "open" => door.open_enabled /\ door.opens
  /\ door.profile = "garage_toggle" => Visible.state # None

(* What a tag or a keypad does at a lock is up to its policy. *)
Effective(d, c) ==
  IF c.operation = "unlock" /\ c.origin \in {"nfc", "keypad"} /\ d.profile = "lock"
  THEN d.entry_action
  ELSE c.operation

MayOpen(d, v) == d.profile = "lock" /\ d.open_enabled /\ d.opens /\ v.available

AlreadyInRequestedState(d, v, operation) ==
  /\ d.profile = "garage_toggle"
  /\ \/ operation = "unlock" /\ v.state = "open"
     \/ operation = "lock" /\ v.state = "closed"

ConfirmationRequired(d) ==
  d.profile # "electric_strike" /\ ~(d.profile = "garage_toggle" /\ ~d.status)

RequestedState(operation) ==
  CASE operation = "open" -> "unlatched"
    [] operation = "lock" -> "locked"
    [] OTHER -> "unlocked"

Relay(d) == d.profile \in {"garage_toggle", "electric_strike"} /\ d.domain = "switch"

Ends(c, how) ==
  call' = [call EXCEPT ![c] = [Idle EXCEPT !.pc = how, !.at = call[c].at,
                                               !.confirmable = call[c].confirmable]]

(***************************************************************************)
(* The call is made, and its reading of the state awaited.                 *)
(***************************************************************************)
Execute(c, operation, origin, person) ==
  call' = [call EXCEPT ![c] = [pc |-> "resolving", operation |-> operation,
             origin |-> origin, person |-> person, saw |-> None, confirmable |-> FALSE, at |-> 0]]

ResolveState(c) ==
  /\ call[c].pc = "resolving"
  /\ IF ~door.enabled \/ (call[c].origin = "nfc" /\ ~SupportsNfc)
     THEN Ends(c, "failed")
     ELSE call' = [call EXCEPT ![c] = [@ EXCEPT !.pc = "resolved", !.saw = Visible]]
  /\ UNCHANGED <<now, pending, physicalVars, door>>

(***************************************************************************)
(* The policy is read again; from there to the call of Home Assistant      *)
(* nothing is awaited.                                                     *)
(***************************************************************************)
Needless(c) == AlreadyInRequestedState(door, call[c].saw, Effective(door, call[c]))

Accepted(c) ==
  LET operation == Effective(door, call[c])
  IN /\ door.enabled
     /\ operation = "open" => MayOpen(door, call[c].saw)
     /\ ~Needless(c)
     /\ ~(door.profile = "electric_strike" /\ operation = "lock")
     /\ ConfirmationRequired(door) => MayRegister

Send(c) ==
  LET operation == Effective(door, call[c])
  IN /\ call' = [call EXCEPT ![c] = [@ EXCEPT !.pc = IF Relay(door) THEN "switching" ELSE "sent",
                                              !.operation = operation, !.at = now,
                                              !.confirmable = ConfirmationRequired(door)]]
     /\ pending' = IF ConfirmationRequired(door)
                   THEN Registered(c, RequestedState(operation), call[c].origin, call[c].person)
                   ELSE pending

Dispatch(c) ==
  /\ call[c].pc = "resolved"
  /\ \/ Accepted(c) /\ Send(c)
     \/ /\ ~Accepted(c)
        /\ Ends(c, IF door.enabled /\ Needless(c) THEN "done" ELSE "failed")
        /\ UNCHANGED pending
  /\ UNCHANGED <<now, physicalVars, door>>

(* The call of Home Assistant returns or raises; a command that raised is  *)
(* no longer waited for, whether it was carried out or not.                *)
DispatchReturns(c) ==
  /\ call[c].pc = "sent"
  /\ Ends(c, "done")
  /\ UNCHANGED <<now, pending, physicalVars, door>>

DispatchRaises(c) ==
  /\ call[c].pc \in {"sent", "switching"}
  /\ Ends(c, "failed")
  /\ pending' = IF call[c].confirmable THEN Cancelled(c) ELSE pending
  /\ UNCHANGED <<now, physicalVars, door>>

SwitchOn(c) ==
  /\ call[c].pc = "switching"
  /\ call' = [call EXCEPT ![c] = [@ EXCEPT !.pc = "pulse"]]
  /\ UNCHANGED <<now, pending, physicalVars, door>>

(* After the pulse, and also when the call is cancelled during it. *)
SwitchOff(c) ==
  /\ call[c].pc = "pulse"
  /\ \E raised \in BOOLEAN :
       /\ Ends(c, IF raised THEN "failed" ELSE "done")
       /\ pending' = IF raised /\ call[c].confirmable THEN Cancelled(c) ELSE pending
  /\ UNCHANGED <<now, physicalVars, door>>

(***************************************************************************)
(* The policy of the door is changed under the calls.  The ingestion is    *)
(* told when the door was enabled or disabled, and follows an await later. *)
(***************************************************************************)
UpdateOpenPolicy(open, entry) ==
  /\ open => door.opens
  /\ entry = "open" => open
  /\ door' = [door EXCEPT !.open_enabled = open, !.entry_action = entry]
  /\ UNCHANGED <<now, pending, physicalVars, call>>

UpdatePolicy ==
  /\ door' = [door EXCEPT !.enabled = ~@]
  /\ UNCHANGED <<now, pending, physicalVars, call>>
=============================================================================
