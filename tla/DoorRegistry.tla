---------------------------- MODULE DoorRegistry ----------------------------
(***************************************************************************)
(* AccessPointService and AccessDeviceService: doors that are enrolled,    *)
(* changed and removed, and the keypads beside them.  A door is enrolled   *)
(* from discovery, or by hand for an entity of Home Assistant.  Where      *)
(* discovery finds the lock, it says whether the door takes PINs; else the *)
(* enrolment does, which a keypad changes unless the profile is "lock".    *)
(* What discovery finds is taken as constant.                              *)
(***************************************************************************)
EXTENDS Registry

CONSTANTS
  WithLock,     \* doors whose control profile is "lock"
  Discovered,   \* doors that are enrolled from discovery; the others, by hand
  Known, Coded  \* doors whose lock discovery finds, and those it says take PINs

VARIABLES
  moved,        \* history: keypads moved or switched on since the last start
  out           \* history: doors removed and not enrolled since

doors == <<moved, out>>
others == <<drawn, hours, doors>>

PinCapable(d, x) == IF x \in Known THEN x \in Coded ELSE d.doors[x].pin

\* set_keypad_pin_capable has nothing to do for this keypad's door.
Exposed(d, x) == x \in WithLock \/ d.doors[x].pin

Revision(x) == IF doc.doors[x] = None THEN 0 ELSE doc.doors[x].rev

\* The enrolment is written as it was read, whatever became of it since.
WriteDoor(x, rev, door) ==
  doc' = IF MayUpsertDoor(doc, x, rev) THEN UpsertDoor(doc, x, door) ELSE doc

(***************************************************************************)
(* Enrolment.  What was removed before keeps its identity and its policy.  *)
(* From discovery a door may be enrolled again, and its policy stays as it *)
(* is; by hand it may not, and it takes no PINs before it has a keypad.    *)
(***************************************************************************)
StartEnrolment(c, x) ==
  /\ x \in Discovered \/ ~Managed(doc, x)
  /\ Begins(c, "enrolments", [pc |-> "enrol", door |-> x, rev |-> Revision(x), doors |-> {x}])
  /\ UNCHANGED <<doc, others>>

\* Mutant: a policy is never marked as changed.
PolicyKept(x) == IF doc.doors[x] = None THEN 1 ELSE Revision(x)

NextRevision(x) ==
  IF x \in Discovered /\ doc.doors[x] # None THEN Revision(x) ELSE Revision(x) + 1

FinishEnrolment(c) ==
  LET x == call[c].door
  IN /\ At(c, "enrol")
     /\ WriteDoor(x, call[c].rev, [managed |-> TRUE, pin |-> x \in Discovered, rev |-> NextRevision(x)])
     /\ out' = IF call[c].rev = Revision(x) THEN out \ {x} ELSE out
     /\ Becomes(c, Free)
     /\ UNCHANGED <<may, met, drawn, hours, moved>>

(***************************************************************************)
(* The policy of a door; its status source, which is part of the enrolment *)
(* as is the discovery key that reconciliation learns.                     *)
(***************************************************************************)
ReadPolicy(c, x) ==
  /\ doc.doors[x] # None
  /\ Begins(c, "policies", [pc |-> "policy", door |-> x, rev |-> Revision(x), doors |-> {x}])
  /\ UNCHANGED <<doc, others>>

WritePolicy(c) ==
  LET x == call[c].door
  IN /\ At(c, "policy")
     /\ doc' = IF call[c].rev = Revision(x)
               THEN [doc EXCEPT !.doors[x].rev = @ + 1] ELSE doc
     /\ Becomes(c, Free)
     /\ UNCHANGED <<may, met, others>>

ReadEnrolment(c, x) ==
  /\ Managed(doc, x)
  /\ Begins(c, "policies", [pc |-> "enrolment", door |-> x, copy |-> doc.doors[x], doors |-> {x}])
  /\ UNCHANGED <<doc, others>>

WriteEnrolment(c) ==
  /\ At(c, "enrolment")
  /\ WriteDoor(call[c].door, call[c].copy.rev, call[c].copy)
  /\ Becomes(c, Free)
  /\ UNCHANGED <<may, met, others>>

(***************************************************************************)
(* remove_access_point: only a door without grants; its keypads go first.  *)
(***************************************************************************)
MayLeave(d, x) == ~HasGrants(d, x)

StartRemoval(c, x) ==
  /\ Managed(doc, x) /\ MayLeave(doc, x)
  /\ Begins(c, "doors", [pc |-> "keypads", door |-> x, doors |-> {x}])
  /\ UNCHANGED <<doc, others>>

RemoveKeypads(c) ==
  /\ At(c, "keypads")
  /\ doc' = RemoveKeypadsOf(doc, call[c].door)
  /\ Goes(c, "depart")
  /\ UNCHANGED <<may, met, others>>

RemoveDoor(c) ==
  /\ At(c, "depart")
  /\ doc' = RemoveEnrolment(doc, call[c].door)
  /\ out' = out \cup {call[c].door}
  /\ Becomes(c, Free)
  /\ UNCHANGED <<may, met, drawn, hours, moved>>

(***************************************************************************)
(* set_keypad_pin_capable, which reads the enrolment and writes it back.   *)
(***************************************************************************)
MaySetCapability(d, x, enabled) ==
  Managed(d, x) /\ (x \notin WithLock /\ d.doors[x].pin /\ ~enabled => ~HasGrants(d, x))

Capability(pc, k, x, enabled) ==
  [pc |-> pc, keypad |-> k, door |-> x, enabled |-> enabled, copy |-> doc.doors[x], doors |-> {x}]

\* Nothing to write, or the policy is as it was; the call goes on or raises.
SetCapability(c, next) ==
  LET x == call[c].door
      copy == call[c].copy
      nothing == x \in WithLock \/ copy.pin = call[c].enabled
  IN /\ IF nothing THEN UNCHANGED doc
        ELSE WriteDoor(x, copy.rev, [copy EXCEPT !.pin = call[c].enabled])
     /\ IF nothing \/ copy.rev = Revision(x) THEN Goes(c, next) ELSE Becomes(c, Free)
     /\ UNCHANGED <<may, met, others>>

(***************************************************************************)
(* add_keypad: the door takes PINs, and then the keypad is recorded.       *)
(***************************************************************************)
StartKeypad(c, k, x) ==
  /\ k \notin drawn /\ MaySetCapability(doc, x, TRUE)
  /\ Begins(c, "keypads", Capability("expose", k, x, TRUE))
  /\ drawn' = drawn \cup {k}
  /\ UNCHANGED <<doc, hours, doors>>

Expose(c) == At(c, "expose") /\ SetCapability(c, "keypad")

RecordKeypad(c) ==
  /\ At(c, "keypad")
  /\ Saves(UpsertKeypad(doc, call[c].keypad, call[c].door, TRUE))
  /\ Becomes(c, Free)
  /\ UNCHANGED <<may, met, others>>

(***************************************************************************)
(* remove: the last keypad that is switched on takes the capability along, *)
(* unless there are grants; what fails gives it back.                      *)
(***************************************************************************)
OtherKeypads(d, k, x) ==
  {o \in Keypad \ {k} : d.keypads[o] # None /\ d.keypads[o].door = x /\ d.keypads[o].enabled}

StartUnkeypad(c, k) ==
  LET x == doc.keypads[k].door
      last == OtherKeypads(doc, k, x) = {}
  IN /\ doc.keypads[k] # None
     /\ last => MaySetCapability(doc, x, FALSE)
     /\ Begins(c, "keypads", Capability(IF last THEN "withdraw" ELSE "unkeypad", k, x, ~last))
     /\ UNCHANGED <<doc, others>>

Withdraw(c) == At(c, "withdraw") /\ SetCapability(c, "unkeypad")

ForgetKeypad(c) ==
  /\ At(c, "unkeypad")
  /\ doc' = RemoveKeypad(doc, call[c].keypad)
  /\ Becomes(c, Free)
  /\ UNCHANGED <<may, met, others>>

\* The write failed; a capability that was withdrawn is given back.
ForgetFails(c) ==
  LET x == call[c].door
  IN /\ At(c, "unkeypad") /\ Allowed("faults") /\ Uses("faults")
     /\ doc' = IF ~call[c].enabled /\ Managed(doc, x) /\ x \notin WithLock
               THEN [doc EXCEPT !.doors[x].pin = TRUE] ELSE doc
     /\ Becomes(c, Free)
     /\ UNCHANGED <<met, others>>

(***************************************************************************)
(* update and mark_ready_after_hardware_test write the whole keypad; the   *)
(* capability of its door, old or new, is not looked at.                   *)
(***************************************************************************)
ReadKeypad(c, k, x, enabled) ==
  /\ doc.keypads[k] # None /\ Managed(doc, x)
  /\ Begins(c, "updates", [pc |-> "update", keypad |-> k, door |-> x, enabled |-> enabled,
                           doors |-> {doc.keypads[k].door, x}])
  /\ UNCHANGED <<doc, others>>

WriteKeypad(c) ==
  LET k == call[c].keypad
  IN /\ At(c, "update")
     /\ Saves(UpsertKeypad(doc, k, call[c].door, call[c].enabled))
     /\ moved' = IF doc'.keypads[k] # doc.keypads[k] /\ call[c].enabled
                 THEN moved \cup {k} ELSE moved
     /\ Becomes(c, Free)
     /\ UNCHANGED <<may, met, drawn, hours, out>>

(***************************************************************************)
(* The process ends and starts: calls are gone, and every keypad that is   *)
(* switched on makes its door take PINs, in any order; at a door that is   *)
(* not managed this fails, and HomePASS does not start.                    *)
(***************************************************************************)
InUse(d) == {d.keypads[k].door : k \in {o \in Keypad : d.keypads[o] # None /\ d.keypads[o].enabled}}

Reconciled(d, xs) ==
  [d EXCEPT !.doors = [x \in Door |->
     IF x \in xs \ WithLock THEN [@[x] EXCEPT !.pin = TRUE] ELSE @[x]]]

Restart ==
  LET astray == {x \in InUse(doc) : ~Managed(doc, x)}
  IN /\ Allowed("restarts") /\ Uses("restarts")
     /\ \E xs \in IF astray = {} THEN {InUse(doc)} ELSE SUBSET (InUse(doc) \ astray) :
          doc' = Reconciled(doc, xs)
     /\ call' = [c \in Caller |-> IF astray = {} THEN Free ELSE [pc |-> "down"]]
     /\ moved' = IF astray = {} THEN {} ELSE moved
     /\ UNCHANGED <<met, drawn, hours, out>>
=============================================================================
