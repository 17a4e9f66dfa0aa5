------------------------------- MODULE MCDoor -------------------------------
EXTENDS Door, TLC

CONSTANTS anna, ben, first, second

Symmetry == Permutations(Call)

Kind(profile, domain, status, opens) ==
  [profile |-> profile, domain |-> domain, status |-> status, opens |-> opens,
   enabled |-> TRUE, open_enabled |-> opens, entry_action |-> IF opens THEN "open" ELSE "unlock"]

Bolt == Kind("lock", "lock", FALSE, FALSE)
Lock == Kind("lock", "lock", FALSE, TRUE)
LockWithContact == Kind("lock", "lock", TRUE, FALSE)
Garage == Kind("garage_toggle", "switch", TRUE, FALSE)
Gate == Kind("garage_cover", "cover", TRUE, FALSE)
Strike == Kind("electric_strike", "switch", FALSE, FALSE)

Bound(t, c, s, v, e, u) ==
  [time |-> t, calls |-> c, changes |-> s, evidence |-> v, edits |-> e, restarts |-> u,
   polls |-> 0, faults |-> 0, links |-> 0]

Site(d, k, by, b) ==
  [door |-> d, transport |-> k, reader |-> by, bound |-> b, access |-> [o \in Owner |-> None], audit |-> <<>>]

(* At a Nuki the first owner has an authorization, and somebody who had    *)
(* the same one before has opened the door with a finger.                  *)
Nuki(b, polls, faults, links) ==
  [Site(Bolt, "none", "nuki", [b EXCEPT !.polls = polls, !.faults = faults, !.links = links]) EXCEPT
     !.access[anna] = [slot |-> first, since |-> -1, stage |-> "on"],
     !.audit = <<[of |-> -1, at |-> -2, finger |-> TRUE, slot |-> first]>>]

MCInstallations ==
  {[Nuki(Bound(3, 0, 3, 1, 0, 0), 0, 0, 0) EXCEPT !.audit = <<>>],
   Nuki(Bound(1, 0, 0, 1, 0, 0), 1, 0, 3),
   Nuki(Bound(1, 0, 1, 1, 0, 1), 0, 1, 1),
   Site(Lock, "none", "zwave", Bound(2, 0, 2, 1, 1, 0)),
   Site(Lock, "z2m", "zwave", Bound(2, 2, 1, 0, 0, 0)),
   Site(Lock, "zha", "zwave", Bound(2, 1, 1, 0, 0, 1)),
   Site(LockWithContact, "none", "zwave", Bound(2, 2, 1, 0, 0, 0)),
   Site(LockWithContact, "none", "zwave", Bound(2, 1, 1, 1, 0, 1)),
   Site(Garage, "none", "zwave", Bound(3, 2, 1, 0, 0, 0)),
   Site(Gate, "none", "zwave", Bound(2, 1, 1, 0, 1, 0)),
   Site(Strike, "zha", "zwave", Bound(2, 3, 0, 0, 0, 0)),
   Site(Strike, "z2m", "zwave", Bound(2, 2, 0, 0, 1, 1))}
=============================================================================
