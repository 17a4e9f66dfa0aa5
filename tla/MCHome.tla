------------------------------- MODULE MCHome -------------------------------
(***************************************************************************)
(* Homes of a few people and doors: one whose lock discovery finds, one    *)
(* that takes PINs at a keypad, and a lock that was bound by hand, of      *)
(* which discovery knows nothing.  Each kind of home is asked for what is  *)
(* likely to meet there.                                                   *)
(***************************************************************************)
EXTENDS Home, TLC

CONSTANTS
  anna, ben, carl, dora, front, back, side, pad, spare, shared, other, permanent, own, always, day, night,
  newcomer, occupant, empty

Kinds == {"people", "schedules", "forms", "statuses", "removals", "enrolments", "policies",
          "doors", "keypads", "updates", "faults", "restarts", "submits", "gives"}

\* A caller is as good as another: each may begin whatever is asked.
Symmetry == Permutations(Caller)

Budget(some) == some @@ [kind \in Kinds |-> 0]

(* A newcomer with a PIN and two doors, an occupant who is given a door,   *)
(* and a newcomer without either.                                          *)
MCAsked ==
  newcomer :> [kind |-> "create", person |-> ben, doors |-> {front, back}, pin |-> TRUE, schedule |-> shared] @@
  occupant :> [kind |-> "assign", person |-> anna, doors |-> {front, back}, pin |-> TRUE, schedule |-> shared] @@
  empty :> [kind |-> "create", person |-> carl, doors |-> {}, pin |-> FALSE, schedule |-> permanent]

Equipped ==
  [Empty EXCEPT
    !.people[anna] = [default |-> shared, enabled |-> TRUE, rev |-> 1],
    !.schedules[shared] = [policy |-> day, rev |-> 1],
    !.doors[front] = [managed |-> TRUE, pin |-> TRUE, rev |-> 1],
    !.doors[back] = [managed |-> TRUE, pin |-> TRUE, rev |-> 1],
    !.keypads[pad] = [door |-> back, enabled |-> TRUE]]

WithAccess(d, who, xs) ==
  [d EXCEPT
    !.authority[who] = 1,
    !.grants = [g \in Pair |->
       IF g \in {who} \X xs THEN [schedule |-> d.people[who].default, cred |-> 1] ELSE @[g]],
    !.metadata = [g \in Pair |->
       IF g \in {who} \X xs THEN [cred |-> 1, status |-> "synchronized"] ELSE @[g]]]

HomeOf(d, some) ==
  [doc |-> d, stored |-> IF d.authority[anna] = None THEN 0 ELSE 1, may |-> Budget(some)]

(* Two people share a schedule, one of them at both doors. *)
Shared ==
  WithAccess([Equipped EXCEPT !.people[dora] = Equipped.people[anna]], anna, {front, back})

Hours ==
  {HomeOf(Shared, some) : some \in
     {[forms |-> 2, statuses |-> 1, people |-> 1],
      [forms |-> 2, gives |-> 1],
      [forms |-> 1, schedules |-> 2, people |-> 1]}}
  \cup {HomeOf(Equipped, [schedules |-> 3, people |-> 2])}

AtBack == WithAccess(Equipped, anna, {back})
Spare == [Equipped EXCEPT !.keypads[spare] = [door |-> back, enabled |-> TRUE]]
Bare == [Empty EXCEPT !.people[anna] = Equipped.people[anna], !.schedules[shared] = Equipped.schedules[shared]]

Removed == [Equipped EXCEPT !.doors = [x \in Door |-> IF @[x] = None THEN None ELSE [@[x] EXCEPT !.managed = FALSE]],
                            !.keypads[pad] = None]
ByHand == [Bare EXCEPT !.doors[side] = [managed |-> TRUE, pin |-> FALSE, rev |-> 1],
                       !.keypads[pad] = [door |-> side, enabled |-> TRUE]]

Devices ==
  {HomeOf(AtBack, some) : some \in
     {[keypads |-> 1, doors |-> 1, removals |-> 1, faults |-> 1],
      [updates |-> 1, keypads |-> 1, removals |-> 1, restarts |-> 1],
      [enrolments |-> 1, doors |-> 1, removals |-> 1, policies |-> 1]}}
  \cup {HomeOf(d, some) : d \in {Equipped, Spare}, some \in
     {[keypads |-> 2, gives |-> 1, removals |-> 1],
      [keypads |-> 2, doors |-> 1, updates |-> 1, restarts |-> 1],
      [policies |-> 2, doors |-> 1, gives |-> 1],
      [keypads |-> 1, policies |-> 2, faults |-> 1]}}
  \cup {HomeOf(Bare, [enrolments |-> 2, keypads |-> 1, gives |-> 1]),
        HomeOf(Removed, [enrolments |-> 2, keypads |-> 1, policies |-> 1]),
        HomeOf(Spare, [gives |-> 2, keypads |-> 1, updates |-> 1]),
        HomeOf(ByHand, [keypads |-> 2, enrolments |-> 1, doors |-> 1, restarts |-> 1])}

SetUps ==
  {HomeOf(d, some) : d \in {Equipped, AtBack}, some \in
     {[submits |-> 3, faults |-> 2],
      [submits |-> 2, removals |-> 1, people |-> 1],
      [submits |-> 2, forms |-> 1, doors |-> 1]}}
  \cup {HomeOf(AtBack, some) : some \in
     {[submits |-> 3, restarts |-> 1, faults |-> 1],
      [submits |-> 1, gives |-> 1, faults |-> 1]}}
  \cup {HomeOf(Spare, [submits |-> 1, keypads |-> 1, updates |-> 1])}

MCHomes == Hours \cup Devices \cup SetUps
=============================================================================
