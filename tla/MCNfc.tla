------------------------------- MODULE MCNfc -------------------------------
(***************************************************************************)
(* Two kinds of installations.  In one a single visitor comes, for each of *)
(* many schedules and each minute of a week of three days.  In the other   *)
(* the schedule is trivial and visitors and administrators interleave.     *)
(***************************************************************************)
EXTENDS Nfc, TLC

CONSTANTS p, d, t, u, x, y, k, l, i, j

MCOffset(zone, instant) == IF zone = "home" THEN 0 ELSE IF instant < 4 THEN 2 ELSE 1

Always == [enabled |-> TRUE, from |-> None, until |-> None, rules |-> {}, zone |-> "home"]

Kinds == {"taps", "challenges", "answers", "enrolments", "time", "switches", "revocations",
          "protections", "invites", "grants", "tests", "prepares", "deletes", "removals",
          "faults", "restarts"}

Budget(some) == some @@ [kind \in Kinds |-> 0]

Files ==
  [Empty EXCEPT !.tags[t] = NewTag(d, {1, 2}, None),
                !.passkeys[k] = [person |-> p, enabled |-> TRUE],
                !.grants = {<<p, d>>}]

Base ==
  [now |-> 0, data |-> Files, stored |-> 2,
   people |-> [q \in Person |-> [enabled |-> TRUE, schedule |-> "s"]],
   pins |-> [g \in Person \X Door |-> None],
   doors |-> [f \in Door |-> [managed |-> TRUE, enabled |-> TRUE]],
   schedules |-> [s \in {"s"} |-> Always],
   may |-> Budget(<<>>)]

(* One visit under a schedule. *)
RuleSets == {r \in UNION {{{q, s} : s \in WeeklyRules} : q \in WeeklyRules} : ValidRules(r)} \cup {{}}

Schedules ==
  {[Always EXCEPT !.rules = r, !.zone = z] : r \in RuleSets, z \in {"home", "away"}}
  \cup {[Always EXCEPT !.enabled = b, !.from = f, !.until = n] :
          b \in BOOLEAN, f \in {None, 2}, n \in {None, 5}}

Visits ==
  {[Base EXCEPT !.now = n, !.schedules["s"] = s,
                !.may = Budget([taps |-> 1, challenges |-> 1, answers |-> 1])] :
     n \in 0..8, s \in {s \in Schedules : ValidSchedule(s)}}

(* The other conditions, with a tag and with a test tag. *)
WithTest == [Files EXCEPT !.tests[x] = [door |-> d, expires |-> 1]]

Conditions ==
  {[Base EXCEPT !.data = [f EXCEPT !.tags[t] = tag],
                !.stored = IF tag = None THEN 0 ELSE 2, !.people[p].enabled = a, !.pins[<<p, d>>] = g,
                !.doors[d] = [managed |-> m, enabled |-> n],
                !.may = Budget([taps |-> 1, challenges |-> 1, answers |-> 1])] :
     f \in {Files, WithTest}, tag \in {None, Files.tags[t]}, a \in BOOLEAN,
     g \in {None} \cup [enabled : BOOLEAN, schedule : {"s"}], m \in BOOLEAN, n \in BOOLEAN}

Meetings ==
  {[Base EXCEPT !.may = Budget(b)] : b \in
     {[taps |-> 2, challenges |-> 2, answers |-> 2, time |-> 1],
      [taps |-> 2, challenges |-> 1, answers |-> 1, protections |-> 2, switches |-> 1],
      [taps |-> 1, challenges |-> 1, answers |-> 1, removals |-> 1, grants |-> 1],
      [prepares |-> 1, deletes |-> 1, protections |-> 2, faults |-> 1],
      [taps |-> 1, prepares |-> 1, deletes |-> 1, faults |-> 2, restarts |-> 1],
      [enrolments |-> 2, invites |-> 2, revocations |-> 1, removals |-> 1, time |-> 2]}}
  \cup {[Base EXCEPT !.data = WithTest, !.pins[<<p, d>>] = [enabled |-> TRUE, schedule |-> "s"],
                     !.may = Budget(b)] : b \in
     {[taps |-> 2, challenges |-> 2, answers |-> 2, revocations |-> 1],
      [taps |-> 1, challenges |-> 1, answers |-> 1, tests |-> 1, removals |-> 1],
      [taps |-> 3, challenges |-> 1, answers |-> 1, restarts |-> 1, time |-> 1]}}

MCInstallations == Visits \cup Conditions \cup Meetings
=============================================================================
