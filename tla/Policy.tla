------------------------------- MODULE Policy -------------------------------
(***************************************************************************)
(* The pure policy: whether a schedule admits an instant, and whether a    *)
(* person may use a door.  Time is counted in minutes from the beginning   *)
(* of a first day of a week; the code compares with minutes throughout.    *)
(***************************************************************************)
EXTENDS Integers, FiniteSets

CONSTANTS
  None,
  DaysPerWeek,       \* 7 in the code
  MinutesPerDay,     \* 1440 in the code
  Offset(_, _)       \* what a time zone adds to an instant

ASSUME WeekAssumption == DaysPerWeek \in Nat \ {0} /\ MinutesPerDay \in Nat \ {0, 1}

Day == 1..DaysPerWeek
Minute == 0..MinutesPerDay - 1
WeekMinutes == DaysPerWeek * MinutesPerDay

WeeklyRules == {r \in [day : Day, start : Minute, end : Minute] : r.start # r.end}

(* Where a day begins in the week. *)
DayStart(day) == (day - 1) * MinutesPerDay

(***************************************************************************)
(* WeeklyRule, and what Schedule accepts: rules whose segments of the week *)
(* do not overlap.  A rule that ends before it starts ends a day later.    *)
(***************************************************************************)
RuleEnd(rule) ==
  DayStart(rule.day) + rule.end + (IF rule.end <= rule.start THEN MinutesPerDay ELSE 0)

RuleSegments(rule) ==
  LET start == DayStart(rule.day) + rule.start
  IN IF RuleEnd(rule) <= WeekMinutes
     THEN {[start |-> start, end |-> RuleEnd(rule)]}
     ELSE {[start |-> start, end |-> WeekMinutes],
           [start |-> 0, end |-> RuleEnd(rule) - WeekMinutes]}

Disjoint(s, t) == s.end <= t.start \/ t.end <= s.start

ValidRules(rules) ==
  \A q, r \in rules : q # r =>
    \A s \in RuleSegments(q), t \in RuleSegments(r) : Disjoint(s, t)

IsSchedule(s) ==
  /\ s.enabled \in BOOLEAN
  /\ s.from \in Int \cup {None} /\ s.until \in Int \cup {None}
  /\ s.rules \subseteq WeeklyRules

ValidSchedule(s) ==
  /\ ValidRules(s.rules)
  /\ s.from # None /\ s.until # None => s.from < s.until

(***************************************************************************)
(* evaluate_schedule.                                                      *)
(***************************************************************************)
\* Mutant: the week does not begin again.
FollowingUnwrapped(day) == day + 1

Following(day) == (day % DaysPerWeek) + 1

RuleMatches(rule, day, minute) ==
  IF rule.start < rule.end
  THEN day = rule.day /\ rule.start <= minute /\ minute < rule.end
  ELSE \/ day = rule.day /\ minute >= rule.start
       \/ day = Following(rule.day) /\ minute < rule.end

Local(zone, instant) == instant + Offset(zone, instant)
LocalDay(zone, instant) == ((Local(zone, instant) \div MinutesPerDay) % DaysPerWeek) + 1
LocalMinute(zone, instant) == Local(zone, instant) % MinutesPerDay

Evaluate(s, instant) ==
  IF ~s.enabled THEN "schedule_disabled"
  ELSE IF s.from # None /\ instant < s.from THEN "schedule_not_yet_valid"
  ELSE IF s.until # None /\ instant >= s.until THEN "schedule_expired"
  ELSE IF s.rules = {} \/ \E r \in s.rules : RuleMatches(r, LocalDay(s.zone, instant),
                                                         LocalMinute(s.zone, instant))
  THEN "allowed"
  ELSE "outside_weekly_rule"

(***************************************************************************)
(* authorize_access, over one snapshot.  The schedule is that of the grant *)
(* if there is one; the service supplies a tag's grant with the person's.  *)
(***************************************************************************)
ScheduleOf(person, grant) == IF grant = None THEN person.schedule ELSE grant.schedule

Supplied(person, grant) ==
  IF grant = None THEN [enabled |-> TRUE, schedule |-> person.schedule] ELSE grant

Authorize(person, grant, door, schedules, instant) ==
  IF ~person.enabled THEN "person_disabled"
  ELSE IF grant = None THEN "no_grant"
  ELSE IF ~grant.enabled THEN "grant_disabled"
  ELSE IF ~door.managed THEN "access_point_unmanaged"
  ELSE IF ~door.enabled THEN "access_point_disabled"
  ELSE Evaluate(schedules[ScheduleOf(person, grant)], instant)

(***************************************************************************)
(* What both mean: the segments of the week that the rules stand for, and  *)
(* the conditions that all have to hold.                                   *)
(***************************************************************************)
InSegments(rules, minute) ==
  \E r \in rules : \E s \in RuleSegments(r) : s.start <= minute /\ minute < s.end

Admits(s, instant) ==
  /\ s.enabled
  /\ s.from # None => s.from <= instant
  /\ s.until # None => instant < s.until
  /\ s.rules = {} \/ InSegments(s.rules, Local(s.zone, instant) % WeekMinutes)

Permitted(person, grant, door, schedules, instant) ==
  /\ person.enabled /\ door.managed /\ door.enabled
  /\ grant # None /\ grant.enabled /\ Admits(schedules[grant.schedule], instant)

(***************************************************************************)
(* The explanation of a denial: the hours of the week are told only if     *)
(* every day has the same ones, otherwise they are called advanced.        *)
(***************************************************************************)
Hours(rules) == {[start |-> r.start, end |-> r.end] : r \in rules}

WeeklyHours(rules) ==
  CASE rules = {} -> "always"
    [] /\ Cardinality(Hours(rules)) = 1
       /\ Cardinality({r.day : r \in rules}) = Cardinality(rules)
       /\ \A r \in rules : r.start < r.end -> "simple"
    [] OTHER -> "advanced"

(* Days are told as ranges of consecutive ones, from the first to the last. *)
Ranges(days) ==
  {r \in [first : days, last : days] :
     /\ r.first..r.last \subseteq days
     /\ r.first - 1 \notin days /\ r.last + 1 \notin days}
=============================================================================
