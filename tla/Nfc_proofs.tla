----------------------------- MODULE Nfc_proofs -----------------------------
(***************************************************************************)
(* Invariants of NFC access, for any number of tags, passkeys, requests    *)
(* and administrators; and before them what the evaluation of a schedule   *)
(* means, for weeks of any length, any rules and any time zones.           *)
(***************************************************************************)
EXTENDS Nfc, FiniteSetTheorems, WellFoundedInduction, TLAPS

(***************************************************************************)
(* Arithmetic.                                                             *)
(***************************************************************************)

\* Division by a positive number.
LEMMA Division ==
  ASSUME NEW n \in Int, NEW m \in Nat \ {0}
  PROVE  /\ n \div m \in Int /\ n % m \in 0..m - 1
         /\ n = (n \div m) * m + (n % m)
  BY SMT

\* Multiples of m are at least m apart.
LEMMA Multiples ==
  ASSUME NEW m \in Nat \ {0}, NEW a \in Int, NEW b \in Int, a < b
  PROVE  a * m + m <= b * m
  BY SMT

\* Quotient and remainder are unique.
LEMMA Remainder ==
  ASSUME NEW m \in Nat \ {0}, NEW q \in Int, NEW r \in 0..m - 1
  PROVE  (q * m + r) % m = r
<1> DEFINE n == q * m + r
           e == n \div m
<1>1. n \in Int /\ e \in Int /\ n % m \in 0..m - 1 /\ n = e * m + (n % m)
  BY Division
<1>2. e = q
  <2>1. ASSUME e < q PROVE FALSE
    BY <1>1, <2>1, Multiples
  <2>2. ASSUME q < e PROVE FALSE
    BY <1>1, <2>2, Multiples
  <2>. QED
    BY <1>1, <2>1, <2>2
<1>. QED
  BY <1>1, <1>2

\* A minute of the week is a minute of one of its days.
LEMMA MinuteOfWeek ==
  ASSUME NEW n \in Int
  PROVE  n % WeekMinutes = DayStart(((n \div MinutesPerDay) % DaysPerWeek) + 1) + (n % MinutesPerDay)
<1> DEFINE M == MinutesPerDay
           D == DaysPerWeek
           q == n \div M
           r == n % M
           e == q \div D
           f == q % D
<1>1. M \in Nat \ {0} /\ D \in Nat \ {0}
  BY WeekAssumption
<1>2. q \in Int /\ r \in 0..M - 1 /\ n = q * M + r
  BY <1>1, Division
<1>3. e \in Int /\ f \in 0..D - 1 /\ q = e * D + f
  BY <1>1, <1>2, Division
<1> HIDE DEF q, r, e, f
<1>4. n = e * (D * M) + (f * M + r)
  BY <1>1, <1>2, <1>3
<1>5. D * M \in Nat \ {0}
  BY <1>1
<1>6. f * M + r \in 0..D * M - 1
  <2>1. f * M + M <= D * M
    BY <1>1, <1>3, Multiples
  <2>2. f * M \in Nat
    BY <1>1, <1>3
  <2>. QED
    BY <1>1, <1>2, <1>5, <2>1, <2>2
<1>7. n % (D * M) = f * M + r
  BY <1>3, <1>4, <1>5, <1>6, Remainder
<1>. QED
  BY <1>1, <1>3, <1>7 DEF WeekMinutes, DayStart, q, r, f

(***************************************************************************)
(* Days of the week.                                                       *)
(***************************************************************************)
LEMMA DayStarts ==
  ASSUME NEW d \in Day
  PROVE  /\ DayStart(d) \in Nat
         /\ DayStart(d) + MinutesPerDay <= WeekMinutes
         /\ d = DaysPerWeek => DayStart(d) + MinutesPerDay = WeekMinutes
         /\ d # DaysPerWeek => Following(d) = d + 1 /\ DayStart(Following(d)) = DayStart(d) + MinutesPerDay
         /\ d = DaysPerWeek => Following(d) = 1 /\ DayStart(Following(d)) = 0
         /\ Following(d) \in Day
<1> DEFINE M == MinutesPerDay
           D == DaysPerWeek
<1>1. M \in Nat \ {0} /\ D \in Nat \ {0} /\ d \in 1..D
  BY WeekAssumption DEF Day
<1>2. (d - 1) * M \in Nat
  BY <1>1
<1>3. (d - 1) * M + M <= D * M
  <2>1. CASE d = 1
    BY <1>1, <2>1
  <2>2. CASE d # 1
    BY <1>1, <2>2, Multiples
  <2>. QED
    BY <2>1, <2>2
<1>4. d = D => (d - 1) * M + M = D * M
  BY <1>1
<1>5. d # D => d % D = d
  BY <1>1
<1>6. d = D => d % D = 0
  BY <1>1
<1>. QED
  BY <1>1, <1>2, <1>3, <1>4, <1>5, <1>6 DEF DayStart, WeekMinutes, Following, Day

\* A minute of a day is before the minutes of every later day.
LEMMA DaysApart ==
  ASSUME NEW c \in Day, NEW d \in Day, c # d
  PROVE  DayStart(c) + MinutesPerDay <= DayStart(d) \/ DayStart(d) + MinutesPerDay <= DayStart(c)
<1>1. MinutesPerDay \in Nat \ {0} /\ c - 1 \in Int /\ d - 1 \in Int
  BY WeekAssumption DEF Day
<1>2. CASE c < d
  <2>1. c - 1 < d - 1
    BY <1>2 DEF Day
  <2>2. (c - 1) * MinutesPerDay + MinutesPerDay <= (d - 1) * MinutesPerDay
    BY <1>1, <2>1, Multiples
  <2>. QED
    BY <2>2 DEF DayStart
<1>3. CASE d < c
  <2>1. d - 1 < c - 1
    BY <1>3 DEF Day
  <2>2. (d - 1) * MinutesPerDay + MinutesPerDay <= (c - 1) * MinutesPerDay
    BY <1>1, <2>1, Multiples
  <2>. QED
    BY <2>2 DEF DayStart
<1>. QED
  BY <1>2, <1>3 DEF Day

(***************************************************************************)
(* A rule matches a minute of a day just in the segments it stands for.    *)
(***************************************************************************)
LEMMA RuleMeansSegments ==
  ASSUME NEW rule \in WeeklyRules, NEW day \in Day, NEW minute \in Minute
  PROVE  RuleMatches(rule, day, minute) <=>
           \E s \in RuleSegments(rule) :
             s.start <= DayStart(day) + minute /\ DayStart(day) + minute < s.end
<1> DEFINE M == MinutesPerDay
           W == WeekMinutes
           P == DayStart(day)
           Q == DayStart(rule.day)
           F == Following(rule.day)
           w == P + minute
<1>1. M \in Nat \ {0} /\ W \in Nat /\ minute \in 0..M - 1
  BY WeekAssumption DEF Minute, WeekMinutes
<1>2. rule.day \in Day /\ rule.start \in 0..M - 1 /\ rule.end \in 0..M - 1 /\ rule.start # rule.end
  BY DEF WeeklyRules, Minute
<1>3. P \in Nat /\ P + M <= W /\ Q \in Nat /\ Q + M <= W /\ F \in Day
  BY <1>2, DayStarts
<1>4. day = rule.day \/ P + M <= Q \/ Q + M <= P
  BY <1>2, DaysApart
<1>5. day = F \/ P + M <= DayStart(F) \/ DayStart(F) + M <= P
  BY <1>3, DaysApart
<1>6. CASE rule.start < rule.end
  <2>1. RuleEnd(rule) = Q + rule.end /\ RuleEnd(rule) <= W
    BY <1>1, <1>2, <1>3, <1>6 DEF RuleEnd
  <2>2. RuleSegments(rule) = {[start |-> Q + rule.start, end |-> Q + rule.end]}
    BY <2>1 DEF RuleSegments
  <2>3. RuleMatches(rule, day, minute) <=> Q + rule.start <= w /\ w < Q + rule.end
    <3>1. CASE day = rule.day
      BY <1>1, <1>2, <1>3, <1>6, <3>1 DEF RuleMatches
    <3>2. CASE day # rule.day
      BY <1>1, <1>2, <1>3, <1>4, <1>6, <3>2 DEF RuleMatches
    <3>. QED
      BY <3>1, <3>2
  <2>. QED
    BY <2>2, <2>3
<1>7. CASE rule.end < rule.start /\ rule.day # DaysPerWeek
  <2>1. F = rule.day + 1 /\ DayStart(F) = Q + M /\ Q + M + M <= W
    BY <1>2, <1>3, <1>7, DayStarts
  <2>2. RuleEnd(rule) = Q + M + rule.end /\ RuleEnd(rule) <= W
    BY <1>1, <1>2, <1>3, <1>7, <2>1 DEF RuleEnd
  <2>3. RuleSegments(rule) = {[start |-> Q + rule.start, end |-> Q + M + rule.end]}
    BY <2>2 DEF RuleSegments
  <2>4. RuleMatches(rule, day, minute) <=> Q + rule.start <= w /\ w < Q + M + rule.end
    <3>1. CASE day = rule.day
      BY <1>1, <1>2, <1>3, <1>7, <2>1, <3>1 DEF RuleMatches, Day
    <3>2. CASE day = F
      BY <1>1, <1>2, <1>3, <1>7, <2>1, <3>2 DEF RuleMatches, Day
    <3>3. CASE day # rule.day /\ day # F
      BY <1>1, <1>2, <1>3, <1>4, <1>5, <1>7, <2>1, <3>3 DEF RuleMatches
    <3>. QED
      BY <3>1, <3>2, <3>3
  <2>. QED
    BY <2>3, <2>4
<1>8. CASE rule.end < rule.start /\ rule.day = DaysPerWeek
  <2>1. F = 1 /\ DayStart(F) = 0 /\ Q + M = W
    BY <1>2, <1>8, DayStarts
  <2>2. RuleEnd(rule) = W + rule.end
    BY <1>1, <1>2, <1>3, <1>8, <2>1 DEF RuleEnd
  <2>3. RuleMatches(rule, day, minute) <=>
          (Q + rule.start <= w /\ w < W) \/ (0 <= w /\ w < rule.end)
    <3>1. CASE day = rule.day
      BY <1>1, <1>2, <1>3, <1>5, <1>8, <2>1, <3>1 DEF RuleMatches
    <3>2. CASE day # rule.day
      BY <1>1, <1>2, <1>3, <1>4, <1>5, <1>8, <2>1, <3>2 DEF RuleMatches
    <3>. QED
      BY <3>1, <3>2
  <2>4. CASE rule.end = 0
    <3>1. RuleSegments(rule) = {[start |-> Q + rule.start, end |-> W]}
      BY <1>1, <2>2, <2>4 DEF RuleSegments
    <3>. QED
      BY <1>1, <1>3, <2>3, <2>4, <3>1
  <2>5. CASE rule.end # 0
    <3>1. RuleSegments(rule) = {[start |-> Q + rule.start, end |-> W], [start |-> 0, end |-> rule.end]}
      BY <1>1, <1>2, <2>2, <2>5 DEF RuleSegments
    <3>. QED
      BY <2>3, <3>1
  <2>. QED
    BY <2>4, <2>5
<1>. QED
  BY <1>2, <1>6, <1>7, <1>8

(***************************************************************************)
(* Schedules and decisions.                                                *)
(***************************************************************************)
\* There are finitely many hours that a rule may have.
LEMMA HoursFinite == IsFiniteSet([start : Minute, end : Minute])
<1> DEFINE Pairs == Minute \X Minute
           H == [start : Minute, end : Minute]
           f == [p \in Pairs |-> [start |-> p[1], end |-> p[2]]]
<1>1. IsFiniteSet(Pairs)
  <2>1. MinutesPerDay - 1 \in Int
    BY WeekAssumption
  <2>2. IsFiniteSet(Minute)
    BY <2>1, FS_Interval DEF Minute
  <2>. QED
    BY <2>2, FS_Product
<1>2. f \in Surjection(Pairs, H)
  <2>1. ASSUME NEW h \in H PROVE \E p \in Pairs : f[p] = h
    <3>1. <<h.start, h.end>> \in Pairs
      OBVIOUS
    <3>2. f[<<h.start, h.end>>] = h
      BY <3>1
    <3>. QED
      BY <3>1, <3>2
  <2>2. f \in [Pairs -> H]
    OBVIOUS
  <2>. HIDE DEF f, Pairs, H
  <2>. QED
    BY <2>1, <2>2 DEF Surjection
<1>. HIDE DEF f, Pairs, H
<1>3. IsFiniteSet(H)
  BY <1>1, <1>2, FS_Surjection
<1>. QED
  BY <1>3 DEF H

\* A local time is of a day of the week and a minute of the day.
LEMMA LocalTime ==
  ASSUME NEW zone, NEW instant, Local(zone, instant) \in Int
  PROVE  /\ LocalDay(zone, instant) \in Day
         /\ LocalMinute(zone, instant) \in Minute
         /\ Local(zone, instant) % WeekMinutes
              = DayStart(LocalDay(zone, instant)) + LocalMinute(zone, instant)
<1> DEFINE n == Local(zone, instant)
<1>1. MinutesPerDay \in Nat \ {0} /\ DaysPerWeek \in Nat \ {0}
  BY WeekAssumption
<1>2. n \div MinutesPerDay \in Int /\ n % MinutesPerDay \in 0..MinutesPerDay - 1
  BY <1>1, Division
<1>3. (n \div MinutesPerDay) % DaysPerWeek \in 0..DaysPerWeek - 1
  BY <1>1, <1>2, Division
<1>4. n % WeekMinutes = DayStart(((n \div MinutesPerDay) % DaysPerWeek) + 1) + (n % MinutesPerDay)
  BY MinuteOfWeek
<1>. QED
  BY <1>1, <1>2, <1>3, <1>4 DEF LocalDay, LocalMinute, Day, Minute

\* The rules of a schedule match in the segments of the week they stand for.
LEMMA RulesMeanSegments ==
  ASSUME NEW rules \in SUBSET WeeklyRules, NEW zone, NEW instant, Local(zone, instant) \in Int
  PROVE  (\E r \in rules : RuleMatches(r, LocalDay(zone, instant), LocalMinute(zone, instant)))
           <=> InSegments(rules, Local(zone, instant) % WeekMinutes)
  BY LocalTime, RuleMeansSegments DEF InSegments

\* A schedule admits just the instants it is evaluated to allow.
LEMMA EvaluateMeansAdmits ==
  ASSUME NEW s, IsSchedule(s), NEW instant \in Int, Local(s.zone, instant) \in Int
  PROVE  (Evaluate(s, instant) = "allowed") <=> Admits(s, instant)
<1>1. (\E r \in s.rules : RuleMatches(r, LocalDay(s.zone, instant), LocalMinute(s.zone, instant)))
        <=> InSegments(s.rules, Local(s.zone, instant) % WeekMinutes)
  BY RulesMeanSegments DEF IsSchedule
<1>2. s.from # None => (s.from <= instant <=> ~(instant < s.from))
  BY DEF IsSchedule
<1>3. s.until # None => (instant < s.until <=> ~(instant >= s.until))
  BY DEF IsSchedule
<1>. QED
  BY <1>1, <1>2, <1>3 DEF Evaluate, Admits, IsSchedule

(***************************************************************************)
(* Whoever the policy lets in satisfies every condition, and who satisfies *)
(* every condition is let in.                                              *)
(***************************************************************************)
LEMMA AuthorizeMeansPermitted ==
  ASSUME NEW person, NEW grant, NEW door, NEW table, NEW instant \in Int,
         grant # None => /\ IsSchedule(table[grant.schedule])
                         /\ Local(table[grant.schedule].zone, instant) \in Int
  PROVE  (Authorize(person, grant, door, table, instant) = "allowed")
           <=> Permitted(person, grant, door, table, instant)
<1>1. CASE grant = None
  BY <1>1 DEF Authorize, Permitted
<1>2. CASE grant # None
  <2>1. (Evaluate(table[grant.schedule], instant) = "allowed")
          <=> Admits(table[grant.schedule], instant)
    BY <1>2, EvaluateMeansAdmits
  <2>. QED
    BY <1>2, <2>1 DEF Authorize, Permitted, ScheduleOf
<1>. QED
  BY <1>1, <1>2

(***************************************************************************)
(* The hours that a denial tells are hours of denial.                      *)
(***************************************************************************)
LEMMA ToldHoursAllow ==
  ASSUME NEW s, IsSchedule(s), NEW instant \in Int, Local(s.zone, instant) \in Int,
         WeeklyHours(s.rules) = "simple",
         NEW range \in Ranges({r.day : r \in s.rules}), NEW h \in Hours(s.rules),
         LocalDay(s.zone, instant) \in range.first..range.last,
         LocalMinute(s.zone, instant) \in h.start..h.end - 1
  PROVE  Evaluate(s, instant) # "outside_weekly_rule"
<1>1. /\ s.rules # {} /\ Cardinality(Hours(s.rules)) = 1
      /\ \A r \in s.rules : r.start < r.end
  <2>1. s.rules # {}
    BY DEF Hours
  <2>2. CASE /\ Cardinality(Hours(s.rules)) = 1
             /\ Cardinality({r.day : r \in s.rules}) = Cardinality(s.rules)
             /\ \A r \in s.rules : r.start < r.end
    BY <2>1, <2>2
  <2>3. CASE ~(/\ Cardinality(Hours(s.rules)) = 1
               /\ Cardinality({r.day : r \in s.rules}) = Cardinality(s.rules)
               /\ \A r \in s.rules : r.start < r.end)
    BY <2>1, <2>3 DEF WeeklyHours
  <2>. QED
    BY <2>2, <2>3
<1>2. \A g \in Hours(s.rules) : g = h
  <2>1. IsFiniteSet(Hours(s.rules))
    <3>1. Hours(s.rules) \subseteq [start : Minute, end : Minute]
      BY DEF Hours, IsSchedule, WeeklyRules
    <3>. QED
      BY <3>1, HoursFinite, FS_Subset
  <2>. QED
    BY <1>1, <2>1, FS_Singleton
<1>3. LocalDay(s.zone, instant) \in {r.day : r \in s.rules}
  BY DEF Ranges
<1>4. PICK r \in s.rules : r.day = LocalDay(s.zone, instant)
  BY <1>3
<1>5. r.start = h.start /\ r.end = h.end
  <2>1. [start |-> r.start, end |-> r.end] \in Hours(s.rules)
    BY DEF Hours
  <2>. QED
    BY <1>2, <2>1
<1>6. RuleMatches(r, LocalDay(s.zone, instant), LocalMinute(s.zone, instant))
  BY <1>1, <1>4, <1>5, LocalTime DEF RuleMatches, IsSchedule, WeeklyRules, Minute
<1>. QED
  BY <1>6 DEF Evaluate

(***************************************************************************)
(* The stores of tokens.                                                   *)
(***************************************************************************)

\* A store that issues a token keeps some of its items and adds one.
LEMMA IssuedItems ==
  ASSUME NEW items, NEW token, NEW value, NEW instant, NEW ttl
  PROVE  \A i \in Issued(items, token, value, instant, ttl) :
           i \in items \/ (i.token = token /\ i.value = value)
<1> DEFINE expires == instant + ttl
           kept == Room(Unexpired(items, instant))
<1>1. kept \subseteq items
  BY DEF Room, Unexpired
<1>2. Issued(items, token, value, instant, ttl) = kept \cup {Item(token, value, expires)}
  BY DEF Issued
<1>. HIDE DEF expires, kept
<1>. QED
  BY <1>1, <1>2 DEF Item

\* A store that consumes a token has it no more.
LEMMA ConsumedItems ==
  ASSUME NEW items, NEW token, NEW instant
  PROVE  /\ Consumed(items, token, instant) \subseteq items
         /\ \A i \in Consumed(items, token, instant) : i.token # token
  BY DEF Consumed, Unexpired

\* What a store holds is the value of one of its items.
LEMMA HeldValue ==
  ASSUME NEW items, NEW token, NEW instant, Holds(items, token, instant)
  PROVE  \E i \in items : i.token = token /\ ValueOf(items, token) = i.value
<1>1. \E i \in items : i.token = token
  BY DEF Holds, Unexpired
<1>. QED
  BY <1>1 DEF ValueOf

(***************************************************************************)
(* The operations of the repository.                                       *)
(***************************************************************************)

\* The parts of the file.
LEMMA Parts ==
  ASSUME NEW d \in Repository
  PROVE  /\ \A t \in Tag : Registered(d, t) => d.tags[t] \in NfcTags
         /\ \A x \in Test : d.tests[x] # None => d.tests[x] \in TestTags
         /\ \A k \in Passkey : d.passkeys[k] # None => d.passkeys[k] \in Passkeys
         /\ \A i \in Invite : d.invites[i] # None => d.invites[i] \in Invites
  BY DEF Repository, Registered

\* An operation on tags leaves the rest of the file.
TagsOnly(d, e) ==
  e \in Repository /\ e.tests = d.tests /\ e.passkeys = d.passkeys /\ e.invites = d.invites

\* No tag comes to be registered, and none forgets what it counted.
TagsStay(d, e) ==
  \A t \in Tag : Registered(e, t) => Registered(d, t) /\ e.tags[t].last = d.tags[t].last

\* A tag that is replaced leaves the rest of the file.
LEMMA TagReplaced ==
  ASSUME NEW d \in Repository, NEW t \in Tag, NEW tag \in NfcTags
  PROVE  LET e == [d EXCEPT !.tags[t] = tag]
         IN TagsOnly(d, e) /\ e.tags = [d.tags EXCEPT ![t] = tag]
  BY DEF Repository, TagsOnly

\* What upsert_tag, and the next ones after it, make of the file.
LEMMA UpsertTagIs ==
  ASSUME NEW d \in Repository, NEW t \in Tag, NEW tag \in NfcTags
  PROVE  TagsOnly(d, UpsertTag(d, t, tag)) /\ UpsertTag(d, t, tag).tags = [d.tags EXCEPT ![t] = tag]
  BY TagReplaced DEF UpsertTag

\* A tag is switched on or off.
LEMMA SetTagEnabledIs ==
  ASSUME NEW d \in Repository, NEW t \in Tag, Registered(d, t), NEW enabled \in BOOLEAN
  PROVE  TagsOnly(d, SetTagEnabled(d, t, enabled)) /\ TagsStay(d, SetTagEnabled(d, t, enabled))
<1> DEFINE tag == [d.tags[t] EXCEPT !.enabled = enabled]
<1>1. tag \in NfcTags /\ tag.last = d.tags[t].last
  BY Parts DEF NfcTags
<1>2. SetTagEnabled(d, t, enabled) = [d EXCEPT !.tags[t] = tag]
  BY DEF SetTagEnabled
<1>3. d.tags \in [Tag -> NfcTags \cup {None}]
  BY DEF Repository
<1>. HIDE DEF tag
<1>. QED
  BY <1>1, <1>2, <1>3, TagReplaced DEF TagsStay, Registered

\* A tag obtains an administrator key.
LEMMA SetTagAdminKeyIs ==
  ASSUME NEW d \in Repository, NEW t \in Tag, Registered(d, t), NEW key \in Key
  PROVE  TagsOnly(d, SetTagAdminKey(d, t, key)) /\ TagsStay(d, SetTagAdminKey(d, t, key))
<1> DEFINE tag == [d.tags[t] EXCEPT !.admin = key]
<1>1. tag \in NfcTags /\ tag.last = d.tags[t].last
  BY Parts DEF NfcTags
<1>2. SetTagAdminKey(d, t, key) = [d EXCEPT !.tags[t] = tag]
  BY DEF SetTagAdminKey
<1>3. d.tags \in [Tag -> NfcTags \cup {None}]
  BY DEF Repository
<1>. HIDE DEF tag
<1>. QED
  BY <1>1, <1>2, <1>3, TagReplaced DEF TagsStay, Registered

\* A tag is deleted.
LEMMA DeleteTagIs ==
  ASSUME NEW d \in Repository, NEW t \in Tag
  PROVE  TagsOnly(d, DeleteTag(d, t)) /\ TagsStay(d, DeleteTag(d, t))
<1>1. TagsOnly(d, DeleteTag(d, t)) /\ DeleteTag(d, t).tags = [d.tags EXCEPT ![t] = None]
  BY DEF DeleteTag, Repository, TagsOnly
<1>2. d.tags \in [Tag -> NfcTags \cup {None}]
  BY DEF Repository
<1>. QED
  BY <1>1, <1>2 DEF TagsStay, Registered

\* A claimed counter is the last one of its tag.
LEMMA ClaimCounterIs ==
  ASSUME NEW d \in Repository, NEW t \in Tag, Registered(d, t), NEW counter \in Counter
  PROVE  LET e == ClaimCounter(d, t, counter)
         IN /\ TagsOnly(d, e)
            /\ \A u \in Tag \ {t} : e.tags[u] = d.tags[u]
            /\ e.tags[t] # None /\ e.tags[t].last = counter
<1> DEFINE tag == [d.tags[t] EXCEPT !.last = counter]
<1>1. tag \in NfcTags /\ tag.last = counter
  BY Parts DEF NfcTags
<1>2. ClaimCounter(d, t, counter) = [d EXCEPT !.tags[t] = tag]
  BY DEF ClaimCounter
<1>3. d.tags \in [Tag -> NfcTags \cup {None}] /\ None \notin NfcTags
  BY Assumptions DEF Repository
<1>. HIDE DEF tag
<1>. QED
  BY <1>1, <1>2, <1>3, TagReplaced

\* A confirmation of protection concerns one tag.
LEMMA ConfirmTagIs ==
  ASSUME NEW d \in Repository, NEW t \in Tag, Registered(d, t)
  PROVE  LET e == ConfirmTagWriteProtected(d, t)
         IN /\ TagsOnly(d, e)
            /\ \A u \in Tag \ {t} : e.tags[u] = d.tags[u]
<1> DEFINE tag == [d.tags[t] EXCEPT !.last = None, !.protected = TRUE]
<1>1. tag \in NfcTags
  BY Parts DEF NfcTags
<1>2. ConfirmTagWriteProtected(d, t) = [d EXCEPT !.tags[t] = tag]
  BY DEF ConfirmTagWriteProtected, Repository
<1>3. d.tags \in [Tag -> NfcTags \cup {None}]
  BY DEF Repository
<1>. HIDE DEF tag
<1>. QED
  BY <1>1, <1>2, <1>3, TagReplaced

\* An operation on test tags leaves the rest of the file.
TestsOnly(d, e) ==
  e \in Repository /\ e.tags = d.tags /\ e.passkeys = d.passkeys /\ e.invites = d.invites

TestsStay(d, e) == \A x \in Test : e.tests[x] # None => e.tests[x] = d.tests[x]

\* A new test tag replaces that of its door.
LEMMA ReplaceTestTagIs ==
  ASSUME NEW d \in Repository, NEW x \in Test, NEW door \in Door, NEW expires \in Int
  PROVE  LET e == ReplaceTestTag(d, x, door, expires)
         IN /\ TestsOnly(d, e)
            /\ \A y \in Test \ {x} : e.tests[y] # None => e.tests[y] = d.tests[y]
<1> DEFINE tests == [y \in Test |->
                       CASE y = x -> [door |-> door, expires |-> expires]
                         [] d.tests[y] # None /\ d.tests[y].door = door -> None
                         [] OTHER -> d.tests[y]]
<1>1. ReplaceTestTag(d, x, door, expires) = [d EXCEPT !.tests = tests]
  BY DEF ReplaceTestTag
<1>2. d.tests \in [Test -> TestTags \cup {None}]
  BY DEF Repository
<1>3. ASSUME NEW y \in Test
      PROVE  tests[y] \in TestTags \cup {None} /\ (y # x => tests[y] = None \/ tests[y] = d.tests[y])
  <2>1. CASE y = x
    BY <1>2, <2>1 DEF TestTags
  <2>2. CASE y # x /\ d.tests[y] # None /\ d.tests[y].door = door
    BY <1>2, <2>2
  <2>3. CASE y # x /\ ~(d.tests[y] # None /\ d.tests[y].door = door)
    BY <1>2, <2>3
  <2>. QED
    BY <2>1, <2>2, <2>3
<1>4. tests \in [Test -> TestTags \cup {None}]
  BY <1>3
<1>. HIDE DEF tests
<1>. QED
  BY <1>1, <1>3, <1>4 DEF TestsOnly, Repository

\* Test tags that are revoked are gone.
LEMMA RevokeTestTagsIs ==
  ASSUME NEW d \in Repository, NEW door
  PROVE  LET e == RevokeTestTags(d, door)
         IN TestsOnly(d, e) /\ e.grants = d.grants /\ TestsStay(d, e)
<1> DEFINE tests == [x \in Test |->
                       IF d.tests[x] # None /\ d.tests[x].door = door THEN None ELSE d.tests[x]]
<1>1. RevokeTestTags(d, door) = [d EXCEPT !.tests = tests]
  BY DEF RevokeTestTags
<1>2. tests \in [Test -> TestTags \cup {None}] /\ \A x \in Test : tests[x] # None => tests[x] = d.tests[x]
  BY DEF Repository
<1>. HIDE DEF tests
<1>. QED
  BY <1>1, <1>2 DEF TestsOnly, TestsStay, Repository

\* What becomes of the passkeys and the invitations of a person.
LEMMA DisableCredentialsIs ==
  ASSUME NEW d \in Repository, NEW person \in Person
  PROVE  LET e == DisableCredentials(d, person)
         IN /\ e \in Repository /\ e.tags = d.tags /\ e.tests = d.tests
            /\ \A k \in Passkey :
                 /\ d.passkeys[k] = None => e.passkeys[k] = None
                 /\ d.passkeys[k] # None =>
                      /\ e.passkeys[k] # None
                      /\ e.passkeys[k].person = d.passkeys[k].person
                      /\ e.passkeys[k].enabled =
                           (d.passkeys[k].enabled /\ d.passkeys[k].person # person)
            /\ \A i \in Invite :
                 /\ d.invites[i] # None /\ d.invites[i].person # person => e.invites[i] = d.invites[i]
                 /\ d.invites[i] = None \/ d.invites[i].person = person => e.invites[i] = None
<1> DEFINE passkeys == [k \in Passkey |->
                          IF d.passkeys[k] # None /\ d.passkeys[k].person = person
                          THEN [d.passkeys[k] EXCEPT !.enabled = FALSE] ELSE d.passkeys[k]]
           invites == [i \in Invite |->
                         IF d.invites[i] # None /\ d.invites[i].person = person
                         THEN None ELSE d.invites[i]]
           grants == {g \in d.grants : g[1] # person}
           e == DisableCredentials(d, person)
<1>1. e = [d EXCEPT !.passkeys = passkeys, !.invites = invites, !.grants = grants]
  BY DEF DisableCredentials
<1>2. d.passkeys \in [Passkey -> Passkeys \cup {None}] /\ d.invites \in [Invite -> Invites \cup {None}]
  BY DEF Repository
<1>3. ASSUME NEW k \in Passkey
      PROVE  /\ passkeys[k] \in Passkeys \cup {None}
             /\ d.passkeys[k] = None => passkeys[k] = None
             /\ d.passkeys[k] # None =>
                  /\ passkeys[k] # None
                  /\ passkeys[k].person = d.passkeys[k].person
                  /\ passkeys[k].enabled =
                       (d.passkeys[k].enabled /\ d.passkeys[k].person # person)
  <2>1. CASE d.passkeys[k] = None
    BY <2>1
  <2>2. CASE d.passkeys[k] # None /\ d.passkeys[k].person # person
    <3>1. d.passkeys[k] \in Passkeys /\ passkeys[k] = d.passkeys[k]
      BY <1>2, <2>2
    <3>. QED
      BY <2>2, <3>1 DEF Passkeys
  <2>3. CASE d.passkeys[k] # None /\ d.passkeys[k].person = person
    <3>1. d.passkeys[k] \in Passkeys /\ passkeys[k] = [d.passkeys[k] EXCEPT !.enabled = FALSE]
      BY <1>2, <2>3
    <3>2. passkeys[k] \in Passkeys /\ passkeys[k].person = d.passkeys[k].person
          /\ passkeys[k].enabled = FALSE
      BY <3>1 DEF Passkeys
    <3>. QED
      BY <2>3, <3>2, Assumptions
  <2>. QED
    BY <2>1, <2>2, <2>3
<1>4. ASSUME NEW i \in Invite
      PROVE  /\ invites[i] \in Invites \cup {None}
             /\ d.invites[i] # None /\ d.invites[i].person # person => invites[i] = d.invites[i]
             /\ d.invites[i] = None \/ d.invites[i].person = person => invites[i] = None
  BY <1>2
<1>5. passkeys \in [Passkey -> Passkeys \cup {None}] /\ invites \in [Invite -> Invites \cup {None}]
  BY <1>3, <1>4
<1>6. grants \subseteq Person \X Door
  BY DEF Repository
<1>. HIDE DEF passkeys, invites, grants, e
<1>7. /\ e \in Repository /\ e.tags = d.tags /\ e.tests = d.tests
      /\ e.passkeys = passkeys /\ e.invites = invites
  BY <1>1, <1>5, <1>6 DEF Repository
<1>. QED
  BY <1>3, <1>4, <1>7 DEF e

\* What becomes of the tags of a door.
LEMMA DisableTagsIs ==
  ASSUME NEW d \in Repository, NEW door
  PROVE  LET e == DisableTags(d, door)
         IN /\ e \in Repository /\ e.passkeys = d.passkeys /\ e.invites = d.invites
            /\ TagsStay(d, e) /\ TestsStay(d, e)
<1> DEFINE tags == [t \in Tag |-> IF d.tags[t] # None /\ d.tags[t].door = door
                                  THEN [d.tags[t] EXCEPT !.enabled = FALSE] ELSE d.tags[t]]
           c == RevokeTestTags(d, door)
           grants == {g \in c.grants : g[2] # door}
           e == DisableTags(d, door)
<1>1. e = [c EXCEPT !.tags = tags, !.grants = grants]
  BY DEF DisableTags
<1>2. TestsOnly(d, c) /\ c.grants = d.grants /\ TestsStay(d, c)
  BY RevokeTestTagsIs
<1>3. d.tags \in [Tag -> NfcTags \cup {None}]
  BY DEF Repository
<1>4. ASSUME NEW t \in Tag
      PROVE  /\ tags[t] \in NfcTags \cup {None}
             /\ tags[t] # None => d.tags[t] # None /\ tags[t].last = d.tags[t].last
  <2>1. CASE d.tags[t] # None /\ d.tags[t].door = door
    BY <1>3, <2>1 DEF NfcTags
  <2>2. CASE ~(d.tags[t] # None /\ d.tags[t].door = door)
    BY <1>3, <2>2
  <2>. QED
    BY <2>1, <2>2
<1>5. tags \in [Tag -> NfcTags \cup {None}]
  BY <1>4
<1>6. grants \subseteq Person \X Door
  BY <1>2 DEF Repository
<1>. HIDE DEF tags, c, grants, e
<1>7. /\ e \in Repository /\ e.tags = tags /\ e.tests = c.tests
      /\ e.passkeys = c.passkeys /\ e.invites = c.invites
  BY <1>1, <1>2, <1>5, <1>6 DEF Repository, TestsOnly
<1>. QED
  BY <1>2, <1>4, <1>7 DEF e, TagsStay, TestsStay, TestsOnly, Registered

\* An operation on invitations and passkeys leaves the tags.
LEMMA CreateInviteIs ==
  ASSUME NEW d \in Repository, NEW i \in Invite, NEW person \in Person, NEW expires \in Int
  PROVE  LET e == CreateInvite(d, i, person, expires)
         IN /\ e \in Repository /\ e.tags = d.tags /\ e.tests = d.tests /\ e.passkeys = d.passkeys
            /\ e.invites = [d.invites EXCEPT ![i] = [person |-> person, expires |-> expires,
                                                     used |-> FALSE]]
  BY DEF CreateInvite, Repository, Invites

\* An enrolment adds a passkey and uses its invitation.
LEMMA CompleteEnrollmentIs ==
  ASSUME NEW d \in Repository, NEW i \in Invite, NEW person \in Person, NEW k \in Passkey,
         d.invites[i] # None
  PROVE  LET e == CompleteEnrollment(d, i, person, k)
         IN /\ e \in Repository /\ e.tags = d.tags /\ e.tests = d.tests
            /\ e.passkeys = [d.passkeys EXCEPT ![k] = [person |-> person, enabled |-> TRUE]]
            /\ \A j \in Invite \ {i} : e.invites[j] = d.invites[j]
            /\ e.invites[i] \in Invites /\ e.invites[i].used
            /\ e.invites[i].person = d.invites[i].person
<1> DEFINE invite == [d.invites[i] EXCEPT !.used = TRUE]
           passkey == [person |-> person, enabled |-> TRUE]
<1>1. invite \in Invites /\ invite.used /\ invite.person = d.invites[i].person /\ passkey \in Passkeys
  BY Parts DEF Invites, Passkeys
<1>2. CompleteEnrollment(d, i, person, k) = [d EXCEPT !.passkeys[k] = passkey, !.invites[i] = invite]
  BY DEF CompleteEnrollment, Repository
<1>. HIDE DEF invite, passkey
<1>3. [d EXCEPT !.passkeys[k] = passkey, !.invites[i] = invite]
        = [d EXCEPT !.passkeys = [d.passkeys EXCEPT ![k] = passkey],
                    !.invites = [d.invites EXCEPT ![i] = invite]]
  BY DEF Repository
<1> DEFINE passkeys == [d.passkeys EXCEPT ![k] = passkey]
           invites == [d.invites EXCEPT ![i] = invite]
           e == CompleteEnrollment(d, i, person, k)
<1>4. passkeys \in [Passkey -> Passkeys \cup {None}] /\ invites \in [Invite -> Invites \cup {None}]
  BY <1>1 DEF Repository
<1>5. invites[i] = invite /\ \A j \in Invite \ {i} : invites[j] = d.invites[j]
  BY DEF Repository
<1>. HIDE DEF passkeys, invites, e
<1>6. /\ e \in Repository /\ e.tags = d.tags /\ e.tests = d.tests
      /\ e.passkeys = passkeys /\ e.invites = invites
  BY <1>2, <1>3, <1>4 DEF Repository, e, passkeys, invites
<1>. QED
  BY <1>1, <1>5, <1>6 DEF e, passkeys, passkey

\* Grants that are replaced leave the rest of the file.
LEMMA ReplaceAccessGrantsIs ==
  ASSUME NEW d \in Repository, NEW person \in Person, NEW selected \in SUBSET Door
  PROVE  LET e == ReplaceAccessGrants(d, person, selected)
         IN TagsOnly(d, e) /\ e.tags = d.tags
<1> DEFINE grants == {g \in d.grants : g[1] # person} \cup ({person} \X selected)
<1>1. ReplaceAccessGrants(d, person, selected) = [d EXCEPT !.grants = grants]
  BY DEF ReplaceAccessGrants
<1>2. grants \subseteq Person \X Door
  BY DEF Repository
<1>. HIDE DEF grants
<1>. QED
  BY <1>1, <1>2 DEF Repository, TagsOnly

(***************************************************************************)
(* Types.                                                                  *)
(***************************************************************************)
Readings == [tag : Tag, door : Door, counter : Counter, test : {FALSE}]
TestReadings == [tag : Test, door : Door, counter : {None}, test : {TRUE}]
Taps == Readings \cup TestReadings
Sessions == [invite : Invite, person : Person]

Consumers ==
  [pc : {"grant", "decide"}, token : Nat, person : Person, tap : Taps, instant : 0..LastInstant,
   gone : BOOLEAN, passkey : Passkey]

RequestTyped(q) ==
  /\ q.pc \in {"verify", "claim"} => q.tap \in Readings
  /\ q.pc = "issue" => q.tap \in Taps /\ q.epoch \in Nat
  /\ q.pc \in {"authenticate", "operate"} => q.passkey \in Passkey
  /\ q.pc = "operate" => q.person \in Person
  /\ q.pc \in {"grant", "decide"} => q \in Consumers
  /\ q.pc = "decided" =>
       q.token \in Nat /\ q.person \in Person /\ q.tap \in Taps /\ q.instant \in 0..LastInstant
  /\ q.pc = "enrol" => q.session \in Sessions /\ q.passkey \in Passkey

JobTyped(job) ==
  /\ job.pc = "invite" => job.person \in Person /\ job.invite \in Invite
  /\ job.pc = "access" => job.person \in Person /\ job.selected \in SUBSET Door
  /\ job.pc = "test" => job.door \in Door /\ job.test \in Test
  /\ job.pc = "store" => job \in [pc : {"store"}, tag : Tag, door : Door, keys : Seq(Key)]
  /\ job.pc = "delete" => job \in [pc : {"delete"}, tag : Tag, keys : SUBSET Key]
  /\ job.pc = "package" => job.tag \in Tag
  /\ job.pc = "attach" => job.tag \in Tag /\ job.keys[1] \in Key
  /\ job.pc = "person" => job.person \in Person
  /\ job.pc = "door" => job.door \in Door

FileTyped ==
  /\ now \in 0..LastInstant /\ data \in Repository
  /\ DOMAIN people = Person /\ doors \in [Door -> [managed : BOOLEAN, enabled : BOOLEAN]]
  /\ confirms \in [Tag -> Nat]
  /\ enrolled \in [Passkey -> Invite \cup {None}] /\ voided \subseteq Invite \cup Passkey

RequestsTyped == DOMAIN requests = Request /\ \A r \in Request : RequestTyped(requests[r])
JobsTyped == DOMAIN jobs = Admin /\ \A a \in Admin : JobTyped(jobs[a])

StoresTyped ==
  /\ issued \in Nat
  /\ \A i \in taps : i.token \in 1..issued /\ i.value \in Taps
  /\ \A i \in enrolments : i.value \in Sessions

Typed == FileTyped /\ RequestsTyped /\ JobsTyped /\ StoresTyped

\* An installation is of its type.
LEMMA TypedInit ==
  ASSUME Init
  PROVE  Typed
<1>. PICK i \in Installations : now = i.now /\ data = i.data /\ people = i.people /\ doors = i.doors
  BY DEF Init
<1>1. FileTyped
  BY Assumptions DEF Init, FileTyped
<1>2. RequestsTyped /\ JobsTyped /\ StoresTyped
  BY DEF Init, RequestsTyped, RequestTyped, JobsTyped, JobTyped, StoresTyped, Idle, Free
<1>. QED
  BY <1>1, <1>2 DEF Typed

\* One request goes on, or one job.
LEMMA RequestGoes ==
  ASSUME RequestsTyped, NEW r \in Request, NEW q, Goes(r, q), RequestTyped(q)
  PROVE  RequestsTyped'
  BY DEF RequestsTyped, Goes, RequestTyped

\* One job of an administrator goes on.
LEMMA JobGoes ==
  ASSUME JobsTyped, NEW a \in Admin, NEW job, Becomes(a, job), JobTyped(job)
  PROVE  JobsTyped'
  BY DEF JobsTyped, Becomes, JobTyped

\* Idle requests and free jobs say nothing.
LEMMA NothingTyped == RequestTyped(Idle) /\ JobTyped(Free)
  BY DEF RequestTyped, JobTyped, Idle, Free

\* Stores that issue and consume keep their types.
LEMMA StoresStay ==
  ASSUME StoresTyped, UNCHANGED issued, taps' \subseteq taps, enrolments' \subseteq enrolments
  PROVE  StoresTyped'
  BY DEF StoresTyped

\* What is stored keeps its type while it stays.
LEMMA FileStays ==
  ASSUME FileTyped, UNCHANGED <<now, data, people, doors, confirms, enrolled, voided>>
  PROVE  FileTyped'
  BY DEF FileTyped

\* Steps of visitors.
LEMMA VisitTyped ==
  ASSUME Typed, Visit, UNCHANGED admin
  PROVE  Typed'
<1>. FileTyped /\ RequestsTyped /\ JobsTyped /\ StoresTyped
  BY DEF Typed
<1>. JobsTyped'
  BY DEF admin, JobsTyped
<1>. USE DEF policy, past
<1>1. ASSUME NEW r \in Request, NEW t \in Tag, NEW counter \in Counter, ReadTag(r, t, counter)
      PROVE  Typed'
  <2>1. data.tags[t] \in NfcTags
    BY <1>1, Parts DEF ReadTag, FileTyped
  <2>2. Tap(t, data.tags[t].door, counter, FALSE) \in Readings
    BY <2>1 DEF Tap, Readings, NfcTags
  <2>3. RequestsTyped'
    BY <1>1, <2>2, RequestGoes DEF ReadTag, RequestTyped
  <2>. QED
    BY <1>1, <2>3, FileStays, StoresStay DEF ReadTag, Typed
<1>2. ASSUME NEW r \in Request, NEW x \in Test, ReadTestTag(r, x)
      PROVE  Typed'
  <2>1. data.tests[x] \in TestTags
    BY <1>2, Parts DEF ReadTestTag, TestTagActive, FileTyped
  <2>2. Tap(x, data.tests[x].door, None, TRUE) \in Taps
    BY <2>1 DEF Tap, Taps, TestReadings, TestTags
  <2>3. RequestsTyped'
    BY <1>2, <2>2, RequestGoes DEF ReadTestTag, RequestTyped
  <2>. QED
    BY <1>2, <2>3, FileStays, StoresStay DEF ReadTestTag, Typed
<1>3. ASSUME NEW token \in Token, Challenge(token)
      PROVE  Typed'
  <2>1. RequestsTyped'
    BY <1>3 DEF Challenge, RequestsTyped
  <2>2. StoresTyped'
    BY <1>3 DEF Challenge, StoresTyped, Unexpired
  <2>. QED
    BY <1>3, <2>1, <2>2, FileStays DEF Challenge, Typed
<1>4. ASSUME NEW r \in Request, NEW ceremony \in Token, NEW k \in Passkey, Answer(r, ceremony, k)
      PROVE  Typed'
  <2>1. RequestsTyped'
    BY <1>4, RequestGoes DEF Answer, RequestTyped
  <2>. QED
    BY <1>4, <2>1, FileStays, StoresStay DEF Answer, Typed
<1>5. ASSUME NEW r \in Request, NEW ceremony \in Token, NEW k \in Passkey, Attest(r, ceremony, k)
      PROVE  Typed'
  <2>1. ValueOf(enrolments, ceremony) \in Sessions
    BY <1>5, HeldValue DEF Attest, StoresTyped
  <2>2. RequestsTyped'
    BY <1>5, <2>1, RequestGoes DEF Attest, RequestTyped
  <2>3. enrolments' \subseteq enrolments
    BY <1>5, ConsumedItems DEF Attest
  <2>. QED
    BY <1>5, <2>2, <2>3, FileStays, StoresStay DEF Attest, Typed
<1>6. ASSUME NEW i \in Invite, Register(i)
      PROVE  Typed'
  <2>1. data.invites[i] \in Invites
    BY <1>6, Parts DEF Register, InviteActive, FileTyped
  <2>2. [invite |-> i, person |-> data.invites[i].person] \in Sessions
    BY <2>1 DEF Sessions, Invites
  <2>3. StoresTyped'
    BY <1>6, <2>2, IssuedItems DEF Register, StoresTyped
  <2>4. RequestsTyped'
    BY <1>6 DEF Register, RequestsTyped
  <2>. QED
    BY <1>6, <2>3, <2>4, FileStays DEF Register, Typed
<1>7. ASSUME NEW r \in Request, VerifyReading(r)
      PROVE  Typed'
  <2>1. RequestsTyped'
    BY <1>7, RequestGoes DEF VerifyReading, RequestTyped, RequestsTyped, At
  <2>. QED
    BY <1>7, <2>1, FileStays, StoresStay DEF VerifyReading, Typed
<1>8. ASSUME NEW r \in Request, ClaimReading(r)
      PROVE  Typed'
  <2> DEFINE tap == requests[r].tap
  <2>1. tap \in Readings
    BY <1>8 DEF ClaimReading, At, RequestsTyped, RequestTyped
  <2>2. tap.tag \in Tag /\ tap.counter \in Counter /\ tap \in Taps
    BY <2>1 DEF Readings, Taps
  <2>3. StoresTyped'
    BY <1>8, StoresStay DEF ClaimReading
  <2>4. CASE MayClaim(data, tap.tag, tap.counter)
    <3>1. TagsOnly(data, data')
      BY <1>8, <2>2, <2>4, ClaimCounterIs DEF ClaimReading, MayClaim, FileTyped
    <3>2. RequestsTyped'
      BY <1>8, <2>2, <2>4, RequestGoes DEF ClaimReading, RequestTyped, FileTyped
    <3>. QED
      BY <1>8, <2>3, <3>1, <3>2 DEF ClaimReading, Typed, FileTyped, TagsOnly
  <2>5. CASE ~MayClaim(data, tap.tag, tap.counter)
    <3>1. RequestsTyped'
      BY <1>8, <2>5, RequestGoes, NothingTyped DEF ClaimReading
    <3>. QED
      BY <1>8, <2>3, <2>5, <3>1, FileStays DEF ClaimReading, Typed
  <2>. QED
    BY <2>4, <2>5
<1>9. ASSUME NEW r \in Request, IssueTap(r)
      PROVE  Typed'
  <2>1. requests[r].tap \in Taps
    BY <1>9 DEF IssueTap, At, RequestsTyped, RequestTyped
  <2>2. StoresTyped'
    BY <1>9, <2>1, IssuedItems DEF IssueTap, StoresTyped
  <2>3. RequestsTyped'
    BY <1>9, RequestGoes, NothingTyped DEF IssueTap
  <2>. QED
    BY <1>9, <2>2, <2>3, FileStays DEF IssueTap, Typed
<1>10. ASSUME NEW r \in Request, Authenticate(r)
       PROVE  Typed'
  <2>1. requests[r].passkey \in Passkey
    BY <1>10 DEF Authenticate, At, RequestsTyped, RequestTyped
  <2>2. data.passkeys[requests[r].passkey].person \in Person
    BY <1>10, <2>1, Parts DEF Authenticate, PasskeyEnabled, Passkeys, FileTyped
  <2>3. RequestsTyped'
    BY <1>10, <2>1, <2>2, RequestGoes DEF Authenticate, RequestTyped
  <2>. QED
    BY <1>10, <2>3, FileStays, StoresStay DEF Authenticate, Typed
<1>11. ASSUME NEW r \in Request, ConsumeTap(r)
       PROVE  Typed'
  <2> DEFINE tap == ValueOf(taps, requests[r].token)
  <2>1. requests[r].passkey \in Passkey /\ requests[r].person \in Person
    BY <1>11 DEF ConsumeTap, At, RequestsTyped, RequestTyped
  <2>2. StoresTyped'
    BY <1>11, ConsumedItems, StoresStay DEF ConsumeTap
  <2>3. CASE Holds(taps, requests[r].token, now)
    <3>1. tap \in Taps /\ requests[r].token \in Nat
      BY <2>3, HeldValue DEF StoresTyped
    <3>2. Gone(requests[r].person, tap) \in BOOLEAN
      BY DEF Gone
    <3>3. RequestsTyped'
      <4> DEFINE q == [pc |-> "grant", token |-> requests[r].token, person |-> requests[r].person,
                       tap |-> tap, instant |-> now, gone |-> Gone(requests[r].person, tap),
                       passkey |-> requests[r].passkey]
      <4>. HIDE DEF tap
      <4>1. RequestTyped(q)
        BY <2>1, <3>1, <3>2 DEF RequestTyped, Consumers, FileTyped
      <4>2. Goes(r, q)
        BY <1>11, <2>3 DEF ConsumeTap, tap
      <4>. QED
        BY <4>1, <4>2, RequestGoes
    <3>. QED
      BY <1>11, <2>2, <3>3, FileStays DEF ConsumeTap, Typed
  <2>4. CASE ~Holds(taps, requests[r].token, now)
    <3>1. RequestsTyped'
      BY <1>11, <2>4, RequestGoes, NothingTyped DEF ConsumeTap
    <3>. QED
      BY <1>11, <2>2, <3>1, FileStays DEF ConsumeTap, Typed
  <2>. QED
    BY <2>3, <2>4
<1>12. ASSUME NEW r \in Request, CheckGrant(r)
       PROVE  Typed'
  <2>1. requests[r] \in Consumers
    BY <1>12 DEF CheckGrant, At, RequestsTyped, RequestTyped
  <2>2. RequestTyped([requests[r] EXCEPT !.pc = "decide"])
    BY <2>1 DEF RequestTyped, Consumers
  <2>3. RequestsTyped'
    BY <1>12, <2>2, RequestGoes, NothingTyped DEF CheckGrant
  <2>. QED
    BY <1>12, <2>3, FileStays, StoresStay DEF CheckGrant, Typed
<1>13. ASSUME NEW r \in Request, Decide(r)
       PROVE  Typed'
  <2>1. requests[r] \in Consumers
    BY <1>13 DEF Decide, At, RequestsTyped, RequestTyped
  <2>2. PICK q : Goes(r, q) /\ q.pc = "decided" /\ q.token = requests[r].token
                 /\ q.person = requests[r].person /\ q.tap = requests[r].tap
                 /\ q.instant = requests[r].instant
    BY <1>13 DEF Decide
  <2>3. RequestTyped(q)
    BY <2>1, <2>2 DEF RequestTyped, Consumers
  <2>. QED
    BY <1>13, <2>2, <2>3, RequestGoes, FileStays, StoresStay DEF Decide, Typed
<1>14. ASSUME NEW r \in Request, Operate(r) \/ End(r)
       PROVE  Typed'
  <2>1. RequestsTyped'
    BY <1>14, RequestGoes, NothingTyped DEF Operate, End
  <2>. QED
    BY <1>14, <2>1, FileStays, StoresStay DEF Operate, End, Typed
<1>15. ASSUME NEW r \in Request, Enrol(r)
       PROVE  Typed'
  <2> DEFINE s == requests[r].session
             k == requests[r].passkey
  <2>1. s.invite \in Invite /\ s.person \in Person /\ k \in Passkey
    BY <1>15 DEF Enrol, At, RequestsTyped, RequestTyped, Sessions
  <2>2. data' = CompleteEnrollment(data, s.invite, s.person, k) /\ data.invites[s.invite] # None
    BY <1>15 DEF Enrol, MayEnroll, InviteActive
  <2>3. data' \in Repository
    BY <2>1, <2>2, CompleteEnrollmentIs DEF FileTyped
  <2>4. enrolled' \in [Passkey -> Invite \cup {None}]
    BY <1>15, <2>1 DEF Enrol, FileTyped
  <2>5. RequestsTyped'
    BY <1>15, RequestGoes, NothingTyped DEF Enrol
  <2>6. StoresTyped'
    BY <1>15, StoresStay DEF Enrol
  <2>. QED
    BY <1>15, <2>3, <2>4, <2>5, <2>6 DEF Enrol, Typed, FileTyped
<1>16. ASSUME Pass PROVE Typed'
  <2>1. now' \in 0..LastInstant
    BY <1>16, Assumptions DEF Pass, FileTyped
  <2>. QED
    BY <1>16, <2>1 DEF Pass, memory, Typed, FileTyped, RequestsTyped, StoresTyped
<1>. QED
  BY <1>1, <1>2, <1>3, <1>4, <1>5, <1>6, <1>7, <1>8, <1>9, <1>10, <1>11, <1>12, <1>13, <1>14,
     <1>15, <1>16 DEF Visit

\* The file after a step of an administrator is a file.
LEMMA AdminFileTyped ==
  ASSUME Typed, Administer
  PROVE  FileTyped'
<1>. FileTyped /\ JobsTyped
  BY DEF Typed
<1>. USE DEF policy, past
<1>1. ASSUME NEW a \in Admin, NEW t \in Tag, NEW enabled \in BOOLEAN, SwitchTag(a, t, enabled)
      PROVE  FileTyped'
  <2>1. data' \in Repository
    BY <1>1, SetTagEnabledIs DEF SwitchTag, FileTyped, TagsOnly
  <2>. QED
    BY <1>1, <2>1 DEF SwitchTag, FileTyped
<1>2. ASSUME NEW a \in Admin, NEW t \in Tag, ConfirmProtection(a, t)
      PROVE  FileTyped'
  <2>1. data' \in Repository
    BY <1>2, ConfirmTagIs DEF ConfirmProtection, MayConfirm, FileTyped, TagsOnly
  <2>2. confirms' \in [Tag -> Nat]
    BY <1>2 DEF ConfirmProtection, FileTyped
  <2>. QED
    BY <1>2, <2>1, <2>2 DEF ConfirmProtection, FileTyped
<1>3. ASSUME NEW a \in Admin, NEW d \in Door, RevokeTest(a, d)
      PROVE  FileTyped'
  <2>1. data' \in Repository
    BY <1>3, RevokeTestTagsIs DEF RevokeTest, FileTyped, TestsOnly
  <2>. QED
    BY <1>3, <2>1 DEF RevokeTest, FileTyped
<1>4. ASSUME NEW a \in Admin, NEW d \in Door, RemoveDoor(a, d)
      PROVE  FileTyped'
  <2>1. data' \in Repository
    BY <1>4, DisableTagsIs DEF RemoveDoor, FileTyped
  <2>. QED
    BY <1>4, <2>1 DEF RemoveDoor, FileTyped
<1>5. ASSUME NEW a \in Admin, NEW p \in Person, RevokeEnrolment(a, p) \/ RemovePerson(a, p)
      PROVE  FileTyped'
  <2>1. data' \in Repository
    BY <1>5, DisableCredentialsIs DEF RevokeEnrolment, RemovePerson, FileTyped
  <2>2. voided' \subseteq Invite \cup Passkey
    BY <1>5 DEF RevokeEnrolment, RemovePerson, Void, FileTyped
  <2>. QED
    BY <1>5, <2>1, <2>2 DEF RevokeEnrolment, RemovePerson, FileTyped
<1>6. ASSUME NEW a \in Admin, WriteInvite(a)
      PROVE  FileTyped'
  <2>1. jobs[a].person \in Person /\ jobs[a].invite \in Invite /\ now + InviteTtl \in Int
    BY <1>6, Assumptions DEF WriteInvite, Runs, JobsTyped, JobTyped, FileTyped
  <2>2. data' \in Repository
    BY <1>6, <2>1, CreateInviteIs DEF WriteInvite, FileTyped
  <2>. QED
    BY <1>6, <2>2 DEF WriteInvite, FileTyped
<1>7. ASSUME NEW a \in Admin, WriteAccess(a)
      PROVE  FileTyped'
  <2>1. jobs[a].person \in Person /\ jobs[a].selected \in SUBSET Door
    BY <1>7 DEF WriteAccess, Runs, JobsTyped, JobTyped
  <2>2. data' \in Repository
    BY <1>7, <2>1, ReplaceAccessGrantsIs DEF WriteAccess, FileTyped, TagsOnly
  <2>. QED
    BY <1>7, <2>2 DEF WriteAccess, FileTyped
<1>8. ASSUME NEW a \in Admin, WriteTest(a)
      PROVE  FileTyped'
  <2>1. jobs[a].door \in Door /\ jobs[a].test \in Test /\ now + TestTtl \in Int
    BY <1>8, Assumptions DEF WriteTest, Runs, JobsTyped, JobTyped, FileTyped
  <2>2. data' \in Repository
    BY <1>8, <2>1, ReplaceTestTagIs DEF WriteTest, FileTyped, TestsOnly
  <2>. QED
    BY <1>8, <2>2 DEF WriteTest, FileTyped
<1>9. ASSUME NEW a \in Admin, RecordTag(a)
      PROVE  FileTyped'
  <2> DEFINE job == jobs[a]
  <2>1. job.tag \in Tag /\ job.door \in Door /\ job.keys \in Seq(Key) /\ Len(job.keys) = 3
    BY <1>9 DEF RecordTag, Runs, JobsTyped, JobTyped
  <2>2. {job.keys[1], job.keys[2]} \subseteq Key /\ job.keys[3] \in Key
    BY <2>1
  <2>. HIDE DEF job
  <2>3. NewTag(job.door, {job.keys[1], job.keys[2]}, job.keys[3]) \in NfcTags
    BY <2>1, <2>2 DEF NewTag, NfcTags
  <2>4. data' \in Repository
    BY <1>9, <2>1, <2>3, UpsertTagIs DEF RecordTag, FileTyped, TagsOnly, job
  <2>. QED
    BY <1>9, <2>4 DEF RecordTag, FileTyped
<1>10. ASSUME NEW a \in Admin, DeleteRecord(a)
       PROVE  FileTyped'
  <2>1. jobs[a].tag \in Tag
    BY <1>10 DEF DeleteRecord, Runs, JobsTyped, JobTyped
  <2>2. data' \in Repository
    BY <1>10, <2>1, DeleteTagIs DEF DeleteRecord, FileTyped, TagsOnly
  <2>. QED
    BY <1>10, <2>2 DEF DeleteRecord, FileTyped
<1>11. ASSUME NEW a \in Admin, AttachAdminKey(a)
       PROVE  FileTyped'
  <2>1. jobs[a].tag \in Tag /\ jobs[a].keys[1] \in Key
    BY <1>11 DEF AttachAdminKey, Runs, JobsTyped, JobTyped
  <2>2. data' \in Repository
    BY <1>11, <2>1, SetTagAdminKeyIs DEF AttachAdminKey, FileTyped, TagsOnly
  <2>. QED
    BY <1>11, <2>2 DEF AttachAdminKey, FileTyped
<1>12. ASSUME NEW a \in Admin, RemovePersonRecord(a)
       PROVE  FileTyped'
  BY <1>12 DEF RemovePersonRecord, FileTyped
<1>13. ASSUME NEW a \in Admin, RemoveDoorRecord(a)
       PROVE  FileTyped'
  <2>1. jobs[a].door \in Door
    BY <1>13 DEF RemoveDoorRecord, Runs, JobsTyped, JobTyped
  <2>2. doors' \in [Door -> [managed : BOOLEAN, enabled : BOOLEAN]]
    BY <1>13, <2>1 DEF RemoveDoorRecord, FileTyped
  <2>. QED
    BY <1>13, <2>2 DEF RemoveDoorRecord, FileTyped
<1>14. ASSUME NEW a \in Admin,
              \/ \E t \in Tag : StartDelete(a, t) \/ StartProtection(a, t)
              \/ \E t \in Tag, d \in Door : StartPrepare(a, t, d)
              \/ \E d \in Door, x \in Test : CheckTest(a, d, x)
              \/ \E p \in Person, i \in Invite : CheckInvite(a, p, i)
              \/ \E p \in Person, selected \in SUBSET Door : CheckAccess(a, p, selected)
       PROVE  FileTyped'
  BY <1>14, FileStays DEF StartDelete, StartProtection, StartPrepare, CheckTest, CheckInvite,
     CheckAccess
<1>15. ASSUME NEW a \in Admin,
              \/ StoreKey(a) \/ FailPrepare(a) \/ UndoKey(a) \/ DeleteKey(a)
              \/ PackageKnown(a) \/ StoreAdminKey(a) \/ FailAttach(a) \/ FailTag(a)
       PROVE  FileTyped'
  BY <1>15, FileStays DEF StoreKey, FailPrepare, UndoKey, DeleteKey, PackageKnown, StoreAdminKey,
     FailAttach, FailTag
<1>16. ASSUME Restart PROVE FileTyped'
  BY <1>16, FileStays DEF Restart
<1>. QED
  BY <1>1, <1>2, <1>3, <1>4, <1>5, <1>6, <1>7, <1>8, <1>9, <1>10, <1>11, <1>12, <1>13, <1>14,
     <1>15, <1>16 DEF Administer

\* People and doors that are gone stay gone, and the rest of the policy stays.
PolicyStays ==
  /\ UNCHANGED <<pins, schedules>>
  /\ \A p \in Person : people'[p] \in {None, people[p]}
  /\ \A d \in Door : doors[d].managed \/ ~doors'[d].managed

AdminLeaves ==
  /\ UNCHANGED <<now, opened, commands, enrolled>> /\ drawn \subseteq drawn' /\ PolicyStays
  /\ UNCHANGED memory \/ Restart

(***************************************************************************)
(* The administrators leave the visitors' memory, unless the process ends, *)
(* and most of the rest.                                                   *)
(***************************************************************************)
LEMMA AdminLeavesMost ==
  ASSUME Typed, Administer
  PROVE  AdminLeaves
<1>. USE DEF AdminLeaves, PolicyStays, policy, past, admin
<1>1. ASSUME NEW a \in Admin, NEW t \in Tag,
             \/ \E enabled \in BOOLEAN : SwitchTag(a, t, enabled)
             \/ ConfirmProtection(a, t) \/ StartDelete(a, t) \/ StartProtection(a, t)
             \/ \E d \in Door : StartPrepare(a, t, d)
      PROVE  AdminLeaves
  BY <1>1 DEF SwitchTag, ConfirmProtection, StartDelete, StartProtection, StartPrepare
<1>2. ASSUME NEW a \in Admin, NEW d \in Door,
             RevokeTest(a, d) \/ RemoveDoor(a, d) \/ \E x \in Test : CheckTest(a, d, x)
      PROVE  AdminLeaves
  BY <1>2 DEF RevokeTest, RemoveDoor, CheckTest
<1>3. ASSUME NEW a \in Admin, NEW p \in Person,
             \/ RevokeEnrolment(a, p) \/ RemovePerson(a, p)
             \/ \E i \in Invite : CheckInvite(a, p, i)
             \/ \E selected \in SUBSET Door : CheckAccess(a, p, selected)
      PROVE  AdminLeaves
  BY <1>3 DEF RevokeEnrolment, RemovePerson, CheckInvite, CheckAccess
<1>4. ASSUME NEW a \in Admin,
             \/ WriteInvite(a) \/ WriteAccess(a) \/ WriteTest(a)
             \/ StoreKey(a) \/ RecordTag(a) \/ FailPrepare(a) \/ UndoKey(a)
      PROVE  AdminLeaves
  BY <1>4 DEF WriteInvite, WriteAccess, WriteTest, StoreKey, RecordTag, FailPrepare, UndoKey
<1>5. ASSUME NEW a \in Admin,
             \/ DeleteKey(a) \/ DeleteRecord(a)
             \/ PackageKnown(a) \/ StoreAdminKey(a) \/ AttachAdminKey(a) \/ FailAttach(a)
             \/ FailTag(a)
      PROVE  AdminLeaves
  BY <1>5 DEF DeleteKey, DeleteRecord, PackageKnown, StoreAdminKey, AttachAdminKey, FailAttach,
     FailTag
<1>6. ASSUME NEW a \in Admin, RemovePersonRecord(a) PROVE AdminLeaves
  BY <1>6 DEF RemovePersonRecord, Typed, FileTyped
<1>7. ASSUME NEW a \in Admin, RemoveDoorRecord(a) PROVE AdminLeaves
  BY <1>7 DEF RemoveDoorRecord, Typed, FileTyped
<1>8. ASSUME Restart PROVE AdminLeaves
  BY <1>8 DEF Restart
<1>. QED
  BY <1>1, <1>2, <1>3, <1>4, <1>5, <1>6, <1>7, <1>8 DEF Administer

\* A restart leaves what is stored, and forgets the rest.
LEMMA AdminTyped ==
  ASSUME Typed, Administer
  PROVE  Typed'
<1>. FileTyped /\ RequestsTyped /\ JobsTyped /\ StoresTyped
  BY DEF Typed
<1>1. FileTyped'
  BY AdminFileTyped
<1>2. RequestsTyped' /\ StoresTyped'
  <2>1. CASE Restart
    BY <2>1, NothingTyped DEF Restart, RequestsTyped, StoresTyped
  <2>2. CASE ~Restart
    BY <2>2, AdminLeavesMost DEF AdminLeaves, memory, RequestsTyped, StoresTyped
  <2>. QED
    BY <2>1, <2>2
<1>3. JobsTyped'
  <2>1. ASSUME NEW a \in Admin,
               \/ \E t \in Tag, enabled \in BOOLEAN : SwitchTag(a, t, enabled)
               \/ \E t \in Tag : ConfirmProtection(a, t)
               \/ \E d \in Door : RevokeTest(a, d)
               \/ \E p \in Person : RevokeEnrolment(a, p)
        PROVE  JobsTyped'
    BY <2>1 DEF SwitchTag, ConfirmProtection, RevokeTest, RevokeEnrolment, admin, JobsTyped
  <2>2. ASSUME NEW a \in Admin,
               \/ WriteInvite(a) \/ WriteAccess(a) \/ WriteTest(a) \/ RecordTag(a)
               \/ DeleteRecord(a) \/ PackageKnown(a) \/ FailTag(a)
               \/ RemovePersonRecord(a) \/ RemoveDoorRecord(a)
        PROVE  JobsTyped'
    BY <2>2, JobGoes, NothingTyped DEF WriteInvite, WriteAccess, WriteTest, RecordTag,
       DeleteRecord, PackageKnown, FailTag, RemovePersonRecord, RemoveDoorRecord
  <2>3. ASSUME NEW a \in Admin, NEW t \in Tag,
               StartProtection(a, t) \/ \E d \in Door : StartPrepare(a, t, d)
        PROVE  JobsTyped'
    <3>1. CASE StartProtection(a, t)
      BY <3>1, JobGoes DEF StartProtection, JobTyped
    <3>2. ASSUME NEW d \in Door, StartPrepare(a, t, d) PROVE JobsTyped'
      <4>1. JobTyped([pc |-> "store", tag |-> t, door |-> d, keys |-> <<>>])
        BY DEF JobTyped
      <4>. QED
        BY <3>2, <4>1, JobGoes DEF StartPrepare
    <3>. QED
      BY <2>3, <3>1, <3>2
  <2>12. ASSUME NEW a \in Admin, NEW d \in Door,
                RemoveDoor(a, d) \/ \E x \in Test : CheckTest(a, d, x)
         PROVE  JobsTyped'
    BY <2>12, JobGoes DEF RemoveDoor, CheckTest, JobTyped
  <2>13. ASSUME NEW a \in Admin, NEW p \in Person,
                \/ RemovePerson(a, p) \/ \E i \in Invite : CheckInvite(a, p, i)
                \/ \E selected \in SUBSET Door : CheckAccess(a, p, selected)
         PROVE  JobsTyped'
    BY <2>13, JobGoes DEF RemovePerson, CheckInvite, CheckAccess, JobTyped
  <2>4. ASSUME NEW a \in Admin, NEW t \in Tag, StartDelete(a, t) PROVE JobsTyped'
    <3>1. data.tags[t] \in NfcTags
      BY <2>4, Parts DEF StartDelete, FileTyped
    <3>2. data.tags[t].keys \cup ({data.tags[t].admin} \ {None}) \in SUBSET Key
      BY <3>1 DEF NfcTags
    <3>. QED
      BY <2>4, <3>2, JobGoes DEF StartDelete, JobTyped
  <2>5. ASSUME NEW a \in Admin, StoreKey(a) PROVE JobsTyped'
    <3>1. jobs[a] \in [pc : {"store"}, tag : Tag, door : Door, keys : Seq(Key)]
      BY <2>5 DEF StoreKey, Runs, JobsTyped, JobTyped
    <3>2. JobTyped([jobs[a] EXCEPT !.keys = Append(@, NextKey)])
      BY <2>5, <3>1 DEF StoreKey, JobTyped
    <3>. QED
      BY <2>5, <3>2, JobGoes DEF StoreKey
  <2>6. ASSUME NEW a \in Admin, FailPrepare(a) PROVE JobsTyped'
    BY <2>6, JobGoes, NothingTyped DEF FailPrepare, JobTyped
  <2>7. ASSUME NEW a \in Admin, UndoKey(a) \/ FailAttach(a) PROVE JobsTyped'
    BY <2>7, JobGoes, NothingTyped DEF UndoKey, FailAttach, JobTyped
  <2>8. ASSUME NEW a \in Admin, DeleteKey(a) PROVE JobsTyped'
    <3>1. jobs[a] \in [pc : {"delete"}, tag : Tag, keys : SUBSET Key]
      BY <2>8 DEF DeleteKey, Runs, JobsTyped, JobTyped
    <3>2. PICK key : Becomes(a, [jobs[a] EXCEPT !.keys = @ \ {key}])
      BY <2>8 DEF DeleteKey
    <3>3. JobTyped([jobs[a] EXCEPT !.keys = @ \ {key}])
      BY <3>1 DEF JobTyped
    <3>. QED
      BY <3>2, <3>3, JobGoes
  <2>9. ASSUME NEW a \in Admin, StoreAdminKey(a) PROVE JobsTyped'
    <3>1. jobs[a].tag \in Tag
      BY <2>9 DEF StoreAdminKey, Runs, JobsTyped, JobTyped
    <3>. QED
      BY <2>9, <3>1, JobGoes DEF StoreAdminKey, JobTyped
  <2>10. ASSUME NEW a \in Admin, AttachAdminKey(a) PROVE JobsTyped'
    BY <2>10, JobGoes, NothingTyped DEF AttachAdminKey, JobTyped
  <2>11. CASE Restart
    BY <2>11, NothingTyped DEF Restart, JobsTyped
  <2>. QED
    BY <2>1, <2>2, <2>3, <2>4, <2>5, <2>6, <2>7, <2>8, <2>9, <2>10, <2>11, <2>12,
       <2>13 DEF Administer
<1>. QED
  BY <1>1, <1>2, <1>3 DEF Typed

\* The types are kept.
LEMMA TypedAlways == Spec => []Typed
<1>1. Init => Typed
  BY TypedInit
<1>2. Typed /\ [Next]_vars => Typed'
  <2>. SUFFICES ASSUME Typed, [Next]_vars PROVE Typed'
    OBVIOUS
  <2>1. CASE Visit /\ UNCHANGED admin
    BY <2>1, VisitTyped
  <2>2. CASE Administer
    BY <2>2, AdminTyped
  <2>3. CASE UNCHANGED vars
    BY <2>3 DEF vars, access, admin, memory, policy, past, Typed, FileTyped, RequestsTyped,
       JobsTyped, StoresTyped
  <2>. QED
    BY <2>1, <2>2, <2>3 DEF Next
<1>. QED
  BY <1>1, <1>2, PTL DEF Spec

(***************************************************************************)
(* What a step of an administrator does to the file, by its parts.         *)
(***************************************************************************)
OwnersStay == data'.passkeys = data.passkeys /\ data'.invites = data.invites

TagsWritten(a) == RecordTag(a) \/ \E t \in Tag : ConfirmProtection(a, t)
OwnersWritten(a) ==
  WriteInvite(a) \/ \E p \in Person : RevokeEnrolment(a, p) \/ RemovePerson(a, p)

AdminWrites ==
  /\ TagsStay(data, data') \/ \E a \in Admin : TagsWritten(a)
  /\ TestsStay(data, data') \/ \E a \in Admin : WriteTest(a)
  /\ (OwnersStay /\ UNCHANGED voided) \/ \E a \in Admin : OwnersWritten(a)
  /\ UNCHANGED confirms \/ \E a \in Admin, t \in Tag : ConfirmProtection(a, t)

\* Each part of the file is written by few actions only.
LEMMA AdminWritesParts ==
  ASSUME Typed, Administer
  PROVE  AdminWrites
<1>. FileTyped /\ JobsTyped
  BY DEF Typed
<1>. USE DEF past
<1>0. ASSUME UNCHANGED <<data, voided, confirms>> PROVE AdminWrites
  BY <1>0 DEF AdminWrites, TagsStay, TestsStay, OwnersStay
<1>1. ASSUME NEW a \in Admin, NEW t \in Tag, NEW enabled \in BOOLEAN, SwitchTag(a, t, enabled)
      PROVE  AdminWrites
  BY <1>1, SetTagEnabledIs DEF SwitchTag, FileTyped, AdminWrites, TagsOnly, OwnersStay, TestsStay
<1>2. ASSUME NEW a \in Admin, NEW t \in Tag, ConfirmProtection(a, t)
      PROVE  AdminWrites
  <2>1. TagsOnly(data, data')
    BY <1>2, ConfirmTagIs DEF ConfirmProtection, MayConfirm, FileTyped
  <2>. QED
    BY <1>2, <2>1 DEF ConfirmProtection, AdminWrites, TagsWritten, TagsOnly, OwnersStay, TestsStay
<1>3. ASSUME NEW a \in Admin, NEW d \in Door, RevokeTest(a, d)
      PROVE  AdminWrites
  BY <1>3, RevokeTestTagsIs DEF RevokeTest, FileTyped, AdminWrites, TestsOnly, OwnersStay, TagsStay,
     Registered
<1>4. ASSUME NEW a \in Admin, NEW d \in Door, RemoveDoor(a, d)
      PROVE  AdminWrites
  BY <1>4, DisableTagsIs DEF RemoveDoor, FileTyped, AdminWrites, OwnersStay
<1>5. ASSUME NEW a \in Admin, NEW p \in Person, RevokeEnrolment(a, p) \/ RemovePerson(a, p)
      PROVE  AdminWrites
  <2>1. data'.tags = data.tags /\ data'.tests = data.tests /\ UNCHANGED confirms
    BY <1>5, DisableCredentialsIs DEF RevokeEnrolment, RemovePerson, FileTyped
  <2>. QED
    BY <1>5, <2>1 DEF AdminWrites, OwnersWritten, TagsStay, TestsStay, Registered
<1>6. ASSUME NEW a \in Admin, WriteInvite(a)
      PROVE  AdminWrites
  <2>1. jobs[a].person \in Person /\ jobs[a].invite \in Invite /\ now + InviteTtl \in Int
    BY <1>6, Assumptions DEF WriteInvite, Runs, JobsTyped, JobTyped, FileTyped
  <2>2. PICK expires \in Int : data' = CreateInvite(data, jobs[a].invite, jobs[a].person, expires)
                               /\ UNCHANGED confirms
    BY <1>6, <2>1 DEF WriteInvite
  <2>3. data \in Repository
    BY DEF FileTyped
  <2>4. data'.tags = data.tags /\ data'.tests = data.tests
    BY <2>2, <2>3 DEF CreateInvite, Repository
  <2>. QED
    BY <1>6, <2>2, <2>4 DEF AdminWrites, OwnersWritten, TagsStay, TestsStay, Registered
<1>7. ASSUME NEW a \in Admin, WriteAccess(a)
      PROVE  AdminWrites
  <2>1. jobs[a].person \in Person /\ jobs[a].selected \in SUBSET Door
    BY <1>7 DEF WriteAccess, Runs, JobsTyped, JobTyped
  <2>2. TagsOnly(data, data') /\ data'.tags = data.tags
    BY <1>7, <2>1, ReplaceAccessGrantsIs DEF WriteAccess, FileTyped
  <2>. QED
    BY <1>7, <2>2 DEF WriteAccess, AdminWrites, TagsOnly, TagsStay, TestsStay, OwnersStay, Registered
<1>8. ASSUME NEW a \in Admin, WriteTest(a)
      PROVE  AdminWrites
  <2>1. jobs[a].door \in Door /\ jobs[a].test \in Test /\ now + TestTtl \in Int
    BY <1>8, Assumptions DEF WriteTest, Runs, JobsTyped, JobTyped, FileTyped
  <2>2. TestsOnly(data, data')
    BY <1>8, <2>1, ReplaceTestTagIs DEF WriteTest, FileTyped
  <2>. QED
    BY <1>8, <2>2 DEF WriteTest, AdminWrites, TestsOnly, TagsStay, OwnersStay, Registered
<1>9. ASSUME NEW a \in Admin, RecordTag(a)
      PROVE  AdminWrites
  <2> DEFINE job == jobs[a]
  <2>1. job.tag \in Tag /\ job.door \in Door /\ job.keys \in Seq(Key) /\ Len(job.keys) = 3
    BY <1>9 DEF RecordTag, Runs, JobsTyped, JobTyped
  <2>2. {job.keys[1], job.keys[2]} \subseteq Key /\ job.keys[3] \in Key
    BY <2>1
  <2>. HIDE DEF job
  <2>3. NewTag(job.door, {job.keys[1], job.keys[2]}, job.keys[3]) \in NfcTags
    BY <2>1, <2>2 DEF NewTag, NfcTags
  <2>4. TagsOnly(data, data')
    BY <1>9, <2>1, <2>3, UpsertTagIs DEF RecordTag, FileTyped, job
  <2>. QED
    BY <1>9, <2>4 DEF RecordTag, AdminWrites, TagsWritten, TagsOnly, OwnersStay, TestsStay
<1>10. ASSUME NEW a \in Admin, DeleteRecord(a)
       PROVE  AdminWrites
  <2>1. jobs[a].tag \in Tag /\ UNCHANGED <<voided, confirms>>
    BY <1>10 DEF DeleteRecord, Runs, JobsTyped, JobTyped
  <2>2. data' = data \/ (TagsOnly(data, data') /\ TagsStay(data, data'))
    BY <1>10, <2>1, DeleteTagIs DEF DeleteRecord, FileTyped
  <2>. QED
    BY <1>0, <2>1, <2>2 DEF AdminWrites, TagsOnly, OwnersStay, TestsStay
<1>11. ASSUME NEW a \in Admin, AttachAdminKey(a)
       PROVE  AdminWrites
  <2>1. jobs[a].tag \in Tag /\ jobs[a].keys[1] \in Key /\ UNCHANGED <<voided, confirms>>
    BY <1>11 DEF AttachAdminKey, Runs, JobsTyped, JobTyped
  <2>2. data' = data \/ (TagsOnly(data, data') /\ TagsStay(data, data'))
    BY <1>11, <2>1, SetTagAdminKeyIs DEF AttachAdminKey, FileTyped
  <2>. QED
    BY <1>0, <2>1, <2>2 DEF AdminWrites, TagsOnly, OwnersStay, TestsStay
<1>12. ASSUME NEW a \in Admin,
              \/ \E t \in Tag : StartDelete(a, t) \/ StartProtection(a, t)
              \/ \E t \in Tag, d \in Door : StartPrepare(a, t, d)
              \/ \E d \in Door, x \in Test : CheckTest(a, d, x)
              \/ \E p \in Person, i \in Invite : CheckInvite(a, p, i)
              \/ \E p \in Person, selected \in SUBSET Door : CheckAccess(a, p, selected)
       PROVE  AdminWrites
  BY <1>0, <1>12 DEF StartDelete, StartProtection, StartPrepare, CheckTest, CheckInvite, CheckAccess
<1>13. ASSUME NEW a \in Admin,
              \/ StoreKey(a) \/ FailPrepare(a) \/ UndoKey(a) \/ DeleteKey(a)
              \/ PackageKnown(a) \/ StoreAdminKey(a) \/ FailAttach(a) \/ FailTag(a)
              \/ RemovePersonRecord(a) \/ RemoveDoorRecord(a)
       PROVE  AdminWrites
  BY <1>0, <1>13 DEF StoreKey, FailPrepare, UndoKey, DeleteKey, PackageKnown, StoreAdminKey,
     FailAttach, FailTag, RemovePersonRecord, RemoveDoorRecord
<1>14. ASSUME Restart PROVE AdminWrites
  BY <1>0, <1>14 DEF Restart
<1>. QED
  BY <1>1, <1>2, <1>3, <1>4, <1>5, <1>6, <1>7, <1>8, <1>9, <1>10, <1>11, <1>12, <1>13, <1>14
     DEF Administer

\* One request goes on and the others stay.
LEMMA OthersStay ==
  ASSUME RequestsTyped, NEW r \in Request, NEW q, Goes(r, q)
  PROVE  requests'[r] = q /\ \A s \in Request \ {r} : requests'[s] = requests[s]
  BY DEF RequestsTyped, Goes

\* One job goes on and the others stay.
LEMMA OtherJobsStay ==
  ASSUME JobsTyped, NEW a \in Admin, NEW job, Becomes(a, job)
  PROVE  jobs'[a] = job /\ \A b \in Admin \ {a} : jobs'[b] = jobs[b]
  BY DEF JobsTyped, Becomes

(***************************************************************************)
(* The jobs that hold an identifier that is not in the file yet.           *)
(***************************************************************************)
Draws(a) ==
  \/ \E t \in Tag, d \in Door : StartPrepare(a, t, d)
  \/ \E d \in Door, x \in Test : CheckTest(a, d, x)
  \/ \E p \in Person, i \in Invite : CheckInvite(a, p, i)

Holding == {"store", "test", "invite"}
SameHeld(job, other) ==
  /\ job.pc = other.pc
  /\ job.pc = "store" => job.tag = other.tag
  /\ job.pc = "test" => job.test = other.test
  /\ job.pc = "invite" => job.invite = other.invite

JobsStay ==
  \A a \in Admin : jobs'[a].pc \in Holding => SameHeld(jobs'[a], jobs[a])

PreparesStay ==
  \A a \in Admin : jobs'[a].pc = "store" => jobs[a].pc = "store" /\ jobs'[a].tag = jobs[a].tag
ChecksStay ==
  \A a \in Admin : jobs'[a].pc = "test" => jobs[a].pc = "test" /\ jobs'[a].test = jobs[a].test
InvitesStay ==
  \A a \in Admin : jobs'[a].pc = "invite" => jobs[a].pc = "invite" /\ jobs'[a].invite = jobs[a].invite

\* A job that holds no identifier, or the same one, draws nothing.
LEMMA JobsStayBut ==
  ASSUME JobsTyped, NEW a \in Admin, NEW job, Becomes(a, job),
         job.pc \notin Holding \/ SameHeld(job, jobs[a])
  PROVE  JobsStay
  BY DEF JobsTyped, Becomes, JobsStay, SameHeld

\* An identifier that a job holds was drawn by that job.
LEMMA AdminJobs ==
  ASSUME Typed, Administer
  PROVE  /\ PreparesStay \/ \E a \in Admin, t \in Tag, d \in Door : StartPrepare(a, t, d)
         /\ ChecksStay \/ \E a \in Admin, d \in Door, x \in Test : CheckTest(a, d, x)
         /\ InvitesStay \/ \E a \in Admin, p \in Person, i \in Invite : CheckInvite(a, p, i)
<1>. JobsTyped
  BY DEF Typed
<1>1. ASSUME NEW a \in Admin,
             \/ \E t \in Tag, enabled \in BOOLEAN : SwitchTag(a, t, enabled)
             \/ \E t \in Tag : ConfirmProtection(a, t)
             \/ \E d \in Door : RevokeTest(a, d)
             \/ \E p \in Person : RevokeEnrolment(a, p)
      PROVE  JobsStay
  BY <1>1 DEF SwitchTag, ConfirmProtection, RevokeTest, RevokeEnrolment, admin, JobsStay, SameHeld
<1>2. ASSUME NEW a \in Admin,
             \/ WriteInvite(a) \/ WriteAccess(a) \/ WriteTest(a) \/ RecordTag(a)
             \/ DeleteRecord(a) \/ PackageKnown(a) \/ FailTag(a)
             \/ RemovePersonRecord(a) \/ RemoveDoorRecord(a)
      PROVE  JobsStay
  BY <1>2, JobsStayBut DEF WriteInvite, WriteAccess, WriteTest, RecordTag, DeleteRecord,
     PackageKnown, FailTag, RemovePersonRecord, RemoveDoorRecord, Free, Holding
<1>3. ASSUME NEW a \in Admin, NEW t \in Tag, StartProtection(a, t) \/ StartDelete(a, t)
      PROVE  JobsStay
  BY <1>3, JobsStayBut DEF StartProtection, StartDelete, Holding
<1>4. ASSUME NEW a \in Admin, NEW d \in Door, RemoveDoor(a, d)
      PROVE  JobsStay
  BY <1>4, JobsStayBut DEF RemoveDoor, Holding
<1>5. ASSUME NEW a \in Admin, NEW p \in Person,
             RemovePerson(a, p) \/ \E selected \in SUBSET Door : CheckAccess(a, p, selected)
      PROVE  JobsStay
  BY <1>5, JobsStayBut DEF RemovePerson, CheckAccess, Holding
<1>6. ASSUME NEW a \in Admin, FailPrepare(a) \/ UndoKey(a) \/ FailAttach(a)
      PROVE  JobsStay
  BY <1>6, JobsStayBut DEF FailPrepare, UndoKey, FailAttach, Holding, Free
<1>7. ASSUME NEW a \in Admin, StoreAdminKey(a) \/ AttachAdminKey(a)
      PROVE  JobsStay
  BY <1>7, JobsStayBut DEF StoreAdminKey, AttachAdminKey, Holding, Free
<1>8. ASSUME NEW a \in Admin, StoreKey(a)
      PROVE  JobsStay
  <2>1. jobs[a] \in [pc : {"store"}, tag : Tag, door : Door, keys : Seq(Key)]
    BY <1>8 DEF StoreKey, Runs, JobsTyped, JobTyped
  <2>2. SameHeld([jobs[a] EXCEPT !.keys = Append(@, NextKey)], jobs[a])
    BY <2>1 DEF SameHeld
  <2>. QED
    BY <1>8, <2>2, JobsStayBut DEF StoreKey
<1>9. ASSUME NEW a \in Admin, DeleteKey(a)
      PROVE  JobsStay
  <2>1. PICK key : Becomes(a, [jobs[a] EXCEPT !.keys = @ \ {key}])
    BY <1>9 DEF DeleteKey
  <2>2. jobs[a] \in [pc : {"delete"}, tag : Tag, keys : SUBSET Key]
    BY <1>9 DEF DeleteKey, Runs, JobsTyped, JobTyped
  <2>3. [jobs[a] EXCEPT !.keys = @ \ {key}].pc = "delete"
    BY <2>2
  <2>. QED
    BY <2>1, <2>3, JobsStayBut DEF Holding
<1>10. ASSUME Restart PROVE JobsStay
  BY <1>10 DEF Restart, JobsStay, Holding, Free
<1>11. JobsStay => PreparesStay /\ ChecksStay /\ InvitesStay
  BY DEF JobsStay, SameHeld, Holding, PreparesStay, ChecksStay, InvitesStay
<1>12. ASSUME NEW a \in Admin, NEW t \in Tag, NEW d \in Door, StartPrepare(a, t, d)
       PROVE  ChecksStay /\ InvitesStay
  BY <1>12, OtherJobsStay DEF StartPrepare, ChecksStay, InvitesStay
<1>13. ASSUME NEW a \in Admin, NEW d \in Door, NEW x \in Test, CheckTest(a, d, x)
       PROVE  PreparesStay /\ InvitesStay
  BY <1>13, OtherJobsStay DEF CheckTest, PreparesStay, InvitesStay
<1>14. ASSUME NEW a \in Admin, NEW p \in Person, NEW i \in Invite, CheckInvite(a, p, i)
       PROVE  PreparesStay /\ ChecksStay
  BY <1>14, OtherJobsStay DEF CheckInvite, PreparesStay, ChecksStay
<1>15. JobsStay \/ \E a \in Admin : Draws(a)
  BY <1>1, <1>2, <1>3, <1>4, <1>5, <1>6, <1>7, <1>8, <1>9, <1>10 DEF Administer, Draws
<1>. QED
  BY <1>11, <1>12, <1>13, <1>14, <1>15 DEF Draws

(***************************************************************************)
(* What a step of a visitor leaves.                                        *)
(***************************************************************************)
VisitLeaves ==
  /\ UNCHANGED <<policy, voided, confirms>> /\ now' \in {now, now + 1}
  /\ data'.tests = data.tests
  /\ UNCHANGED opened \/ \E r \in Request : IssueTap(r)
  /\ UNCHANGED commands \/ \E r \in Request : Operate(r)
  /\ data'.tags = data.tags \/ \E r \in Request : ClaimReading(r)
  /\ (OwnersStay /\ UNCHANGED enrolled) \/ \E r \in Request : Enrol(r)

\* Which visitor writes which part.
LEMMA VisitLeavesMost ==
  ASSUME Typed, Visit
  PROVE  VisitLeaves
<1>. FileTyped /\ RequestsTyped
  BY DEF Typed
<1>. USE DEF past
<1>1. ASSUME NEW r \in Request, NEW t \in Tag, NEW counter \in Counter, ReadTag(r, t, counter)
      PROVE  VisitLeaves
  BY <1>1 DEF ReadTag, VisitLeaves, OwnersStay
<1>2. ASSUME NEW r \in Request, NEW x \in Test, ReadTestTag(r, x)
      PROVE  VisitLeaves
  BY <1>2 DEF ReadTestTag, VisitLeaves, OwnersStay
<1>3. ASSUME NEW token \in Token, Challenge(token)
      PROVE  VisitLeaves
  BY <1>3 DEF Challenge, VisitLeaves, OwnersStay
<1>4. ASSUME NEW r \in Request, NEW ceremony \in Token, NEW k \in Passkey,
             Answer(r, ceremony, k) \/ Attest(r, ceremony, k)
      PROVE  VisitLeaves
  BY <1>4 DEF Answer, Attest, VisitLeaves, OwnersStay
<1>5. ASSUME NEW i \in Invite, Register(i)
      PROVE  VisitLeaves
  BY <1>5 DEF Register, VisitLeaves, OwnersStay
<1>6. ASSUME NEW r \in Request, ClaimReading(r)
      PROVE  VisitLeaves
  <2> DEFINE tap == requests[r].tap
  <2>1. tap.tag \in Tag /\ tap.counter \in Counter
    BY <1>6 DEF ClaimReading, At, RequestsTyped, RequestTyped, Readings
  <2>2. UNCHANGED data \/ TagsOnly(data, data')
    BY <1>6, <2>1, ClaimCounterIs DEF ClaimReading, MayClaim, FileTyped
  <2>. QED
    BY <1>6, <2>2 DEF ClaimReading, VisitLeaves, OwnersStay, TagsOnly
<1>7. ASSUME NEW r \in Request, Enrol(r)
      PROVE  VisitLeaves
  <2> DEFINE s == requests[r].session
             k == requests[r].passkey
  <2>1. s.invite \in Invite /\ s.person \in Person /\ k \in Passkey
    BY <1>7 DEF Enrol, At, RequestsTyped, RequestTyped, Sessions
  <2>2. data' = CompleteEnrollment(data, s.invite, s.person, k)
    BY <1>7 DEF Enrol
  <2>3. data'.tags = data.tags /\ data'.tests = data.tests
    BY <2>1, <2>2 DEF CompleteEnrollment, FileTyped, Repository
  <2>. QED
    BY <1>7, <2>3 DEF Enrol, VisitLeaves
<1>8. ASSUME NEW r \in Request,
             VerifyReading(r) \/ IssueTap(r) \/ Authenticate(r) \/ ConsumeTap(r)
      PROVE  VisitLeaves
  BY <1>8 DEF VerifyReading, IssueTap, Authenticate, ConsumeTap, VisitLeaves, OwnersStay
<1>9. ASSUME NEW r \in Request, CheckGrant(r) \/ Decide(r) \/ Operate(r) \/ End(r)
      PROVE  VisitLeaves
  BY <1>9 DEF CheckGrant, Decide, Operate, End, VisitLeaves, OwnersStay
<1>10. ASSUME Pass PROVE VisitLeaves
  BY <1>10 DEF Pass, VisitLeaves, OwnersStay
<1>. QED
  BY <1>1, <1>2, <1>3, <1>4, <1>5, <1>6, <1>7, <1>8, <1>9, <1>10 DEF Visit

(***************************************************************************)
(* A reading that was claimed is one of a tag that counted so far, or was  *)
(* written anew since.                                                     *)
(***************************************************************************)
Opening(r) == requests[r].pc = "issue" /\ ~requests[r].tap.test
Preparing(t) == \E a \in Admin : jobs[a].pc = "store" /\ jobs[a].tag = t

Claimed(tap, epoch) ==
  /\ tap \in Readings /\ epoch \in Nat /\ epoch <= confirms[tap.tag]
  /\ tap.tag \in drawn /\ ~Preparing(tap.tag)
  /\ epoch = confirms[tap.tag] /\ Registered(data, tap.tag) =>
       data.tags[tap.tag].last # None /\ tap.counter <= data.tags[tap.tag].last

TagsDrawn ==
  /\ \A t \in Tag : Registered(data, t) => t \in drawn /\ ~Preparing(t)
  /\ \A a \in Admin : jobs[a].pc = "store" => jobs[a].tag \in drawn
  /\ \A a, b \in Admin : jobs[a].pc = "store" /\ jobs[b].pc = "store" /\ jobs[a].tag = jobs[b].tag
                           => a = b

OpenedOnce == \A o, q \in opened : o.tap = q.tap /\ ~o.tap.test /\ o.epoch = q.epoch => o = q

ClaimedOnce ==
  /\ \A o \in opened : ~o.tap.test => Claimed(o.tap, o.epoch)
  /\ \A r \in Request : Opening(r) => Claimed(requests[r].tap, requests[r].epoch)
  /\ \A r \in Request, o \in opened :
       Opening(r) => o.tap # requests[r].tap \/ o.epoch # requests[r].epoch
  /\ \A r, q \in Request :
       Opening(r) /\ Opening(q) /\ requests[r].tap = requests[q].tap
       /\ requests[r].epoch = requests[q].epoch => r = q
  /\ OpenedOnce

ReadingInv == TagsDrawn /\ ClaimedOnce

\* At first nothing was read.
LEMMA ReadingInit ==
  ASSUME Init
  PROVE  ReadingInv
<1>1. PICK i \in Installations : data = i.data /\ {t \in Tag : Registered(i.data, t)} \subseteq drawn
  BY DEF Init
<1>2. \A a \in Admin : jobs[a].pc = "free"
  BY DEF Init, Free
<1>3. \A r \in Request : requests[r].pc = "idle"
  BY DEF Init, Idle
<1>4. opened = {}
  BY DEF Init
<1>5. TagsDrawn
  BY <1>1, <1>2 DEF TagsDrawn, Preparing
<1>6. ClaimedOnce
  BY <1>3, <1>4 DEF ClaimedOnce, Opening, OpenedOnce
<1>. QED
  BY <1>5, <1>6 DEF ReadingInv

\* A step that claims no reading and registers no tag.
TagsQuiet ==
  /\ UNCHANGED confirms /\ drawn \subseteq drawn'
  /\ TagsStay(data, data') /\ PreparesStay

RequestsQuiet == \A r \in Request : Opening(r)' => requests'[r] = requests[r]

\* Who does not prepare does not come to prepare.
LEMMA PreparingStays ==
  ASSUME PreparesStay, NEW t, Preparing(t)'
  PROVE  Preparing(t)
  BY DEF PreparesStay, Preparing

\* A claim holds on while nothing is claimed or registered.
LEMMA ClaimedStays ==
  ASSUME TagsQuiet, NEW tap, NEW epoch, Claimed(tap, epoch)
  PROVE  Claimed(tap, epoch)'
<1>1. tap.tag \in Tag
  BY DEF Claimed, Readings
<1>2. ~Preparing(tap.tag)'
  BY PreparingStays DEF TagsQuiet, Claimed
<1>. QED
  BY <1>1, <1>2 DEF TagsQuiet, Claimed, TagsStay

\* So do the identifiers of tags.
LEMMA TagsDrawnStay ==
  ASSUME TagsDrawn, TagsQuiet
  PROVE  TagsDrawn'
<1>1. \A t \in Tag : Registered(data', t) => Registered(data, t) /\ ~Preparing(t)'
  BY PreparingStays DEF TagsDrawn, TagsQuiet, TagsStay
<1>2. \A a \in Admin : jobs'[a].pc = "store" => jobs[a].pc = "store" /\ jobs'[a].tag = jobs[a].tag
  BY DEF TagsQuiet, PreparesStay
<1>3. \A a \in Admin : jobs'[a].pc = "store" => jobs'[a].tag \in drawn'
  BY <1>2 DEF TagsDrawn, TagsQuiet
<1>4. \A t \in Tag : Registered(data', t) => t \in drawn'
  BY <1>1 DEF TagsDrawn, TagsQuiet
<1>. QED
  BY <1>1, <1>2, <1>3, <1>4 DEF TagsDrawn

\* What keeps the claims keeps the account of them.
LEMMA ClaimsStay ==
  ASSUME ClaimedOnce, RequestsQuiet, UNCHANGED opened,
         \A tap, epoch : Claimed(tap, epoch) => Claimed(tap, epoch)'
  PROVE  ClaimedOnce'
<1>1. \A o \in opened : ~o.tap.test => Claimed(o.tap, o.epoch)'
  BY DEF ClaimedOnce
<1>2. ASSUME NEW r \in Request, Opening(r)'
      PROVE  /\ Opening(r) /\ requests'[r] = requests[r]
             /\ Claimed(requests[r].tap, requests[r].epoch)'
  <2>1. Opening(r) /\ requests'[r] = requests[r]
    BY <1>2 DEF RequestsQuiet, Opening
  <2>2. PICK tap, epoch : tap = requests[r].tap /\ epoch = requests[r].epoch
    OBVIOUS
  <2>3. Claimed(tap, epoch)'
    BY <2>1, <2>2 DEF ClaimedOnce
  <2>4. requests'[r].tap = tap /\ requests'[r].epoch = epoch
    BY <2>1, <2>2
  <2>. QED
    BY <2>1, <2>3, <2>4 DEF Claimed
<1>3. \A r \in Request, o \in opened :
        Opening(r)' => o.tap # requests'[r].tap \/ o.epoch # requests'[r].epoch
  BY <1>2 DEF ClaimedOnce
<1>4. \A r, q \in Request :
        Opening(r)' /\ Opening(q)' /\ requests'[r].tap = requests'[q].tap
        /\ requests'[r].epoch = requests'[q].epoch => r = q
  BY <1>2 DEF ClaimedOnce
<1>5. OpenedOnce'
  BY DEF ClaimedOnce, OpenedOnce
<1>. QED
  BY <1>1, <1>2, <1>3, <1>4, <1>5 DEF ClaimedOnce

\* And so do the readings altogether.
LEMMA ReadingStays ==
  ASSUME ReadingInv, TagsQuiet, RequestsQuiet, UNCHANGED opened
  PROVE  ReadingInv'
<1>1. \A tap, epoch : Claimed(tap, epoch) => Claimed(tap, epoch)'
  BY ClaimedStays
<1>. QED
  BY <1>1, ClaimsStay, TagsDrawnStay DEF ReadingInv

\* The requests that are to open a session are untouched by administrators.
LEMMA AdminRequestsQuiet ==
  ASSUME Typed, Administer
  PROVE  RequestsQuiet /\ UNCHANGED opened
<1>1. AdminLeaves
  BY AdminLeavesMost
<1>2. CASE Restart
  BY <1>1, <1>2 DEF AdminLeaves, Restart, RequestsQuiet, Opening, Idle
<1>3. CASE ~Restart
  BY <1>1, <1>3 DEF AdminLeaves, memory, RequestsQuiet
<1>. QED
  BY <1>2, <1>3

\* A tag that is confirmed as protected counts from the beginning, and the
\* readings of before are of the past.
LEMMA ConfirmKeepsReadings ==
  ASSUME Typed, ReadingInv, NEW a \in Admin, NEW t \in Tag, ConfirmProtection(a, t)
  PROVE  ReadingInv'
<1>. FileTyped
  BY DEF Typed
<1>1. /\ UNCHANGED <<requests, jobs, drawn, opened>>
      /\ confirms' = [confirms EXCEPT ![t] = @ + 1]
      /\ Registered(data, t)
  BY DEF ConfirmProtection, memory, admin, MayConfirm
<1>2. \A u \in Tag \ {t} : data'.tags[u] = data.tags[u]
  BY <1>1, ConfirmTagIs DEF ConfirmProtection, FileTyped
<1>3. confirms'[t] = confirms[t] + 1 /\ \A u \in Tag \ {t} : confirms'[u] = confirms[u]
  BY <1>1 DEF FileTyped
<1>4. \A u \in Tag : confirms[u] \in Nat
  BY DEF FileTyped
<1>5. ASSUME NEW tap, NEW epoch, Claimed(tap, epoch)
      PROVE  Claimed(tap, epoch)'
  <2>1. tap.tag \in Tag /\ ~Preparing(tap.tag)'
    BY <1>1, <1>5 DEF Claimed, Readings, Preparing
  <2>2. CASE tap.tag = t
    BY <1>1, <1>3, <1>4, <1>5, <2>1, <2>2 DEF Claimed
  <2>3. CASE tap.tag # t
    BY <1>1, <1>2, <1>3, <1>5, <2>1, <2>3 DEF Claimed, Registered
  <2>. QED
    BY <2>2, <2>3
<1>6. TagsDrawn'
  BY <1>1, <1>2 DEF ReadingInv, TagsDrawn, Preparing, Registered
<1>7. RequestsQuiet
  BY <1>1 DEF RequestsQuiet
<1>. QED
  BY <1>1, <1>5, <1>6, <1>7, ClaimsStay DEF ReadingInv

\* A tag that is prepared has a new identifier.
LEMMA PrepareKeepsReadings ==
  ASSUME Typed, ReadingInv, NEW a \in Admin, NEW t \in Tag, NEW d \in Door, StartPrepare(a, t, d)
  PROVE  ReadingInv'
<1>. JobsTyped
  BY DEF Typed
<1>1. /\ UNCHANGED <<requests, data, confirms, opened>>
      /\ t \notin drawn /\ drawn' = drawn \cup {t}
      /\ jobs[a].pc = "free"
  BY DEF StartPrepare, memory, past, Runs
<1>2. jobs'[a].pc = "store" /\ jobs'[a].tag = t /\ \A b \in Admin \ {a} : jobs'[b] = jobs[b]
  BY OtherJobsStay DEF StartPrepare
<1>3. \A u : Preparing(u)' => u = t \/ Preparing(u)
  BY <1>2 DEF Preparing
<1>4. ASSUME NEW tap, NEW epoch, Claimed(tap, epoch)
      PROVE  Claimed(tap, epoch)'
  BY <1>1, <1>3, <1>4 DEF Claimed
<1>5. TagsDrawn'
  <2>1. \A u \in Tag : Registered(data', u) => u \in drawn' /\ ~Preparing(u)'
    BY <1>1, <1>3 DEF ReadingInv, TagsDrawn
  <2>2. \A b \in Admin : jobs'[b].pc = "store" => jobs'[b].tag \in drawn'
    BY <1>1, <1>2 DEF ReadingInv, TagsDrawn
  <2>3. \A b \in Admin \ {a} : jobs'[b].pc = "store" => jobs'[b].tag # t
    BY <1>1, <1>2 DEF ReadingInv, TagsDrawn
  <2>4. \A b, c \in Admin : jobs'[b].pc = "store" /\ jobs'[c].pc = "store"
                              /\ jobs'[b].tag = jobs'[c].tag => b = c
    BY <1>2, <2>3 DEF ReadingInv, TagsDrawn
  <2>. QED
    BY <2>1, <2>2, <2>4 DEF TagsDrawn
<1>6. RequestsQuiet
  BY <1>1 DEF RequestsQuiet
<1>. QED
  BY <1>1, <1>4, <1>5, <1>6, ClaimsStay DEF ReadingInv

\* A tag that comes to be registered was not read before.
LEMMA RecordKeepsReadings ==
  ASSUME Typed, ReadingInv, NEW a \in Admin, RecordTag(a)
  PROVE  ReadingInv'
<1>. JobsTyped /\ FileTyped
  BY DEF Typed
<1> DEFINE job == jobs[a]
           t == job.tag
           tag == NewTag(job.door, {job.keys[1], job.keys[2]}, job.keys[3])
<1>1. job.pc = "store" /\ UNCHANGED <<requests, confirms, opened, drawn>>
  BY DEF RecordTag, memory, past, Runs
<1>2. t \in Tag /\ job.door \in Door /\ job.keys \in Seq(Key) /\ Len(job.keys) = 3
  BY <1>1 DEF RecordTag, JobsTyped, JobTyped
<1>3. {job.keys[1], job.keys[2]} \subseteq Key /\ job.keys[3] \in Key
  BY <1>2
<1>4. tag \in NfcTags
  BY <1>2, <1>3 DEF NewTag, NfcTags
<1>5. data'.tags = [data.tags EXCEPT ![t] = tag]
  BY <1>2, <1>4, UpsertTagIs DEF RecordTag, FileTyped
<1>6. jobs'[a].pc = "free" /\ \A b \in Admin \ {a} : jobs'[b] = jobs[b]
  BY OtherJobsStay DEF RecordTag, Free
<1>. HIDE DEF job, t, tag
<1>7. \A u \in Tag \ {t} : data'.tags[u] = data.tags[u]
  BY <1>2, <1>5 DEF FileTyped, Repository
<1>8. \A u : Preparing(u)' => u # t /\ Preparing(u)
  BY <1>1, <1>6 DEF Preparing, ReadingInv, TagsDrawn, job, t
<1>9. Preparing(t) /\ t \in drawn
  BY <1>1 DEF Preparing, ReadingInv, TagsDrawn, job, t
<1>10. ASSUME NEW e, NEW epoch, Claimed(e, epoch)
       PROVE  Claimed(e, epoch)'
  <2>1. e.tag \in Tag \ {t}
    BY <1>9, <1>10 DEF Claimed, Readings
  <2>. QED
    BY <1>1, <1>7, <1>8, <1>10, <2>1 DEF Claimed, Registered
<1>11. TagsDrawn'
  <2>1. \A u \in Tag : Registered(data', u) => u \in drawn' /\ ~Preparing(u)'
    BY <1>1, <1>7, <1>8, <1>9 DEF ReadingInv, TagsDrawn, Registered
  <2>2. \A b \in Admin : jobs'[b].pc = "store" => jobs[b].pc = "store" /\ jobs'[b].tag = jobs[b].tag
    BY <1>6
  <2>. QED
    BY <1>1, <2>1, <2>2 DEF ReadingInv, TagsDrawn
<1>12. RequestsQuiet
  BY <1>1 DEF RequestsQuiet
<1>. QED
  BY <1>1, <1>10, <1>11, <1>12, ClaimsStay DEF ReadingInv

\* Steps of administrators.
LEMMA AdminKeepsReadings ==
  ASSUME Typed, ReadingInv, Administer
  PROVE  ReadingInv'
<1>1. AdminLeaves /\ AdminWrites /\ RequestsQuiet /\ UNCHANGED opened
  BY AdminLeavesMost, AdminWritesParts, AdminRequestsQuiet
<1>2. CASE \E a \in Admin : TagsWritten(a)
  BY <1>2, RecordKeepsReadings, ConfirmKeepsReadings DEF TagsWritten
<1>3. CASE \E a \in Admin, t \in Tag, d \in Door : StartPrepare(a, t, d)
  BY <1>3, PrepareKeepsReadings
<1>4. CASE /\ ~\E a \in Admin : TagsWritten(a)
           /\ ~\E a \in Admin, t \in Tag, d \in Door : StartPrepare(a, t, d)
  <2>1. PreparesStay
    BY <1>4, AdminJobs
  <2>2. TagsQuiet
    BY <1>1, <1>4, <2>1 DEF AdminLeaves, AdminWrites, TagsWritten, TagsQuiet
  <2>. QED
    BY <1>1, <2>2, ReadingStays
<1>. QED
  BY <1>2, <1>3, <1>4

\* A reading that is claimed counts further than all that were claimed since
\* the tag was written.
LEMMA ClaimKeepsReadings ==
  ASSUME Typed, ReadingInv, UNCHANGED admin, NEW r \in Request, ClaimReading(r)
  PROVE  ReadingInv'
<1>. FileTyped /\ RequestsTyped
  BY DEF Typed
<1> DEFINE tap == requests[r].tap
           t == tap.tag
<1>1. tap \in Readings /\ UNCHANGED <<jobs, drawn, confirms, opened>>
  BY DEF ClaimReading, past, admin, At, RequestsTyped, RequestTyped
<1>2. t \in Tag /\ tap.counter \in Counter /\ ~tap.test
  BY <1>1 DEF Readings
<1>3. CASE ~MayClaim(data, t, tap.counter)
  <2>1. UNCHANGED data /\ Goes(r, Idle)
    BY <1>3 DEF ClaimReading
  <2>2. RequestsQuiet
    BY <2>1, OthersStay DEF RequestsQuiet, Opening, Idle
  <2>3. TagsQuiet
    BY <1>1, <2>1 DEF TagsQuiet, TagsStay, PreparesStay
  <2>. QED
    BY <1>1, <2>2, <2>3, ReadingStays
<1>4. CASE MayClaim(data, t, tap.counter)
  <2> DEFINE q == [pc |-> "issue", tap |-> tap, epoch |-> confirms[t]]
  <2>1. data' = ClaimCounter(data, t, tap.counter) /\ Goes(r, q)
    BY <1>4 DEF ClaimReading
  <2>2. Registered(data, t) /\ (data.tags[t].last # None => tap.counter > data.tags[t].last)
    BY <1>4 DEF MayClaim
  <2>3. /\ \A u \in Tag \ {t} : data'.tags[u] = data.tags[u]
        /\ data'.tags[t] # None /\ data'.tags[t].last = tap.counter
    BY <1>2, <2>1, <2>2, ClaimCounterIs DEF FileTyped
  <2>4. requests'[r] = q /\ \A s \in Request \ {r} : requests'[s] = requests[s]
    BY <2>1, OthersStay
  <2>5. tap.counter \in Int /\ tap.counter # None
    BY <1>2, Assumptions
  <2>6. ASSUME NEW e, NEW epoch, Claimed(e, epoch), e.tag = t, epoch = confirms[t]
        PROVE  e.counter < tap.counter
    <3>1. data.tags[t].last # None /\ e.counter <= data.tags[t].last
      BY <2>2, <2>6 DEF Claimed
    <3>2. e.counter \in Int
      BY <2>6, Assumptions DEF Claimed, Readings
    <3>3. data.tags[t].last \in Int
      BY <1>2, <2>2, <3>1, Parts, Assumptions DEF FileTyped, NfcTags
    <3>. QED
      BY <2>2, <2>5, <3>1, <3>2, <3>3
  <2>7. ASSUME NEW e, NEW epoch, Claimed(e, epoch)
        PROVE  Claimed(e, epoch)'
    <3>1. e.tag \in Tag /\ e.counter \in Int
      BY <2>7, Assumptions DEF Claimed, Readings
    <3>2. ~Preparing(e.tag)'
      BY <1>1, <2>7 DEF Claimed, Preparing
    <3>3. CASE e.tag = t
      BY <1>1, <2>3, <2>5, <2>6, <2>7, <3>1, <3>2, <3>3 DEF Claimed
    <3>4. CASE e.tag # t
      BY <1>1, <2>3, <2>7, <3>1, <3>2, <3>4 DEF Claimed, Registered
    <3>. QED
      BY <3>3, <3>4
  <2>8. TagsDrawn'
    BY <1>1, <1>2, <2>2, <2>3 DEF ReadingInv, TagsDrawn, Preparing, Registered
  <2>9. PICK e, epoch : e = tap /\ epoch = confirms[t]
    OBVIOUS
  <2>10. Claimed(e, epoch)'
    <3>1. e.tag \in drawn /\ ~Preparing(e.tag)'
      <4>1. t \in drawn /\ ~Preparing(t)
        BY <1>2, <2>2 DEF ReadingInv, TagsDrawn
      <4>. QED
        BY <1>1, <2>9, <4>1 DEF Preparing
    <3>2. epoch \in Nat
      BY <1>2, <2>9 DEF FileTyped
    <3>3. confirms'[e.tag] = epoch /\ data'.tags[e.tag].last = e.counter
      BY <1>1, <2>3, <2>9
    <3>4. e.counter \in Int /\ e.counter # None /\ e \in Readings
      BY <1>1, <2>5, <2>9
    <3>. HIDE DEF t, tap
    <3>. QED
      BY <1>1, <3>1, <3>2, <3>3, <3>4 DEF Claimed
  <2>. HIDE DEF q, tap, t
  <2>11. ASSUME NEW f, NEW other, Claimed(f, other) PROVE f # e \/ other # epoch
    BY <2>5, <2>6, <2>9, <2>11 DEF t
  <2>12. requests'[r].tap = e /\ requests'[r].epoch = epoch
    BY <2>4, <2>9 DEF q
  <2>13. \A s \in Request \ {r} : Opening(s)' => Opening(s) /\ requests'[s] = requests[s]
    BY <2>4 DEF Opening
  <2>14. ClaimedOnce'
    <3>1. \A o \in opened : ~o.tap.test => Claimed(o.tap, o.epoch)'
      BY <2>7 DEF ReadingInv, ClaimedOnce
    <3>2. ASSUME NEW s \in Request, Opening(s)'
          PROVE  Claimed(requests[s].tap, requests[s].epoch)'
      <4>1. CASE s = r
        BY <2>10, <2>12, <4>1 DEF Claimed
      <4>2. CASE s # r
        <5>1. PICK f, other : f = requests[s].tap /\ other = requests[s].epoch
          OBVIOUS
        <5>2. Claimed(f, other)'
          BY <2>7, <2>13, <3>2, <4>2, <5>1 DEF ReadingInv, ClaimedOnce
        <5>3. requests'[s].tap = f /\ requests'[s].epoch = other
          BY <2>13, <3>2, <4>2, <5>1
        <5>. QED
          BY <5>2, <5>3 DEF Claimed
      <4>. QED
        BY <4>1, <4>2
    <3>3. ASSUME NEW s \in Request, NEW o \in opened, Opening(s)'
          PROVE  o.tap # requests'[s].tap \/ o.epoch # requests'[s].epoch
      <4>1. CASE s = r
        <5>1. ~e.test
          BY <1>2, <2>9 DEF tap
        <5>2. ~o.tap.test => Claimed(o.tap, o.epoch)
          BY DEF ReadingInv, ClaimedOnce
        <5>. QED
          BY <2>11, <2>12, <4>1, <5>1, <5>2
      <4>2. CASE s # r
        BY <2>13, <3>3, <4>2 DEF ReadingInv, ClaimedOnce
      <4>. QED
        BY <4>1, <4>2
    <3>4. ASSUME NEW s \in Request \ {r}, Opening(s)'
          PROVE  requests'[s].tap # e \/ requests'[s].epoch # epoch
      BY <2>11, <2>13, <3>4 DEF ReadingInv, ClaimedOnce
    <3>5. ASSUME NEW s \in Request, NEW p \in Request, Opening(s)', Opening(p)',
                 requests'[s].tap = requests'[p].tap, requests'[s].epoch = requests'[p].epoch
          PROVE  s = p
      BY <2>12, <2>13, <3>4, <3>5 DEF ReadingInv, ClaimedOnce
    <3>6. OpenedOnce'
      BY <1>1 DEF ReadingInv, ClaimedOnce, OpenedOnce
    <3>. QED
      BY <1>1, <3>1, <3>2, <3>3, <3>5, <3>6 DEF ClaimedOnce
  <2>. QED
    BY <2>8, <2>14 DEF ReadingInv
<1>. QED
  BY <1>3, <1>4

\* A session is opened for a reading that was claimed.
LEMMA IssueKeepsReadings ==
  ASSUME Typed, ReadingInv, UNCHANGED admin, NEW r \in Request, IssueTap(r)
  PROVE  ReadingInv'
<1>. RequestsTyped
  BY DEF Typed
<1>1. /\ UNCHANGED <<jobs, drawn, confirms, data>>
      /\ requests[r].pc = "issue" /\ Goes(r, Idle)
  BY DEF IssueTap, admin, At
<1>0. PICK o : o = [tap |-> requests[r].tap, token |-> issued + 1, epoch |-> requests[r].epoch]
  OBVIOUS
<1>2. opened' = opened \cup {o} /\ o.tap = requests[r].tap /\ o.epoch = requests[r].epoch
  BY <1>0 DEF IssueTap
<1>3. requests'[r].pc = "idle" /\ \A s \in Request \ {r} : requests'[s] = requests[s]
  BY <1>1, OthersStay DEF Idle
<1>4. RequestsQuiet /\ ~Opening(r)'
  BY <1>3 DEF RequestsQuiet, Opening
<1>5. TagsQuiet /\ TagsDrawn'
  BY <1>1, TagsDrawnStay DEF ReadingInv, TagsQuiet, TagsStay, PreparesStay
<1>6. \A tap, epoch : Claimed(tap, epoch) => Claimed(tap, epoch)'
  BY <1>5, ClaimedStays
<1>7. ~o.tap.test => Opening(r)
  BY <1>1, <1>2 DEF Opening
<1>8. \A q \in opened' : ~q.tap.test => Claimed(q.tap, q.epoch)'
  BY <1>2, <1>6, <1>7 DEF ReadingInv, ClaimedOnce
<1>9. \A s \in Request : Opening(s)' => Opening(s) /\ requests'[s] = requests[s] /\ s # r
  BY <1>4 DEF RequestsQuiet, Opening
<1>10. ASSUME NEW s \in Request, Opening(s)'
       PROVE  Claimed(requests[s].tap, requests[s].epoch)'
  <2>1. PICK tap, epoch : tap = requests[s].tap /\ epoch = requests[s].epoch
    OBVIOUS
  <2>2. Claimed(tap, epoch)'
    BY <1>6, <1>9, <1>10, <2>1 DEF ReadingInv, ClaimedOnce
  <2>3. requests'[s].tap = tap /\ requests'[s].epoch = epoch
    BY <1>9, <1>10, <2>1
  <2>. QED
    BY <2>2, <2>3 DEF Claimed
<1>11. ASSUME NEW s \in Request, NEW q \in opened', Opening(s)'
       PROVE  q.tap # requests'[s].tap \/ q.epoch # requests'[s].epoch
  <2>1. CASE q \in opened
    BY <1>9, <1>11, <2>1 DEF ReadingInv, ClaimedOnce
  <2>2. CASE q = o
    <3>1. Opening(s) /\ s # r /\ requests'[s] = requests[s]
      BY <1>9, <1>11
    <3>2. o.tap = requests[s].tap => Opening(r)
      BY <1>7, <3>1 DEF Opening
    <3>. QED
      BY <1>2, <2>2, <3>1, <3>2 DEF ReadingInv, ClaimedOnce
  <2>. QED
    BY <1>2, <2>1, <2>2
<1>12. \A s, q \in Request :
         Opening(s)' /\ Opening(q)' /\ requests'[s].tap = requests'[q].tap
         /\ requests'[s].epoch = requests'[q].epoch => s = q
  BY <1>9 DEF ReadingInv, ClaimedOnce
<1>13. OpenedOnce'
  <2>1. ASSUME NEW q \in opened, q.tap = o.tap, ~o.tap.test, q.epoch = o.epoch PROVE FALSE
    BY <1>2, <1>7, <2>1 DEF ReadingInv, ClaimedOnce
  <2>. QED
    BY <1>2, <2>1 DEF ReadingInv, ClaimedOnce, OpenedOnce
<1>14. ClaimedOnce'
  BY <1>8, <1>10, <1>11, <1>12, <1>13 DEF ClaimedOnce
<1>. QED
  BY <1>5, <1>14 DEF ReadingInv

\* The other steps of visitors open and claim nothing.
LEMMA VisitKeepsReadings ==
  ASSUME Typed, ReadingInv, Visit, UNCHANGED admin
  PROVE  ReadingInv'
<1>. RequestsTyped
  BY DEF Typed
<1>1. VisitLeaves
  BY VisitLeavesMost
<1>2. CASE \E r \in Request : ClaimReading(r)
  BY <1>2, ClaimKeepsReadings
<1>3. CASE \E r \in Request : IssueTap(r)
  BY <1>3, IssueKeepsReadings
<1>4. CASE ~\E r \in Request : ClaimReading(r) \/ IssueTap(r)
  <2>1. TagsQuiet /\ UNCHANGED opened
    BY <1>1, <1>4 DEF VisitLeaves, TagsQuiet, TagsStay, Registered, admin, PreparesStay
  <2>2. ASSUME NEW r \in Request, NEW q, Goes(r, q), q.pc = "issue" => q.tap.test
        PROVE  RequestsQuiet
    BY <2>2, OthersStay DEF RequestsQuiet, Opening
  <2>3. ASSUME UNCHANGED requests PROVE RequestsQuiet
    BY <2>3 DEF RequestsQuiet
  <2>4. RequestsQuiet
    <3>1. ASSUME NEW r \in Request, NEW t \in Tag, NEW counter \in Counter, ReadTag(r, t, counter)
          PROVE  RequestsQuiet
      BY <2>2, <3>1 DEF ReadTag
    <3>2. ASSUME NEW r \in Request, NEW x \in Test, ReadTestTag(r, x) PROVE RequestsQuiet
      BY <2>2, <3>2 DEF ReadTestTag, Tap
    <3>3. ASSUME NEW token \in Token, Challenge(token) PROVE RequestsQuiet
      BY <2>3, <3>3 DEF Challenge
    <3>4. ASSUME NEW r \in Request, NEW ceremony \in Token, NEW k \in Passkey,
                 Answer(r, ceremony, k) \/ Attest(r, ceremony, k)
          PROVE  RequestsQuiet
      BY <2>2, <3>4 DEF Answer, Attest
    <3>5. ASSUME NEW i \in Invite, Register(i) PROVE RequestsQuiet
      BY <2>3, <3>5 DEF Register
    <3>6. ASSUME NEW r \in Request, VerifyReading(r) \/ Authenticate(r) PROVE RequestsQuiet
      BY <2>2, <3>6 DEF VerifyReading, Authenticate
    <3>7. ASSUME NEW r \in Request, ConsumeTap(r) PROVE RequestsQuiet
      BY <2>2, <3>7 DEF ConsumeTap, Idle
    <3>8. ASSUME NEW r \in Request, CheckGrant(r) PROVE RequestsQuiet
      <4>1. requests[r] \in Consumers
        BY <3>8 DEF CheckGrant, At, RequestsTyped, RequestTyped
      <4>2. [requests[r] EXCEPT !.pc = "decide"].pc = "decide"
        BY <4>1 DEF Consumers
      <4>. QED
        BY <2>2, <3>8, <4>2 DEF CheckGrant, Idle
    <3>9. ASSUME NEW r \in Request, Decide(r) PROVE RequestsQuiet
      BY <2>2, <3>9 DEF Decide
    <3>10. ASSUME NEW r \in Request, Operate(r) \/ Enrol(r) \/ End(r) PROVE RequestsQuiet
      BY <2>2, <3>10 DEF Operate, Enrol, End, Idle
    <3>11. ASSUME Pass PROVE RequestsQuiet
      BY <2>3, <3>11 DEF Pass, memory
    <3>. QED
      BY <1>4, <3>1, <3>2, <3>3, <3>4, <3>5, <3>6, <3>7, <3>8, <3>9, <3>10, <3>11 DEF Visit
  <2>. QED
    BY <2>1, <2>4, ReadingStays
<1>. QED
  BY <1>2, <1>3, <1>4

\* The readings are accounted for.
LEMMA ReadingAlways == Spec => []ReadingInv
<1>1. Init => ReadingInv
  BY ReadingInit
<1>2. Typed /\ ReadingInv /\ [Next]_vars => ReadingInv'
  <2>. SUFFICES ASSUME Typed, ReadingInv, [Next]_vars PROVE ReadingInv'
    OBVIOUS
  <2>1. CASE Visit /\ UNCHANGED admin
    BY <2>1, VisitKeepsReadings
  <2>2. CASE Administer
    BY <2>2, AdminKeepsReadings
  <2>3. CASE UNCHANGED vars
    BY <2>3, ReadingStays DEF vars, access, admin, memory, past, TagsQuiet, TagsStay, PreparesStay,
       Registered, RequestsQuiet
  <2>. QED
    BY <2>1, <2>2, <2>3 DEF Next
<1>. QED
  BY <1>1, <1>2, TypedAlways, PTL DEF Spec

(***************************************************************************)
(* A token that was consumed is in no store, and belongs to one request or *)
(* to one command.                                                         *)
(***************************************************************************)
Bearing(r) == requests[r].pc \in {"grant", "decide", "decided"}
Spent(token) == token \in 1..issued /\ \A i \in taps : i.token # token

TokenInv ==
  /\ \A r \in Request : Bearing(r) => Spent(requests[r].token)
  /\ \A r, q \in Request :
       Bearing(r) /\ Bearing(q) /\ requests[r].token = requests[q].token => r = q
  /\ \A c \in commands : Spent(c.token)
  /\ \A c \in commands, r \in Request : Bearing(r) => requests[r].token # c.token
  /\ \A c, d \in commands : c.token = d.token => c = d

\* No token comes back to the store of taps, and no request obtains one.
TapsQuiet ==
  /\ issued' \in Nat /\ issued <= issued'
  /\ \A i \in taps' : i.token > issued \/ \E j \in taps : j.token = i.token

BearersQuiet ==
  \A r \in Request : Bearing(r)' => Bearing(r) /\ requests'[r].token = requests[r].token

\* A token that is spent stays spent.
LEMMA SpentStays ==
  ASSUME StoresTyped, TapsQuiet, NEW token, Spent(token)
  PROVE  Spent(token)'
<1>1. token \in 1..issued'
  BY DEF StoresTyped, TapsQuiet, Spent
<1>2. \A i \in taps' : i.token # token
  BY DEF StoresTyped, TapsQuiet, Spent
<1>. QED
  BY <1>1, <1>2 DEF Spent

\* A step in which no request obtains a token keeps the account of them.
LEMMA TokensStay ==
  ASSUME StoresTyped, TokenInv, TapsQuiet, BearersQuiet, UNCHANGED commands
  PROVE  TokenInv'
<1>1. ASSUME NEW r \in Request, Bearing(r)' PROVE Spent(requests[r].token)'
  <2>1. PICK token : token = requests[r].token
    OBVIOUS
  <2>2. Spent(token)' /\ requests'[r].token = token
    BY <1>1, <2>1, SpentStays DEF TokenInv, BearersQuiet
  <2>. QED
    BY <2>2 DEF Spent
<1>2. \A c \in commands' : Spent(c.token)'
  BY SpentStays DEF TokenInv
<1>. QED
  BY <1>1, <1>2 DEF TokenInv, BearersQuiet

\* What a step of a visitor does to the tokens of taps.
LEMMA VisitTokensQuiet ==
  ASSUME Typed, Visit
  PROVE  TapsQuiet /\ (BearersQuiet \/ \E r \in Request : ConsumeTap(r))
<1>. RequestsTyped /\ StoresTyped
  BY DEF Typed
<1> DEFINE P == TapsQuiet /\ BearersQuiet
<1>0. ASSUME UNCHANGED issued, taps' \subseteq taps PROVE TapsQuiet
  BY <1>0 DEF TapsQuiet, StoresTyped
<1>20. ASSUME NEW r \in Request, NEW q, Goes(r, q), q.pc \notin {"grant", "decide", "decided"}
      PROVE  BearersQuiet
  BY <1>20, OthersStay DEF BearersQuiet, Bearing
<1>21. ASSUME NEW r \in Request, NEW q, Goes(r, q), Bearing(r), q.token = requests[r].token
      PROVE  BearersQuiet
  BY <1>21, OthersStay DEF BearersQuiet, Bearing
<1>22. ASSUME UNCHANGED requests PROVE BearersQuiet
  BY <1>22 DEF BearersQuiet, Bearing
<1>1. ASSUME NEW r \in Request, NEW t \in Tag, NEW counter \in Counter, ReadTag(r, t, counter)
      PROVE  P
  BY <1>0, <1>20, <1>1 DEF ReadTag
<1>2. ASSUME NEW r \in Request, NEW x \in Test, ReadTestTag(r, x) PROVE P
  BY <1>0, <1>20, <1>2 DEF ReadTestTag
<1>3. ASSUME NEW token \in Token, Challenge(token) PROVE P
  <2>1. issued' = issued + 1 /\ taps' \subseteq taps /\ UNCHANGED requests
    BY <1>3 DEF Challenge, Unexpired
  <2>. QED
    BY <1>22, <2>1 DEF TapsQuiet, StoresTyped
<1>4. ASSUME NEW r \in Request, NEW ceremony \in Token, NEW k \in Passkey,
             Answer(r, ceremony, k) \/ Attest(r, ceremony, k)
      PROVE  P
  BY <1>0, <1>20, <1>4 DEF Answer, Attest
<1>5. ASSUME NEW i \in Invite, Register(i) PROVE P
  <2>1. issued' = issued + 1 /\ UNCHANGED <<taps, requests>>
    BY <1>5 DEF Register
  <2>. QED
    BY <1>22, <2>1 DEF TapsQuiet, StoresTyped
<1>6. ASSUME NEW r \in Request, VerifyReading(r) \/ Authenticate(r) \/ Enrol(r) \/ End(r) PROVE P
  BY <1>0, <1>20, <1>6 DEF VerifyReading, Authenticate, Enrol, End, Idle
<1>7. ASSUME NEW r \in Request, ClaimReading(r) PROVE P
  <2>1. \E q : Goes(r, q) /\ q.pc \in {"issue", "idle"}
    BY <1>7 DEF ClaimReading, Idle
  <2>. QED
    BY <1>0, <1>20, <1>7, <2>1 DEF ClaimReading
<1>8. ASSUME NEW r \in Request, IssueTap(r) PROVE P
  <2>1. \A i \in taps' : i \in taps \/ i.token = issued + 1
    BY <1>8, IssuedItems DEF IssueTap
  <2>2. TapsQuiet
    BY <1>8, <2>1 DEF IssueTap, TapsQuiet, StoresTyped
  <2>. QED
    BY <1>20, <1>8, <2>2 DEF IssueTap, Idle
<1>9. ASSUME NEW r \in Request, ConsumeTap(r) PROVE TapsQuiet
  <2>1. taps' \subseteq taps
    BY <1>9, ConsumedItems DEF ConsumeTap
  <2>. QED
    BY <1>0, <1>9, <2>1 DEF ConsumeTap
<1>10. ASSUME NEW r \in Request, CheckGrant(r) PROVE P
  <2>1. requests[r] \in Consumers /\ Bearing(r)
    BY <1>10 DEF CheckGrant, At, RequestsTyped, RequestTyped, Bearing
  <2>2. [requests[r] EXCEPT !.pc = "decide"].token = requests[r].token
    BY <2>1 DEF Consumers
  <2>. QED
    BY <1>0, <1>20, <1>21, <1>10, <2>1, <2>2 DEF CheckGrant, Idle
<1>11. ASSUME NEW r \in Request, Decide(r) PROVE P
  <2>1. Bearing(r)
    BY <1>11 DEF Decide, At, Bearing
  <2>2. PICK q : Goes(r, q) /\ q.token = requests[r].token
    BY <1>11 DEF Decide
  <2>. QED
    BY <1>0, <1>21, <1>11, <2>1, <2>2 DEF Decide
<1>12. ASSUME NEW r \in Request, Operate(r) PROVE P
  BY <1>0, <1>20, <1>12 DEF Operate, Idle
<1>13. ASSUME Pass PROVE P
  BY <1>0, <1>22, <1>13 DEF Pass, memory
<1>. QED
  BY <1>1, <1>2, <1>3, <1>4, <1>5, <1>6, <1>7, <1>8, <1>9, <1>10, <1>11, <1>12, <1>13 DEF Visit

\* A request that consumes a token has it alone.
LEMMA ConsumeKeepsTokens ==
  ASSUME Typed, TokenInv, TapsQuiet, NEW r \in Request, ConsumeTap(r)
  PROVE  TokenInv'
<1>. RequestsTyped /\ StoresTyped
  BY DEF Typed
<1>1. UNCHANGED <<commands, issued>>
  BY DEF ConsumeTap, past
<1>2. CASE ~Holds(taps, requests[r].token, now)
  <2>1. BearersQuiet
    BY <1>2, OthersStay DEF ConsumeTap, BearersQuiet, Bearing, Idle
  <2>. QED
    BY <1>1, <2>1, TokensStay
<1>3. CASE Holds(taps, requests[r].token, now)
  <2>1. PICK token : token = requests[r].token
    OBVIOUS
  <2>2. token \in 1..issued /\ ~Spent(token)
    BY <1>3, <2>1, HeldValue DEF StoresTyped, Spent
  <2>3. Spent(token)'
    BY <1>1, <2>1, <2>2, ConsumedItems DEF ConsumeTap, Spent
  <2>4. requests'[r].token = token /\ \A q \in Request \ {r} : requests'[q] = requests[q]
    BY <1>3, <2>1, OthersStay DEF ConsumeTap
  <2>5. \A q \in Request \ {r} : Bearing(q)' => Bearing(q) /\ requests[q].token # token
    BY <2>2, <2>4 DEF TokenInv, Bearing
  <2>6. ASSUME NEW q \in Request, Bearing(q)' PROVE Spent(requests[q].token)'
    <3>1. PICK n : n = requests'[q].token
      OBVIOUS
    <3>2. Spent(n)'
      BY <2>3, <2>4, <2>5, <2>6, <3>1, SpentStays DEF TokenInv
    <3>. QED
      BY <3>1, <3>2 DEF Spent
  <2>7. \A c \in commands' : Spent(c.token)' /\ c.token # token
    BY <1>1, <2>2, SpentStays DEF TokenInv
  <2>8. \A q, s \in Request :
          Bearing(q)' /\ Bearing(s)' /\ requests'[q].token = requests'[s].token => q = s
    BY <2>4, <2>5 DEF TokenInv
  <2>9. \A c \in commands', q \in Request : Bearing(q)' => requests'[q].token # c.token
    BY <1>1, <2>4, <2>5, <2>7 DEF TokenInv
  <2>. QED
    BY <1>1, <2>6, <2>7, <2>8, <2>9 DEF TokenInv
<1>. QED
  BY <1>2, <1>3

\* A request that moves a door leaves its token to the command.
LEMMA OperateKeepsTokens ==
  ASSUME Typed, TokenInv, TapsQuiet, NEW r \in Request, Operate(r)
  PROVE  TokenInv'
<1>. RequestsTyped /\ StoresTyped
  BY DEF Typed
<1>1. PICK c : /\ c.token = requests[r].token
               /\ commands' = commands \cup {c}
  <2>1. PICK c : c = [token |-> requests[r].token, person |-> requests[r].person,
                      passkey |-> requests[r].passkey, gone |-> requests[r].gone,
                      nth |-> Cardinality(commands)]
    OBVIOUS
  <2>. QED
    BY <2>1 DEF Operate
<1>2. Bearing(r) /\ requests'[r].pc = "idle" /\ \A q \in Request \ {r} : requests'[q] = requests[q]
  BY OthersStay DEF Operate, At, Bearing, Idle
<1>3. \A q \in Request : Bearing(q)' => q # r /\ Bearing(q) /\ requests'[q] = requests[q]
  BY <1>2 DEF Bearing
<1>4. ASSUME NEW q \in Request, Bearing(q)' PROVE Spent(requests[q].token)'
  <2>1. PICK n : n = requests'[q].token
    OBVIOUS
  <2>2. Spent(n)'
    BY <1>3, <1>4, <2>1, SpentStays DEF TokenInv
  <2>. QED
    BY <2>1, <2>2 DEF Spent
<1>5. Spent(c.token) /\ \A d \in commands : d.token # c.token
  BY <1>1, <1>2 DEF TokenInv
<1>6. \A d \in commands' : Spent(d.token)'
  BY <1>1, <1>5, SpentStays DEF TokenInv
<1>7. \A q \in Request : Bearing(q)' => requests'[q].token # c.token
  BY <1>1, <1>2, <1>3 DEF TokenInv
<1>8. \A d \in commands', q \in Request : Bearing(q)' => requests'[q].token # d.token
  BY <1>1, <1>3, <1>7 DEF TokenInv
<1>9. \A q, s \in Request :
        Bearing(q)' /\ Bearing(s)' /\ requests'[q].token = requests'[s].token => q = s
  BY <1>3 DEF TokenInv
<1>10. \A d, e \in commands' : d.token = e.token => d = e
  BY <1>1, <1>5 DEF TokenInv
<1>. QED
  BY <1>4, <1>6, <1>8, <1>9, <1>10 DEF TokenInv

\* The tokens are accounted for.
LEMMA TokenAlways == Spec => []TokenInv
<1>1. Init => TokenInv
  BY DEF Init, TokenInv, Bearing, Idle
<1>2. Typed /\ TokenInv /\ [Next]_vars => TokenInv'
  <2>. SUFFICES ASSUME Typed, TokenInv, [Next]_vars PROVE TokenInv'
    OBVIOUS
  <2>. StoresTyped
    BY DEF Typed
  <2>1. CASE Visit /\ UNCHANGED admin
    <3>1. TapsQuiet /\ (BearersQuiet \/ \E r \in Request : ConsumeTap(r))
      BY <2>1, VisitTokensQuiet
    <3>2. UNCHANGED commands \/ \E r \in Request : Operate(r)
      BY <2>1, VisitLeavesMost DEF VisitLeaves
    <3>. QED
      BY <3>1, <3>2, TokensStay, ConsumeKeepsTokens, OperateKeepsTokens
  <2>2. CASE Administer
    <3>1. AdminLeaves
      BY <2>2, AdminLeavesMost
    <3>2. CASE Restart
      <4>1. TapsQuiet /\ BearersQuiet
        BY <3>2 DEF Restart, TapsQuiet, BearersQuiet, Bearing, Idle, StoresTyped
      <4>. QED
        BY <3>1, <4>1, TokensStay DEF AdminLeaves
    <3>3. CASE UNCHANGED memory
      <4>1. TapsQuiet /\ BearersQuiet
        BY <3>3 DEF memory, TapsQuiet, BearersQuiet, Bearing, StoresTyped
      <4>. QED
        BY <3>1, <4>1, TokensStay DEF AdminLeaves
    <3>. QED
      BY <3>1, <3>2, <3>3 DEF AdminLeaves
  <2>3. CASE UNCHANGED vars
    <3>1. TapsQuiet /\ BearersQuiet /\ UNCHANGED commands
      BY <2>3 DEF vars, access, memory, past, TapsQuiet, BearersQuiet, Bearing, StoresTyped
    <3>. QED
      BY <3>1, TokensStay
  <2>. QED
    BY <2>1, <2>2, <2>3 DEF Next
<1>. QED
  BY <1>1, <1>2, TypedAlways, PTL DEF Spec

(***************************************************************************)
(* An invitation that enrolled a passkey is used, and what was revoked     *)
(* with its person does not come back.                                     *)
(***************************************************************************)
Inviting(i) == \E a \in Admin : jobs[a].pc = "invite" /\ jobs[a].invite = i
Written(i) == i \in drawn /\ ~Inviting(i)
Disabled(k) == data.passkeys[k] # None /\ ~data.passkeys[k].enabled

InvitesDrawn ==
  /\ \A i \in Invite : data.invites[i] # None => Written(i)
  /\ \A a \in Admin : jobs[a].pc = "invite" => jobs[a].invite \in drawn
  /\ \A a, b \in Admin : jobs[a].pc = "invite" /\ jobs[b].pc = "invite"
                         /\ jobs[a].invite = jobs[b].invite => a = b

\* What is known of a passkey and the invitation that enrolled it.
UsedFor(i, k) ==
  /\ Written(i) /\ data.passkeys[k] # None
  /\ data.invites[i] # None =>
       data.invites[i].used /\ data.invites[i].person = data.passkeys[k].person

Withdrawn(i) == Written(i) /\ data.invites[i] = None

EnrolledOnce ==
  \A k, l \in Passkey : enrolled[k] # None /\ enrolled[k] = enrolled[l] => k = l

EnrolInv ==
  /\ InvitesDrawn
  /\ EnrolledOnce
  /\ \A k \in Passkey, i \in Invite : enrolled[k] = i => UsedFor(i, k)
  /\ \A k \in Passkey : k \in voided \/ enrolled[k] \in voided => Disabled(k)
  /\ \A i \in Invite : i \in voided => Withdrawn(i)

\* At first no passkey is enrolled and none is revoked.
LEMMA EnrolInit ==
  ASSUME Init
  PROVE  EnrolInv
<1>1. PICK i \in Installations : data = i.data
                                 /\ {v \in Invite : i.data.invites[v] # None} \subseteq drawn
  BY DEF Init
<1>2. /\ \A a \in Admin : jobs[a].pc = "free"
      /\ enrolled = [k \in Passkey |-> None] /\ voided = {}
  BY DEF Init, Free
<1>. QED
  BY <1>1, <1>2, Assumptions DEF EnrolInv, InvitesDrawn, Written, Inviting, EnrolledOnce

\* Invitations that are drawn stay so, those that are written stay so.
LEMMA InvitingStays ==
  ASSUME InvitesStay, drawn \subseteq drawn', NEW i, Written(i)
  PROVE  Written(i)'
  BY DEF InvitesStay, Written, Inviting

\* The identifiers of invitations that are written stay drawn.
LEMMA InvitesDrawnStay ==
  ASSUME InvitesDrawn, InvitesStay, drawn \subseteq drawn',
         \A i \in Invite : data'.invites[i] # None => data.invites[i] # None
  PROVE  InvitesDrawn'
<1>1. \A i \in Invite : data'.invites[i] # None => Written(i)'
  BY InvitingStays DEF InvitesDrawn
<1>. QED
  BY <1>1 DEF InvitesDrawn, InvitesStay

\* A step that changes no passkey and no invitation.
OwnersQuiet == OwnersStay /\ UNCHANGED <<enrolled, voided>> /\ drawn \subseteq drawn'

\* Passkeys and invitations that stay keep the account of them.
LEMMA OwnersKept ==
  ASSUME EnrolInv, OwnersQuiet, InvitesDrawn',
         \A i \in Invite : Written(i) => Written(i)'
  PROVE  EnrolInv'
  BY DEF EnrolInv, OwnersQuiet, OwnersStay, EnrolledOnce, UsedFor, Withdrawn, Disabled

\* A step that writes no passkey and no invitation keeps it too.
LEMMA EnrolStays ==
  ASSUME EnrolInv, OwnersQuiet, InvitesStay
  PROVE  EnrolInv'
  BY OwnersKept, InvitesDrawnStay, InvitingStays DEF EnrolInv, OwnersQuiet, OwnersStay

\* An invitation is drawn before it is written.
LEMMA CheckInviteKeeps ==
  ASSUME Typed, EnrolInv, OwnersQuiet, NEW a \in Admin, NEW p \in Person, NEW i \in Invite,
         CheckInvite(a, p, i)
  PROVE  EnrolInv'
<1>. JobsTyped
  BY DEF Typed
<1>1. i \notin drawn /\ drawn' = drawn \cup {i} /\ data'.invites = data.invites
      /\ jobs'[a].pc = "invite" /\ jobs'[a].invite = i /\ \A b \in Admin \ {a} : jobs'[b] = jobs[b]
  BY OtherJobsStay DEF CheckInvite
<1>2. \A j : Inviting(j)' => j = i \/ Inviting(j)
  BY <1>1 DEF Inviting
<1>3. \A j : Written(j) => Written(j)'
  BY <1>1, <1>2 DEF Written
<1>4. InvitesDrawn'
  <2>1. \A b \in Admin \ {a} : jobs'[b].pc = "invite" => jobs'[b].invite \in drawn
    BY <1>1 DEF EnrolInv, InvitesDrawn
  <2>2. \A b \in Admin \ {a} : jobs'[b].pc = "invite" => jobs'[b].invite # i
    BY <1>1, <2>1
  <2>3. \A b, c \in Admin : jobs'[b].pc = "invite" /\ jobs'[c].pc = "invite"
                            /\ jobs'[b].invite = jobs'[c].invite => b = c
    BY <1>1, <2>2 DEF EnrolInv, InvitesDrawn
  <2>4. \A b \in Admin : jobs'[b].pc = "invite" => jobs'[b].invite \in drawn'
    BY <1>1, <2>1
  <2>5. \A j \in Invite : data'.invites[j] # None => Written(j)'
    BY <1>1, <1>3 DEF EnrolInv, InvitesDrawn
  <2>. QED
    BY <2>3, <2>4, <2>5 DEF InvitesDrawn
<1>. QED
  BY <1>3, <1>4, OwnersKept

\* An invitation that is written was neither used nor revoked before.
LEMMA WriteInviteKeeps ==
  ASSUME Typed, EnrolInv, NEW a \in Admin, WriteInvite(a)
  PROVE  EnrolInv'
<1>. JobsTyped /\ FileTyped
  BY DEF Typed
<1>1. PICK i : i = jobs[a].invite
  OBVIOUS
<1>2. jobs[a].pc = "invite" /\ i \in Invite /\ jobs[a].person \in Person /\ now + InviteTtl \in Int
  BY <1>1, Assumptions DEF WriteInvite, Runs, JobsTyped, JobTyped, FileTyped
<1>3. /\ data'.passkeys = data.passkeys
      /\ \A j \in Invite \ {i} : data'.invites[j] = data.invites[j]
  <2>1. PICK expires \in Int : data' = CreateInvite(data, i, jobs[a].person, expires)
    BY <1>1, <1>2 DEF WriteInvite
  <2>2. data \in Repository
    BY DEF FileTyped
  <2>. QED
    BY <1>2, <2>1, <2>2 DEF CreateInvite, Repository
<1>4. UNCHANGED <<drawn, enrolled, voided>>
  BY DEF WriteInvite, past
<1>5. jobs'[a].pc = "free" /\ \A b \in Admin \ {a} : jobs'[b] = jobs[b]
  BY OtherJobsStay DEF WriteInvite, Free
<1>6. Inviting(i) /\ i \in drawn
  BY <1>1, <1>2 DEF Inviting, EnrolInv, InvitesDrawn
<1>7. \A j : Inviting(j)' => j # i /\ Inviting(j)
  BY <1>1, <1>2, <1>5 DEF Inviting, EnrolInv, InvitesDrawn
<1>8. Written(i)' /\ \A j : Written(j) => j # i /\ Written(j)'
  BY <1>4, <1>6, <1>7 DEF Written
<1>9. InvitesDrawn'
  <2>1. \A j \in Invite : data'.invites[j] # None => Written(j)'
    BY <1>3, <1>8 DEF EnrolInv, InvitesDrawn
  <2>2. \A b \in Admin : jobs'[b].pc = "invite" => b # a /\ jobs'[b] = jobs[b]
    BY <1>5
  <2>. QED
    BY <1>4, <2>1, <2>2 DEF EnrolInv, InvitesDrawn
<1>10. ASSUME NEW k \in Passkey, NEW j \in Invite, enrolled'[k] = j PROVE UsedFor(j, k)'
  <2>1. UsedFor(j, k)
    BY <1>4, <1>10 DEF EnrolInv
  <2>. QED
    BY <1>3, <1>8, <2>1 DEF UsedFor
<1>11. \A j \in Invite : j \in voided' => Withdrawn(j)'
  BY <1>3, <1>4, <1>8 DEF EnrolInv, Withdrawn
<1>12. \A k \in Passkey : k \in voided' \/ enrolled'[k] \in voided' => Disabled(k)'
  BY <1>3, <1>4 DEF EnrolInv, Disabled
<1>13. EnrolledOnce'
  BY <1>4 DEF EnrolInv, EnrolledOnce
<1>. QED
  BY <1>9, <1>10, <1>11, <1>12, <1>13 DEF EnrolInv

\* What a person has is disabled and withdrawn when it is revoked, the
\* passkeys that the person's invitations enrolled too.
LEMMA RevokeKeeps ==
  ASSUME Typed, EnrolInv, InvitesStay, NEW a \in Admin, NEW p \in Person,
         RevokeEnrolment(a, p) \/ RemovePerson(a, p)
  PROVE  EnrolInv'
<1>. FileTyped
  BY DEF Typed
<1>1. UNCHANGED <<drawn, enrolled>> /\ Void(p) /\ data' = DisableCredentials(data, p)
  BY DEF RevokeEnrolment, RemovePerson, admin
<1>2. \A k \in Passkey :
        /\ data.passkeys[k] = None => data'.passkeys[k] = None
        /\ data.passkeys[k] # None =>
             /\ data'.passkeys[k] # None
             /\ data'.passkeys[k].person = data.passkeys[k].person
             /\ data'.passkeys[k].enabled = (data.passkeys[k].enabled /\ data.passkeys[k].person # p)
  BY <1>1, DisableCredentialsIs DEF FileTyped
<1>3. \A i \in Invite :
        /\ data.invites[i] # None /\ data.invites[i].person # p => data'.invites[i] = data.invites[i]
        /\ data.invites[i] = None \/ data.invites[i].person = p => data'.invites[i] = None
  BY <1>1, DisableCredentialsIs DEF FileTyped
<1>4. \A i : Written(i) => Written(i)'
  BY <1>1, InvitingStays
<1>5. InvitesDrawn'
  BY <1>1, <1>3, InvitesDrawnStay DEF EnrolInv
<1>6. ASSUME NEW k \in Passkey, NEW i \in Invite, enrolled'[k] = i PROVE UsedFor(i, k)'
  <2>1. UsedFor(i, k)
    BY <1>1, <1>6 DEF EnrolInv
  <2>2. Written(i)' /\ data'.passkeys[k] # None
    BY <1>2, <1>4, <2>1 DEF UsedFor
  <2>3. data'.invites[i] # None =>
          data'.invites[i] = data.invites[i] /\ data'.passkeys[k].person = data.passkeys[k].person
    BY <1>2, <1>3, <2>1 DEF UsedFor
  <2>. QED
    BY <2>1, <2>2, <2>3 DEF UsedFor
<1>7. \A k \in Passkey : Disabled(k) => Disabled(k)'
  BY <1>2 DEF Disabled
<1>8. \A k \in Passkey : data.passkeys[k] # None /\ data.passkeys[k].person = p => Disabled(k)'
  BY <1>2 DEF Disabled
<1>9. ASSUME NEW k \in Passkey, k \in voided' \/ enrolled'[k] \in voided' PROVE Disabled(k)'
  <2>1. CASE k \in voided \/ enrolled[k] \in voided
    BY <1>7, <2>1 DEF EnrolInv
  <2>2. CASE k \in voided' \ voided
    <3>1. data.passkeys[k] # None /\ data.passkeys[k].person = p
      BY <1>1, <2>2, Assumptions DEF Void
    <3>. QED
      BY <1>8, <3>1
  <2>3. CASE enrolled[k] \in voided' \ voided
    <3>1. PICK i : i = enrolled[k]
      OBVIOUS
    <3>2. i \in Invite /\ data.invites[i] # None /\ data.invites[i].person = p
      BY <1>1, <2>3, <3>1, Assumptions DEF Void, FileTyped
    <3>3. data.passkeys[k] # None /\ data.passkeys[k].person = p
      BY <3>1, <3>2 DEF EnrolInv, UsedFor
    <3>. QED
      BY <1>8, <3>3
  <2>. QED
    BY <1>1, <1>9, <2>1, <2>2, <2>3
<1>10. ASSUME NEW i \in Invite, i \in voided' PROVE Withdrawn(i)'
  <2>1. CASE i \in voided
    BY <1>3, <1>4, <2>1 DEF EnrolInv, Withdrawn
  <2>2. CASE i \notin voided
    <3>1. data.invites[i] # None /\ data.invites[i].person = p
      BY <1>1, <1>10, <2>2, Assumptions DEF Void
    <3>. QED
      BY <1>3, <1>4, <3>1 DEF EnrolInv, InvitesDrawn, Withdrawn
  <2>. QED
    BY <2>1, <2>2
<1>11. EnrolledOnce'
  BY <1>1 DEF EnrolInv, EnrolledOnce
<1>. QED
  BY <1>5, <1>6, <1>9, <1>10, <1>11 DEF EnrolInv

\* A passkey is new, and its invitation was not used before.
LEMMA EnrolKeeps ==
  ASSUME Typed, EnrolInv, UNCHANGED admin, NEW r \in Request, Enrol(r)
  PROVE  EnrolInv'
<1>. FileTyped /\ RequestsTyped
  BY DEF Typed
<1>1. PICK i, k, person : i = requests[r].session.invite /\ k = requests[r].passkey
                          /\ person = requests[r].session.person
  OBVIOUS
<1>2. i \in Invite /\ k \in Passkey /\ person \in Person
  BY <1>1 DEF Enrol, At, RequestsTyped, RequestTyped, Sessions
<1>3. /\ data.invites[i] # None /\ ~data.invites[i].used /\ data.invites[i].person = person
      /\ data.passkeys[k] = None
      /\ data' = CompleteEnrollment(data, i, person, k)
      /\ enrolled' = [enrolled EXCEPT ![k] = i]
      /\ UNCHANGED <<voided, jobs, drawn>>
  BY <1>1 DEF Enrol, MayEnroll, InviteActive, admin
<1>4. /\ data'.passkeys = [data.passkeys EXCEPT ![k] = [person |-> person, enabled |-> TRUE]]
      /\ \A j \in Invite \ {i} : data'.invites[j] = data.invites[j]
      /\ data'.invites[i] \in Invites /\ data'.invites[i].used
      /\ data'.invites[i].person = data.invites[i].person
  <2>1. PICK e : e = CompleteEnrollment(data, i, person, k) /\ e = data'
    BY <1>3
  <2>2. data \in Repository
    BY DEF FileTyped
  <2>3. PICK d : d = data
    OBVIOUS
  <2>4. d \in Repository /\ d.invites[i] # None /\ e = CompleteEnrollment(d, i, person, k)
    BY <1>3, <2>1, <2>2, <2>3
  <2>5. e.passkeys = [d.passkeys EXCEPT ![k] = [person |-> person, enabled |-> TRUE]]
    BY <1>2, <2>4, CompleteEnrollmentIs
  <2>6. \A j \in Invite \ {i} : e.invites[j] = d.invites[j]
    BY <1>2, <2>4 DEF CompleteEnrollment, Repository
  <2>7. e.invites[i] \in Invites /\ e.invites[i].used /\ e.invites[i].person = d.invites[i].person
    <3>1. PICK invite : invite = [d.invites[i] EXCEPT !.used = TRUE]
      OBVIOUS
    <3>2. d.invites[i] \in Invites
      BY <1>2, <2>4, Parts
    <3>3. invite \in Invites /\ invite.used /\ invite.person = d.invites[i].person
      BY <3>1, <3>2 DEF Invites
    <3>4. e.invites[i] = invite
      BY <1>2, <2>4, <3>1 DEF CompleteEnrollment, Repository
    <3>. QED
      BY <3>3, <3>4
  <2>. QED
    BY <2>1, <2>3, <2>5, <2>6, <2>7
<1>5. /\ data'.passkeys[k] = [person |-> person, enabled |-> TRUE]
      /\ \A l \in Passkey \ {k} : data'.passkeys[l] = data.passkeys[l]
  BY <1>2, <1>4 DEF FileTyped, Repository
<1>6. data'.passkeys[k].person = person /\ data'.passkeys[k] # None
  <2>1. data'.passkeys[k] \in Passkeys
    BY <1>2, <1>5 DEF Passkeys
  <2>2. data'.passkeys[k] # None
    BY <2>1, Assumptions
  <2>. QED
    BY <1>5, <2>2
<1>7. enrolled'[k] = i /\ \A l \in Passkey \ {k} : enrolled'[l] = enrolled[l]
  BY <1>2, <1>3 DEF FileTyped
<1>8. \A j : Written(j)' <=> Written(j)
  BY <1>3 DEF Written, Inviting
<1>9. \A l \in Passkey : enrolled[l] # i
  BY <1>2, <1>3 DEF EnrolInv, UsedFor
<1>10. k \notin voided /\ i \notin voided
  BY <1>2, <1>3 DEF EnrolInv, Disabled, Withdrawn
<1>11. InvitesDrawn'
  <2>1. \A j \in Invite : data'.invites[j] # None => data.invites[j] # None
    BY <1>3, <1>4
  <2>2. InvitesStay /\ drawn \subseteq drawn'
    BY <1>3 DEF InvitesStay
  <2>. QED
    BY <2>1, <2>2, InvitesDrawnStay DEF EnrolInv
<1>12. EnrolledOnce'
  BY <1>7, <1>9 DEF EnrolInv, EnrolledOnce
<1>13. ASSUME NEW l \in Passkey, NEW j \in Invite, enrolled'[l] = j PROVE UsedFor(j, l)'
  <2>1. CASE l = k
    <3>1. j = i
      BY <1>7, <1>13, <2>1
    <3>2. Written(i)
      BY <1>2, <1>3 DEF EnrolInv, InvitesDrawn
    <3>. QED
      BY <1>3, <1>4, <1>6, <1>8, <2>1, <3>1, <3>2 DEF UsedFor
  <2>2. CASE l # k
    <3>1. j # i /\ UsedFor(j, l)
      BY <1>7, <1>9, <1>13, <2>2 DEF EnrolInv
    <3>. QED
      BY <1>4, <1>5, <1>8, <2>2, <3>1 DEF UsedFor
  <2>. QED
    BY <2>1, <2>2
<1>14. \A l \in Passkey : l \in voided' \/ enrolled'[l] \in voided' => Disabled(l)'
  BY <1>3, <1>5, <1>7, <1>10 DEF EnrolInv, Disabled
<1>15. \A j \in Invite : j \in voided' => Withdrawn(j)'
  BY <1>3, <1>4, <1>8, <1>10 DEF EnrolInv, Withdrawn
<1>. QED
  BY <1>11, <1>12, <1>13, <1>14, <1>15 DEF EnrolInv

\* The enrolments are accounted for.
LEMMA EnrolAlways == Spec => []EnrolInv
<1>1. Init => EnrolInv
  BY EnrolInit
<1>2. Typed /\ EnrolInv /\ [Next]_vars => EnrolInv'
  <2>. SUFFICES ASSUME Typed, EnrolInv, [Next]_vars PROVE EnrolInv'
    OBVIOUS
  <2>1. CASE Visit /\ UNCHANGED admin
    <3>1. VisitLeaves
      BY <2>1, VisitLeavesMost
    <3>2. CASE \E r \in Request : Enrol(r)
      BY <2>1, <3>2, EnrolKeeps
    <3>3. CASE ~\E r \in Request : Enrol(r)
      BY <2>1, <3>1, <3>3, EnrolStays DEF VisitLeaves, OwnersQuiet, admin, InvitesStay
    <3>. QED
      BY <3>2, <3>3
  <2>2. CASE Administer
    <3>1. AdminLeaves /\ AdminWrites
      BY <2>2, AdminLeavesMost, AdminWritesParts
    <3>2. InvitesStay \/ \E a \in Admin, p \in Person, i \in Invite : CheckInvite(a, p, i)
      BY <2>2, AdminJobs
    <3>3. ASSUME NEW a \in Admin, NEW p \in Person, NEW i \in Invite, CheckInvite(a, p, i)
          PROVE  EnrolInv'
      <4>1. OwnersQuiet
        BY <3>3 DEF CheckInvite, OwnersQuiet, OwnersStay, past
      <4>. QED
        BY <3>3, <4>1, CheckInviteKeeps
    <3>4. ASSUME NEW a \in Admin, OwnersWritten(a), InvitesStay PROVE EnrolInv'
      BY <3>4, WriteInviteKeeps, RevokeKeeps DEF OwnersWritten
    <3>5. ASSUME ~\E a \in Admin : OwnersWritten(a), InvitesStay PROVE EnrolInv'
      BY <3>1, <3>5, EnrolStays DEF AdminLeaves, AdminWrites, OwnersQuiet
    <3>. QED
      BY <3>2, <3>3, <3>4, <3>5
  <2>3. CASE UNCHANGED vars
    BY <2>3, EnrolStays DEF vars, access, admin, past, OwnersQuiet, OwnersStay, InvitesStay
  <2>. QED
    BY <2>1, <2>2, <2>3 DEF Next
<1>. QED
  BY <1>1, <1>2, TypedAlways, PTL DEF Spec

(***************************************************************************)
(* SpentOnce: a reading opens one session until the tag is written anew, a *)
(* session gives one command, and an invitation enrols one passkey.        *)
(***************************************************************************)
THEOREM SpentOnceAlways == Spec => []SpentOnce
<1>1. ReadingInv /\ TokenInv /\ EnrolInv => SpentOnce
  BY DEF ReadingInv, ClaimedOnce, OpenedOnce, TokenInv, EnrolInv, EnrolledOnce, SpentOnce
<1>. QED
  BY <1>1, ReadingAlways, TokenAlways, EnrolAlways, PTL

(***************************************************************************)
(* A session whose person, door or test tag was gone when it was consumed  *)
(* moves nothing, although the person, the door and the tag are looked at  *)
(* only later, one after the other.                                        *)
(***************************************************************************)
Checking(x) == \E a \in Admin : jobs[a].pc = "test" /\ jobs[a].test = x
Known(x) == x \in drawn /\ ~Checking(x)

TestsDrawn ==
  /\ \A x \in Test : data.tests[x] # None => Known(x)
  /\ \A a \in Admin : jobs[a].pc = "test" => jobs[a].test \in drawn
  /\ \A a, b \in Admin : jobs[a].pc = "test" /\ jobs[b].pc = "test" /\ jobs[a].test = jobs[b].test
                           => a = b

\* A reading of a test tag is of one that was written.
KnownTap(tap) == tap.test => Known(tap.tag)

\* What is known of a request that is under way.
Barred(q) ==
  /\ q.pc \in {"issue", "grant"} => KnownTap(q.tap)
  /\ q.pc = "grant" /\ q.gone => Gone(q.person, q.tap)
  /\ q.pc = "decide" /\ q.gone => people[q.person] = None \/ ~doors[q.tap.door].managed
  /\ q.pc = "decided" /\ q.gone => q.decision # "allowed"

GoneInv ==
  /\ TestsDrawn
  /\ \A i \in taps : KnownTap(i.value)
  /\ \A r \in Request : Barred(requests[r])
  /\ \A c \in commands : ~c.gone

\* At first nobody is under way.
LEMMA GoneInit ==
  ASSUME Init
  PROVE  GoneInv
<1>1. PICK i \in Installations : data = i.data
                                 /\ {x \in Test : i.data.tests[x] # None} \subseteq drawn
  BY DEF Init
<1>2. /\ \A a \in Admin : jobs[a].pc = "free"
      /\ \A r \in Request : requests[r].pc = "idle"
      /\ taps = {} /\ commands = {}
  BY DEF Init, Free, Idle
<1>. QED
  BY <1>1, <1>2 DEF GoneInv, TestsDrawn, Known, Checking, Barred

\* What is gone stays gone: people, doors, and test tags that were written.
GoneStays ==
  /\ now' \in Int /\ now <= now' /\ PolicyStays
  /\ \A x : Known(x) => Known(x)'
  /\ \A x \in Test : Known(x) /\ data'.tests[x] # None => data'.tests[x] = data.tests[x]

\* A session of which something is gone does not recover it.
LEMMA GoneStaysGone ==
  ASSUME FileTyped, GoneStays, NEW person \in Person, NEW tap \in Taps, KnownTap(tap),
         Gone(person, tap)
  PROVE  Gone(person, tap)'
<1>1. tap.door \in Door /\ tap.test \in BOOLEAN /\ (tap.test => tap.tag \in Test)
  BY DEF Taps, Readings, TestReadings
<1>2. people[person] = None => people'[person] = None
  BY DEF GoneStays, PolicyStays
<1>3. ~doors[tap.door].managed => ~doors'[tap.door].managed
  BY <1>1 DEF GoneStays, PolicyStays
<1>4. ASSUME tap.test, data.tests[tap.tag] = None \/ data.tests[tap.tag].expires <= now
      PROVE  data'.tests[tap.tag] = None \/ data'.tests[tap.tag].expires <= now'
  <2>1. PICK x \in Test : x = tap.tag /\ Known(x)
    BY <1>1, <1>4 DEF KnownTap
  <2>2. data'.tests[x] # None => data'.tests[x] = data.tests[x]
    BY <2>1 DEF GoneStays
  <2>3. CASE data.tests[x] = None
    BY <2>1, <2>2, <2>3
  <2>4. CASE data.tests[x] # None
    <3>1. data.tests[x].expires \in Int /\ data.tests[x].expires <= now /\ now \in Int
      BY <1>4, <2>1, <2>4, Parts, Assumptions DEF FileTyped, TestTags
    <3>2. data.tests[x].expires <= now'
      BY <3>1 DEF GoneStays
    <3>. QED
      BY <2>1, <2>2, <3>2
  <2>. QED
    BY <2>3, <2>4
<1>. QED
  BY <1>2, <1>3, <1>4 DEF Gone

\* What is known of a request holds on while it stays.
LEMMA BarredStays ==
  ASSUME FileTyped, GoneStays, NEW q, RequestTyped(q), Barred(q)
  PROVE  Barred(q)'
<1>1. q.pc \in {"issue", "grant"} => KnownTap(q.tap)'
  BY DEF Barred, KnownTap, GoneStays
<1>2. q.pc = "grant" /\ q.gone => Gone(q.person, q.tap)'
  BY GoneStaysGone DEF Barred, RequestTyped, Consumers
<1>3. ASSUME q.pc = "decide", q.gone PROVE people'[q.person] = None \/ ~doors'[q.tap.door].managed
  <2>1. q.person \in Person /\ q.tap.door \in Door
    BY <1>3 DEF RequestTyped, Consumers, Taps, Readings, TestReadings
  <2>. QED
    BY <1>3, <2>1 DEF Barred, GoneStays, PolicyStays
<1>. QED
  BY <1>1, <1>2, <1>3 DEF Barred

\* A step that brings no tap, and no request further, than those known.
TapsKnown == \A i \in taps' : KnownTap(i.value)'
NoneGoneMoves == \A c \in commands' : ~c.gone
BarsKept == \A r \in Request : requests'[r] = requests[r] \/ \A q : q = requests'[r] => Barred(q)'

\* It holds of all requests if it holds of the one that goes on.
LEMMA GoneKept ==
  ASSUME Typed, GoneInv, GoneStays, TestsDrawn', TapsKnown, NoneGoneMoves, BarsKept
  PROVE  GoneInv'
<1>. FileTyped /\ RequestsTyped
  BY DEF Typed
<1>1. ASSUME NEW r \in Request PROVE Barred(requests[r])'
  <2>1. PICK q : q = requests'[r]
    OBVIOUS
  <2>2. CASE q = requests[r]
    <3>1. Barred(q)'
      BY <2>2, BarredStays DEF GoneInv, RequestsTyped
    <3>. QED
      BY <2>1, <3>1 DEF Barred, KnownTap, Known, Checking, Gone
  <2>3. CASE q # requests[r]
    <3>1. Barred(q)'
      BY <2>1, <2>3 DEF BarsKept
    <3>. QED
      BY <2>1, <3>1 DEF Barred, KnownTap, Known, Checking, Gone
  <2>. QED
    BY <2>2, <2>3
<1>. QED
  BY <1>1 DEF GoneInv, TapsKnown, NoneGoneMoves

\* One request goes on, and is known as far as it has come.
LEMMA GoesBarred ==
  ASSUME RequestsTyped, NEW r \in Request, NEW q, Goes(r, q), Barred(q)'
  PROVE  BarsKept
  BY OthersStay DEF BarsKept

\* Requests that are neither to open a session nor to move a door.
LEMMA FreelyBarred ==
  ASSUME NEW q, q.pc \notin {"issue", "grant", "decide", "decided"}
  PROVE  Barred(q)'
  BY DEF Barred

\* Each request of a visitor goes on as far as it may.
LEMMA VisitKeepsBars ==
  ASSUME Typed, GoneInv, GoneStays, Visit, UNCHANGED <<policy, admin>>
  PROVE  BarsKept
<1>. FileTyped /\ RequestsTyped /\ StoresTyped
  BY DEF Typed
<1>20. ASSUME NEW r \in Request, NEW q, Goes(r, q),
              q.pc \notin {"issue", "grant", "decide", "decided"}
       PROVE  BarsKept
  BY <1>20, FreelyBarred, GoesBarred
<1>21. ASSUME UNCHANGED requests PROVE BarsKept
  BY <1>21 DEF BarsKept
<1>1. ASSUME NEW r \in Request, NEW t \in Tag, NEW counter \in Counter, ReadTag(r, t, counter)
      PROVE  BarsKept
  BY <1>1, <1>20 DEF ReadTag
<1>2. ASSUME NEW r \in Request, NEW x \in Test, ReadTestTag(r, x) PROVE BarsKept
  <2>1. PICK q : /\ Goes(r, q) /\ q.pc = "issue" /\ q.tap.tag = x
    BY <1>2 DEF ReadTestTag, Tap
  <2>2. Known(x)'
    BY <1>2 DEF ReadTestTag, TestTagActive, GoneInv, TestsDrawn, GoneStays
  <2>3. Barred(q)'
    BY <2>1, <2>2 DEF Barred, KnownTap
  <2>. QED
    BY <2>1, <2>3, GoesBarred
<1>3. ASSUME NEW token \in Token, Challenge(token) PROVE BarsKept
  BY <1>3, <1>21 DEF Challenge
<1>4. ASSUME NEW r \in Request, NEW ceremony \in Token, NEW k \in Passkey,
             Answer(r, ceremony, k) \/ Attest(r, ceremony, k)
      PROVE  BarsKept
  BY <1>4, <1>20 DEF Answer, Attest
<1>5. ASSUME NEW i \in Invite, Register(i) PROVE BarsKept
  BY <1>5, <1>21 DEF Register
<1>6. ASSUME NEW r \in Request,
             \/ VerifyReading(r) \/ IssueTap(r) \/ Authenticate(r) \/ Operate(r) \/ Enrol(r)
             \/ End(r)
      PROVE  BarsKept
  BY <1>6, <1>20 DEF VerifyReading, IssueTap, Authenticate, Operate, Enrol, End, Idle
<1>7. ASSUME NEW r \in Request, ClaimReading(r) PROVE BarsKept
  <2>1. requests[r].tap \in Readings
    BY <1>7 DEF ClaimReading, At, RequestsTyped, RequestTyped
  <2>2. PICK q : Goes(r, q) /\ (q.pc = "idle" \/ (q.pc = "issue" /\ q.tap = requests[r].tap))
    BY <1>7 DEF ClaimReading, Idle
  <2>3. Barred(q)'
    BY <2>1, <2>2 DEF Barred, KnownTap, Readings
  <2>. QED
    BY <2>2, <2>3, GoesBarred
<1>8. ASSUME NEW r \in Request, ConsumeTap(r) PROVE BarsKept
  <2>1. CASE ~Holds(taps, requests[r].token, now)
    BY <1>8, <1>20, <2>1 DEF ConsumeTap, Idle
  <2>2. CASE Holds(taps, requests[r].token, now)
    <3>1. PICK person, tap : person = requests[r].person /\ tap = ValueOf(taps, requests[r].token)
      OBVIOUS
    <3>2. person \in Person /\ tap \in Taps /\ KnownTap(tap)
      <4>1. PICK i \in taps : tap = i.value
        BY <2>2, <3>1, HeldValue
      <4>. QED
        BY <1>8, <3>1, <4>1 DEF ConsumeTap, At, RequestsTyped, RequestTyped, StoresTyped, GoneInv
    <3>3. PICK q : /\ Goes(r, q) /\ q.pc = "grant" /\ q.person = person /\ q.tap = tap
                   /\ q.gone = Gone(person, tap)
      <4>1. PICK q : q = [pc |-> "grant", token |-> requests[r].token,
                          person |-> requests[r].person, tap |-> tap, instant |-> now,
                          gone |-> Gone(requests[r].person, tap), passkey |-> requests[r].passkey]
        OBVIOUS
      <4>2. Goes(r, q)
        BY <1>8, <2>2, <3>1, <4>1 DEF ConsumeTap
      <4>3. q.pc = "grant" /\ q.person = person /\ q.tap = tap /\ q.gone = Gone(person, tap)
        BY <3>1, <4>1
      <4>. QED
        BY <4>2, <4>3
    <3>4. KnownTap(tap)'
      BY <3>2 DEF KnownTap, GoneStays
    <3>5. Gone(person, tap) => Gone(person, tap)'
      BY <3>2, GoneStaysGone
    <3>6. Barred(q)'
      BY <3>3, <3>4, <3>5 DEF Barred
    <3>. QED
      BY <3>3, <3>6, GoesBarred
  <2>. QED
    BY <2>1, <2>2
<1>9. ASSUME NEW r \in Request, CheckGrant(r) PROVE BarsKept
  <2>1. CASE ~HasGrant(requests[r].person, requests[r].tap)
    BY <1>9, <1>20, <2>1 DEF CheckGrant, Idle
  <2>2. CASE HasGrant(requests[r].person, requests[r].tap)
    <3>1. PICK q, p : q = requests[r] /\ p = [q EXCEPT !.pc = "decide"] /\ Goes(r, p)
      BY <1>9, <2>2 DEF CheckGrant
    <3>2. q \in Consumers /\ q.pc = "grant" /\ Barred(q)
      BY <1>9, <3>1 DEF CheckGrant, At, RequestsTyped, RequestTyped, GoneInv
    <3>3. p.pc = "decide" /\ p.person = q.person /\ p.tap = q.tap /\ p.gone = q.gone
      BY <3>1, <3>2 DEF Consumers
    <3>4. q.tap.test => data.tests[q.tap.tag] # None /\ data.tests[q.tap.tag].expires > now
      BY <2>2, <3>1 DEF HasGrant, TestTagActive
    <3>5. q.tap.test => ~(data.tests[q.tap.tag].expires <= now)
      <4>1. ASSUME q.tap.test PROVE data.tests[q.tap.tag].expires \in Int
        <5>1. q.tap.tag \in Test
          BY <3>2, <4>1 DEF Consumers, Taps, Readings, TestReadings
        <5>. QED
          BY <3>4, <4>1, <5>1, Parts DEF FileTyped, TestTags
      <4>. QED
        BY <3>4, <4>1, Assumptions DEF FileTyped
    <3>6. q.gone => people[q.person] = None \/ ~doors[q.tap.door].managed
      BY <3>2, <3>4, <3>5 DEF Barred, Gone
    <3>7. Barred(p)'
      BY <3>3, <3>6 DEF Barred, policy
    <3>. QED
      BY <3>1, <3>7, GoesBarred
  <2>. QED
    BY <2>1, <2>2
<1>10. ASSUME NEW r \in Request, Decide(r) PROVE BarsKept
  <2>1. PICK p : p = requests[r]
    OBVIOUS
  <2>2. p.pc = "decide" /\ Barred(p) /\ people[p.person] # None
    BY <1>10, <2>1 DEF Decide, At, GoneInv
  <2>3. PICK q : /\ Goes(r, q) /\ q.pc = "decided" /\ q.gone = p.gone
                 /\ q.decision = Authorize(people[p.person], GrantOf(p.person, p.tap),
                                           doors[p.tap.door], schedules, p.instant)
    BY <1>10, <2>1 DEF Decide, Snapshot
  <2>4. p.gone => ~doors[p.tap.door].managed
    BY <2>2 DEF Barred
  <2>5. p.gone => q.decision # "allowed"
    BY <2>3, <2>4 DEF Authorize
  <2>6. Barred(q)'
    BY <2>3, <2>5 DEF Barred
  <2>. QED
    BY <2>3, <2>6, GoesBarred
<1>11. ASSUME Pass PROVE BarsKept
  BY <1>11, <1>21 DEF Pass, memory
<1>. QED
  BY <1>1, <1>2, <1>3, <1>4, <1>5, <1>6, <1>7, <1>8, <1>9, <1>10, <1>11 DEF Visit

\* What visitors do to the taps, and which doors they move.
LEMMA VisitKeepsGone ==
  ASSUME Typed, GoneInv, Visit, UNCHANGED admin
  PROVE  GoneInv'
<1>. FileTyped /\ RequestsTyped /\ StoresTyped
  BY DEF Typed
<1>1. VisitLeaves
  BY VisitLeavesMost
<1>2. \A x : Known(x)' <=> Known(x)
  BY DEF Known, Checking, admin
<1>3. GoneStays
  BY <1>1, <1>2, Assumptions DEF VisitLeaves, GoneStays, PolicyStays, policy, FileTyped
<1>4. TestsDrawn'
  BY <1>1, <1>2 DEF VisitLeaves, GoneInv, TestsDrawn, admin
<1>5. BarsKept
  BY <1>1, <1>3, VisitKeepsBars DEF VisitLeaves
<1>6. NoneGoneMoves
  <2>1. ASSUME NEW r \in Request, Operate(r) PROVE NoneGoneMoves
    <3>1. ~requests[r].gone
      BY <2>1 DEF Operate, At, GoneInv, Barred
    <3>2. PICK c : c.gone = requests[r].gone /\ commands' = commands \cup {c}
      BY <2>1 DEF Operate
    <3>. QED
      BY <3>1, <3>2 DEF GoneInv, NoneGoneMoves
  <2>. QED
    BY <1>1, <2>1 DEF VisitLeaves, GoneInv, NoneGoneMoves
<1>7. TapsKnown
  <2>1. \A i \in taps : KnownTap(i.value)'
    BY <1>2 DEF GoneInv, KnownTap
  <2>2. ASSUME taps' \subseteq taps PROVE TapsKnown
    BY <2>1, <2>2 DEF TapsKnown
  <2>3. ASSUME NEW r \in Request, IssueTap(r) PROVE TapsKnown
    <3>1. PICK tap : tap = requests[r].tap
      OBVIOUS
    <3>2. KnownTap(tap)'
      BY <1>2, <2>3, <3>1 DEF IssueTap, At, GoneInv, Barred, KnownTap
    <3>3. \A i \in taps' : i \in taps \/ i.value = tap
      BY <2>3, <3>1, IssuedItems DEF IssueTap
    <3>. QED
      BY <2>1, <3>2, <3>3 DEF TapsKnown
  <2>4. ASSUME NEW r \in Request, ConsumeTap(r) PROVE TapsKnown
    BY <2>2, <2>4, ConsumedItems DEF ConsumeTap
  <2>5. ASSUME NEW token \in Token, Challenge(token) PROVE TapsKnown
    BY <2>2, <2>5 DEF Challenge, Unexpired
  <2>6. ASSUME \/ \E r \in Request :
                    \/ \E t \in Tag, counter \in Counter : ReadTag(r, t, counter)
                    \/ \E x \in Test : ReadTestTag(r, x)
                    \/ \E c \in Token, k \in Passkey : Answer(r, c, k) \/ Attest(r, c, k)
               \/ \E i \in Invite : Register(i)
        PROVE  TapsKnown
    BY <2>2, <2>6 DEF ReadTag, ReadTestTag, Answer, Attest, Register
  <2>7. ASSUME \/ \E r \in Request :
                    \/ VerifyReading(r) \/ ClaimReading(r) \/ Authenticate(r) \/ CheckGrant(r)
                    \/ Decide(r) \/ Operate(r) \/ Enrol(r) \/ End(r)
               \/ Pass
        PROVE  TapsKnown
    BY <2>2, <2>7 DEF VerifyReading, ClaimReading, Authenticate, CheckGrant, Decide, Operate, Enrol,
       End, Pass, memory
  <2>. QED
    BY <2>3, <2>4, <2>5, <2>6, <2>7 DEF Visit
<1>. QED
  BY <1>3, <1>4, <1>5, <1>6, <1>7, GoneKept

\* A test tag is drawn before it is written.
LEMMA CheckTestKeeps ==
  ASSUME Typed, TestsDrawn, NEW a \in Admin, NEW d \in Door, NEW x \in Test, CheckTest(a, d, x)
  PROVE  TestsDrawn' /\ \A y : Known(y) => Known(y)'
<1>. JobsTyped
  BY DEF Typed
<1>1. /\ x \notin drawn /\ drawn' = drawn \cup {x} /\ UNCHANGED data
      /\ jobs'[a].pc = "test" /\ jobs'[a].test = x /\ \A b \in Admin \ {a} : jobs'[b] = jobs[b]
  BY OtherJobsStay DEF CheckTest
<1>2. \A y : Checking(y)' => y = x \/ Checking(y)
  BY <1>1 DEF Checking
<1>3. \A y : Known(y) => Known(y)'
  BY <1>1, <1>2 DEF Known
<1>4. \A b \in Admin \ {a} : jobs'[b].pc = "test" => jobs'[b].test \in drawn /\ jobs'[b].test # x
  BY <1>1 DEF TestsDrawn
<1>5. \A b \in Admin : jobs'[b].pc = "test" => jobs'[b].test \in drawn'
  BY <1>1, <1>4
<1>6. \A b, c \in Admin : jobs'[b].pc = "test" /\ jobs'[c].pc = "test"
                          /\ jobs'[b].test = jobs'[c].test => b = c
  BY <1>1, <1>4 DEF TestsDrawn
<1>7. \A y \in Test : data'.tests[y] # None => Known(y)'
  BY <1>1, <1>3 DEF TestsDrawn
<1>. QED
  BY <1>3, <1>5, <1>6, <1>7 DEF TestsDrawn

\* A test tag that is written was not known before.
LEMMA WriteTestKeeps ==
  ASSUME Typed, TestsDrawn, NEW a \in Admin, WriteTest(a)
  PROVE  /\ TestsDrawn' /\ \A y : Known(y) => Known(y)'
         /\ \A y \in Test : Known(y) /\ data'.tests[y] # None => data'.tests[y] = data.tests[y]
<1>. JobsTyped /\ FileTyped
  BY DEF Typed
<1>1. PICK x : x = jobs[a].test
  OBVIOUS
<1>2. jobs[a].pc = "test" /\ x \in Test /\ jobs[a].door \in Door /\ now + TestTtl \in Int
  BY <1>1, Assumptions DEF WriteTest, Runs, JobsTyped, JobTyped, FileTyped
<1>3. \A y \in Test \ {x} : data'.tests[y] # None => data'.tests[y] = data.tests[y]
  <2>1. PICK d, door, expires : /\ d = data /\ door = jobs[a].door /\ expires = now + TestTtl
                                /\ data' = ReplaceTestTag(d, x, door, expires)
    BY <1>1 DEF WriteTest
  <2>2. d \in Repository /\ door \in Door /\ expires \in Int
    BY <1>2, <2>1 DEF FileTyped
  <2>3. \A y \in Test \ {x} : data'.tests[y] # None => data'.tests[y] = d.tests[y]
    BY <1>2, <2>1, <2>2, ReplaceTestTagIs
  <2>. QED
    BY <2>1, <2>3
<1>4. jobs'[a].pc = "free" /\ (\A b \in Admin \ {a} : jobs'[b] = jobs[b]) /\ UNCHANGED drawn
  BY OtherJobsStay DEF WriteTest, Free
<1>5. Checking(x) /\ x \in drawn
  BY <1>1, <1>2 DEF Checking, TestsDrawn
<1>6. \A y : Checking(y)' => y # x /\ Checking(y)
  BY <1>1, <1>2, <1>4 DEF Checking, TestsDrawn
<1>7. Known(x)' /\ \A y : Known(y) => y # x /\ Known(y)'
  BY <1>4, <1>5, <1>6 DEF Known
<1>8. \A y \in Test : data'.tests[y] # None => Known(y)'
  BY <1>3, <1>7 DEF TestsDrawn
<1>9. \A b \in Admin : jobs'[b].pc = "test" => b # a /\ jobs'[b] = jobs[b]
  BY <1>4
<1>10. TestsDrawn'
  BY <1>4, <1>8, <1>9 DEF TestsDrawn
<1>. QED
  BY <1>3, <1>7, <1>10

\* Otherwise test tags are at most revoked.
LEMMA TestsDrawnStay ==
  ASSUME TestsDrawn, TestsStay(data, data'), ChecksStay, drawn \subseteq drawn'
  PROVE  TestsDrawn' /\ \A y : Known(y) => Known(y)'
<1>1. \A y : Known(y) => Known(y)'
  BY DEF ChecksStay, Known, Checking
<1>2. \A y \in Test : data'.tests[y] # None => Known(y)'
  BY <1>1 DEF TestsStay, TestsDrawn
<1>3. TestsDrawn'
  BY <1>2 DEF TestsDrawn, ChecksStay
<1>. QED
  BY <1>1, <1>3

\* What administrators do, and a restart, bring nothing back.
LEMMA AdminKeepsGone ==
  ASSUME Typed, GoneInv, Administer
  PROVE  GoneInv'
<1>. FileTyped /\ TestsDrawn
  BY DEF Typed, GoneInv
<1>1. AdminLeaves /\ AdminWrites
  BY AdminLeavesMost, AdminWritesParts
<1>2. /\ TestsDrawn' /\ \A y : Known(y) => Known(y)'
      /\ \A y \in Test : Known(y) /\ data'.tests[y] # None => data'.tests[y] = data.tests[y]
  <2>1. CASE \E a \in Admin, d \in Door, x \in Test : CheckTest(a, d, x)
    BY <2>1, CheckTestKeeps DEF CheckTest
  <2>2. CASE \E a \in Admin : WriteTest(a)
    BY <2>2, WriteTestKeeps
  <2>3. CASE /\ ~\E a \in Admin, d \in Door, x \in Test : CheckTest(a, d, x)
             /\ ~\E a \in Admin : WriteTest(a)
    <3>1. ChecksStay /\ TestsStay(data, data') /\ drawn \subseteq drawn'
      BY <1>1, <2>3, AdminJobs DEF AdminWrites, AdminLeaves
    <3>. QED
      BY <3>1, TestsDrawnStay DEF TestsStay
  <2>. QED
    BY <2>1, <2>2, <2>3
<1>3. GoneStays
  BY <1>1, <1>2, Assumptions DEF AdminLeaves, GoneStays, FileTyped
<1>4. NoneGoneMoves
  BY <1>1 DEF AdminLeaves, GoneInv, NoneGoneMoves
<1>5. CASE Restart
  <2>1. TapsKnown
    BY <1>5 DEF Restart, TapsKnown
  <2>2. \A r \in Request : requests'[r].pc = "idle"
    BY <1>5 DEF Restart, Idle
  <2>3. BarsKept
    BY <2>2, FreelyBarred DEF BarsKept
  <2>. QED
    BY <1>2, <1>3, <1>4, <2>1, <2>3, GoneKept
<1>6. CASE UNCHANGED memory
  <2>1. TapsKnown
    BY <1>2, <1>6 DEF memory, TapsKnown, GoneInv, KnownTap
  <2>2. BarsKept
    BY <1>6 DEF memory, BarsKept
  <2>. QED
    BY <1>2, <1>3, <1>4, <2>1, <2>2, GoneKept
<1>. QED
  BY <1>1, <1>5, <1>6 DEF AdminLeaves

\* What is gone is accounted for.
LEMMA GoneAlways == Spec => []GoneInv
<1>1. Init => GoneInv
  BY GoneInit
<1>2. Typed /\ GoneInv /\ [Next]_vars => GoneInv'
  <2>1. Typed /\ GoneInv /\ Visit /\ UNCHANGED admin => GoneInv'
    BY VisitKeepsGone
  <2>2. Typed /\ GoneInv /\ Administer => GoneInv'
    BY AdminKeepsGone
  <2>3. GoneInv /\ UNCHANGED vars => GoneInv'
    BY DEF vars, access, admin, memory, policy, past, GoneInv, TestsDrawn, Known, Checking, KnownTap,
       Barred, Gone
  <2>. QED
    BY <2>1, <2>2, <2>3 DEF Next
<1>. QED
  BY <1>1, <1>2, TypedAlways, PTL DEF Spec

(***************************************************************************)
(* RevocationHolds: no session moves a door for a person, at a door or by  *)
(* a test tag that was gone when it was consumed, and what was revoked     *)
(* with its person is not accepted any more.                               *)
(***************************************************************************)
THEOREM RevocationHoldsAlways == Spec => []RevocationHolds
<1>1. Typed /\ GoneInv /\ EnrolInv => RevocationHolds
  BY DEF GoneInv, EnrolInv, Disabled, PasskeyEnabled, RevocationHolds
<1>. QED
  BY <1>1, TypedAlways, GoneAlways, EnrolAlways, PTL

(***************************************************************************)
(* The policy.                                                             *)
(***************************************************************************)
UsableGrant(grant, all) == grant # None => UsableSchedule(all[grant.schedule])

PolicyTyped ==
  /\ \A p \in Person : UsableGrant(people[p], schedules)
  /\ \A g \in Person \X Door : UsableGrant(pins[g], schedules)

\* What was decided for a snapshot is what the policy means.
Judged(q) ==
  q.pc = "decided" =>
    LET s == q.snapshot
    IN /\ q.decision = "allowed" <=> Permitted(s.person, s.grant, s.door, s.schedules, q.instant)
       /\ q.decision = "outside_weekly_rule" => ~Told(s.schedules[s.grant.schedule], q.instant)

PolicyInv == PolicyTyped /\ \A r \in Request : Judged(requests[r])

\* A decision over a snapshot with a schedule that can be used is right.
LEMMA DecisionJudged ==
  ASSUME NEW person, NEW grant, NEW door, NEW all, NEW instant \in 0..LastInstant,
         UsableGrant(grant, all)
  PROVE  LET decision == Authorize(person, grant, door, all, instant)
         IN /\ decision = "allowed" <=> Permitted(person, grant, door, all, instant)
            /\ decision = "outside_weekly_rule" => ~Told(all[grant.schedule], instant)
<1>1. instant \in Int
  BY Assumptions
<1>2. grant # None => /\ IsSchedule(all[grant.schedule])
                      /\ Local(all[grant.schedule].zone, instant) \in Int
  BY <1>1 DEF UsableGrant, UsableSchedule, Local
<1>3. (Authorize(person, grant, door, all, instant) = "allowed")
        <=> Permitted(person, grant, door, all, instant)
  BY <1>1, <1>2, AuthorizeMeansPermitted
<1>4. ASSUME Authorize(person, grant, door, all, instant) = "outside_weekly_rule",
             Told(all[grant.schedule], instant)
      PROVE  FALSE
  <2>1. grant # None /\ Evaluate(all[grant.schedule], instant) = "outside_weekly_rule"
    BY <1>4 DEF Authorize, ScheduleOf
  <2>2. PICK s : s = all[grant.schedule]
    OBVIOUS
  <2>3. IsSchedule(s) /\ Local(s.zone, instant) \in Int
    BY <1>2, <2>1, <2>2
  <2>4. Told(s, instant)
    BY <1>4, <2>2
  <2>5. Evaluate(s, instant) # "outside_weekly_rule"
    BY <1>1, <2>3, <2>4, ToldHoursAllow DEF Told
  <2>. QED
    BY <2>1, <2>2, <2>5
<1>. QED
  BY <1>3, <1>4

\* One request goes on, and what was decided about it is right.
LEMMA JudgedGoes ==
  ASSUME PolicyInv, RequestsTyped, NEW r \in Request, NEW q, Goes(r, q), Judged(q), PolicyTyped'
  PROVE  PolicyInv'
<1>1. requests'[r] = q /\ \A s \in Request \ {r} : requests'[s] = requests[s]
  BY OthersStay
<1>2. \A s \in Request : Judged(requests'[s])
  BY <1>1 DEF PolicyInv
<1>. QED
  BY <1>2 DEF PolicyInv, Judged, Told

\* A step that decides nothing keeps what was decided.
LEMMA JudgedStays ==
  ASSUME PolicyInv, PolicyTyped',
         UNCHANGED requests \/ \A r \in Request : requests'[r].pc # "decided"
  PROVE  PolicyInv'
  BY DEF PolicyInv, Judged, Told

\* Schedules stay, people who are not gone keep theirs, grants of PINs stay.
LEMMA PolicyTypedStays ==
  ASSUME PolicyTyped, PolicyStays
  PROVE  PolicyTyped'
<1>1. \A p \in Person : UsableGrant(people[p], schedules)'
  BY DEF PolicyTyped, PolicyStays, UsableGrant
<1>2. \A g \in Person \X Door : UsableGrant(pins[g], schedules)'
  BY DEF PolicyTyped, PolicyStays, UsableGrant
<1>. QED
  BY <1>1, <1>2 DEF PolicyTyped

\* The grant that is decided about has a schedule.
LEMMA GrantUsable ==
  ASSUME PolicyTyped, NEW person \in Person, NEW tap \in Taps, people[person] # None
  PROVE  UsableGrant(GrantOf(person, tap), schedules)
<1>1. tap.door \in Door /\ <<person, tap.door>> \in Person \X Door
  BY DEF Taps, Readings, TestReadings
<1>2. UsableGrant(pins[person, tap.door], schedules)
  BY <1>1 DEF PolicyTyped
<1>3. UsableSchedule(schedules[people[person].schedule])
  BY DEF PolicyTyped, UsableGrant
<1>4. CASE pins[person, tap.door] = None /\ ~tap.test
  <2>1. GrantOf(person, tap).schedule = people[person].schedule
    BY <1>4 DEF GrantOf, Supplied
  <2>. QED
    BY <1>3, <2>1 DEF UsableGrant
<1>5. CASE ~(pins[person, tap.door] = None /\ ~tap.test)
  <2>1. GrantOf(person, tap) = pins[person, tap.door]
    BY <1>5 DEF GrantOf, Supplied
  <2>. QED
    BY <1>2, <2>1
<1>. QED
  BY <1>4, <1>5

\* At first nothing is decided, and all schedules can be used.
LEMMA PolicyInit ==
  ASSUME Init
  PROVE  PolicyInv
<1>1. PICK i \in Installations : people = i.people /\ pins = i.pins /\ schedules = i.schedules
  BY DEF Init
<1>2. \A r \in Request : requests[r].pc = "idle"
  BY DEF Init, Idle
<1>3. PolicyTyped
  BY <1>1, Assumptions DEF PolicyTyped, UsableGrant
<1>. QED
  BY <1>2, <1>3 DEF PolicyInv, Judged

\* Each decision is made for one snapshot.
LEMMA VisitKeepsPolicy ==
  ASSUME Typed, PolicyInv, Visit
  PROVE  PolicyInv'
<1>. RequestsTyped
  BY DEF Typed
<1>0. PolicyTyped'
  <2>1. UNCHANGED policy
    BY VisitLeavesMost DEF VisitLeaves
  <2>2. PolicyStays
    BY <2>1 DEF policy, PolicyStays
  <2>. QED
    BY <2>2, PolicyTypedStays DEF PolicyInv
<1>20. ASSUME NEW r \in Request, NEW q, Goes(r, q), q.pc # "decided" PROVE PolicyInv'
  BY <1>0, <1>20, JudgedGoes DEF Judged
<1>1. ASSUME NEW r \in Request,
             \/ \E t \in Tag, counter \in Counter : ReadTag(r, t, counter)
             \/ \E x \in Test : ReadTestTag(r, x)
             \/ \E ceremony \in Token, k \in Passkey : Answer(r, ceremony, k) \/ Attest(r, ceremony, k)
      PROVE  PolicyInv'
  BY <1>1, <1>20 DEF ReadTag, ReadTestTag, Answer, Attest
<1>2. ASSUME \/ \E token \in Token : Challenge(token)
             \/ \E i \in Invite : Register(i)
             \/ Pass
      PROVE  PolicyInv'
  BY <1>0, <1>2, JudgedStays DEF Challenge, Register, Pass, memory
<1>3. ASSUME NEW r \in Request,
             \/ VerifyReading(r) \/ IssueTap(r) \/ Authenticate(r) \/ Operate(r) \/ Enrol(r)
             \/ End(r)
      PROVE  PolicyInv'
  BY <1>3, <1>20 DEF VerifyReading, IssueTap, Authenticate, Operate, Enrol, End, Idle
<1>4. ASSUME NEW r \in Request, ClaimReading(r) PROVE PolicyInv'
  <2>1. \E q : Goes(r, q) /\ q.pc \in {"issue", "idle"}
    BY <1>4 DEF ClaimReading, Idle
  <2>. QED
    BY <1>20, <2>1
<1>5. ASSUME NEW r \in Request, ConsumeTap(r) PROVE PolicyInv'
  <2>1. \E q : Goes(r, q) /\ q.pc \in {"grant", "idle"}
    BY <1>5 DEF ConsumeTap, Idle
  <2>. QED
    BY <1>20, <2>1
<1>6. ASSUME NEW r \in Request, CheckGrant(r) PROVE PolicyInv'
  <2>1. requests[r] \in Consumers
    BY <1>6 DEF CheckGrant, At, RequestsTyped, RequestTyped
  <2>2. [requests[r] EXCEPT !.pc = "decide"].pc = "decide"
    BY <2>1 DEF Consumers
  <2>. QED
    BY <1>6, <1>20, <2>2 DEF CheckGrant, Idle
<1>7. ASSUME NEW r \in Request, Decide(r) PROVE PolicyInv'
  <2>1. PICK p, grant : p = requests[r] /\ grant = GrantOf(p.person, p.tap)
    OBVIOUS
  <2>2. p.person \in Person /\ p.tap \in Taps /\ p.instant \in 0..LastInstant
    BY <1>7, <2>1 DEF Decide, At, RequestsTyped, RequestTyped, Consumers
  <2>3. UsableGrant(grant, schedules)
    BY <1>7, <2>1, <2>2, GrantUsable DEF Decide, PolicyInv
  <2>4. PICK q, s : /\ Goes(r, q) /\ q.pc = "decided" /\ q.snapshot = s /\ q.instant = p.instant
                    /\ s = [person |-> people[p.person], grant |-> grant, door |-> doors[p.tap.door],
                            schedules |-> schedules]
                    /\ q.decision = Authorize(s.person, s.grant, s.door, s.schedules, p.instant)
    BY <1>7, <2>1 DEF Decide, Snapshot
  <2>5. UsableGrant(s.grant, s.schedules)
    BY <2>3, <2>4
  <2>6. Judged(q)
    BY <2>2, <2>4, <2>5, DecisionJudged DEF Judged
  <2>. QED
    BY <1>0, <2>4, <2>6, JudgedGoes
<1>. QED
  BY <1>1, <1>2, <1>3, <1>4, <1>5, <1>6, <1>7 DEF Visit

\* The policy is applied as it is meant.
LEMMA PolicyAlways == Spec => []PolicyInv
<1>1. Init => PolicyInv
  BY PolicyInit
<1>2. Typed /\ PolicyInv /\ [Next]_vars => PolicyInv'
  <2>1. Typed /\ PolicyInv /\ Visit /\ UNCHANGED admin => PolicyInv'
    BY VisitKeepsPolicy
  <2>2. ASSUME Typed, PolicyInv, Administer PROVE PolicyInv'
    <3>1. AdminLeaves
      BY <2>2, AdminLeavesMost
    <3>2. PolicyTyped'
      BY <2>2, <3>1, PolicyTypedStays DEF AdminLeaves, PolicyInv
    <3>3. CASE Restart
      <4>1. \A r \in Request : requests'[r].pc # "decided"
        BY <3>3 DEF Restart, Idle
      <4>. QED
        BY <2>2, <3>2, <4>1, JudgedStays
    <3>4. CASE UNCHANGED memory
      BY <2>2, <3>2, <3>4, JudgedStays DEF memory
    <3>. QED
      BY <3>1, <3>3, <3>4 DEF AdminLeaves
  <2>3. PolicyInv /\ UNCHANGED vars => PolicyInv'
    BY DEF vars, access, memory, policy, PolicyInv, PolicyTyped, UsableGrant, Judged, Told
  <2>. QED
    BY <2>1, <2>2, <2>3 DEF Next
<1>. QED
  BY <1>1, <1>2, TypedAlways, PTL DEF Spec

(***************************************************************************)
(* PolicyRespected: what was decided about a visitor is what the segments  *)
(* of the week and the conditions of the policy say of the snapshot, and   *)
(* no denial tells hours in which the door would have opened.              *)
(***************************************************************************)
THEOREM PolicyRespectedAlways == Spec => []PolicyRespected
<1>1. PolicyInv => PolicyRespected
  BY DEF PolicyInv, Judged, PolicyRespected, At
<1>. QED
  BY <1>1, PolicyAlways, PTL

(***************************************************************************)
(* The vault and the file.  While no action on a tag was cut or met        *)
(* another, one such action at most is under way, and what it holds        *)
(* accounts for every key that is not of a registered tag.                 *)
(***************************************************************************)
OnTag == {"store", "undo", "delete", "package", "attach"}
Apart(a) == \A b \in Admin \ {a} : jobs[b].pc \notin OnTag

\* The action on a tag that is under way, or that there is none.
Only(job) ==
  \/ job = Free /\ \A b \in Admin : jobs[b].pc \notin OnTag
  \/ job.pc \in OnTag /\ \E a \in Admin : jobs[a] = job /\ Apart(a)

StoredTyped ==
  stored \in Nat /\ 1..stored \subseteq Key /\ vault \subseteq 1..stored /\ DOMAIN packages = Tag

\* No key is of two tags, or of a tag and of the action.
KeysApart(job) ==
  /\ \A t \in Tag : Registered(data, t) =>
       KeysOf(t) \subseteq 1..stored /\ KeysOf(t) \cap HeldBy(job) = {}
  /\ \A t, u \in Tag : Registered(data, t) /\ Registered(data, u) /\ t # u =>
       KeysOf(t) \cap KeysOf(u) = {}

\* A tag has its keys, save the one that is being deleted, and only its
\* administrator key was handed out.
Kept(t, job) ==
  /\ KeysOf(t) \subseteq vault \/ (job.pc = "delete" /\ job.tag = t)
  /\ packages[t] \subseteq {data.tags[t].admin} \ {None}

\* What an action that was begun on a tag knows of it.
Informed(job) ==
  /\ job.pc = "store" => ~Registered(data, job.tag)
  /\ job.pc = "undo" => job.keys \in Seq(Key) /\ job.keys # <<>>
  /\ job.pc \in {"store", "attach"} => HeldBy(job) \subseteq vault
  /\ job.pc = "delete" => Registered(data, job.tag) /\ KeysOf(job.tag) \cap vault \subseteq job.keys
                          /\ job.keys \subseteq KeysOf(job.tag)
  /\ job.pc = "package" => Registered(data, job.tag)
                           /\ job.copy.keys = data.tags[job.tag].keys
                           /\ job.copy.admin = data.tags[job.tag].admin
  /\ job.pc = "attach" => Registered(data, job.tag) /\ data.tags[job.tag].admin = None
                          /\ \E key : job.keys = <<key>>

Balanced(job) ==
  /\ HeldBy(job) \subseteq 1..stored /\ KeysApart(job)
  /\ vault \subseteq TagKeys(data) \cup HeldBy(job)
  /\ \A t \in Tag : Registered(data, t) => Kept(t, job)
  /\ Informed(job)

Accounted == \E job : Only(job) /\ Balanced(job)

VaultInv == StoredTyped /\ (unsure \/ Accounted)

(***************************************************************************)
(* The keys that a job holds.                                              *)
(***************************************************************************)
Members(s) == {s[n] : n \in 1..Len(s)}

\* What a job holds.
LEMMA HeldIs ==
  ASSUME NEW job
  PROVE  /\ job.pc \in {"store", "undo", "attach"} => HeldBy(job) = Members(job.keys)
         /\ job.pc \notin {"store", "undo", "attach"} => HeldBy(job) = {}
         /\ HeldBy(Free) = {}
  BY DEF HeldBy, Members, Free

\* The members of short and of longer sequences.
LEMMA FewMembers ==
  /\ Members(<<>>) = {}
  /\ \A k : Members(<<k>>) = {k}
  /\ \A s \in Seq(Key) : Len(s) = 3 => Members(s) = {s[1], s[2], s[3]}
<1>1. \A s \in Seq(Key) : Len(s) = 3 => Members(s) = {s[1], s[2], s[3]}
  <2>. SUFFICES ASSUME NEW s \in Seq(Key), Len(s) = 3 PROVE Members(s) = {s[1], s[2], s[3]}
    OBVIOUS
  <2>1. 1..Len(s) = {1, 2, 3}
    OBVIOUS
  <2>. QED
    BY <2>1 DEF Members
<1>. QED
  BY <1>1 DEF Members

\* A key is appended to a sequence, or its first key is taken away.
LEMMA MoreMembers ==
  ASSUME NEW s \in Seq(Key)
  PROVE  /\ \A k : Members(Append(s, k)) = Members(s) \cup {k}
         /\ s # <<>> => /\ Members(Tail(s)) \subseteq Members(s)
                        /\ Members(s) = {Head(s)} \cup Members(Tail(s))
                        /\ Tail(s) \in Seq(Key) /\ Len(s) # 1 => Tail(s) # <<>>
         /\ Len(s) = 1 => Members(s) = {Head(s)}
<1>1. ASSUME NEW k PROVE Members(Append(s, k)) = Members(s) \cup {k}
  <2>1. Append(s, k) \in Seq(Key \cup {k}) /\ Len(Append(s, k)) = Len(s) + 1
    OBVIOUS
  <2>2. Append(s, k)[Len(s) + 1] = k /\ \A n \in 1..Len(s) : Append(s, k)[n] = s[n]
    OBVIOUS
  <2>3. 1..(Len(s) + 1) = (1..Len(s)) \cup {Len(s) + 1}
    OBVIOUS
  <2>. HIDE DEF Members
  <2>4. \A l : l \in Members(Append(s, k)) <=> l \in Members(s) \cup {k}
    BY <2>1, <2>2, <2>3 DEF Members
  <2>. QED
    BY <2>4
<1>2. ASSUME s # <<>>
      PROVE  /\ Members(Tail(s)) \subseteq Members(s)
             /\ Members(s) = {Head(s)} \cup Members(Tail(s))
             /\ Tail(s) \in Seq(Key) /\ Len(s) # 1 => Tail(s) # <<>>
  <2>1. Len(s) \in Nat \ {0} /\ Tail(s) \in Seq(Key) /\ Len(Tail(s)) = Len(s) - 1 /\ Head(s) = s[1]
    BY <1>2
  <2>2. \A n \in 1..Len(Tail(s)) : Tail(s)[n] = s[n + 1] /\ n + 1 \in 1..Len(s)
    BY <1>2, <2>1
  <2>3. \A n \in 2..Len(s) : Tail(s)[n - 1] = s[n] /\ n - 1 \in 1..Len(Tail(s))
    BY <2>1, <2>2
  <2>4. Members(Tail(s)) \subseteq Members(s)
    BY <2>2 DEF Members
  <2>5. Head(s) \in Members(s)
    BY <2>1 DEF Members
  <2>6. ASSUME NEW k \in Members(s) PROVE k \in {Head(s)} \cup Members(Tail(s))
    <3>1. PICK n \in 1..Len(s) : k = s[n]
      BY DEF Members
    <3>2. CASE n = 1
      BY <2>1, <3>1, <3>2
    <3>3. CASE n # 1
      BY <2>1, <2>3, <3>1, <3>3 DEF Members
    <3>. QED
      BY <3>2, <3>3
  <2>7. Len(s) # 1 => Tail(s) # <<>>
    BY <2>1
  <2>. HIDE DEF Members
  <2>8. Members(s) = {Head(s)} \cup Members(Tail(s))
    BY <2>4, <2>5, <2>6
  <2>. QED
    BY <2>1, <2>4, <2>7, <2>8
<1>3. ASSUME Len(s) = 1 PROVE Members(s) = {Head(s)}
  BY <1>3 DEF Members
<1>. QED
  BY <1>1, <1>2, <1>3

(***************************************************************************)
(* The keys of the tags.                                                   *)
(***************************************************************************)

\* A key is of a tag.
LEMMA TagKeysAre ==
  ASSUME NEW d, NEW k
  PROVE  k \in TagKeys(d) <=> \E t \in Tag : Registered(d, t) /\ k \in KeysIn(d, t)
  BY DEF TagKeys

\* The tags and their keys are as before.
KeysStay(d, e) ==
  \A t \in Tag :
    /\ Registered(e, t) <=> Registered(d, t)
    /\ Registered(d, t) => e.tags[t].keys = d.tags[t].keys /\ e.tags[t].admin = d.tags[t].admin

\* An operation that replaces a tag by one with the same keys.
LEMMA SameKeysReplaced ==
  ASSUME NEW d \in Repository, NEW t \in Tag, NEW tag \in NfcTags, Registered(d, t),
         tag.keys = d.tags[t].keys, tag.admin = d.tags[t].admin
  PROVE  KeysStay(d, [d EXCEPT !.tags[t] = tag])
<1>1. [d EXCEPT !.tags[t] = tag].tags = [d.tags EXCEPT ![t] = tag]
  BY TagReplaced
<1>2. d.tags \in [Tag -> NfcTags \cup {None}] /\ tag # None
  BY Assumptions DEF Repository
<1>. QED
  BY <1>1, <1>2 DEF KeysStay, Registered

\* Switching a tag, confirming it and claiming a counter leave its keys.
LEMMA KeysStayOn ==
  ASSUME NEW d \in Repository, NEW t \in Tag, Registered(d, t)
  PROVE  /\ \A enabled \in BOOLEAN : KeysStay(d, SetTagEnabled(d, t, enabled))
         /\ KeysStay(d, ConfirmTagWriteProtected(d, t))
         /\ \A counter \in Counter : KeysStay(d, ClaimCounter(d, t, counter))
<1>1. d.tags[t] \in NfcTags
  BY Parts
<1>2. ASSUME NEW enabled \in BOOLEAN PROVE KeysStay(d, SetTagEnabled(d, t, enabled))
  <2> DEFINE tag == [d.tags[t] EXCEPT !.enabled = enabled]
  <2>1. tag \in NfcTags /\ tag.keys = d.tags[t].keys /\ tag.admin = d.tags[t].admin
    BY <1>1 DEF NfcTags
  <2>2. SetTagEnabled(d, t, enabled) = [d EXCEPT !.tags[t] = tag]
    BY DEF SetTagEnabled
  <2>. HIDE DEF tag
  <2>. QED
    BY <2>1, <2>2, SameKeysReplaced
<1>3. KeysStay(d, ConfirmTagWriteProtected(d, t))
  <2> DEFINE tag == [d.tags[t] EXCEPT !.last = None, !.protected = TRUE]
  <2>1. tag \in NfcTags /\ tag.keys = d.tags[t].keys /\ tag.admin = d.tags[t].admin
    BY <1>1 DEF NfcTags
  <2>2. ConfirmTagWriteProtected(d, t) = [d EXCEPT !.tags[t] = tag]
    BY DEF ConfirmTagWriteProtected, Repository
  <2>. HIDE DEF tag
  <2>. QED
    BY <2>1, <2>2, SameKeysReplaced
<1>4. ASSUME NEW counter \in Counter PROVE KeysStay(d, ClaimCounter(d, t, counter))
  <2> DEFINE tag == [d.tags[t] EXCEPT !.last = counter]
  <2>1. tag \in NfcTags /\ tag.keys = d.tags[t].keys /\ tag.admin = d.tags[t].admin
    BY <1>1 DEF NfcTags
  <2>2. ClaimCounter(d, t, counter) = [d EXCEPT !.tags[t] = tag]
    BY DEF ClaimCounter
  <2>. HIDE DEF tag
  <2>. QED
    BY <2>1, <2>2, SameKeysReplaced
<1>. QED
  BY <1>2, <1>3, <1>4

\* So does switching off the tags of a door.
LEMMA DisableTagsKeys ==
  ASSUME NEW d \in Repository, NEW door
  PROVE  KeysStay(d, DisableTags(d, door))
<1> DEFINE r == RevokeTestTags(d, door)
           tags == [t \in Tag |-> IF d.tags[t] # None /\ d.tags[t].door = door
                                  THEN [d.tags[t] EXCEPT !.enabled = FALSE] ELSE d.tags[t]]
           grants == {g \in r.grants : g[2] # door}
<1>1. r \in Repository /\ r.tags = d.tags
  BY RevokeTestTagsIs DEF TestsOnly
<1>2. DisableTags(d, door) = [r EXCEPT !.tags = tags, !.grants = grants]
  BY DEF DisableTags
<1>3. [r EXCEPT !.tags = tags, !.grants = grants].tags = tags
  <2>. HIDE DEF r, tags, grants
  <2>. QED
    BY <1>1 DEF Repository
<1>4. ASSUME NEW t \in Tag
      PROVE  /\ tags[t] # None <=> d.tags[t] # None
             /\ d.tags[t] # None => tags[t].keys = d.tags[t].keys /\ tags[t].admin = d.tags[t].admin
  <2>1. CASE d.tags[t] = None
    BY <2>1
  <2>2. CASE d.tags[t] # None
    <3>1. d.tags[t] \in NfcTags
      BY <2>2, Parts DEF Registered
    <3>2. [d.tags[t] EXCEPT !.enabled = FALSE] \in NfcTags
          /\ [d.tags[t] EXCEPT !.enabled = FALSE].keys = d.tags[t].keys
          /\ [d.tags[t] EXCEPT !.enabled = FALSE].admin = d.tags[t].admin
      BY <3>1 DEF NfcTags
    <3>3. None \notin NfcTags
      BY Assumptions
    <3>. QED
      BY <2>2, <3>1, <3>2, <3>3
  <2>. QED
    BY <2>1, <2>2
<1>. HIDE DEF r, tags, grants
<1>. QED
  BY <1>2, <1>3, <1>4 DEF KeysStay, Registered

(***************************************************************************)
(* The action that is under way.                                           *)
(***************************************************************************)

\* Who is on a tag is the one; when nobody is, anybody is apart.
LEMMA OnlyIs ==
  ASSUME NEW job, Only(job), NEW a \in Admin
  PROVE  /\ jobs[a].pc \in OnTag => jobs[a] = job /\ Apart(a)
         /\ ~Busy => job = Free /\ Apart(a)
  BY DEF Only, Apart, Busy, OnTag, Free

\* The action is of the type of actions.
LEMMA OnlyTyped ==
  ASSUME JobsTyped, NEW job, Only(job)
  PROVE  JobTyped(job) /\ (job = Free \/ job.pc \in OnTag)
<1>1. CASE job = Free
  BY <1>1, NothingTyped
<1>2. CASE job.pc \in OnTag /\ \E a \in Admin : jobs[a] = job
  BY <1>2 DEF JobsTyped
<1>. QED
  BY <1>1, <1>2 DEF Only

\* When the others are not on a tag, a new action is the one, or there is none.
LEMMA GoesOnly ==
  ASSUME JobsTyped, NEW a \in Admin, Apart(a), NEW job, Becomes(a, job)
  PROVE  /\ job.pc \in OnTag => Only(job)'
         /\ job.pc \notin OnTag => Only(Free)'
<1>1. jobs'[a] = job /\ \A b \in Admin \ {a} : jobs'[b] = jobs[b]
  BY OtherJobsStay
<1>2. Apart(a)'
  BY <1>1 DEF Apart
<1>3. ASSUME job.pc \in OnTag PROVE Only(job)'
  BY <1>1, <1>2, <1>3 DEF Only
<1>4. ASSUME job.pc \notin OnTag PROVE Only(Free)'
  <2>1. \A b \in Admin : jobs'[b].pc \notin OnTag
    BY <1>1, <1>2, <1>4 DEF Apart
  <2>. QED
    BY <2>1 DEF Only
<1>. QED
  BY <1>3, <1>4

\* No action on a tag begins, goes on or ends.
ActionsStay ==
  \A a \in Admin : jobs'[a].pc \in OnTag \/ jobs[a].pc \in OnTag => jobs'[a] = jobs[a]

\* The same action is under way.
LEMMA OnlyStays ==
  ASSUME ActionsStay, NEW job, Only(job)
  PROVE  Only(job)'
<1>1. CASE job = Free /\ \A b \in Admin : jobs[b].pc \notin OnTag
  BY <1>1 DEF ActionsStay, Only
<1>2. CASE job.pc \in OnTag /\ \E a \in Admin : jobs[a] = job /\ Apart(a)
  <2>1. PICK a \in Admin : jobs[a] = job /\ Apart(a)
    BY <1>2
  <2>2. jobs'[a] = job
    BY <1>2, <2>1 DEF ActionsStay
  <2>3. \A b \in Admin \ {a} : jobs'[b].pc \notin OnTag
    BY <2>1 DEF ActionsStay, Apart
  <2>. QED
    BY <1>2, <2>2, <2>3 DEF Only, Apart
<1>. QED
  BY <1>1, <1>2 DEF Only

\* The balance holds on while the tags have their keys.
LEMMA BalanceStays ==
  ASSUME NEW job, JobTyped(job), job = Free \/ job.pc \in OnTag, Balanced(job),
         KeysStay(data, data'), UNCHANGED <<vault, stored, packages>>
  PROVE  Balanced(job)'
<1>1. \A t \in Tag : /\ Registered(data', t) <=> Registered(data, t)
                     /\ Registered(data, t) =>
                          KeysIn(data', t) = KeysIn(data, t)
                          /\ data'.tags[t].keys = data.tags[t].keys
                          /\ data'.tags[t].admin = data.tags[t].admin
  BY DEF KeysStay, KeysIn
<1>2. job.pc \in {"store", "delete", "package", "attach"} => job.tag \in Tag
  BY DEF JobTyped
<1>3. TagKeys(data') = TagKeys(data)
  <2>1. \A k : k \in TagKeys(data') <=> k \in TagKeys(data)
    BY <1>1, TagKeysAre
  <2>. QED
    BY <2>1
<1>4. KeysApart(job)'
  BY <1>1 DEF Balanced, KeysApart, KeysOf
<1>5. \A t \in Tag : Registered(data', t) => Kept(t, job)'
  BY <1>1 DEF Balanced, Kept, KeysOf
<1>6. Informed(job)'
  BY <1>1, <1>2 DEF Balanced, Informed, KeysOf
<1>. QED
  BY <1>3, <1>4, <1>5, <1>6 DEF Balanced

\* A step that leaves the keys, the vault and the actions on tags.
VaultQuiet == KeysStay(data, data') /\ UNCHANGED <<vault, stored, packages>> /\ ActionsStay

\* Such a step keeps the account.
LEMMA AccountStays ==
  ASSUME Typed, Accounted, VaultQuiet
  PROVE  Accounted'
<1>1. PICK job : Only(job) /\ Balanced(job)
  BY DEF Accounted
<1>2. JobTyped(job) /\ (job = Free \/ job.pc \in OnTag)
  BY <1>1, OnlyTyped DEF Typed
<1>3. Only(job)' /\ Balanced(job)'
  BY <1>1, <1>2, OnlyStays, BalanceStays DEF VaultQuiet
<1>. QED
  BY <1>3 DEF Accounted

\* A free administrator who comes to something other than a tag, or the other
\* way round, leaves the actions on tags.
LEMMA ElsewhereQuiet ==
  ASSUME JobsTyped, NEW a \in Admin, jobs[a].pc \notin OnTag, NEW job, Becomes(a, job),
         job.pc \notin OnTag
  PROVE  ActionsStay
  BY OtherJobsStay DEF ActionsStay

\* What stays registered with its keys stays so.
LEMMA SameTags ==
  ASSUME data'.tags = data.tags
  PROVE  KeysStay(data, data')
  BY DEF KeysStay, Registered

\* A visitor leaves the keys.
LEMMA VisitVaultQuiet ==
  ASSUME Typed, Visit, UNCHANGED admin
  PROVE  VaultQuiet /\ UNCHANGED unsure
<1>. FileTyped /\ RequestsTyped
  BY DEF Typed
<1>1. UNCHANGED <<vault, stored>>
  BY DEF Visit, ReadTag, ReadTestTag, Challenge, Answer, Attest, Register, VerifyReading,
     ClaimReading, IssueTap, Authenticate, ConsumeTap, CheckGrant, Decide, Operate, Enrol, End, Pass
<1>2. ActionsStay /\ UNCHANGED <<packages, unsure>>
  BY DEF admin, ActionsStay
<1>3. KeysStay(data, data')
  <2>1. CASE data'.tags = data.tags
    BY <2>1, SameTags
  <2>2. ASSUME NEW r \in Request, ClaimReading(r) PROVE KeysStay(data, data')
    <3>1. requests[r].tap \in Readings
      BY <2>2 DEF ClaimReading, At, RequestsTyped, RequestTyped
    <3>2. CASE MayClaim(data, requests[r].tap.tag, requests[r].tap.counter)
      <4>1. /\ Registered(data, requests[r].tap.tag)
            /\ requests[r].tap.tag \in Tag /\ requests[r].tap.counter \in Counter
            /\ data' = ClaimCounter(data, requests[r].tap.tag, requests[r].tap.counter)
        BY <2>2, <3>1, <3>2 DEF ClaimReading, MayClaim, Readings
      <4>. QED
        BY <4>1, KeysStayOn DEF FileTyped
    <3>3. CASE ~MayClaim(data, requests[r].tap.tag, requests[r].tap.counter)
      BY <2>2, <3>3, SameTags DEF ClaimReading
    <3>. QED
      BY <3>2, <3>3
  <2>. QED
    BY <2>1, <2>2, VisitLeavesMost DEF VisitLeaves
<1>. QED
  BY <1>1, <1>2, <1>3 DEF VaultQuiet

\* The actions of administrators that are on a tag.
TagStarts(a) ==
  \/ \E t \in Tag : StartDelete(a, t) \/ StartProtection(a, t)
  \/ \E t \in Tag, d \in Door : StartPrepare(a, t, d)

TagSteps(a) ==
  \/ StoreKey(a) \/ RecordTag(a) \/ FailPrepare(a) \/ UndoKey(a) \/ DeleteKey(a) \/ DeleteRecord(a)
  \/ PackageKnown(a) \/ StoreAdminKey(a) \/ AttachAdminKey(a) \/ FailAttach(a) \/ FailTag(a)

\* The other actions leave the keys.
LEMMA AdminVaultQuiet ==
  ASSUME Typed, Administer
  PROVE  \/ \E a \in Admin : TagStarts(a) \/ TagSteps(a)
         \/ Restart
         \/ VaultQuiet /\ UNCHANGED unsure
<1>. FileTyped /\ JobsTyped
  BY DEF Typed
<1>. DEFINE Quiet == VaultQuiet /\ UNCHANGED unsure
<1>1. ASSUME NEW a \in Admin, NEW t \in Tag,
             (\E enabled \in BOOLEAN : SwitchTag(a, t, enabled)) \/ ConfirmProtection(a, t)
      PROVE  Quiet
  <2>1. KeysStay(data, data')
    BY <1>1, KeysStayOn DEF SwitchTag, ConfirmProtection, MayConfirm, FileTyped
  <2>2. UNCHANGED <<vault, stored, packages, unsure, jobs>>
    BY <1>1 DEF SwitchTag, ConfirmProtection, admin
  <2>. QED
    BY <2>1, <2>2 DEF VaultQuiet, ActionsStay
<1>2. ASSUME NEW a \in Admin, NEW d \in Door, RevokeTest(a, d) \/ RemoveDoor(a, d)
      PROVE  Quiet
  <2>1. KeysStay(data, data')
    BY <1>2, SameTags, RevokeTestTagsIs, DisableTagsKeys
       DEF RevokeTest, RemoveDoor, FileTyped, TestsOnly
  <2>2. UNCHANGED <<vault, stored, packages, unsure>>
    BY <1>2 DEF RevokeTest, RemoveDoor, admin
  <2>3. ActionsStay
    <3>1. CASE RevokeTest(a, d)
      BY <3>1 DEF RevokeTest, admin, ActionsStay
    <3>2. CASE RemoveDoor(a, d)
      <4>1. Becomes(a, [pc |-> "door", door |-> d]) /\ jobs[a].pc \notin OnTag
        BY <3>2 DEF RemoveDoor, Runs, OnTag
      <4>. QED
        BY <4>1, ElsewhereQuiet DEF OnTag
    <3>. QED
      BY <1>2, <3>1, <3>2
  <2>. QED
    BY <2>1, <2>2, <2>3 DEF VaultQuiet
<1>3. ASSUME NEW a \in Admin, NEW p \in Person, RevokeEnrolment(a, p) \/ RemovePerson(a, p)
      PROVE  Quiet
  <2>1. KeysStay(data, data')
    BY <1>3, SameTags, DisableCredentialsIs DEF RevokeEnrolment, RemovePerson, FileTyped
  <2>2. UNCHANGED <<vault, stored, packages, unsure>>
    BY <1>3 DEF RevokeEnrolment, RemovePerson, admin
  <2>3. ActionsStay
    <3>1. CASE RevokeEnrolment(a, p)
      BY <3>1 DEF RevokeEnrolment, admin, ActionsStay
    <3>2. CASE RemovePerson(a, p)
      <4>1. Becomes(a, [pc |-> "person", person |-> p]) /\ jobs[a].pc \notin OnTag
        BY <3>2 DEF RemovePerson, Runs, OnTag
      <4>. QED
        BY <4>1, ElsewhereQuiet DEF OnTag
    <3>. QED
      BY <1>3, <3>1, <3>2
  <2>. QED
    BY <2>1, <2>2, <2>3 DEF VaultQuiet
<1>4. ASSUME NEW a \in Admin,
             \/ \E d \in Door, x \in Test : CheckTest(a, d, x)
             \/ \E p \in Person, i \in Invite : CheckInvite(a, p, i)
             \/ \E p \in Person, selected \in SUBSET Door : CheckAccess(a, p, selected)
      PROVE  Quiet
  <2>1. UNCHANGED <<data, vault, stored, packages, unsure>> /\ jobs[a].pc \notin OnTag
    BY <1>4 DEF CheckTest, CheckInvite, CheckAccess, Runs, OnTag
  <2>2. PICK job : Becomes(a, job) /\ job.pc \notin OnTag
    <3>1. \A d, x : [pc |-> "test", door |-> d, test |-> x].pc \notin OnTag
      BY DEF OnTag
    <3>2. \A p, i : [pc |-> "invite", person |-> p, invite |-> i].pc \notin OnTag
      BY DEF OnTag
    <3>3. \A p, selected : [pc |-> "access", person |-> p, selected |-> selected].pc \notin OnTag
      BY DEF OnTag
    <3>4. ASSUME NEW d \in Door, NEW x \in Test, CheckTest(a, d, x)
          PROVE  \E job : Becomes(a, job) /\ job.pc \notin OnTag
      BY <3>1, <3>4 DEF CheckTest
    <3>5. ASSUME NEW p \in Person, NEW i \in Invite, CheckInvite(a, p, i)
          PROVE  \E job : Becomes(a, job) /\ job.pc \notin OnTag
      BY <3>2, <3>5 DEF CheckInvite
    <3>6. ASSUME NEW p \in Person, NEW selected \in SUBSET Door, CheckAccess(a, p, selected)
          PROVE  \E job : Becomes(a, job) /\ job.pc \notin OnTag
      BY <3>3, <3>6 DEF CheckAccess
    <3>. QED
      BY <1>4, <3>4, <3>5, <3>6
  <2>. QED
    BY <2>1, <2>2, ElsewhereQuiet, SameTags DEF VaultQuiet
<1>5. ASSUME NEW a \in Admin,
             \/ WriteInvite(a) \/ WriteAccess(a) \/ WriteTest(a)
             \/ RemovePersonRecord(a) \/ RemoveDoorRecord(a)
      PROVE  Quiet
  <2>1. UNCHANGED <<vault, stored, packages, unsure>> /\ jobs[a].pc \notin OnTag
        /\ Becomes(a, Free)
    BY <1>5 DEF WriteInvite, WriteAccess, WriteTest, RemovePersonRecord, RemoveDoorRecord, Runs, OnTag
  <2>2. data'.tags = data.tags
    <3>1. CASE WriteInvite(a)
      BY <3>1 DEF WriteInvite, CreateInvite, FileTyped, Repository
    <3>2. CASE WriteAccess(a)
      BY <3>2 DEF WriteAccess, ReplaceAccessGrants, FileTyped, Repository
    <3>3. CASE WriteTest(a)
      BY <3>3 DEF WriteTest, ReplaceTestTag, FileTyped, Repository
    <3>4. CASE RemovePersonRecord(a) \/ RemoveDoorRecord(a)
      BY <3>4 DEF RemovePersonRecord, RemoveDoorRecord
    <3>. QED
      BY <1>5, <3>1, <3>2, <3>3, <3>4
  <2>. QED
    BY <2>1, <2>2, ElsewhereQuiet, SameTags DEF VaultQuiet, OnTag, Free
<1>. QED
  BY <1>1, <1>2, <1>3, <1>4, <1>5 DEF Administer, TagStarts, TagSteps

(***************************************************************************)
(* The actions on tags, one by one.                                        *)
(***************************************************************************)

\* Whoever is on a tag has the account, and otherwise nobody.
LEMMA TagActor ==
  ASSUME Typed, Accounted, NEW a \in Admin
  PROVE  /\ jobs[a].pc \in OnTag => Balanced(jobs[a]) /\ Apart(a) /\ JobTyped(jobs[a])
         /\ ~Busy => Balanced(Free) /\ Apart(a)
<1>1. PICK job : Only(job) /\ Balanced(job)
  BY DEF Accounted
<1>2. JobTyped(job)
  BY <1>1, OnlyTyped DEF Typed
<1>. QED
  BY <1>1, <1>2, OnlyIs

\* The account goes over to the next action, or to none.
LEMMA AccountGoes ==
  ASSUME Typed, NEW a \in Admin, Apart(a), NEW job, Becomes(a, job),
         job.pc \in OnTag => Balanced(job)', job.pc \notin OnTag => Balanced(Free)'
  PROVE  Accounted'
  BY GoesOnly DEF Typed, Accounted

\* An action that begins or ends with nothing in hand.
LEMMA EmptyHanded ==
  ASSUME NEW job, NEW other, Balanced(job), HeldBy(job) = {}, HeldBy(other) = {},
         job.pc # "delete", UNCHANGED <<data, vault, stored, packages>>, Informed(other)
  PROVE  Balanced(other)'
<1>1. KeysApart(other)' /\ Informed(other)'
  BY DEF Balanced, KeysApart, KeysOf, Informed
<1>2. \A t \in Tag : Registered(data', t) => Kept(t, other)'
  BY DEF Balanced, Kept, KeysOf
<1>. QED
  BY <1>1, <1>2 DEF Balanced

\* A tag is prepared, deleted or protected: the keys stay where they are.
LEMMA StartKeepsVault ==
  ASSUME Typed, ReadingInv, Accounted, NEW a \in Admin, TagStarts(a), ~Busy
  PROVE  Accounted'
<1>1. Balanced(Free) /\ Apart(a) /\ HeldBy(Free) = {} /\ Free.pc # "delete"
  BY TagActor, HeldIs DEF Free
<1>2. ASSUME NEW t \in Tag, StartDelete(a, t) PROVE Accounted'
  <2>1. PICK job : /\ job = [pc |-> "delete", tag |-> t, keys |-> KeysOf(t)]
                   /\ Becomes(a, job)
    BY <1>2 DEF StartDelete, KeysOf, KeysIn
  <2>2. job.pc = "delete" /\ job.tag = t /\ job.keys = KeysOf(t)
    BY <2>1
  <2>3. Registered(data, t) /\ UNCHANGED <<data, vault, stored, packages>>
    BY <1>2 DEF StartDelete
  <2>4. Informed(job) /\ HeldBy(job) = {}
    BY <2>2, <2>3, HeldIs DEF Informed
  <2>5. Balanced(job)'
    BY <1>1, <2>3, <2>4, EmptyHanded
  <2>. QED
    BY <1>1, <2>1, <2>2, <2>5, AccountGoes DEF OnTag
<1>3. ASSUME NEW t \in Tag, StartProtection(a, t) PROVE Accounted'
  <2>1. PICK job : /\ job = [pc |-> "package", tag |-> t, copy |-> data.tags[t]]
                   /\ Becomes(a, job)
    BY <1>3 DEF StartProtection
  <2>2. job.pc = "package" /\ job.tag = t /\ job.copy = data.tags[t]
    BY <2>1
  <2>3. Registered(data, t) /\ UNCHANGED <<data, vault, stored, packages>>
    BY <1>3 DEF StartProtection
  <2>4. Informed(job) /\ HeldBy(job) = {}
    BY <2>2, <2>3, HeldIs DEF Informed
  <2>5. Balanced(job)'
    BY <1>1, <2>3, <2>4, EmptyHanded
  <2>. QED
    BY <1>1, <2>1, <2>2, <2>5, AccountGoes DEF OnTag
<1>4. ASSUME NEW t \in Tag, NEW d \in Door, StartPrepare(a, t, d) PROVE Accounted'
  <2>1. PICK job : /\ job = [pc |-> "store", tag |-> t, door |-> d, keys |-> <<>>]
                   /\ Becomes(a, job)
    BY <1>4 DEF StartPrepare
  <2>2. job.pc = "store" /\ job.tag = t /\ job.keys = <<>>
    BY <2>1
  <2>3. ~Registered(data, t) /\ UNCHANGED <<data, vault, stored, packages>>
    BY <1>4 DEF StartPrepare, ReadingInv, TagsDrawn
  <2>4. HeldBy(job) = {}
    BY <2>2, HeldIs, FewMembers
  <2>5. Informed(job)
    BY <2>2, <2>3, <2>4 DEF Informed
  <2>6. Balanced(job)'
    BY <1>1, <2>3, <2>4, <2>5, EmptyHanded
  <2>. QED
    BY <1>1, <2>1, <2>2, <2>6, AccountGoes DEF OnTag
<1>. QED
  BY <1>2, <1>3, <1>4 DEF TagStarts

\* A key is stored for the one who has it.
LEMMA StoredKeyHeld ==
  ASSUME StoredTyped, NEW job, NEW other, Balanced(job), Informed(other)',
         HeldBy(other) = HeldBy(job) \cup {NextKey}, job.pc # "delete", other.pc # "delete",
         vault' = vault \cup {NextKey}, stored' = NextKey, UNCHANGED <<data, packages>>
  PROVE  Balanced(other)'
<1>1. NextKey = stored + 1 /\ 1..stored \subseteq 1..NextKey /\ NextKey \in 1..NextKey
      /\ NextKey \notin 1..stored
  BY DEF StoredTyped, NextKey
<1>2. HeldBy(other) \subseteq 1..stored'
  BY <1>1 DEF Balanced
<1>3. KeysApart(other)'
  <2>1. ASSUME NEW t \in Tag, Registered(data, t)
        PROVE  KeysIn(data, t) \subseteq 1..stored' /\ KeysIn(data, t) \cap HeldBy(other) = {}
    <3>1. KeysIn(data, t) \subseteq 1..stored /\ KeysIn(data, t) \cap HeldBy(job) = {}
      BY <2>1 DEF Balanced, KeysApart, KeysOf
    <3>. QED
      BY <1>1, <3>1
  <2>. QED
    BY <2>1 DEF Balanced, KeysApart, KeysOf
<1>4. \A t \in Tag : Registered(data, t) => Kept(t, other)'
  BY DEF Balanced, Kept, KeysOf
<1>5. vault' \subseteq TagKeys(data) \cup HeldBy(other)
  BY DEF Balanced
<1>. QED
  BY <1>2, <1>3, <1>4, <1>5 DEF Balanced

\* The next of three keys is stored.
LEMMA StoreKeyKeepsVault ==
  ASSUME Typed, StoredTyped, Accounted, NEW a \in Admin, StoreKey(a)
  PROVE  Accounted'
<1>1. PICK job : job = jobs[a]
  OBVIOUS
<1>2. job.pc = "store" /\ Balanced(job) /\ Apart(a) /\ JobTyped(job)
  BY <1>1, TagActor DEF StoreKey, Runs, OnTag
<1>3. job \in [pc : {"store"}, tag : Tag, door : Door, keys : Seq(Key)]
  BY <1>2 DEF JobTyped
<1>4. PICK other : other = [job EXCEPT !.keys = Append(@, NextKey)] /\ Becomes(a, other)
  BY <1>1 DEF StoreKey
<1>5. other.pc = "store" /\ other.tag = job.tag /\ other.keys = Append(job.keys, NextKey)
  BY <1>3, <1>4
<1>6. vault' = vault \cup {NextKey} /\ stored' = NextKey /\ UNCHANGED <<data, packages>>
  BY DEF StoreKey
<1>7. HeldBy(other) = HeldBy(job) \cup {NextKey}
  <2>1. HeldBy(job) = Members(job.keys) /\ HeldBy(other) = Members(other.keys)
    BY <1>2, <1>5, HeldIs
  <2>2. Members(Append(job.keys, NextKey)) = Members(job.keys) \cup {NextKey}
    BY <1>3, MoreMembers
  <2>. QED
    BY <1>5, <2>1, <2>2
<1>8. Informed(other)'
  BY <1>2, <1>5, <1>6, <1>7 DEF Informed, Balanced
<1>9. Balanced(other)'
  BY <1>2, <1>5, <1>6, <1>7, <1>8, StoredKeyHeld
<1>. QED
  BY <1>2, <1>4, <1>5, <1>9, AccountGoes DEF OnTag

\* The tag comes to be registered with the keys that were stored for it.
LEMMA RecordTagKeepsVault ==
  ASSUME Typed, ReadingInv, StoredTyped, Accounted, NEW a \in Admin, RecordTag(a)
  PROVE  Accounted'
<1>. FileTyped
  BY DEF Typed
<1>1. PICK job : job = jobs[a]
  OBVIOUS
<1>2. job.pc = "store" /\ Balanced(job) /\ Apart(a) /\ JobTyped(job)
  BY <1>1, TagActor DEF RecordTag, Runs, OnTag
<1>3. job.tag \in Tag /\ job.door \in Door /\ job.keys \in Seq(Key) /\ Len(job.keys) = 3
  BY <1>1, <1>2 DEF RecordTag, JobTyped
<1>4. HeldBy(job) = {job.keys[1], job.keys[2], job.keys[3]}
      /\ HeldBy(job) \subseteq Key /\ job.keys[3] # None
  <2>1. HeldBy(job) = Members(job.keys)
    BY <1>2, HeldIs
  <2>2. Members(job.keys) = {job.keys[1], job.keys[2], job.keys[3]}
    BY <1>3, FewMembers
  <2>3. job.keys[1] \in Key /\ job.keys[2] \in Key /\ job.keys[3] \in Key
    BY <1>3
  <2>4. None \notin Key
    <3>1. Key \subseteq Nat /\ None \notin Int
      BY Assumptions
    <3>2. \A n \in Nat : n \in Int
      OBVIOUS
    <3>3. None \in Key => None \in Nat
      BY <3>1
    <3>. QED
      BY <3>1, <3>2, <3>3, Zenon
  <2>. QED
    BY <2>1, <2>2, <2>3, <2>4
<1>5. PICK t, tag : /\ t = job.tag
                    /\ tag = NewTag(job.door, {job.keys[1], job.keys[2]}, job.keys[3])
  OBVIOUS
<1>6. tag \in NfcTags /\ tag.keys = {job.keys[1], job.keys[2]} /\ tag.admin = job.keys[3]
  BY <1>3, <1>4, <1>5 DEF NewTag, NfcTags
<1>7. data'.tags = [data.tags EXCEPT ![t] = tag]
  <2>1. data' = UpsertTag(data, t, tag)
    BY <1>1, <1>5 DEF RecordTag
  <2>2. data \in Repository /\ t \in Tag
    BY <1>3, <1>5 DEF FileTyped
  <2>. QED
    BY <1>6, <2>1, <2>2, UpsertTagIs, Zenon
<1>8. data.tags \in [Tag -> NfcTags \cup {None}] /\ None \notin NfcTags
  BY Assumptions DEF FileTyped, Repository
<1>9. t \in Tag /\ ~Registered(data, t)
  BY <1>2, <1>3, <1>5 DEF Balanced, Informed
<1>10. data'.tags[t] = tag /\ \A u \in Tag \ {t} : data'.tags[u] = data.tags[u]
  BY <1>7, <1>8, <1>9
<1>11. Registered(data', t) /\ KeysIn(data', t) = HeldBy(job)
  BY <1>4, <1>6, <1>8, <1>10 DEF Registered, KeysIn
<1>12. \A u \in Tag \ {t} : /\ Registered(data', u) <=> Registered(data, u)
                            /\ KeysIn(data', u) = KeysIn(data, u)
  BY <1>10 DEF Registered, KeysIn
<1>13. UNCHANGED <<vault, stored>> /\ packages' = [packages EXCEPT ![t] = {job.keys[3]}]
  BY <1>1, <1>5 DEF RecordTag
<1>14. HeldBy(Free) = {} /\ Informed(Free)'
  BY HeldIs DEF Informed, Free
<1>15. KeysApart(Free)'
  <2>1. ASSUME NEW u \in Tag, Registered(data', u), u # t
        PROVE  /\ Registered(data, u) /\ KeysIn(data', u) = KeysIn(data, u)
               /\ KeysIn(data, u) \subseteq 1..stored /\ KeysIn(data, u) \cap HeldBy(job) = {}
    BY <1>2, <1>12, <2>1 DEF Balanced, KeysApart, KeysOf
  <2>2. HeldBy(job) \subseteq 1..stored
    BY <1>2 DEF Balanced
  <2>3. ASSUME NEW u \in Tag, Registered(data', u) PROVE KeysIn(data', u) \subseteq 1..stored
    BY <1>11, <2>1, <2>2, <2>3
  <2>4. ASSUME NEW u \in Tag, NEW v \in Tag, Registered(data', u), Registered(data', v), u # v
        PROVE  KeysIn(data', u) \cap KeysIn(data', v) = {}
    <3>1. CASE u = t
      BY <1>11, <2>1, <2>4, <3>1
    <3>2. CASE v = t
      BY <1>11, <2>1, <2>4, <3>2
    <3>3. CASE u # t /\ v # t
      BY <1>2, <2>1, <2>4, <3>3 DEF Balanced, KeysApart, KeysOf
    <3>. QED
      BY <3>1, <3>2, <3>3
  <2>. QED
    BY <1>13, <1>14, <2>3, <2>4 DEF KeysApart, KeysOf
<1>16. vault' \subseteq TagKeys(data')
  <2>1. ASSUME NEW k \in TagKeys(data) PROVE k \in TagKeys(data')
    <3>1. PICK u \in Tag : Registered(data, u) /\ k \in KeysIn(data, u)
      BY TagKeysAre
    <3>2. u # t
      BY <1>9, <3>1
    <3>. QED
      BY <1>12, <3>1, <3>2, TagKeysAre
  <2>2. ASSUME NEW k \in HeldBy(job) PROVE k \in TagKeys(data')
    BY <1>9, <1>11, TagKeysAre
  <2>. QED
    BY <1>2, <1>13, <2>1, <2>2 DEF Balanced
<1>17. ASSUME NEW u \in Tag, Registered(data', u) PROVE Kept(u, Free)'
  <2>1. CASE u = t
    <3>1. packages'[t] \subseteq {job.keys[3]}
      BY <1>9, <1>13 DEF StoredTyped
    <3>2. HeldBy(job) \subseteq vault
      BY <1>2 DEF Balanced, Informed
    <3>. QED
      BY <1>4, <1>6, <1>10, <1>11, <1>13, <2>1, <3>1, <3>2 DEF Kept, KeysOf
  <2>2. CASE u # t
    <3>1. Kept(u, job) /\ Registered(data, u)
      BY <1>2, <1>12, <1>17, <2>2 DEF Balanced
    <3>2. packages'[u] = packages[u]
      BY <1>13, <2>2
    <3>. QED
      BY <1>2, <1>10, <1>12, <1>13, <2>2, <3>1, <3>2 DEF Kept, KeysOf
  <2>. QED
    BY <2>1, <2>2
<1>18. Balanced(Free)'
  BY <1>14, <1>15, <1>16, <1>17 DEF Balanced
<1>19. Becomes(a, Free)
  BY DEF RecordTag
<1>. QED
  BY <1>2, <1>18, <1>19, AccountGoes DEF OnTag, Free

\* What an action holds is handed over to what undoes it.
LEMMA HandedOver ==
  ASSUME NEW job, NEW other, Balanced(job), job.pc # "delete", HeldBy(other) = HeldBy(job),
         Informed(other), UNCHANGED <<data, vault, stored, packages>>
  PROVE  Balanced(other)'
<1>1. Informed(other)' /\ KeysApart(other)'
  BY DEF Balanced, Informed, KeysApart, KeysOf
<1>2. \A t \in Tag : Registered(data', t) => Kept(t, other)'
  BY DEF Balanced, Kept, KeysOf
<1>. QED
  BY <1>1, <1>2 DEF Balanced

\* A preparation or the attachment of a key fails: all its keys are to be undone.
LEMMA FailKeepsVault ==
  ASSUME Typed, Accounted, NEW a \in Admin, FailPrepare(a) \/ FailAttach(a)
  PROVE  Accounted'
<1>1. PICK job : job = jobs[a]
  OBVIOUS
<1>2. job.pc \in {"store", "attach"} /\ Balanced(job) /\ Apart(a) /\ JobTyped(job)
  BY <1>1, TagActor DEF FailPrepare, FailAttach, Runs, OnTag
<1>3. UNCHANGED <<data, vault, stored, packages>>
  BY DEF FailPrepare, FailAttach
<1>4. job.keys \in Seq(Key)
  <2>1. CASE job.pc = "store"
    BY <1>2, <2>1 DEF JobTyped
  <2>2. CASE job.pc = "attach"
    <3>1. PICK key : job.keys = <<key>>
      BY <1>2, <2>2 DEF Balanced, Informed
    <3>2. job.keys[1] \in Key
      BY <1>2, <2>2 DEF JobTyped
    <3>. QED
      BY <3>1, <3>2
  <2>. QED
    BY <1>2, <2>1, <2>2
<1>5. HeldBy(job) = Members(job.keys)
  BY <1>2, HeldIs
<1>6. ASSUME job.keys = <<>>, Becomes(a, Free) PROVE Accounted'
  <2>1. HeldBy(job) = {} /\ HeldBy(Free) = {} /\ Informed(Free) /\ job.pc # "delete"
    BY <1>2, <1>5, <1>6, FewMembers, HeldIs DEF Informed, Free
  <2>2. Balanced(Free)'
    BY <1>2, <1>3, <2>1, HandedOver
  <2>. QED
    BY <1>2, <1>6, <2>2, AccountGoes DEF OnTag, Free
<1>7. ASSUME job.keys # <<>>, Becomes(a, [pc |-> "undo", keys |-> job.keys]) PROVE Accounted'
  <2>1. PICK other : other = [pc |-> "undo", keys |-> job.keys]
    OBVIOUS
  <2>2. other.pc = "undo" /\ other.keys = job.keys
    BY <2>1
  <2>3. HeldBy(other) = HeldBy(job) /\ Informed(other) /\ job.pc # "delete"
    BY <1>2, <1>4, <1>5, <1>7, <2>2, HeldIs DEF Informed
  <2>4. Balanced(other)'
    BY <1>2, <1>3, <2>3, HandedOver
  <2>. QED
    BY <1>2, <1>7, <2>1, <2>2, <2>4, AccountGoes DEF OnTag
<1>8. CASE FailPrepare(a)
  BY <1>1, <1>6, <1>7, <1>8 DEF FailPrepare, Undone
<1>9. CASE FailAttach(a)
  <2>1. job.pc = "attach"
    BY <1>1, <1>9 DEF FailAttach, Runs
  <2>2. job.keys # <<>>
    BY <1>2, <2>1 DEF Balanced, Informed
  <2>. QED
    BY <1>1, <1>7, <1>9, <2>2 DEF FailAttach
<1>. QED
  BY <1>8, <1>9

\* A key is undone, and the one who undoes it has it no more.
LEMMA UndoKeyKeepsVault ==
  ASSUME Typed, Accounted, NEW a \in Admin, UndoKey(a)
  PROVE  Accounted'
<1>1. PICK job : job = jobs[a]
  OBVIOUS
<1>2. job.pc = "undo" /\ Balanced(job) /\ Apart(a)
  BY <1>1, TagActor DEF UndoKey, Runs, OnTag
<1>3. job.keys \in Seq(Key) /\ job.keys # <<>>
  BY <1>2 DEF Balanced, Informed
<1>4. PICK key : key = Head(job.keys) /\ vault' = vault \ {key}
  BY <1>1 DEF UndoKey
<1>5. UNCHANGED <<data, stored, packages>>
  BY DEF UndoKey
<1>6. PICK other : /\ Becomes(a, other)
                   /\ other = IF Len(job.keys) = 1 THEN Free ELSE [pc |-> "undo", keys |-> Tail(job.keys)]
  BY <1>1 DEF UndoKey
<1>7. /\ HeldBy(other) \subseteq HeldBy(job) /\ HeldBy(job) \subseteq {key} \cup HeldBy(other)
      /\ Informed(other)' /\ other.pc # "delete" /\ (other.pc \notin OnTag => other = Free)
      /\ key \in HeldBy(job)
  <2>1. HeldBy(job) = Members(job.keys)
    BY <1>2, HeldIs
  <2>2. CASE Len(job.keys) = 1
    <3>1. Members(job.keys) = {Head(job.keys)} /\ other = Free
      BY <1>3, <1>6, <2>2, MoreMembers
    <3>. QED
      BY <1>4, <2>1, <3>1, HeldIs DEF Informed, Free
  <2>3. CASE Len(job.keys) # 1
    <3>1. other.pc = "undo" /\ other.keys = Tail(job.keys)
      BY <1>6, <2>3
    <3>2. /\ Members(Tail(job.keys)) \subseteq Members(job.keys)
          /\ Members(job.keys) = {key} \cup Members(Tail(job.keys))
          /\ Tail(job.keys) \in Seq(Key) /\ Tail(job.keys) # <<>>
      BY <1>3, <1>4, <2>3, MoreMembers
    <3>3. HeldBy(other) = Members(Tail(job.keys))
      BY <3>1, HeldIs
    <3>4. Informed(other)' /\ other.pc \in OnTag
      BY <3>1, <3>2 DEF Informed, OnTag
    <3>. QED
      BY <2>1, <3>1, <3>2, <3>3, <3>4
  <2>. QED
    BY <2>2, <2>3
<1>8. KeysApart(other)'
  <2>1. ASSUME NEW t \in Tag, Registered(data, t)
        PROVE  KeysIn(data, t) \subseteq 1..stored /\ KeysIn(data, t) \cap HeldBy(other) = {}
    BY <1>2, <1>7, <2>1 DEF Balanced, KeysApart, KeysOf
  <2>. QED
    BY <1>2, <1>5, <2>1 DEF Balanced, KeysApart, KeysOf
<1>9. \A t \in Tag : Registered(data', t) => Kept(t, other)'
  <2>1. ASSUME NEW t \in Tag, Registered(data, t)
        PROVE  KeysIn(data, t) \subseteq vault' /\ packages[t] \subseteq {data.tags[t].admin} \ {None}
    <3>1. Kept(t, job) /\ KeysIn(data, t) \cap HeldBy(job) = {}
      BY <1>2, <2>1 DEF Balanced, KeysApart, KeysOf
    <3>. QED
      BY <1>2, <1>4, <1>7, <3>1 DEF Kept, KeysOf
  <2>. QED
    BY <1>5, <2>1 DEF Kept, KeysOf
<1>10. vault' \subseteq TagKeys(data') \cup HeldBy(other) /\ HeldBy(other) \subseteq 1..stored'
  BY <1>2, <1>4, <1>5, <1>7 DEF Balanced
<1>11. Balanced(other)'
  BY <1>7, <1>8, <1>9, <1>10 DEF Balanced
<1>. QED
  BY <1>2, <1>6, <1>7, <1>11, AccountGoes

\* Of several numbers one is the least.
LEMMA LeastNumber ==
  ASSUME NEW S \in SUBSET Nat, S # {}
  PROVE  \E n \in S : \A m \in S : n <= m
<1> DEFINE Less == OpToRel(<, Nat)
<1>1. IsWellFoundedOn(Less, Nat)
  BY NatLessThanWellFounded
<1>2. \A m, n \in Nat : <<m, n>> \in Less <=> m < n
  BY DEF OpToRel
<1>. HIDE DEF Less
<1>3. PICK n \in S : \A m \in S : <<m, n>> \notin Less
  BY <1>1, WFMin
<1>4. \A m \in S : m \in Nat /\ n \in Nat /\ ~(m < n)
  BY <1>2, <1>3
<1>. QED
  BY <1>4

\* The next key of a tag is deleted.
LEMMA DeleteKeyKeepsVault ==
  ASSUME Typed, Accounted, NEW a \in Admin, DeleteKey(a)
  PROVE  Accounted'
<1>1. PICK job : job = jobs[a]
  OBVIOUS
<1>2. job.pc = "delete" /\ Balanced(job) /\ Apart(a) /\ JobTyped(job)
  BY <1>1, TagActor DEF DeleteKey, Runs, OnTag
<1>3. job \in [pc : {"delete"}, tag : Tag, keys : SUBSET Key]
  BY <1>2 DEF JobTyped
<1>4. PICK key : /\ key = CHOOSE k \in job.keys : \A l \in job.keys : k <= l
                 /\ vault' = vault \ {key}
                 /\ Becomes(a, [job EXCEPT !.keys = @ \ {key}])
  BY <1>1 DEF DeleteKey
<1>5. key \in job.keys
  <2>1. job.keys \in SUBSET Key /\ job.keys # {}
    BY <1>1, <1>3 DEF DeleteKey
  <2>2. \E k \in job.keys : \A l \in job.keys : k <= l
    BY <2>1, Assumptions, LeastNumber
  <2>. QED
    BY <1>4, <2>2
<1>6. PICK other : other = [job EXCEPT !.keys = @ \ {key}] /\ Becomes(a, other)
  BY <1>4
<1>7. other.pc = "delete" /\ other.tag = job.tag /\ other.keys = job.keys \ {key}
  BY <1>3, <1>6
<1>8. UNCHANGED <<data, stored, packages>> /\ job.tag \in Tag
  BY <1>3 DEF DeleteKey
<1>9. HeldBy(job) = {} /\ HeldBy(other) = {}
  BY <1>2, <1>7, HeldIs
<1>10. /\ Registered(data, job.tag) /\ KeysIn(data, job.tag) \cap vault \subseteq job.keys
       /\ job.keys \subseteq KeysIn(data, job.tag)
  BY <1>2 DEF Balanced, Informed, KeysOf
<1>11. Informed(other)' /\ KeysApart(other)'
  <2>1. Informed(other)'
    BY <1>4, <1>7, <1>8, <1>10 DEF Informed, KeysOf
  <2>. QED
    BY <1>2, <1>8, <1>9, <2>1 DEF Balanced, KeysApart, KeysOf
<1>12. \A t \in Tag : Registered(data', t) => Kept(t, other)'
  <2>1. ASSUME NEW t \in Tag, Registered(data, t), t # job.tag
        PROVE  KeysIn(data, t) \subseteq vault'
    <3>1. KeysIn(data, t) \subseteq vault
      BY <1>2, <2>1 DEF Balanced, Kept, KeysOf
    <3>2. KeysIn(data, t) \cap KeysIn(data, job.tag) = {}
      BY <1>2, <1>8, <1>10, <2>1 DEF Balanced, KeysApart, KeysOf
    <3>. QED
      BY <1>4, <1>5, <1>10, <3>1, <3>2
  <2>2. \A t \in Tag : Registered(data, t) => packages[t] \subseteq {data.tags[t].admin} \ {None}
    BY <1>2 DEF Balanced, Kept
  <2>. QED
    BY <1>7, <1>8, <2>1, <2>2 DEF Kept, KeysOf
<1>13. vault' \subseteq TagKeys(data') \cup HeldBy(other) /\ HeldBy(other) \subseteq 1..stored'
  BY <1>2, <1>4, <1>8, <1>9 DEF Balanced
<1>14. Balanced(other)'
  BY <1>11, <1>12, <1>13 DEF Balanced
<1>. QED
  BY <1>2, <1>6, <1>7, <1>14, AccountGoes DEF OnTag

\* The record goes once its keys are gone.
LEMMA DeleteRecordKeepsVault ==
  ASSUME Typed, Accounted, NEW a \in Admin, DeleteRecord(a)
  PROVE  Accounted'
<1>. FileTyped
  BY DEF Typed
<1>1. PICK job : job = jobs[a]
  OBVIOUS
<1>2. job.pc = "delete" /\ Balanced(job) /\ Apart(a) /\ JobTyped(job)
  BY <1>1, TagActor DEF DeleteRecord, Runs, OnTag
<1>3. PICK t \in Tag : t = job.tag
  BY <1>2 DEF JobTyped
<1>4. Registered(data, t) /\ KeysIn(data, t) \cap vault = {}
  <2>1. job.keys = {}
    BY <1>1 DEF DeleteRecord
  <2>. QED
    BY <1>2, <1>3, <2>1 DEF Balanced, Informed, KeysOf
<1>5. data' = DeleteTag(data, t)
  BY <1>1, <1>3, <1>4 DEF DeleteRecord
<1>6. data'.tags = [data.tags EXCEPT ![t] = None]
  BY <1>5 DEF DeleteTag, FileTyped, Repository
<1>7. ~Registered(data', t) /\ \A u \in Tag \ {t} : data'.tags[u] = data.tags[u]
  BY <1>6 DEF FileTyped, Repository, Registered
<1>8. \A u \in Tag : Registered(data', u) =>
        u # t /\ Registered(data, u) /\ KeysIn(data', u) = KeysIn(data, u)
        /\ data'.tags[u].admin = data.tags[u].admin
  BY <1>7 DEF Registered, KeysIn
<1>9. UNCHANGED <<vault, stored, packages>> /\ Becomes(a, Free)
  BY DEF DeleteRecord
<1>10. HeldBy(Free) = {} /\ HeldBy(job) = {} /\ Informed(Free)'
  BY <1>2, HeldIs DEF Informed, Free
<1>11. KeysApart(Free)'
  BY <1>2, <1>8, <1>9, <1>10 DEF Balanced, KeysApart, KeysOf
<1>12. \A u \in Tag : Registered(data', u) => Kept(u, Free)'
  BY <1>2, <1>3, <1>8, <1>9 DEF Balanced, Kept, KeysOf
<1>13. vault' \subseteq TagKeys(data')
  <2>1. ASSUME NEW k \in vault PROVE k \in TagKeys(data')
    <3>1. k \in TagKeys(data)
      BY <1>2, <1>10, <2>1 DEF Balanced
    <3>2. PICK u \in Tag : Registered(data, u) /\ k \in KeysIn(data, u)
      BY <3>1, TagKeysAre
    <3>3. u # t
      BY <1>4, <2>1, <3>2
    <3>4. Registered(data', u) /\ k \in KeysIn(data', u)
      BY <1>7, <3>2, <3>3 DEF Registered, KeysIn
    <3>. QED
      BY <3>4, TagKeysAre
  <2>. QED
    BY <1>9, <2>1
<1>14. Balanced(Free)'
  BY <1>9, <1>10, <1>11, <1>12, <1>13 DEF Balanced
<1>. QED
  BY <1>2, <1>9, <1>14, AccountGoes DEF OnTag, Free

\* The recorded administrator key is handed out.
LEMMA PackageKnownKeepsVault ==
  ASSUME Typed, StoredTyped, Accounted, NEW a \in Admin, PackageKnown(a)
  PROVE  Accounted'
<1>1. PICK job : job = jobs[a]
  OBVIOUS
<1>2. job.pc = "package" /\ Balanced(job) /\ Apart(a) /\ JobTyped(job)
  BY <1>1, TagActor DEF PackageKnown, Runs, OnTag
<1>3. PICK t \in Tag : t = job.tag
  BY <1>2 DEF JobTyped
<1>4. /\ data.tags[t].admin = job.copy.admin /\ job.copy.admin # None
      /\ packages' = [packages EXCEPT ![t] = @ \cup {job.copy.admin}]
      /\ UNCHANGED <<data, vault, stored>> /\ Becomes(a, Free)
  BY <1>1, <1>2, <1>3 DEF PackageKnown, Balanced, Informed
<1>5. packages'[t] = packages[t] \cup {data.tags[t].admin}
      /\ \A u \in Tag \ {t} : packages'[u] = packages[u]
  BY <1>4 DEF StoredTyped
<1>6. HeldBy(Free) = {} /\ HeldBy(job) = {} /\ Informed(Free)'
  BY <1>2, HeldIs DEF Informed, Free
<1>7. ASSUME NEW u \in Tag, Registered(data, u) PROVE Kept(u, Free)'
  <2>1. KeysIn(data, u) \subseteq vault /\ packages[u] \subseteq {data.tags[u].admin} \ {None}
    BY <1>2, <1>7 DEF Balanced, Kept, KeysOf
  <2>2. packages'[u] \subseteq {data.tags[u].admin} \ {None}
    BY <1>4, <1>5, <2>1
  <2>. QED
    BY <1>4, <2>1, <2>2 DEF Kept, KeysOf
<1>8. KeysApart(Free)'
  BY <1>2, <1>4, <1>6 DEF Balanced, KeysApart, KeysOf
<1>9. Balanced(Free)'
  BY <1>2, <1>4, <1>6, <1>7, <1>8 DEF Balanced
<1>. QED
  BY <1>2, <1>4, <1>9, AccountGoes DEF OnTag, Free

\* A tag without an administrator key has one stored.
LEMMA StoreAdminKeyKeepsVault ==
  ASSUME Typed, StoredTyped, Accounted, NEW a \in Admin, StoreAdminKey(a)
  PROVE  Accounted'
<1>1. PICK job : job = jobs[a]
  OBVIOUS
<1>2. job.pc = "package" /\ Balanced(job) /\ Apart(a)
  BY <1>1, TagActor DEF StoreAdminKey, Runs, OnTag
<1>3. PICK other : other = [pc |-> "attach", tag |-> job.tag, keys |-> <<NextKey>>]
                   /\ Becomes(a, other)
  BY <1>1 DEF StoreAdminKey
<1>4. other.pc = "attach" /\ other.tag = job.tag /\ other.keys = <<NextKey>>
  BY <1>3
<1>5. /\ vault' = vault \cup {NextKey} /\ stored' = NextKey /\ UNCHANGED <<data, packages>>
      /\ Registered(data, job.tag) /\ data.tags[job.tag].admin = None
  BY <1>1, <1>2 DEF StoreAdminKey, Balanced, Informed
<1>6. HeldBy(job) = {} /\ HeldBy(other) = {NextKey}
  BY <1>2, <1>4, HeldIs, FewMembers
<1>7. Informed(other)'
  BY <1>4, <1>5, <1>6 DEF Informed
<1>8. Balanced(other)'
  BY <1>2, <1>4, <1>5, <1>6, <1>7, StoredKeyHeld
<1>. QED
  BY <1>2, <1>3, <1>4, <1>8, AccountGoes DEF OnTag

\* The tag obtains the key that was stored for it, which is handed out.
LEMMA AttachKeepsVault ==
  ASSUME Typed, StoredTyped, Accounted, NEW a \in Admin, AttachAdminKey(a)
  PROVE  Accounted'
<1>. FileTyped
  BY DEF Typed
<1>1. PICK job : job = jobs[a]
  OBVIOUS
<1>2. job.pc = "attach" /\ Balanced(job) /\ Apart(a) /\ JobTyped(job)
  BY <1>1, TagActor DEF AttachAdminKey, Runs, OnTag
<1>3. PICK t \in Tag : t = job.tag
  BY <1>2 DEF JobTyped
<1>4. Registered(data, t) /\ data.tags[t].admin = None
  BY <1>2, <1>3 DEF Balanced, Informed
<1>5. PICK key \in Key : job.keys = <<key>>
  <2>1. PICK key : job.keys = <<key>>
    BY <1>2 DEF Balanced, Informed
  <2>2. job.keys[1] \in Key
    BY <1>2 DEF JobTyped
  <2>. QED
    BY <2>1, <2>2
<1>6. HeldBy(job) = {key} /\ HeldBy(Free) = {} /\ Informed(Free)'
  BY <1>2, <1>5, HeldIs, FewMembers DEF Informed, Free
<1>7. /\ data' = SetTagAdminKey(data, t, key)
      /\ packages' = [packages EXCEPT ![t] = @ \cup {key}]
      /\ UNCHANGED <<vault, stored>> /\ Becomes(a, Free)
  <2>1. job.keys[1] = key
    BY <1>5
  <2>. QED
    BY <1>1, <1>3, <1>4, <2>1 DEF AttachAdminKey
<1>8. /\ data'.tags[t] # None /\ data'.tags[t].keys = data.tags[t].keys /\ data'.tags[t].admin = key
      /\ \A u \in Tag \ {t} : data'.tags[u] = data.tags[u]
  <2>1. data.tags[t] \in NfcTags
    BY <1>4, Parts DEF FileTyped
  <2>2. PICK tag : tag = [data.tags[t] EXCEPT !.admin = key]
    OBVIOUS
  <2>3. tag \in NfcTags /\ tag.keys = data.tags[t].keys /\ tag.admin = key
    BY <2>1, <2>2 DEF NfcTags
  <2>4. data' = [data EXCEPT !.tags[t] = tag]
    BY <1>7, <2>2 DEF SetTagAdminKey
  <2>5. data'.tags = [data.tags EXCEPT ![t] = tag]
    BY <2>3, <2>4, TagReplaced DEF FileTyped
  <2>6. data.tags \in [Tag -> NfcTags \cup {None}] /\ None \notin NfcTags
    BY Assumptions DEF FileTyped, Repository
  <2>. QED
    BY <2>3, <2>5, <2>6
<1>9. key # None
  <2>1. Key \subseteq Nat /\ None \notin Int
    BY Assumptions
  <2>2. \A n \in Nat : n \in Int
    OBVIOUS
  <2>3. key \in Nat
    BY <2>1
  <2>. QED
    BY <2>1, <2>2, <2>3, Zenon
<1>10. Registered(data', t) /\ KeysIn(data', t) = KeysIn(data, t) \cup {key}
  BY <1>4, <1>8, <1>9 DEF Registered, KeysIn
<1>11. \A u \in Tag \ {t} : /\ Registered(data', u) <=> Registered(data, u)
                            /\ KeysIn(data', u) = KeysIn(data, u)
  BY <1>8 DEF Registered, KeysIn
<1>12. key \in 1..stored /\ key \in vault
  BY <1>2, <1>6 DEF Balanced, Informed
<1>13. KeysApart(Free)'
  <2>1. ASSUME NEW u \in Tag, Registered(data', u)
        PROVE  /\ Registered(data, u) /\ KeysIn(data', u) \subseteq 1..stored
               /\ u # t => key \notin KeysIn(data, u)
    <3>1. Registered(data, u)
      BY <1>4, <1>11, <2>1
    <3>2. KeysIn(data, u) \subseteq 1..stored /\ KeysIn(data, u) \cap {key} = {}
      BY <1>2, <1>6, <3>1 DEF Balanced, KeysApart, KeysOf
    <3>. QED
      BY <1>10, <1>11, <1>12, <3>1, <3>2
  <2>2. ASSUME NEW u \in Tag, NEW v \in Tag, Registered(data', u), Registered(data', v), u # v
        PROVE  KeysIn(data', u) \cap KeysIn(data', v) = {}
    <3>1. KeysIn(data, u) \cap KeysIn(data, v) = {}
      BY <1>2, <2>1, <2>2 DEF Balanced, KeysApart, KeysOf
    <3>2. CASE u = t
      BY <1>10, <1>11, <2>1, <2>2, <3>1, <3>2
    <3>3. CASE v = t
      BY <1>10, <1>11, <2>1, <2>2, <3>1, <3>3
    <3>4. CASE u # t /\ v # t
      BY <1>11, <3>1, <3>4
    <3>. QED
      BY <3>2, <3>3, <3>4
  <2>. QED
    BY <1>6, <1>7, <2>1, <2>2 DEF KeysApart, KeysOf
<1>14. vault' \subseteq TagKeys(data')
  <2>1. ASSUME NEW k \in TagKeys(data) PROVE k \in TagKeys(data')
    <3>1. PICK u \in Tag : Registered(data, u) /\ k \in KeysIn(data, u)
      BY TagKeysAre
    <3>2. Registered(data', u) /\ k \in KeysIn(data', u)
      BY <1>10, <1>11, <3>1
    <3>. QED
      BY <3>2, TagKeysAre
  <2>2. key \in TagKeys(data')
    BY <1>10, TagKeysAre
  <2>. QED
    BY <1>2, <1>6, <1>7, <2>1, <2>2 DEF Balanced
<1>15. ASSUME NEW u \in Tag, Registered(data', u) PROVE Kept(u, Free)'
  <2>1. Registered(data, u)
    BY <1>4, <1>11, <1>15
  <2>2. KeysIn(data, u) \subseteq vault /\ packages[u] \subseteq {data.tags[u].admin} \ {None}
    BY <1>2, <2>1 DEF Balanced, Kept, KeysOf
  <2>3. CASE u = t
    <3>1. packages'[t] = packages[t] \cup {key}
      BY <1>7 DEF StoredTyped
    <3>2. packages[t] = {}
      BY <1>4, <2>2, <2>3
    <3>. QED
      BY <1>7, <1>8, <1>9, <1>10, <1>12, <2>2, <2>3, <3>1, <3>2 DEF Kept, KeysOf
  <2>4. CASE u # t
    <3>1. packages'[u] = packages[u]
      BY <1>7, <2>4 DEF StoredTyped
    <3>. QED
      BY <1>7, <1>8, <1>11, <2>2, <2>4, <3>1 DEF Kept, KeysOf
  <2>. QED
    BY <2>3, <2>4
<1>16. Balanced(Free)'
  BY <1>6, <1>13, <1>14, <1>15 DEF Balanced
<1>. QED
  BY <1>2, <1>7, <1>16, AccountGoes DEF OnTag, Free

\* The vault did not answer when a tag was to be protected.
LEMMA FailPackageKeepsVault ==
  ASSUME Typed, Accounted, NEW a \in Admin, FailTag(a), ~unsure'
  PROVE  Accounted'
<1>1. PICK job : job = jobs[a]
  OBVIOUS
<1>2. job.pc = "package"
  BY <1>1 DEF FailTag, Runs
<1>3. Balanced(job) /\ Apart(a)
  BY <1>1, <1>2, TagActor DEF OnTag
<1>4. HeldBy(job) = {} /\ HeldBy(Free) = {} /\ Informed(Free) /\ job.pc # "delete"
  BY <1>2, HeldIs DEF Informed, Free
<1>5. UNCHANGED <<data, vault, stored, packages>> /\ Becomes(a, Free)
  BY DEF FailTag
<1>6. Balanced(Free)'
  BY <1>3, <1>4, <1>5, HandedOver
<1>. QED
  BY <1>3, <1>5, <1>6, AccountGoes DEF OnTag, Free

\* The process ends while nobody is on a tag.
LEMMA RestartKeepsVault ==
  ASSUME Typed, Accounted, Restart, ~Busy
  PROVE  Accounted'
<1>1. PICK job : Only(job) /\ Balanced(job)
  BY DEF Accounted
<1>2. job = Free /\ \A a \in Admin : jobs[a].pc \notin OnTag
  BY <1>1 DEF Only, Busy, OnTag
<1>3. UNCHANGED <<data, vault, stored, packages>> /\ jobs' = [a \in Admin |-> Free]
  BY DEF Restart
<1>4. ActionsStay /\ KeysStay(data, data')
  BY <1>2, <1>3, SameTags DEF ActionsStay, OnTag, Free
<1>. QED
  BY <1>3, <1>4, AccountStays DEF VaultQuiet

(***************************************************************************)
(* The account is kept, and what is sure stays so unless it says so.       *)
(***************************************************************************)

\* At first the vault has the keys of the tags.
LEMMA VaultInit ==
  ASSUME Init
  PROVE  VaultInv
<1>1. PICK i \in Installations :
        /\ data = i.data /\ stored = i.stored /\ vault = 1..i.stored
        /\ jobs = [a \in Admin |-> Free] /\ packages = [t \in Tag |-> {}]
  BY DEF Init
<1>2. /\ i.data \in Repository /\ i.stored \in Nat /\ TagKeys(i.data) = 1..i.stored
      /\ \A t, u \in Tag : Registered(i.data, t) /\ Registered(i.data, u) /\ t # u =>
           KeysIn(i.data, t) \cap KeysIn(i.data, u) = {}
  BY Assumptions
<1>3. \A t \in Tag : Registered(data, t) => KeysIn(data, t) \subseteq TagKeys(data)
  BY TagKeysAre
<1>4. TagKeys(data) \subseteq Key
  <2>1. ASSUME NEW t \in Tag, Registered(data, t) PROVE KeysIn(data, t) \subseteq Key
    <3>1. data.tags[t] \in NfcTags
      BY <1>1, <1>2, <2>1, Parts
    <3>. QED
      BY <3>1 DEF NfcTags, KeysIn
  <2>. QED
    BY <2>1, TagKeysAre
<1>5. StoredTyped
  BY <1>1, <1>2, <1>4 DEF StoredTyped
<1>6. HeldBy(Free) = {} /\ Informed(Free) /\ Only(Free)
  BY <1>1, HeldIs DEF Informed, Free, Only, OnTag
<1>7. KeysApart(Free)
  BY <1>1, <1>2, <1>3, <1>6 DEF KeysApart, KeysOf
<1>8. \A t \in Tag : Registered(data, t) => Kept(t, Free)
  BY <1>1, <1>2, <1>3 DEF Kept, KeysOf
<1>9. Balanced(Free)
  BY <1>1, <1>2, <1>6, <1>7, <1>8 DEF Balanced
<1>. QED
  BY <1>5, <1>6, <1>9 DEF VaultInv, Accounted

\* What is stored keeps its type.
LEMMA StoredStays ==
  ASSUME StoredTyped,
         \/ UNCHANGED stored /\ vault' \subseteq vault
         \/ stored' = NextKey /\ vault' = vault \cup {NextKey} /\ NextKey \in Key,
         DOMAIN packages' = Tag
  PROVE  StoredTyped'
<1>1. CASE UNCHANGED stored /\ vault' \subseteq vault
  BY <1>1 DEF StoredTyped
<1>2. CASE stored' = NextKey /\ vault' = vault \cup {NextKey} /\ NextKey \in Key
  <2>1. NextKey = stored + 1 /\ stored \in Nat
    BY DEF StoredTyped, NextKey
  <2>2. NextKey \in Nat /\ 1..NextKey = (1..stored) \cup {NextKey}
    BY <2>1
  <2>. QED
    BY <1>2, <2>2 DEF StoredTyped
<1>. QED
  BY <1>1, <1>2

\* An action on a tag stores a key, deletes keys, or leaves the vault.
LEMMA TagStepStored ==
  ASSUME StoredTyped, NEW a \in Admin, TagStarts(a) \/ TagSteps(a)
  PROVE  StoredTyped' /\ (unsure => unsure')
<1>1. ASSUME TagStarts(a) PROVE StoredTyped' /\ (unsure => unsure')
  BY <1>1, StoredStays DEF TagStarts, StartPrepare, StartDelete, StartProtection, StoredTyped
<1>2. ASSUME StoreKey(a) \/ StoreAdminKey(a) PROVE StoredTyped' /\ (unsure => unsure')
  BY <1>2, StoredStays DEF StoreKey, StoreAdminKey, StoredTyped
<1>3. ASSUME \/ RecordTag(a) \/ FailPrepare(a) \/ UndoKey(a) \/ DeleteKey(a) \/ DeleteRecord(a)
             \/ PackageKnown(a) \/ AttachAdminKey(a) \/ FailAttach(a) \/ FailTag(a)
      PROVE  StoredTyped' /\ (unsure => unsure')
  <2>1. UNCHANGED stored /\ vault' \subseteq vault
    <3>1. CASE UndoKey(a)
      BY <3>1 DEF UndoKey
    <3>2. CASE DeleteKey(a)
      BY <3>2 DEF DeleteKey
    <3>3. CASE ~UndoKey(a) /\ ~DeleteKey(a)
      BY <1>3, <3>3 DEF RecordTag, FailPrepare, DeleteRecord, PackageKnown, AttachAdminKey,
         FailAttach, FailTag
    <3>. QED
      BY <3>1, <3>2, <3>3
  <2>3. unsure => unsure'
    BY <1>3 DEF RecordTag, FailPrepare, UndoKey, DeleteKey, DeleteRecord, PackageKnown,
       AttachAdminKey, FailAttach, FailTag
  <2>2. DOMAIN packages' = DOMAIN packages
    BY <1>3 DEF RecordTag, FailPrepare, UndoKey, DeleteKey, DeleteRecord, PackageKnown,
       AttachAdminKey, FailAttach, FailTag
  <2>. QED
    BY <2>1, <2>2, <2>3, StoredStays DEF StoredTyped
<1>. QED
  BY <1>1, <1>2, <1>3 DEF TagSteps

\* An action on a tag keeps the account while all is sure.
LEMMA TagStepKeepsVault ==
  ASSUME Typed, ReadingInv, StoredTyped, Accounted, ~unsure', NEW a \in Admin,
         TagStarts(a) \/ TagSteps(a)
  PROVE  Accounted'
<1>1. ASSUME TagStarts(a) PROVE Accounted'
  <2>1. ~Busy
    BY <1>1 DEF TagStarts, StartPrepare, StartDelete, StartProtection
  <2>. QED
    BY <1>1, <2>1, StartKeepsVault
<1>2. ASSUME TagSteps(a) PROVE Accounted'
  BY <1>2, StoreKeyKeepsVault, RecordTagKeepsVault, FailKeepsVault, UndoKeyKeepsVault,
     DeleteKeyKeepsVault, DeleteRecordKeepsVault, PackageKnownKeepsVault, StoreAdminKeyKeepsVault,
     AttachKeepsVault, FailPackageKeepsVault DEF TagSteps
<1>. QED
  BY <1>1, <1>2

\* The account is kept by every step.
LEMMA VaultStep ==
  ASSUME Typed, ReadingInv, VaultInv, [Next]_vars
  PROVE  VaultInv'
<1>1. ASSUME VaultQuiet, UNCHANGED unsure PROVE VaultInv'
  <2>1. StoredTyped'
    BY <1>1 DEF VaultQuiet, VaultInv, StoredTyped
  <2>. QED
    BY <1>1, <2>1, AccountStays DEF VaultInv
<1>2. CASE Visit /\ UNCHANGED admin
  BY <1>1, <1>2, VisitVaultQuiet
<1>3. CASE UNCHANGED vars
  BY <1>1, <1>3, SameTags DEF vars, access, admin, VaultQuiet, ActionsStay
<1>4. CASE Administer
  <2>1. ASSUME NEW a \in Admin, TagStarts(a) \/ TagSteps(a) PROVE VaultInv'
    BY <2>1, TagStepStored, TagStepKeepsVault DEF VaultInv
  <2>2. ASSUME Restart PROVE VaultInv'
    <3>1. StoredTyped' /\ (unsure => unsure')
      BY <2>2, StoredStays DEF Restart, StoredTyped, VaultInv
    <3>2. ~unsure' => ~Busy
      BY <2>2 DEF Restart
    <3>. QED
      BY <2>2, <3>1, <3>2, RestartKeepsVault DEF VaultInv
  <2>. QED
    BY <1>1, <1>4, <2>1, <2>2, AdminVaultQuiet
<1>. QED
  BY <1>2, <1>3, <1>4 DEF Next

\* The keys are accounted for.
LEMMA VaultAlways == Spec => []VaultInv
<1>1. Init => VaultInv
  BY VaultInit
<1>2. Typed /\ ReadingInv /\ VaultInv /\ [Next]_vars => VaultInv'
  BY VaultStep
<1>. QED
  BY <1>1, <1>2, TypedAlways, ReadingAlways, PTL DEF Spec

\* While no action on a tag was cut or met another, the vault holds the keys of
\* the registered tags and of the action under way, and nothing else, and only
\* the administrator key that is recorded was handed out: prepare_tag,
\* delete_tag and prepare_tag_protection keep the vault and the file of the
\* repository together, whatever visitors and other administrators do.
THEOREM VaultFollowsTagsAlways == Spec => []VaultFollowsTags
<1>1. VaultInv => VaultFollowsTags
  <2>. SUFFICES ASSUME VaultInv, ~unsure PROVE VaultFollowsTags
    BY DEF VaultFollowsTags
  <2>1. PICK job : Only(job) /\ Balanced(job)
    BY DEF VaultInv, Accounted
  <2>2. HeldBy(job) \subseteq UNION {HeldBy(jobs[a]) : a \in Admin}
    <3>1. CASE job = Free
      BY <3>1, HeldIs
    <3>2. CASE \E a \in Admin : jobs[a] = job
      BY <3>2
    <3>. QED
      BY <2>1, <3>1, <3>2 DEF Only
  <2>3. ASSUME NEW t \in Tag, Registered(data, t)
        PROVE  /\ KeysOf(t) \subseteq vault \/ \E a \in Admin : Runs(a, "delete") /\ jobs[a].tag = t
               /\ packages[t] \subseteq {data.tags[t].admin}
    <3>1. Kept(t, job)
      BY <2>1, <2>3 DEF Balanced
    <3>2. job.pc = "delete" => \E a \in Admin : jobs[a] = job
      BY <2>1 DEF Only, Free
    <3>. QED
      BY <3>1, <3>2 DEF Kept, Runs
  <2>. QED
    BY <2>1, <2>2, <2>3 DEF VaultFollowsTags, Balanced
<1>. QED
  BY <1>1, VaultAlways, PTL

(***************************************************************************)
(* No store outgrows its bound: the item that expires first makes room.    *)
(***************************************************************************)
Bounded(items, values, top) ==
  /\ IsFiniteSet(items) /\ Cardinality(items) <= MaxItems
  /\ \A i \in items : i.token \in 1..top /\ i.value \in values /\ i.expires \in Nat

\* Some item of several is the one to go.
LEMMA SomeOldest ==
  ASSUME NEW items, items # {}, \A i \in items : i.token \in Nat /\ i.expires \in Nat
  PROVE  Oldest(items) # {}
<1>1. PICK e \in {i.expires : i \in items} : \A f \in {i.expires : i \in items} : e <= f
  BY LeastNumber
<1>2. {i \in items : i.expires = e} # {}
  BY <1>1
<1>3. PICK n \in {i.token : i \in {j \in items : j.expires = e}} :
        \A m \in {i.token : i \in {j \in items : j.expires = e}} : n <= m
  BY <1>2, LeastNumber
<1>4. PICK i \in items : i.expires = e /\ i.token = n
  BY <1>3
<1>5. ASSUME NEW j \in items
      PROVE  i.expires < j.expires \/ (i.expires = j.expires /\ i.token <= j.token)
  <2>1. e <= j.expires /\ e \in Nat /\ j.expires \in Nat
    BY <1>1, <1>4
  <2>2. j.expires = e => n <= j.token
    BY <1>3
  <2>. QED
    BY <1>4, <2>1, <2>2
<1>6. i \in Oldest(items)
  BY <1>5 DEF Oldest
<1>. QED
  BY <1>6

\* A part of a store is bounded as the store is.
LEMMA PartBounded ==
  ASSUME NEW items, NEW part, part \subseteq items, NEW values, NEW top \in Nat, NEW higher \in Nat,
         top <= higher, Bounded(items, values, top)
  PROVE  Bounded(part, values, higher)
<1>1. IsFiniteSet(part) /\ Cardinality(part) <= Cardinality(items)
      /\ Cardinality(part) \in Nat /\ Cardinality(items) \in Nat
  BY FS_Subset, FS_CardinalityType DEF Bounded
<1>2. Cardinality(part) <= MaxItems
  BY <1>1, MaxItemsAssumption DEF Bounded
<1>3. \A n \in 1..top : n \in 1..higher
  OBVIOUS
<1>. QED
  BY <1>1, <1>2, <1>3 DEF Bounded

\* There is room for one more.
LEMMA RoomMade ==
  ASSUME NEW items, IsFiniteSet(items), Cardinality(items) <= MaxItems,
         \A i \in items : i.token \in Nat /\ i.expires \in Nat
  PROVE  /\ Room(items) \subseteq items /\ IsFiniteSet(Room(items))
         /\ Cardinality(Room(items)) + 1 <= MaxItems
<1>1. Cardinality(items) \in Nat /\ MaxItems \in Nat \ {0}
  BY FS_CardinalityType, MaxItemsAssumption
<1>2. CASE Cardinality(items) >= MaxItems
  <2>1. Room(items) = items \ Oldest(items)
    BY <1>2 DEF Room
  <2>2. items # {}
    BY <1>1, <1>2, FS_EmptySet
  <2>3. PICK i \in items : i \notin Room(items)
    BY <2>1, <2>2, SomeOldest DEF Oldest
  <2>4. Room(items) \subseteq items \ {i}
    BY <2>1, <2>3
  <2>5. IsFiniteSet(items \ {i}) /\ Cardinality(items \ {i}) = Cardinality(items) - 1
    BY FS_RemoveElement
  <2>6. IsFiniteSet(Room(items)) /\ Cardinality(Room(items)) <= Cardinality(items \ {i})
        /\ Cardinality(Room(items)) \in Nat
    BY <2>4, <2>5, FS_Subset, FS_CardinalityType
  <2>. QED
    BY <1>1, <2>4, <2>5, <2>6
<1>3. CASE ~(Cardinality(items) >= MaxItems)
  <2>1. Room(items) = items
    BY <1>3 DEF Room
  <2>. QED
    BY <1>1, <1>3, <2>1
<1>. QED
  BY <1>2, <1>3

\* A store that issues a token stays within its bound.
LEMMA IssuedBounded ==
  ASSUME NEW items, NEW values, NEW top \in Nat, Bounded(items, values, top),
         NEW value \in values, NEW instant \in Nat, NEW ttl \in Nat
  PROVE  Bounded(Issued(items, top + 1, value, instant, ttl), values, top + 1)
<1>1. PICK part : part = Unexpired(items, instant) /\ part \subseteq items
  BY DEF Unexpired
<1>2. Bounded(part, values, top)
  BY <1>1, PartBounded
<1>3. PICK left : left = Room(part)
  OBVIOUS
<1>4. left \subseteq part /\ IsFiniteSet(left) /\ Cardinality(left) + 1 <= MaxItems
  BY <1>2, <1>3, RoomMade DEF Bounded
<1>5. PICK item : item = Item(top + 1, value, instant + ttl)
  OBVIOUS
<1>6. item.token = top + 1 /\ item.value = value /\ item.expires = instant + ttl
  BY <1>5 DEF Item
<1>7. item \notin left
  BY <1>2, <1>4, <1>6 DEF Bounded
<1>8. IsFiniteSet(left \cup {item}) /\ Cardinality(left \cup {item}) = Cardinality(left) + 1
  BY <1>4, <1>7, FS_AddElement
<1>9. Issued(items, top + 1, value, instant, ttl) = left \cup {item}
  BY <1>1, <1>3, <1>5 DEF Issued
<1>10. \A i \in left \cup {item} : i.token \in 1..(top + 1) /\ i.value \in values /\ i.expires \in Nat
  BY <1>2, <1>4, <1>6 DEF Bounded
<1>. QED
  BY <1>4, <1>8, <1>9, <1>10 DEF Bounded

\* A store that consumes a token, or forgets, stays within its bound.
LEMMA ConsumedBounded ==
  ASSUME NEW items, NEW values, NEW top \in Nat, Bounded(items, values, top), NEW token, NEW instant
  PROVE  /\ Bounded(Consumed(items, token, instant), values, top)
         /\ Bounded(Unexpired(items, instant), values, top)
         /\ Bounded(items, values, top + 1) /\ Bounded(Unexpired(items, instant), values, top + 1)
<1>1. Consumed(items, token, instant) \subseteq items /\ Unexpired(items, instant) \subseteq items
  BY DEF Consumed, Unexpired
<1>. QED
  BY <1>1, PartBounded

StoresInv ==
  /\ issued \in 0..LastToken
  /\ Bounded(taps, Taps, issued)
  /\ Bounded(ceremonies, Token, issued)
  /\ Bounded(enrolments, Sessions, issued)

\* At first nothing was issued.
LEMMA StoresInit ==
  ASSUME Init
  PROVE  StoresInv
<1>1. taps = {} /\ ceremonies = {} /\ enrolments = {} /\ issued = 0
  BY DEF Init
<1>2. \A values : Bounded({}, values, 0)
  BY FS_EmptySet, MaxItemsAssumption DEF Bounded
<1>. QED
  BY <1>1, <1>2, Assumptions DEF StoresInv

IssuesNext == issued' = issued + 1 /\ issued < LastToken

\* While one store issues the next token, the others stay within their bounds.
LEMMA NextToken ==
  ASSUME StoresInv, IssuesNext
  PROVE  /\ issued \in Nat /\ issued + 1 \in Nat /\ issued' \in 0..LastToken
         /\ Bounded(taps, Taps, issued') /\ Bounded(ceremonies, Token, issued')
         /\ Bounded(enrolments, Sessions, issued')
<1>1. issued \in Nat /\ issued' = issued + 1 /\ issued' \in 0..LastToken
  BY Assumptions DEF StoresInv, IssuesNext
<1>. QED
  BY <1>1, ConsumedBounded DEF StoresInv

\* A visitor is given tokens, and consumes them.
LEMMA VisitKeepsStores ==
  ASSUME Typed, StoresInv, Visit
  PROVE  StoresInv'
<1>. FileTyped /\ RequestsTyped
  BY DEF Typed
<1>. USE DEF past
<1>0. now \in Nat /\ issued \in Nat /\ {TapTtl, CeremonyTtl, EnrolTtl} \subseteq Nat
  BY Assumptions DEF FileTyped, StoresInv
<1>1. ASSUME UNCHANGED <<taps, ceremonies, enrolments, issued>> PROVE StoresInv'
  BY <1>1 DEF StoresInv
<1>2. ASSUME NEW r \in Request, IssueTap(r) PROVE StoresInv'
  <2>1. requests[r].tap \in Taps
    BY <1>2 DEF IssueTap, At, RequestsTyped, RequestTyped
  <2>2. /\ taps' = Issued(taps, issued + 1, requests[r].tap, now, TapTtl)
        /\ IssuesNext /\ UNCHANGED <<ceremonies, enrolments>>
    BY <1>2 DEF IssueTap, IssuesNext
  <2>3. Bounded(taps', Taps, issued + 1)
    BY <1>0, <2>1, <2>2, IssuedBounded DEF StoresInv
  <2>. QED
    BY <2>2, <2>3, NextToken DEF StoresInv, IssuesNext
<1>3. ASSUME NEW token \in Token, Challenge(token) PROVE StoresInv'
  <2>1. /\ ceremonies' = Issued(ceremonies, issued + 1, token, now, CeremonyTtl)
        /\ taps' = Unexpired(taps, now) /\ IssuesNext /\ UNCHANGED enrolments
    BY <1>3 DEF Challenge, IssuesNext
  <2>2. Bounded(ceremonies', Token, issued + 1)
    BY <1>0, <2>1, IssuedBounded DEF StoresInv
  <2>3. Bounded(taps', Taps, issued + 1)
    BY <1>0, <2>1, ConsumedBounded DEF StoresInv
  <2>. QED
    BY <2>1, <2>2, <2>3, NextToken DEF StoresInv, IssuesNext
<1>4. ASSUME NEW i \in Invite, Register(i) PROVE StoresInv'
  <2>1. data.invites[i] \in Invites
    BY <1>4, Parts DEF Register, InviteActive, FileTyped
  <2>2. PICK session : session = [invite |-> i, person |-> data.invites[i].person]
    OBVIOUS
  <2>3. session \in Sessions
    BY <2>1, <2>2 DEF Sessions, Invites
  <2>4. /\ enrolments' = Issued(enrolments, issued + 1, session, now, EnrolTtl)
        /\ IssuesNext /\ UNCHANGED <<taps, ceremonies>>
    BY <1>4, <2>2 DEF Register, IssuesNext
  <2>5. Bounded(enrolments', Sessions, issued + 1)
    BY <1>0, <2>3, <2>4, IssuedBounded DEF StoresInv
  <2>. QED
    BY <2>4, <2>5, NextToken DEF StoresInv, IssuesNext
<1>5. ASSUME NEW r \in Request, NEW ceremony \in Token, NEW k \in Passkey, Answer(r, ceremony, k)
      PROVE  StoresInv'
  BY <1>0, <1>5, ConsumedBounded DEF Answer, StoresInv
<1>6. ASSUME NEW r \in Request, NEW ceremony \in Token, NEW k \in Passkey, Attest(r, ceremony, k)
      PROVE  StoresInv'
  BY <1>0, <1>6, ConsumedBounded DEF Attest, StoresInv
<1>7. ASSUME NEW r \in Request, ConsumeTap(r) PROVE StoresInv'
  BY <1>0, <1>7, ConsumedBounded DEF ConsumeTap, StoresInv
<1>8. ASSUME NEW r \in Request,
             \/ \E t \in Tag, counter \in Counter : ReadTag(r, t, counter)
             \/ \E x \in Test : ReadTestTag(r, x)
             \/ VerifyReading(r) \/ ClaimReading(r) \/ Authenticate(r) \/ CheckGrant(r)
             \/ Decide(r) \/ Operate(r) \/ Enrol(r) \/ End(r)
      PROVE  StoresInv'
  BY <1>1, <1>8 DEF ReadTag, ReadTestTag, VerifyReading, ClaimReading, Authenticate, CheckGrant,
     Decide, Operate, Enrol, End
<1>9. CASE Pass
  BY <1>1, <1>9 DEF Pass, memory
<1>. QED
  BY <1>2, <1>3, <1>4, <1>5, <1>6, <1>7, <1>8, <1>9 DEF Visit

\* The administrators leave the stores, and a restart empties them.
LEMMA AdminKeepsStores ==
  ASSUME Typed, StoresInv, Administer
  PROVE  StoresInv'
<1>1. CASE Restart
  <2>1. taps' = {} /\ ceremonies' = {} /\ enrolments' = {} /\ UNCHANGED issued
    BY <1>1 DEF Restart
  <2>2. \A values : Bounded({}, values, issued)
    BY FS_EmptySet, MaxItemsAssumption DEF Bounded
  <2>. QED
    BY <2>1, <2>2 DEF StoresInv
<1>2. CASE ~Restart
  BY <1>2, AdminLeavesMost DEF AdminLeaves, memory, StoresInv
<1>. QED
  BY <1>1, <1>2

\* The stores stay within their bounds.
LEMMA StoresAlways == Spec => []StoresInv
<1>1. Init => StoresInv
  BY StoresInit
<1>2. Typed /\ StoresInv /\ [Next]_vars => StoresInv'
  <2>. SUFFICES ASSUME Typed, StoresInv, [Next]_vars PROVE StoresInv'
    OBVIOUS
  <2>1. CASE UNCHANGED vars
    BY <2>1 DEF vars, access, memory, StoresInv
  <2>. QED
    BY <2>1, VisitKeepsStores, AdminKeepsStores DEF Next
<1>. QED
  BY <1>1, <1>2, TypedAlways, PTL DEF Spec

\* What is stored has its type, and none of the three stores of tokens outgrows
\* its bound however many tokens visitors are given: what expires first makes
\* room (ExpiringTokenStore).
THEOREM TypeOKAlways == Spec => []TypeOK
<1>1. Typed /\ VaultInv /\ StoresInv => TypeOK
  <2>. SUFFICES ASSUME Typed, VaultInv, StoresInv PROVE TypeOK
    OBVIOUS
  <2>1. Taps \subseteq [tag : Tag \cup Test, door : Door, counter : Counter \cup {None}, test : BOOLEAN]
    BY DEF Taps, Readings, TestReadings
  <2>2. \A items, values : Bounded(items, values, issued) => Store(items, values)
    BY DEF Bounded, Store
  <2>3. \A items, values, wider : values \subseteq wider /\ Store(items, values) => Store(items, wider)
    BY DEF Store
  <2>. QED
    BY <2>1, <2>2, <2>3 DEF TypeOK, Typed, FileTyped, VaultInv, StoredTyped, StoresInv, Sessions, Token
<1>. QED
  BY <1>1, TypedAlways, VaultAlways, StoresAlways, PTL

=============================================================================
