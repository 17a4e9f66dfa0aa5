------------------------ MODULE SynchronizationEvidence ------------------------
(***************************************************************************)
(* What a home's document tells about its locks: the statuses of grants,   *)
(* of metadata and of operations at a door, and the defects of ownership.  *)
(***************************************************************************)
EXTENDS Naturals, FiniteSets

CONSTANTS
  Person, Door,
  Op,          \* lifecycle operations
  Kind,        \* of each operation its type
  None

Pair == Person \X Door

\* Statuses from the least to the most alarming one.
Precedence ==
  <<"synchronized", "unknown", "pending", "synchronizing", "retry_required",
    "manual_attention_required">>

Status == {Precedence[i] : i \in DOMAIN Precedence}

Rank(status) == CHOOSE i \in DOMAIN Precedence : Precedence[i] = status

Aggregate(evidence) ==
  IF evidence = {} THEN "unknown"
  ELSE CHOOSE worst \in evidence : \A other \in evidence : Rank(other) <= Rank(worst)

OperationStatus == {"pending", "running", "waiting_retry", "failed", "completed"}

LifecycleEvidence ==
  [pending |-> "pending", running |-> "synchronizing", waiting_retry |-> "retry_required",
   failed |-> "manual_attention_required", completed |-> "synchronized"]

Exists(d, record, g) == d[record][g] # None

\* Operations that name a door, and those that are not over.
OperationsAt(d, x) == {o \in Op : d.ops[o] # None /\ x \in d.ops[o].targets}
ActiveOf(d, p) ==
  {o \in Op : d.ops[o] # None /\ d.ops[o].person = p /\ d.ops[o].status # "completed"}

RecordsAt(d, x) ==
  {d.metadata[g].status : g \in {h \in Person \X {x} : Exists(d, "metadata", h)}}
  \cup {d.grants[g].status : g \in {h \in Person \X {x} : Exists(d, "grants", h)}}

Evidence(d, x) ==
  RecordsAt(d, x) \cup {LifecycleEvidence[d.ops[o].status] : o \in OperationsAt(d, x)}

(***************************************************************************)
(* integrity_issues_from_snapshot.  Two people in one slot are left out.   *)
(***************************************************************************)
Conflict(d, g) ==
  /\ Exists(d, "metadata", g) /\ Exists(d, "grants", g)
  /\ \/ d.metadata[g].cred # d.grants[g].cred
     \/ (d.metadata[g].status = "synchronized") # (d.grants[g].status = "synchronized")

Orphan(d, g) ==
  /\ d.people[g[1]] = None
  /\ Exists(d, "metadata", g) \/ Exists(d, "grants", g)

Disowned(d, g) ==
  /\ Exists(d, "metadata", g) /\ d.metadata[g].cred # None
  /\ d.authority[g[1]] # None /\ d.authority[g[1]] # d.metadata[g].cred

Blocking(d, x) == \E g \in Person \X {x} : Conflict(d, g) \/ Orphan(d, g) \/ Disowned(d, g)

OneSided(d, g) == Exists(d, "metadata", g) # Exists(d, "grants", g)

Unclaimed(d, g) ==
  \/ Exists(d, "metadata", g) /\ None \in {d.authority[g[1]], d.metadata[g].cred}
  \/ Exists(d, "grants", g) /\ d.authority[g[1]] = None

Issues(d, x) == Blocking(d, x) \/ \E g \in Person \X {x} : OneSided(d, g) \/ Unclaimed(d, g)

\* _evaluate: the worst of the evidence, and no door with a defect is synchronized.
Evaluate(d, x) ==
  LET worst == Aggregate(Evidence(d, x))
  IN IF Blocking(d, x) \/ (worst = "synchronized" /\ Issues(d, x))
     THEN "manual_attention_required" ELSE worst
=============================================================================
