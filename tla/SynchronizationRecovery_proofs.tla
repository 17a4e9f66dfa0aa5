--------------------- MODULE SynchronizationRecovery_proofs ---------------------
(***************************************************************************)
(* Recoveries and the statuses of doors, for any number of people, doors,  *)
(* operations and callers, from documents of any schema.                   *)
(***************************************************************************)
EXTENDS SynchronizationRecovery, FiniteSetTheorems, SequenceTheorems, TLAPS

(***************************************************************************)
(* The steps of calls.  Reports go with a recovery only; a step that       *)
(* writes a relationship is followed by another one, or by a reading: one  *)
(* that records no PIN by the grant, and the grant by a reading.           *)
(***************************************************************************)
Writing == {"metadata", "grant", "newgrant", "dropgrant", "dropmetadata"}
Reading == {"evaluate", "pronounce"}

OfPair ==
  [do : {"dropgrant", "dropmetadata", "evaluate", "pronounce", "alarm"}]
  \cup [do : {"metadata"}, status : Status, cred : Credential \cup {None}]
  \cup [do : {"grant", "newgrant"}, status : Status]
  \cup [do : {"history"}, event : {"other", "failed", "pending"}]

OfOperation ==
  [do : {"observe", "finish"}] \cup [do : {"operate"}, status : OperationStatus \ {"completed"}]

Evaluations ==
  [do : {"upsert"}, door : Door, status : Status, at : Nat, pronounced : BOOLEAN]

Replies ==
  {"seen", "completed", "progress", "attention", "pending", "unconfirmed", "failed",
   "unavailable", "overlap", "refused", "unsafe", "changed", "hopeless"}

Seeing == [do : {"resume", "reevaluate", "reread"}] \cup [do : {"answer"}, said : {"seen"}]
Saying == [do : {"answer"}, said : Replies \ {"seen", "completed"}]
Completing == [do : {"answer"}, said : {"completed"}]

Recovering(k) == "was" \in DOMAIN k

\* The steps that a call can take.
Steps(k) ==
  [do : {"raise"}]
  \cup (IF k.pair = None THEN {} ELSE OfPair)
  \cup (IF k.op = None THEN {} ELSE OfOperation)
  \cup (IF ~Recovering(k) THEN {}
        ELSE Saying \cup (IF k.was = "synchronized" THEN Completing ELSE Seeing))

Continues(step, next) ==
  /\ next.do \in Writing \cup Reading
  /\ step.do = "grant" => next.do \in Reading
  /\ step.do = "metadata" => step.cred # None \/ next.do = "grant"

Linked(steps) ==
  /\ \A i \in 1..Len(steps) : steps[i].do \in Writing =>
       i < Len(steps) /\ Continues(steps[i], steps[i + 1])
  /\ \A i \in 1..Len(steps) : steps[i].do = "upsert" =>
       \A j \in 1..i - 1 : steps[j].do = "upsert" /\ steps[j].door # steps[i].door

Scripts(S) == {steps \in Seq(S) : Linked(steps)}
Guarding(S) == [do : {"except"}, undo : Scripts(S)]

Mild(k) == Steps(k) \cup Guarding(Steps(k))
Wild(k) == Mild(k) \cup Guarding(Mild(k))

(***************************************************************************)
(* The type of a call, and of what it needs of the document.  What a       *)
(* recovery found or read synchronized is so, when it was read last.       *)
(***************************************************************************)
Faithful(k) ==
  k.was = "synchronized" \/ k.seen = "synchronized" => k.fact \in {"works", "gone"}

CallFields == {"pair", "op", "todo", "undo", "failed", "writes"}
RecoveryFields == {"found", "fact", "seen", "was"}

Formed(k) ==
  /\ CallFields \subseteq DOMAIN k /\ Recovering(k) => RecoveryFields \subseteq DOMAIN k
  /\ k.pair \in Pair \cup {None} /\ k.op \in Op \cup {None}
  /\ Recovering(k) => k.pair \in Pair /\ Faithful(k)

CallOK(k) ==
  \/ k = Free
  \/ /\ Formed(k)
     /\ k.todo \in Scripts(Wild(k) \cup Evaluations) /\ k.undo \in Scripts(Wild(k))

(***************************************************************************)
(* The type of the document, when it was loaded.                           *)
(***************************************************************************)
Dated(d, allowed) ==
  /\ d \in Documents
  /\ \A g \in Granted(d) : d.grants[g].status \in allowed
  /\ \A g \in Recorded(d) : d.metadata[g].status \in allowed
  /\ \A o \in Started(d) : Kind[o] = "replacement" => d.ops[o].targets = {e[1] : e \in d.ops[o].expects}

Recent(d) == Dated(d, Status)

Loaded(d) == Recent(d) /\ Valid(d) /\ d.version = Current

Kept ==
  /\ doc \in Documents
  /\ up = "up" => Loaded(doc)
  /\ up = "down" => WellWritten(doc) \/ Loaded(doc)
  /\ \A x \in Door : doc.statuses[x] # None => doc.statuses[x].at <= clock
  /\ up = "up" => \A x \in Door : doc.statuses[x] # None => doc.statuses[x].at > 0

PendingIn(steps) == {steps[i] : i \in {j \in 1..Len(steps) : steps[j].do = "upsert"}}
Pending(c) == PendingIn(call[c].todo)

Called ==
  /\ call = [c \in Caller |-> call[c]]
  /\ \A c \in Caller : CallOK(call[c])
  /\ up # "up" => \A c \in Caller : call[c] = Free
  /\ \A c \in Caller : call[c] # Free /\ call[c].op # None => doc.ops[call[c].op] # None
  /\ \A c \in Caller : \A s \in Pending(c) : s.at <= clock

TypeInv ==
  /\ up \in {"down", "up", "failed"} /\ clock \in Nat
  /\ verdicts \subseteq Door /\ missed \in [Door -> 0..clock]
  /\ Kept /\ Called

(***************************************************************************)
(* A door is settled if a call that may have changed what the document     *)
(* tells of it is about to read it; or if a call left it out, and nobody   *)
(* has read it since; or if the latest of its readings, be it stored or    *)
(* still to be stored, gives what the document gives, or was pronounced.   *)
(***************************************************************************)
Owes(k, x) ==
  /\ k.todo # <<>>
  /\ \/ Head(k.todo).do \in Writing \cup Reading /\ x = k.pair[2]
     \/ Head(k.todo).do = "observe" /\ x \in doc.ops[k.op].targets

Coming(x) == {s \in UNION {Pending(c) : c \in Caller} : s.door = x}

LeftOut(x) == \A at \in {doc.statuses[x].at} \cup {s.at : s \in Coming(x)} : at <= missed[x]

StoredLast(x) ==
  /\ \A s \in Coming(x) : s.at < doc.statuses[x].at
  /\ x \in verdicts \/ doc.statuses[x].status = Evaluate(doc, x)

ComesLast(x, s) ==
  /\ doc.statuses[x].at < s.at
  /\ \A other \in Coming(x) : other = s \/ other.at < s.at
  /\ s.pronounced \/ s.status = Evaluate(doc, x)

Settled(x) ==
  \/ \E c \in Caller : Owes(call[c], x)
  \/ LeftOut(x) \/ StoredLast(x) \/ \E s \in Coming(x) : ComesLast(x, s)

\* No two readings have a time in common.
TimesDiffer ==
  /\ \A c, o \in Caller : \A s \in Pending(c), r \in Pending(o) : c # o => s.at # r.at
  /\ \A c \in Caller : \A s \in Pending(c) :
       doc.statuses[s.door] # None => doc.statuses[s.door].at # s.at

StatusInv ==
  TypeInv /\ TimesDiffer /\ (up = "up" => \A x \in Managed(doc) : Settled(x))

(***************************************************************************)
(* A record that nobody can own is left by a call that writes it after its *)
(* person has gone, and that call is about to read the door.  So a repair  *)
(* changes what the document tells of no door but those.                   *)
(***************************************************************************)
Nursing(k, g) ==
  k.todo # <<>> /\ k.pair = g /\ Head(k.todo).do \in {"grant"} \cup Reading

OrphansOwed ==
  up = "up" => \A g \in Orphans(doc) : \E c \in Caller : Nursing(call[c], g)

(***************************************************************************)
(* The worst of the evidence.                                              *)
(***************************************************************************)

\* The statuses and their ranks.
LEMMA Ranks ==
  /\ Status = {"synchronized", "unknown", "pending", "synchronizing", "retry_required",
               "manual_attention_required"}
  /\ Rank("synchronized") = 1 /\ Rank("unknown") = 2 /\ Rank("pending") = 3
  /\ Rank("synchronizing") = 4 /\ Rank("retry_required") = 5
  /\ Rank("manual_attention_required") = 6
<1>1. /\ DOMAIN Precedence = 1..6
      /\ Precedence[1] = "synchronized" /\ Precedence[2] = "unknown" /\ Precedence[3] = "pending"
      /\ Precedence[4] = "synchronizing" /\ Precedence[5] = "retry_required"
      /\ Precedence[6] = "manual_attention_required"
  BY DEF Precedence
<1>2. 1..6 = {1, 2, 3, 4, 5, 6}
  OBVIOUS
<1>. QED
  BY <1>1, <1>2 DEF Status, Rank

\* Of some statuses one is the worst, and only one.
LEMMA WorstOf ==
  ASSUME NEW E \in SUBSET Status, E # {}
  PROVE  /\ Aggregate(E) \in E
         /\ \A other \in E : Rank(other) <= Rank(Aggregate(E))
<1>1. \E worst \in E : \A other \in E : Rank(other) <= Rank(worst)
  <2>1. CASE "manual_attention_required" \in E
    BY <2>1, Ranks
  <2>2. CASE "manual_attention_required" \notin E /\ "retry_required" \in E
    BY <2>2, Ranks
  <2>3. CASE E \cap {"manual_attention_required", "retry_required"} = {} /\ "synchronizing" \in E
    BY <2>3, Ranks
  <2>4. CASE /\ E \cap {"manual_attention_required", "retry_required", "synchronizing"} = {}
             /\ "pending" \in E
    BY <2>4, Ranks
  <2>5. CASE E \subseteq {"synchronized", "unknown"} /\ "unknown" \in E
    BY <2>5, Ranks
  <2>6. CASE E = {"synchronized"}
    BY <2>6, Ranks
  <2>. QED
    BY <2>1, <2>2, <2>3, <2>4, <2>5, <2>6, Ranks
<1>. QED
  BY <1>1 DEF Aggregate

\* The evidence is a status, and synchronized only if all of it is.
LEMMA Aggregates ==
  ASSUME NEW E \in SUBSET Status
  PROVE  /\ Aggregate(E) \in Status
         /\ Aggregate(E) = "synchronized" => \A s \in E : s = "synchronized"
<1>1. CASE E = {}
  BY <1>1, Ranks DEF Aggregate
<1>2. CASE E # {}
  <2>1. \A s \in Status : Rank(s) <= Rank("synchronized") => s = "synchronized"
    BY Ranks
  <2>. QED
    BY <1>2, <2>1, WorstOf
<1>. QED
  BY <1>1, <1>2

(***************************************************************************)
(* What the document tells of a door.                                      *)
(***************************************************************************)

\* The parts of a document.
LEMMA DocumentParts ==
  ASSUME NEW d \in Documents
  PROVE  /\ \A g \in Granted(d) : d.grants[g] \in Grant
         /\ \A g \in Recorded(d) : d.metadata[g] \in Metadata
         /\ \A x \in Enrolled(d) : d.doors[x] \in Enrolment
         /\ \A o \in Started(d) : d.ops[o] \in LifecycleOperation
         /\ \A x \in Door : d.statuses[x] # None => d.statuses[x] \in DoorStatus
  BY DEF Documents, Granted, Recorded, Enrolled, Started, Exists

\* The statuses of access are read at the pairs of a door.
LEMMA RecordsAtPairs ==
  ASSUME NEW d, NEW x \in Door
  PROVE  /\ \A g \in Pair : g[2] = x /\ Exists(d, "metadata", g) => d.metadata[g].status \in RecordsAt(d, x)
         /\ \A g \in Pair : g[2] = x /\ Exists(d, "grants", g) => d.grants[g].status \in RecordsAt(d, x)
         /\ \A s \in RecordsAt(d, x) : \E g \in Pair : g[2] = x /\
              \/ Exists(d, "metadata", g) /\ s = d.metadata[g].status
              \/ Exists(d, "grants", g) /\ s = d.grants[g].status
<1>1. \A g \in Pair : g[2] = x => g \in Person \X {x}
  BY DEF Pair
<1>2. \A g \in Person \X {x} : g \in Pair /\ g[2] = x
  BY DEF Pair
<1>. QED
  BY <1>1, <1>2 DEF RecordsAt

\* The evidence at a door is of statuses.
LEMMA EvidenceTyped ==
  ASSUME NEW d, Recent(d), NEW x \in Door
  PROVE  Evidence(d, x) \in SUBSET Status
<1>1. \A s \in RecordsAt(d, x) : s \in Status
  BY RecordsAtPairs DEF Recent, Dated, Granted, Recorded
<1>2. \A o \in OperationsAt(d, x) : LifecycleEvidence[d.ops[o].status] \in Status
  <2>1. \A o \in OperationsAt(d, x) : d.ops[o].status \in OperationStatus
    BY DocumentParts DEF Recent, Dated, OperationsAt, Started, LifecycleOperation
  <2>. QED
    BY <2>1, Ranks DEF OperationStatus, LifecycleEvidence
<1>. QED
  BY <1>1, <1>2 DEF Evidence

\* The status of a door is one.
LEMMA EvaluateTyped ==
  ASSUME NEW d, Recent(d), NEW x \in Door
  PROVE  Evaluate(d, x) \in Status
  BY EvidenceTyped, Aggregates, Ranks DEF Evaluate

\* A door that is synchronized has no record that is not, and no half of one.
LEMMA EvaluateTrue ==
  ASSUME NEW d, Recent(d), NEW g \in Pair, Evaluate(d, g[2]) = "synchronized"
  PROVE  Fact(d, g) \in {"works", "gone"}
<1>. DEFINE x == g[2]
<1>0. x \in Door /\ g \in Person \X {x}
  BY DEF Pair
<1>1. Aggregate(Evidence(d, x)) = "synchronized" /\ ~Issues(d, x)
  BY DEF Evaluate
<1>2. \A s \in RecordsAt(d, x) : s = "synchronized"
  BY <1>0, <1>1, EvidenceTyped, Aggregates DEF Evidence
<1>3. ~OneSided(d, g)
  BY <1>0, <1>1 DEF Issues
<1>. QED
  BY <1>0, <1>2, <1>3, RecordsAtPairs DEF OneSided, Fact, Works

\* A relationship that is synchronized has both of its records, and both say so.
LEMMA RelationTrue ==
  ASSUME NEW d, Recent(d), NEW g \in Pair, Relation(d, g) = "synchronized", Exists(d, "grants", g)
  PROVE  Fact(d, g) = "works"
<1>. DEFINE E == {d.grants[g].status, d.metadata[g].status}
                   \cup {LifecycleEvidence[d.ops[o].status] : o \in OperationsOn(d, g)}
<1>1. Exists(d, "metadata", g) /\ Aggregate(E) = "synchronized"
  BY DEF Relation, RelationEvidence
<1>2. E \in SUBSET Status
  <2>1. \A o \in OperationsOn(d, g) : LifecycleEvidence[d.ops[o].status] \in Status
    <3>1. \A o \in OperationsOn(d, g) : d.ops[o].status \in OperationStatus
      BY DocumentParts DEF Recent, Dated, OperationsOn, OperationsAt, Started, LifecycleOperation
    <3>. QED
      BY <3>1, Ranks DEF OperationStatus, LifecycleEvidence
  <2>. QED
    BY <1>1, <2>1 DEF Recent, Dated, Granted, Recorded
<1>3. d.grants[g].status = "synchronized" /\ d.metadata[g].status = "synchronized"
  <2>1. d.grants[g].status \in E /\ d.metadata[g].status \in E
    OBVIOUS
  <2>. HIDE DEF E
  <2>. QED
    BY <1>1, <1>2, <2>1, Aggregates
<1>. QED
  BY <1>1, <1>3 DEF Fact, Works, Exists

\* Documents that tell the same of a door.
SameAt(d, e, x) ==
  /\ \A g \in Pair : g[2] = x =>
       /\ d.metadata[g] = e.metadata[g] /\ d.grants[g] = e.grants[g]
       /\ d.metadata[g] # None \/ d.grants[g] # None =>
            (d.people[g[1]] = None <=> e.people[g[1]] = None) /\ d.authority[g[1]] = e.authority[g[1]]
  /\ OperationsAt(d, x) = OperationsAt(e, x)
  /\ \A o \in OperationsAt(d, x) : d.ops[o].status = e.ops[o].status

\* They give it the same status.
LEMMA SameStatus ==
  ASSUME NEW d, NEW e, NEW x \in Door, SameAt(d, e, x)
  PROVE  Evaluate(d, x) = Evaluate(e, x) /\ Issues(d, x) = Issues(e, x)
<1>0. \A g \in Person \X {x} : g \in Pair /\ g[2] = x
  BY DEF Pair
<1>1. \A g \in Person \X {x} :
        /\ d.metadata[g] = e.metadata[g] /\ d.grants[g] = e.grants[g]
        /\ d.metadata[g] # None \/ d.grants[g] # None =>
             (d.people[g[1]] = None <=> e.people[g[1]] = None) /\ d.authority[g[1]] = e.authority[g[1]]
  BY <1>0 DEF SameAt
<1>2. RecordsAt(d, x) = RecordsAt(e, x)
  <2>1. \A g \in Pair : g[2] = x => /\ Exists(d, "metadata", g) <=> Exists(e, "metadata", g)
                                    /\ Exists(d, "grants", g) <=> Exists(e, "grants", g)
                                    /\ d.metadata[g] = e.metadata[g] /\ d.grants[g] = e.grants[g]
    BY DEF SameAt, Exists
  <2>2. \A s \in RecordsAt(d, x) : s \in RecordsAt(e, x)
    BY <2>1, RecordsAtPairs
  <2>3. \A s \in RecordsAt(e, x) : s \in RecordsAt(d, x)
    BY <2>1, RecordsAtPairs
  <2>. QED
    BY <2>2, <2>3
<1>3. Evidence(d, x) = Evidence(e, x)
  <2>1. {LifecycleEvidence[d.ops[o].status] : o \in OperationsAt(d, x)}
          = {LifecycleEvidence[e.ops[o].status] : o \in OperationsAt(e, x)}
    BY DEF SameAt
  <2>. QED
    BY <1>2, <2>1 DEF Evidence
<1>4. \A g \in Person \X {x} :
        /\ Conflict(d, g) <=> Conflict(e, g)
        /\ Orphan(d, g) <=> Orphan(e, g)
        /\ Disowned(d, g) <=> Disowned(e, g)
        /\ OneSided(d, g) <=> OneSided(e, g)
        /\ Unclaimed(d, g) <=> Unclaimed(e, g)
  <2>. TAKE g \in Person \X {x}
  <2>1. (Exists(d, "metadata", g) <=> Exists(e, "metadata", g)) /\ (Exists(d, "grants", g) <=> Exists(e, "grants", g))
    BY <1>1 DEF Exists
  <2>2. Conflict(d, g) <=> Conflict(e, g)
    BY <1>1, <2>1 DEF Conflict
  <2>3. Orphan(d, g) <=> Orphan(e, g)
    BY <1>1 DEF Orphan, Exists
  <2>4. Disowned(d, g) <=> Disowned(e, g)
    BY <1>1 DEF Disowned, Exists
  <2>5. OneSided(d, g) <=> OneSided(e, g)
    BY <2>1 DEF OneSided, Exists
  <2>6. Unclaimed(d, g) <=> Unclaimed(e, g)
    BY <1>1 DEF Unclaimed, Exists
  <2>. QED
    BY <2>2, <2>3, <2>4, <2>5, <2>6
<1>5. Blocking(d, x) <=> Blocking(e, x)
  BY <1>4 DEF Blocking
<1>6. Issues(d, x) <=> Issues(e, x)
  BY <1>4, <1>5 DEF Issues
<1>7. Issues(d, x) \in BOOLEAN /\ Issues(e, x) \in BOOLEAN
  BY DEF Issues, Blocking
<1>. QED
  BY <1>3, <1>5, <1>6, <1>7 DEF Evaluate

(***************************************************************************)
(* The migrations: of a document of its type they make one of its type.    *)
(***************************************************************************)

\* What the statuses and the operations of a document are depends on three parts of it.
Alike(d, e) == d.metadata = e.metadata /\ d.grants = e.grants /\ d.ops = e.ops

\* A document with the same people's records and operations is of its type, too.
LEMMA AlikeDated ==
  ASSUME NEW d, NEW e, NEW S, Dated(d, S), e \in Documents, Alike(d, e)
  PROVE  Dated(e, S)
  BY DEF Alike, Dated, Granted, Recorded, Started, Exists

\* A document gets another schema, collections, owners, doors or statuses.
LEMMA Renewed ==
  ASSUME NEW d \in Documents
  PROVE  /\ \A version \in 1..Current : /\ To(d, version) \in Documents /\ Alike(d, To(d, version))
                                        /\ To(d, version).version = version
         /\ \A names \in SUBSET DOMAIN Since :
              Adding(d, names) \in Documents /\ Alike(d, Adding(d, names))
         /\ \A authority \in [Person -> Credential \cup {None}] :
              LET e == [d EXCEPT !.authority = authority] IN e \in Documents /\ Alike(d, e)
         /\ \A doors \in [Door -> Enrolment \cup {None}] :
              LET e == [d EXCEPT !.doors = doors] IN e \in Documents /\ Alike(d, e)
         /\ \A table \in [Door -> DoorStatus \cup {None}] :
              LET e == [d EXCEPT !.statuses = table] IN e \in Documents /\ Alike(d, e)
<1>1. \A version \in 1..Current : /\ To(d, version) \in Documents /\ Alike(d, To(d, version))
                                  /\ To(d, version).version = version
  BY DEF Documents, To, Alike
<1>2. \A names \in SUBSET DOMAIN Since :
        Adding(d, names) \in Documents /\ Alike(d, Adding(d, names))
  <2>. TAKE names \in SUBSET DOMAIN Since
  <2>. DEFINE S == DOMAIN Since
  <2>1. d.has \in SUBSET S /\ names \in SUBSET S
    BY DEF Documents
  <2>. HIDE DEF S
  <2>2. d.has \cup names \in SUBSET S
    BY <2>1
  <2>. QED
    BY <2>2 DEF Documents, Adding, Alike, S
<1>3. \A authority \in [Person -> Credential \cup {None}] :
        LET e == [d EXCEPT !.authority = authority] IN e \in Documents /\ Alike(d, e)
  BY DEF Documents, Alike
<1>4. \A doors \in [Door -> Enrolment \cup {None}] :
        LET e == [d EXCEPT !.doors = doors] IN e \in Documents /\ Alike(d, e)
  BY DEF Documents, Alike
<1>5. \A table \in [Door -> DoorStatus \cup {None}] :
        LET e == [d EXCEPT !.statuses = table] IN e \in Documents /\ Alike(d, e)
  BY DEF Documents, Alike
<1>. QED
  BY <1>1, <1>2, <1>3, <1>4, <1>5

\* So is a document that gets another version,
LEMMA ToDated ==
  ASSUME NEW d, NEW S, Dated(d, S), NEW version \in 1..19
  PROVE  Dated(To(d, version), S) /\ To(d, version).version = version
<1>1. d \in Documents /\ version \in 1..Current
  BY DEF Dated, Current
<1>2. To(d, version) \in Documents /\ Alike(d, To(d, version)) /\ To(d, version).version = version
  BY <1>1, Renewed
<1>. QED
  BY <1>2, AlikeDated

\* one with further collections,
LEMMA AddingDated ==
  ASSUME NEW d, NEW S, Dated(d, S), NEW names \in SUBSET DOMAIN Since
  PROVE  Dated(Adding(d, names), S)
<1>1. d \in Documents
  BY DEF Dated
<1>2. Adding(d, names) \in Documents /\ Alike(d, Adding(d, names))
  BY <1>1, Renewed
<1>. QED
  BY <1>2, AlikeDated

\* and one with other owners, doors or statuses.
LEMMA PartDated ==
  ASSUME NEW d, NEW S, Dated(d, S), NEW authority, NEW doors, NEW table
  PROVE  /\ authority \in [Person -> Credential \cup {None}] => Dated([d EXCEPT !.authority = authority], S)
         /\ doors \in [Door -> Enrolment \cup {None}] => Dated([d EXCEPT !.doors = doors], S)
         /\ table \in [Door -> DoorStatus \cup {None}] => Dated([d EXCEPT !.statuses = table], S)
<1>1. d \in Documents
  BY DEF Dated
<1>2. ASSUME authority \in [Person -> Credential \cup {None}]
      PROVE  Dated([d EXCEPT !.authority = authority], S)
  <2>. DEFINE e == [d EXCEPT !.authority = authority]
  <2>1. e \in Documents /\ Alike(d, e)
    BY <1>1, <1>2, Renewed
  <2>. HIDE DEF e
  <2>2. Dated(e, S)
    BY <2>1, AlikeDated
  <2>. QED
    BY <2>2 DEF e
<1>3. ASSUME doors \in [Door -> Enrolment \cup {None}]
      PROVE  Dated([d EXCEPT !.doors = doors], S)
  <2>. DEFINE e == [d EXCEPT !.doors = doors]
  <2>1. e \in Documents /\ Alike(d, e)
    BY <1>1, <1>3, Renewed
  <2>. HIDE DEF e
  <2>2. Dated(e, S)
    BY <2>1, AlikeDated
  <2>. QED
    BY <2>2 DEF e
<1>4. ASSUME table \in [Door -> DoorStatus \cup {None}]
      PROVE  Dated([d EXCEPT !.statuses = table], S)
  <2>. DEFINE e == [d EXCEPT !.statuses = table]
  <2>1. e \in Documents /\ Alike(d, e)
    BY <1>1, <1>4, Renewed
  <2>. HIDE DEF e
  <2>2. Dated(e, S)
    BY <2>1, AlikeDated
  <2>. QED
    BY <2>2 DEF e
<1>. QED
  BY <1>2, <1>3, <1>4

\* Documents with other metadata, or with other grants.
LEMMA Rewritten ==
  ASSUME NEW d \in Documents
  PROVE  /\ \A metadata \in [Pair -> Metadata \cup {None}] :
              LET e == [d EXCEPT !.metadata = metadata]
              IN e \in Documents /\ e.metadata = metadata /\ e.grants = d.grants /\ e.ops = d.ops
         /\ \A grants \in [Pair -> Grant \cup {None}] :
              LET e == [d EXCEPT !.grants = grants]
              IN e \in Documents /\ e.grants = grants /\ e.metadata = d.metadata /\ e.ops = d.ops
  BY DEF Documents

\* The repair of orphans removes metadata, and no more.
LEMMA RepairedParts ==
  ASSUME NEW d \in Documents
  PROVE  LET e == Repaired(d)
         IN /\ e \in Documents /\ e.grants = d.grants /\ e.ops = d.ops /\ e.people = d.people
            /\ e.authority = d.authority /\ e.doors = d.doors /\ e.statuses = d.statuses
            /\ e.has = d.has /\ e.points = d.points /\ e.schedules = d.schedules
            /\ e.version = d.version
            /\ \A g \in Pair : e.metadata[g] = d.metadata[g] \/ (e.metadata[g] = None /\ d.people[g[1]] = None)
<1>. DEFINE metadata == [g \in Pair |-> IF g \in Orphans(d) THEN None ELSE d.metadata[g]]
<1>1. metadata \in [Pair -> Metadata \cup {None}]
  BY DEF Documents
<1>2. \A g \in Pair : metadata[g] = d.metadata[g] \/ (metadata[g] = None /\ d.people[g[1]] = None)
  BY DEF Orphans
<1>3. Repaired(d) = [d EXCEPT !.metadata = metadata]
  BY DEF Repaired
<1>. HIDE DEF metadata
<1>. QED
  BY <1>1, <1>2, <1>3 DEF Documents

\* A repair leaves out records only.
LEMMA RepairedRecent ==
  ASSUME NEW d, Recent(d)
  PROVE  Recent(Repaired(d))
  BY RepairedParts DEF Recent, Dated, Granted, Recorded, Started, Exists

\* None is left.
LEMMA NoOrphans ==
  ASSUME NEW d \in Documents
  PROVE  Orphans(Repaired(d)) = {}
<1>1. PICK e : e = Repaired(d)
  OBVIOUS
<1>2. e.grants = d.grants /\ e.ops = d.ops /\ e.people = d.people /\ e.authority = d.authority
  BY <1>1, RepairedParts
<1>3. \A g \in Pair : e.metadata[g] = (IF g \in Orphans(d) THEN None ELSE d.metadata[g])
  BY <1>1 DEF Repaired, Documents
<1>4. \A g \in Recorded(e) : g \in Recorded(d) /\ g \notin Orphans(d) /\ e.metadata[g] = d.metadata[g]
  BY <1>3 DEF Recorded, Exists
<1>5. \A g \in Orphans(e) : g \in Orphans(d)
  BY <1>2, <1>4 DEF Orphans, Granted, Exists, ActiveOf
<1>6. \A g \in Orphans(e) : g \in Recorded(e)
  BY DEF Orphans
<1>. QED
  BY <1>1, <1>4, <1>5, <1>6

\* A document that was loaded remains one, with the same doors.
LEMMA RepairedLoaded ==
  ASSUME NEW d, Loaded(d)
  PROVE  Loaded(Repaired(d)) /\ Managed(Repaired(d)) = Managed(d)
<1>. DEFINE m == Repaired(d)
<1>0. Recent(d) /\ Valid(d) /\ d.version = Current /\ d \in Documents
  BY DEF Loaded, Recent, Dated
<1>1. /\ m \in Documents /\ m.grants = d.grants /\ m.ops = d.ops /\ m.people = d.people
      /\ m.authority = d.authority /\ m.doors = d.doors /\ m.statuses = d.statuses
      /\ m.has = d.has /\ m.points = d.points /\ m.schedules = d.schedules
      /\ m.version = d.version
      /\ \A g \in Pair : m.metadata[g] = d.metadata[g] \/ (m.metadata[g] = None /\ d.people[g[1]] = None)
  BY <1>0, RepairedParts
<1>2. Recent(m)
  BY <1>0, RepairedRecent
<1>. HIDE DEF m
<1>3. /\ Granted(m) = Granted(d) /\ Started(m) = Started(d) /\ Enrolled(m) = Enrolled(d)
      /\ \A g \in Recorded(m) : g \in Recorded(d) /\ m.metadata[g] = d.metadata[g]
  BY <1>1 DEF Granted, Recorded, Started, Enrolled, Exists
<1>4. Managed(m) = Managed(d) /\ Named(m) \subseteq Named(d)
  BY <1>1, <1>3 DEF Managed, Named
<1>5. Valid(m)
  <2>1. Referential(m)
    BY <1>0, <1>1, <1>3, <1>4 DEF Valid, Referential
  <2>2. Claims(m)
    BY <1>0, <1>1, <1>3 DEF Valid, Claims
  <2>. QED
    BY <1>0, <1>1, <1>3, <2>1, <2>2 DEF Valid, Rooted, DoorsFull
<1>. QED
  BY <1>0, <1>1, <1>2, <1>4, <1>5 DEF Loaded, m

\* A migration loads what it makes of a document, unless it raises.
LEMMA Load19 ==
  ASSUME NEW d, Recent(d), d.version = Current, Validated(d) # None
  PROVE  Loaded(Validated(d))
  BY DEF Validated, Loaded

\* Each migration ends in a valid document of the current schema, or in none.
LEMMA Load18 ==
  ASSUME NEW d, Recent(d), From18(d) # None
  PROVE  Loaded(From18(d))
<1>1. Recent(To(d, 19)) /\ To(d, 19).version = 19
  BY ToDated DEF Recent
<1>2. From18(d) = Validated(To(d, 19))
  BY DEF From18
<1>. QED
  BY <1>1, <1>2, Load19 DEF Current

\* Schema 17: a collection is added.
LEMMA Load17 ==
  ASSUME NEW d, Recent(d), From17(d) # None
  PROVE  Loaded(From17(d))
<1>. DEFINE e == Adding(d, {"access_devices"})
<1>1. Recent(e)
  BY AddingDated DEF Recent, Since
<1>2. Recent(To(e, 18))
  BY <1>1, ToDated DEF Recent
<1>. QED
  BY <1>2, Load18 DEF From17

\* Schema 16: the version only.
LEMMA Load16 ==
  ASSUME NEW d, Recent(d), From16(d) # None
  PROVE  Loaded(From16(d))
<1>1. Recent(To(d, 17))
  BY ToDated DEF Recent
<1>. QED
  BY <1>1, Load17 DEF From16

\* Schema 15: every enrolment is completed.
LEMMA Load15 ==
  ASSUME NEW d, Recent(d), From15(d) # None
  PROVE  Loaded(From15(d))
<1>. DEFINE doors == [x \in Door |-> IF d.doors[x] = None THEN None ELSE [d.doors[x] EXCEPT !.full = TRUE]]
            e == [d EXCEPT !.doors = doors]
<1>1. doors \in [Door -> Enrolment \cup {None}]
  <2>1. \A x \in Door : d.doors[x] # None => [d.doors[x] EXCEPT !.full = TRUE] \in Enrolment
    BY DocumentParts DEF Recent, Dated, Enrolled, Enrolment
  <2>. QED
    BY <2>1
<1>2. Recent(e)
  BY <1>1, PartDated DEF Recent
<1>3. Recent(To(e, 16))
  BY <1>2, ToDated DEF Recent
<1>. QED
  BY <1>3, Load16 DEF From15

\* Schema 14: records that nobody can own are left out.
LEMMA Load14 ==
  ASSUME NEW d, Recent(d), From14(d) # None
  PROVE  Loaded(From14(d))
<1>1. Recent(To(Repaired(d), 15))
  BY RepairedRecent, ToDated DEF Recent
<1>. QED
  BY <1>1, Load15 DEF From14

\* Schema 13: authority over PINs is derived from the records.
LEMMA Load13 ==
  ASSUME NEW d, Recent(d), From13(d) # None
  PROVE  Loaded(From13(d))
<1>. DEFINE authority == [p \in Person |-> AuthorityOf(d, p)]
            e == [d EXCEPT !.authority = authority]
            f == Adding(e, {"credential_metadata"})
<1>1. authority \in [Person -> Credential \cup {None}]
  <2>. SUFFICES ASSUME NEW p \in Person PROVE AuthorityOf(d, p) \in Credential \cup {None}
    OBVIOUS
  <2>1. \A g \in Recorded(d) : d.metadata[g].cred \in Credential \cup {None}
    BY DocumentParts DEF Recent, Dated, Metadata
  <2>. DEFINE creds == {d.metadata[g].cred : g \in Recorded(d)} \ {None}
  <2>2. \A cred \in creds : cred \in Credential
    BY <2>1
  <2>3. AuthorityOf(d, p) = IF \E cred \in creds : Establishes(d, p, cred)
                            THEN CHOOSE cred \in creds : Establishes(d, p, cred) ELSE None
    BY DEF AuthorityOf
  <2>. HIDE DEF creds
  <2>. QED
    BY <2>2, <2>3
<1>2. Recent(e)
  BY <1>1, PartDated DEF Recent
<1>3. Recent(f)
  BY <1>2, AddingDated DEF Recent, Since
<1>4. Recent(To(f, 14))
  BY <1>3, ToDated DEF Recent
<1>. QED
  BY <1>4, Load14 DEF From13

\* Schema 12: a collection is added.
LEMMA Load12 ==
  ASSUME NEW d, Recent(d), From12(d) # None
  PROVE  Loaded(From12(d))
<1>. DEFINE e == Adding(d, {"activity_events"})
<1>1. Recent(e)
  BY AddingDated DEF Recent, Since
<1>2. Recent(To(e, 13))
  BY <1>1, ToDated DEF Recent
<1>. QED
  BY <1>2, Load13 DEF From12

\* Schema 11: a collection is added.
LEMMA Load11 ==
  ASSUME NEW d, Recent(d), From11(d) # None
  PROVE  Loaded(From11(d))
<1>. DEFINE e == Adding(d, {"synchronization_history"})
<1>1. Recent(e)
  BY AddingDated DEF Recent, Since
<1>2. Recent(To(e, 12))
  BY <1>1, ToDated DEF Recent
<1>. QED
  BY <1>2, Load12 DEF From11

\* The statuses of old are those of today.
LEMMA Modernizing ==
  ASSUME NEW d, Dated(d, AnyStatus \ {None})
  PROVE  Recent(Modernized(d)) /\ Modernized(d).doors = d.doors
<1>. DEFINE metadata == [g \in Pair |-> IF g \in Recorded(d) THEN [d.metadata[g] EXCEPT !.status = Modern(@)] ELSE None]
            grants == [g \in Pair |-> IF g \in Granted(d) THEN [d.grants[g] EXCEPT !.status = Modern(@)] ELSE None]
<1>1. \A s \in AnyStatus \ {None} : Modern(s) \in Status
  <2>1. /\ DOMAIN LegacyStatuses = LegacyStatus
        /\ \A s \in LegacyStatus : LegacyStatuses[s] \in Status
    BY Ranks DEF LegacyStatuses, LegacyStatus
  <2>. QED
    BY <2>1 DEF Modern, AnyStatus
<1>2. \A g \in Recorded(d) : LET m == [d.metadata[g] EXCEPT !.status = Modern(@)]
                             IN m \in Metadata /\ m.status \in Status
  <2>. TAKE g \in Recorded(d)
  <2>1. d.metadata[g] \in Metadata /\ d.metadata[g].status \in AnyStatus \ {None}
    BY DocumentParts DEF Dated
  <2>2. Modern(d.metadata[g].status) \in Status
    BY <1>1, <2>1
  <2>3. Status \subseteq AnyStatus \ {None}
    BY Assumptions DEF AnyStatus
  <2>. QED
    BY <2>1, <2>2, <2>3 DEF Metadata
<1>3. \A g \in Granted(d) : LET m == [d.grants[g] EXCEPT !.status = Modern(@)]
                            IN m \in Grant /\ m.status \in Status
  <2>. TAKE g \in Granted(d)
  <2>1. d.grants[g] \in Grant /\ d.grants[g].status \in AnyStatus \ {None}
    BY DocumentParts DEF Dated
  <2>2. Modern(d.grants[g].status) \in Status
    BY <1>1, <2>1
  <2>3. Status \subseteq AnyStatus
    BY DEF AnyStatus
  <2>. QED
    BY <2>1, <2>2, <2>3 DEF Grant
<1>4. /\ metadata \in [Pair -> Metadata \cup {None}]
      /\ \A g \in Pair : metadata[g] # None => metadata[g].status \in Status
  BY <1>2
<1>5. /\ grants \in [Pair -> Grant \cup {None}]
      /\ \A g \in Pair : grants[g] # None => grants[g].status \in Status
  BY <1>3
<1>6. Modernized(d) = [d EXCEPT !.metadata = metadata, !.grants = grants]
  BY DEF Modernized
<1>. HIDE DEF metadata, grants
<1>7. d \in Documents
  BY DEF Dated
<1>8. /\ Modernized(d) \in Documents /\ Modernized(d).metadata = metadata
      /\ Modernized(d).grants = grants /\ Modernized(d).ops = d.ops /\ Modernized(d).doors = d.doors
  BY <1>4, <1>5, <1>6, <1>7 DEF Documents
<1>. QED
  BY <1>4, <1>5, <1>8 DEF Recent, Dated, Granted, Recorded, Started, Exists

\* Schema 10: legacy statuses become those of today, and every door gets one.
LEMMA Load10 ==
  ASSUME NEW d, Dated(d, AnyStatus \ {None}), From10(d) # None
  PROVE  Loaded(From10(d))
<1>. DEFINE e == Modernized(d)
            table == [x \in Door |-> IF x \in Managed(e)
                                        THEN [status |-> Aggregate(Evidence(e, x)), at |-> 0] ELSE None]
            f == [e EXCEPT !.statuses = table]
            h == Adding(f, {"synchronization_statuses", "synchronization_history"})
<1>1. Recent(e)
  BY Modernizing
<1>2. table \in [Door -> DoorStatus \cup {None}]
  <2>1. \A x \in Door : Aggregate(Evidence(e, x)) \in Status
    <3>. HIDE DEF e
    <3>. QED
      BY <1>1, EvidenceTyped, Aggregates
  <2>. HIDE DEF e
  <2>. QED
    BY <2>1 DEF DoorStatus
<1>3. Recent(f)
  <2>. HIDE DEF e, table
  <2>. QED
    BY <1>1, <1>2, PartDated DEF Recent
<1>4. Recent(h)
  <2>. HIDE DEF f
  <2>. QED
    BY <1>3, AddingDated DEF Recent, Since
<1>5. Recent(To(h, 12))
  <2>. HIDE DEF h
  <2>. QED
    BY <1>4, ToDated DEF Recent
<1>6. From10(d) = From12(To(h, 12))
  BY DEF From10, WithStatuses
<1>. HIDE DEF h
<1>. QED
  BY <1>5, <1>6, Load12

\* A document of an early schema: the statuses are some, of today or of old.
Early(d) == Dated(d, AnyStatus \ {None})

\* Schemas 6 to 9: access points are derived from what names them.
LEMMA PolicyLoad ==
  ASSUME NEW d, Early(d), PolicyStep(d) # None
  PROVE  Loaded(PolicyStep(d))
<1>. DEFINE points == Enrolled(d) \cup Named(d)
            e == [d EXCEPT !.points = points]
            f == Adding(e, {"access_points"})
<1>1. points \in SUBSET Door
  <2>1. Enrolled(d) \subseteq Door
    BY DEF Enrolled
  <2>2. \A g \in Granted(d) \cup Recorded(d) : g[2] \in Door
    BY DEF Granted, Recorded, Pair
  <2>3. \A o \in Started(d) : d.ops[o].targets \subseteq Door
    BY DocumentParts DEF Early, Dated, LifecycleOperation
  <2>. QED
    BY <2>1, <2>2, <2>3 DEF Named
<1>2. Early(e)
  <2>. HIDE DEF points
  <2>1. d \in Documents
    BY DEF Early, Dated
  <2>2. e \in Documents /\ Alike(d, e)
    BY <1>1, <2>1 DEF Documents, Alike
  <2>. HIDE DEF e
  <2>. QED
    BY <2>2, AlikeDated DEF Early
<1>3. Early(f)
  <2>. HIDE DEF e
  <2>. QED
    BY <1>2, AddingDated DEF Early, Since
<1>4. Early(To(f, 10))
  <2>. HIDE DEF f
  <2>. QED
    BY <1>3, ToDated DEF Early
<1>5. PolicyStep(d) = From10(To(f, 10))
  BY DEF PolicyStep
<1>. HIDE DEF f
<1>. QED
  BY <1>4, <1>5, Load10 DEF Early

\* The lock of the first schemas becomes a door.
LEMMA LegacyEarly ==
  ASSUME NEW d, Early(d)
  PROVE  Early(LegacyDoor(d))
<1>. DEFINE doors == [d.doors EXCEPT ![Legacy] = [managed |-> TRUE, full |-> FALSE]]
<1>1. doors \in [Door -> Enrolment \cup {None}]
  BY DEF Early, Dated, Documents, Enrolment
<1>2. LegacyDoor(d) = [d EXCEPT !.doors = doors]
  BY DEF LegacyDoor
<1>. HIDE DEF doors
<1>3. Dated([d EXCEPT !.doors = doors], AnyStatus \ {None})
  BY <1>1, PartDated DEF Early
<1>. QED
  BY <1>2, <1>3 DEF Early

\* A person's schedule is one of the schedules.
LEMMA DefaultIsSchedule ==
  ASSUME NEW d, NEW p, d \in Documents
  PROVE  DefaultOf(d, p) \in Schedule
<1>. DEFINE used == {ScheduleOf(d.grants[g]) : g \in {h \in Granted(d) : h[1] = p}}
<1>1. \A g \in Granted(d) : ScheduleOf(d.grants[g]) \in Schedule
  BY DocumentParts, Assumptions DEF Grant, ScheduleOf
<1>2. used \subseteq Schedule
  BY <1>1
<1>3. Cardinality(used) = 1 => used # {}
  <2>. HIDE DEF used
  <2>. QED
    BY FS_EmptySet
<1>4. DefaultOf(d, p) = IF Cardinality(used) = 1 THEN CHOOSE s \in used : TRUE ELSE Permanent
  BY DEF DefaultOf
<1>. HIDE DEF used
<1>. QED
  BY <1>2, <1>3, <1>4, Assumptions

\* Schemas 1 to 5: grants and people get a schedule.
LEMMA ScheduleLoad ==
  ASSUME NEW d, Early(d), ScheduleStep(d) # None
  PROVE  Loaded(ScheduleStep(d))
<1>. DEFINE known == d.schedules \cup {Permanent}
            grants == [g \in Pair |->
              IF g \in Granted(d) THEN [d.grants[g] EXCEPT !.schedule = ScheduleOf(d.grants[g])] ELSE None]
            people == [p \in Person |-> IF d.people[p] = None THEN None ELSE DefaultOf(d, p)]
            next == [d EXCEPT !.schedules = known, !.grants = grants, !.people = people]
            named == IF Enrolled(d) = {} THEN LegacyDoor(next) ELSE next
            last == Adding(named, {"lifecycle_operations"})
<1>0. d \in Documents
  BY DEF Early, Dated
<1>1. known \in SUBSET Schedule
  BY <1>0, Assumptions DEF Documents
<1>2. people \in [Person -> Schedule \cup {None}]
  BY <1>0, DefaultIsSchedule
<1>3. /\ grants \in [Pair -> Grant \cup {None}]
      /\ \A g \in Pair : grants[g] # None => grants[g].status \in AnyStatus \ {None}
  <2>1. \A g \in Granted(d) : ScheduleOf(d.grants[g]) \in Schedule
    BY <1>0, DocumentParts, Assumptions DEF Grant, ScheduleOf
  <2>2. \A g \in Granted(d) : LET m == [d.grants[g] EXCEPT !.schedule = ScheduleOf(d.grants[g])]
                              IN m \in Grant /\ m.status = d.grants[g].status
    BY <1>0, <2>1, DocumentParts DEF Grant
  <2>. QED
    BY <2>2 DEF Early, Dated
<1>4. Early(next)
  <2>. HIDE DEF known, people, grants
  <2>1. /\ next \in Documents /\ next.grants = grants /\ next.metadata = d.metadata
        /\ next.ops = d.ops
    BY <1>0, <1>1, <1>2, <1>3 DEF Documents
  <2>. HIDE DEF next
  <2>. QED
    BY <1>3, <2>1 DEF Early, Dated, Granted, Recorded, Started, Exists
<1>5. Early(named)
  <2>. HIDE DEF next
  <2>. QED
    BY <1>4, LegacyEarly
<1>6. Early(last)
  <2>. HIDE DEF named
  <2>. QED
    BY <1>5, AddingDated DEF Early, Since
<1>7. ScheduleStep(d) = PolicyStep(last)
  BY DEF ScheduleStep
<1>. HIDE DEF last
<1>. QED
  BY <1>6, <1>7, PolicyLoad

\* Other grants make a document of an early schema one, if they have statuses.
LEMMA GrantsEarly ==
  ASSUME NEW d \in Documents, NEW grants \in [Pair -> Grant \cup {None}],
         \A g \in Pair : grants[g] # None => grants[g].status \in AnyStatus \ {None},
         \A o \in Started(d) : Kind[o] = "replacement" => d.ops[o].targets = {e[1] : e \in d.ops[o].expects}
  PROVE  Early([d EXCEPT !.grants = grants])
<1>. DEFINE e == [d EXCEPT !.grants = grants]
<1>1. e \in Documents /\ e.grants = grants /\ e.metadata = d.metadata /\ e.ops = d.ops
  BY Rewritten
<1>2. \A g \in Recorded(e) : e.metadata[g].status \in AnyStatus \ {None}
  <2>. HIDE DEF e
  <2>. QED
    BY <1>1, DocumentParts DEF Metadata
<1>. HIDE DEF e
<1>3. Early(e)
  BY <1>1, <1>2 DEF Early, Dated, Granted, Started, Exists
<1>. QED
  BY <1>3 DEF e

\* The collections that an early migration adds, and the schema.
LEMMA AddingEarly ==
  ASSUME NEW d, Early(d), NEW names \in SUBSET DOMAIN Since
  PROVE  Early(Adding(d, names))
  BY AddingDated DEF Early

\* A loaded document is of schema 10 at the least, or comes from a migration to it.
LEMMA Load9 ==
  ASSUME NEW d, Early(d)
  PROVE  /\ From9(d) # None => Loaded(From9(d))
         /\ From8(d) # None => Loaded(From8(d))
         /\ From7(d) # None => Loaded(From7(d))
         /\ From6(d) # None => Loaded(From6(d))
<1>1. From9(d) # None => Loaded(From9(d))
  BY PolicyLoad DEF From9
<1>2. PolicyStep(LegacyDoor(d)) # None => Loaded(PolicyStep(LegacyDoor(d)))
  BY LegacyEarly, PolicyLoad
<1>3. (From8(d) # None => Loaded(From8(d))) /\ (From7(d) # None => Loaded(From7(d)))
  BY <1>2 DEF From8, From7
<1>4. From6(d) # None => Loaded(From6(d))
  <2>. DEFINE e == LegacyDoor(Adding(d, {"lifecycle_operations"}))
  <2>1. Early(Adding(d, {"lifecycle_operations"}))
    BY AddingEarly DEF Since
  <2>2. Early(e)
    BY <2>1, LegacyEarly
  <2>3. From6(d) # None => From6(d) = PolicyStep(e)
    BY DEF From6
  <2>. HIDE DEF e
  <2>. QED
    BY <2>2, <2>3, PolicyLoad
<1>. QED
  BY <1>1, <1>3, <1>4

\* Schemas 5 and 4, as they are.
LEMMA Load5 ==
  ASSUME NEW d, Early(d)
  PROVE  /\ From5(d) # None => Loaded(From5(d))
         /\ From4(d) # None => Loaded(From4(d))
         /\ From2(d) # None => Loaded(From2(d))
         /\ From1(d) # None => Loaded(From1(d))
<1>1. From5(d) # None => Loaded(From5(d))
  BY ScheduleLoad DEF From5
<1>2. From4(d) # None => Loaded(From4(d))
  <2>1. Early(Adding(d, {"schedules"}))
    BY AddingEarly DEF Since
  <2>. QED
    BY <2>1, ScheduleLoad DEF From4
<1>3. From2(d) # None => Loaded(From2(d))
  <2>. DEFINE grants == [g \in Pair |-> IF g \in Recorded(d) /\ d.metadata[g].cred # None
                                        THEN Working(g, d.metadata[g].cred) ELSE None]
              e == [d EXCEPT !.grants = grants]
              f == Adding(e, {"access_grants", "schedules"})
  <2>1. d \in Documents
    BY DEF Early, Dated
  <2>2. /\ grants \in [Pair -> Grant \cup {None}]
        /\ \A g \in Pair : grants[g] # None => grants[g].status \in AnyStatus \ {None}
    <3>1. \A g \in Recorded(d) : d.metadata[g].cred \in Credential \cup {None}
      BY <2>1, DocumentParts DEF Metadata
    <3>2. "working" \in AnyStatus
      BY DEF AnyStatus, LegacyStatus
    <3>3. \A g \in Recorded(d) : Working(g, d.metadata[g].cred) \in Grant
      BY <3>1, <3>2 DEF Working, Grant
    <3>4. "working" # None
      BY Assumptions DEF LegacyStatus
    <3>. QED
      BY <3>2, <3>3, <3>4 DEF Working
  <2>3. Early(e)
    <3>. HIDE DEF grants
    <3>. QED
      BY <2>1, <2>2, GrantsEarly DEF Early, Dated
  <2>4. Early(f)
    <3>. HIDE DEF e
    <3>. QED
      BY <2>3, AddingEarly DEF Since
  <2>5. From2(d) # None => From2(d) = ScheduleStep(f)
    BY DEF From2
  <2>. HIDE DEF f
  <2>. QED
    BY <2>4, <2>5, ScheduleLoad
<1>4. From1(d) # None => Loaded(From1(d))
  <2>1. Early(Adding(d, {"access_metadata", "access_grants", "schedules"}))
    BY AddingEarly DEF Since
  <2>. QED
    BY <2>1, ScheduleLoad DEF From1
<1>. QED
  BY <1>1, <1>2, <1>3, <1>4

\* Schemas 3 to 1, whose grants get a status, are derived from the metadata, or are none.
LEMMA Load3 ==
  ASSUME NEW d, Dated(d, AnyStatus), From3(d) # None
  PROVE  Loaded(From3(d))
<1>. DEFINE grants == [g \in Pair |-> IF g \in Granted(d) /\ d.grants[g].status = None
                                      THEN [d.grants[g] EXCEPT !.status = "working"] ELSE d.grants[g]]
            e == [d EXCEPT !.grants = grants]
            f == Adding(e, {"schedules"})
<1>1. d \in Documents
  BY DEF Dated
<1>2. /\ grants \in [Pair -> Grant \cup {None}]
      /\ \A g \in Pair : grants[g] # None => grants[g].status \in AnyStatus \ {None}
  <2>1. "working" \in AnyStatus \ {None}
    BY Assumptions DEF AnyStatus, LegacyStatus
  <2>2. \A g \in Granted(d) : LET m == [d.grants[g] EXCEPT !.status = "working"]
                              IN m \in Grant /\ m.status = "working"
    BY <1>1, <2>1, DocumentParts DEF Grant
  <2>3. \A g \in Pair : d.grants[g] \in Grant \cup {None} /\ (g \notin Granted(d) => d.grants[g] = None)
    BY <1>1 DEF Documents, Granted, Exists
  <2>. QED
    BY <2>1, <2>2, <2>3 DEF Dated
<1>3. Early(e)
  <2>. HIDE DEF grants
  <2>. QED
    BY <1>1, <1>2, GrantsEarly DEF Dated
<1>4. Early(f)
  <2>. HIDE DEF e
  <2>. QED
    BY <1>3, AddingEarly DEF Since
<1>5. From3(d) = ScheduleStep(f)
  BY DEF From3
<1>. HIDE DEF f
<1>. QED
  BY <1>4, <1>5, ScheduleLoad

\* Whatever loads is loaded: of its type, valid, and of the current schema.
LEMMA Migrated ==
  ASSUME NEW d, WellWritten(d) \/ Loaded(d), Migrate(d) # None
  PROVE  Loaded(Migrate(d))
<1>1. CASE Loaded(d)
  BY <1>1, Load19 DEF Loaded, Migrate, Current
<1>2. CASE WellWritten(d) /\ d.version > 10
  <2>1. Recent(d) /\ d.version \in 11..19
    BY <1>2 DEF WellWritten, StatusesOf, Recent, Dated, Documents, Current
  <2>. QED
    BY <2>1, Load19, Load18, Load17, Load16, Load15, Load14, Load13, Load12, Load11 DEF Migrate, Current
<1>3. CASE WellWritten(d) /\ d.version = 3
  <2>1. Dated(d, AnyStatus)
    BY <1>3 DEF WellWritten, StatusesOf, Dated
  <2>. QED
    BY <1>3, <2>1, Load3 DEF Migrate
<1>4. CASE WellWritten(d) /\ d.version <= 10 /\ d.version # 3
  <2>1. Early(d) /\ d.version \in 1..10 \ {3}
    BY <1>4 DEF WellWritten, StatusesOf, Early, Dated, Documents, Current
  <2>. QED
    BY <2>1, Load10, Load9, Load5 DEF Migrate, Early
<1>. QED
  <2>1. WellWritten(d) => d.version \in Nat
    BY DEF WellWritten, Documents
  <2>. QED
    BY <1>1, <1>2, <1>3, <1>4, <2>1

(***************************************************************************)
(* Scripts.                                                                *)
(***************************************************************************)

\* A set of steps without evaluations to store.
Pure(S) == \A s \in S : s.do # "upsert"

\* Scripts of some steps are scripts of more steps.
LEMMA ScriptsGrow ==
  ASSUME NEW S, NEW T, S \subseteq T
  PROVE  Scripts(S) \subseteq Scripts(T)
  BY DEF Scripts

\* The first step, and the others.
LEMMA ScriptTail ==
  ASSUME NEW S, NEW t \in Scripts(S), t # <<>>
  PROVE  /\ Head(t) \in S /\ Tail(t) \in Scripts(S)
         /\ Head(t) = t[1] /\ Len(t) \in Nat \ {0} /\ Len(Tail(t)) = Len(t) - 1
         /\ \A i \in 1..Len(Tail(t)) : Tail(t)[i] = t[i + 1]
<1>1. t \in Seq(S) /\ Len(t) \in Nat \ {0} /\ Linked(t)
  BY DEF Scripts
<1>2. /\ Head(t) = t[1] /\ Head(t) \in S /\ Tail(t) \in Seq(S) /\ Len(Tail(t)) = Len(t) - 1
      /\ \A i \in 1..Len(Tail(t)) : Tail(t)[i] = t[i + 1]
  BY <1>1
<1>3. Linked(Tail(t))
  <2>1. \A i \in 1..Len(Tail(t)) : Tail(t)[i].do \in Writing =>
          i < Len(Tail(t)) /\ Continues(Tail(t)[i], Tail(t)[i + 1])
    <3>. TAKE i \in 1..Len(Tail(t))
    <3>1. i + 1 \in 1..Len(t) /\ Tail(t)[i] = t[i + 1]
      BY <1>1, <1>2
    <3>2. t[i + 1].do \in Writing => i + 1 < Len(t) /\ Continues(t[i + 1], t[i + 1 + 1])
      BY <1>1, <3>1 DEF Linked
    <3>. QED
      BY <1>1, <1>2, <3>1, <3>2
  <2>2. \A i \in 1..Len(Tail(t)) : Tail(t)[i].do = "upsert" =>
          \A j \in 1..i - 1 : Tail(t)[j].do = "upsert" /\ Tail(t)[j].door # Tail(t)[i].door
    <3>. TAKE i \in 1..Len(Tail(t))
    <3>1. i + 1 \in 1..Len(t) /\ Tail(t)[i] = t[i + 1]
      BY <1>1, <1>2
    <3>. HAVE Tail(t)[i].do = "upsert"
    <3>. TAKE j \in 1..i - 1
    <3>2. j + 1 \in 1..(i + 1) - 1 /\ j \in 1..Len(Tail(t)) /\ Tail(t)[j] = t[j + 1]
      BY <1>1, <1>2
    <3>3. t[j + 1].do = "upsert" /\ t[j + 1].door # t[i + 1].door
      BY <1>1, <3>1, <3>2 DEF Linked
    <3>. QED
      BY <3>1, <3>2, <3>3
  <2>. QED
    BY <2>1, <2>2 DEF Linked
<1>. QED
  BY <1>1, <1>2, <1>3 DEF Scripts

\* One script after another, of which the second has no evaluations to store.
LEMMA ScriptThen ==
  ASSUME NEW S, NEW s \in Scripts(S), NEW t \in Scripts(S), PendingIn(t) = {}
  PROVE  /\ s \o t \in Scripts(S) /\ PendingIn(s \o t) = PendingIn(s)
         /\ s # <<>> => s \o t # <<>> /\ Head(s \o t) = Head(s)
         /\ s = <<>> => s \o t = t
<1>1. s \in Seq(S) /\ t \in Seq(S) /\ Len(s) \in Nat /\ Len(t) \in Nat /\ Linked(s) /\ Linked(t)
  BY DEF Scripts
<1>. DEFINE u == s \o t
<1>2. /\ u \in Seq(S) /\ Len(u) = Len(s) + Len(t)
      /\ \A i \in 1..Len(s) : u[i] = s[i]
      /\ \A i \in Len(s) + 1..Len(u) : u[i] = t[i - Len(s)] /\ i - Len(s) \in 1..Len(t)
  BY <1>1
<1>. HIDE DEF u
<1>3. \A i \in 1..Len(t) : t[i].do # "upsert"
  BY DEF PendingIn
<1>4. \A i \in 1..Len(u) : i \in 1..Len(s) \/ i \in Len(s) + 1..Len(u)
  BY <1>1, <1>2
<1>5. \A i \in 1..Len(u) : u[i].do \in Writing => i < Len(u) /\ Continues(u[i], u[i + 1])
  <2>. TAKE i \in 1..Len(u)
  <2>1. CASE i \in 1..Len(s)
    <3>. HAVE u[i].do \in Writing
    <3>1. i < Len(s) /\ Continues(s[i], s[i + 1])
      BY <1>1, <1>2, <2>1 DEF Linked
    <3>2. i + 1 \in 1..Len(s)
      BY <1>1, <3>1
    <3>. QED
      BY <1>1, <1>2, <3>1, <3>2
  <2>2. CASE i \in Len(s) + 1..Len(u)
    <3>. HAVE u[i].do \in Writing
    <3>0. i - Len(s) \in 1..Len(t) /\ u[i] = t[i - Len(s)]
      BY <1>2, <2>2
    <3>1. i - Len(s) < Len(t) /\ Continues(t[i - Len(s)], t[i - Len(s) + 1])
      BY <1>1, <3>0 DEF Linked
    <3>2. i + 1 \in Len(s) + 1..Len(u) /\ (i + 1) - Len(s) = i - Len(s) + 1
      BY <1>1, <1>2, <3>0, <3>1
    <3>3. u[i + 1] = t[i - Len(s) + 1]
      BY <1>2, <3>2
    <3>. QED
      BY <1>1, <1>2, <3>0, <3>1, <3>3
  <2>. QED
    BY <1>4, <2>1, <2>2
<1>6. \A i \in 1..Len(u) : u[i].do = "upsert" =>
        \A j \in 1..i - 1 : u[j].do = "upsert" /\ u[j].door # u[i].door
  <2>. TAKE i \in 1..Len(u)
  <2>. HAVE u[i].do = "upsert"
  <2>1. i \in 1..Len(s) /\ s[i].do = "upsert"
    BY <1>2, <1>3, <1>4
  <2>. TAKE j \in 1..i - 1
  <2>2. j \in 1..Len(s) /\ s[j].do = "upsert" /\ s[j].door # s[i].door
    BY <1>1, <2>1 DEF Linked
  <2>. QED
    BY <1>2, <2>1, <2>2
<1>7. u \in Scripts(S)
  BY <1>2, <1>5, <1>6 DEF Scripts, Linked
<1>8. PendingIn(u) = PendingIn(s)
  <2>1. \A r \in PendingIn(u) : r \in PendingIn(s)
    BY <1>2, <1>3, <1>4 DEF PendingIn
  <2>2. \A r \in PendingIn(s) : r \in PendingIn(u)
    <3>1. \A i \in 1..Len(s) : i \in 1..Len(u)
      BY <1>1, <1>2
    <3>. QED
      BY <1>2, <3>1 DEF PendingIn
  <2>. QED
    BY <2>1, <2>2
<1>9. (s # <<>> => u # <<>> /\ Head(u) = Head(s)) /\ (s = <<>> => u = t)
  BY <1>1 DEF u
<1>. QED
  BY <1>7, <1>8, <1>9 DEF u

\* A script that does not begin with an evaluation to store has none.
LEMMA PendingFirst ==
  ASSUME NEW S, NEW t \in Scripts(S)
  PROVE  /\ t = <<>> \/ Head(t).do # "upsert" => PendingIn(t) = {}
         /\ Pure(S) => PendingIn(t) = {}
         /\ \A s \in PendingIn(t) : s \in S /\ s.do = "upsert"
<1>1. t \in Seq(S) /\ Len(t) \in Nat /\ Linked(t)
  BY DEF Scripts
<1>2. ASSUME t = <<>> \/ Head(t).do # "upsert"
      PROVE  PendingIn(t) = {}
  <2>1. \A i \in 1..Len(t) : t[i].do # "upsert"
    <3>. TAKE i \in 1..Len(t)
    <3>1. t # <<>> /\ Head(t) = t[1] /\ t[1].do # "upsert"
      BY <1>1, <1>2
    <3>2. i = 1 \/ 1 \in 1..i - 1
      BY <1>1
    <3>. QED
      BY <1>1, <3>1, <3>2 DEF Linked
  <2>. QED
    BY <2>1 DEF PendingIn
<1>3. \A i \in 1..Len(t) : t[i] \in S
  BY <1>1
<1>. QED
  BY <1>2, <1>3 DEF PendingIn, Pure

\* When the first evaluation has been stored the others remain.
LEMMA PendingTail ==
  ASSUME NEW S, NEW t \in Scripts(S), t # <<>>
  PROVE  /\ Head(t).do = "upsert" =>
              /\ Head(t) \in PendingIn(t)
              /\ PendingIn(Tail(t)) = {s \in PendingIn(t) : s.door # Head(t).door}
              /\ \A s \in PendingIn(t) : s.door = Head(t).door => s = Head(t)
         /\ Head(t).do # "upsert" => PendingIn(Tail(t)) = {}
<1>1. /\ t \in Seq(S) /\ Len(t) \in Nat \ {0} /\ Linked(t)
      /\ Head(t) = t[1] /\ Len(Tail(t)) = Len(t) - 1
      /\ \A i \in 1..Len(Tail(t)) : Tail(t)[i] = t[i + 1]
  BY ScriptTail DEF Scripts
<1>2. ASSUME Head(t).do = "upsert"
      PROVE  /\ Head(t) \in PendingIn(t)
             /\ PendingIn(Tail(t)) = {s \in PendingIn(t) : s.door # Head(t).door}
             /\ \A s \in PendingIn(t) : s.door = Head(t).door => s = Head(t)
  <2>1. Head(t) \in PendingIn(t)
    <3>1. 1 \in 1..Len(t)
      BY <1>1
    <3>. QED
      BY <1>1, <1>2, <3>1 DEF PendingIn
  <2>2. \A i \in 2..Len(t) : t[i].do = "upsert" => t[i].door # Head(t).door
    <3>. TAKE i \in 2..Len(t)
    <3>1. 1 \in 1..i - 1 /\ i \in 1..Len(t)
      BY <1>1
    <3>. QED
      BY <1>1, <3>1 DEF Linked
  <2>3. \A i \in 1..Len(t) : i = 1 \/ (i \in 2..Len(t) /\ i - 1 \in 1..Len(Tail(t)) /\ Tail(t)[i - 1] = t[i])
    BY <1>1
  <2>4. \A i \in 1..Len(Tail(t)) : i + 1 \in 2..Len(t) /\ i + 1 \in 1..Len(t) /\ Tail(t)[i] = t[i + 1]
    BY <1>1
  <2>5. \A s \in PendingIn(t) : s = Head(t) \/ (s \in PendingIn(Tail(t)) /\ s.door # Head(t).door)
    BY <1>1, <2>2, <2>3 DEF PendingIn
  <2>6. \A s \in PendingIn(Tail(t)) : s \in PendingIn(t) /\ s.door # Head(t).door
    BY <2>2, <2>4 DEF PendingIn
  <2>. QED
    BY <2>1, <2>5, <2>6
<1>3. ASSUME Head(t).do # "upsert"
      PROVE  PendingIn(Tail(t)) = {}
  <2>1. \A i \in 1..Len(t) : t[i].do # "upsert"
    BY <1>3, PendingFirst DEF PendingIn
  <2>2. \A i \in 1..Len(Tail(t)) : i + 1 \in 1..Len(t) /\ Tail(t)[i] = t[i + 1]
    BY <1>1
  <2>. QED
    BY <2>1, <2>2 DEF PendingIn
<1>. QED
  BY <1>2, <1>3


\* One step before a script, which goes on as the step needs it.
LEMMA ScriptFirst ==
  ASSUME NEW S, NEW s \in S, NEW t \in Scripts(S), s.do # "upsert", PendingIn(t) = {},
         s.do \in Writing => t # <<>> /\ Continues(s, Head(t))
  PROVE  /\ <<s>> \o t \in Scripts(S) /\ PendingIn(<<s>> \o t) = {}
         /\ <<s>> \o t # <<>> /\ Head(<<s>> \o t) = s /\ Tail(<<s>> \o t) = t
<1>1. t \in Seq(S) /\ Len(t) \in Nat /\ Linked(t)
  BY DEF Scripts
<1>. DEFINE u == <<s>> \o t
<1>2. /\ u \in Seq(S) /\ Len(u) = Len(t) + 1 /\ u[1] = s /\ u # <<>> /\ Head(u) = s /\ Tail(u) = t
      /\ \A i \in 2..Len(u) : u[i] = t[i - 1]
  BY <1>1
<1>. HIDE DEF u
<1>3. \A i \in 1..Len(t) : t[i].do # "upsert"
  BY DEF PendingIn
<1>4. \A i \in 1..Len(u) : u[i].do # "upsert"
  <2>1. \A i \in 1..Len(u) : i = 1 \/ (i \in 2..Len(u) /\ i - 1 \in 1..Len(t))
    BY <1>1, <1>2
  <2>. QED
    BY <1>2, <1>3, <2>1
<1>5. \A i \in 1..Len(u) : u[i].do \in Writing => i < Len(u) /\ Continues(u[i], u[i + 1])
  <2>. TAKE i \in 1..Len(u)
  <2>. HAVE u[i].do \in Writing
  <2>1. CASE i = 1
    <3>1. t # <<>> /\ Continues(s, t[1]) /\ Len(t) > 0
      BY <1>1, <1>2, <2>1
    <3>. QED
      BY <1>1, <1>2, <2>1, <3>1
  <2>2. CASE i # 1
    <3>1. i - 1 \in 1..Len(t) /\ u[i] = t[i - 1]
      BY <1>1, <1>2, <2>2
    <3>2. i - 1 < Len(t) /\ Continues(t[i - 1], t[i - 1 + 1])
      BY <1>1, <3>1 DEF Linked
    <3>3. i + 1 \in 2..Len(u) /\ (i + 1) - 1 = i - 1 + 1 /\ i < Len(u)
      BY <1>1, <1>2, <3>1, <3>2
    <3>4. u[i + 1] = t[i - 1 + 1]
      BY <1>2, <3>3
    <3>. QED
      BY <3>1, <3>2, <3>3, <3>4
  <2>. QED
    BY <2>1, <2>2
<1>6. u \in Scripts(S) /\ PendingIn(u) = {}
  BY <1>2, <1>4, <1>5 DEF Scripts, Linked, PendingIn
<1>. QED
  BY <1>2, <1>6 DEF u

\* No steps, one step.
LEMMA ScriptOne ==
  ASSUME NEW S
  PROVE  /\ <<>> \in Scripts(S) /\ PendingIn(<<>>) = {}
         /\ \A s \in S : s.do \notin Writing /\ s.do # "upsert" =>
              <<s>> \in Scripts(S) /\ PendingIn(<<s>>) = {} /\ <<s>> # <<>> /\ Head(<<s>>) = s
<1>1. <<>> \in Scripts(S) /\ PendingIn(<<>>) = {}
  BY DEF Scripts, Linked, PendingIn
<1>2. \A s \in S : s.do \notin Writing /\ s.do # "upsert" =>
        <<s>> \in Scripts(S) /\ PendingIn(<<s>>) = {} /\ <<s>> # <<>> /\ Head(<<s>>) = s
  <2>. TAKE s \in S
  <2>. HAVE s.do \notin Writing /\ s.do # "upsert"
  <2>1. <<s>> = <<s>> \o <<>> /\ <<s>> # <<>> /\ Head(<<s>>) = s
    OBVIOUS
  <2>. QED
    BY <1>1, <2>1, ScriptFirst
<1>. QED
  BY <1>1, <1>2

(***************************************************************************)
(* The scripts of calls.                                                   *)
(***************************************************************************)

\* Evaluations of some doors, made from one reading of the document.
UpsertsOf(xs, status, at, pronounced) ==
  [i \in DOMAIN InOrder[xs] |->
     [do |-> "upsert", door |-> InOrder[xs][i], status |-> status[InOrder[xs][i]], at |-> at,
      pronounced |-> pronounced]]

ReadingOf(x, status, at, pronounced) ==
  [do |-> "upsert", door |-> x, status |-> status[x], at |-> at, pronounced |-> pronounced]

ReadingsOf(xs, status, at, pronounced) == {ReadingOf(x, status, at, pronounced) : x \in xs}

\* There is one to store for each of the doors.
LEMMA UpsertScripts ==
  ASSUME NEW xs \in SUBSET Door, NEW status \in [xs -> Status], NEW at \in Nat, NEW pronounced \in BOOLEAN
  PROVE  /\ UpsertsOf(xs, status, at, pronounced) \in Scripts(Evaluations)
         /\ PendingIn(UpsertsOf(xs, status, at, pronounced))
              = ReadingsOf(xs, status, at, pronounced)
         /\ xs = {} => UpsertsOf(xs, status, at, pronounced) = <<>>
         /\ xs # {} => /\ UpsertsOf(xs, status, at, pronounced) # <<>>
                       /\ Head(UpsertsOf(xs, status, at, pronounced)).do = "upsert"
<1>. DEFINE order == InOrder[xs]
            u == UpsertsOf(xs, status, at, pronounced)
<1>1. /\ order \in Seq(xs)
      /\ \A x \in xs : \E i \in DOMAIN order : order[i] = x
      /\ \A i, j \in DOMAIN order : order[i] = order[j] => i = j
  BY Assumptions
<1>2. DOMAIN order = 1..Len(order) /\ Len(order) \in Nat /\ \A i \in 1..Len(order) : order[i] \in xs
  BY <1>1
<1>3. u = [i \in 1..Len(order) |-> ReadingOf(order[i], status, at, pronounced)]
  BY <1>2 DEF UpsertsOf, ReadingOf
<1>4. \A x \in xs : ReadingOf(x, status, at, pronounced) \in Evaluations
  BY DEF ReadingOf, Evaluations
<1>. HIDE DEF u, order
<1>5. u \in Seq(Evaluations) /\ Len(u) = Len(order)
  BY <1>2, <1>3, <1>4
<1>6. \A i \in 1..Len(u) : u[i].do = "upsert" /\ u[i].door = order[i] /\ u[i] = ReadingOf(order[i], status, at, pronounced)
  BY <1>2, <1>3, <1>5 DEF ReadingOf
<1>7. Linked(u)
  <2>1. \A i \in 1..Len(u) : \A j \in 1..i - 1 : u[j].do = "upsert" /\ u[j].door # u[i].door
    <3>. TAKE i \in 1..Len(u)
    <3>. TAKE j \in 1..i - 1
    <3>1. j \in 1..Len(u) /\ j # i
      BY <1>2, <1>5
    <3>. QED
      BY <1>1, <1>2, <1>5, <1>6, <3>1, SMTT(30)
  <2>. QED
    BY <1>6, <2>1 DEF Linked, Writing
<1>8. PendingIn(u) = {ReadingOf(x, status, at, pronounced) : x \in xs}
  <2>1. PendingIn(u) = {u[i] : i \in 1..Len(u)}
    BY <1>6 DEF PendingIn
  <2>2. \A x \in xs : \E i \in 1..Len(u) : u[i] = ReadingOf(x, status, at, pronounced)
    BY <1>1, <1>2, <1>5, <1>6
  <2>3. \A i \in 1..Len(u) : \E x \in xs : u[i] = ReadingOf(x, status, at, pronounced)
    BY <1>2, <1>5, <1>6
  <2>. QED
    BY <2>1, <2>2, <2>3
<1>9. xs = {} => u = <<>>
  <2>. HAVE xs = {}
  <2>1. Len(order) = 0
    BY <1>2
  <2>. QED
    BY <1>5, <2>1
<1>10. xs # {} => u # <<>> /\ Head(u).do = "upsert"
  <2>. HAVE xs # {}
  <2>1. Len(order) > 0
    BY <1>1, <1>2
  <2>2. 1 \in 1..Len(u) /\ u # <<>>
    BY <1>2, <1>5, <2>1
  <2>. QED
    BY <1>5, <1>6, <2>2
<1>. QED
  BY <1>5, <1>7, <1>8, <1>9, <1>10 DEF Scripts, ReadingsOf, u

\* An update of a relationship, and what is told of it.
LEMMA Updates ==
  ASSUME NEW k, k.pair # None, NEW status \in Status, NEW cred \in Credential \cup {None},
         NEW event \in {"other", "failed", "pending"}
  PROVE  /\ Tells(event) \in Scripts(Steps(k)) /\ PendingIn(Tells(event)) = {} /\ Tells(event) # <<>>
         /\ Update(status, cred, event) \in Scripts(Steps(k)) /\ PendingIn(Update(status, cred, event)) = {}
         /\ \A what \in {"grant", "newgrant"} : what = "grant" \/ cred # None =>
              /\ Writes(what, status, cred) \o <<Do("evaluate")>> \o Tells(event) \in Scripts(Steps(k))
              /\ PendingIn(Writes(what, status, cred) \o <<Do("evaluate")>> \o Tells(event)) = {}
<1>. DEFINE S == Steps(k)
            m == [do |-> "metadata", status |-> status, cred |-> cred]
            W(what) == [do |-> what, status |-> status]
            e == Do("evaluate")
            h == [do |-> "history", event |-> event]
<1>1. /\ m \in OfPair /\ e \in OfPair /\ h \in OfPair
      /\ \A what \in {"grant", "newgrant"} : W(what) \in OfPair
  BY DEF OfPair, Do
<1>2. OfPair \subseteq S
  BY DEF Steps
<1>3. /\ m.do = "metadata" /\ m.cred = cred /\ e.do = "evaluate" /\ h.do = "history"
      /\ \A what \in {"grant", "newgrant"} : W(what).do = what
  BY DEF Do
<1>4. Tells(event) = <<h>>
  BY DEF Tells
<1>5. \A what \in {"grant", "newgrant"} :
        Writes(what, status, cred) \o <<Do("evaluate")>> \o Tells(event)
          = <<m>> \o (<<W(what)>> \o (<<e>> \o <<h>>))
  BY DEF Writes, Tells
<1>6. Update(status, cred, event) = <<m>> \o (<<W("grant")>> \o (<<e>> \o <<h>>))
  BY DEF Writes, Tells, Update
<1>. HIDE DEF m, W, e, h, S
<1>7. <<h>> \in Scripts(S) /\ PendingIn(<<h>>) = {} /\ <<h>> # <<>>
  BY <1>1, <1>2, <1>3, ScriptOne DEF Writing
<1>. DEFINE t == <<e>> \o <<h>>
            u(what) == <<W(what)>> \o t
            v(what) == <<m>> \o u(what)
<1>8. t \in Scripts(S) /\ PendingIn(t) = {} /\ t # <<>> /\ Head(t) = e
  <2>1. e \in S /\ e.do # "upsert" /\ e.do \notin Writing
    BY <1>1, <1>2, <1>3 DEF Writing
  <2>. QED
    BY <1>7, <2>1, ScriptFirst
<1>. HIDE DEF t
<1>9. \A what \in {"grant", "newgrant"} :
        u(what) \in Scripts(S) /\ PendingIn(u(what)) = {} /\ u(what) # <<>> /\ Head(u(what)) = W(what)
  <2>. TAKE what \in {"grant", "newgrant"}
  <2>1. /\ W(what) \in S /\ W(what).do # "upsert" /\ W(what).do \in {"grant", "newgrant"}
        /\ Continues(W(what), Head(t))
    BY <1>1, <1>2, <1>3, <1>8 DEF Continues, Writing, Reading
  <2>. QED
    BY <1>8, <2>1, ScriptFirst
<1>10. \A what \in {"grant", "newgrant"} : what = "grant" \/ cred # None =>
         v(what) \in Scripts(S) /\ PendingIn(v(what)) = {}
  <2>. TAKE what \in {"grant", "newgrant"}
  <2>. HAVE what = "grant" \/ cred # None
  <2>1. /\ m \in S /\ m.do # "upsert"
        /\ Continues(m, Head(u(what))) /\ u(what) # <<>> /\ u(what) \in Scripts(S)
        /\ PendingIn(u(what)) = {}
    BY <1>1, <1>2, <1>3, <1>9 DEF Continues, Writing
  <2>. HIDE DEF u
  <2>. QED
    BY <2>1, ScriptFirst
<1>11. \A what \in {"grant", "newgrant"} : <<m>> \o (<<W(what)>> \o (<<e>> \o <<h>>)) = v(what)
  BY DEF v, u, t
<1>. QED
  BY <1>4, <1>5, <1>6, <1>7, <1>10, <1>11 DEF S

\* What may be done when a step raises may be done at any time.
LEMMA Milder ==
  ASSUME NEW k
  PROVE  /\ Scripts(Steps(k)) \subseteq Scripts(Mild(k)) /\ Scripts(Mild(k)) \subseteq Scripts(Wild(k))
         /\ Scripts(Wild(k)) \subseteq Scripts(Wild(k) \cup Evaluations)
         /\ Scripts(Evaluations) \subseteq Scripts(Wild(k) \cup Evaluations)
         /\ Guarding(Steps(k)) \subseteq Mild(k) /\ Guarding(Mild(k)) \subseteq Wild(k)
  BY ScriptsGrow DEF Mild, Wild

\* A guard before a script.
LEMMA Guarded ==
  ASSUME NEW S, NEW undo \in Scripts(S), NEW T, Guarding(S) \subseteq T
  PROVE  Except(undo) \in Scripts(T) /\ PendingIn(Except(undo)) = {} /\ Except(undo) # <<>>
<1>. DEFINE e == [do |-> "except", undo |-> undo]
<1>1. e \in T /\ e.do = "except"
  BY DEF Guarding
<1>2. Except(undo) = <<e>>
  BY DEF Except
<1>. HIDE DEF e
<1>. QED
  BY <1>1, <1>2, ScriptOne DEF Writing

\* One step of those that go with a relationship.
LEMMA PairStep ==
  ASSUME NEW k, k.pair # None, NEW what \in {"evaluate", "pronounce", "alarm", "raise"}
  PROVE  <<Do(what)>> \in Scripts(Steps(k)) /\ PendingIn(<<Do(what)>>) = {} /\ <<Do(what)>> # <<>>
<1>1. Do(what) \in Steps(k) /\ Do(what).do = what
  BY DEF Do, Steps, OfPair
<1>. QED
  BY <1>1, ScriptOne DEF Writing

\* What follows the removal of a PIN from a lock, and what the lock told of it.
LEMMA Removals ==
  ASSUME NEW k, k.pair # None, NEW cred \in Credential \cup {None}, NEW outcome \in RemovalOutcome,
         NEW after \in Scripts(Steps(k)), PendingIn(after) = {}
  PROVE  /\ RemovalSteps(cred, outcome, after) \in Scripts(Wild(k))
         /\ PendingIn(RemovalSteps(cred, outcome, after)) = {}
<1>. DEFINE S == Steps(k)
<1>1. {"pending", "retry_required", "manual_attention_required"} \subseteq Status
  BY Ranks
<1>2. \A status \in {"retry_required", "manual_attention_required"} :
        /\ Mark(status, cred, after) \in Scripts(Mild(k)) /\ PendingIn(Mark(status, cred, after)) = {}
  <2>. TAKE status \in {"retry_required", "manual_attention_required"}
  <2>1. Tells("failed") \in Scripts(S) /\ Update(status, cred, "failed") \in Scripts(S)
        /\ PendingIn(Update(status, cred, "failed")) = {}
    BY <1>1, Updates
  <2>2. Tells("failed") \o after \in Scripts(S)
    BY <2>1, ScriptThen
  <2>3. /\ Except(Tells("failed") \o after) \in Scripts(Mild(k))
        /\ PendingIn(Except(Tells("failed") \o after)) = {}
    BY <2>2, Milder, Guarded
  <2>4. Update(status, cred, "failed") \in Scripts(Mild(k)) /\ after \in Scripts(Mild(k))
    BY <2>1, Milder
  <2>. DEFINE a == Except(Tells("failed") \o after)
              b == Update(status, cred, "failed")
  <2>5. a \o b \in Scripts(Mild(k)) /\ PendingIn(a \o b) = {}
    <3>. HIDE DEF a, b
    <3>. QED
      BY <2>1, <2>3, <2>4, ScriptThen DEF a, b
  <2>6. a \o b \o after \in Scripts(Mild(k)) /\ PendingIn(a \o b \o after) = {}
    <3>. HIDE DEF a, b
    <3>. QED
      BY <2>4, <2>5, ScriptThen
  <2>. QED
    BY <2>6 DEF Mark
<1>3. Removal \in Scripts(S) /\ PendingIn(Removal) = {}
  <2>. DEFINE t1 == Tells("other")
              t2 == <<Do("pronounce")>> \o t1
              t3 == <<Do("dropmetadata")>> \o t2
              t4 == <<Do("evaluate")>> \o t3
              t5 == <<Do("dropgrant")>> \o t4
  <2>0. /\ \A what \in {"dropgrant", "dropmetadata", "evaluate", "pronounce"} :
             Do(what) \in S /\ Do(what).do = what
    BY DEF Do, Steps, OfPair
  <2>1. t1 \in Scripts(S) /\ PendingIn(t1) = {}
    BY <1>1, Updates
  <2>. HIDE DEF t1
  <2>2. t2 \in Scripts(S) /\ PendingIn(t2) = {} /\ t2 # <<>> /\ Head(t2).do = "pronounce"
    BY <2>0, <2>1, ScriptFirst DEF Writing
  <2>. HIDE DEF t2
  <2>3. t3 \in Scripts(S) /\ PendingIn(t3) = {} /\ t3 # <<>>
    BY <2>0, <2>2, ScriptFirst DEF Continues, Writing, Reading
  <2>. HIDE DEF t3
  <2>4. t4 \in Scripts(S) /\ PendingIn(t4) = {} /\ t4 # <<>> /\ Head(t4).do = "evaluate"
    BY <2>0, <2>3, ScriptFirst DEF Writing
  <2>. HIDE DEF t4
  <2>5. t5 \in Scripts(S) /\ PendingIn(t5) = {}
    BY <2>0, <2>4, ScriptFirst DEF Continues, Writing, Reading
  <2>6. Removal = t5
    BY DEF Removal, t5, t4, t3, t2, t1, Tells
  <2>. QED
    BY <2>5, <2>6
<1>4. Verified(outcome, cred, after) \in Scripts(Wild(k)) /\ PendingIn(Verified(outcome, cred, after)) = {}
  <2>1. CASE outcome # "removed"
    BY <1>2, <2>1, Milder DEF Verified, RemovalOutcome
  <2>2. CASE outcome = "removed"
    <3>. DEFINE a == Except(Mark("manual_attention_required", cred, after))
    <3>1. a \in Scripts(Wild(k)) /\ PendingIn(a) = {}
      BY <1>2, Milder, Guarded
    <3>2. Removal \in Scripts(Wild(k)) /\ after \in Scripts(Wild(k))
      BY <1>3, Milder
    <3>. HIDE DEF a
    <3>3. a \o Removal \in Scripts(Wild(k)) /\ PendingIn(a \o Removal) = {}
      BY <1>3, <3>1, <3>2, ScriptThen
    <3>4. a \o Removal \o after \in Scripts(Wild(k)) /\ PendingIn(a \o Removal \o after) = {}
      BY <3>2, <3>3, ScriptThen
    <3>. QED
      BY <2>2, <3>4 DEF Verified, a
  <2>. QED
    BY <2>1, <2>2
<1>5. Update("pending", cred, "other") \in Scripts(Wild(k)) /\ PendingIn(Update("pending", cred, "other")) = {}
  BY <1>1, Updates, Milder
<1>. QED
  BY <1>4, <1>5, ScriptThen DEF RemovalSteps

\* What takes back a grant.
LEMMA Undoing ==
  ASSUME NEW k, k.pair # None
  PROVE  <<Do("dropgrant"), Do("dropmetadata"), Do("evaluate")>> \in Scripts(Steps(k))
<1>. DEFINE S == Steps(k)
            t1 == <<Do("evaluate")>>
            t2 == <<Do("dropmetadata")>> \o t1
            t3 == <<Do("dropgrant")>> \o t2
<1>0. /\ \A what \in {"dropgrant", "dropmetadata", "evaluate"} : Do(what) \in S /\ Do(what).do = what
  BY DEF Do, Steps, OfPair
<1>1. t1 \in Scripts(S) /\ PendingIn(t1) = {} /\ t1 # <<>> /\ Head(t1).do = "evaluate"
  BY <1>0, ScriptOne DEF Writing
<1>. HIDE DEF t1
<1>2. t2 \in Scripts(S) /\ PendingIn(t2) = {} /\ t2 # <<>> /\ Head(t2).do = "dropmetadata"
  BY <1>0, <1>1, ScriptFirst DEF Continues, Writing, Reading
<1>. HIDE DEF t2
<1>3. t3 \in Scripts(S)
  BY <1>0, <1>2, ScriptFirst DEF Continues, Writing
<1>4. <<Do("dropgrant"), Do("dropmetadata"), Do("evaluate")>> = t3
  BY DEF t3, t2, t1
<1>. QED
  BY <1>3, <1>4

\* What an operation does.
LEMMA Operating ==
  ASSUME NEW k, k.op # None, NEW work \in Work
  PROVE  /\ work \in Scripts(Steps(k)) /\ PendingIn(work) = {} /\ work # <<>>
         /\ <<Do("observe")>> \in Scripts(Steps(k)) /\ PendingIn(<<Do("observe")>>) = {}
         /\ <<Do("observe")>> \o work \in Scripts(Steps(k)) /\ PendingIn(<<Do("observe")>> \o work) = {}
         /\ <<Do("observe")>> \o work # <<>> /\ Head(<<Do("observe")>> \o work) = Do("observe")
<1>. DEFINE S == Steps(k)
<1>0. /\ \A what \in {"observe", "finish", "raise"} : Do(what) \in S /\ Do(what).do = what
      /\ \A status \in OperationStatus \ {"completed"} :
           Operate(status) \in S /\ Operate(status).do = "operate"
  BY DEF Do, Operate, Steps, OfOperation
<1>1. \A what \in {"finish", "raise", "observe"} : <<Do(what)>> \in Scripts(S) /\ PendingIn(<<Do(what)>>) = {}
  BY <1>0, ScriptOne DEF Writing
<1>2. \A status \in OperationStatus \ {"completed"} : \A t \in Scripts(S) : PendingIn(t) = {} =>
        /\ <<Operate(status)>> \o t \in Scripts(S) /\ PendingIn(<<Operate(status)>> \o t) = {}
  <2>. TAKE status \in OperationStatus \ {"completed"}
  <2>. TAKE t \in Scripts(S)
  <2>. HAVE PendingIn(t) = {}
  <2>1. Operate(status) \in S /\ Operate(status).do \notin Writing /\ Operate(status).do # "upsert"
    BY <1>0 DEF Writing
  <2>. QED
    BY <2>1, ScriptFirst
<1>3. work \in Scripts(S) /\ PendingIn(work) = {} /\ work # <<>>
  <2>1. CASE work = <<Operate("running"), Do("finish")>>
    <3>1. work = <<Operate("running")>> \o <<Do("finish")>> /\ work # <<>>
      BY <2>1
    <3>. QED
      BY <1>1, <1>2, <3>1 DEF OperationStatus
  <2>2. ASSUME NEW status \in {"waiting_retry", "failed"},
               work = <<Operate("running"), Operate(status), Do("raise")>>
        PROVE  work \in Scripts(S) /\ PendingIn(work) = {} /\ work # <<>>
    <3>1. work = <<Operate("running")>> \o (<<Operate(status)>> \o <<Do("raise")>>) /\ work # <<>>
      BY <2>2
    <3>2. {status, "running"} \subseteq OperationStatus \ {"completed"}
      BY DEF OperationStatus
    <3>3. /\ <<Operate(status)>> \o <<Do("raise")>> \in Scripts(S)
          /\ PendingIn(<<Operate(status)>> \o <<Do("raise")>>) = {}
      BY <1>1, <1>2, <3>2
    <3>. QED
      BY <1>2, <3>1, <3>2, <3>3
  <2>. QED
    BY <2>1, <2>2 DEF Work
<1>4. Do("observe") \in S /\ Do("observe").do = "observe"
  BY <1>0
<1>5. /\ <<Do("observe")>> \o work \in Scripts(S) /\ PendingIn(<<Do("observe")>> \o work) = {}
      /\ <<Do("observe")>> \o work # <<>> /\ Head(<<Do("observe")>> \o work) = Do("observe")
  <2>. HIDE DEF S
  <2>. QED
    BY <1>3, <1>4, ScriptFirst DEF Writing
<1>. QED
  BY <1>1, <1>3, <1>5

\* What a recovery says, and how it looks again before it says that.
LEMMA Answers ==
  ASSUME NEW k, Recovering(k), k.pair # None
  PROVE  /\ \A said \in Replies \ {"seen", "completed"} :
              Answer(said) \in Scripts(Steps(k)) /\ PendingIn(Answer(said)) = {}
         /\ k.was = "synchronized" =>
              Answer("completed") \in Scripts(Steps(k)) /\ PendingIn(Answer("completed")) = {}
         /\ k.was # "synchronized" =>
              /\ \A what \in {"resume", "reevaluate", "reread"} :
                   <<Do(what)>> \in Scripts(Steps(k)) /\ PendingIn(<<Do(what)>>) = {}
              /\ \A said \in Replies \ {"completed"} :
                   Answer(said) \in Scripts(Steps(k)) /\ PendingIn(Answer(said)) = {}
<1>. DEFINE S == Steps(k)
            A(said) == [do |-> "answer", said |-> said]
<1>1. /\ \A said \in Replies : A(said).do = "answer" /\ Answer(said) = <<A(said)>>
      /\ \A what \in {"resume", "reevaluate", "reread"} : Do(what).do = what
  BY DEF Do, Answer
<1>2. /\ \A said \in Replies \ {"seen", "completed"} : A(said) \in S
      /\ k.was = "synchronized" => A("completed") \in S
      /\ k.was # "synchronized" => A("seen") \in S
      /\ k.was # "synchronized" => \A what \in {"resume", "reevaluate", "reread"} : Do(what) \in S
  BY DEF Steps, Saying, Completing, Seeing, Do
<1>3. "completed" \in Replies /\ "seen" \in Replies
  BY DEF Replies
<1>. HIDE DEF A, S
<1>4. /\ \A said \in Replies : A(said) \in S => Answer(said) \in Scripts(S) /\ PendingIn(Answer(said)) = {}
      /\ \A what \in {"resume", "reevaluate", "reread"} :
           Do(what) \in S => <<Do(what)>> \in Scripts(S) /\ PendingIn(<<Do(what)>>) = {}
  BY <1>1, ScriptOne DEF Writing
<1>. QED
  BY <1>2, <1>3, <1>4 DEF S

\* A recovery that is not over when it begins.
LEMMA Looking ==
  ASSUME NEW k, Recovering(k), k.pair # None, k.was # "synchronized"
  PROVE  /\ Look \in Scripts(Steps(k)) /\ PendingIn(Look) = {}
         /\ \A said \in Replies \ {"completed"} :
              /\ Look \o Answer(said) \in Scripts(Steps(k)) /\ PendingIn(Look \o Answer(said)) = {}
              /\ <<Do("reread")>> \o Answer(said) \in Scripts(Steps(k))
              /\ PendingIn(<<Do("reread")>> \o Answer(said)) = {}
         /\ Failure \in Scripts(Steps(k))
         /\ \A what \in {"raise", "resume"} :
              Tells("other") \o <<Do(what)>> \in Scripts(Steps(k))
<1>. DEFINE S == Steps(k)
<1>1. Look \in Scripts(S) /\ PendingIn(Look) = {}
  BY Answers DEF Look
<1>2. \A said \in Replies \ {"completed"} :
        /\ Look \o Answer(said) \in Scripts(S) /\ PendingIn(Look \o Answer(said)) = {}
        /\ <<Do("reread")>> \o Answer(said) \in Scripts(S) /\ PendingIn(<<Do("reread")>> \o Answer(said)) = {}
  BY <1>1, Answers, ScriptThen
<1>3. Tells("other") \in Scripts(S) /\ PendingIn(Tells("other")) = {}
  BY Updates, Ranks
<1>4. Failure \in Scripts(S)
  <2>1. Look \o Tells("other") \in Scripts(S)
    BY <1>1, <1>3, ScriptThen
  <2>2. Answer("failed") \in Scripts(S) /\ PendingIn(Answer("failed")) = {}
    BY Answers DEF Replies
  <2>. QED
    BY <2>1, <2>2, ScriptThen DEF Failure
<1>5. \A what \in {"raise", "resume"} : <<Do(what)>> \in Scripts(S) /\ PendingIn(<<Do(what)>>) = {}
  BY Answers, PairStep
<1>. QED
  BY <1>1, <1>2, <1>3, <1>4, <1>5, ScriptThen

Decisions ==
  {"unavailable", "overlap", "progress", "already", "refused", "unsafe", "changed", "hopeless", "resume"}

\* What follows from the decision of a recovery.
LEMMA Deciding ==
  ASSUME NEW k, Recovering(k), k.pair # None, NEW decision \in Decisions,
         decision = "already" => k.was = "synchronized",
         decision \in {"changed", "hopeless", "resume"} => k.was # "synchronized"
  PROVE  /\ StepsAfter(decision) \in Scripts(Steps(k)) /\ PendingIn(StepsAfter(decision)) = {}
         /\ StepsIfRaised(decision) \in Scripts(Steps(k))
<1>. DEFINE S == Steps(k)
<1>1. /\ \A said \in {"unavailable", "unsafe", "overlap", "progress", "refused", "failed"} :
           Answer(said) \in Scripts(S) /\ PendingIn(Answer(said)) = {}
  BY Answers DEF Replies
<1>2. <<Do("alarm")>> \in Scripts(S)
  BY PairStep
<1>3. Tells("other") \in Scripts(S) /\ PendingIn(Tells("other")) = {}
  BY Updates, Ranks
<1>4. \A t \in Scripts(S) : t # <<>> /\ Head(t).do # "upsert" => PendingIn(t) = {}
  BY PendingFirst
<1>5. Pure(S)
  BY DEF Pure, Steps, OfPair, OfOperation, Saying, Completing, Seeing
<1>6. \A t \in Scripts(S) : PendingIn(t) = {}
  BY <1>5, PendingFirst
<1>7. StepsAfter(decision) \in Scripts(S)
  <2>1. CASE decision \in {"unavailable", "unsafe"}
    <3>1. <<Do("alarm")>> \o Answer(decision) \in Scripts(S)
      BY <1>1, <1>2, <2>1, ScriptThen
    <3>. QED
      BY <2>1, <3>1 DEF StepsAfter
  <2>2. CASE decision = "overlap"
    <3>1. <<Do("alarm")>> \o Tells("other") \in Scripts(S)
      BY <1>2, <1>3, ScriptThen
    <3>2. <<Do("alarm")>> \o Tells("other") \o Answer(decision) \in Scripts(S)
      BY <1>1, <2>2, <3>1, ScriptThen
    <3>. QED
      BY <2>2, <3>2 DEF StepsAfter
  <2>3. CASE decision = "changed"
    <3>1. Look \o Answer("changed") \in Scripts(S)
      BY <2>3, Looking DEF Replies
    <3>. QED
      BY <2>3, <3>1 DEF StepsAfter
  <2>4. CASE decision \in {"hopeless", "resume"}
    BY <2>4, Looking DEF StepsAfter
  <2>5. CASE decision = "already"
    BY <2>5, Answers DEF StepsAfter
  <2>6. CASE decision \in {"progress", "refused"}
    BY <1>1, <2>6 DEF StepsAfter
  <2>. QED
    BY <2>1, <2>2, <2>3, <2>4, <2>5, <2>6 DEF Decisions
<1>8. StepsIfRaised(decision) \in Scripts(S)
  <2>1. CASE decision = "unavailable"
    BY <1>1, <2>1 DEF StepsIfRaised
  <2>2. CASE decision \in {"hopeless", "resume"}
    BY <2>2, Looking DEF StepsIfRaised
  <2>3. CASE decision \notin {"unavailable", "hopeless", "resume"}
    BY <2>3, ScriptOne DEF StepsIfRaised
  <2>. QED
    BY <2>1, <2>2, <2>3
<1>. QED
  BY <1>6, <1>7, <1>8

(***************************************************************************)
(* Calls and their steps.                                                  *)
(***************************************************************************)

\* Calls about the same have the same steps.
LEMMA Kin ==
  ASSUME NEW n, NEW m, m.pair = n.pair, m.op = n.op, DOMAIN m = DOMAIN n, Recovering(n) => m.was = n.was
  PROVE  Steps(m) = Steps(n) /\ Mild(m) = Mild(n) /\ Wild(m) = Wild(n)
<1>1. Steps(m) = Steps(n)
  BY DEF Steps, Recovering
<1>. QED
  BY <1>1 DEF Mild, Wild

\* What a call is that is about to take a step, or has to be entered.
CallOn(n) ==
  Formed(n) /\ n.todo \in Scripts(Wild(n) \cup Evaluations) /\ n.undo \in Scripts(Wild(n))

\* A call that is not over.
LEMMA Busy ==
  ASSUME NEW k, CallOK(k), k.todo # <<>> \/ k # Free
  PROVE  k # Free /\ CallOn(k)
  BY DEF CallOK, CallOn, Free

\* It goes on with other steps, or does what there is to do when a step raises.
LEMMA GoingOn ==
  ASSUME NEW k, CallOn(k)
  PROVE  /\ \A t \in Scripts(Wild(k) \cup Evaluations) :
              LET n == [k EXCEPT !.todo = t]
              IN CallOn(n) /\ n.todo = t /\ n.pair = k.pair /\ n.op = k.op
         /\ LET n == [k EXCEPT !.todo = k.undo, !.undo = <<>>, !.failed = TRUE]
            IN CallOn(n) /\ n.todo = k.undo /\ n.pair = k.pair /\ n.op = k.op /\ PendingIn(k.undo) = {}
<1>1. ASSUME NEW t \in Scripts(Wild(k) \cup Evaluations)
      PROVE  LET n == [k EXCEPT !.todo = t]
             IN CallOn(n) /\ n.todo = t /\ n.pair = k.pair /\ n.op = k.op
  <2>. DEFINE n == [k EXCEPT !.todo = t]
  <2>0. Formed(k) /\ k.undo \in Scripts(Wild(k))
    BY DEF CallOn
  <2>1. /\ DOMAIN n = DOMAIN k /\ n.pair = k.pair /\ n.op = k.op /\ n.undo = k.undo /\ n.todo = t
        /\ Recovering(k) => n.was = k.was /\ n.seen = k.seen /\ n.fact = k.fact
    BY <2>0 DEF Formed, CallFields, RecoveryFields
  <2>. HIDE DEF n
  <2>2. Steps(n) = Steps(k) /\ Mild(n) = Mild(k) /\ Wild(n) = Wild(k)
    BY <2>1, Kin
  <2>3. Formed(n)
    BY <2>0, <2>1 DEF Formed, Recovering, Faithful
  <2>4. CallOn(n)
    BY <2>0, <2>1, <2>2, <2>3 DEF CallOn
  <2>. QED
    BY <2>1, <2>4 DEF n
<1>2. LET n == [k EXCEPT !.todo = k.undo, !.undo = <<>>, !.failed = TRUE]
      IN CallOn(n) /\ n.todo = k.undo /\ n.pair = k.pair /\ n.op = k.op /\ PendingIn(k.undo) = {}
  <2>. DEFINE n == [k EXCEPT !.todo = k.undo, !.undo = <<>>, !.failed = TRUE]
  <2>0. Formed(k) /\ k.undo \in Scripts(Wild(k))
    BY DEF CallOn
  <2>1. /\ DOMAIN n = DOMAIN k /\ n.pair = k.pair /\ n.op = k.op /\ n.undo = <<>> /\ n.todo = k.undo
        /\ Recovering(k) => n.was = k.was /\ n.seen = k.seen /\ n.fact = k.fact
    BY <2>0 DEF Formed, CallFields, RecoveryFields
  <2>. HIDE DEF n
  <2>2. Steps(n) = Steps(k) /\ Mild(n) = Mild(k) /\ Wild(n) = Wild(k)
    BY <2>1, Kin
  <2>3. Formed(n)
    BY <2>0, <2>1 DEF Formed, Recovering, Faithful
  <2>4. k.undo \in Scripts(Wild(n) \cup Evaluations)
    BY <2>0, <2>2, Milder
  <2>5. <<>> \in Scripts(Wild(n))
    BY ScriptOne
  <2>6. PendingIn(k.undo) = {}
    <3>1. Pure(Wild(k))
      BY DEF Pure, Wild, Mild, Guarding, Steps, OfPair, OfOperation, Saying, Completing, Seeing
    <3>. QED
      BY <2>0, <3>1, PendingFirst
  <2>7. CallOn(n)
    BY <2>1, <2>3, <2>4, <2>5 DEF CallOn
  <2>. QED
    BY <2>1, <2>6, <2>7 DEF n
<1>. QED
  BY <1>1, <1>2

\* It is entered: over, or behind its guards.
LEMMA Entering ==
  ASSUME NEW n, CallOn(n)
  PROVE  /\ CallOK(Entered(n)) /\ PendingIn(Entered(n).todo) = PendingIn(n.todo)
         /\ Entered(n) # Free => n.todo # <<>> /\ Entered(n).pair = n.pair /\ Entered(n).op = n.op
         /\ n.todo # <<>> /\ Head(n.todo).do # "except" => Entered(n) = n
<1>0. Formed(n) /\ n.todo \in Scripts(Wild(n) \cup Evaluations) /\ n.undo \in Scripts(Wild(n))
  BY DEF CallOn
<1>1. CASE n.todo = <<>>
  BY <1>1 DEF Entered, CallOK, Free
<1>2. CASE n.todo # <<>> /\ Head(n.todo).do # "except"
  BY <1>0, <1>2 DEF Entered, CallOK
<1>3. CASE n.todo # <<>> /\ Head(n.todo).do = "except"
  <2>. DEFINE m == [n EXCEPT !.todo = Tail(n.todo), !.undo = Head(n.todo).undo]
  <2>1. Entered(n) = m
    BY <1>3 DEF Entered
  <2>2. /\ DOMAIN m = DOMAIN n /\ m.pair = n.pair /\ m.op = n.op
        /\ m.todo = Tail(n.todo) /\ m.undo = Head(n.todo).undo
        /\ Recovering(n) => m.was = n.was /\ m.seen = n.seen /\ m.fact = n.fact
    BY <1>0 DEF Formed, CallFields, RecoveryFields
  <2>. HIDE DEF m
  <2>3. Steps(m) = Steps(n) /\ Mild(m) = Mild(n) /\ Wild(m) = Wild(n)
    BY <2>2, Kin
  <2>4. Formed(m)
    BY <1>0, <2>2 DEF Formed, Recovering, Faithful
  <2>5. Head(n.todo) \in Wild(n) \cup Evaluations /\ Tail(n.todo) \in Scripts(Wild(n) \cup Evaluations)
    BY <1>0, <1>3, ScriptTail
  <2>6. Head(n.todo).undo \in Scripts(Steps(n)) \cup Scripts(Mild(n))
    <3>1. \A s \in Steps(n) \cup Evaluations : s.do # "except"
      BY DEF Steps, OfPair, OfOperation, Saying, Completing, Seeing, Evaluations
    <3>2. Head(n.todo) \in Guarding(Steps(n)) \cup Guarding(Mild(n))
      BY <1>3, <2>5, <3>1 DEF Wild, Mild
    <3>3. \A S : \A s \in Guarding(S) : s.undo \in Scripts(S)
      BY DEF Guarding
    <3>. QED
      BY <3>2, <3>3
  <2>7. CallOK(m)
    BY <2>2, <2>3, <2>4, <2>5, <2>6, Milder DEF CallOK
  <2>8. PendingIn(n.todo) = {} /\ PendingIn(Tail(n.todo)) = {}
    BY <1>0, <1>3, PendingFirst, PendingTail
  <2>. QED
    BY <1>3, <2>1, <2>2, <2>7, <2>8
<1>. QED
  BY <1>1, <1>2, <1>3

\* A call begins or goes on, and the others stay where they are.
LEMMA Moving ==
  ASSUME TypeInv, NEW c \in Caller, NEW n, CallOn(n), call' = [call EXCEPT ![c] = Entered(n)]
  PROVE  /\ call' = [o \in Caller |-> call'[o]] /\ call'[c] = Entered(n)
         /\ \A o \in Caller : CallOK(call'[o])
         /\ \A o \in Caller \ {c} : call'[o] = call[o] /\ Pending(o)' = Pending(o)
         /\ Pending(c)' = PendingIn(n.todo)
         /\ call'[c] # Free => n.todo # <<>> /\ call'[c].pair = n.pair /\ call'[c].op = n.op
         /\ n.todo # <<>> /\ Head(n.todo).do # "except" => call'[c] = n
<1>1. call = [o \in Caller |-> call[o]] /\ \A o \in Caller : CallOK(call[o])
  BY DEF TypeInv, Called
<1>2. call'[c] = Entered(n) /\ \A o \in Caller \ {c} : call'[o] = call[o]
  BY <1>1
<1>3. call' = [o \in Caller |-> call'[o]]
  BY <1>1
<1>. QED
  BY <1>1, <1>2, <1>3, Entering DEF Pending

(***************************************************************************)
(* What transactions leave of a document.                                  *)
(***************************************************************************)

\* A write that changes what the document tells of some doors only.
Rewrites(d, e, xs) ==
  /\ Recent(e) /\ e.version = d.version /\ e.statuses = d.statuses /\ e.doors = d.doors
  /\ \A o \in Op : d.ops[o] # None => e.ops[o] # None /\ d.ops[o].targets \subseteq e.ops[o].targets
  /\ \A x \in Door \ xs : SameAt(d, e, x)

\* One relationship is written or removed, in either of its records.
LEMMA RelationWritten ==
  ASSUME NEW d, Recent(d), NEW g \in Pair,
         NEW r \in [cred : Credential \cup {None}, status : Status] \cup {None},
         NEW s \in [schedule : Schedule \cup {None}, cred : Credential \cup {None}, status : Status] \cup {None}
  PROVE  /\ Rewrites(d, [d EXCEPT !.metadata[g] = r], {g[2]})
         /\ Rewrites(d, [d EXCEPT !.grants[g] = s], {g[2]})
<1>0. d \in Documents /\ d.metadata \in [Pair -> Metadata \cup {None}] /\ d.grants \in [Pair -> Grant \cup {None}]
  BY DEF Recent, Dated, Documents
<1>1. Rewrites(d, [d EXCEPT !.metadata[g] = r], {g[2]})
  <2>. DEFINE metadata == [d.metadata EXCEPT ![g] = r]
              e == [d EXCEPT !.metadata = metadata]
  <2>1. metadata \in [Pair -> Metadata \cup {None}]
    <3>1. r \in Metadata \cup {None}
      <4>1. None \notin Status
        BY Assumptions
      <4>. QED
        BY <4>1 DEF Metadata, AnyStatus
    <3>. QED
      BY <1>0, <3>1
  <2>2. /\ \A h \in Pair : h # g => metadata[h] = d.metadata[h]
        /\ metadata[g] = r
    BY <1>0
  <2>3. [d EXCEPT !.metadata[g] = r] = e
    BY <1>0 DEF Documents
  <2>. HIDE DEF metadata
  <2>4. /\ e \in Documents /\ e.metadata = metadata /\ e.grants = d.grants /\ e.ops = d.ops
        /\ e.version = d.version /\ e.statuses = d.statuses /\ e.doors = d.doors
        /\ e.people = d.people /\ e.authority = d.authority
    BY <1>0, <2>1 DEF Documents
  <2>. HIDE DEF e
  <2>5. Recent(e)
    BY <2>2, <2>4 DEF Recent, Dated, Granted, Recorded, Started, Exists
  <2>6. \A x \in Door \ {g[2]} : SameAt(d, e, x)
    BY <2>2, <2>4 DEF SameAt, OperationsAt
  <2>. QED
    BY <2>3, <2>4, <2>5, <2>6 DEF Rewrites
<1>2. Rewrites(d, [d EXCEPT !.grants[g] = s], {g[2]})
  <2>. DEFINE grants == [d.grants EXCEPT ![g] = s]
              e == [d EXCEPT !.grants = grants]
  <2>1. grants \in [Pair -> Grant \cup {None}]
    <3>1. s \in Grant \cup {None}
      BY DEF Grant, AnyStatus
    <3>. QED
      BY <1>0, <3>1
  <2>2. /\ \A h \in Pair : h # g => grants[h] = d.grants[h]
        /\ grants[g] = s
    BY <1>0
  <2>3. [d EXCEPT !.grants[g] = s] = e
    BY <1>0 DEF Documents
  <2>. HIDE DEF grants
  <2>4. /\ e \in Documents /\ e.grants = grants /\ e.metadata = d.metadata /\ e.ops = d.ops
        /\ e.version = d.version /\ e.statuses = d.statuses /\ e.doors = d.doors
        /\ e.people = d.people /\ e.authority = d.authority
    BY <1>0, <2>1 DEF Documents
  <2>. HIDE DEF e
  <2>5. Recent(e)
    BY <2>2, <2>4 DEF Recent, Dated, Granted, Recorded, Started, Exists
  <2>6. \A x \in Door \ {g[2]} : SameAt(d, e, x)
    BY <2>2, <2>4 DEF SameAt, OperationsAt
  <2>. QED
    BY <2>3, <2>4, <2>5, <2>6 DEF Rewrites
<1>. QED
  BY <1>1, <1>2

\* One operation is started or goes on, and its targets remain.
LEMMA OperationWritten ==
  ASSUME NEW d, Recent(d), NEW o \in Op, NEW r \in LifecycleOperation,
         Kind[o] = "replacement" => r.targets = {e[1] : e \in r.expects},
         d.ops[o] # None => d.ops[o].targets \subseteq r.targets
  PROVE  LET e == [d EXCEPT !.ops[o] = r]
         IN /\ Rewrites(d, e, r.targets)
            /\ e.ops[o] = r /\ \A a \in Op \ {o} : e.ops[a] = d.ops[a]
            /\ Valid(d) /\ r.targets \subseteq d.points => Valid(e)
<1>. DEFINE ops == [d.ops EXCEPT ![o] = r]
            e == [d EXCEPT !.ops = ops]
<1>0. d \in Documents /\ d.ops \in [Op -> LifecycleOperation \cup {None}]
  BY DEF Recent, Dated, Documents
<1>1. ops \in [Op -> LifecycleOperation \cup {None}] /\ ops[o] = r /\ \A a \in Op \ {o} : ops[a] = d.ops[a]
  BY <1>0
<1>2. [d EXCEPT !.ops[o] = r] = e
  BY <1>0 DEF Documents
<1>. HIDE DEF ops
<1>3. /\ e \in Documents /\ e.metadata = d.metadata /\ e.grants = d.grants /\ e.ops = ops
      /\ e.version = d.version /\ e.statuses = d.statuses /\ e.doors = d.doors
      /\ e.people = d.people /\ e.authority = d.authority /\ e.has = d.has
      /\ e.schedules = d.schedules /\ e.points = d.points
  BY <1>0, <1>1 DEF Documents
<1>. HIDE DEF e
<1>4. r # None
  BY Assumptions
<1>5. Recent(e)
  BY <1>1, <1>3 DEF Recent, Dated, Granted, Recorded, Started, Exists
<1>6. \A x \in Door \ r.targets : SameAt(d, e, x)
  BY <1>1, <1>3 DEF SameAt, OperationsAt
<1>7. Valid(d) /\ r.targets \subseteq d.points => Valid(e)
  <2>. HAVE Valid(d) /\ r.targets \subseteq d.points
  <2>1. Granted(e) = Granted(d) /\ Recorded(e) = Recorded(d) /\ Enrolled(e) = Enrolled(d)
    BY <1>3 DEF Granted, Recorded, Enrolled, Exists
  <2>2. Managed(e) = Managed(d)
    BY <1>3, <2>1 DEF Managed
  <2>3. Named(e) \subseteq d.points
    <3>1. \A a \in Started(e) : e.ops[a].targets \subseteq d.points
      <4>1. \A a \in Started(d) : d.ops[a].targets \subseteq d.points
        BY DEF Valid, Referential, Named
      <4>. QED
        BY <1>1, <1>3, <4>1 DEF Started
    <3>2. {g[2] : g \in Granted(d) \cup Recorded(d)} \subseteq d.points
      BY DEF Valid, Referential, Named
    <3>. QED
      BY <2>1, <3>1, <3>2 DEF Named
  <2>4. Referential(e)
    BY <1>3, <2>1, <2>2, <2>3 DEF Valid, Referential
  <2>5. Claims(e)
    BY <1>3, <2>1 DEF Valid, Claims
  <2>. QED
    BY <1>3, <2>1, <2>4, <2>5 DEF Valid, Rooted, DoorsFull
<1>. QED
  BY <1>1, <1>2, <1>3, <1>4, <1>5, <1>6, <1>7 DEF Rewrites

\* The doors of a person are in the document, and what an operation expects is of its type.
LEMMA OperationTyped ==
  ASSUME NEW d, Recent(d), NEW p \in Person, NEW status \in OperationStatus
  PROVE  /\ Operation(d, p, status) \in LifecycleOperation
         /\ Operation(d, p, status).targets = {e[1] : e \in Operation(d, p, status).expects}
         /\ Operation(d, p, status).targets = DoorsOf(d, p)
         /\ DoorsOf(d, p) \subseteq Door
         /\ Valid(d) => DoorsOf(d, p) \subseteq d.points
         /\ \A x \in DoorsOf(d, p) : <<p, x>> \in Granted(d)
         /\ \A g \in Granted(d) : g[1] = p => g[2] \in DoorsOf(d, p)
<1>0. d.metadata \in [Pair -> Metadata \cup {None}] /\ d.grants \in [Pair -> Grant \cup {None}]
  BY DEF Recent, Dated, Documents
<1>1. \A g \in Granted(d) : g[1] = p => g[2] \in DoorsOf(d, p)
  BY DEF DoorsOf
<1>2. \A x \in DoorsOf(d, p) : x \in Door /\ <<p, x>> \in Granted(d)
  <2>1. \A g \in Pair : g = <<g[1], g[2]>> /\ g[2] \in Door
    BY DEF Pair
  <2>. QED
    BY <2>1 DEF DoorsOf, Granted
<1>3. Valid(d) => DoorsOf(d, p) \subseteq d.points
  BY DEF DoorsOf, Valid, Referential, Named
<1>. DEFINE e(x) == <<x, d.grants[<<p, x>>], d.metadata[<<p, x>>]>>
            E == {e(x) : x \in DoorsOf(d, p)}
            r == Operation(d, p, status)
<1>4. r = [person |-> p, targets |-> DoorsOf(d, p), status |-> status, writes |-> 0, expects |-> E]
  BY DEF Operation
<1>5. E \subseteq Expectation
  <2>1. \A x \in Door : <<p, x>> \in Pair
    BY DEF Pair
  <2>2. \A x \in DoorsOf(d, p) : d.grants[<<p, x>>] \in Grant \cup {None} /\ d.metadata[<<p, x>>] \in Metadata \cup {None}
    BY <1>0, <1>2, <2>1
  <2>3. \A x \in DoorsOf(d, p) : <<x, d.grants[<<p, x>>], d.metadata[<<p, x>>]>> \in Expectation
    BY <1>2, <2>2 DEF Expectation
  <2>. QED
    BY <2>3
<1>6. {t[1] : t \in E} = DoorsOf(d, p)
  <2>1. \A x \in DoorsOf(d, p) : e(x)[1] = x
    OBVIOUS
  <2>. HIDE DEF e
  <2>. QED
    BY <2>1
<1>. HIDE DEF E, r
<1>7. DoorsOf(d, p) \subseteq Door
  BY <1>2
<1>8. r \in LifecycleOperation
  BY <1>4, <1>5, <1>7 DEF LifecycleOperation
<1>. QED
  BY <1>1, <1>2, <1>3, <1>4, <1>6, <1>7, <1>8 DEF r

\* An operation is written, with more targets perhaps.
LEMMA WrittenOnce ==
  ASSUME NEW d, Recent(d), NEW o \in Op, d.ops[o] # None, NEW status \in OperationStatus,
         NEW more \in SUBSET Door
  PROVE  /\ LET w == Written(d, o, status)
            IN /\ Rewrites(d, w, d.ops[o].targets) /\ (Valid(d) => Valid(w))
               /\ w.ops[o] # None /\ w.ops[o].targets = d.ops[o].targets /\ w.ops[o].status = status
               /\ w.ops[o].expects = d.ops[o].expects /\ w.ops[o].person = d.ops[o].person
               /\ \A a \in Op \ {o} : w.ops[a] = d.ops[a]
         /\ LET w == [Written(d, o, status) EXCEPT !.ops[o].targets = @ \cup more]
            IN Kind[o] # "replacement" =>
                 /\ Rewrites(d, w, d.ops[o].targets \cup more)
                 /\ w.ops[o] # None
                 /\ Valid(d) /\ more \subseteq d.points => Valid(w)
<1>. DEFINE r == [d.ops[o] EXCEPT !.status = status, !.writes = @ + 1]
            s == [r EXCEPT !.targets = @ \cup more]
<1>0. d \in Documents /\ d.ops \in [Op -> LifecycleOperation \cup {None}] /\ d.ops[o] \in LifecycleOperation
  BY DEF Recent, Dated, Documents
<1>1. /\ r \in LifecycleOperation /\ r.status = status /\ r.targets = d.ops[o].targets
      /\ r.expects = d.ops[o].expects /\ r.person = d.ops[o].person
  <2>1. PICK t \in LifecycleOperation : t = d.ops[o]
    BY <1>0
  <2>2. PICK n \in Nat : n = t.writes + 1
    BY DEF LifecycleOperation
  <2>3. PICK m : m = [t EXCEPT !.status = status, !.writes = n]
    OBVIOUS
  <2>4. /\ m \in LifecycleOperation /\ m.status = status /\ m.targets = t.targets
        /\ m.expects = t.expects /\ m.person = t.person
    BY <2>3 DEF LifecycleOperation
  <2>5. m = r
    BY <2>1, <2>2, <2>3
  <2>. QED
    BY <2>1, <2>4, <2>5
<1>2. Written(d, o, status) = [d EXCEPT !.ops[o] = r]
  BY <1>0 DEF Written, Documents
<1>3. Kind[o] = "replacement" => d.ops[o].targets = {e[1] : e \in d.ops[o].expects}
  BY DEF Recent, Dated, Started
<1>4. Valid(d) => d.ops[o].targets \subseteq d.points
  BY DEF Valid, Referential, Named, Started
<1>5. s \in LifecycleOperation /\ s.targets = d.ops[o].targets \cup more
  <2>. HIDE DEF r
  <2>. QED
    BY <1>1 DEF LifecycleOperation
<1>6. [Written(d, o, status) EXCEPT !.ops[o].targets = @ \cup more] = [d EXCEPT !.ops[o] = s]
  <2>1. PICK w, q : w = Written(d, o, status) /\ q = r
    OBVIOUS
  <2>2. s = [q EXCEPT !.targets = @ \cup more]
    BY <2>1
  <2>. HIDE DEF r, s
  <2>3. w = [d EXCEPT !.ops[o] = q] /\ w.ops[o] = q
    BY <1>0, <1>2, <2>1 DEF Documents
  <2>4. [w EXCEPT !.ops[o].targets = @ \cup more] = [w EXCEPT !.ops[o] = s]
    BY <2>2, <2>3
  <2>5. [w EXCEPT !.ops[o] = s] = [d EXCEPT !.ops[o] = s]
    BY <1>0, <2>3 DEF Documents
  <2>. QED
    BY <2>1, <2>4, <2>5
<1>7. r # None /\ s # None
  BY <1>1, <1>5, Assumptions
<1>. HIDE DEF r, s
<1>8. LET w == [d EXCEPT !.ops[o] = r]
      IN /\ Rewrites(d, w, r.targets) /\ w.ops[o] = r /\ \A a \in Op \ {o} : w.ops[a] = d.ops[a]
         /\ Valid(d) /\ r.targets \subseteq d.points => Valid(w)
  <2>1. Kind[o] = "replacement" => r.targets = {e[1] : e \in r.expects}
    BY <1>1, <1>3
  <2>. QED
    BY <1>1, <2>1, OperationWritten
<1>9. ASSUME Kind[o] # "replacement"
      PROVE  LET w == [d EXCEPT !.ops[o] = s]
             IN /\ Rewrites(d, w, s.targets) /\ w.ops[o] = s
                /\ Valid(d) /\ s.targets \subseteq d.points => Valid(w)
  <2>1. d.ops[o].targets \subseteq s.targets
    BY <1>5
  <2>2. Kind[o] = "replacement" => s.targets = {e[1] : e \in s.expects}
    BY <1>9
  <2>3. s \in LifecycleOperation
    BY <1>5
  <2>. QED
    BY <2>1, <2>2, <2>3, OperationWritten
<1>10. LET w == Written(d, o, status)
       IN /\ Rewrites(d, w, d.ops[o].targets) /\ (Valid(d) => Valid(w))
          /\ w.ops[o] # None /\ w.ops[o].targets = d.ops[o].targets /\ w.ops[o].status = status
          /\ w.ops[o].expects = d.ops[o].expects /\ w.ops[o].person = d.ops[o].person
          /\ \A a \in Op \ {o} : w.ops[a] = d.ops[a]
  BY <1>1, <1>2, <1>4, <1>7, <1>8
<1>11. LET w == [Written(d, o, status) EXCEPT !.ops[o].targets = @ \cup more]
       IN Kind[o] # "replacement" =>
            /\ Rewrites(d, w, d.ops[o].targets \cup more)
            /\ w.ops[o] # None
            /\ Valid(d) /\ more \subseteq d.points => Valid(w)
  <2>1. Valid(d) /\ more \subseteq d.points => s.targets \subseteq d.points
    BY <1>4, <1>5
  <2>. QED
    BY <1>5, <1>6, <1>7, <1>9, <2>1
<1>. QED
  BY <1>10, <1>11

\* An operation is written, with the same targets.
LEMMA WrittenSame ==
  ASSUME NEW d, Recent(d), NEW o \in Op, d.ops[o] # None, NEW status \in OperationStatus
  PROVE  /\ Rewrites(d, Written(d, o, status), d.ops[o].targets)
         /\ Valid(d) => Valid(Written(d, o, status))
         /\ Written(d, o, status).ops[o] # None
         /\ Written(d, o, status).ops[o].targets = d.ops[o].targets
<1>1. PICK more \in SUBSET Door : more = {}
  OBVIOUS
<1>2. /\ LET w == Written(d, o, status)
         IN /\ Rewrites(d, w, d.ops[o].targets) /\ (Valid(d) => Valid(w))
            /\ w.ops[o] # None /\ w.ops[o].targets = d.ops[o].targets /\ w.ops[o].status = status
            /\ w.ops[o].expects = d.ops[o].expects /\ w.ops[o].person = d.ops[o].person
            /\ \A a \in Op \ {o} : w.ops[a] = d.ops[a]
      /\ LET w == [Written(d, o, status) EXCEPT !.ops[o].targets = @ \cup more]
         IN Kind[o] # "replacement" =>
              /\ Rewrites(d, w, d.ops[o].targets \cup more)
              /\ w.ops[o] # None
              /\ Valid(d) /\ more \subseteq d.points => Valid(w)
  BY WrittenOnce, ZenonT(30)
<1>. QED
  BY <1>2

\* A replacement that is confirmed: each of its targets has both records.
LEMMA ConfirmedWell ==
  ASSUME NEW d, Loaded(d), NEW o \in Op, d.ops[o] # None, Kind[o] = "replacement",
         d.ops[o].expects = Operation(d, d.ops[o].person, "running").expects,
         \A x \in d.ops[o].targets : Exists(d, "metadata", <<d.ops[o].person, x>>)
  PROVE  /\ Rewrites(d, Confirmed(d, o), d.ops[o].targets) /\ Valid(Confirmed(d, o))
<1>. DEFINE p == d.ops[o].person
            xs == d.ops[o].targets
            w == Written(d, o, "completed")
            Sure(kept) == [g \in Pair |->
              IF g[1] = p /\ g[2] \in xs THEN [kept[g] EXCEPT !.status = "synchronized"] ELSE kept[g]]
            metadata == Sure(d.metadata)
            grants == Sure(d.grants)
            e == [w EXCEPT !.metadata = metadata, !.grants = grants]
<1>0. Recent(d) /\ Valid(d)
  BY DEF Loaded
<1>1. /\ d.metadata \in [Pair -> Metadata \cup {None}] /\ d.grants \in [Pair -> Grant \cup {None}]
      /\ p \in Person /\ xs \in SUBSET Door
  BY <1>0, DocumentParts DEF Recent, Dated, Documents, Started, LifecycleOperation
<1>2. \A x \in xs : <<p, x>> \in Granted(d) /\ <<p, x>> \in Recorded(d)
  <2>1. xs = DoorsOf(d, p)
    <3>1. "running" \in OperationStatus
      BY DEF OperationStatus
    <3>2. Operation(d, p, "running").targets = {t[1] : t \in Operation(d, p, "running").expects}
          /\ Operation(d, p, "running").targets = DoorsOf(d, p)
      BY <1>0, <1>1, <3>1, OperationTyped
    <3>3. xs = {t[1] : t \in d.ops[o].expects}
      BY <1>0 DEF Recent, Dated, Started
    <3>. QED
      BY <3>2, <3>3
  <2>2. \A x \in DoorsOf(d, p) : <<p, x>> \in Granted(d)
    <3>1. "running" \in OperationStatus
      BY DEF OperationStatus
    <3>. QED
      BY <1>0, <1>1, <3>1, OperationTyped
  <2>3. \A x \in xs : <<p, x>> \in Pair
    BY <1>1 DEF Pair
  <2>. QED
    BY <2>1, <2>2, <2>3 DEF Recorded
<1>3. \A g \in Pair : g[1] = p /\ g[2] \in xs => g \in Granted(d) /\ g \in Recorded(d)
  <2>1. \A g \in Pair : g = <<g[1], g[2]>>
    BY DEF Pair
  <2>. QED
    BY <1>2, <2>1
<1>4. "synchronized" \in Status /\ None \notin Status
  BY Ranks, Assumptions
<1>5. \A g \in Pair :
        /\ metadata[g] \in Metadata \cup {None} /\ grants[g] \in Grant \cup {None}
        /\ ~(g[1] = p /\ g[2] \in xs) => metadata[g] = d.metadata[g] /\ grants[g] = d.grants[g]
        /\ metadata[g] = None <=> d.metadata[g] = None
        /\ grants[g] = None <=> d.grants[g] = None
        /\ metadata[g] # None => metadata[g].cred = d.metadata[g].cred
        /\ metadata[g] # None => metadata[g].status \in {d.metadata[g].status, "synchronized"}
        /\ grants[g] # None => grants[g].cred = d.grants[g].cred /\ grants[g].schedule = d.grants[g].schedule
        /\ grants[g] # None => grants[g].status \in {d.grants[g].status, "synchronized"}
  <2>. TAKE g \in Pair
  <2>1. CASE ~(g[1] = p /\ g[2] \in xs)
    BY <1>1, <2>1
  <2>2. CASE g[1] = p /\ g[2] \in xs
    <3>1. d.metadata[g] \in Metadata /\ d.grants[g] \in Grant
      BY <1>0, <1>3, <2>2, DocumentParts DEF Recent, Dated
    <3>2. /\ metadata[g] = [d.metadata[g] EXCEPT !.status = "synchronized"]
          /\ grants[g] = [d.grants[g] EXCEPT !.status = "synchronized"]
      BY <2>2
    <3>. HIDE DEF metadata, grants
    <3>3. metadata[g] \in Metadata /\ metadata[g].cred = d.metadata[g].cred /\ metadata[g].status = "synchronized"
      BY <1>4, <3>1, <3>2 DEF Metadata, AnyStatus
    <3>4. /\ grants[g] \in Grant /\ grants[g].cred = d.grants[g].cred /\ grants[g].status = "synchronized"
          /\ grants[g].schedule = d.grants[g].schedule
      BY <1>4, <3>1, <3>2 DEF Grant, AnyStatus
    <3>5. None \notin Metadata /\ None \notin Grant
      BY Assumptions
    <3>. QED
      BY <2>2, <3>1, <3>3, <3>4, <3>5
  <2>. QED
    BY <2>1, <2>2
<1>6. metadata \in [Pair -> Metadata \cup {None}] /\ grants \in [Pair -> Grant \cup {None}]
  BY <1>5
<1>7. Confirmed(d, o) = e
  BY DEF Confirmed
<1>8. Rewrites(d, w, xs) /\ Valid(w)
  BY <1>0, <1>1, WrittenOnce DEF OperationStatus
<1>9. w.metadata = d.metadata /\ w.grants = d.grants /\ w.people = d.people /\ w.authority = d.authority
      /\ w \in Documents
  <2>1. w \in Documents
    BY <1>8 DEF Rewrites, Recent, Dated
  <2>. QED
    BY <1>0, <2>1 DEF Written, Recent, Dated, Documents
<1>. HIDE DEF metadata, grants, w
<1>10. /\ e \in Documents /\ e.metadata = metadata /\ e.grants = grants /\ e.ops = w.ops
       /\ e.people = w.people /\ e.authority = w.authority /\ e.statuses = w.statuses
       /\ e.doors = w.doors /\ e.points = w.points /\ e.schedules = w.schedules /\ e.has = w.has
       /\ e.version = w.version
  BY <1>6, <1>9 DEF Documents
<1>. HIDE DEF e
<1>11. Granted(e) = Granted(w) /\ Recorded(e) = Recorded(w) /\ Started(e) = Started(w)
       /\ Enrolled(e) = Enrolled(w)
  BY <1>5, <1>9, <1>10 DEF Granted, Recorded, Started, Enrolled, Exists
<1>12. Recent(e)
  BY <1>4, <1>5, <1>8, <1>9, <1>10, <1>11 DEF Rewrites, Recent, Dated, Granted, Recorded, Exists
<1>13. Valid(e)
  <2>1. Managed(e) = Managed(w) /\ Named(e) = Named(w)
    BY <1>10, <1>11 DEF Managed, Named
  <2>2. Referential(e)
    <3>1. \A g \in Granted(w) : e.grants[g].schedule = w.grants[g].schedule
      BY <1>5, <1>9, <1>10 DEF Granted, Exists
    <3>. QED
      BY <1>8, <1>10, <1>11, <2>1, <3>1 DEF Valid, Referential
  <2>3. Claims(e)
    <3>1. /\ \A g \in Granted(w) : e.grants[g].cred = w.grants[g].cred
          /\ \A g \in Recorded(w) : e.metadata[g].cred = w.metadata[g].cred
      BY <1>5, <1>9, <1>10 DEF Granted, Recorded, Exists
    <3>. QED
      BY <1>8, <1>10, <1>11, <3>1 DEF Valid, Claims
  <2>. QED
    BY <1>8, <1>10, <1>11, <2>2, <2>3 DEF Valid, Rooted, DoorsFull
<1>14. \A x \in Door \ xs : SameAt(d, e, x)
  <2>. TAKE x \in Door \ xs
  <2>1. SameAt(d, w, x)
    BY <1>8 DEF Rewrites
  <2>2. \A g \in Pair : g[2] = x => e.metadata[g] = w.metadata[g] /\ e.grants[g] = w.grants[g]
    BY <1>5, <1>9, <1>10
  <2>3. OperationsAt(e, x) = OperationsAt(w, x)
    BY <1>10 DEF OperationsAt
  <2>. QED
    BY <1>10, <2>1, <2>2, <2>3 DEF SameAt
<1>. QED
  BY <1>7, <1>8, <1>10, <1>12, <1>13, <1>14 DEF Rewrites

\* A deletion that is completed: nothing of the person remains.
LEMMA DeletedWell ==
  ASSUME NEW d, Loaded(d), NEW o \in Op, d.ops[o] # None, NEW xs,
         xs = d.ops[o].targets \cup {g[2] : g \in {h \in Recorded(d) : h[1] = d.ops[o].person}},
         DoorsOf(d, d.ops[o].person) = d.ops[o].targets
  PROVE  Rewrites(d, Deleted(d, o), xs) /\ Valid(Deleted(d, o))
<1>. DEFINE p == d.ops[o].person
            w == Written(d, o, "completed")
            Without(kept) == [g \in Pair |-> IF g[1] = p THEN None ELSE kept[g]]
            metadata == Without(d.metadata)
            grants == Without(d.grants)
            people == [w.people EXCEPT ![p] = None]
            authority == [w.authority EXCEPT ![p] = None]
            e == [w EXCEPT !.people = people, !.authority = authority,
                           !.metadata = metadata, !.grants = grants]
<1>0. Recent(d) /\ Valid(d)
  BY DEF Loaded
<1>1. /\ d.metadata \in [Pair -> Metadata \cup {None}] /\ d.grants \in [Pair -> Grant \cup {None}]
      /\ p \in Person
  BY <1>0, DocumentParts DEF Recent, Dated, Documents, Started, LifecycleOperation
<1>2. Rewrites(d, w, d.ops[o].targets) /\ Valid(w)
  BY <1>0, WrittenOnce DEF OperationStatus
<1>3. w \in Documents
  BY <1>2 DEF Rewrites, Recent, Dated
<1>4. w.metadata = d.metadata /\ w.grants = d.grants /\ w.people = d.people /\ w.authority = d.authority
  BY <1>0, <1>3 DEF Written, Recent, Dated, Documents
<1>5. /\ metadata \in [Pair -> Metadata \cup {None}] /\ grants \in [Pair -> Grant \cup {None}]
      /\ \A g \in Pair : IF g[1] = p THEN metadata[g] = None /\ grants[g] = None
                         ELSE metadata[g] = w.metadata[g] /\ grants[g] = w.grants[g]
  BY <1>1, <1>4
<1>6. Deleted(d, o) = e
  BY <1>3 DEF Deleted, Documents
<1>7. /\ people \in [Person -> Schedule \cup {None}] /\ authority \in [Person -> Credential \cup {None}]
      /\ people[p] = None /\ authority[p] = None
      /\ \A q \in Person \ {p} : people[q] = w.people[q] /\ authority[q] = w.authority[q]
  BY <1>1, <1>3 DEF Documents
<1>. HIDE DEF metadata, grants, people, authority, w
<1>8. /\ e \in Documents /\ e.metadata = metadata /\ e.grants = grants /\ e.ops = w.ops
      /\ e.people = people /\ e.authority = authority /\ e.statuses = w.statuses
      /\ e.doors = w.doors /\ e.points = w.points /\ e.schedules = w.schedules /\ e.has = w.has
      /\ e.version = w.version
  BY <1>3, <1>5, <1>7 DEF Documents
<1>. HIDE DEF e
<1>9. /\ \A g \in Granted(e) : g \in Granted(w) /\ g[1] # p /\ e.grants[g] = w.grants[g]
      /\ \A g \in Recorded(e) : g \in Recorded(w) /\ g[1] # p /\ e.metadata[g] = w.metadata[g]
      /\ Started(e) = Started(w) /\ Enrolled(e) = Enrolled(w)
  BY <1>5, <1>8 DEF Granted, Recorded, Started, Enrolled, Exists
<1>10. Recent(e)
  BY <1>2, <1>8, <1>9 DEF Rewrites, Recent, Dated
<1>11. Valid(e)
  <2>1. Managed(e) = Managed(w) /\ Named(e) \subseteq Named(w)
    BY <1>8, <1>9 DEF Managed, Named
  <2>2. \A g \in Pair : g[1] \in Person
    BY DEF Pair
  <2>3. Referential(e)
    <3>1. \A g \in Granted(e) : e.people[g[1]] # None /\ e.grants[g].schedule \in e.schedules
      BY <1>2, <1>7, <1>8, <1>9, <2>2 DEF Valid, Referential, Granted
    <3>2. \A q \in Person : e.people[q] # None => e.people[q] \in e.schedules
      BY <1>2, <1>7, <1>8 DEF Valid, Referential
    <3>3. Named(e) \cup Enrolled(e) \subseteq e.points /\ Permanent \in e.schedules
      BY <1>2, <1>8, <1>9, <2>1 DEF Valid, Referential
    <3>4. {x \in Door : e.statuses[x] # None} = Managed(e)
      BY <1>2, <1>8, <2>1 DEF Valid, Referential
    <3>. QED
      BY <3>1, <3>2, <3>3, <3>4 DEF Referential
  <2>4. Claims(e)
    <3>. SUFFICES ASSUME NEW q \in Person, e.authority[q] # None
                  PROVE  /\ e.people[q] # None
                         /\ \A r \in Person \ {q} : e.authority[r] # e.authority[q]
                         /\ \A g \in Granted(e) : g[1] = q <=> e.grants[g].cred = e.authority[q]
                         /\ \A g \in Recorded(e) : g[1] = q <=> e.metadata[g].cred = e.authority[q]
      BY DEF Claims
    <3>1. q # p /\ e.authority[q] = w.authority[q] /\ e.people[q] = w.people[q]
      BY <1>7, <1>8
    <3>2. /\ w.people[q] # None
          /\ \A r \in Person \ {q} : w.authority[r] # w.authority[q]
          /\ \A g \in Granted(w) : g[1] = q <=> w.grants[g].cred = w.authority[q]
          /\ \A g \in Recorded(w) : g[1] = q <=> w.metadata[g].cred = w.authority[q]
      BY <1>2, <3>1 DEF Valid, Claims
    <3>3. \A r \in Person \ {q} : e.authority[r] # e.authority[q]
      BY <1>7, <1>8, <3>1, <3>2
    <3>. QED
      BY <1>9, <3>1, <3>2, <3>3
  <2>. QED
    BY <1>2, <1>8, <1>9, <2>3, <2>4 DEF Valid, Rooted, DoorsFull
<1>12. \A x \in Door \ xs : SameAt(d, e, x)
  <2>. TAKE x \in Door \ xs
  <2>1. SameAt(d, w, x)
    BY <1>2 DEF Rewrites
  <2>2. \A g \in Pair : g[2] = x /\ g[1] = p => d.metadata[g] = None /\ d.grants[g] = None
    <3>1. \A g \in Granted(d) : g[1] = p => g[2] \in d.ops[o].targets
      BY DEF DoorsOf
    <3>2. \A g \in Recorded(d) : g[1] = p => g[2] \in xs
      OBVIOUS
    <3>. QED
      BY <3>1, <3>2 DEF Granted, Recorded, Exists
  <2>3. \A g \in Pair : g[2] = x => e.metadata[g] = w.metadata[g] /\ e.grants[g] = w.grants[g]
    BY <1>4, <1>5, <1>8, <2>2
  <2>4. OperationsAt(e, x) = OperationsAt(w, x)
    BY <1>8 DEF OperationsAt
  <2>5. \A g \in Pair : g[1] \in Person
    BY DEF Pair
  <2>6. \A g \in Pair : g[2] = x /\ (d.metadata[g] # None \/ d.grants[g] # None) =>
          e.people[g[1]] = w.people[g[1]] /\ e.authority[g[1]] = w.authority[g[1]]
    BY <1>7, <1>8, <2>2, <2>5
  <2>. QED
    BY <1>8, <2>1, <2>3, <2>4, <2>6 DEF SameAt
<1>. QED
  BY <1>2, <1>6, <1>8, <1>10, <1>11, <1>12 DEF Rewrites

\* Statuses of doors, whatever they are, tell nothing else of a document.
LEMMA StatusesWritten ==
  ASSUME NEW d, Recent(d), Valid(d), NEW table \in [Door -> DoorStatus \cup {None}],
         {x \in Door : table[x] # None} = Managed(d), d.version = Current
  PROVE  LET e == [d EXCEPT !.statuses = table]
         IN /\ Loaded(e) /\ e.ops = d.ops /\ Managed(e) = Managed(d) /\ e.statuses = table
            /\ \A x \in Door : SameAt(d, e, x) /\ Evaluate(e, x) = Evaluate(d, x)
<1>. DEFINE e == [d EXCEPT !.statuses = table]
<1>1. Recent(e)
  BY PartDated DEF Recent
<1>2. /\ e.metadata = d.metadata /\ e.grants = d.grants /\ e.ops = d.ops /\ e.people = d.people
      /\ e.authority = d.authority /\ e.doors = d.doors /\ e.points = d.points
      /\ e.schedules = d.schedules /\ e.has = d.has /\ e.version = d.version /\ e.statuses = table
  BY DEF Recent, Dated, Documents
<1>. HIDE DEF e
<1>3. /\ Granted(e) = Granted(d) /\ Recorded(e) = Recorded(d) /\ Started(e) = Started(d)
      /\ Enrolled(e) = Enrolled(d)
  BY <1>2 DEF Granted, Recorded, Started, Enrolled, Exists
<1>4. Managed(e) = Managed(d) /\ Named(e) = Named(d)
  BY <1>2, <1>3 DEF Managed, Named
<1>5. Valid(e)
  <2>1. Referential(e)
    BY <1>2, <1>3, <1>4 DEF Valid, Referential
  <2>2. Claims(e)
    BY <1>2, <1>3 DEF Valid, Claims
  <2>. QED
    BY <1>2, <1>3, <2>1, <2>2 DEF Valid, Rooted, DoorsFull
<1>6. \A x \in Door : SameAt(d, e, x)
  BY <1>2 DEF SameAt, OperationsAt
<1>7. \A x \in Door : Evaluate(e, x) = Evaluate(d, x)
  BY <1>6, SameStatus
<1>. QED
  BY <1>1, <1>2, <1>4, <1>5, <1>6, <1>7 DEF Loaded, e

\* An evaluation is stored.
LEMMA StoredWell ==
  ASSUME NEW d, Loaded(d), NEW x \in Managed(d), NEW status \in Status, NEW at \in Nat
  PROVE  LET e == [d EXCEPT !.statuses[x] = [status |-> status, at |-> at]]
         IN /\ Loaded(e) /\ e.ops = d.ops /\ Managed(e) = Managed(d)
            /\ e.statuses[x] # None /\ e.statuses[x].status = status /\ e.statuses[x].at = at
            /\ \A y \in Door \ {x} : e.statuses[y] = d.statuses[y]
            /\ \A y \in Door : Evaluate(e, y) = Evaluate(d, y)
<1>. DEFINE r == [status |-> status, at |-> at]
            table == [d.statuses EXCEPT ![x] = r]
<1>0. Recent(d) /\ Valid(d) /\ d.version = Current /\ d \in Documents /\ x \in Door
  BY DEF Loaded, Recent, Dated, Managed, Enrolled
<1>1. r \in DoorStatus /\ r # None /\ r.status = status /\ r.at = at
  <2>1. r \in DoorStatus
    BY DEF DoorStatus
  <2>. QED
    BY <2>1, Assumptions
<1>2. d.statuses \in [Door -> DoorStatus \cup {None}]
  BY <1>0 DEF Documents
<1>. HIDE DEF r
<1>3. table \in [Door -> DoorStatus \cup {None}] /\ table[x] = r
      /\ \A y \in Door \ {x} : table[y] = d.statuses[y]
  BY <1>0, <1>1, <1>2
<1>4. [d EXCEPT !.statuses[x] = r] = [d EXCEPT !.statuses = table]
  BY <1>0 DEF Documents
<1>. HIDE DEF table
<1>5. {y \in Door : d.statuses[y] # None} = Managed(d)
  BY <1>0 DEF Valid, Referential
<1>6. {y \in Door : table[y] # None} = Managed(d)
  BY <1>1, <1>3, <1>5
<1>7. LET e == [d EXCEPT !.statuses = table]
      IN /\ Loaded(e) /\ e.ops = d.ops /\ Managed(e) = Managed(d) /\ e.statuses = table
         /\ \A y \in Door : Evaluate(e, y) = Evaluate(d, y)
  BY <1>0, <1>3, <1>6, StatusesWritten
<1>8. [d EXCEPT !.statuses[x] = [status |-> status, at |-> at]] = [d EXCEPT !.statuses = table]
  BY <1>4 DEF r
<1>. QED
  BY <1>1, <1>3, <1>7, <1>8

\* A door is removed that nobody has access to.
Unenrolls(d, e, x) ==
  /\ e \in Documents /\ e.statuses[x] = None /\ e.doors[x] # None
  /\ e.doors[x].managed = FALSE /\ e.doors[x].full = d.doors[x].full
  /\ \A y \in Door \ {x} : e.statuses[y] = d.statuses[y] /\ e.doors[y] = d.doors[y]
  /\ e.metadata = d.metadata /\ e.grants = d.grants /\ e.ops = d.ops /\ e.people = d.people
  /\ e.authority = d.authority /\ e.points = d.points /\ e.schedules = d.schedules
  /\ e.has = d.has /\ e.version = d.version

\* Without a door that nobody has access to the document stays valid, and tells the same of the others.
LEMMA DoorRemoved ==
  ASSUME NEW d, Loaded(d), NEW x \in Managed(d), NEW e, Unenrolls(d, e, x)
  PROVE  /\ Loaded(e) /\ e.ops = d.ops /\ Managed(e) = Managed(d) \ {x}
         /\ e.statuses[x] = None
         /\ \A y \in Door \ {x} : e.statuses[y] = d.statuses[y]
         /\ \A y \in Door : Evaluate(e, y) = Evaluate(d, y)
<1>0. Recent(d) /\ Valid(d) /\ d.version = Current /\ d \in Documents /\ x \in Door /\ x \in Enrolled(d)
  BY DEF Loaded, Recent, Dated, Managed, Enrolled
<1>5. Unenrolls(d, e, x)
  OBVIOUS
<1>6. Recent(e)
  BY <1>0, <1>5, AlikeDated DEF Recent, Alike, Unenrolls
<1>7. Enrolled(e) = Enrolled(d) /\ \A y \in Enrolled(d) : e.doors[y].full = d.doors[y].full
  BY <1>0, <1>5 DEF Enrolled, Unenrolls
<1>8. Managed(e) = Managed(d) \ {x}
  BY <1>5, <1>7 DEF Managed, Enrolled, Unenrolls
<1>9. /\ Granted(e) = Granted(d) /\ Recorded(e) = Recorded(d) /\ Started(e) = Started(d)
  BY <1>5 DEF Granted, Recorded, Started, Exists, Unenrolls
<1>10. Named(e) = Named(d)
  BY <1>5, <1>9 DEF Named, Unenrolls
<1>11. Valid(e)
  <2>1. {y \in Door : e.statuses[y] # None} = Managed(e)
    <3>1. {y \in Door : d.statuses[y] # None} = Managed(d)
      BY <1>0 DEF Valid, Referential
    <3>. QED
      BY <1>5, <1>8, <3>1 DEF Unenrolls
  <2>2. Referential(e)
    BY <1>0, <1>5, <1>7, <1>9, <1>10, <2>1 DEF Valid, Referential, Unenrolls
  <2>3. Claims(e)
    BY <1>0, <1>5, <1>9 DEF Valid, Claims, Unenrolls
  <2>. QED
    BY <1>0, <1>5, <1>7, <2>2, <2>3 DEF Valid, Rooted, DoorsFull, Unenrolls
<1>12. \A y \in Door : SameAt(d, e, y)
  BY <1>5 DEF SameAt, OperationsAt, Unenrolls
<1>13. \A y \in Door : Evaluate(e, y) = Evaluate(d, y)
  BY <1>12, SameStatus
<1>. QED
  BY <1>0, <1>5, <1>6, <1>8, <1>11, <1>13 DEF Loaded, Unenrolls

\* The document after remove_door.
LEMMA DoorUnenrolled ==
  ASSUME NEW d, Loaded(d), NEW x \in Managed(d),
         NEW e, e = [d EXCEPT !.doors[x].managed = FALSE, !.statuses[x] = None]
  PROVE  Unenrolls(d, e, x)
<1>. DEFINE r == [d.doors[x] EXCEPT !.managed = FALSE]
            doors == [d.doors EXCEPT ![x] = r]
            table == [d.statuses EXCEPT ![x] = None]
            w == [d EXCEPT !.doors = doors, !.statuses = table]
<1>0. d \in Documents /\ x \in Door /\ x \in Enrolled(d)
  BY DEF Loaded, Recent, Dated, Managed, Enrolled
<1>1. r \in Enrolment /\ r # None /\ r.managed = FALSE /\ r.full = d.doors[x].full
  <2>1. PICK t \in Enrolment : t = d.doors[x]
    BY <1>0, DocumentParts
  <2>2. PICK m : m = [t EXCEPT !.managed = FALSE]
    OBVIOUS
  <2>3. m \in Enrolment /\ m.managed = FALSE /\ m.full = t.full
    BY <2>2 DEF Enrolment
  <2>4. m = r
    BY <2>1, <2>2
  <2>. QED
    BY <2>1, <2>3, <2>4, Assumptions
<1>2. d.statuses \in [Door -> DoorStatus \cup {None}] /\ d.doors \in [Door -> Enrolment \cup {None}]
  BY <1>0 DEF Documents
<1>3. e = w
  BY <1>0 DEF Documents
<1>. HIDE DEF r
<1>4. /\ table \in [Door -> DoorStatus \cup {None}] /\ table[x] = None
      /\ doors \in [Door -> Enrolment \cup {None}] /\ doors[x] = r
      /\ \A y \in Door \ {x} : table[y] = d.statuses[y] /\ doors[y] = d.doors[y]
  BY <1>0, <1>1, <1>2
<1>. HIDE DEF table, doors
<1>5. PICK these, those : these = doors /\ those = table
  OBVIOUS
<1>6. e = [d EXCEPT !.doors = these, !.statuses = those]
  BY <1>3, <1>5
<1>7. these \in [Door -> Enrolment \cup {None}] /\ those \in [Door -> DoorStatus \cup {None}]
  BY <1>4, <1>5
<1>8. e \in Documents
  BY <1>0, <1>6, <1>7 DEF Documents
<1>9. /\ e.metadata = d.metadata /\ e.grants = d.grants /\ e.ops = d.ops
      /\ e.people = d.people /\ e.authority = d.authority /\ e.doors = these /\ e.points = d.points
      /\ e.schedules = d.schedules /\ e.has = d.has /\ e.version = d.version /\ e.statuses = those
  BY <1>0, <1>6 DEF Documents
<1>10. those[x] = None /\ these[x] # None /\ these[x].managed = FALSE /\ these[x].full = d.doors[x].full
  BY <1>1, <1>4, <1>5
<1>11. \A y \in Door \ {x} : those[y] = d.statuses[y] /\ these[y] = d.doors[y]
  BY <1>4, <1>5
<1>. QED
  BY <1>8, <1>9, <1>10, <1>11 DEF Unenrolls

\* A process that starts repairs the document and evaluates all its doors.
LEMMA StartedWell ==
  ASSUME NEW d, Loaded(d), NEW now \in Nat
  PROVE  LET e == Evaluated(Repaired(d), now)
         IN /\ Loaded(e) /\ Orphans(e) = {}
            /\ \A x \in Door : e.statuses[x] # None => e.statuses[x].at = now
            /\ \A x \in Managed(e) : e.statuses[x].status = Evaluate(e, x)
<1>. DEFINE m == Repaired(d)
            e == Evaluated(m, now)
<1>0. Loaded(m) /\ Orphans(m) = {}
  BY RepairedLoaded, NoOrphans DEF Loaded, Recent, Dated
<1>. HIDE DEF m
<1>1. Recent(m) /\ Valid(m) /\ m.version = Current /\ m \in Documents
  BY <1>0 DEF Loaded, Recent, Dated
<1>2. Recent(m)
  BY <1>1
<1>. DEFINE table == [x \in Door |->
              IF x \in Managed(m) THEN [status |-> Evaluate(m, x), at |-> now] ELSE None]
<1>6. e = [m EXCEPT !.statuses = table]
  BY DEF Evaluated
<1>7. /\ \A x \in Door : [status |-> Evaluate(m, x), at |-> now] \in DoorStatus
  BY <1>2, EvaluateTyped DEF DoorStatus
<1>8. table \in [Door -> DoorStatus \cup {None}] /\ {x \in Door : table[x] # None} = Managed(m)
  <2>1. Managed(m) \subseteq Door
    BY DEF Managed, Enrolled
  <2>. QED
    BY <1>7, <2>1, Assumptions
<1>9. /\ \A x \in Managed(m) : table[x].at = now /\ table[x].status = Evaluate(m, x)
      /\ \A x \in Door : table[x] # None => x \in Managed(m)
  <2>1. Managed(m) \subseteq Door
    BY DEF Managed, Enrolled
  <2>. QED
    BY <2>1
<1>. HIDE DEF table, e
<1>10. LET f == [m EXCEPT !.statuses = table]
       IN /\ Loaded(f) /\ Managed(f) = Managed(m) /\ f.statuses = table
          /\ \A x \in Door : Evaluate(f, x) = Evaluate(m, x)
  BY <1>0, <1>1, <1>8, StatusesWritten
<1>11. Managed(m) \subseteq Door
  BY DEF Managed, Enrolled
<1>12. Orphans([m EXCEPT !.statuses = table]) = {}
  BY <1>0, <1>1 DEF Orphans, Recorded, Granted, Exists, ActiveOf, Documents
<1>. QED
  BY <1>6, <1>9, <1>10, <1>11, <1>12 DEF e, m

(***************************************************************************)
(* What a step keeps.                                                      *)
(***************************************************************************)

\* Evaluations that are still to be stored were made before.
LEMMA PendingTyped ==
  ASSUME TypeInv, NEW c \in Caller
  PROVE  /\ \A s \in Pending(c) : s \in Evaluations /\ s.at \in Nat /\ s.at <= clock /\ s.door \in Door
         /\ call[c].todo = <<>> \/ Head(call[c].todo).do # "upsert" => Pending(c) = {}
         /\ clock \in Nat
<1>1. CallOK(call[c]) /\ clock \in Nat /\ \A s \in Pending(c) : s.at <= clock
  BY DEF TypeInv, Called
<1>2. CASE call[c].todo = <<>>
  BY <1>1, <1>2, ScriptOne DEF Pending
<1>3. CASE call[c].todo # <<>>
  <2>1. CallOn(call[c])
    BY <1>1, <1>3, Busy
  <2>2. call[c].todo \in Scripts(Wild(call[c]) \cup Evaluations)
    BY <2>1 DEF CallOn
  <2>3. \A s \in Pending(c) : s \in Wild(call[c]) \cup Evaluations /\ s.do = "upsert"
    BY <2>2, PendingFirst DEF Pending
  <2>4. \A t \in Wild(call[c]) : t.do # "upsert"
    BY DEF Wild, Mild, Guarding, Steps, OfPair, OfOperation, Saying, Completing, Seeing
  <2>5. \A s \in Pending(c) : s \in Evaluations
    BY <2>3, <2>4
  <2>6. \A s \in Evaluations : s.at \in Nat /\ s.door \in Door
    BY DEF Evaluations
  <2>7. Head(call[c].todo).do # "upsert" => Pending(c) = {}
    BY <2>2, PendingFirst DEF Pending
  <2>. QED
    BY <1>1, <1>3, <2>5, <2>6, <2>7
<1>. QED
  BY <1>2, <1>3

\* A step of a call keeps the types, if it does with the document and the clock.
LEMMA StepTyped ==
  ASSUME TypeInv, up = "up", up' = "up", NEW c \in Caller, NEW n, CallOn(n),
         call' = [call EXCEPT ![c] = Entered(n)],
         Loaded(doc'), clock' \in Nat, clock <= clock', verdicts' \subseteq Door,
         missed' \in [Door -> 0..clock'],
         \A x \in Door : doc'.statuses[x] # None => doc'.statuses[x].at > 0 /\ doc'.statuses[x].at <= clock',
         \A o \in Op : doc.ops[o] # None => doc'.ops[o] # None,
         n.op # None => doc'.ops[n.op] # None,
         \A s \in PendingIn(n.todo) : s.at <= clock'
  PROVE  TypeInv'
<1>1. /\ call' = [o \in Caller |-> call'[o]]
      /\ \A o \in Caller : CallOK(call'[o])
      /\ \A o \in Caller \ {c} : call'[o] = call[o] /\ Pending(o)' = Pending(o)
      /\ Pending(c)' = PendingIn(n.todo)
      /\ call'[c] # Free => n.todo # <<>> /\ call'[c].pair = n.pair /\ call'[c].op = n.op
  BY Moving
<1>2. Kept'
  BY DEF Kept, Loaded, Recent, Dated
<1>3. Called'
  <2>1. \A o \in Caller : \A s \in Pending(o)' : s.at <= clock'
    <3>. TAKE o \in Caller
    <3>1. CASE o = c
      BY <1>1, <3>1
    <3>2. CASE o # c
      <4>. SUFFICES ASSUME NEW s \in Pending(o)' PROVE s.at <= clock'
        OBVIOUS
      <4>1. s \in Pending(o)
        BY <1>1, <3>2
      <4>. QED
        BY <4>1, PendingTyped
    <3>. QED
      BY <3>1, <3>2
  <2>2. \A o \in Caller : call'[o] # Free /\ call'[o].op # None => doc'.ops[call'[o].op] # None
    <3>. TAKE o \in Caller
    <3>1. CASE o = c
      BY <1>1, <3>1
    <3>2. CASE o # c
      <4>. HAVE call'[o] # Free /\ call'[o].op # None
      <4>1. call'[o] = call[o]
        BY <1>1, <3>2
      <4>2. CallOn(call[o])
        BY <4>1, Busy DEF TypeInv, Called
      <4>3. call[o].op \in Op /\ doc.ops[call[o].op] # None
        BY <4>1, <4>2 DEF TypeInv, Called, CallOn, Formed
      <4>. QED
        BY <4>1, <4>3
    <3>. QED
      BY <3>1, <3>2
  <2>. QED
    BY <1>1, <2>1, <2>2 DEF Called
<1>. QED
  BY <1>2, <1>3 DEF TypeInv

\* What a call may change next, or may have changed, is about it.
LEMMA OwesAbout ==
  ASSUME TypeInv, NEW c \in Caller, NEW x, Owes(call[c], x)
  PROVE  /\ CallOn(call[c]) /\ x \in About(c)
         /\ Head(call[c].todo).do \in Writing \cup Reading \cup {"observe"}
<1>. DEFINE k == call[c]
<1>1. k.todo # <<>> /\ CallOK(k)
  BY DEF Owes, TypeInv, Called
<1>2. CallOn(k)
  BY <1>1, Busy
<1>3. Head(k.todo) \in Wild(k) \cup Evaluations
  BY <1>1, <1>2, ScriptTail DEF CallOn
<1>4. Head(k.todo).do \in Writing \cup Reading \cup {"observe"}
  BY DEF Owes
<1>5. Head(k.todo) \in Steps(k)
  <2>1. \A s \in Wild(k) \cup Evaluations : s.do \in {"except", "upsert"} \/ s \in Steps(k)
    BY DEF Wild, Mild, Guarding, Evaluations
  <2>. QED
    BY <1>3, <1>4, <2>1 DEF Writing, Reading
<1>6. Head(k.todo).do \in Writing \cup Reading => k.pair # None
  <2>1. k.pair = None => \A s \in Steps(k) : s.do \notin Writing \cup Reading
    <3>1. k.pair = None => ~Recovering(k)
      <4>1. None \notin Pair
        BY Assumptions
      <4>. QED
        BY <1>2, <4>1 DEF CallOn, Formed
    <3>. QED
      BY <3>1 DEF Steps, OfOperation, Writing, Reading
  <2>. QED
    BY <1>5, <2>1
<1>7. Head(k.todo).do = "observe" => k.op # None
  <2>1. k.op = None => \A s \in Steps(k) : s.do # "observe"
    BY DEF Steps, OfPair, Saying, Completing, Seeing
  <2>. QED
    BY <1>5, <2>1
<1>. QED
  BY <1>2, <1>4, <1>6, <1>7 DEF Owes, About

\* It remains about it while another call takes a step.
LEMMA OwesKept ==
  ASSUME TypeInv, NEW o \in Caller, NEW x, Owes(call[o], x), call'[o] = call[o],
         \A a \in Op : doc.ops[a] # None => doc.ops[a].targets \subseteq doc'.ops[a].targets
  PROVE  Owes(call[o], x)'
<1>1. CallOn(call[o]) /\ Head(call[o].todo).do \in Writing \cup Reading \cup {"observe"} /\ call[o].todo # <<>>
  BY OwesAbout DEF Owes
<1>2. Head(call[o].todo).do \in Writing \cup Reading => Owes(call[o], x)'
  BY <1>1 DEF Owes, Writing, Reading
<1>3. Head(call[o].todo).do = "observe" => Owes(call[o], x)'
  <2>. HAVE Head(call[o].todo).do = "observe"
  <2>1. x \in doc.ops[call[o].op].targets
    BY DEF Owes, Writing, Reading
  <2>2. call[o].op \in Op /\ doc.ops[call[o].op] # None
    <3>1. call[o].op # None
      <4>1. Head(call[o].todo) \in Wild(call[o]) \cup Evaluations
        BY <1>1, ScriptTail DEF CallOn
      <4>2. call[o].op = None => \A s \in Wild(call[o]) \cup Evaluations : s.do # "observe"
        BY DEF Wild, Mild, Guarding, Steps, OfPair, Saying, Completing, Seeing, Evaluations
      <4>. QED
        BY <4>1, <4>2
    <3>2. call[o] # Free
      BY <1>1 DEF Free
    <3>. QED
      BY <1>1, <3>1, <3>2 DEF TypeInv, Called, CallOn, Formed
  <2>3. x \in doc'.ops[call[o].op].targets
    BY <2>1, <2>2
  <2>. QED
    BY <1>1, <2>3 DEF Owes
<1>. QED
  BY <1>1, <1>2, <1>3

\* Doors that a transaction changes are read by the call, or left out by it.
LEMMA WriteStep ==
  ASSUME StatusInv, up = "up", up' = "up", NEW c \in Caller, NEW n, CallOn(n),
         call' = [call EXCEPT ![c] = Entered(n)],
         Pending(c) = {}, PendingIn(n.todo) = {}, clock' = clock, verdicts' = verdicts,
         Loaded(doc'), doc'.statuses = doc.statuses, Managed(doc') = Managed(doc),
         \A o \in Op : doc.ops[o] # None => doc'.ops[o] # None /\ doc.ops[o].targets \subseteq doc'.ops[o].targets,
         n.op # None => doc'.ops[n.op] # None,
         missed' \in [Door -> 0..clock],
         \A x \in Managed(doc) :
           \/ missed'[x] = clock \/ Owes(call[c], x)'
           \/ missed'[x] = missed[x] /\ ~Owes(call[c], x) /\ Evaluate(doc', x) = Evaluate(doc, x)
  PROVE  StatusInv'
<1>0. TypeInv /\ TimesDiffer /\ \A x \in Managed(doc) : Settled(x)
  BY DEF StatusInv
<1>1. /\ \A o \in Caller : CallOK(call'[o])
      /\ \A o \in Caller \ {c} : call'[o] = call[o] /\ Pending(o)' = Pending(o)
      /\ Pending(c)' = PendingIn(n.todo)
  BY <1>0, Moving
<1>2. \A o \in Caller : Pending(o)' = Pending(o)
  BY <1>1
<1>3. \A x \in Door : doc.statuses[x] # None => doc.statuses[x].at > 0 /\ doc.statuses[x].at <= clock
  BY <1>0 DEF TypeInv, Kept
<1>4. TypeInv'
  <2>1. clock \in Nat /\ verdicts \subseteq Door
    BY <1>0 DEF TypeInv
  <2>2. clock' \in Nat /\ clock <= clock' /\ verdicts' \subseteq Door /\ missed' \in [Door -> 0..clock']
    BY <2>1
  <2>3. \A x \in Door : doc'.statuses[x] # None => doc'.statuses[x].at > 0 /\ doc'.statuses[x].at <= clock'
    BY <1>3
  <2>4. \A o \in Op : doc.ops[o] # None => doc'.ops[o] # None
    OBVIOUS
  <2>5. \A s \in PendingIn(n.todo) : s.at <= clock'
    OBVIOUS
  <2>. QED
    BY <1>0, <2>2, <2>3, <2>4, <2>5, StepTyped
<1>5. TimesDiffer'
  BY <1>0, <1>2 DEF TimesDiffer
<1>6. ASSUME NEW x \in Managed(doc)
      PROVE  Settled(x)'
  <2>1. Coming(x)' = Coming(x)
    BY <1>2 DEF Coming
  <2>2. CASE missed'[x] = clock
    <3>1. x \in Door /\ doc.statuses[x] # None
      <4>1. Valid(doc) /\ x \in Door
        BY <1>0 DEF TypeInv, Kept, Loaded, Managed, Enrolled
      <4>. QED
        BY <4>1 DEF Valid, Referential
    <3>2. doc'.statuses[x].at <= clock
      BY <1>3, <3>1
    <3>3. \A s \in Coming(x) : s.at <= clock
      BY <1>0, PendingTyped DEF Coming
    <3>4. LeftOut(x)'
      BY <2>1, <2>2, <3>2, <3>3 DEF LeftOut
    <3>. QED
      BY <3>4 DEF Settled
  <2>3. CASE Owes(call[c], x)'
    BY <2>3 DEF Settled
  <2>4. CASE missed'[x] = missed[x] /\ ~Owes(call[c], x) /\ Evaluate(doc', x) = Evaluate(doc, x)
    <3>1. Settled(x)
      BY <1>0
    <3>2. LeftOut(x) => LeftOut(x)'
      BY <2>1, <2>4 DEF LeftOut
    <3>3. StoredLast(x) => StoredLast(x)'
      BY <2>1, <2>4 DEF StoredLast
    <3>4. \A s \in Coming(x) : ComesLast(x, s) => ComesLast(x, s)'
      BY <2>1, <2>4 DEF ComesLast
    <3>5. \A o \in Caller : Owes(call[o], x) => Owes(call[o], x)'
      <4>. TAKE o \in Caller
      <4>. HAVE Owes(call[o], x)
      <4>1. call'[o] = call[o]
        BY <1>1, <2>4
      <4>. QED
        BY <1>0, <4>1, OwesKept
    <3>. QED
      BY <2>1, <3>1, <3>2, <3>3, <3>4, <3>5 DEF Settled
  <2>. QED
    BY <2>2, <2>3, <2>4
<1>. QED
  BY <1>4, <1>5, <1>6 DEF StatusInv

\* What a door's reading gives is the latest, until it is stored or overtaken.
LEMMA ReadStep ==
  ASSUME StatusInv, up = "up", up' = "up", NEW c \in Caller, NEW n, CallOn(n),
         call' = [call EXCEPT ![c] = Entered(n)],
         Pending(c) = {}, clock' = clock + 1, verdicts' = verdicts, missed' = missed, doc' = doc,
         n.op # None => doc.ops[n.op] # None,
         NEW xs \in SUBSET Door, NEW status, NEW pronounced \in BOOLEAN,
         PendingIn(n.todo) = ReadingsOf(xs, status, clock + 1, pronounced),
         \A x \in xs : pronounced \/ status[x] = Evaluate(doc, x),
         \A x \in Managed(doc) : Owes(call[c], x) => x \in xs
  PROVE  StatusInv'
<1>0. TypeInv /\ TimesDiffer /\ \A x \in Managed(doc) : Settled(x)
  BY DEF StatusInv
<1>1. /\ \A o \in Caller \ {c} : call'[o] = call[o] /\ Pending(o)' = Pending(o)
      /\ Pending(c)' = PendingIn(n.todo)
  BY <1>0, Moving
<1>2. clock \in Nat
  BY <1>0 DEF TypeInv
<1>3. \A x \in Door : doc.statuses[x] # None =>
        doc.statuses[x].at > 0 /\ doc.statuses[x].at <= clock /\ doc.statuses[x].at \in Nat
  BY <1>0, DocumentParts DEF TypeInv, Kept, Loaded, DoorStatus
<1>4. \A s \in PendingIn(n.todo) : s.at = clock + 1 /\ s.door \in xs
  BY DEF ReadingOf, ReadingsOf
<1>5. TypeInv'
  <2>1. Loaded(doc')
    BY <1>0 DEF TypeInv, Kept
  <2>2. clock' \in Nat /\ clock <= clock' /\ verdicts' \subseteq Door /\ missed' \in [Door -> 0..clock']
    BY <1>0, <1>2 DEF TypeInv
  <2>3. \A x \in Door : doc'.statuses[x] # None => doc'.statuses[x].at > 0 /\ doc'.statuses[x].at <= clock'
    BY <1>2, <1>3
  <2>4. \A o \in Op : doc.ops[o] # None => doc'.ops[o] # None
    OBVIOUS
  <2>5. \A s \in PendingIn(n.todo) : s.at <= clock'
    BY <1>2, <1>4
  <2>6. n.op # None => doc'.ops[n.op] # None
    OBVIOUS
  <2>. QED
    BY <1>0, <2>1, <2>2, <2>3, <2>4, <2>5, <2>6, StepTyped
<1>6. \A o \in Caller \ {c} : \A s \in Pending(o)' : s \in Pending(o) /\ s.at \in Nat /\ s.at <= clock
  BY <1>0, <1>1, PendingTyped
<1>7. TimesDiffer'
  <2>1. \A i, o \in Caller : \A s \in Pending(i)', r \in Pending(o)' : i # o => s.at # r.at
    <3>. TAKE i, o \in Caller
    <3>1. CASE i # c /\ o # c
      BY <1>0, <1>6, <3>1 DEF TimesDiffer
    <3>2. CASE i = c \/ o = c
      BY <1>1, <1>2, <1>4, <1>6, <3>2
    <3>. QED
      BY <3>1, <3>2
  <2>2. \A o \in Caller : \A s \in Pending(o)' :
          doc'.statuses[s.door] # None => doc'.statuses[s.door].at # s.at
    <3>. TAKE o \in Caller
    <3>1. CASE o # c
      BY <1>0, <1>6, <3>1 DEF TimesDiffer
    <3>2. CASE o = c
      BY <1>1, <1>2, <1>3, <1>4, <3>2
    <3>. QED
      BY <3>1, <3>2
  <2>. QED
    BY <2>1, <2>2 DEF TimesDiffer
<1>8. ASSUME NEW x \in Managed(doc)
      PROVE  Settled(x)'
  <2>0. x \in Door /\ doc.statuses[x] # None
    <3>1. Valid(doc) /\ x \in Door
      BY <1>0 DEF TypeInv, Kept, Loaded, Managed, Enrolled
    <3>. QED
      BY <3>1 DEF Valid, Referential
  <2>1. CASE x \in xs
    <3>0. PICK s : s = ReadingOf(x, status, clock + 1, pronounced)
      OBVIOUS
    <3>1. s \in Pending(c)' /\ s.door = x /\ s.at = clock + 1 /\ s.pronounced = pronounced /\ s.status = status[x]
      BY <1>1, <2>1, <3>0 DEF ReadingOf, ReadingsOf
    <3>2. \A r \in Pending(c)' : r.door = x => r = s
      BY <1>1, <3>0 DEF ReadingOf, ReadingsOf
    <3>3. s \in Coming(x)'
      BY <3>1 DEF Coming
    <3>4. \A r \in Coming(x)' : r = s \/ r.at < s.at
      <4>. TAKE r \in Coming(x)'
      <4>1. PICK o \in Caller : r \in Pending(o)' /\ r.door = x
        BY DEF Coming
      <4>2. CASE o = c
        BY <3>2, <4>1, <4>2
      <4>3. CASE o # c
        <5>1. r.at \in Nat /\ r.at <= clock
          BY <1>6, <4>1, <4>3
        <5>. QED
          BY <1>2, <3>1, <5>1
      <4>. QED
        BY <4>2, <4>3
    <3>5. doc'.statuses[x].at < s.at
      BY <1>2, <1>3, <2>0, <3>1
    <3>6. s.pronounced \/ s.status = Evaluate(doc', x)
      BY <2>1, <3>1
    <3>7. ComesLast(x, s)'
      BY <3>4, <3>5, <3>6 DEF ComesLast
    <3>. QED
      BY <3>3, <3>7 DEF Settled
  <2>2. CASE x \notin xs
    <3>1. Coming(x)' = Coming(x)
      <4>1. \A r \in Pending(c)' : r.door # x
        BY <1>1, <1>4, <2>2
      <4>2. \A r \in Coming(x)' : r \in Coming(x)
        <5>. TAKE r \in Coming(x)'
        <5>1. PICK o \in Caller : r \in Pending(o)' /\ r.door = x
          BY DEF Coming
        <5>2. o # c
          BY <4>1, <5>1
        <5>. QED
          BY <1>1, <5>1, <5>2 DEF Coming
      <4>3. \A r \in Coming(x) : r \in Coming(x)'
        <5>. TAKE r \in Coming(x)
        <5>1. PICK o \in Caller : r \in Pending(o) /\ r.door = x
          BY DEF Coming
        <5>2. o # c
          BY <5>1
        <5>. QED
          BY <1>1, <5>1, <5>2 DEF Coming
      <4>. QED
        BY <4>2, <4>3
    <3>2. Settled(x) /\ ~Owes(call[c], x)
      BY <1>0, <2>2
    <3>3. LeftOut(x) => LeftOut(x)'
      BY <3>1 DEF LeftOut
    <3>4. StoredLast(x) => StoredLast(x)'
      BY <3>1 DEF StoredLast
    <3>5. \A s \in Coming(x) : ComesLast(x, s) => ComesLast(x, s)'
      BY <3>1 DEF ComesLast
    <3>6. \A o \in Caller : Owes(call[o], x) => Owes(call[o], x)'
      <4>. TAKE o \in Caller
      <4>. HAVE Owes(call[o], x)
      <4>1. call'[o] = call[o]
        BY <1>1, <3>2
      <4>. QED
        BY <1>0, <4>1, OwesKept
    <3>. QED
      BY <3>1, <3>2, <3>3, <3>4, <3>5, <3>6 DEF Settled
  <2>. QED
    BY <2>1, <2>2
<1>. QED
  BY <1>5, <1>7, <1>8 DEF StatusInv

\* A call about an operation finds it in the document.
LEMMA CallTyped ==
  ASSUME TypeInv, NEW c \in Caller, call[c].todo # <<>>
  PROVE  /\ call[c] # Free /\ CallOn(call[c])
         /\ Head(call[c].todo) \in Wild(call[c]) \cup Evaluations
         /\ Tail(call[c].todo) \in Scripts(Wild(call[c]) \cup Evaluations)
         /\ call[c].op # None => call[c].op \in Op /\ doc.ops[call[c].op] # None
         /\ call[c].pair # None => call[c].pair \in Pair
<1>1. CallOK(call[c])
  BY DEF TypeInv, Called
<1>2. call[c] # Free /\ CallOn(call[c])
  BY <1>1, Busy
<1>3. /\ Head(call[c].todo) \in Wild(call[c]) \cup Evaluations
      /\ Tail(call[c].todo) \in Scripts(Wild(call[c]) \cup Evaluations)
  BY <1>2, ScriptTail DEF CallOn
<1>. QED
  BY <1>2, <1>3 DEF TypeInv, Called, CallOn, Formed

\* A status that is stored is the latest, or a later one is to come.
LEMMA Storing ==
  ASSUME StatusInv, NEW c \in Caller, StoreStatus(c), MayStore(doc, Step(c).door, Step(c).at)
  PROVE  StatusInv'
<1>0. TypeInv /\ TimesDiffer /\ up = "up" /\ (\A x \in Managed(doc) : Settled(x))
  BY DEF StatusInv, StoreStatus, Doing
<1>1. PICK step : step = Step(c)
  OBVIOUS
<1>. DEFINE k == call[c]
            y == step.door
<1>2. /\ k.todo # <<>> /\ step.do = "upsert" /\ step = Head(k.todo)
      /\ y \in Managed(doc) /\ step.at >= doc.statuses[y].at
      /\ doc' = [doc EXCEPT !.statuses[y] = [status |-> step.status, at |-> step.at]]
      /\ verdicts' = (IF step.pronounced THEN verdicts \cup {y} ELSE verdicts \ {y})
      /\ missed' = [missed EXCEPT ![y] = IF step.at > @ THEN 0 ELSE @]
      /\ Goes(c) /\ up' = up /\ clock' = clock
  BY <1>1 DEF StoreStatus, Doing, Step, MayStore
<1>3. /\ CallOn(k) /\ Tail(k.todo) \in Scripts(Wild(k) \cup Evaluations)
      /\ k.op # None => doc.ops[k.op] # None
  BY <1>0, <1>2, CallTyped
<1>4. /\ step \in Pending(c)
      /\ PendingIn(Tail(k.todo)) = {s \in Pending(c) : s.door # y}
      /\ \A s \in Pending(c) : s.door = y => s = step
  <2>1. k.todo \in Scripts(Wild(k) \cup Evaluations)
    BY <1>3 DEF CallOn
  <2>2. /\ Head(k.todo) \in PendingIn(k.todo)
        /\ PendingIn(Tail(k.todo)) = {s \in PendingIn(k.todo) : s.door # Head(k.todo).door}
        /\ \A s \in PendingIn(k.todo) : s.door = Head(k.todo).door => s = Head(k.todo)
    BY <1>2, <2>1, PendingTail
  <2>3. Pending(c) = PendingIn(k.todo)
    BY DEF Pending
  <2>. QED
    BY <1>2, <2>2, <2>3
<1>5. /\ step.at \in Nat /\ step.at <= clock /\ y \in Door /\ step.status \in Status
      /\ step.pronounced \in BOOLEAN /\ clock \in Nat
  <2>1. \A s \in Evaluations : s.status \in Status /\ s.pronounced \in BOOLEAN
    BY DEF Evaluations
  <2>. QED
    BY <1>0, <1>4, <2>1, PendingTyped
<1>6. PICK n : n = With(c, Tail(k.todo))
  OBVIOUS
<1>7. /\ CallOn(n) /\ n.todo = Tail(k.todo) /\ n.op = k.op
      /\ call' = [call EXCEPT ![c] = Entered(n)]
  <2>1. n = [k EXCEPT !.todo = Tail(k.todo)]
    BY <1>6 DEF With
  <2>2. call' = [call EXCEPT ![c] = Entered(n)]
    BY <1>2, <1>6 DEF Goes, Becomes
  <2>. QED
    BY <1>3, <2>1, <2>2, GoingOn
<1>8. /\ \A o \in Caller \ {c} : call'[o] = call[o] /\ Pending(o)' = Pending(o)
      /\ Pending(c)' = {s \in Pending(c) : s.door # y}
  <2>1. /\ \A o \in Caller \ {c} : call'[o] = call[o] /\ Pending(o)' = Pending(o)
        /\ Pending(c)' = PendingIn(n.todo)
    BY <1>0, <1>7, Moving
  <2>. QED
    BY <1>4, <1>7, <2>1
<1>9. /\ Loaded(doc') /\ doc'.ops = doc.ops /\ Managed(doc') = Managed(doc)
      /\ doc'.statuses[y] # None /\ doc'.statuses[y].status = step.status /\ doc'.statuses[y].at = step.at
      /\ \A x \in Door \ {y} : doc'.statuses[x] = doc.statuses[x]
      /\ \A x \in Door : Evaluate(doc', x) = Evaluate(doc, x)
  <2>1. Loaded(doc) /\ y \in Managed(doc) /\ step.status \in Status /\ step.at \in Nat
    BY <1>0, <1>2, <1>5 DEF TypeInv, Kept
  <2>2. PICK e : e = doc'
    OBVIOUS
  <2>3. e = [doc EXCEPT !.statuses[y] = [status |-> step.status, at |-> step.at]]
    BY <1>2, <2>2
  <2>. HIDE DEF y
  <2>4. /\ Loaded(e) /\ e.ops = doc.ops /\ Managed(e) = Managed(doc)
        /\ e.statuses[y] # None /\ e.statuses[y].status = step.status /\ e.statuses[y].at = step.at
        /\ \A x \in Door \ {y} : e.statuses[x] = doc.statuses[x]
        /\ \A x \in Door : Evaluate(e, x) = Evaluate(doc, x)
    BY <2>1, <2>3, StoredWell, SMTT(30)
  <2>. QED
    BY <2>2, <2>4
<1>10. /\ missed' \in [Door -> 0..clock]
       /\ \A x \in Door \ {y} : missed'[x] = missed[x]
       /\ step.at > missed[y] \/ missed'[y] = missed[y]
  <2>1. PICK m \in [Door -> 0..clock] : m = missed
    BY <1>0 DEF TypeInv
  <2>2. PICK was \in 0..clock : was = m[y]
    BY <1>5, <2>1
  <2>3. PICK now \in 0..clock : now = (IF step.at > was THEN 0 ELSE was)
    BY <1>5
  <2>4. missed' = [m EXCEPT ![y] = now]
    BY <1>2, <2>1, <2>2, <2>3
  <2>. QED
    BY <1>5, <2>1, <2>2, <2>3, <2>4
<1>11. \A x \in Door : doc.statuses[x] # None =>
         doc.statuses[x].at > 0 /\ doc.statuses[x].at <= clock /\ doc.statuses[x].at \in Nat
  BY <1>0, DocumentParts DEF TypeInv, Kept, Loaded, DoorStatus
<1>12. \A x \in Managed(doc) : x \in Door /\ doc.statuses[x] # None
  <2>1. Valid(doc)
    BY <1>0 DEF TypeInv, Kept, Loaded
  <2>2. Managed(doc) \subseteq Door
    BY DEF Managed, Enrolled
  <2>. QED
    BY <2>1, <2>2 DEF Valid, Referential
<1>13. TypeInv'
  <2>1. clock' \in Nat /\ clock <= clock' /\ verdicts' \subseteq Door /\ missed' \in [Door -> 0..clock']
    <3>1. verdicts' \subseteq Door
      <4>1. verdicts \subseteq Door
        BY <1>0 DEF TypeInv
      <4>. QED
        BY <1>2, <1>5, <4>1
    <3>2. clock' = clock
      BY <1>2
    <3>. QED
      BY <1>5, <1>10, <3>1, <3>2
  <2>2. \A x \in Door : doc'.statuses[x] # None => doc'.statuses[x].at > 0 /\ doc'.statuses[x].at <= clock'
    <3>1. step.at > 0
      <4>1. doc.statuses[y].at > 0 /\ doc.statuses[y].at \in Nat
        BY <1>2, <1>11, <1>12
      <4>2. step.at \in Nat /\ step.at >= doc.statuses[y].at
        BY <1>2, <1>5
      <4>. QED
        BY <4>1, <4>2
    <3>. QED
      BY <1>2, <1>5, <1>9, <1>11, <3>1
  <2>3. \A o \in Op : doc.ops[o] # None => doc'.ops[o] # None
    BY <1>9
  <2>4. n.op # None => doc'.ops[n.op] # None
    BY <1>3, <1>7, <1>9
  <2>5. \A s \in PendingIn(n.todo) : s.at <= clock'
    BY <1>0, <1>2, <1>4, <1>7, PendingTyped
  <2>6. up' = "up"
    BY <1>0, <1>2
  <2>. QED
    BY <1>0, <1>7, <1>9, <2>1, <2>2, <2>3, <2>4, <2>5, <2>6, StepTyped
<1>14. TimesDiffer'
  <2>1. \A i, o \in Caller : \A s \in Pending(i)', r \in Pending(o)' : i # o => s.at # r.at
    <3>1. \A o \in Caller : Pending(o)' \subseteq Pending(o)
      BY <1>8
    <3>. QED
      BY <1>0, <3>1 DEF TimesDiffer
  <2>2. \A o \in Caller : \A s \in Pending(o)' :
          doc'.statuses[s.door] # None => doc'.statuses[s.door].at # s.at
    <3>. TAKE o \in Caller
    <3>. TAKE s \in Pending(o)'
    <3>1. s \in Pending(o) /\ s.door \in Door
      BY <1>0, <1>8, PendingTyped
    <3>2. CASE s.door # y
      BY <1>0, <1>9, <3>1, <3>2 DEF TimesDiffer
    <3>3. CASE s.door = y
      <4>1. o # c
        BY <1>8, <3>3
      <4>2. s.at # step.at
        BY <1>0, <1>4, <3>1, <4>1 DEF TimesDiffer
      <4>. QED
        BY <1>9, <3>3, <4>2
    <3>. QED
      BY <3>2, <3>3
  <2>. QED
    BY <2>1, <2>2 DEF TimesDiffer
<1>15. ASSUME NEW x \in Managed(doc)
       PROVE  Settled(x)'
  <2>0. x \in Door /\ Settled(x)
    BY <1>0, <1>12
  <2>1. \A o \in Caller : Owes(call[o], x) => Owes(call[o], x)'
    <3>. TAKE o \in Caller
    <3>. HAVE Owes(call[o], x)
    <3>1. o # c
      <4>1. Head(call[o].todo).do \in Writing \cup Reading \cup {"observe"}
        BY <1>0, OwesAbout
      <4>. QED
        BY <1>2, <4>1 DEF Writing, Reading
    <3>2. call'[o] = call[o]
      BY <1>8, <3>1
    <3>3. \A a \in Op : doc.ops[a] # None => doc.ops[a].targets \subseteq doc'.ops[a].targets
      BY <1>9
    <3>. QED
      BY <1>0, <3>2, <3>3, OwesKept
  <2>2. CASE x # y
    <3>1. Coming(x)' = Coming(x)
      <4>1. \A r \in Coming(x)' : r \in Coming(x)
        BY <1>8 DEF Coming
      <4>2. \A r \in Coming(x) : r \in Coming(x)'
        <5>. TAKE r \in Coming(x)
        <5>1. PICK o \in Caller : r \in Pending(o) /\ r.door = x
          BY DEF Coming
        <5>2. r \in Pending(o)'
          BY <1>8, <2>2, <5>1
        <5>. QED
          BY <5>1, <5>2 DEF Coming
      <4>. QED
        BY <4>1, <4>2
    <3>2. doc'.statuses[x] = doc.statuses[x] /\ missed'[x] = missed[x] /\ (x \in verdicts' <=> x \in verdicts)
          /\ Evaluate(doc', x) = Evaluate(doc, x)
      BY <1>2, <1>9, <1>10, <2>0, <2>2
    <3>3. LeftOut(x) => LeftOut(x)'
      BY <3>1, <3>2 DEF LeftOut
    <3>4. StoredLast(x) => StoredLast(x)'
      BY <3>1, <3>2 DEF StoredLast
    <3>5. \A s \in Coming(x) : ComesLast(x, s) => ComesLast(x, s)'
      BY <3>1, <3>2 DEF ComesLast
    <3>. QED
      BY <2>0, <2>1, <3>1, <3>3, <3>4, <3>5 DEF Settled
  <2>3. CASE x = y
    <3>1. step \in Coming(x)
      BY <1>4, <2>3 DEF Coming
    <3>2. \A r \in Coming(x)' : r \in Coming(x) /\ r.at # step.at
      <4>. TAKE r \in Coming(x)'
      <4>1. PICK o \in Caller : r \in Pending(o)' /\ r.door = x
        BY DEF Coming
      <4>2. o # c
        BY <1>8, <2>3, <4>1
      <4>3. r \in Pending(o)
        BY <1>8, <4>1, <4>2
      <4>. QED
        BY <1>0, <1>4, <4>1, <4>2, <4>3 DEF Coming, TimesDiffer
    <3>3. \A r \in Coming(x) : r = step \/ r \in Coming(x)'
      <4>. TAKE r \in Coming(x)
      <4>1. PICK o \in Caller : r \in Pending(o) /\ r.door = x
        BY DEF Coming
      <4>2. CASE o = c
        BY <1>4, <2>3, <4>1, <4>2
      <4>3. CASE o # c
        BY <1>8, <4>1, <4>3 DEF Coming
      <4>. QED
        BY <4>2, <4>3
    <3>4. \A r \in Coming(x) : r.at \in Nat
      BY <1>0, PendingTyped DEF Coming
    <3>5. doc'.statuses[x].at = step.at /\ doc'.statuses[x].status = step.status
          /\ Evaluate(doc', x) = Evaluate(doc, x) /\ doc.statuses[x].at \in Nat
      BY <1>9, <1>11, <1>12, <2>0, <2>3
    <3>6. CASE \E o \in Caller : Owes(call[o], x)
      BY <2>1, <3>6 DEF Settled
    <3>7. CASE LeftOut(x)
      <4>1. step.at <= missed[x] /\ missed'[x] = missed[x]
        <5>1. missed[x] \in Nat
          BY <1>0, <2>0 DEF TypeInv
        <5>2. step.at <= missed[x]
          BY <3>1, <3>7 DEF LeftOut
        <5>. QED
          BY <1>5, <1>10, <2>3, <5>1, <5>2
      <4>2. LeftOut(x)'
        BY <3>2, <3>5, <3>7, <4>1 DEF LeftOut
      <4>. QED
        BY <4>2 DEF Settled
    <3>8. CASE StoredLast(x)
      <4>1. step.at < doc.statuses[x].at
        BY <3>1, <3>8 DEF StoredLast
      <4>2. step.at >= doc.statuses[x].at
        BY <1>2, <2>3
      <4>3. step.at \in Nat /\ doc.statuses[x].at \in Nat
        BY <1>5, <3>5
      <4>. QED
        BY <4>1, <4>2, <4>3
    <3>9. ASSUME NEW s \in Coming(x), ComesLast(x, s)
          PROVE  Settled(x)'
      <4>1. CASE s = step
        <5>1. \A r \in Coming(x)' : r.at < doc'.statuses[x].at
          BY <3>2, <3>5, <3>9, <4>1 DEF ComesLast
        <5>2. x \in verdicts' \/ doc'.statuses[x].status = Evaluate(doc', x)
          BY <1>2, <2>3, <3>5, <3>9, <4>1 DEF ComesLast
        <5>3. StoredLast(x)'
          BY <5>1, <5>2 DEF StoredLast
        <5>. QED
          BY <5>3 DEF Settled
      <4>2. CASE s # step
        <5>1. s \in Coming(x)'
          BY <3>3, <4>2
        <5>2. step.at < s.at
          BY <3>1, <3>9, <4>2 DEF ComesLast
        <5>3. ComesLast(x, s)'
          BY <3>2, <3>5, <3>9, <5>2 DEF ComesLast
        <5>. QED
          BY <5>1, <5>3 DEF Settled
      <4>. QED
        BY <4>1, <4>2
    <3>. QED
      BY <2>0, <3>6, <3>7, <3>8, <3>9 DEF Settled
  <2>. QED
    BY <2>2, <2>3
<1>. QED
  BY <1>9, <1>13, <1>14, <1>15 DEF StatusInv

\* Doors that a call leaves out are settled, and so are those that it had been overtaken at.
LEMMA RaiseStep ==
  ASSUME StatusInv, up = "up", up' = "up", NEW c \in Caller, call[c].todo # <<>>, Becomes(c, Raised(c)),
         doc' = doc, clock' = clock, verdicts' = verdicts, NEW xs, LeavesOut(xs),
         \A x \in Managed(doc) \ xs :
           ~Owes(call[c], x) /\ \A s \in Pending(c) : s.door = x => s.at < doc.statuses[x].at
  PROVE  StatusInv'
<1>0. TypeInv /\ TimesDiffer /\ \A x \in Managed(doc) : Settled(x)
  BY DEF StatusInv
<1>1. PICK n : n = Raised(c)
  OBVIOUS
<1>2. /\ CallOn(n) /\ PendingIn(n.todo) = {} /\ n.op = call[c].op
      /\ call' = [call EXCEPT ![c] = Entered(n)]
  <2>1. CallOn(call[c])
    BY <1>0, CallTyped
  <2>2. n = [call[c] EXCEPT !.todo = call[c].undo, !.undo = <<>>, !.failed = TRUE]
    BY <1>1 DEF Raised
  <2>3. call' = [call EXCEPT ![c] = Entered(n)]
    BY <1>1 DEF Becomes
  <2>. QED
    BY <2>1, <2>2, <2>3, GoingOn
<1>3. /\ \A o \in Caller \ {c} : call'[o] = call[o] /\ Pending(o)' = Pending(o)
      /\ Pending(c)' = {}
  BY <1>0, <1>2, Moving
<1>4. clock \in Nat /\ missed \in [Door -> 0..clock]
  BY <1>0 DEF TypeInv
<1>5. /\ missed' \in [Door -> 0..clock]
      /\ \A x \in Door : missed'[x] = (IF x \in xs THEN clock ELSE missed[x])
  BY <1>4 DEF LeavesOut
<1>6. \A x \in Door : doc.statuses[x] # None => doc.statuses[x].at > 0 /\ doc.statuses[x].at <= clock
  BY <1>0 DEF TypeInv, Kept
<1>7. TypeInv'
  <2>1. clock' \in Nat /\ clock <= clock' /\ verdicts' \subseteq Door /\ missed' \in [Door -> 0..clock']
    BY <1>0, <1>4, <1>5 DEF TypeInv
  <2>2. \A x \in Door : doc'.statuses[x] # None => doc'.statuses[x].at > 0 /\ doc'.statuses[x].at <= clock'
    BY <1>6
  <2>3. \A o \in Op : doc.ops[o] # None => doc'.ops[o] # None
    OBVIOUS
  <2>4. n.op # None => doc'.ops[n.op] # None
    BY <1>0, <1>2, CallTyped
  <2>5. \A s \in PendingIn(n.todo) : s.at <= clock'
    BY <1>2
  <2>6. Loaded(doc')
    BY <1>0 DEF TypeInv, Kept
  <2>. QED
    BY <1>0, <1>2, <2>1, <2>2, <2>3, <2>4, <2>5, <2>6, StepTyped
<1>8. TimesDiffer'
  <2>1. \A o \in Caller : Pending(o)' \subseteq Pending(o)
    BY <1>3
  <2>. QED
    BY <1>0, <2>1 DEF TimesDiffer
<1>9. ASSUME NEW x \in Managed(doc)
      PROVE  Settled(x)'
  <2>0. x \in Door /\ doc.statuses[x] # None
    <3>1. Valid(doc) /\ x \in Door
      BY <1>0 DEF TypeInv, Kept, Loaded, Managed, Enrolled
    <3>. QED
      BY <3>1 DEF Valid, Referential
  <2>1. Coming(x)' \subseteq Coming(x)
    BY <1>3 DEF Coming
  <2>2. CASE x \in xs
    <3>1. doc'.statuses[x].at <= missed'[x]
      BY <1>5, <1>6, <2>0, <2>2
    <3>2. \A s \in Coming(x) : s.at <= missed'[x]
      BY <1>0, <1>5, <2>0, <2>2, PendingTyped DEF Coming
    <3>3. LeftOut(x)'
      BY <2>1, <3>1, <3>2 DEF LeftOut
    <3>. QED
      BY <3>3 DEF Settled
  <2>3. CASE x \notin xs
    <3>1. /\ missed'[x] = missed[x] /\ ~Owes(call[c], x)
          /\ \A s \in Pending(c) : s.door = x => s.at < doc.statuses[x].at
      BY <1>5, <2>0, <2>3
    <3>2. Settled(x)
      BY <1>0
    <3>3. LeftOut(x) => LeftOut(x)'
      BY <2>1, <3>1 DEF LeftOut
    <3>4. StoredLast(x) => StoredLast(x)'
      BY <2>1 DEF StoredLast
    <3>5. ASSUME NEW s \in Coming(x), ComesLast(x, s)
          PROVE  Settled(x)'
      <4>1. PICK o \in Caller : s \in Pending(o) /\ s.door = x
        BY DEF Coming
      <4>2. s.at \in Nat /\ doc.statuses[x].at < s.at /\ doc.statuses[x].at \in Nat
        <5>1. doc.statuses[x] \in DoorStatus
          BY <1>0, <2>0, DocumentParts DEF TypeInv, Kept, Loaded
        <5>. QED
          BY <1>0, <3>5, <4>1, <5>1, PendingTyped DEF ComesLast, DoorStatus
      <4>3. o # c
        BY <3>1, <4>1, <4>2
      <4>4. s \in Coming(x)'
        BY <1>3, <4>1, <4>3 DEF Coming
      <4>5. ComesLast(x, s)'
        BY <2>1, <3>5 DEF ComesLast
      <4>. QED
        BY <4>4, <4>5 DEF Settled
    <3>6. \A o \in Caller : Owes(call[o], x) => Owes(call[o], x)'
      <4>. TAKE o \in Caller
      <4>. HAVE Owes(call[o], x)
      <4>1. call'[o] = call[o]
        BY <1>3, <3>1
      <4>. QED
        BY <1>0, <4>1, OwesKept
    <3>. QED
      BY <3>2, <3>3, <3>4, <3>5, <3>6 DEF Settled
  <2>. QED
    BY <2>2, <2>3
<1>. QED
  BY <1>7, <1>8, <1>9 DEF StatusInv

\* A step raises that is no evaluation to be stored.
LEMMA RaisesStep ==
  ASSUME StatusInv, up = "up", up' = "up", NEW c \in Caller, call[c].todo # <<>>,
         Head(call[c].todo).do # "upsert", Raises(c), doc' = doc, clock' = clock, verdicts' = verdicts
  PROVE  StatusInv'
<1>1. TypeInv
  BY DEF StatusInv
<1>2. Pending(c) = {}
  BY <1>1, PendingTyped
<1>3. \A x \in Managed(doc) \ About(c) : ~Owes(call[c], x)
  BY <1>1, OwesAbout
<1>4. PICK xs : xs = About(c)
  OBVIOUS
<1>5. Becomes(c, Raised(c)) /\ LeavesOut(xs)
  BY <1>4 DEF Raises
<1>. QED
  BY <1>2, <1>3, <1>4, <1>5, RaiseStep

\* An evaluation comes too late: those after it are not stored.
LEMMA Overtaken ==
  ASSUME StatusInv, NEW c \in Caller, StoreStatus(c), ~MayStore(doc, Step(c).door, Step(c).at)
  PROVE  StatusInv'
<1>0. TypeInv /\ up = "up"
  BY DEF StatusInv, StoreStatus, Doing
<1>1. PICK step : step = Step(c)
  OBVIOUS
<1>. DEFINE k == call[c]
<1>2. PICK xs : xs = {k.todo[i].door : i \in Waiting(c) \ {1}}
  OBVIOUS
<1>3. /\ k.todo # <<>> /\ step.do = "upsert" /\ step = Head(k.todo)
      /\ step.door \notin Managed(doc) \/ ~(step.at >= doc.statuses[step.door].at)
      /\ doc' = doc /\ verdicts' = verdicts /\ Becomes(c, Raised(c)) /\ LeavesOut(xs)
      /\ up' = up /\ clock' = clock
  BY <1>1, <1>2 DEF StoreStatus, Doing, Step, MayStore
<1>4. CallOn(k)
  BY <1>0, <1>3, CallTyped
<1>5. k.todo \in Seq(Wild(k) \cup Evaluations)
  BY <1>4 DEF CallOn, Scripts
<1>6. \A s \in Pending(c) : s = step \/ s.door \in xs
  <2>1. DOMAIN k.todo = 1..Len(k.todo) /\ k.todo[1] = step
    BY <1>3, <1>5
  <2>. QED
    BY <1>2, <2>1 DEF Pending, PendingIn, Waiting
<1>7. \A x \in Managed(doc) : ~Owes(call[c], x)
  BY <1>0, <1>3, OwesAbout DEF Writing, Reading
<1>8. \A x \in Managed(doc) \ xs : \A s \in Pending(c) : s.door = x => s.at < doc.statuses[x].at
  <2>. TAKE x \in Managed(doc) \ xs
  <2>. TAKE s \in Pending(c)
  <2>. HAVE s.door = x
  <2>1. s = step
    BY <1>6
  <2>2. s.at \in Nat
    BY <1>0, PendingTyped
  <2>3. doc.statuses[x].at \in Nat
    <3>1. x \in Door /\ Valid(doc) /\ doc \in Documents
      BY <1>0 DEF TypeInv, Kept, Loaded, Managed, Enrolled
    <3>2. doc.statuses[x] # None
      BY <3>1 DEF Valid, Referential
    <3>. QED
      BY <3>1, <3>2, DocumentParts DEF DoorStatus
  <2>. QED
    BY <1>3, <2>1, <2>2, <2>3
<1>. QED
  BY <1>0, <1>3, <1>7, <1>8, RaiseStep

\* Evaluations are stored one after another.
LEMMA StoreStep ==
  ASSUME StatusInv, NEW c \in Caller, StoreStatus(c)
  PROVE  StatusInv'
  BY Storing, Overtaken

(***************************************************************************)
(* Every step keeps the statuses of doors.                                 *)
(***************************************************************************)

\* When no call is under way nothing is to be stored.
LEMMA NothingPending ==
  ASSUME NEW c, call[c] = Free
  PROVE  Pending(c) = {}
  BY ScriptOne DEF Pending, Free

\* Documents on disk, and no call.
LEMMA StatusInit ==
  ASSUME Init
  PROVE  StatusInv
<1>1. PICK home \in Homes : doc = home.doc
  BY DEF Init
<1>2. WellWritten(doc)
  BY <1>1, Assumptions
<1>3. /\ up = "down" /\ call = [c \in Caller |-> Free] /\ clock = 0
      /\ verdicts = {} /\ missed = [x \in Door |-> 0]
  BY DEF Init
<1>4. \A c \in Caller : call[c] = Free /\ Pending(c) = {}
  BY <1>3, NothingPending
<1>5. Kept
  BY <1>2, <1>3 DEF Kept, WellWritten
<1>6. Called
  BY <1>3, <1>4 DEF Called, CallOK
<1>7. TypeInv
  BY <1>3, <1>5, <1>6 DEF TypeInv
<1>8. TimesDiffer
  BY <1>4 DEF TimesDiffer
<1>. QED
  BY <1>3, <1>7, <1>8 DEF StatusInv

\* A process evaluates every door as it starts.
LEMMA StartStep ==
  ASSUME StatusInv, Start
  PROVE  StatusInv'
<1>0. TypeInv /\ up = "down" /\ clock \in Nat /\ \A c \in Caller : call[c] = Free
  BY DEF StatusInv, TypeInv, Called, Start
<1>1. call' = call /\ verdicts' = {} /\ missed' = [x \in Door |-> 0]
  BY DEF Start
<1>2. \A c \in Caller : call'[c] = Free /\ Pending(c)' = {}
  <2>. TAKE c \in Caller
  <2>1. call'[c] = Free /\ PendingIn(Free.todo) = {}
    BY <1>0, <1>1, ScriptOne DEF Free
  <2>. QED
    BY <2>1 DEF Pending
<1>3. Called'
  BY <1>0, <1>1, <1>2 DEF TypeInv, Called, CallOK
<1>4. TimesDiffer'
  BY <1>2 DEF TimesDiffer
<1>5. CASE Migrate(doc) = None
  <2>1. up' = "failed" /\ doc' = doc /\ clock' = clock
    BY <1>5 DEF Start
  <2>2. Kept'
    BY <1>0, <2>1 DEF TypeInv, Kept
  <2>3. TypeInv'
    BY <1>0, <1>1, <1>3, <2>1, <2>2 DEF TypeInv
  <2>. QED
    BY <1>4, <2>1, <2>3 DEF StatusInv
<1>6. CASE Migrate(doc) # None
  <2>1. PICK now \in Nat : now = clock + 1 /\ now > 0
    BY <1>0
  <2>2. PICK d : d = Migrate(doc)
    OBVIOUS
  <2>3. PICK e : e = Evaluated(Repaired(d), now)
    OBVIOUS
  <2>4. up' = "up" /\ clock' = now /\ doc' = e
    BY <1>6, <2>1, <2>2, <2>3 DEF Start
  <2>5. Loaded(d)
    BY <1>0, <1>6, <2>2, Migrated DEF TypeInv, Kept
  <2>6. /\ Loaded(e)
        /\ \A x \in Door : e.statuses[x] # None => e.statuses[x].at = now
        /\ \A x \in Managed(e) : e.statuses[x].status = Evaluate(e, x)
    BY <2>3, <2>5, StartedWell
  <2>7. Kept'
    BY <2>1, <2>4, <2>6 DEF Kept, Loaded, Recent, Dated
  <2>8. TypeInv'
    BY <1>1, <1>3, <2>1, <2>4, <2>7 DEF TypeInv
  <2>9. \A x \in Managed(doc') : Settled(x)'
    <3>. TAKE x \in Managed(doc')
    <3>1. Coming(x)' = {}
      BY <1>2 DEF Coming
    <3>2. doc'.statuses[x].status = Evaluate(doc', x)
      BY <2>4, <2>6
    <3>3. StoredLast(x)'
      BY <3>1, <3>2 DEF StoredLast
    <3>. QED
      BY <3>3 DEF Settled
  <2>. QED
    BY <1>4, <2>8, <2>9 DEF StatusInv
<1>. QED
  BY <1>5, <1>6

\* It stops, or crashes: the calls are forgotten.
LEMMA StopStep ==
  ASSUME StatusInv, Stop
  PROVE  StatusInv'
<1>1. /\ TypeInv /\ up = "up" /\ up' = "down" /\ call' = [c \in Caller |-> Free]
      /\ doc' = doc /\ clock' = clock /\ verdicts' = verdicts /\ missed' = missed
  BY DEF StatusInv, Stop
<1>2. \A c \in Caller : call'[c] = Free /\ Pending(c)' = {}
  <2>. TAKE c \in Caller
  <2>1. call'[c] = Free /\ PendingIn(Free.todo) = {}
    BY <1>1, ScriptOne DEF Free
  <2>. QED
    BY <2>1 DEF Pending
<1>3. Called'
  BY <1>1, <1>2 DEF Called, CallOK
<1>4. Kept'
  BY <1>1 DEF TypeInv, Kept
<1>5. TypeInv'
  BY <1>1, <1>3, <1>4 DEF TypeInv
<1>6. TimesDiffer'
  BY <1>2 DEF TimesDiffer
<1>. QED
  BY <1>1, <1>5, <1>6 DEF StatusInv

\* A door is removed, with its status.
LEMMA RemoveDoorStep ==
  ASSUME StatusInv, NEW y \in Door, RemoveDoor(y)
  PROVE  StatusInv'
<1>0. TypeInv /\ TimesDiffer /\ up = "up" /\ \A x \in Managed(doc) : Settled(x)
  BY DEF StatusInv, RemoveDoor
<1>1. /\ up' = up /\ call' = call /\ clock' = clock /\ verdicts' = verdicts /\ missed' = missed
      /\ y \in Managed(doc) /\ doc' = [doc EXCEPT !.doors[y].managed = FALSE, !.statuses[y] = None]
  BY DEF RemoveDoor, statuses
<1>2. PICK d : d = doc
  OBVIOUS
<1>3. PICK e : e = doc'
  OBVIOUS
<1>4. /\ Loaded(e) /\ e.ops = d.ops /\ Managed(e) = Managed(d) \ {y} /\ e.statuses[y] = None
      /\ \A x \in Door \ {y} : e.statuses[x] = d.statuses[x]
      /\ \A x \in Door : Evaluate(e, x) = Evaluate(d, x)
  <2>1. Loaded(d) /\ y \in Managed(d)
    BY <1>0, <1>1, <1>2 DEF TypeInv, Kept
  <2>2. e = [d EXCEPT !.doors[y].managed = FALSE, !.statuses[y] = None]
    BY <1>1, <1>2, <1>3
  <2>3. Unenrolls(d, e, y)
    BY <2>1, <2>2, DoorUnenrolled
  <2>. QED
    BY <2>1, <2>3, DoorRemoved
<1>5. \A c \in Caller : Pending(c)' = Pending(c)
  BY <1>1 DEF Pending
<1>6. Kept'
  BY <1>0, <1>1, <1>2, <1>3, <1>4 DEF TypeInv, Kept, Loaded, Recent, Dated
<1>7. Called'
  BY <1>0, <1>1, <1>2, <1>3, <1>4, <1>5 DEF TypeInv, Called
<1>8. TypeInv'
  BY <1>0, <1>1, <1>6, <1>7 DEF TypeInv
<1>9. TimesDiffer'
  <2>1. \A c \in Caller : \A s \in Pending(c)' :
          doc'.statuses[s.door] # None => doc'.statuses[s.door].at # s.at
    <3>. TAKE c \in Caller
    <3>. TAKE s \in Pending(c)'
    <3>1. s \in Pending(c) /\ s.door \in Door
      BY <1>0, <1>5, PendingTyped
    <3>. QED
      BY <1>0, <1>2, <1>3, <1>4, <3>1 DEF TimesDiffer
  <2>2. \A c, o \in Caller : \A s \in Pending(c)', r \in Pending(o)' : c # o => s.at # r.at
    BY <1>0, <1>5 DEF TimesDiffer
  <2>. QED
    BY <2>1, <2>2 DEF TimesDiffer
<1>10. ASSUME NEW x \in Managed(e)
       PROVE  Settled(x)'
  <2>1. x \in Door /\ x # y /\ x \in Managed(d)
    BY <1>4 DEF Managed, Enrolled
  <2>2. Coming(x)' = Coming(x)
    BY <1>5 DEF Coming
  <2>3. doc'.statuses[x] = doc.statuses[x] /\ Evaluate(doc', x) = Evaluate(doc, x)
    BY <1>2, <1>3, <1>4, <2>1
  <2>4. Settled(x)
    BY <1>0, <1>2, <2>1
  <2>5. LeftOut(x) => LeftOut(x)'
    BY <1>1, <2>2, <2>3 DEF LeftOut
  <2>6. StoredLast(x) => StoredLast(x)'
    BY <1>1, <2>2, <2>3 DEF StoredLast
  <2>7. \A s \in Coming(x) : ComesLast(x, s) => ComesLast(x, s)'
    BY <2>2, <2>3 DEF ComesLast
  <2>8. \A o \in Caller : Owes(call[o], x) => Owes(call[o], x)'
    <3>1. \A a \in Op : doc.ops[a] # None => doc.ops[a].targets \subseteq doc'.ops[a].targets
      BY <1>2, <1>3, <1>4
    <3>2. \A o \in Caller : call'[o] = call[o]
      BY <1>1
    <3>. QED
      BY <1>0, <3>1, <3>2, OwesKept
  <2>. QED
    BY <2>2, <2>4, <2>5, <2>6, <2>7, <2>8 DEF Settled
<1>. QED
  BY <1>3, <1>8, <1>9, <1>10 DEF StatusInv

(***************************************************************************)
(* Calls that begin.                                                       *)
(***************************************************************************)

\* A step that neither writes nor reads.
LEMMA TalkStep ==
  ASSUME StatusInv, up = "up", up' = "up", NEW c \in Caller, NEW n, CallOn(n),
         call' = [call EXCEPT ![c] = Entered(n)],
         Pending(c) = {}, PendingIn(n.todo) = {}, doc' = doc, clock' = clock, verdicts' = verdicts,
         missed' = missed, n.op # None => doc.ops[n.op] # None,
         \A x \in Managed(doc) : ~Owes(call[c], x)
  PROVE  StatusInv'
<1>1. TypeInv
  BY DEF StatusInv
<1>2. PICK e : e = doc'
  OBVIOUS
<1>3. /\ Loaded(e) /\ e.statuses = doc.statuses /\ Managed(e) = Managed(doc)
      /\ \A o \in Op : doc.ops[o] # None => e.ops[o] # None /\ doc.ops[o].targets \subseteq e.ops[o].targets
      /\ n.op # None => e.ops[n.op] # None
      /\ \A x \in Door : Evaluate(e, x) = Evaluate(doc, x)
  BY <1>1, <1>2 DEF TypeInv, Kept
<1>4. missed' \in [Door -> 0..clock]
  BY <1>1 DEF TypeInv
<1>5. \A x \in Managed(doc) :
        \/ missed'[x] = clock \/ Owes(call[c], x)'
        \/ missed'[x] = missed[x] /\ ~Owes(call[c], x) /\ Evaluate(doc', x) = Evaluate(doc, x)
  BY <1>2, <1>3 DEF Managed, Enrolled
<1>6. /\ Loaded(doc') /\ doc'.statuses = doc.statuses /\ Managed(doc') = Managed(doc)
      /\ \A o \in Op : doc.ops[o] # None => doc'.ops[o] # None /\ doc.ops[o].targets \subseteq doc'.ops[o].targets
      /\ n.op # None => doc'.ops[n.op] # None
  BY <1>2, <1>3
<1>. QED
  BY <1>4, <1>5, <1>6, WriteStep

\* A call that begins without a write.
LEMMA BeginStep ==
  ASSUME StatusInv, up = "up", up' = "up", NEW c \in Caller, call[c] = Free,
         NEW k, CallOn(k), k.todo # <<>>, Head(k.todo).do # "except", PendingIn(k.todo) = {},
         call' = [call EXCEPT ![c] = k], doc' = doc, clock' = clock, verdicts' = verdicts,
         missed' = missed, k.op # None => doc.ops[k.op] # None
  PROVE  StatusInv'
<1>1. Entered(k) = k
  BY Entering
<1>2. call' = [call EXCEPT ![c] = Entered(k)]
  BY <1>1
<1>3. Pending(c) = {}
  BY NothingPending
<1>4. \A x \in Managed(doc) : ~Owes(call[c], x)
  BY DEF Owes, Free
<1>. QED
  BY <1>2, <1>3, <1>4, TalkStep

\* The calls of access management and of operations.
LEMMA CallFormed ==
  ASSUME NEW g \in Pair \cup {None}, NEW o \in Op \cup {None}, NEW todo, NEW undo,
         NEW k, k = Call(g, o, todo, undo)
  PROVE  Formed(k) /\ k.pair = g /\ k.op = o /\ k.todo = todo /\ k.undo = undo
<1>1. DOMAIN k = CallFields
  BY DEF Call, CallFields
<1>2. ~Recovering(k)
  BY <1>1 DEF Recovering, CallFields
<1>3. k.pair = g /\ k.op = o /\ k.todo = todo /\ k.undo = undo
  BY DEF Call
<1>. QED
  BY <1>1, <1>2, <1>3 DEF Formed

\* A call of access management begins.
LEMMA GiveAccessStep ==
  ASSUME StatusInv, NEW c \in Caller, NEW g \in Pair, NEW status \in {"synchronized", "unknown"},
         GiveAccess(c, g, status)
  PROVE  StatusInv'
<1>0. TypeInv /\ None \notin Pair
  BY Assumptions DEF StatusInv
<1>1. PICK cred : cred = doc.authority[g[1]]
  OBVIOUS
<1>2. PICK event \in {"other", "failed", "pending"} : event = IF status = "unknown" THEN "pending" ELSE "other"
  OBVIOUS
<1>. DEFINE todo == Writes("newgrant", status, cred) \o <<Do("evaluate")>> \o Tells(event)
            undo == <<Do("dropgrant"), Do("dropmetadata"), Do("evaluate")>>
<1>11. todo # <<>> /\ Head(todo).do = "metadata"
  BY DEF Writes, Tells, Do
<1>3. PICK k : k = Call(g, None, todo, undo)
  OBVIOUS
<1>4. /\ up = "up" /\ call[c] = Free /\ call' = [call EXCEPT ![c] = k] /\ doc' = doc /\ up' = up
      /\ clock' = clock /\ verdicts' = verdicts /\ missed' = missed
  BY <1>1, <1>2, <1>3 DEF GiveAccess, Begins, Ready, statuses
<1>5. cred \in Credential \cup {None} /\ cred # None
  BY <1>0, <1>1 DEF TypeInv, Kept, Documents, Pair, GiveAccess
<1>6. status \in Status
  BY Ranks
<1>. HIDE DEF todo, undo
<1>7. Formed(k) /\ k.pair = g /\ k.op = None /\ k.todo = todo /\ k.undo = undo
  BY <1>3, CallFormed
<1>8. k.pair # None
  BY <1>0, <1>7
<1>9. todo \in Scripts(Steps(k)) /\ PendingIn(todo) = {}
  BY <1>5, <1>6, <1>8, Updates DEF todo
<1>10. undo \in Scripts(Steps(k))
  BY <1>8, Undoing DEF undo
<1>12. CallOn(k)
  BY <1>7, <1>9, <1>10, Milder DEF CallOn
<1>. QED
  BY <1>4, <1>7, <1>9, <1>11, <1>12, BeginStep

\* A removal of access begins with a write.
LEMMA RemovalFirst ==
  ASSUME NEW cred, NEW outcome, NEW after
  PROVE  /\ RemovalSteps(cred, outcome, after) # <<>>
         /\ Head(RemovalSteps(cred, outcome, after)).do = "metadata"
<1>1. PICK rest : rest = Verified(outcome, cred, after)
  OBVIOUS
<1>. QED
  BY <1>1 DEF RemovalSteps, Update, Writes, Tells, Do

\* A removal begins with a write of the relationship.
LEMMA RemoveAccessStep ==
  ASSUME StatusInv, NEW c \in Caller, NEW g \in Pair, NEW outcome \in RemovalOutcome,
         RemoveAccess(c, g, outcome)
  PROVE  StatusInv'
<1>0. TypeInv /\ None \notin Pair
  BY Assumptions DEF StatusInv
<1>1. PICK cred : cred = doc.metadata[g].cred
  OBVIOUS
<1>2. PICK todo : todo = RemovalSteps(cred, outcome, <<>>)
  OBVIOUS
<1>3. PICK k : k = Call(g, None, todo, <<>>)
  OBVIOUS
<1>4. /\ up = "up" /\ call[c] = Free /\ call' = [call EXCEPT ![c] = k] /\ doc' = doc /\ up' = up
      /\ clock' = clock /\ verdicts' = verdicts /\ missed' = missed /\ g \in Recorded(doc)
  BY <1>1, <1>2, <1>3 DEF RemoveAccess, Begins, Ready, statuses, Recorded
<1>5. cred \in Credential \cup {None}
  <2>1. doc \in Documents
    BY <1>0 DEF TypeInv, Kept
  <2>2. doc.metadata[g] \in Metadata
    BY <1>4, <2>1, DocumentParts
  <2>. QED
    BY <1>1, <2>2 DEF Metadata
<1>6. Formed(k) /\ k.pair = g /\ k.op = None /\ k.todo = todo /\ k.undo = <<>>
  BY <1>3, CallFormed
<1>7. k.pair # None
  BY <1>0, <1>6
<1>8. <<>> \in Scripts(Steps(k)) /\ PendingIn(<<>>) = {}
  BY ScriptOne
<1>9. todo \in Scripts(Wild(k)) /\ PendingIn(todo) = {}
  BY <1>2, <1>5, <1>7, <1>8, Removals
<1>10. todo # <<>> /\ Head(todo).do = "metadata"
  BY <1>2, RemovalFirst
<1>11. CallOn(k)
  BY <1>6, <1>8, <1>9, Milder DEF CallOn
<1>. QED
  BY <1>4, <1>6, <1>9, <1>10, <1>11, BeginStep

\* An operation is started, and its targets are observed.
LEMMA StartOperationStep ==
  ASSUME StatusInv, NEW c \in Caller, NEW o \in Op, NEW work \in Work, StartOperation(c, o, work)
  PROVE  StatusInv'
<1>0. TypeInv /\ None \notin Op
  BY Assumptions DEF StatusInv
<1>1. PICK p \in Person :
        /\ doc.ops[o] = None /\ doc' = [doc EXCEPT !.ops[o] = Operation(doc, p, "pending")]
        /\ Begins(c, "operations", Call(None, o, <<Do("observe")>> \o work, <<>>))
        /\ UNCHANGED <<up, statuses, missed, told>>
  BY DEF StartOperation
<1>2. PICK todo : todo = <<Do("observe")>> \o work
  OBVIOUS
<1>3. PICK k : k = Call(None, o, todo, <<>>)
  OBVIOUS
<1>4. PICK r : r = Operation(doc, p, "pending")
  OBVIOUS
<1>5. PICK d : d = doc
  OBVIOUS
<1>6. PICK e : e = [d EXCEPT !.ops[o] = r]
  OBVIOUS
<1>7. /\ up = "up" /\ call[c] = Free /\ call' = [call EXCEPT ![c] = k] /\ doc' = e /\ up' = up
      /\ clock' = clock /\ verdicts' = verdicts /\ missed' = missed
  BY <1>1, <1>2, <1>3, <1>4, <1>5, <1>6 DEF Begins, Ready, statuses
<1>8. Formed(k) /\ k.pair = None /\ k.op = o /\ k.todo = todo /\ k.undo = <<>>
  <2>1. PICK g \in Pair \cup {None} : g = None
    OBVIOUS
  <2>2. k = Call(g, o, todo, <<>>) /\ o \in Op \cup {None}
    BY <1>3, <2>1
  <2>3. PICK undo : undo = <<>>
    OBVIOUS
  <2>4. Formed(k) /\ k.pair = g /\ k.op = o /\ k.todo = todo /\ k.undo = undo
    BY <2>2, <2>3, CallFormed
  <2>. QED
    BY <2>1, <2>3, <2>4
<1>9. /\ todo \in Scripts(Steps(k)) /\ PendingIn(todo) = {} /\ todo # <<>> /\ Head(todo) = Do("observe")
  BY <1>0, <1>2, <1>8, Operating
<1>10. <<>> \in Scripts(Steps(k))
  BY ScriptOne
<1>11. CallOn(k)
  BY <1>8, <1>9, <1>10, Milder DEF CallOn
<1>12. Loaded(d) /\ Recent(d) /\ Valid(d)
  BY <1>0, <1>5, <1>7 DEF TypeInv, Kept, Loaded
<1>13. /\ r \in LifecycleOperation /\ r.targets = {x[1] : x \in r.expects} /\ r.targets \subseteq d.points
  <2>1. "pending" \in OperationStatus
    BY DEF OperationStatus
  <2>. QED
    BY <1>4, <1>5, <1>12, <2>1, OperationTyped
<1>14. d.ops[o] # None => d.ops[o].targets \subseteq r.targets
  BY <1>1, <1>5
<1>15. /\ Rewrites(d, e, r.targets) /\ e.ops[o] = r /\ Valid(e)
       /\ \A a \in Op \ {o} : e.ops[a] = d.ops[a]
  <2>0. /\ Recent(d) /\ r \in LifecycleOperation
        /\ Kind[o] = "replacement" => r.targets = {x[1] : x \in r.expects}
        /\ d.ops[o] # None => d.ops[o].targets \subseteq r.targets
    BY <1>12, <1>13, <1>14
  <2>1. LET w == [d EXCEPT !.ops[o] = r]
        IN /\ Rewrites(d, w, r.targets) /\ w.ops[o] = r /\ \A a \in Op \ {o} : w.ops[a] = d.ops[a]
           /\ Valid(d) /\ r.targets \subseteq d.points => Valid(w)
    BY <2>0, OperationWritten
  <2>. QED
    BY <1>6, <1>12, <1>13, <2>1
<1>16. r # None
  BY <1>13, Assumptions
<1>17. Loaded(doc') /\ doc'.statuses = doc.statuses /\ Managed(doc') = Managed(doc)
  BY <1>5, <1>7, <1>12, <1>15 DEF Rewrites, Loaded, Managed, Enrolled
<1>18. \A a \in Op : doc.ops[a] # None => doc'.ops[a] # None /\ doc.ops[a].targets \subseteq doc'.ops[a].targets
  BY <1>5, <1>7, <1>15 DEF Rewrites
<1>19. k.op # None => doc'.ops[k.op] # None
  BY <1>7, <1>8, <1>15, <1>16
<1>20. Entered(k) = k
  BY <1>8, <1>9, <1>11, Entering DEF Do
<1>21. call' = [call EXCEPT ![c] = Entered(k)] /\ call'[c] = k
  BY <1>0, <1>7, <1>20 DEF TypeInv, Called
<1>22. Pending(c) = {} /\ \A x \in Managed(doc) : ~Owes(call[c], x)
  BY <1>7, NothingPending DEF Owes, Free
<1>23. \A x \in Managed(doc) :
         \/ missed'[x] = clock \/ Owes(call[c], x)'
         \/ missed'[x] = missed[x] /\ ~Owes(call[c], x) /\ Evaluate(doc', x) = Evaluate(doc, x)
  <2>. TAKE x \in Managed(doc)
  <2>1. CASE x \in r.targets
    <3>1. x \in doc'.ops[k.op].targets
      BY <1>7, <1>8, <1>15, <2>1
    <3>2. Owes(call[c], x)'
      BY <1>8, <1>9, <1>21, <3>1 DEF Owes, Do
    <3>. QED
      BY <3>2
  <2>2. CASE x \notin r.targets
    <3>1. SameAt(d, e, x) /\ x \in Door
      BY <1>15, <2>2 DEF Rewrites, Managed, Enrolled
    <3>2. Evaluate(doc', x) = Evaluate(doc, x)
      BY <1>5, <1>7, <3>1, SameStatus
    <3>. QED
      BY <1>7, <1>22, <3>2
  <2>. QED
    BY <2>1, <2>2
<1>24. missed' \in [Door -> 0..clock]
  BY <1>0, <1>7 DEF TypeInv
<1>25. PendingIn(k.todo) = {}
  BY <1>8, <1>9
<1>. QED
  BY <1>7, <1>11, <1>17, <1>18, <1>19, <1>21, <1>22, <1>23, <1>24, <1>25, WriteStep

\* A recovery has something to answer.
LEMMA DecidingFirst ==
  ASSUME NEW decision \in Decisions
  PROVE  StepsAfter(decision) # <<>> /\ Head(StepsAfter(decision)).do # "except"
<1>1. CASE decision \in {"unavailable", "unsafe"}
  BY <1>1 DEF StepsAfter, Answer, Do
<1>2. CASE decision = "overlap"
  BY <1>2 DEF StepsAfter, Answer, Do, Tells
<1>3. CASE decision = "changed"
  BY <1>3 DEF StepsAfter, Answer, Do, Look
<1>4. CASE decision \in {"hopeless", "resume"}
  BY <1>4 DEF StepsAfter, Do, Tells
<1>5. CASE decision \in {"already", "progress", "refused"}
  BY <1>5 DEF StepsAfter, Answer
<1>. QED
  BY <1>1, <1>2, <1>3, <1>4, <1>5 DEF Decisions

\* What is decided, and what that says of the relationship.
LEMMA DecisionSays ==
  ASSUME NEW d, NEW g
  PROVE  /\ Decision(d, g) \in Decisions
         /\ Decision(d, g) = "already" => Relation(d, g) = "synchronized"
         /\ Decision(d, g) \in {"changed", "hopeless", "resume"} => Relation(d, g) # "synchronized"
         /\ Decision(d, g) # "unavailable" => Consistent(d, g)
  BY DEF Decision, Decisions

\* A recovery begins.
LEMMA RecoverStep ==
  ASSUME StatusInv, NEW c \in Caller, NEW g \in Pair, Recover(c, g)
  PROVE  StatusInv'
<1>0. TypeInv /\ None \notin Pair /\ None # "synchronized" /\ None \notin Op
  BY Assumptions, Ranks DEF StatusInv
<1>1. PICK decision : decision = Decision(doc, g)
  OBVIOUS
<1>2. PICK active : active = IF decision = "resume" THEN ActiveOf(doc, g[1]) ELSE {}
  OBVIOUS
<1>3. PICK a : a = IF active = {} THEN None ELSE CHOOSE o \in active : TRUE
  OBVIOUS
<1>4. PICK todo, undo : todo = StepsAfter(decision) /\ undo = StepsIfRaised(decision)
  OBVIOUS
<1>5. PICK found, fact, was :
        /\ found = doc.metadata[g] /\ fact = Fact(doc, g)
        /\ was = IF decision = "unavailable" THEN None ELSE Relation(doc, g)
  OBVIOUS
<1>6. PICK k : k = [pair |-> g, op |-> a, todo |-> todo, undo |-> undo, failed |-> FALSE, writes |-> 0,
                    found |-> found, fact |-> fact, seen |-> None, was |-> was]
  OBVIOUS
<1>7. Begins(c, "recoveries", k) /\ UNCHANGED <<doc, up, statuses, missed, told>>
  BY <1>1, <1>2, <1>3, <1>4, <1>5, <1>6 DEF Recover
<1>8. /\ up = "up" /\ call[c] = Free /\ call' = [call EXCEPT ![c] = k] /\ doc' = doc /\ up' = up
      /\ clock' = clock /\ verdicts' = verdicts /\ missed' = missed
  BY <1>7 DEF Begins, Ready, statuses
<1>9. /\ DOMAIN k = CallFields \cup RecoveryFields /\ k.pair = g /\ k.op = a /\ k.todo = todo /\ k.undo = undo
      /\ k.fact = fact /\ k.seen = None /\ k.was = was
  BY <1>6 DEF CallFields, RecoveryFields
<1>10. Recovering(k)
  BY <1>9 DEF Recovering, RecoveryFields
<1>11. Loaded(doc)
  BY <1>0, <1>8 DEF TypeInv, Kept
<1>12. a = None \/ (a \in Op /\ doc.ops[a] # None)
  BY <1>2, <1>3 DEF ActiveOf
<1>13. was = "synchronized" => fact = "works"
  <2>. HAVE was = "synchronized"
  <2>1. decision # "unavailable" /\ Relation(doc, g) = "synchronized"
    BY <1>0, <1>5
  <2>2. Exists(doc, "grants", g)
    BY <1>1, <2>1, DecisionSays DEF Consistent
  <2>. QED
    BY <1>5, <1>11, <2>1, <2>2, RelationTrue DEF Loaded
<1>14. Faithful(k)
  BY <1>0, <1>9, <1>13 DEF Faithful
<1>15. Formed(k)
  BY <1>9, <1>12, <1>14 DEF Formed
<1>16. decision \in Decisions /\ k.pair # None
  BY <1>0, <1>1, <1>9, DecisionSays
<1>17. /\ decision = "already" => k.was = "synchronized"
       /\ decision \in {"changed", "hopeless", "resume"} => k.was # "synchronized"
  BY <1>1, <1>5, <1>9, DecisionSays
<1>18. todo \in Scripts(Steps(k)) /\ PendingIn(todo) = {} /\ undo \in Scripts(Steps(k))
  BY <1>4, <1>10, <1>16, <1>17, Deciding
<1>19. todo # <<>> /\ Head(todo).do # "except"
  BY <1>4, <1>16, DecidingFirst
<1>20. CallOn(k)
  BY <1>9, <1>15, <1>18, Milder DEF CallOn
<1>21. k.op # None => doc.ops[k.op] # None
  BY <1>9, <1>12
<1>. QED
  BY <1>8, <1>9, <1>18, <1>19, <1>20, <1>21, BeginStep

(***************************************************************************)
(* Calls that go on.                                                       *)
(***************************************************************************)

\* A step that is neither a guard nor an evaluation to store.
LEMMA PlainStep ==
  ASSUME TypeInv, NEW c \in Caller, call[c].todo # <<>>,
         Head(call[c].todo).do \notin {"except", "upsert"}
  PROVE  Head(call[c].todo) \in Steps(call[c]) /\ Pending(c) = {}
<1>1. Head(call[c].todo) \in Wild(call[c]) \cup Evaluations
  BY CallTyped
<1>2. \A S : \A s \in Guarding(S) : s.do = "except"
  BY DEF Guarding
<1>3. \A s \in Evaluations : s.do = "upsert"
  BY DEF Evaluations
<1>4. Head(call[c].todo) \in Steps(call[c])
  BY <1>1, <1>2, <1>3 DEF Wild, Mild
<1>. QED
  BY <1>4, PendingTyped

\* A step of a relationship belongs to a call about one, with all it needs.
LEMMA PairStepTyped ==
  ASSUME TypeInv, NEW c \in Caller, call[c].todo # <<>>,
         NEW step, step = Head(call[c].todo), step.do \in Writing \cup Reading \cup {"alarm", "history"}
  PROVE  /\ call[c].pair \in Pair /\ call[c].pair[2] \in Door
         /\ step.do \in {"metadata", "grant", "newgrant"} => step.status \in Status
         /\ step.do = "metadata" => step.cred \in Credential \cup {None}
         /\ step.do = "history" => step.event \in {"other", "failed", "pending"}
<1>1. step \in Steps(call[c])
  BY PlainStep DEF Writing, Reading
<1>2. call[c].pair # None /\ step \in OfPair
  BY <1>1 DEF Steps, OfOperation, Saying, Completing, Seeing, Writing, Reading
<1>3. call[c].pair \in Pair
  BY <1>2, CallTyped
<1>4. call[c].pair[2] \in Door
  BY <1>3 DEF Pair
<1>5. /\ step.do \in {"metadata", "grant", "newgrant"} => step.status \in Status
      /\ step.do = "metadata" => step.cred \in Credential \cup {None}
      /\ step.do = "history" => step.event \in {"other", "failed", "pending"}
  BY <1>2 DEF OfPair
<1>. QED
  BY <1>3, <1>4, <1>5

\* A call goes on with its other steps.
LEMMA GoesOn ==
  ASSUME TypeInv, NEW c \in Caller, call[c].todo # <<>>, Goes(c), Head(call[c].todo).do # "upsert"
  PROVE  \E n : /\ CallOn(n) /\ n.todo = Tail(call[c].todo) /\ n.pair = call[c].pair /\ n.op = call[c].op
                /\ call' = [call EXCEPT ![c] = Entered(n)] /\ PendingIn(n.todo) = {} /\ Pending(c) = {}
<1>1. CallOn(call[c]) /\ Tail(call[c].todo) \in Scripts(Wild(call[c]) \cup Evaluations)
  BY CallTyped
<1>2. PICK n : n = With(c, Tail(call[c].todo))
  OBVIOUS
<1>3. n = [call[c] EXCEPT !.todo = Tail(call[c].todo)]
  BY <1>2 DEF With
<1>4. CallOn(n) /\ n.todo = Tail(call[c].todo) /\ n.pair = call[c].pair /\ n.op = call[c].op
  BY <1>1, <1>3, GoingOn
<1>5. call' = [call EXCEPT ![c] = Entered(n)]
  BY <1>2 DEF Goes, Becomes
<1>6. PendingIn(Tail(call[c].todo)) = {}
  BY <1>1, PendingTail DEF CallOn
<1>. QED
  BY <1>4, <1>5, <1>6, PendingTyped

\* A sequence with a length has a head.
LEMMA HeadOf ==
  ASSUME NEW S, NEW t \in Seq(S), Len(t) # 0
  PROVE  t # <<>> /\ Head(t) = t[1]
OBVIOUS

\* What is written is followed by what must follow.
LEMMA NextStep ==
  ASSUME TypeInv, NEW c \in Caller, call[c].todo # <<>>, Head(call[c].todo).do \in Writing
  PROVE  Tail(call[c].todo) # <<>> /\ Continues(Head(call[c].todo), Head(Tail(call[c].todo)))
<1>1. PICK t : t = Tail(call[c].todo)
  OBVIOUS
<1>2. call[c].todo \in Scripts(Wild(call[c]) \cup Evaluations)
  BY CallTyped DEF CallOn
<1>3. /\ Len(call[c].todo) \in Nat \ {0} /\ Head(call[c].todo) = call[c].todo[1]
      /\ t \in Seq(Wild(call[c]) \cup Evaluations)
      /\ Len(t) = Len(call[c].todo) - 1
      /\ \A i \in 1..Len(t) : t[i] = call[c].todo[i + 1]
  BY <1>1, <1>2, ScriptTail DEF Scripts
<1>4. 1 < Len(call[c].todo) /\ Continues(call[c].todo[1], call[c].todo[2])
  BY <1>2, <1>3 DEF Scripts, Linked
<1>5. Len(t) \in Nat \ {0} /\ t[1] = call[c].todo[2]
  BY <1>3, <1>4
<1>6. t # <<>> /\ Head(t) = t[1]
  BY <1>3, <1>5, HeadOf
<1>. QED
  BY <1>1, <1>3, <1>4, <1>5, <1>6

\* A relationship is written: the next step writes or reads the door, or the step raises.
LEMMA SavesStep ==
  ASSUME StatusInv, up = "up", up' = "up", NEW c \in Caller, call[c].todo # <<>>,
         Head(call[c].todo).do \in Writing, NEW e, Rewrites(doc, e, {call[c].pair[2]}), Saves(c, e),
         clock' = clock, verdicts' = verdicts
  PROVE  StatusInv'
<1>0. TypeInv /\ Loaded(doc)
  BY DEF StatusInv, TypeInv, Kept
<1>1. Head(call[c].todo).do \notin {"except", "upsert", "observe"}
  BY DEF Writing
<1>2. CASE ~Valid(e)
  <2>1. doc' = doc /\ Raises(c)
    BY <1>2 DEF Saves
  <2>. QED
    BY <1>1, <2>1, RaisesStep
<1>3. CASE Valid(e)
  <2>1. doc' = e /\ Goes(c) /\ missed' = missed
    BY <1>3 DEF Saves
  <2>2. PICK n : /\ CallOn(n) /\ n.todo = Tail(call[c].todo) /\ n.pair = call[c].pair /\ n.op = call[c].op
                 /\ call' = [call EXCEPT ![c] = Entered(n)] /\ PendingIn(n.todo) = {} /\ Pending(c) = {}
    BY <1>0, <1>1, <2>1, GoesOn
  <2>3. n.todo # <<>> /\ Head(n.todo).do \in Writing \cup Reading
    BY <1>0, <2>2, NextStep DEF Continues
  <2>4. Entered(n) = n
    BY <2>2, <2>3, Entering DEF Writing, Reading
  <2>5. call'[c] = n
    BY <1>0, <2>2, <2>4 DEF TypeInv, Called
  <2>6. PICK y : y = call[c].pair[2]
    OBVIOUS
  <2>7. Owes(call[c], y)'
    BY <2>2, <2>3, <2>5, <2>6 DEF Owes
  <2>8. \A x \in Managed(doc) : x # y => ~Owes(call[c], x)
    BY <1>1, <2>6 DEF Owes
  <2>9. Rewrites(doc, e, {y})
    BY <2>6
  <2>10. /\ Loaded(doc') /\ doc'.statuses = doc.statuses /\ Managed(doc') = Managed(doc)
         /\ \A o \in Op : doc.ops[o] # None => doc'.ops[o] # None /\ doc.ops[o].targets \subseteq doc'.ops[o].targets
    BY <1>0, <1>3, <2>1, <2>9 DEF Rewrites, Loaded, Managed, Enrolled
  <2>11. n.op # None => doc'.ops[n.op] # None
    BY <1>0, <2>2, <2>10, CallTyped
  <2>12. \A x \in Managed(doc) :
           \/ missed'[x] = clock \/ Owes(call[c], x)'
           \/ missed'[x] = missed[x] /\ ~Owes(call[c], x) /\ Evaluate(doc', x) = Evaluate(doc, x)
    <3>. TAKE x \in Managed(doc)
    <3>1. CASE x = y
      BY <2>7, <3>1
    <3>2. CASE x # y
      <4>1. SameAt(doc, e, x) /\ x \in Door
        BY <2>9, <3>2 DEF Rewrites, Managed, Enrolled
      <4>2. Evaluate(doc', x) = Evaluate(doc, x)
        BY <2>1, <4>1, SameStatus
      <4>. QED
        BY <2>1, <2>8, <3>2, <4>2
    <3>. QED
      BY <3>1, <3>2
  <2>13. missed' \in [Door -> 0..clock]
    BY <1>0, <2>1 DEF TypeInv
  <2>. QED
    BY <2>2, <2>10, <2>11, <2>12, <2>13, WriteStep
<1>. QED
  BY <1>2, <1>3

\* The step of an action, in front of a call's other steps.
LEMMA Front ==
  ASSUME TypeInv, NEW c \in Caller, NEW what, Doing(c, what)
  PROVE  /\ up = "up" /\ call[c].todo # <<>> /\ Head(call[c].todo).do = what
         /\ Step(c) = Head(call[c].todo) /\ Loaded(doc) /\ Recent(doc) /\ doc \in Documents
  BY DEF Doing, Step, TypeInv, Kept, Loaded

\* The transactions of a relationship change what the document tells of its door only.
LEMMA WriteMetadataStep ==
  ASSUME StatusInv, NEW c \in Caller, WriteMetadata(c)
  PROVE  StatusInv'
<1>0. TypeInv /\ Doing(c, "metadata") /\ up' = up /\ clock' = clock /\ verdicts' = verdicts
  BY DEF StatusInv, WriteMetadata, statuses
<1>1. PICK step : step = Step(c)
  OBVIOUS
<1>2. PICK g : g = call[c].pair
  OBVIOUS
<1>3. /\ up = "up" /\ call[c].todo # <<>> /\ Head(call[c].todo).do = "metadata"
      /\ step = Head(call[c].todo) /\ Recent(doc)
  BY <1>0, <1>1, Front
<1>4. g \in Pair /\ step.status \in Status /\ step.cred \in Credential \cup {None}
  BY <1>0, <1>2, <1>3, PairStepTyped DEF Writing
<1>5. PICK r : r = [cred |-> step.cred, status |-> step.status]
  OBVIOUS
<1>6. r \in [cred : Credential \cup {None}, status : Status] \cup {None}
  BY <1>4, <1>5
<1>7. PICK e : e = [doc EXCEPT !.metadata[g] = r]
  OBVIOUS
<1>8. PICK s : s = None
  OBVIOUS
<1>9. Rewrites(doc, e, {g[2]})
  BY <1>3, <1>4, <1>6, <1>7, <1>8, RelationWritten
<1>10. Saves(c, e)
  BY <1>1, <1>2, <1>5, <1>7 DEF WriteMetadata
<1>11. Head(call[c].todo).do \in Writing
  BY <1>3 DEF Writing
<1>. QED
  BY <1>0, <1>2, <1>3, <1>9, <1>10, <1>11, SavesStep

\* So do those of a grant that there is,
LEMMA WriteGrantStep ==
  ASSUME StatusInv, NEW c \in Caller, WriteGrant(c)
  PROVE  StatusInv'
<1>0. TypeInv /\ Doing(c, "grant") /\ up' = up /\ clock' = clock /\ verdicts' = verdicts
  BY DEF StatusInv, WriteGrant, statuses
<1>1. PICK step : step = Step(c)
  OBVIOUS
<1>2. PICK g : g = call[c].pair
  OBVIOUS
<1>3. /\ up = "up" /\ call[c].todo # <<>> /\ Head(call[c].todo).do = "grant"
      /\ step = Head(call[c].todo) /\ Recent(doc) /\ doc \in Documents
  BY <1>0, <1>1, Front
<1>4. g \in Pair /\ step.status \in Status
  BY <1>0, <1>2, <1>3, PairStepTyped DEF Writing
<1>5. PICK e : e = IF Exists(doc, "grants", g) THEN [doc EXCEPT !.grants[g].status = step.status] ELSE doc
  OBVIOUS
<1>6. Rewrites(doc, e, {g[2]})
  <2>1. CASE ~Exists(doc, "grants", g)
    BY <1>3, <1>5, <2>1 DEF Rewrites, SameAt
  <2>2. CASE Exists(doc, "grants", g)
    <3>1. PICK t \in Grant : t = doc.grants[g]
      BY <1>3, <1>4, <2>2, DocumentParts DEF Granted
    <3>2. PICK s : s = [t EXCEPT !.status = step.status]
      OBVIOUS
    <3>3. s \in [schedule : Schedule \cup {None}, cred : Credential \cup {None}, status : Status] \cup {None}
      BY <1>4, <3>1, <3>2 DEF Grant
    <3>4. e = [doc EXCEPT !.grants[g] = s]
      BY <1>3, <1>4, <1>5, <2>2, <3>1, <3>2 DEF Documents
    <3>5. PICK r : r = None
      OBVIOUS
    <3>. QED
      BY <1>3, <1>4, <3>3, <3>4, <3>5, RelationWritten
  <2>. QED
    BY <2>1, <2>2
<1>7. Saves(c, e)
  BY <1>1, <1>2, <1>5 DEF WriteGrant
<1>8. Head(call[c].todo).do \in Writing
  BY <1>3 DEF Writing
<1>. QED
  BY <1>0, <1>2, <1>3, <1>6, <1>7, <1>8, SavesStep

\* of a grant that there was not,
LEMMA WriteNewGrantStep ==
  ASSUME StatusInv, NEW c \in Caller, WriteNewGrant(c)
  PROVE  StatusInv'
<1>0. TypeInv /\ Doing(c, "newgrant") /\ up' = up /\ clock' = clock /\ verdicts' = verdicts
  BY DEF StatusInv, WriteNewGrant, statuses
<1>1. PICK step : step = Step(c)
  OBVIOUS
<1>2. PICK g : g = call[c].pair
  OBVIOUS
<1>3. /\ up = "up" /\ call[c].todo # <<>> /\ Head(call[c].todo).do = "newgrant"
      /\ step = Head(call[c].todo) /\ Recent(doc) /\ doc \in Documents
  BY <1>0, <1>1, Front
<1>4. g \in Pair /\ g[1] \in Person /\ step.status \in Status
  <2>1. g \in Pair /\ step.status \in Status
    BY <1>0, <1>2, <1>3, PairStepTyped DEF Writing
  <2>. QED
    BY <2>1 DEF Pair
<1>5. CASE doc.people[g[1]] = None
  <2>1. doc' = doc /\ Raises(c)
    BY <1>2, <1>5 DEF WriteNewGrant
  <2>. QED
    BY <1>0, <1>3, <2>1, RaisesStep
<1>6. CASE doc.people[g[1]] # None
  <2>1. PICK s : s = [schedule |-> doc.people[g[1]], cred |-> doc.authority[g[1]], status |-> step.status]
    OBVIOUS
  <2>2. doc.people[g[1]] \in Schedule \cup {None} /\ doc.authority[g[1]] \in Credential \cup {None}
    BY <1>3, <1>4 DEF Documents
  <2>3. s \in [schedule : Schedule \cup {None}, cred : Credential \cup {None}, status : Status] \cup {None}
    BY <1>4, <2>1, <2>2
  <2>4. PICK e : e = [doc EXCEPT !.grants[g] = s]
    OBVIOUS
  <2>5. PICK r : r = None
    OBVIOUS
  <2>6. Rewrites(doc, e, {g[2]})
    BY <1>3, <1>4, <2>3, <2>4, <2>5, RelationWritten
  <2>7. Saves(c, e)
    BY <1>1, <1>2, <1>6, <2>1, <2>4 DEF WriteNewGrant
  <2>8. Head(call[c].todo).do \in Writing
    BY <1>3 DEF Writing
  <2>. QED
    BY <1>0, <1>2, <1>3, <2>6, <2>7, <2>8, SavesStep
<1>. QED
  BY <1>5, <1>6

\* and of a relationship that ends.
LEMMA DropStep ==
  ASSUME StatusInv, NEW c \in Caller, DropGrant(c) \/ DropMetadata(c)
  PROVE  StatusInv'
<1>0. /\ TypeInv /\ up' = up /\ clock' = clock /\ verdicts' = verdicts
      /\ Doing(c, "dropgrant") \/ Doing(c, "dropmetadata")
  BY DEF StatusInv, DropGrant, DropMetadata, statuses
<1>1. PICK g : g = call[c].pair
  OBVIOUS
<1>2. up = "up" /\ call[c].todo # <<>> /\ Head(call[c].todo).do \in Writing /\ Recent(doc)
  BY <1>0, Front DEF Writing
<1>3. g \in Pair
  BY <1>0, <1>1, <1>2, PairStepTyped
<1>4. PICK r : r = None
  OBVIOUS
<1>5. PICK e, f : e = [doc EXCEPT !.metadata[g] = r] /\ f = [doc EXCEPT !.grants[g] = r]
  OBVIOUS
<1>6. Rewrites(doc, e, {g[2]}) /\ Rewrites(doc, f, {g[2]})
  BY <1>2, <1>3, <1>4, <1>5, RelationWritten
<1>7. Saves(c, e) \/ Saves(c, f)
  BY <1>1, <1>4, <1>5 DEF DropGrant, DropMetadata
<1>. QED
  BY <1>0, <1>1, <1>2, <1>6, <1>7, SavesStep

\* A call goes on with steps of its own, having neither written nor read.
LEMMA QuietGoes ==
  ASSUME StatusInv, up = "up", up' = "up", NEW c \in Caller, call[c].todo # <<>>,
         Head(call[c].todo).do \notin Writing \cup Reading \cup {"observe", "upsert"}, Goes(c),
         doc' = doc, clock' = clock, verdicts' = verdicts, missed' = missed
  PROVE  StatusInv'
<1>0. TypeInv
  BY DEF StatusInv
<1>1. Head(call[c].todo).do # "upsert"
  OBVIOUS
<1>2. PICK n : /\ CallOn(n) /\ n.todo = Tail(call[c].todo) /\ n.pair = call[c].pair /\ n.op = call[c].op
               /\ call' = [call EXCEPT ![c] = Entered(n)] /\ PendingIn(n.todo) = {} /\ Pending(c) = {}
  BY <1>0, <1>1, GoesOn
<1>3. \A x \in Managed(doc) : ~Owes(call[c], x)
  BY DEF Owes
<1>4. n.op # None => doc.ops[n.op] # None
  BY <1>0, <1>2, CallTyped
<1>. QED
  BY <1>2, <1>3, <1>4, TalkStep

\* Neither history nor answers tell anything of the doors.
LEMMA TellHistoryStep ==
  ASSUME StatusInv, NEW c \in Caller, TellHistory(c) \/ GiveAnswer(c)
  PROVE  StatusInv'
<1>1. /\ Doing(c, "history") \/ Doing(c, "answer")
      /\ Goes(c) /\ up' = up /\ doc' = doc /\ clock' = clock /\ verdicts' = verdicts /\ missed' = missed
  BY DEF TellHistory, GiveAnswer, records, statuses
<1>. QED
  BY <1>1, QuietGoes DEF Doing, Writing, Reading

\* Steps that raise whatever the document tells.
LEMMA FailingStep ==
  ASSUME StatusInv, NEW c \in Caller, GiveUp(c) \/ ResumeFails(c) \/ NothingToDelete(c)
  PROVE  StatusInv'
<1>1. /\ Doing(c, "raise") \/ Doing(c, "resume") \/ Doing(c, "finish")
      /\ Raises(c) /\ up' = up /\ doc' = doc /\ clock' = clock /\ verdicts' = verdicts
  BY DEF GiveUp, ResumeFails, NothingToDelete, Finishes, records, statuses
<1>. QED
  BY <1>1, RaisesStep DEF Doing

\* A step that a recovery takes only if it found the relationship not synchronized.
LEMMA SeeingStep ==
  ASSUME TypeInv, NEW c \in Caller, call[c].todo # <<>>,
         Head(call[c].todo).do \in {"resume", "reevaluate", "reread"}
  PROVE  /\ CallOn(call[c]) /\ Recovering(call[c]) /\ call[c].was # "synchronized"
         /\ call[c].pair \in Pair /\ call[c].pair # None /\ Pending(c) = {}
<1>1. Head(call[c].todo) \in Steps(call[c]) /\ Pending(c) = {}
  BY PlainStep
<1>2. Recovering(call[c]) /\ call[c].was # "synchronized"
  BY <1>1 DEF Steps, OfPair, OfOperation, Saying, Completing
<1>3. CallOn(call[c])
  BY CallTyped
<1>4. call[c].pair \in Pair
  BY <1>2, <1>3 DEF CallOn, Formed
<1>. QED
  BY <1>1, <1>2, <1>3, <1>4, Assumptions

\* A recovery resumes.
LEMMA ResumesStep ==
  ASSUME StatusInv, NEW c \in Caller, Doing(c, "resume"), NEW steps, Resumes(c, steps),
         steps \in Scripts(Wild(call[c])), PendingIn(steps) = {}
  PROVE  StatusInv'
<1>0. /\ TypeInv /\ up = "up" /\ up' = up /\ doc' = doc /\ clock' = clock /\ verdicts' = verdicts
      /\ missed' = missed /\ call[c].todo # <<>> /\ Head(call[c].todo).do = "resume"
  BY DEF StatusInv, Resumes, records, statuses, Doing
<1>1. CallOn(call[c]) /\ Pending(c) = {}
  BY <1>0, SeeingStep
<1>2. steps \in Scripts(Wild(call[c]) \cup Evaluations)
  BY Milder
<1>3. PICK n : n = With(c, steps)
  OBVIOUS
<1>4. n = [call[c] EXCEPT !.todo = steps]
  BY <1>3 DEF With
<1>5. CallOn(n) /\ n.todo = steps /\ n.pair = call[c].pair /\ n.op = call[c].op
  BY <1>1, <1>2, <1>4, GoingOn
<1>6. call' = [call EXCEPT ![c] = Entered(n)]
  BY <1>3 DEF Resumes, Becomes
<1>7. \A x \in Managed(doc) : ~Owes(call[c], x)
  BY <1>0 DEF Owes, Writing, Reading
<1>8. n.op # None => doc.ops[n.op] # None
  BY <1>0, <1>5, CallTyped
<1>9. PendingIn(n.todo) = {}
  BY <1>5
<1>. QED
  BY <1>0, <1>1, <1>5, <1>6, <1>7, <1>8, <1>9, TalkStep

\* One script after another, of the same steps, which are no evaluations.
LEMMA Joined ==
  ASSUME NEW k, NEW s \in Scripts(Steps(k)), NEW t \in Scripts(Steps(k))
  PROVE  /\ s \o t \in Scripts(Steps(k)) /\ PendingIn(s \o t) = {}
         /\ s \o t \in Scripts(Wild(k)) /\ PendingIn(t) = {}
<1>1. Pure(Steps(k))
  BY DEF Pure, Steps, OfPair, OfOperation, Saying, Completing, Seeing
<1>2. PendingIn(s) = {} /\ PendingIn(t) = {}
  BY <1>1, PendingFirst
<1>3. s \o t \in Scripts(Steps(k)) /\ PendingIn(s \o t) = PendingIn(s)
  BY <1>2, ScriptThen
<1>. QED
  BY <1>2, <1>3, Milder

\* A recovery resumes an operation with steps of its own kind,
LEMMA ResumeOperationStep ==
  ASSUME StatusInv, NEW c \in Caller, NEW work \in Work, ResumeOperation(c, work)
  PROVE  StatusInv'
<1>0. TypeInv /\ Doing(c, "resume") /\ call[c].op # None /\ Resumes(c, work \o Look \o Answer("seen"))
  BY DEF StatusInv, ResumeOperation
<1>1. PICK k : k = call[c]
  OBVIOUS
<1>2. CallOn(k) /\ Recovering(k) /\ k.was # "synchronized" /\ k.pair # None
  BY <1>0, <1>1, SeeingStep DEF Doing
<1>3. work \in Scripts(Steps(k))
  BY <1>0, <1>1, Operating
<1>4. Look \in Scripts(Steps(k)) /\ Answer("seen") \in Scripts(Steps(k))
  BY <1>2, Looking, Answers DEF Replies
<1>5. work \o Look \in Scripts(Steps(k))
  BY <1>3, <1>4, Joined
<1>6. work \o Look \o Answer("seen") \in Scripts(Wild(k)) /\ PendingIn(work \o Look \o Answer("seen")) = {}
  BY <1>4, <1>5, Joined
<1>. QED
  BY <1>0, <1>1, <1>6, ResumesStep

\* The relationship is as it was found, with both records.
LEMMA FoundTyped ==
  ASSUME TypeInv, NEW c \in Caller, NEW status, StillAsFound(c, status)
  PROVE  call[c].found.cred \in Credential \cup {None} /\ Doing(c, "resume")
<1>1. Doing(c, "resume") /\ doc \in Documents
  BY DEF StillAsFound, TypeInv, Kept
<1>2. call[c].pair \in Pair
  BY <1>1, SeeingStep DEF Doing
<1>3. doc.metadata[call[c].pair] \in Metadata
  BY <1>1, <1>2, DocumentParts DEF StillAsFound, Recorded
<1>. QED
  BY <1>1, <1>3 DEF StillAsFound, Metadata

\* a verification with an update,
LEMMA ResumeVerificationStep ==
  ASSUME StatusInv, NEW c \in Caller, NEW outcome \in {"verified", "failed", "pending"},
         ResumeVerification(c, outcome)
  PROVE  StatusInv'
<1>0. TypeInv /\ StillAsFound(c, "unknown")
  BY DEF StatusInv, ResumeVerification
<1>1. PICK k, cred : k = call[c] /\ cred = call[c].found.cred
  OBVIOUS
<1>2. cred \in Credential \cup {None} /\ Doing(c, "resume")
  BY <1>0, <1>1, FoundTyped
<1>3. CallOn(k) /\ Recovering(k) /\ k.was # "synchronized" /\ k.pair # None
  BY <1>0, <1>1, <1>2, SeeingStep DEF Doing
<1>4. <<Do("reread")>> \in Scripts(Steps(k)) /\ Answer("seen") \in Scripts(Steps(k))
  BY <1>3, Answers DEF Replies
<1>5. PICK first :
        first = CASE outcome = "verified" -> Update("synchronized", cred, "other")
                  [] outcome = "failed" -> Update("manual_attention_required", cred, "failed")
                  [] outcome = "pending" -> Tells("pending")
  OBVIOUS
<1>6. first \in Scripts(Steps(k))
  <2>1. CASE outcome = "verified"
    BY <1>2, <1>3, <1>5, <2>1, Updates, Ranks
  <2>2. CASE outcome = "failed"
    BY <1>2, <1>3, <1>5, <2>2, Updates, Ranks
  <2>3. CASE outcome = "pending"
    BY <1>2, <1>3, <1>5, <2>3, Updates, Ranks
  <2>. QED
    BY <2>1, <2>2, <2>3
<1>7. first \o <<Do("reread")>> \in Scripts(Steps(k))
  BY <1>4, <1>6, Joined
<1>8. PICK steps : steps = first \o <<Do("reread")>> \o Answer("seen")
  OBVIOUS
<1>9. steps \in Scripts(Wild(k)) /\ PendingIn(steps) = {}
  BY <1>4, <1>7, <1>8, Joined
<1>10. Resumes(c, steps)
  BY <1>1, <1>5, <1>8 DEF ResumeVerification
<1>. QED
  BY <1>1, <1>2, <1>9, <1>10, ResumesStep

\* and a removal with the rest of it.
LEMMA ResumeRemovalStep ==
  ASSUME StatusInv, NEW c \in Caller, NEW outcome \in RemovalOutcome \cup {"stolen"},
         ResumeRemoval(c, outcome)
  PROVE  StatusInv'
<1>0. TypeInv /\ StillAsFound(c, "retry_required")
  BY DEF StatusInv, ResumeRemoval
<1>1. PICK k, cred : k = call[c] /\ cred = call[c].found.cred
  OBVIOUS
<1>2. cred \in Credential \cup {None} /\ Doing(c, "resume")
  BY <1>0, <1>1, FoundTyped
<1>3. CallOn(k) /\ Recovering(k) /\ k.was # "synchronized" /\ k.pair # None
  BY <1>0, <1>1, <1>2, SeeingStep DEF Doing
<1>4. PICK steps :
        steps = IF outcome = "stolen"
                THEN Update("manual_attention_required", cred, "other") \o <<Do("raise")>>
                ELSE RemovalSteps(cred, outcome, Look \o Answer("seen"))
  OBVIOUS
<1>5. steps \in Scripts(Wild(k)) /\ PendingIn(steps) = {}
  <2>1. CASE outcome = "stolen"
    <3>1. Update("manual_attention_required", cred, "other") \in Scripts(Steps(k))
      BY <1>2, <1>3, Updates, Ranks
    <3>2. <<Do("raise")>> \in Scripts(Steps(k))
      BY <1>3, PairStep
    <3>. QED
      BY <1>4, <2>1, <3>1, <3>2, Joined
  <2>2. CASE outcome # "stolen"
    <3>1. PICK after : after = Look \o Answer("seen")
      OBVIOUS
    <3>2. after \in Scripts(Steps(k)) /\ PendingIn(after) = {}
      BY <1>3, <3>1, Looking DEF Replies
    <3>3. outcome \in RemovalOutcome
      BY <2>2
    <3>. QED
      BY <1>2, <1>3, <1>4, <2>2, <3>1, <3>2, <3>3, Removals
  <2>. QED
    BY <2>1, <2>2
<1>6. Resumes(c, steps)
  BY <1>1, <1>4 DEF ResumeRemoval
<1>. QED
  BY <1>1, <1>2, <1>5, <1>6, ResumesStep

(***************************************************************************)
(* Readings.                                                               *)
(***************************************************************************)

\* What is read of doors.
LEMMA UpsertsAre ==
  ASSUME NEW xs \in SUBSET Door
  PROVE  /\ \A status : status = [y \in xs |-> Evaluate(doc, y)] =>
              Upserts(xs, LAMBDA y : Evaluate(doc, y), FALSE) = UpsertsOf(xs, status, clock + 1, FALSE)
         /\ \A what, status : status = [y \in xs |-> Pronounced(what, y)] =>
              Upserts(xs, LAMBDA y : Pronounced(what, y), TRUE) = UpsertsOf(xs, status, clock + 1, TRUE)
<1>1. \A i \in DOMAIN InOrder[xs] : InOrder[xs][i] \in xs
  BY Assumptions
<1>. QED
  BY <1>1 DEF Upserts, UpsertsOf

\* A step reads doors, and the call goes on when their statuses are stored.
LEMMA ReadsStep ==
  ASSUME StatusInv, up = "up", up' = "up", NEW c \in Caller, call[c].todo # <<>>,
         Head(call[c].todo).do # "upsert", clock' = clock + 1, verdicts' = verdicts, missed' = missed, doc' = doc,
         NEW xs \in SUBSET Door, NEW status \in [xs -> Status], NEW pronounced \in BOOLEAN,
         Becomes(c, With(c, UpsertsOf(xs, status, clock + 1, pronounced) \o Tail(call[c].todo))),
         \A x \in xs : pronounced \/ status[x] = Evaluate(doc, x),
         \A x \in Managed(doc) : Owes(call[c], x) => x \in xs
  PROVE  StatusInv'
<1>0. TypeInv /\ clock + 1 \in Nat
  BY DEF StatusInv, TypeInv
<1>1. PICK first : first = UpsertsOf(xs, status, clock + 1, pronounced)
  OBVIOUS
<1>2. /\ CallOn(call[c]) /\ Tail(call[c].todo) \in Scripts(Wild(call[c]) \cup Evaluations)
      /\ call[c].op # None => doc.ops[call[c].op] # None
  BY <1>0, CallTyped
<1>3. PendingIn(Tail(call[c].todo)) = {} /\ Pending(c) = {}
  <2>1. PendingIn(Tail(call[c].todo)) = {}
    BY <1>2, PendingTail DEF CallOn
  <2>. QED
    BY <1>0, <2>1, PendingTyped
<1>4. first \in Scripts(Evaluations) /\ PendingIn(first) = ReadingsOf(xs, status, clock + 1, pronounced)
  <2>1. PICK now \in Nat : now = clock + 1
    BY <1>0
  <2>2. first = UpsertsOf(xs, status, now, pronounced)
    BY <1>1, <2>1
  <2>3. first \in Scripts(Evaluations) /\ PendingIn(first) = ReadingsOf(xs, status, now, pronounced)
    BY <2>2, UpsertScripts
  <2>. QED
    BY <2>1, <2>3
<1>5. first \in Scripts(Wild(call[c]) \cup Evaluations)
  BY <1>4, Milder
<1>6. PICK steps : steps = first \o Tail(call[c].todo)
  OBVIOUS
<1>7. steps \in Scripts(Wild(call[c]) \cup Evaluations) /\ PendingIn(steps) = PendingIn(first)
  BY <1>2, <1>3, <1>5, <1>6, ScriptThen
<1>8. PICK n : n = With(c, steps)
  OBVIOUS
<1>9. n = [call[c] EXCEPT !.todo = steps]
  BY <1>8 DEF With
<1>10. CallOn(n) /\ n.todo = steps /\ n.op = call[c].op
  BY <1>2, <1>7, <1>9, GoingOn
<1>11. call' = [call EXCEPT ![c] = Entered(n)]
  BY <1>1, <1>6, <1>8 DEF Becomes
<1>12. n.op # None => doc.ops[n.op] # None
  BY <1>2, <1>10
<1>13. PendingIn(n.todo) = ReadingsOf(xs, status, clock + 1, pronounced)
  BY <1>4, <1>7, <1>10
<1>14. CallOn(n) /\ Pending(c) = {}
  BY <1>3, <1>10
<1>. QED
  BY <1>11, <1>12, <1>13, <1>14, ReadStep, Zenon

\* The repair changes what is told of doors that somebody is about to read.
LEMMA RepairOrphansStep ==
  ASSUME StatusInv, OrphansOwed, NEW c \in Caller, RepairOrphans(c)
  PROVE  StatusInv'
<1>0. /\ TypeInv /\ TimesDiffer /\ up = "up" /\ up' = up /\ call' = call /\ clock' = clock
      /\ verdicts' = verdicts /\ missed' = missed /\ doc' = Repaired(doc) /\ Loaded(doc)
  BY DEF StatusInv, TypeInv, Kept, RepairOrphans, Doing, statuses
<1>1. PICK e : e = Repaired(doc)
  OBVIOUS
<1>2. /\ Loaded(e) /\ Managed(e) = Managed(doc) /\ e \in Documents
      /\ e.statuses = doc.statuses /\ e.ops = doc.ops /\ e.grants = doc.grants /\ e.people = doc.people
      /\ e.authority = doc.authority
  BY <1>0, <1>1, RepairedParts, RepairedLoaded DEF Loaded, Recent, Dated
<1>3. \A g \in Pair \ Orphans(doc) : e.metadata[g] = doc.metadata[g]
  BY <1>0, <1>1 DEF Repaired, Documents, Loaded, Recent, Dated
<1>4. Kept'
  BY <1>0, <1>1, <1>2 DEF TypeInv, Kept
<1>5. \A o \in Caller : Pending(o)' = Pending(o)
  BY <1>0 DEF Pending
<1>6. Called'
  BY <1>0, <1>1, <1>2, <1>5 DEF TypeInv, Called
<1>7. TypeInv'
  BY <1>0, <1>4, <1>6 DEF TypeInv
<1>8. TimesDiffer'
  BY <1>0, <1>1, <1>2, <1>5 DEF TimesDiffer
<1>9. \A x \in Managed(doc) : Settled(x)'
  <2>. TAKE x \in Managed(doc)
  <2>0. x \in Door /\ Settled(x)
    BY <1>0 DEF Managed, Enrolled, StatusInv
  <2>1. CASE \E o \in Caller : Owes(call[o], x)
    BY <1>0, <1>1, <1>2, <2>1 DEF Owes, Settled
  <2>2. CASE \A o \in Caller : ~Owes(call[o], x)
    <3>1. \A g \in Orphans(doc) : g[2] # x
      BY <1>0, <2>2 DEF OrphansOwed, Nursing, Owes, Writing
    <3>2. OperationsAt(doc, x) = OperationsAt(e, x)
      BY <1>2 DEF OperationsAt
    <3>3. SameAt(doc, e, x)
      BY <1>2, <1>3, <3>1, <3>2 DEF SameAt
    <3>4. Evaluate(doc', x) = Evaluate(doc, x)
      BY <1>0, <1>1, <2>0, <3>3, SameStatus
    <3>5. Coming(x)' = Coming(x)
      BY <1>5 DEF Coming
    <3>6. LeftOut(x) \/ StoredLast(x) \/ \E s \in Coming(x) : ComesLast(x, s)
      BY <2>0, <2>2 DEF Settled
    <3>7. LeftOut(x) => LeftOut(x)'
      BY <1>0, <1>1, <1>2, <3>5 DEF LeftOut
    <3>8. StoredLast(x) => StoredLast(x)'
      BY <1>0, <1>1, <1>2, <3>4, <3>5 DEF StoredLast
    <3>9. \A s \in Coming(x) : ComesLast(x, s) => ComesLast(x, s)'
      BY <1>0, <1>1, <1>2, <3>4, <3>5 DEF ComesLast
    <3>. QED
      BY <3>5, <3>6, <3>7, <3>8, <3>9 DEF Settled
  <2>. QED
    BY <2>1, <2>2
<1>. QED
  BY <1>0, <1>1, <1>2, <1>7, <1>8, <1>9 DEF StatusInv

\* A door is read.
LEMMA EvaluateDoorStep ==
  ASSUME StatusInv, NEW c \in Caller, EvaluateDoor(c)
  PROVE  StatusInv'
<1>0. TypeInv /\ Doing(c, "evaluate")
  BY DEF StatusInv, EvaluateDoor, AfterRepair
<1>1. up = "up" /\ call[c].todo # <<>> /\ Head(call[c].todo).do = "evaluate" /\ Recent(doc)
  BY <1>0, Front
<1>2. PICK x : x = call[c].pair[2]
  OBVIOUS
<1>3. x \in Door
  BY <1>0, <1>1, <1>2, PairStepTyped DEF Reading
<1>4. CASE x \notin Managed(doc)
  <2>1. Raises(c) /\ up' = up /\ doc' = doc /\ clock' = clock /\ verdicts' = verdicts
    BY <1>2, <1>4 DEF EvaluateDoor, records, statuses
  <2>. QED
    BY <1>1, <2>1, RaisesStep
<1>5. CASE x \in Managed(doc)
  <2>1. PICK xs : xs = {x}
    OBVIOUS
  <2>2. Reads(c, xs, LAMBDA y : Evaluate(doc, y), FALSE)
    BY <1>2, <1>5, <2>1 DEF EvaluateDoor
  <2>3. PICK status : status = [y \in xs |-> Evaluate(doc, y)]
    OBVIOUS
  <2>4. xs \in SUBSET Door
    BY <1>3, <2>1
  <2>5. status \in [xs -> Status] /\ \A y \in xs : status[y] = Evaluate(doc, y)
    BY <1>1, <1>3, <2>1, <2>3, EvaluateTyped
  <2>6. /\ clock' = clock + 1 /\ verdicts' = verdicts /\ missed' = missed /\ doc' = doc /\ up' = up
        /\ Becomes(c, With(c, Upserts(xs, LAMBDA y : Evaluate(doc, y), FALSE) \o Tail(call[c].todo)))
    BY <2>2 DEF Reads, records
  <2>7. Upserts(xs, LAMBDA y : Evaluate(doc, y), FALSE) = UpsertsOf(xs, status, clock + 1, FALSE)
    BY <2>3, <2>4, UpsertsAre
  <2>8. Becomes(c, With(c, UpsertsOf(xs, status, clock + 1, FALSE) \o Tail(call[c].todo)))
    BY <2>6, <2>7
  <2>9. \A y \in Managed(doc) : Owes(call[c], y) => y \in xs
    BY <1>1, <1>2, <2>1 DEF Owes
  <2>. QED
    BY <1>1, <2>4, <2>5, <2>6, <2>8, <2>9, ReadsStep
<1>. QED
  BY <1>4, <1>5

\* A status is pronounced from a reading of the same instant.
LEMMA PronounceDoorStep ==
  ASSUME StatusInv, NEW c \in Caller, PronounceDoor(c)
  PROVE  StatusInv'
<1>0. TypeInv
  BY DEF StatusInv
<1>1. PICK x : x = call[c].pair[2]
  OBVIOUS
<1>2. PICK what \in {"pronounce", "alarm"} :
        /\ Doing(c, what)
        /\ IF x \in Managed(doc) THEN Reads(c, {x}, LAMBDA y : Pronounced(what, y), TRUE)
           ELSE Raises(c) /\ UNCHANGED <<records, statuses, told>>
  BY <1>1 DEF PronounceDoor, AfterRepair
<1>3. up = "up" /\ call[c].todo # <<>> /\ Head(call[c].todo).do = what
  BY <1>0, <1>2, Front
<1>4. x \in Door
  BY <1>0, <1>1, <1>2, <1>3, PairStepTyped DEF Reading
<1>5. CASE x \notin Managed(doc)
  <2>1. Raises(c) /\ up' = up /\ doc' = doc /\ clock' = clock /\ verdicts' = verdicts
    BY <1>2, <1>5 DEF records, statuses
  <2>2. Head(call[c].todo).do # "upsert"
    BY <1>3
  <2>. QED
    BY <1>3, <2>1, <2>2, RaisesStep
<1>6. CASE x \in Managed(doc)
  <2>1. PICK xs : xs = {x}
    OBVIOUS
  <2>2. Reads(c, xs, LAMBDA y : Pronounced(what, y), TRUE)
    BY <1>2, <1>6, <2>1
  <2>3. PICK status : status = [y \in xs |-> Pronounced(what, y)]
    OBVIOUS
  <2>4. xs \in SUBSET Door
    BY <1>4, <2>1
  <2>5. status \in [xs -> Status]
    <3>1. \A y \in xs : Pronounced(what, y) \in Status
      BY Ranks DEF Pronounced
    <3>. QED
      BY <2>3, <3>1
  <2>6. /\ clock' = clock + 1 /\ verdicts' = verdicts /\ missed' = missed /\ doc' = doc /\ up' = up
        /\ Becomes(c, With(c, Upserts(xs, LAMBDA y : Pronounced(what, y), TRUE) \o Tail(call[c].todo)))
    BY <2>2 DEF Reads, records
  <2>7. Upserts(xs, LAMBDA y : Pronounced(what, y), TRUE) = UpsertsOf(xs, status, clock + 1, TRUE)
    BY <2>3, <2>4, UpsertsAre
  <2>8. Becomes(c, With(c, UpsertsOf(xs, status, clock + 1, TRUE) \o Tail(call[c].todo)))
    BY <2>6, <2>7
  <2>9. \A y \in Managed(doc) : Owes(call[c], y) => y \in xs
    BY <1>1, <1>3, <2>1 DEF Owes
  <2>10. Head(call[c].todo).do # "upsert"
    BY <1>3
  <2>. QED
    BY <1>3, <2>4, <2>5, <2>6, <2>8, <2>9, <2>10, ReadsStep
<1>. QED
  BY <1>5, <1>6

\* The doors of an operation are read, all at the same instant.
LEMMA ObserveStep ==
  ASSUME StatusInv, NEW c \in Caller, Observe(c)
  PROVE  StatusInv'
<1>0. TypeInv /\ Doing(c, "observe")
  BY DEF StatusInv, Observe
<1>1. up = "up" /\ call[c].todo # <<>> /\ Head(call[c].todo).do = "observe" /\ Recent(doc)
  BY <1>0, Front
<1>2. PICK xs : xs = doc.ops[call[c].op].targets \cap Managed(doc)
  OBVIOUS
<1>3. Reads(c, xs, LAMBDA y : Evaluate(doc, y), FALSE)
  BY <1>2 DEF Observe
<1>4. PICK status : status = [y \in xs |-> Evaluate(doc, y)]
  OBVIOUS
<1>5. xs \in SUBSET Door
  BY <1>2 DEF Managed, Enrolled
<1>6. status \in [xs -> Status] /\ \A y \in xs : status[y] = Evaluate(doc, y)
  BY <1>1, <1>4, <1>5, EvaluateTyped
<1>7. /\ clock' = clock + 1 /\ verdicts' = verdicts /\ missed' = missed /\ doc' = doc /\ up' = up
      /\ Becomes(c, With(c, Upserts(xs, LAMBDA y : Evaluate(doc, y), FALSE) \o Tail(call[c].todo)))
  BY <1>3 DEF Reads, records
<1>8. Upserts(xs, LAMBDA y : Evaluate(doc, y), FALSE) = UpsertsOf(xs, status, clock + 1, FALSE)
  BY <1>4, <1>5, UpsertsAre
<1>9. Becomes(c, With(c, UpsertsOf(xs, status, clock + 1, FALSE) \o Tail(call[c].todo)))
  BY <1>7, <1>8
<1>10. \A y \in Managed(doc) : Owes(call[c], y) => y \in xs
  BY <1>1, <1>2 DEF Owes, Writing, Reading
<1>. QED
  BY <1>1, <1>5, <1>6, <1>7, <1>9, <1>10, ReadsStep

\* What a recovery sees when it looks again, and what it does if the rest raises.
LEMMA Refreshed ==
  ASSUME NEW k, CallOn(k), Recovering(k), k.was # "synchronized", NEW n,
         DOMAIN n = DOMAIN k, n.pair = k.pair, n.op = k.op, n.was = k.was,
         n.todo \in Scripts(Wild(k) \cup Evaluations), n.undo \in Scripts(Wild(k)),
         n.seen = "synchronized" => n.fact \in {"works", "gone"}
  PROVE  CallOn(n)
<1>1. Formed(k)
  BY DEF CallOn
<1>2. Steps(n) = Steps(k) /\ Mild(n) = Mild(k) /\ Wild(n) = Wild(k)
  BY Kin
<1>3. Faithful(n)
  BY DEF Faithful
<1>4. Formed(n)
  BY <1>1, <1>3 DEF Formed, Recovering
<1>. QED
  BY <1>2, <1>4 DEF CallOn

\* Rereading the relationship changes nothing but what the recovery has seen.
LEMMA RereadStep ==
  ASSUME StatusInv, NEW c \in Caller, Reread(c)
  PROVE  StatusInv'
<1>0. /\ TypeInv /\ Doing(c, "reread") /\ up' = up /\ doc' = doc /\ clock' = clock /\ verdicts' = verdicts
      /\ missed' = missed
  BY DEF StatusInv, Reread, records, statuses
<1>1. up = "up" /\ call[c].todo # <<>> /\ Head(call[c].todo).do = "reread" /\ Recent(doc)
  BY <1>0, Front
<1>2. PICK k : k = call[c]
  OBVIOUS
<1>3. /\ CallOn(k) /\ Recovering(k) /\ k.was # "synchronized" /\ k.pair \in Pair /\ Pending(c) = {}
      /\ Formed(k)
  BY <1>0, <1>1, <1>2, SeeingStep DEF CallOn
<1>4. PICK there : there = (k.pair[2] \in Managed(doc) /\ Exists(doc, "grants", k.pair))
  OBVIOUS
<1>5. PICK fact, seen : fact = Fact(doc, k.pair) /\ seen = IF there THEN Relation(doc, k.pair) ELSE k.was
  OBVIOUS
<1>6. PICK m : m = [k EXCEPT !.todo = Tail(k.todo)]
  OBVIOUS
<1>7. PICK n : n = [m EXCEPT !.failed = FALSE, !.fact = fact, !.seen = seen]
  OBVIOUS
<1>8. call' = [call EXCEPT ![c] = Entered(n)]
  BY <1>2, <1>4, <1>5, <1>6, <1>7 DEF Reread, Becomes, With
<1>9. seen = "synchronized" => fact = "works"
  BY <1>1, <1>3, <1>4, <1>5, RelationTrue
<1>10. /\ DOMAIN m = DOMAIN k /\ m.pair = k.pair /\ m.op = k.op /\ m.was = k.was /\ m.undo = k.undo
       /\ m.todo = Tail(k.todo)
  BY <1>3, <1>6 DEF Formed, CallFields, RecoveryFields
<1>11. /\ DOMAIN n = DOMAIN k /\ n.pair = k.pair /\ n.op = k.op /\ n.was = k.was /\ n.undo = k.undo
       /\ n.todo = Tail(k.todo) /\ n.seen = seen /\ n.fact = fact
  BY <1>3, <1>7, <1>10 DEF Formed, CallFields, RecoveryFields
<1>12. Tail(k.todo) \in Scripts(Wild(k) \cup Evaluations) /\ k.undo \in Scripts(Wild(k))
  BY <1>0, <1>1, <1>2, <1>3, CallTyped DEF CallOn
<1>13. CallOn(n)
  BY <1>3, <1>9, <1>11, <1>12, Refreshed
<1>14. PendingIn(n.todo) = {}
  BY <1>1, <1>2, <1>3, <1>11, PendingTail DEF CallOn
<1>15. \A x \in Managed(doc) : ~Owes(call[c], x)
  BY <1>1 DEF Owes, Writing, Reading
<1>16. n.op # None => doc.ops[n.op] # None
  BY <1>0, <1>1, <1>2, <1>11, CallTyped
<1>. QED
  BY <1>0, <1>1, <1>3, <1>8, <1>13, <1>14, <1>15, <1>16, TalkStep

\* Steps of which none is an evaluation to store.
LEMMA NoneToStore ==
  ASSUME NEW S, NEW t \in Scripts(S \cup Evaluations), PendingIn(t) = {}
  PROVE  t \in Scripts(S)
<1>1. t \in Seq(S \cup Evaluations) /\ Linked(t) /\ Len(t) \in Nat
  BY DEF Scripts
<1>2. \A i \in 1..Len(t) : t[i] \in S
  <2>1. \A i \in 1..Len(t) : t[i].do # "upsert"
    BY DEF PendingIn
  <2>2. \A s \in Evaluations : s.do = "upsert"
    BY DEF Evaluations
  <2>. QED
    BY <1>1, <2>1, <2>2
<1>3. t \in Seq(S)
  BY <1>1, <1>2
<1>. QED
  BY <1>1, <1>3 DEF Scripts

\* A recovery reads its door.
LEMMA ReevaluateStep ==
  ASSUME StatusInv, NEW c \in Caller, Reevaluate(c)
  PROVE  StatusInv'
<1>0. /\ TypeInv /\ Doing(c, "reevaluate") /\ up' = up /\ doc' = doc /\ verdicts' = verdicts
      /\ missed' = missed
  BY DEF StatusInv, Reevaluate, AfterRepair, records
<1>1. up = "up" /\ call[c].todo # <<>> /\ Head(call[c].todo).do = "reevaluate" /\ Recent(doc)
  BY <1>0, Front
<1>2. PICK k : k = call[c]
  OBVIOUS
<1>3. /\ CallOn(k) /\ Recovering(k) /\ k.was # "synchronized" /\ k.pair \in Pair /\ Pending(c) = {}
      /\ Formed(k)
  BY <1>0, <1>1, <1>2, SeeingStep DEF CallOn
<1>4. PICK x : x = k.pair[2]
  OBVIOUS
<1>5. x \in Door
  BY <1>3, <1>4 DEF Pair
<1>6. PICK rest : rest = Tail(k.todo)
  OBVIOUS
<1>7. /\ rest \in Scripts(Wild(k) \cup Evaluations) /\ PendingIn(rest) = {} /\ rest \in Scripts(Wild(k))
  <2>1. rest \in Scripts(Wild(k) \cup Evaluations)
    BY <1>0, <1>1, <1>2, <1>6, CallTyped
  <2>2. PendingIn(rest) = {}
    BY <1>1, <1>2, <1>3, <1>6, PendingTail DEF CallOn
  <2>. QED
    BY <2>1, <2>2, NoneToStore
<1>8. PICK fact : fact = Fact(doc, k.pair)
  OBVIOUS
<1>9. \A y \in Managed(doc) : ~Owes(call[c], y)
  BY <1>1 DEF Owes, Writing, Reading
<1>10. k.op # None => doc.ops[k.op] # None
  BY <1>0, <1>1, <1>2, CallTyped
<1>11. CASE x \notin Managed(doc)
  <2>1. PICK m : m = [k EXCEPT !.undo = rest, !.failed = TRUE, !.fact = fact, !.seen = k.was]
    OBVIOUS
  <2>2. PICK n : n = [m EXCEPT !.todo = rest]
    OBVIOUS
  <2>3. clock' = clock /\ call' = [call EXCEPT ![c] = Entered(n)]
    BY <1>2, <1>4, <1>6, <1>8, <1>11, <2>1, <2>2 DEF Reevaluate, Becomes
  <2>4. /\ DOMAIN m = DOMAIN k /\ m.pair = k.pair /\ m.op = k.op /\ m.was = k.was /\ m.undo = rest
        /\ m.seen = k.was /\ m.fact = fact
    BY <1>3, <2>1 DEF Formed, CallFields, RecoveryFields
  <2>5. /\ DOMAIN n = DOMAIN k /\ n.pair = k.pair /\ n.op = k.op /\ n.was = k.was /\ n.undo = rest
        /\ n.todo = rest /\ n.seen = k.was /\ n.fact = fact
    BY <1>3, <2>2, <2>4 DEF Formed, CallFields, RecoveryFields
  <2>6. CallOn(n)
    BY <1>3, <1>7, <2>5, Refreshed
  <2>7. PendingIn(n.todo) = {} /\ (n.op # None => doc.ops[n.op] # None)
    BY <1>7, <1>10, <2>5
  <2>. QED
    BY <1>0, <1>1, <1>3, <1>9, <2>3, <2>6, <2>7, TalkStep
<1>12. CASE x \in Managed(doc)
  <2>1. PICK xs : xs = {x}
    OBVIOUS
  <2>2. PICK status : status = [y \in xs |-> Evaluate(doc, y)]
    OBVIOUS
  <2>3. xs \in SUBSET Door /\ status \in [xs -> Status] /\ \A y \in xs : status[y] = Evaluate(doc, y)
    BY <1>1, <1>5, <2>1, <2>2, EvaluateTyped
  <2>4. PICK first : first = Upserts(xs, LAMBDA y : Evaluate(doc, y), FALSE)
    OBVIOUS
  <2>5. PICK now \in Nat : now = clock + 1
    BY <1>0 DEF TypeInv
  <2>6. first = UpsertsOf(xs, status, now, FALSE)
    BY <2>2, <2>3, <2>4, <2>5, UpsertsAre
  <2>7. first \in Scripts(Evaluations) /\ PendingIn(first) = ReadingsOf(xs, status, now, FALSE)
    BY <2>3, <2>6, UpsertScripts
  <2>8. PICK todo : todo = first \o rest
    OBVIOUS
  <2>9. todo \in Scripts(Wild(k) \cup Evaluations) /\ PendingIn(todo) = ReadingsOf(xs, status, now, FALSE)
    <3>1. first \in Scripts(Wild(k) \cup Evaluations)
      BY <2>7, Milder
    <3>. QED
      BY <1>7, <2>7, <2>8, <3>1, ScriptThen
  <2>10. PICK seen : seen = Evaluate(doc, x)
    OBVIOUS
  <2>11. PICK m : m = [k EXCEPT !.undo = rest, !.failed = FALSE, !.fact = fact, !.seen = seen]
    OBVIOUS
  <2>12. PICK n : n = [m EXCEPT !.todo = todo]
    OBVIOUS
  <2>13. clock' = clock + 1 /\ call' = [call EXCEPT ![c] = Entered(n)]
    BY <1>2, <1>4, <1>6, <1>8, <1>12, <2>1, <2>4, <2>8, <2>10, <2>11, <2>12 DEF Reevaluate, Becomes
  <2>14. /\ DOMAIN m = DOMAIN k /\ m.pair = k.pair /\ m.op = k.op /\ m.was = k.was /\ m.undo = rest
         /\ m.seen = seen /\ m.fact = fact
    BY <1>3, <2>11 DEF Formed, CallFields, RecoveryFields
  <2>15. /\ DOMAIN n = DOMAIN k /\ n.pair = k.pair /\ n.op = k.op /\ n.was = k.was /\ n.undo = rest
         /\ n.todo = todo /\ n.seen = seen /\ n.fact = fact
    BY <1>3, <2>12, <2>14 DEF Formed, CallFields, RecoveryFields
  <2>16. seen = "synchronized" => fact \in {"works", "gone"}
    BY <1>1, <1>3, <1>4, <1>8, <2>10, EvaluateTrue
  <2>17. CallOn(n)
    BY <1>3, <1>7, <2>9, <2>15, <2>16, Refreshed
  <2>18. n.op # None => doc.ops[n.op] # None
    BY <1>10, <2>15
  <2>19. PendingIn(n.todo) = ReadingsOf(xs, status, clock + 1, FALSE)
    BY <2>5, <2>9, <2>15
  <2>20. up' = "up" /\ \A y \in Managed(doc) : Owes(call[c], y) => y \in xs
    BY <1>0, <1>1, <1>9
  <2>21. \A y \in xs : FALSE \/ status[y] = Evaluate(doc, y)
    BY <2>3
  <2>. QED
    BY <1>0, <1>1, <1>3, <2>3, <2>13, <2>17, <2>18, <2>19, <2>20, <2>21, ReadStep
<1>. QED
  BY <1>11, <1>12

(***************************************************************************)
(* Operations that are written.                                            *)
(***************************************************************************)

\* A step of an operation.
LEMMA OperationStepTyped ==
  ASSUME TypeInv, NEW c \in Caller, NEW what \in {"operate", "finish", "observe"}, Doing(c, what),
         NEW step, step = Step(c)
  PROVE  /\ call[c].op \in Op /\ call[c].op # None /\ doc.ops[call[c].op] # None
         /\ doc.ops[call[c].op] \in LifecycleOperation
         /\ step.do = what
         /\ what = "operate" => step.status \in OperationStatus \ {"completed"}
<1>1. call[c].todo # <<>> /\ Head(call[c].todo).do = what /\ step = Head(call[c].todo) /\ doc \in Documents
  BY Front
<1>2. step \in Steps(call[c])
  BY <1>1, PlainStep
<1>3. call[c].op # None /\ step \in OfOperation
  BY <1>1, <1>2 DEF Steps, OfPair, Saying, Completing, Seeing
<1>4. call[c].op \in Op /\ doc.ops[call[c].op] # None
  BY <1>1, <1>3, CallTyped
<1>5. doc.ops[call[c].op] \in LifecycleOperation
  BY <1>1, <1>4, DocumentParts DEF Started
<1>. QED
  BY <1>1, <1>3, <1>4, <1>5 DEF OfOperation

\* A call observes, and then takes its other steps.
LEMMA Observing ==
  ASSUME TypeInv, NEW c \in Caller, NEW what \in {"operate", "finish"}, Doing(c, what),
         NEW between \in Scripts(Steps(call[c])),
         NEW n, DOMAIN n = DOMAIN call[c], n.pair = call[c].pair, n.op = call[c].op,
         n.undo = call[c].undo, n.todo = <<Do("observe")>> \o between \o Tail(call[c].todo),
         Recovering(call[c]) => n.was = call[c].was /\ n.seen = call[c].seen /\ n.fact = call[c].fact
  PROVE  /\ CallOn(n) /\ PendingIn(n.todo) = {} /\ Entered(n) = n
         /\ n.todo # <<>> /\ Head(n.todo).do = "observe" /\ Pending(c) = {}
<1>1. /\ call[c].todo # <<>> /\ Head(call[c].todo).do = what
  BY Front
<1>2. PICK k : k = call[c]
  OBVIOUS
<1>3. /\ CallOn(k) /\ Formed(k) /\ k.undo \in Scripts(Wild(k)) /\ k.op # None
      /\ Tail(k.todo) \in Scripts(Wild(k) \cup Evaluations)
  <2>1. CallOn(k) /\ Tail(k.todo) \in Scripts(Wild(k) \cup Evaluations)
    BY <1>1, <1>2, CallTyped
  <2>2. k.op # None
    <3>1. PICK step : step = Step(c)
      OBVIOUS
    <3>. QED
      BY <1>2, <3>1, OperationStepTyped
  <2>. QED
    BY <2>1, <2>2 DEF CallOn
<1>4. PendingIn(Tail(k.todo)) = {} /\ Pending(c) = {}
  <2>1. PendingIn(Tail(k.todo)) = {}
    BY <1>1, <1>2, <1>3, PendingTail DEF CallOn
  <2>. QED
    BY <1>1, <2>1, PendingTyped
<1>5. <<Do("observe")>> \in Scripts(Steps(k)) /\ PendingIn(<<Do("observe")>>) = {}
  <2>1. PICK work : work \in Work
    BY DEF Work
  <2>. QED
    BY <1>3, <2>1, Operating
<1>6. PICK first : first = <<Do("observe")>> \o between
  OBVIOUS
<1>7. /\ first \in Scripts(Wild(k) \cup Evaluations) /\ PendingIn(first) = {}
      /\ first # <<>> /\ Head(first).do = "observe"
  <2>1. first \in Scripts(Wild(k)) /\ PendingIn(first) = {} /\ PendingIn(between) = {}
    BY <1>2, <1>5, <1>6, Joined
  <2>2. first # <<>> /\ Head(first) = Head(<<Do("observe")>>)
    BY <1>2, <1>5, <1>6, <2>1, ScriptThen
  <2>. QED
    BY <2>1, <2>2, Milder DEF Do
<1>8. n.todo = first \o Tail(k.todo)
  BY <1>2, <1>6
<1>9. /\ n.todo \in Scripts(Wild(k) \cup Evaluations) /\ PendingIn(n.todo) = {}
      /\ n.todo # <<>> /\ Head(n.todo).do = "observe"
  <2>1. PICK rest : rest = Tail(k.todo)
    OBVIOUS
  <2>2. PICK S : S = Wild(k) \cup Evaluations
    OBVIOUS
  <2>3. first \in Scripts(S) /\ rest \in Scripts(S) /\ PendingIn(rest) = {}
    BY <1>3, <1>4, <1>7, <2>1, <2>2
  <2>4. PICK all : all = first \o rest
    OBVIOUS
  <2>5. /\ all \in Scripts(S) /\ PendingIn(all) = PendingIn(first)
        /\ all # <<>> /\ Head(all) = Head(first)
    BY <1>7, <2>3, <2>4, ScriptThen
  <2>. QED
    BY <1>7, <1>8, <2>1, <2>2, <2>4, <2>5
<1>10. Steps(n) = Steps(k) /\ Mild(n) = Mild(k) /\ Wild(n) = Wild(k)
  BY <1>2, Kin
<1>11. Formed(n)
  BY <1>2, <1>3 DEF Formed, Recovering, Faithful
<1>12. CallOn(n)
  BY <1>2, <1>3, <1>9, <1>10, <1>11 DEF CallOn
<1>. QED
  BY <1>4, <1>9, <1>12, Entering

\* A transaction that its call observes next, or at some doors leaves out.
LEMMA ObservedWrite ==
  ASSUME StatusInv, up = "up", up' = "up", NEW c \in Caller, Doing(c, "operate") \/ Doing(c, "finish"),
         NEW n, CallOn(n), PendingIn(n.todo) = {}, Entered(n) = n, n.op = call[c].op,
         n.todo # <<>>, Head(n.todo).do = "observe", Pending(c) = {}, call' = [call EXCEPT ![c] = n],
         NEW e, doc' = e, NEW xs, Rewrites(doc, e, xs), Valid(e), NEW ys, xs \subseteq e.ops[n.op].targets \cup ys,
         clock' = clock, verdicts' = verdicts,
         LeavesOut(ys)
  PROVE  StatusInv'
<1>a. PICK what \in {"operate", "finish"} : Doing(c, what)
  OBVIOUS
<1>0. TypeInv /\ Loaded(doc) /\ Head(call[c].todo).do = what
  BY <1>a, Front DEF StatusInv
<1>1. n.op \in Op /\ n.op # None /\ doc.ops[n.op] # None
  <2>1. PICK step : step = Step(c)
    OBVIOUS
  <2>. QED
    BY <1>0, <1>a, <2>1, OperationStepTyped
<1>2. /\ Loaded(doc') /\ doc'.statuses = doc.statuses /\ Managed(doc') = Managed(doc)
      /\ \A o \in Op : doc.ops[o] # None => doc'.ops[o] # None /\ doc.ops[o].targets \subseteq doc'.ops[o].targets
  BY <1>0 DEF Rewrites, Loaded, Managed, Enrolled
<1>3. n.op # None => doc'.ops[n.op] # None
  BY <1>1, <1>2
<1>4. call'[c] = n
  BY <1>0 DEF TypeInv, Called
<1>5. clock \in Nat /\ missed \in [Door -> 0..clock]
  BY <1>0 DEF TypeInv
<1>6. /\ missed' \in [Door -> 0..clock]
      /\ \A x \in Door : missed'[x] = (IF x \in ys THEN clock ELSE missed[x])
  BY <1>5 DEF LeavesOut
<1>7. \A x \in Managed(doc) : ~Owes(call[c], x)
  BY <1>0 DEF Owes, Writing, Reading
<1>8. \A x \in Managed(doc) :
        \/ missed'[x] = clock \/ Owes(call[c], x)'
        \/ missed'[x] = missed[x] /\ ~Owes(call[c], x) /\ Evaluate(doc', x) = Evaluate(doc, x)
  <2>. TAKE x \in Managed(doc)
  <2>0. x \in Door
    BY DEF Managed, Enrolled
  <2>1. CASE x \in ys
    BY <1>6, <2>0, <2>1
  <2>2. CASE x \notin ys /\ x \in xs
    <3>1. x \in e.ops[n.op].targets
      BY <2>2
    <3>2. Owes(call[c], x)'
      BY <1>4, <3>1 DEF Owes
    <3>. QED
      BY <3>2
  <2>3. CASE x \notin ys /\ x \notin xs
    <3>1. SameAt(doc, e, x)
      BY <2>0, <2>3 DEF Rewrites
    <3>2. Evaluate(doc', x) = Evaluate(doc, x)
      BY <2>0, <3>1, SameStatus
    <3>. QED
      BY <1>6, <1>7, <2>0, <2>3, <3>2
  <2>. QED
    BY <2>1, <2>2, <2>3
<1>9. call' = [call EXCEPT ![c] = Entered(n)]
  OBVIOUS
<1>. QED
  BY <1>2, <1>3, <1>6, <1>8, <1>9, WriteStep

\* An operation is written, and about to be observed.
LEMMA WriteOperationStep ==
  ASSUME StatusInv, NEW c \in Caller, WriteOperation(c)
  PROVE  StatusInv'
<1>0. /\ TypeInv /\ Doing(c, "operate") /\ up' = up /\ clock' = clock /\ verdicts' = verdicts
      /\ missed' = missed
  BY DEF StatusInv, WriteOperation, statuses
<1>1. PICK step : step = Step(c)
  OBVIOUS
<1>2. PICK k, o : k = call[c] /\ o = call[c].op
  OBVIOUS
<1>3. up = "up" /\ call[c].todo # <<>> /\ Recent(doc) /\ Valid(doc)
  BY <1>0, Front DEF Loaded
<1>4. /\ o \in Op /\ o # None /\ doc.ops[o] # None /\ step.status \in OperationStatus
  BY <1>0, <1>1, <1>2, OperationStepTyped
<1>5. PICK e : e = Written(doc, o, step.status)
  OBVIOUS
<1>6. PICK ys : ys = {}
  OBVIOUS
<1>7. PICK xs : xs = doc.ops[o].targets
  OBVIOUS
<1>8. Rewrites(doc, e, xs) /\ Valid(e) /\ e.ops[o].targets = xs
  <2>2. PICK status \in OperationStatus : status = step.status
    BY <1>4
  <2>3. /\ Rewrites(doc, Written(doc, o, status), doc.ops[o].targets) /\ Valid(Written(doc, o, status))
        /\ Written(doc, o, status).ops[o].targets = doc.ops[o].targets
    BY <1>3, <1>4, WrittenSame
  <2>. QED
    BY <1>5, <1>7, <2>2, <2>3
<1>9. PICK between : between = <<>>
  OBVIOUS
<1>10. between \in Scripts(Steps(k))
  BY <1>9, ScriptOne
<1>11. PICK todo, writes : /\ todo = <<Do("observe")>> \o Tail(k.todo) /\ writes = doc.ops[o].writes + 1
  OBVIOUS
<1>12. todo = <<Do("observe")>> \o between \o Tail(k.todo)
  <2>1. <<Do("observe")>> \o between = <<Do("observe")>>
    BY <1>9
  <2>. QED
    BY <1>11, <2>1
<1>13. PICK m : m = [k EXCEPT !.todo = todo]
  OBVIOUS
<1>14. PICK n : n = [m EXCEPT !.writes = writes]
  OBVIOUS
<1>15. /\ doc' = e /\ call' = [call EXCEPT ![c] = Entered(n)]
  BY <1>1, <1>2, <1>5, <1>11, <1>13, <1>14 DEF WriteOperation, Becomes, With
<1>16. Formed(k)
  BY <1>0, <1>2, <1>3, CallTyped DEF CallOn
<1>17. /\ DOMAIN m = DOMAIN k /\ m.pair = k.pair /\ m.op = k.op /\ m.undo = k.undo /\ m.todo = todo
       /\ Recovering(k) => m.was = k.was /\ m.seen = k.seen /\ m.fact = k.fact
  BY <1>13, <1>16 DEF Formed, CallFields, RecoveryFields
<1>18. /\ DOMAIN n = DOMAIN k /\ n.pair = k.pair /\ n.op = k.op /\ n.undo = k.undo /\ n.todo = todo
       /\ Recovering(k) => n.was = k.was /\ n.seen = k.seen /\ n.fact = k.fact
  BY <1>14, <1>16, <1>17 DEF Formed, CallFields, RecoveryFields
<1>19. /\ CallOn(n) /\ PendingIn(n.todo) = {} /\ Entered(n) = n
       /\ n.todo # <<>> /\ Head(n.todo).do = "observe" /\ Pending(c) = {}
  BY <1>0, <1>2, <1>10, <1>12, <1>18, Observing
<1>20. LeavesOut(ys)
  BY <1>0, <1>6 DEF TypeInv, LeavesOut
<1>21. call' = [call EXCEPT ![c] = n] /\ up' = "up" /\ n.op = call[c].op
  BY <1>0, <1>2, <1>3, <1>15, <1>18, <1>19
<1>22. xs \subseteq e.ops[n.op].targets \cup ys
  BY <1>2, <1>8, <1>21
<1>23. Rewrites(doc, e, xs) /\ Valid(e) /\ doc' = e
  BY <1>8, <1>15
<1>. QED
  BY <1>0, <1>3, <1>19, <1>20, <1>21, <1>22, <1>23, ObservedWrite

\* A replacement confirms its targets, which are about to be observed.
LEMMA FinishReplacementStep ==
  ASSUME StatusInv, NEW c \in Caller, FinishReplacement(c)
  PROVE  StatusInv'
<1>0. /\ TypeInv /\ Doing(c, "finish") /\ up' = up /\ clock' = clock /\ verdicts' = verdicts
      /\ missed' = missed /\ Kind[call[c].op] = "replacement"
  BY DEF StatusInv, FinishReplacement, statuses
<1>1. PICK k, o : k = call[c] /\ o = call[c].op
  OBVIOUS
<1>2. PICK step : step = Step(c)
  OBVIOUS
<1>3. up = "up" /\ call[c].todo # <<>> /\ Loaded(doc) /\ Recent(doc) /\ Valid(doc)
  BY <1>0, Front DEF Loaded
<1>4. o \in Op /\ o # None /\ doc.ops[o] # None
  BY <1>0, <1>1, <1>2, OperationStepTyped
<1>5. PICK p : p = doc.ops[o].person
  OBVIOUS
<1>6. PICK xs, ys : xs = doc.ops[o].targets /\ ys = {}
  OBVIOUS
<1>7. PICK e, between :
        /\ Rewrites(doc, e, xs) /\ Valid(e) /\ between \in Scripts(Steps(k))
        /\ doc' = e
        /\ Becomes(c, With(c, <<Do("observe")>> \o between \o Tail(call[c].todo)))
  <2>. DEFINE asExpected ==
         /\ OwnOperation(c) /\ doc.people[p] # None
         /\ doc.ops[o].expects = Operation(doc, p, "running").expects
         /\ \A x \in doc.ops[o].targets : Exists(doc, "metadata", <<p, x>>)
  <2>1. CASE asExpected
    <3>1. PICK e, between : e = Confirmed(doc, o) /\ between = <<>>
      OBVIOUS
    <3>2. Rewrites(doc, e, xs) /\ Valid(e)
      BY <1>0, <1>1, <1>3, <1>4, <1>5, <1>6, <2>1, <3>1, ConfirmedWell
    <3>3. between \in Scripts(Steps(k))
      BY <3>1, ScriptOne
    <3>4. doc' = e /\ Becomes(c, With(c, <<Do("observe")>> \o between \o Tail(call[c].todo)))
      BY <1>1, <1>5, <2>1, <3>1 DEF FinishReplacement
    <3>. QED
      BY <3>2, <3>3, <3>4
  <2>2. CASE ~asExpected
    <3>1. PICK e, between : e = Written(doc, o, "failed") /\ between = <<Do("raise")>>
      OBVIOUS
    <3>2. Rewrites(doc, e, xs) /\ Valid(e)
      <4>1. "failed" \in OperationStatus
        BY DEF OperationStatus
      <4>. QED
        BY <1>3, <1>4, <1>6, <3>1, <4>1, WrittenSame
    <3>3. between \in Scripts(Steps(k))
      <4>1. Do("raise") \in Steps(k)
        BY DEF Steps, Do
      <4>. QED
        BY <3>1, <4>1, ScriptOne DEF Do, Writing
    <3>4. doc' = e /\ Becomes(c, With(c, <<Do("observe")>> \o between \o Tail(call[c].todo)))
      BY <1>1, <1>5, <2>2, <3>1 DEF FinishReplacement
    <3>. QED
      BY <3>2, <3>3, <3>4
  <2>. QED
    BY <2>1, <2>2
<1>8. PICK todo : todo = <<Do("observe")>> \o between \o Tail(k.todo)
  OBVIOUS
<1>9. PICK n : n = [k EXCEPT !.todo = todo]
  OBVIOUS
<1>10. call' = [call EXCEPT ![c] = Entered(n)]
  BY <1>1, <1>7, <1>8, <1>9 DEF Becomes, With
<1>11. Formed(k)
  BY <1>0, <1>1, <1>3, CallTyped DEF CallOn
<1>12. /\ DOMAIN n = DOMAIN k /\ n.pair = k.pair /\ n.op = k.op /\ n.undo = k.undo /\ n.todo = todo
       /\ Recovering(k) => n.was = k.was /\ n.seen = k.seen /\ n.fact = k.fact
  BY <1>9, <1>11 DEF Formed, CallFields, RecoveryFields
<1>13. /\ CallOn(n) /\ PendingIn(n.todo) = {} /\ Entered(n) = n
       /\ n.todo # <<>> /\ Head(n.todo).do = "observe" /\ Pending(c) = {}
  BY <1>0, <1>1, <1>7, <1>8, <1>12, Observing
<1>14. LeavesOut(ys)
  BY <1>0, <1>6 DEF TypeInv, LeavesOut
<1>15. call' = [call EXCEPT ![c] = n] /\ up' = "up" /\ n.op = call[c].op
  BY <1>0, <1>1, <1>3, <1>10, <1>12, <1>13
<1>16. xs \subseteq e.ops[n.op].targets \cup ys
  BY <1>1, <1>4, <1>6, <1>7, <1>15 DEF Rewrites
<1>. QED
  BY <1>0, <1>3, <1>7, <1>13, <1>14, <1>15, <1>16, ObservedWrite

\* A deletion is observed at its targets; other doors where the person was recorded are left out.
LEMMA FinishDeletionStep ==
  ASSUME StatusInv, NEW c \in Caller, FinishDeletion(c)
  PROVE  StatusInv'
<1>0. /\ TypeInv /\ Doing(c, "finish") /\ up' = up /\ clock' = clock /\ verdicts' = verdicts
  BY DEF StatusInv, FinishDeletion, Finishes, statuses
<1>1. PICK k, o : k = call[c] /\ o = call[c].op
  OBVIOUS
<1>2. PICK step : step = Step(c)
  OBVIOUS
<1>3. up = "up" /\ call[c].todo # <<>> /\ Loaded(doc) /\ Recent(doc) /\ Valid(doc)
  BY <1>0, Front DEF Loaded
<1>4. o \in Op /\ o # None /\ doc.ops[o] # None
  BY <1>0, <1>1, <1>2, OperationStepTyped
<1>5. PICK recordedAt : recordedAt = {g[2] : g \in {h \in Recorded(doc) : h[1] = doc.ops[o].person}}
  OBVIOUS
<1>6. PICK xs, ys : xs = doc.ops[o].targets \cup recordedAt /\ ys = recordedAt \ doc.ops[o].targets
  OBVIOUS
<1>7. PICK e : e = Deleted(doc, o)
  OBVIOUS
<1>8. PICK between : between = <<>>
  OBVIOUS
<1>9. between \in Scripts(Steps(k))
  BY <1>8, ScriptOne
<1>10. PICK todo : todo = <<Do("observe")>> \o Tail(k.todo)
  OBVIOUS
<1>11. todo = <<Do("observe")>> \o between \o Tail(k.todo)
  <2>1. <<Do("observe")>> \o between = <<Do("observe")>>
    BY <1>8
  <2>. QED
    BY <1>10, <2>1
<1>12. PICK n : n = [k EXCEPT !.todo = todo]
  OBVIOUS
<1>13. /\ doc' = e /\ call' = [call EXCEPT ![c] = Entered(n)]
       /\ LeavesOut(ys)
       /\ DoorsOf(doc, doc.ops[o].person) = doc.ops[o].targets
  BY <1>1, <1>5, <1>6, <1>7, <1>10, <1>12 DEF FinishDeletion, Becomes, With
<1>14. Rewrites(doc, e, xs) /\ Valid(e)
  BY <1>3, <1>4, <1>5, <1>6, <1>7, <1>13, DeletedWell
<1>15. Formed(k)
  BY <1>0, <1>1, <1>3, CallTyped DEF CallOn
<1>16. /\ DOMAIN n = DOMAIN k /\ n.pair = k.pair /\ n.op = k.op /\ n.undo = k.undo /\ n.todo = todo
       /\ Recovering(k) => n.was = k.was /\ n.seen = k.seen /\ n.fact = k.fact
  BY <1>12, <1>15 DEF Formed, CallFields, RecoveryFields
<1>17. /\ CallOn(n) /\ PendingIn(n.todo) = {} /\ Entered(n) = n
       /\ n.todo # <<>> /\ Head(n.todo).do = "observe" /\ Pending(c) = {}
  BY <1>0, <1>1, <1>9, <1>11, <1>16, Observing
<1>18. call' = [call EXCEPT ![c] = n] /\ up' = "up" /\ n.op = call[c].op
  BY <1>0, <1>1, <1>3, <1>13, <1>16, <1>17
<1>19. xs \subseteq e.ops[n.op].targets \cup ys
  BY <1>1, <1>4, <1>6, <1>14, <1>18 DEF Rewrites
<1>. QED
  BY <1>0, <1>3, <1>13, <1>14, <1>17, <1>18, <1>19, ObservedWrite

\* A deletion gets more targets, and leaves them out.
LEMMA ExpandDeletionStep ==
  ASSUME StatusInv, NEW c \in Caller, ExpandDeletion(c)
  PROVE  StatusInv'
<1>0. /\ TypeInv /\ Doing(c, "finish") /\ up' = up /\ clock' = clock /\ verdicts' = verdicts
      /\ Kind[call[c].op] = "deletion"
  BY DEF StatusInv, ExpandDeletion, Finishes, statuses
<1>1. PICK o, p : o = call[c].op /\ p = doc.ops[o].person
  OBVIOUS
<1>2. PICK step : step = Step(c)
  OBVIOUS
<1>3. /\ up = "up" /\ call[c].todo # <<>> /\ Head(call[c].todo).do = "finish"
      /\ Loaded(doc) /\ Recent(doc) /\ Valid(doc)
  BY <1>0, Front DEF Loaded
<1>4. o \in Op /\ o # None /\ doc.ops[o] # None /\ p \in Person
  <2>1. o \in Op /\ o # None /\ doc.ops[o] # None /\ doc.ops[o] \in LifecycleOperation
    BY <1>0, <1>1, <1>2, OperationStepTyped
  <2>. QED
    BY <1>1, <2>1 DEF LifecycleOperation
<1>5. PICK more : more = DoorsOf(doc, p)
  OBVIOUS
<1>6. PICK e : e = [Written(doc, o, "waiting_retry") EXCEPT !.ops[o].targets = @ \cup more]
  OBVIOUS
<1>7. PICK n : n = Raised(c)
  OBVIOUS
<1>8. doc' = e /\ call' = [call EXCEPT ![c] = Entered(n)] /\ LeavesOut(About(c) \cup more)
  BY <1>1, <1>5, <1>6, <1>7 DEF ExpandDeletion, Becomes
<1>9. more \subseteq Door /\ more \subseteq doc.points
  <2>1. "waiting_retry" \in OperationStatus
    BY DEF OperationStatus
  <2>. QED
    BY <1>3, <1>4, <1>5, <2>1, OperationTyped
<1>10. Rewrites(doc, e, doc.ops[o].targets \cup more) /\ Valid(e)
  <2>1. "waiting_retry" \in OperationStatus /\ more \in SUBSET Door /\ Kind[o] # "replacement"
    BY <1>0, <1>1, <1>9 DEF OperationStatus
  <2>. QED
    BY <1>3, <1>4, <1>6, <1>9, <2>1, WrittenOnce
<1>11. /\ CallOn(n) /\ PendingIn(n.todo) = {} /\ n.op = call[c].op /\ Pending(c) = {}
  <2>1. CallOn(call[c])
    BY <1>0, <1>3, CallTyped
  <2>2. n = [call[c] EXCEPT !.todo = call[c].undo, !.undo = <<>>, !.failed = TRUE]
    BY <1>7 DEF Raised
  <2>3. CallOn(n) /\ PendingIn(n.todo) = {} /\ n.op = call[c].op
    BY <2>1, <2>2, GoingOn
  <2>. QED
    BY <1>0, <1>3, <2>3, PendingTyped
<1>12. /\ Loaded(doc') /\ doc'.statuses = doc.statuses /\ Managed(doc') = Managed(doc)
       /\ \A a \in Op : doc.ops[a] # None => doc'.ops[a] # None /\ doc.ops[a].targets \subseteq doc'.ops[a].targets
  BY <1>3, <1>8, <1>10 DEF Rewrites, Loaded, Managed, Enrolled
<1>13. n.op # None => doc'.ops[n.op] # None
  BY <1>1, <1>4, <1>11, <1>12
<1>14. clock \in Nat /\ missed \in [Door -> 0..clock]
  BY <1>0 DEF TypeInv
<1>15. doc.ops[o].targets \cup more \subseteq About(c) \cup more
  BY <1>1, <1>4 DEF About
<1>16. /\ missed' \in [Door -> 0..clock]
       /\ \A x \in Door : missed'[x] = (IF x \in About(c) \cup more THEN clock ELSE missed[x])
  BY <1>8, <1>14 DEF LeavesOut
<1>17. \A x \in Managed(doc) : ~Owes(call[c], x)
  BY <1>3 DEF Owes, Writing, Reading
<1>18. \A x \in Managed(doc) :
         \/ missed'[x] = clock \/ Owes(call[c], x)'
         \/ missed'[x] = missed[x] /\ ~Owes(call[c], x) /\ Evaluate(doc', x) = Evaluate(doc, x)
  <2>. TAKE x \in Managed(doc)
  <2>0. x \in Door
    BY DEF Managed, Enrolled
  <2>1. CASE x \in About(c) \cup more
    BY <1>16, <2>0, <2>1
  <2>2. CASE x \notin About(c) \cup more
    <3>1. SameAt(doc, e, x)
      BY <1>10, <1>15, <2>0, <2>2 DEF Rewrites
    <3>2. Evaluate(doc', x) = Evaluate(doc, x)
      BY <1>8, <2>0, <3>1, SameStatus
    <3>. QED
      BY <1>16, <1>17, <2>0, <2>2, <3>2
  <2>. QED
    BY <2>1, <2>2
<1>. QED
  BY <1>0, <1>3, <1>8, <1>11, <1>12, <1>13, <1>16, <1>18, WriteStep

(***************************************************************************)
(* The invariant.                                                          *)
(***************************************************************************)
LEMMA ServeStep ==
  ASSUME StatusInv, NEW c \in Caller, Serve(c)
  PROVE  StatusInv'
<1>1. ASSUME NEW g \in Pair, NEW status \in {"synchronized", "unknown"}, GiveAccess(c, g, status)
      PROVE  StatusInv'
  BY <1>1, GiveAccessStep
<1>2. ASSUME NEW g \in Pair, NEW outcome \in RemovalOutcome, RemoveAccess(c, g, outcome)
      PROVE  StatusInv'
  BY <1>2, RemoveAccessStep
<1>3. ASSUME NEW g \in Pair, Recover(c, g)
      PROVE  StatusInv'
  BY <1>3, RecoverStep
<1>4. ASSUME NEW o \in Op, NEW work \in Work, StartOperation(c, o, work)
      PROVE  StatusInv'
  BY <1>4, StartOperationStep
<1>. QED
  BY <1>1, <1>2, <1>3, <1>4 DEF Serve

\* Every step of a call keeps the invariant, and so does every other one.
LEMMA AdvanceStep ==
  ASSUME StatusInv, OrphansOwed, NEW c \in Caller, Advance(c)
  PROVE  StatusInv'
<1>1. WriteMetadata(c) \/ WriteGrant(c) \/ WriteNewGrant(c) \/ DropGrant(c) \/ DropMetadata(c) => StatusInv'
  BY WriteMetadataStep, WriteGrantStep, WriteNewGrantStep, DropStep
<1>2. TellHistory(c) \/ RepairOrphans(c) \/ EvaluateDoor(c) \/ PronounceDoor(c) \/ GiveAnswer(c) => StatusInv'
  BY TellHistoryStep, RepairOrphansStep, EvaluateDoorStep, PronounceDoorStep
<1>3. StoreStatus(c) \/ WriteOperation(c) \/ Observe(c) \/ GiveUp(c) => StatusInv'
  BY StoreStep, WriteOperationStep, ObserveStep, FailingStep
<1>4. FinishReplacement(c) \/ FinishDeletion(c) \/ ExpandDeletion(c) \/ NothingToDelete(c) => StatusInv'
  BY FinishReplacementStep, FinishDeletionStep, ExpandDeletionStep, FailingStep
<1>5. ResumeFails(c) \/ Reevaluate(c) \/ Reread(c) => StatusInv'
  BY FailingStep, ReevaluateStep, RereadStep
<1>6. ASSUME NEW work \in Work, ResumeOperation(c, work)
      PROVE  StatusInv'
  BY <1>6, ResumeOperationStep
<1>7. ASSUME NEW outcome \in {"verified", "failed", "pending"}, ResumeVerification(c, outcome)
      PROVE  StatusInv'
  BY <1>7, ResumeVerificationStep
<1>8. ASSUME NEW outcome \in RemovalOutcome \cup {"stolen"}, ResumeRemoval(c, outcome)
      PROVE  StatusInv'
  BY <1>8, ResumeRemovalStep
<1>. QED
  BY <1>1, <1>2, <1>3, <1>4, <1>5, <1>6, <1>7, <1>8 DEF Advance

\* Nothing happens.
LEMMA NothingHappens ==
  ASSUME StatusInv, UNCHANGED vars
  PROVE  StatusInv'
<1>1. /\ up' = up /\ doc' = doc /\ call' = call /\ clock' = clock /\ verdicts' = verdicts
      /\ missed' = missed
  BY DEF vars, records, statuses
<1>2. Kept'
  BY <1>1 DEF StatusInv, TypeInv, Kept
<1>3. \A c \in Caller : Pending(c)' = Pending(c)
  BY <1>1 DEF Pending
<1>4. Called'
  BY <1>1, <1>3 DEF StatusInv, TypeInv, Called
<1>5. TypeInv'
  BY <1>1, <1>2, <1>4 DEF StatusInv, TypeInv
<1>6. TimesDiffer'
  BY <1>1, <1>3 DEF StatusInv, TimesDiffer
<1>7. \A x : Coming(x)' = Coming(x)
  BY <1>3 DEF Coming
<1>8. \A x : Settled(x)' = Settled(x)
  BY <1>1, <1>7 DEF Settled, Owes, LeftOut, StoredLast, ComesLast
<1>. QED
  BY <1>1, <1>5, <1>6, <1>8 DEF StatusInv

\* Every step of the system keeps it.
LEMMA StatusNext ==
  ASSUME StatusInv, OrphansOwed, [Next]_vars
  PROVE  StatusInv'
<1>1. Start => StatusInv'
  BY StartStep
<1>2. Stop => StatusInv'
  BY StopStep
<1>3. ASSUME NEW x \in Door, RemoveDoor(x)
      PROVE  StatusInv'
  BY <1>3, RemoveDoorStep
<1>4. ASSUME NEW c \in Caller, Serve(c)
      PROVE  StatusInv'
  BY <1>4, ServeStep
<1>5. ASSUME NEW c \in Caller, Advance(c)
      PROVE  StatusInv'
  BY <1>5, AdvanceStep
<1>6. UNCHANGED vars => StatusInv'
  BY NothingHappens
<1>. QED
  BY <1>1, <1>2, <1>3, <1>4, <1>5, <1>6 DEF Next

(***************************************************************************)
(* What calls leave of people who have gone.                               *)
(***************************************************************************)

\* The step of one call, which reads the door of each record of its own that it leaves.
LEMMA OwedStep ==
  ASSUME OrphansOwed, up = "up", NEW c \in Caller, \A o \in Caller \ {c} : call'[o] = call[o],
         \A g \in Orphans(doc') :
           \/ Nursing(call'[c], g)
           \/ g \in Orphans(doc) /\ ~Nursing(call[c], g)
  PROVE  OrphansOwed'
<1>. SUFFICES ASSUME NEW g \in Orphans(doc')
              PROVE  \E o \in Caller : Nursing(call'[o], g)
  BY DEF OrphansOwed
<1>1. CASE Nursing(call'[c], g)
  BY <1>1
<1>2. CASE g \in Orphans(doc) /\ ~Nursing(call[c], g)
  <2>1. PICK o \in Caller : Nursing(call[o], g)
    BY <1>2 DEF OrphansOwed
  <2>2. call'[o] = call[o]
    BY <1>2, <2>1
  <2>. QED
    BY <2>1, <2>2
<1>. QED
  BY <1>1, <1>2

\* A call that has no door to read yet leaves no record.
LEMMA OwedElsewhere ==
  ASSUME OrphansOwed, up = "up", NEW c \in Caller, NEW n, call' = [call EXCEPT ![c] = n],
         TypeInv, call[c].todo = <<>> \/ Head(call[c].todo).do \notin {"grant"} \cup Reading,
         Orphans(doc') \subseteq Orphans(doc)
  PROVE  OrphansOwed'
<1>1. \A o \in Caller \ {c} : call'[o] = call[o]
  BY DEF TypeInv, Called
<1>2. \A g : ~Nursing(call[c], g)
  BY DEF Nursing
<1>. QED
  BY <1>1, <1>2, OwedStep

\* None is left by a call that has repaired all.
LEMMA OwedNone ==
  ASSUME Orphans(doc') = {}
  PROVE  OrphansOwed'
  BY DEF OrphansOwed

\* Calls begin, and an operation that has begun is not over.
LEMMA OwedServe ==
  ASSUME StatusInv, OrphansOwed, NEW c \in Caller, Serve(c)
  PROVE  OrphansOwed'
<1>0. TypeInv /\ up = "up" /\ call[c].todo = <<>>
  BY DEF StatusInv, Serve, Ready, Free
<1>1. ASSUME doc' = doc, NEW k, call' = [call EXCEPT ![c] = k]
      PROVE  OrphansOwed'
  BY <1>0, <1>1, OwedElsewhere
<1>2. ASSUME NEW g \in Pair, NEW status, GiveAccess(c, g, status)
      PROVE  OrphansOwed'
  BY <1>1, <1>2 DEF GiveAccess, Begins
<1>3. ASSUME NEW g \in Pair, NEW outcome, RemoveAccess(c, g, outcome)
      PROVE  OrphansOwed'
  BY <1>1, <1>3 DEF RemoveAccess, Begins
<1>4. ASSUME NEW g \in Pair, Recover(c, g)
      PROVE  OrphansOwed'
  BY <1>1, <1>4 DEF Recover, Begins
<1>5. ASSUME NEW o \in Op, NEW work \in Work, StartOperation(c, o, work)
      PROVE  OrphansOwed'
  <2>1. PICK p \in Person : /\ doc.ops[o] = None
                            /\ doc' = [doc EXCEPT !.ops[o] = Operation(doc, p, "pending")]
    BY <1>5 DEF StartOperation
  <2>2. PICK k : call' = [call EXCEPT ![c] = k]
    BY <1>5 DEF StartOperation, Begins
  <2>3. doc \in Documents
    BY <1>0 DEF TypeInv, Kept
  <2>4. PICK r : r = Operation(doc, p, "pending")
    OBVIOUS
  <2>5. /\ doc'.metadata = doc.metadata /\ doc'.grants = doc.grants /\ doc'.people = doc.people
        /\ doc'.authority = doc.authority /\ \A a \in Op \ {o} : doc'.ops[a] = doc.ops[a]
    BY <2>1, <2>3, <2>4 DEF Documents
  <2>6. \A q : ActiveOf(doc, q) \subseteq ActiveOf(doc', q)
    BY <2>1, <2>5 DEF ActiveOf
  <2>7. \A g \in Orphans(doc') : g \in Orphans(doc)
    BY <2>5, <2>6 DEF Orphans, Recorded, Granted, Exists
  <2>. QED
    BY <1>0, <2>2, <2>7, OwedElsewhere
<1>. QED
  BY <1>2, <1>3, <1>4, <1>5 DEF Serve

\* The record that is written without a PIN is followed by the grant, and that by a reading.
LEMMA OwedMetadata ==
  ASSUME StatusInv, OrphansOwed, NEW c \in Caller, WriteMetadata(c)
  PROVE  OrphansOwed'
<1>0. TypeInv /\ Doing(c, "metadata")
  BY DEF StatusInv, WriteMetadata
<1>1. PICK step, g : step = Step(c) /\ g = call[c].pair
  OBVIOUS
<1>2. /\ up = "up" /\ call[c].todo # <<>> /\ Head(call[c].todo).do = "metadata"
      /\ step = Head(call[c].todo) /\ doc \in Documents
  BY <1>0, <1>1, Front
<1>3. g \in Pair
  BY <1>0, <1>1, <1>2, PairStepTyped DEF Writing
<1>4. PICK r : r = [cred |-> step.cred, status |-> step.status]
  OBVIOUS
<1>5. PICK e : e = [doc EXCEPT !.metadata[g] = r]
  OBVIOUS
<1>6. Saves(c, e)
  BY <1>1, <1>4, <1>5 DEF WriteMetadata
<1>7. CASE ~Valid(e)
  <2>1. doc' = doc /\ call' = [call EXCEPT ![c] = Entered(Raised(c))]
    BY <1>6, <1>7 DEF Saves, Raises, Becomes
  <2>. QED
    BY <1>0, <1>2, <2>1, OwedElsewhere DEF Reading
<1>8. CASE Valid(e)
  <2>1. doc' = e /\ Goes(c)
    BY <1>6, <1>8 DEF Saves
  <2>2. PICK n : /\ CallOn(n) /\ n.todo = Tail(call[c].todo) /\ n.pair = g
                 /\ call' = [call EXCEPT ![c] = Entered(n)]
    BY <1>0, <1>1, <1>2, <2>1, GoesOn
  <2>3. n.todo # <<>> /\ Continues(step, Head(n.todo))
    BY <1>0, <1>2, <2>2, NextStep DEF Writing
  <2>4. Entered(n) = n
    BY <2>2, <2>3, Entering DEF Continues, Writing, Reading
  <2>5. call'[c] = n /\ \A o \in Caller \ {c} : call'[o] = call[o]
    BY <1>0, <2>2, <2>4 DEF TypeInv, Called
  <2>6. /\ e.metadata[g] = r /\ \A h \in Pair \ {g} : e.metadata[h] = doc.metadata[h]
        /\ e.grants = doc.grants /\ e.people = doc.people /\ e.authority = doc.authority /\ e.ops = doc.ops
    BY <1>2, <1>3, <1>5 DEF Documents
  <2>7. \A h \in Orphans(e) : h \in Pair /\ (h # g => h \in Orphans(doc))
    BY <2>6 DEF Orphans, Recorded, Granted, Exists, ActiveOf
  <2>8. g \in Orphans(e) => Nursing(call'[c], g)
    <3>. HAVE g \in Orphans(e)
    <3>1. step.cred = None
      BY <1>4, <2>6 DEF Orphans
    <3>. QED
      BY <1>2, <2>2, <2>3, <2>5, <3>1 DEF Continues, Nursing
  <2>9. \A h : ~Nursing(call[c], h)
    BY <1>2 DEF Nursing, Reading
  <2>. QED
    BY <1>2, <2>1, <2>5, <2>7, <2>8, <2>9, OwedStep
<1>. QED
  BY <1>7, <1>8

\* A record that nobody can own has no grant: nothing is written, and the door is read next.
LEMMA OwedGrant ==
  ASSUME StatusInv, OrphansOwed, NEW c \in Caller, WriteGrant(c)
  PROVE  OrphansOwed'
<1>0. TypeInv /\ Doing(c, "grant")
  BY DEF StatusInv, WriteGrant
<1>1. PICK step, g : step = Step(c) /\ g = call[c].pair
  OBVIOUS
<1>2. /\ up = "up" /\ call[c].todo # <<>> /\ Head(call[c].todo).do = "grant"
      /\ step = Head(call[c].todo) /\ doc \in Documents /\ Valid(doc)
  BY <1>0, <1>1, Front DEF Loaded
<1>3. g \in Pair
  BY <1>0, <1>1, <1>2, PairStepTyped DEF Writing
<1>4. PICK e : e = IF Exists(doc, "grants", g) THEN [doc EXCEPT !.grants[g].status = step.status] ELSE doc
  OBVIOUS
<1>5. Saves(c, e)
  BY <1>1, <1>4 DEF WriteGrant
<1>6. \A h : Nursing(call[c], h) => h = g
  BY <1>1 DEF Nursing
<1>7. Orphans(e) \subseteq Orphans(doc)
  <2>1. CASE ~Exists(doc, "grants", g)
    BY <1>4, <2>1
  <2>2. CASE Exists(doc, "grants", g)
    <3>1. PICK r : r = [doc.grants[g] EXCEPT !.status = step.status]
      OBVIOUS
    <3>2. e = [doc EXCEPT !.grants[g] = r]
      BY <1>2, <1>3, <1>4, <2>2, <3>1 DEF Documents
    <3>3. r # None
      <4>1. doc.grants[g] \in Grant
        BY <1>2, <1>3, <2>2 DEF Documents, Exists
      <4>2. r \in [schedule : Schedule \cup {None}, cred : Credential \cup {None}, status : {step.status}]
        BY <3>1, <4>1 DEF Grant
      <4>3. DOMAIN r = DOMAIN doc.grants[g]
        BY <3>1
      <4>. QED
        BY <1>0, <1>1, <1>2, <4>2, Assumptions, PairStepTyped DEF Grant, Writing, AnyStatus
    <3>4. /\ e.metadata = doc.metadata /\ e.people = doc.people /\ e.authority = doc.authority
          /\ e.ops = doc.ops /\ e.grants[g] # None
          /\ \A h \in Pair \ {g} : e.grants[h] = doc.grants[h]
      BY <1>2, <1>3, <3>2, <3>3 DEF Documents
    <3>. QED
      BY <2>2, <3>4 DEF Orphans, Recorded, Granted, Exists, ActiveOf
  <2>. QED
    BY <2>1, <2>2
<1>8. CASE g \in Orphans(doc)
  <2>1. e = doc
    BY <1>3, <1>4, <1>8 DEF Orphans, Granted
  <2>2. doc' = doc /\ Goes(c)
    BY <1>2, <1>5, <2>1 DEF Saves
  <2>3. PICK n : /\ CallOn(n) /\ n.todo = Tail(call[c].todo) /\ n.pair = g
                 /\ call' = [call EXCEPT ![c] = Entered(n)]
    BY <1>0, <1>1, <1>2, <2>2, GoesOn
  <2>4. n.todo # <<>> /\ Continues(step, Head(n.todo))
    BY <1>0, <1>2, <2>3, NextStep DEF Writing
  <2>5. Entered(n) = n
    BY <2>3, <2>4, Entering DEF Continues, Writing, Reading
  <2>6. call'[c] = n /\ \A o \in Caller \ {c} : call'[o] = call[o]
    BY <1>0, <2>3, <2>5 DEF TypeInv, Called
  <2>7. Nursing(call'[c], g)
    BY <1>2, <2>3, <2>4, <2>6 DEF Continues, Nursing
  <2>8. \A h \in Orphans(doc') : Nursing(call'[c], h) \/ (h \in Orphans(doc) /\ ~Nursing(call[c], h))
    BY <1>6, <2>2, <2>7
  <2>. QED
    BY <1>2, <2>6, <2>8, OwedStep
<1>9. CASE g \notin Orphans(doc)
  <2>1. PICK n : call' = [call EXCEPT ![c] = n]
    BY <1>5 DEF Saves, Goes, Raises, Becomes
  <2>2. \A o \in Caller \ {c} : call'[o] = call[o]
    BY <1>0, <2>1 DEF TypeInv, Called
  <2>3. Orphans(doc') \subseteq Orphans(doc)
    BY <1>5, <1>7 DEF Saves
  <2>4. \A h \in Orphans(doc') : h \in Orphans(doc) /\ ~Nursing(call[c], h)
    BY <1>6, <1>9, <2>3
  <2>. QED
    BY <1>2, <2>2, <2>4, OwedStep
<1>. QED
  BY <1>8, <1>9

\* Whoever has a grant is there: no record is left by one that is written or dropped.
LEMMA OwedOthers ==
  ASSUME StatusInv, OrphansOwed, NEW c \in Caller, WriteNewGrant(c) \/ DropGrant(c) \/ DropMetadata(c)
  PROVE  OrphansOwed'
<1>0. TypeInv
  BY DEF StatusInv
<1>a. PICK what \in {"newgrant", "dropgrant", "dropmetadata"} : Doing(c, what)
  BY DEF WriteNewGrant, DropGrant, DropMetadata
<1>1. PICK step, g : step = Step(c) /\ g = call[c].pair
  OBVIOUS
<1>2. /\ up = "up" /\ call[c].todo # <<>> /\ Head(call[c].todo).do = what
      /\ step = Head(call[c].todo) /\ doc \in Documents /\ Valid(doc)
  BY <1>0, <1>a, <1>1, Front DEF Loaded
<1>3. g \in Pair
  BY <1>0, <1>1, <1>2, PairStepTyped DEF Writing
<1>4. PICK n : call' = [call EXCEPT ![c] = n]
  BY DEF WriteNewGrant, DropGrant, DropMetadata, Saves, Goes, Raises, Becomes
<1>5. PICK s : s = [schedule |-> doc.people[g[1]], cred |-> doc.authority[g[1]], status |-> step.status]
  OBVIOUS
<1>6. PICK none : none = None
  OBVIOUS
<1>7. \/ doc' = doc
      \/ doc.people[g[1]] # None /\ doc' = [doc EXCEPT !.grants[g] = s]
      \/ doc' = [doc EXCEPT !.grants[g] = none]
      \/ doc' = [doc EXCEPT !.metadata[g] = none]
  BY <1>1, <1>5, <1>6 DEF WriteNewGrant, DropGrant, DropMetadata, Saves
<1>8. Orphans(doc') \subseteq Orphans(doc)
  <2>1. CASE doc.people[g[1]] # None /\ doc' = [doc EXCEPT !.grants[g] = s]
    <3>1. /\ doc'.metadata = doc.metadata /\ doc'.people = doc.people /\ doc'.authority = doc.authority
          /\ doc'.ops = doc.ops /\ \A h \in Pair \ {g} : doc'.grants[h] = doc.grants[h]
      BY <1>2, <1>3, <2>1 DEF Documents
    <3>. QED
      BY <2>1, <3>1 DEF Orphans, Recorded, Granted, Exists, ActiveOf
  <2>2. CASE doc' = [doc EXCEPT !.grants[g] = none]
    <3>1. /\ doc'.metadata = doc.metadata /\ doc'.people = doc.people /\ doc'.authority = doc.authority
          /\ doc'.ops = doc.ops /\ \A h \in Pair \ {g} : doc'.grants[h] = doc.grants[h]
      BY <1>2, <1>3, <2>2 DEF Documents
    <3>2. \A h \in Granted(doc) : doc.people[h[1]] # None
      BY <1>2 DEF Valid, Referential
    <3>. QED
      BY <3>1, <3>2 DEF Orphans, Recorded, Granted, Exists, ActiveOf
  <2>3. CASE doc' = [doc EXCEPT !.metadata[g] = none]
    <3>1. /\ doc'.grants = doc.grants /\ doc'.people = doc.people /\ doc'.authority = doc.authority
          /\ doc'.ops = doc.ops /\ \A h \in Pair \ {g} : doc'.metadata[h] = doc.metadata[h]
          /\ doc'.metadata[g] = None
      BY <1>2, <1>3, <1>6, <2>3 DEF Documents
    <3>. QED
      BY <3>1 DEF Orphans, Recorded, Granted, Exists, ActiveOf
  <2>. QED
    BY <1>7, <2>1, <2>2, <2>3
<1>. QED
  BY <1>0, <1>2, <1>4, <1>8, OwedElsewhere DEF Reading

\* What the writing of an operation leaves alone.
LEMMA WrittenKeeps ==
  ASSUME NEW d, Recent(d), NEW o \in Op, d.ops[o] # None, NEW status \in OperationStatus
  PROVE  LET w == Written(d, o, status)
         IN /\ w \in Documents
            /\ w.metadata = d.metadata /\ w.grants = d.grants /\ w.people = d.people
            /\ w.authority = d.authority /\ w.ops[o] # None /\ w.ops[o].person = d.ops[o].person
            /\ w.ops[o].status = status /\ \A a \in Op \ {o} : w.ops[a] = d.ops[a]
<1>1. {} \in SUBSET Door
  OBVIOUS
<1>2. /\ LET w == Written(d, o, status)
         IN /\ Rewrites(d, w, d.ops[o].targets) /\ (Valid(d) => Valid(w))
            /\ w.ops[o] # None /\ w.ops[o].targets = d.ops[o].targets /\ w.ops[o].status = status
            /\ w.ops[o].expects = d.ops[o].expects /\ w.ops[o].person = d.ops[o].person
            /\ \A a \in Op \ {o} : w.ops[a] = d.ops[a]
      /\ LET w == [Written(d, o, status) EXCEPT !.ops[o].targets = @ \cup {}]
         IN Kind[o] # "replacement" =>
              /\ Rewrites(d, w, d.ops[o].targets \cup {})
              /\ w.ops[o] # None
              /\ Valid(d) /\ {} \subseteq d.points => Valid(w)
  BY <1>1, WrittenOnce, ZenonT(30)
<1>. DEFINE w == Written(d, o, status)
<1>3. /\ Rewrites(d, w, d.ops[o].targets) /\ w.ops[o] # None /\ w.ops[o].status = status
      /\ w.ops[o].person = d.ops[o].person /\ \A a \in Op \ {o} : w.ops[a] = d.ops[a]
  BY <1>2, Zenon
<1>4. w \in Documents
  BY <1>3 DEF Rewrites, Recent, Dated
<1>5. /\ w.metadata = d.metadata /\ w.grants = d.grants /\ w.people = d.people
      /\ w.authority = d.authority
  BY <1>4 DEF Written, Recent, Dated, Documents
<1>. QED
  BY <1>3, <1>4, <1>5

\* A deletion clears the records of its person and leaves those of the others.
LEMMA DeletedParts ==
  ASSUME NEW d, NEW o, Written(d, o, "completed") \in Documents
  PROVE  /\ Deleted(d, o).people = [Written(d, o, "completed").people EXCEPT ![d.ops[o].person] = None]
         /\ Deleted(d, o).authority =
              [Written(d, o, "completed").authority EXCEPT ![d.ops[o].person] = None]
         /\ Deleted(d, o).metadata =
              [g \in Pair |-> IF g[1] = d.ops[o].person THEN None ELSE d.metadata[g]]
         /\ Deleted(d, o).grants =
              [g \in Pair |-> IF g[1] = d.ops[o].person THEN None ELSE d.grants[g]]
         /\ Deleted(d, o).ops = Written(d, o, "completed").ops
<1>. DEFINE p == d.ops[o].person
            w == Written(d, o, "completed")
            Without(kept) == [g \in Pair |-> IF g[1] = p THEN None ELSE kept[g]]
            metadata == Without(d.metadata)
            grants == Without(d.grants)
            people == [w.people EXCEPT ![p] = None]
            authority == [w.authority EXCEPT ![p] = None]
            e == [w EXCEPT !.people = people, !.authority = authority,
                           !.metadata = metadata, !.grants = grants]
<1>1. w \in Documents
  OBVIOUS
<1>2. Deleted(d, o) = e
  BY <1>1 DEF Deleted, Documents
<1>. HIDE DEF metadata, grants, people, authority, w
<1>3. /\ e.metadata = metadata /\ e.grants = grants /\ e.ops = w.ops
      /\ e.people = people /\ e.authority = authority
  BY <1>1 DEF Documents
<1>. QED
  BY <1>2, <1>3 DEF metadata, grants, people, authority, w

\* An operation that is not over has what it has, and no person goes without the records.
LEMMA OwedOperation ==
  ASSUME StatusInv, OrphansOwed, NEW c \in Caller,
         WriteOperation(c) \/ FinishReplacement(c) \/ FinishDeletion(c) \/ ExpandDeletion(c)
  PROVE  OrphansOwed'
<1>0. TypeInv
  BY DEF StatusInv
<1>1. PICK what \in {"operate", "finish"} : Doing(c, what)
  BY DEF WriteOperation, FinishReplacement, FinishDeletion, ExpandDeletion, Finishes
<1>2. PICK step, o : step = Step(c) /\ o = call[c].op
  OBVIOUS
<1>3. /\ up = "up" /\ call[c].todo # <<>> /\ Head(call[c].todo).do = what
      /\ doc \in Documents /\ Recent(doc)
  BY <1>0, <1>1, <1>2, Front
<1>4. /\ o \in Op /\ doc.ops[o] # None /\ doc.ops[o] \in LifecycleOperation
      /\ what = "operate" => step.status \in OperationStatus \ {"completed"}
      /\ step.do = what
  BY <1>0, <1>1, <1>2, OperationStepTyped
<1>5. PICK n : call' = [call EXCEPT ![c] = n]
  BY DEF WriteOperation, FinishReplacement, FinishDeletion, ExpandDeletion, Becomes
<1>6. PICK p : p = doc.ops[o].person
  OBVIOUS
<1>7. ASSUME NEW status \in OperationStatus \ {"completed"}, NEW e,
             /\ e.metadata = doc.metadata /\ e.grants = doc.grants /\ e.people = doc.people
             /\ e.authority = doc.authority /\ e.ops[o] # None /\ e.ops[o].person = p
             /\ e.ops[o].status = status /\ \A a \in Op \ {o} : e.ops[a] = doc.ops[a]
      PROVE  Orphans(e) \subseteq Orphans(doc)
  <2>1. \A q : ActiveOf(doc, q) \subseteq ActiveOf(e, q)
    BY <1>6, <1>7 DEF ActiveOf
  <2>. QED
    BY <1>7, <2>1 DEF Orphans, Recorded, Granted, Exists
<1>8. ASSUME NEW status \in OperationStatus \ {"completed"}
      PROVE  Orphans(Written(doc, o, status)) \subseteq Orphans(doc)
  <2>1. PICK w : w = Written(doc, o, status)
    OBVIOUS
  <2>2. /\ w.metadata = doc.metadata /\ w.grants = doc.grants /\ w.people = doc.people
        /\ w.authority = doc.authority /\ w.ops[o] # None /\ w.ops[o].person = p
        /\ w.ops[o].status = status /\ \A a \in Op \ {o} : w.ops[a] = doc.ops[a]
    BY <1>3, <1>4, <1>6, <2>1, WrittenKeeps
  <2>. QED
    BY <1>7, <2>1, <2>2
<1>9. WriteOperation(c) => Orphans(doc') \subseteq Orphans(doc)
  <2>. HAVE WriteOperation(c)
  <2>1. doc' = Written(doc, o, step.status) /\ step.do = "operate"
    BY <1>2 DEF WriteOperation, Doing, Step
  <2>. QED
    BY <1>4, <1>8, <2>1
<1>10. PICK w : w = Written(doc, o, "completed")
  OBVIOUS
<1>11. /\ w \in Documents
       /\ w.metadata = doc.metadata /\ w.grants = doc.grants /\ w.people = doc.people
       /\ w.authority = doc.authority /\ w.ops[o] # None /\ w.ops[o].person = p
       /\ \A a \in Op \ {o} : w.ops[a] = doc.ops[a]
  BY <1>3, <1>4, <1>6, <1>10, WrittenKeeps DEF OperationStatus
<1>12. \A q : q # p => ActiveOf(doc, q) = ActiveOf(w, q)
  BY <1>6, <1>11 DEF ActiveOf
<1>13. FinishReplacement(c) => Orphans(doc') \subseteq Orphans(doc)
  <2>. HAVE FinishReplacement(c)
  <2>1. doc' = Written(doc, o, "failed") \/ (doc' = Confirmed(doc, o) /\ doc.people[p] # None)
    BY <1>2, <1>6 DEF FinishReplacement
  <2>2. CASE doc' = Written(doc, o, "failed")
    BY <1>8, <2>2 DEF OperationStatus
  <2>3. CASE doc' = Confirmed(doc, o) /\ doc.people[p] # None
    <3>. DEFINE Sure(kept) == [g \in Pair |->
                  IF g[1] = p /\ g[2] \in doc.ops[o].targets
                  THEN [kept[g] EXCEPT !.status = "synchronized"] ELSE kept[g]]
    <3>1. PICK ms, gs : ms = Sure(doc.metadata) /\ gs = Sure(doc.grants)
      OBVIOUS
    <3>2. doc' = [w EXCEPT !.metadata = ms, !.grants = gs]
      BY <1>6, <1>10, <2>3, <3>1 DEF Confirmed
    <3>3. \A g \in Pair : g[1] # p => ms[g] = doc.metadata[g] /\ gs[g] = doc.grants[g]
      BY <3>1
    <3>4. /\ doc'.metadata = ms /\ doc'.grants = gs /\ doc'.people = doc.people
          /\ doc'.authority = doc.authority /\ doc'.ops = w.ops
      BY <1>11, <3>2 DEF Documents
    <3>5. \A q : q # p => ActiveOf(doc', q) = ActiveOf(doc, q)
      BY <1>12, <3>4 DEF ActiveOf
    <3>6. \A g \in Orphans(doc') : g \in Pair /\ g[1] # p
      BY <2>3, <3>4 DEF Orphans, Recorded
    <3>. QED
      BY <3>3, <3>4, <3>5, <3>6 DEF Orphans, Recorded, Granted, Exists
  <2>. QED
    BY <2>1, <2>2, <2>3
<1>14. FinishDeletion(c) => Orphans(doc') \subseteq Orphans(doc)
  <2>. HAVE FinishDeletion(c)
  <2>1. doc' = Deleted(doc, o)
    BY <1>2 DEF FinishDeletion
  <2>2. PICK ms, gs :
          /\ ms = [g \in Pair |-> IF g[1] = p THEN None ELSE doc.metadata[g]]
          /\ gs = [g \in Pair |-> IF g[1] = p THEN None ELSE doc.grants[g]]
    OBVIOUS
  <2>3. /\ doc'.people = [w.people EXCEPT ![p] = None]
        /\ doc'.authority = [w.authority EXCEPT ![p] = None]
        /\ doc'.metadata = ms /\ doc'.grants = gs /\ doc'.ops = w.ops
    <3>1. Written(doc, o, "completed") \in Documents
      BY <1>10, <1>11
    <3>2. /\ Deleted(doc, o).people =
               [Written(doc, o, "completed").people EXCEPT ![doc.ops[o].person] = None]
          /\ Deleted(doc, o).authority =
               [Written(doc, o, "completed").authority EXCEPT ![doc.ops[o].person] = None]
          /\ Deleted(doc, o).metadata =
               [g \in Pair |-> IF g[1] = doc.ops[o].person THEN None ELSE doc.metadata[g]]
          /\ Deleted(doc, o).grants =
               [g \in Pair |-> IF g[1] = doc.ops[o].person THEN None ELSE doc.grants[g]]
          /\ Deleted(doc, o).ops = Written(doc, o, "completed").ops
      BY <3>1, DeletedParts, Zenon
    <3>. QED
      BY <1>6, <1>10, <2>1, <2>2, <3>2
  <2>4. \A g \in Pair : IF g[1] = p THEN ms[g] = None
                        ELSE ms[g] = doc.metadata[g] /\ gs[g] = doc.grants[g]
    BY <2>2
  <2>5. \A q \in Person \ {p} : doc'.people[q] = doc.people[q] /\ doc'.authority[q] = doc.authority[q]
    BY <1>3, <1>11, <2>3 DEF Documents
  <2>6. doc'.metadata = ms /\ doc'.grants = gs /\ doc'.ops = w.ops
    BY <2>3
  <2>7. \A q : q # p => ActiveOf(doc', q) = ActiveOf(doc, q)
    <3>1. \A q : ActiveOf(doc', q) = ActiveOf(w, q)
      BY <2>6 DEF ActiveOf
    <3>. QED
      BY <1>12, <3>1
  <2>8. \A g \in Orphans(doc') : g \in Pair /\ g[1] \in Person \ {p}
    BY <2>4, <2>6 DEF Orphans, Recorded, Exists, Pair
  <2>. QED
    BY <2>4, <2>5, <2>6, <2>7, <2>8 DEF Orphans, Recorded, Granted, Exists
<1>15. ExpandDeletion(c) => Orphans(doc') \subseteq Orphans(doc)
  <2>. HAVE ExpandDeletion(c)
  <2>1. PICK v : v = Written(doc, o, "waiting_retry")
    OBVIOUS
  <2>2. PICK r : r = [v.ops[o] EXCEPT !.targets = @ \cup DoorsOf(doc, p)]
    OBVIOUS
  <2>3. doc' = [v EXCEPT !.ops[o] = r]
    BY <1>2, <1>6, <2>1, <2>2 DEF ExpandDeletion
  <2>4. /\ v \in Documents /\ v.metadata = doc.metadata /\ v.grants = doc.grants /\ v.people = doc.people
        /\ v.authority = doc.authority /\ v.ops[o] # None /\ v.ops[o].person = p
        /\ v.ops[o].status = "waiting_retry" /\ \A a \in Op \ {o} : v.ops[a] = doc.ops[a]
    BY <1>3, <1>4, <1>6, <2>1, WrittenKeeps DEF OperationStatus
  <2>5. /\ doc'.metadata = doc.metadata /\ doc'.grants = doc.grants /\ doc'.people = doc.people
        /\ doc'.authority = doc.authority /\ doc'.ops[o] = r /\ \A a \in Op \ {o} : doc'.ops[a] = doc.ops[a]
    BY <1>4, <2>3, <2>4 DEF Documents
  <2>6. r # None /\ r.person = p /\ r.status = "waiting_retry"
    <3>1. v.ops[o] \in LifecycleOperation
      BY <1>4, <2>4 DEF Documents
    <3>2. DoorsOf(doc, p) \subseteq Door
      BY DEF DoorsOf, Granted, Pair
    <3>3. r \in LifecycleOperation
      BY <2>2, <3>1, <3>2 DEF LifecycleOperation
    <3>. QED
      BY <2>2, <2>4, <3>1, <3>3, Assumptions DEF LifecycleOperation
  <2>. QED
    BY <1>7, <2>5, <2>6 DEF OperationStatus
<1>16. Orphans(doc') \subseteq Orphans(doc)
  BY <1>9, <1>13, <1>14, <1>15
<1>. QED
  BY <1>0, <1>3, <1>5, <1>16, OwedElsewhere DEF Reading

\* What is read after a repair, or changes nothing of a person.
LEMMA OwedReading ==
  ASSUME StatusInv, OrphansOwed, NEW c \in Caller,
         \/ RepairOrphans(c) \/ EvaluateDoor(c) \/ PronounceDoor(c) \/ Reevaluate(c)
  PROVE  OrphansOwed'
<1>1. doc \in Documents
  BY DEF StatusInv, TypeInv, Kept
<1>2. RepairOrphans(c) => Orphans(doc') = {}
  BY <1>1, NoOrphans DEF RepairOrphans
<1>3. EvaluateDoor(c) => Orphans(doc') = {}
  BY DEF EvaluateDoor, AfterRepair, Reads, records
<1>4. PronounceDoor(c) => Orphans(doc') = {}
  BY DEF PronounceDoor, AfterRepair, Reads, records
<1>5. Reevaluate(c) => Orphans(doc') = {}
  BY DEF Reevaluate, AfterRepair, records
<1>. QED
  BY <1>2, <1>3, <1>4, <1>5, OwedNone

\* A call talks, or stores what it read.
LEMMA OwedTalk ==
  ASSUME StatusInv, OrphansOwed, NEW c \in Caller,
         \/ TellHistory(c) \/ StoreStatus(c) \/ Observe(c) \/ GiveUp(c) \/ NothingToDelete(c)
         \/ ResumeFails(c) \/ Reread(c) \/ GiveAnswer(c)
         \/ \E work \in Work : ResumeOperation(c, work)
         \/ \E outcome \in {"verified", "failed", "pending"} : ResumeVerification(c, outcome)
         \/ \E outcome \in RemovalOutcome \cup {"stolen"} : ResumeRemoval(c, outcome)
  PROVE  OrphansOwed'
<1>0. TypeInv /\ doc \in Documents
  BY DEF StatusInv, TypeInv, Kept
<1>1. PICK what \in {"history", "upsert", "observe", "raise", "finish", "resume", "reread", "answer"} :
        Doing(c, what)
  BY DEF TellHistory, StoreStatus, Observe, GiveUp, NothingToDelete, Finishes, ResumeFails, Reread, GiveAnswer,
         ResumeOperation, ResumeVerification, ResumeRemoval, StillAsFound
<1>2. up = "up" /\ Head(call[c].todo).do = what
  BY <1>0, <1>1, Front
<1>3. PICK n : call' = [call EXCEPT ![c] = n]
  <2>1. TellHistory(c) \/ StoreStatus(c) \/ Observe(c) \/ GiveUp(c) \/ NothingToDelete(c)
        => \E n : call' = [call EXCEPT ![c] = n]
    BY DEF TellHistory, StoreStatus, Observe, GiveUp, NothingToDelete, Reads, Goes, Raises, Becomes
  <2>2. ResumeFails(c) \/ Reread(c) \/ GiveAnswer(c) => \E n : call' = [call EXCEPT ![c] = n]
    BY DEF ResumeFails, Reread, GiveAnswer, Goes, Raises, Becomes
  <2>3. /\ \A work : ResumeOperation(c, work) => \E n : call' = [call EXCEPT ![c] = n]
        /\ \A outcome : ResumeVerification(c, outcome) => \E n : call' = [call EXCEPT ![c] = n]
        /\ \A outcome : ResumeRemoval(c, outcome) => \E n : call' = [call EXCEPT ![c] = n]
    BY DEF ResumeOperation, ResumeVerification, ResumeRemoval, Resumes, Becomes
  <2>. QED
    BY <2>1, <2>2, <2>3
<1>4. doc' = doc \/ \E step, r : doc' = [doc EXCEPT !.statuses[step] = r]
  <2>1. StoreStatus(c) => doc' = doc \/ \E step, r : doc' = [doc EXCEPT !.statuses[step] = r]
    BY DEF StoreStatus
  <2>2. \/ TellHistory(c) \/ Observe(c) \/ GiveUp(c) \/ NothingToDelete(c)
        \/ ResumeFails(c) \/ Reread(c) \/ GiveAnswer(c)
        => doc' = doc
    BY DEF TellHistory, Observe, GiveUp, NothingToDelete, ResumeFails, Reread, GiveAnswer, Reads, records
  <2>3. /\ \A work : ResumeOperation(c, work) => doc' = doc
        /\ \A outcome : ResumeVerification(c, outcome) => doc' = doc
        /\ \A outcome : ResumeRemoval(c, outcome) => doc' = doc
    BY DEF ResumeOperation, ResumeVerification, ResumeRemoval, Resumes, records
  <2>. QED
    BY <2>1, <2>2, <2>3
<1>5. Orphans(doc') = Orphans(doc)
  <2>1. ASSUME NEW x, NEW r, doc' = [doc EXCEPT !.statuses[x] = r]
        PROVE  Orphans(doc') = Orphans(doc)
    <3>1. /\ doc'.metadata = doc.metadata /\ doc'.grants = doc.grants /\ doc'.people = doc.people
          /\ doc'.authority = doc.authority /\ doc'.ops = doc.ops
      BY <1>0, <2>1 DEF Documents
    <3>. QED
      BY <3>1 DEF Orphans, Recorded, Granted, Exists, ActiveOf
  <2>. QED
    BY <1>4, <2>1
<1>. QED
  BY <1>0, <1>2, <1>3, <1>5, OwedElsewhere DEF Reading

\* A process starts with a repair; a door that is removed tells nothing of people.
LEMMA OwedNext ==
  ASSUME StatusInv, OrphansOwed, [Next]_vars
  PROVE  OrphansOwed'
<1>1. Start => OrphansOwed'
  <2>. HAVE Start
  <2>1. CASE Migrate(doc) = None
    BY <2>1 DEF Start, OrphansOwed
  <2>2. CASE Migrate(doc) # None
    <3>1. up = "down" /\ clock \in Nat /\ TypeInv
      BY DEF Start, StatusInv, TypeInv
    <3>2. PICK now \in Nat : now = clock + 1
      BY <3>1
    <3>3. PICK d : d = Migrate(doc)
      OBVIOUS
    <3>4. Loaded(d)
      BY <2>2, <3>1, <3>3, Migrated DEF TypeInv, Kept
    <3>5. doc' = Evaluated(Repaired(d), now)
      BY <2>2, <3>2, <3>3 DEF Start
    <3>6. Orphans(Evaluated(Repaired(d), now)) = {}
      BY <3>4, StartedWell, Zenon
    <3>. QED
      BY <3>5, <3>6, OwedNone
  <2>. QED
    BY <2>1, <2>2
<1>2. Stop => OrphansOwed'
  BY DEF Stop, OrphansOwed
<1>3. ASSUME NEW x \in Door, RemoveDoor(x)
      PROVE  OrphansOwed'
  <2>1. doc \in Documents
    BY DEF StatusInv, TypeInv, Kept
  <2>2. up = "up" /\ call' = call /\ doc' = [doc EXCEPT !.doors[x].managed = FALSE, !.statuses[x] = None]
    BY <1>3 DEF RemoveDoor
  <2>3. /\ doc'.metadata = doc.metadata /\ doc'.grants = doc.grants /\ doc'.people = doc.people
        /\ doc'.authority = doc.authority /\ doc'.ops = doc.ops
    BY <2>1, <2>2 DEF Documents
  <2>4. Orphans(doc') = Orphans(doc)
    BY <2>3 DEF Orphans, Recorded, Granted, Exists, ActiveOf
  <2>. QED
    BY <2>2, <2>4 DEF OrphansOwed
<1>4. ASSUME NEW c \in Caller, Serve(c)
      PROVE  OrphansOwed'
  BY <1>4, OwedServe
<1>5. ASSUME NEW c \in Caller, Advance(c)
      PROVE  OrphansOwed'
  BY <1>5, OwedMetadata, OwedGrant, OwedOthers, OwedOperation, OwedReading, OwedTalk DEF Advance
<1>6. UNCHANGED vars => OrphansOwed'
  BY DEF vars, records, OrphansOwed
<1>. QED
  BY <1>1, <1>2, <1>3, <1>4, <1>5, <1>6 DEF Next

\* What the steps of calls rest on, and what remains to be done about the statuses of doors.
THEOREM StatusInvAlways == Spec => []StatusInv
<1>1. Init => StatusInv /\ OrphansOwed
  BY StatusInit DEF Init, OrphansOwed
<1>2. StatusInv /\ OrphansOwed /\ [Next]_vars => StatusInv' /\ OrphansOwed'
  BY StatusNext, OwedNext
<1>. QED
  BY <1>1, <1>2, PTL DEF Spec

\* When no call is under way, the status of a door is what the document gives, unless
\* it was pronounced or a call left the door out: no evaluation of an older reading stays.
THEOREM StatusCurrentAlways == Spec => []StatusCurrent
<1>1. StatusInv => StatusCurrent
  <2>. SUFFICES ASSUME StatusInv, Quiet, NEW x \in Managed(doc) \ verdicts, missed[x] = 0
                PROVE  doc.statuses[x].status = Evaluate(doc, x)
    BY DEF StatusCurrent
  <2>0. TypeInv /\ up = "up" /\ Settled(x) /\ Loaded(doc) /\ \A c \in Caller : call[c] = Free
    BY DEF StatusInv, Quiet, TypeInv, Kept
  <2>1. x \in Door /\ doc.statuses[x] # None
    <3>1. Valid(doc) /\ x \in Door
      BY <2>0 DEF Loaded, Managed, Enrolled
    <3>. QED
      BY <3>1 DEF Valid, Referential
  <2>2. doc.statuses[x].at > 0 /\ doc.statuses[x].at \in Nat
    BY <2>0, <2>1, DocumentParts DEF TypeInv, Kept, DoorStatus
  <2>3. Coming(x) = {}
    BY <2>0, NothingPending DEF Coming
  <2>4. \A c \in Caller : ~Owes(call[c], x)
    BY <2>0 DEF Owes, Free
  <2>5. ~LeftOut(x)
    BY <2>2, SMTT(30) DEF LeftOut
  <2>6. StoredLast(x)
    BY <2>0, <2>3, <2>4, <2>5 DEF Settled
  <2>. QED
    BY <2>6 DEF StoredLast
<1>. QED
  BY <1>1, StatusInvAlways, PTL

(***************************************************************************)
(* What recoveries answer.                                                 *)
(***************************************************************************)
\* An answer that a recovery is complete rests on what it found, or read last.
LEMMA AnswerFaithful ==
  ASSUME TypeInv, NEW c \in Caller, Doing(c, "answer"),
         IF Step(c).said = "seen"
         THEN Said(IF call[c].failed THEN call[c].was ELSE call[c].seen) = "completed"
         ELSE Step(c).said = "completed"
  PROVE  call[c].fact \in {"works", "gone"}
<1>. DEFINE k == call[c]
<1>1. CallOn(k) /\ Step(c).do = "answer"
  <2>1. k.todo # <<>> /\ CallOK(k) /\ Step(c).do = "answer"
    BY DEF Doing, Step, TypeInv, Called
  <2>. QED
    BY <2>1, Busy
<1>2. Step(c) \in Steps(k)
  <2>1. Step(c) \in Wild(k) \cup Evaluations
    BY <1>1, ScriptTail DEF CallOn, Doing, Step
  <2>2. \A s \in Wild(k) \cup Evaluations : s.do = "answer" => s \in Steps(k)
    BY DEF Wild, Mild, Guarding, Evaluations
  <2>. QED
    BY <1>1, <2>1, <2>2
<1>3. Recovering(k) /\ Step(c) \in Saying \cup (IF k.was = "synchronized" THEN Completing ELSE Seeing)
  <2>1. \A s \in OfPair \cup OfOperation \cup [do : {"raise"}] : s.do # "answer"
    BY DEF OfPair, OfOperation
  <2>. QED
    BY <1>1, <1>2, <2>1 DEF Steps
<1>4. Faithful(k)
  BY <1>1, <1>3 DEF CallOn, Formed
<1>5. CASE Step(c).said = "seen"
  <2>1. \A status : Said(status) = "completed" => status = "synchronized"
    BY DEF Said
  <2>2. k.was = "synchronized" \/ k.seen = "synchronized"
    BY <1>5, <2>1
  <2>. QED
    BY <1>4, <2>2 DEF Faithful
<1>6. CASE Step(c).said # "seen"
  <2>1. Step(c).said = "completed"
    BY <1>6
  <2>2. \A s \in Saying \cup Seeing : s.do = "answer" => s.said # "completed"
    BY DEF Saying, Seeing
  <2>3. k.was = "synchronized"
    BY <1>1, <1>3, <2>1, <2>2
  <2>. QED
    BY <1>4, <2>3 DEF Faithful
<1>. QED
  BY <1>5, <1>6

\* Only GiveAnswer answers.
LEMMA NoAnswer ==
  ASSUME NEW c \in Caller
  PROVE  /\ Serve(c) => answers' = answers
         /\ Advance(c) => answers' = answers \/ GiveAnswer(c)
<1>1. \A g, status : GiveAccess(c, g, status) => answers' = answers
  BY DEF GiveAccess, told
<1>2. \A g, outcome : RemoveAccess(c, g, outcome) => answers' = answers
  BY DEF RemoveAccess, told
<1>3. \A g : Recover(c, g) => answers' = answers
  BY DEF Recover, told
<1>4. \A o, work : StartOperation(c, o, work) => answers' = answers
  BY DEF StartOperation, told
<1>5. Serve(c) => answers' = answers
  BY <1>1, <1>2, <1>3, <1>4 DEF Serve
<1>6. WriteMetadata(c) \/ WriteGrant(c) \/ WriteNewGrant(c) \/ DropGrant(c) \/ DropMetadata(c)
      => answers' = answers
  BY DEF WriteMetadata, WriteGrant, WriteNewGrant, DropGrant, DropMetadata, told
<1>7. TellHistory(c) \/ WriteOperation(c) \/ GiveUp(c) \/ StoreStatus(c) => answers' = answers
  BY DEF TellHistory, WriteOperation, GiveUp, StoreStatus, told
<1>8. RepairOrphans(c) \/ EvaluateDoor(c) \/ PronounceDoor(c) \/ Observe(c) => answers' = answers
  BY DEF RepairOrphans, EvaluateDoor, PronounceDoor, Observe, Reads, told
<1>9. FinishReplacement(c) \/ FinishDeletion(c) \/ ExpandDeletion(c) \/ NothingToDelete(c)
      => answers' = answers
  BY DEF FinishReplacement, FinishDeletion, ExpandDeletion, NothingToDelete, told
<1>10. ResumeFails(c) \/ Reevaluate(c) \/ Reread(c) => answers' = answers
  BY DEF ResumeFails, Reevaluate, Reread, told
<1>11. \A work : ResumeOperation(c, work) => answers' = answers
  BY DEF ResumeOperation, Resumes, told
<1>12. \A outcome : ResumeVerification(c, outcome) => answers' = answers
  BY DEF ResumeVerification, Resumes, told
<1>13. \A outcome : ResumeRemoval(c, outcome) => answers' = answers
  BY DEF ResumeRemoval, Resumes, told
<1>14. Advance(c) => answers' = answers \/ GiveAnswer(c)
  BY <1>6, <1>7, <1>8, <1>9, <1>10, <1>11, <1>12, <1>13 DEF Advance
<1>. QED
  BY <1>5, <1>14

\* A step adds no answer to those of recoveries but a faithful one.
LEMMA RecoveryNext ==
  ASSUME StatusInv, RecoveryTruthful, [Next]_vars
  PROVE  RecoveryTruthful'
<1>1. ASSUME NEW c \in Caller, GiveAnswer(c)
      PROVE  RecoveryTruthful'
  <2>. DEFINE status == IF call[c].failed THEN call[c].was ELSE call[c].seen
              said == IF Step(c).said = "seen" THEN Said(status) ELSE Step(c).said
  <2>1. answers' = answers \cup {[said |-> said, fact |-> call[c].fact]} /\ Doing(c, "answer")
    BY <1>1 DEF GiveAnswer
  <2>2. said = "completed" => call[c].fact \in {"works", "gone"}
    <3>. HAVE said = "completed"
    <3>1. IF Step(c).said = "seen" THEN Said(status) = "completed" ELSE Step(c).said = "completed"
      OBVIOUS
    <3>2. TypeInv
      BY DEF StatusInv
    <3>. QED
      BY <2>1, <3>1, <3>2, AnswerFaithful
  <2>. HIDE DEF said
  <2>. QED
    BY <2>1, <2>2 DEF RecoveryTruthful
<1>2. answers' = answers => RecoveryTruthful'
  BY DEF RecoveryTruthful
<1>3. Start \/ Stop \/ UNCHANGED vars => answers' = answers
  BY DEF Start, Stop, vars, told
<1>4. \A x \in Door : RemoveDoor(x) => answers' = answers
  BY DEF RemoveDoor, told
<1>. QED
  BY <1>1, <1>2, <1>3, <1>4, NoAnswer DEF Next

\* A recovery that answers that it is complete has read, after the last thing it did,
\* that the PIN works at the door or is gone from it.
THEOREM RecoveryTruthfulAlways == Spec => []RecoveryTruthful
<1>1. Init => RecoveryTruthful
  BY DEF Init, RecoveryTruthful
<1>2. StatusInv /\ RecoveryTruthful /\ [Next]_vars => RecoveryTruthful'
  BY RecoveryNext
<1>. QED
  BY <1>1, <1>2, StatusInvAlways, PTL DEF Spec

(***************************************************************************)
(* Documents on disk that load, and load again.                            *)
(***************************************************************************)
Loading == \A home \in Homes : Migrate(home.doc) # None

Loads == up # "failed" /\ (up = "down" => Migrate(doc) # None)

\* A loaded document loads again.
LEMMA LoadedAgain ==
  ASSUME NEW d, Loaded(d)
  PROVE  Migrate(d) # None
<1>1. d \in Documents /\ Valid(d) /\ d.version = 19
  BY DEF Loaded, Recent, Dated, Current
<1>2. Migrate(d) = d
  BY <1>1 DEF Migrate, Validated
<1>. QED
  BY <1>1, <1>2, Assumptions

\* Calls are served, and go on, in a process that is up.
LEMMA StaysUp ==
  ASSUME NEW c \in Caller, Serve(c) \/ Advance(c)
  PROVE  up = "up" /\ up' = "up"
<1>1. \A g, status : GiveAccess(c, g, status) => up = "up" /\ up' = up
  BY DEF GiveAccess, Begins, Ready
<1>2. \A g, outcome : RemoveAccess(c, g, outcome) => up = "up" /\ up' = up
  BY DEF RemoveAccess, Begins, Ready
<1>3. \A g : Recover(c, g) => up = "up" /\ up' = up
  BY DEF Recover, Begins, Ready
<1>4. \A o, work : StartOperation(c, o, work) => up = "up" /\ up' = up
  BY DEF StartOperation, Begins, Ready
<1>5. Serve(c) => up = "up" /\ up' = up
  BY <1>1, <1>2, <1>3, <1>4 DEF Serve
<1>6. WriteMetadata(c) \/ WriteGrant(c) \/ WriteNewGrant(c) \/ DropGrant(c) \/ DropMetadata(c)
      => up = "up" /\ up' = up
  BY DEF WriteMetadata, WriteGrant, WriteNewGrant, DropGrant, DropMetadata, Doing
<1>7. TellHistory(c) \/ WriteOperation(c) \/ GiveUp(c) \/ StoreStatus(c) => up = "up" /\ up' = up
  BY DEF TellHistory, WriteOperation, GiveUp, StoreStatus, Doing, records
<1>8. RepairOrphans(c) \/ EvaluateDoor(c) \/ PronounceDoor(c) \/ Observe(c) => up = "up" /\ up' = up
  BY DEF RepairOrphans, EvaluateDoor, PronounceDoor, AfterRepair, Observe, Reads, Doing, records
<1>9. FinishReplacement(c) \/ FinishDeletion(c) \/ ExpandDeletion(c) \/ NothingToDelete(c)
      => up = "up" /\ up' = up
  BY DEF FinishReplacement, FinishDeletion, ExpandDeletion, NothingToDelete, Finishes, Doing, records
<1>10. ResumeFails(c) \/ Reevaluate(c) \/ Reread(c) \/ GiveAnswer(c) => up = "up" /\ up' = up
  BY DEF ResumeFails, Reevaluate, AfterRepair, Reread, GiveAnswer, Doing, records
<1>11. \A work : ResumeOperation(c, work) => up = "up" /\ up' = up
  BY DEF ResumeOperation, Resumes, Doing, records
<1>12. \A outcome : ResumeVerification(c, outcome) => up = "up" /\ up' = up
  BY DEF ResumeVerification, StillAsFound, Resumes, Doing, records
<1>13. \A outcome : ResumeRemoval(c, outcome) => up = "up" /\ up' = up
  BY DEF ResumeRemoval, StillAsFound, Resumes, Doing, records
<1>14. Advance(c) => up = "up" /\ up' = up
  BY <1>6, <1>7, <1>8, <1>9, <1>10, <1>11, <1>12, <1>13 DEF Advance
<1>. QED
  BY <1>5, <1>14

\* What is on disk when the process stops was loaded, or written by it, and loads.
LEMMA LoadsNext ==
  ASSUME StatusInv, Loads, [Next]_vars
  PROVE  Loads'
<1>1. Start => Loads'
  BY DEF Loads, Start
<1>2. Stop => Loads'
  <2>. HAVE Stop
  <2>1. up = "up" /\ up' = "down" /\ doc' = doc
    BY DEF Stop
  <2>2. Loaded(doc)
    BY <2>1 DEF StatusInv, TypeInv, Kept
  <2>. QED
    BY <2>1, <2>2, LoadedAgain DEF Loads
<1>3. \A x \in Door : RemoveDoor(x) => Loads'
  BY DEF RemoveDoor, Loads
<1>4. \A c \in Caller : Serve(c) \/ Advance(c) => Loads'
  BY StaysUp DEF Loads
<1>5. UNCHANGED vars => Loads'
  BY DEF vars, records, Loads
<1>. QED
  BY <1>1, <1>2, <1>3, <1>4, <1>5 DEF Next

\* At every start the document on disk is one that loads.
LEMMA LoadsAlways ==
  ASSUME Loading
  PROVE  Spec => []Loads
<1>1. Init => Loads
  BY DEF Init, Loading, Loads
<1>2. StatusInv /\ Loads /\ [Next]_vars => Loads'
  BY LoadsNext
<1>. QED
  BY <1>1, <1>2, StatusInvAlways, PTL DEF Spec

\* A home whose document loads at the first start loads at every later one, whatever
\* has been written meanwhile and wherever the process stopped.
THEOREM DocumentsLoadAlways ==
  ASSUME Loading
  PROVE  Spec => []DocumentsLoad
<1>1. Loads => DocumentsLoad
  BY DEF Loads, DocumentsLoad
<1>. QED
  BY <1>1, LoadsAlways, PTL

\* All writes keep the document valid, and no time stamp comes from the future.
THEOREM TypeOKAlways ==
  ASSUME Loading
  PROVE  Spec => []TypeOK
<1>1. StatusInv /\ Loads => TypeOK
  <2>. SUFFICES ASSUME StatusInv, Loads PROVE TypeOK
    OBVIOUS
  <2>1. TypeInv /\ Kept
    BY DEF StatusInv, TypeInv
  <2>2. \A x \in Door : doc.statuses[x] # None =>
          doc.statuses[x].status \in Status /\ doc.statuses[x].at <= clock
    BY <2>1, DocumentParts DEF Kept, DoorStatus
  <2>3. \A x \in Door : missed[x] <= clock
    BY <2>1 DEF TypeInv
  <2>4. up \in {"down", "up"} /\ (up = "up" => Valid(doc)) /\ verdicts \subseteq Door
    BY <2>1 DEF TypeInv, Kept, Loaded, Loads
  <2>. QED
    BY <2>2, <2>3, <2>4 DEF TypeOK
<1>. QED
  BY <1>1, LoadsAlways, StatusInvAlways, PTL
=============================================================================
