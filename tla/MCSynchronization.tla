--------------------------- MODULE MCSynchronization ---------------------------
(***************************************************************************)
(* Two people and three doors.  Documents of the current schema, in which  *)
(* calls meet, and documents of the schemas from 11 on, which are migrated *)
(* first; of schema 10 that of a home without doors, as MCMigration has    *)
(* the others.  The protected schedule is the first one.                   *)
(***************************************************************************)
EXTENDS SynchronizationRecovery, TLC

CONSTANTS anna, ben, front, back, side, repl, del, always, evening, pinA, pinB

MCInOrder ==
  [xs \in SUBSET Door |-> SelectSeq(<<front, back, side>>, LAMBDA x : x \in xs)]
MCKind == repl :> "replacement" @@ del :> "deletion"

\* A caller is as good as another: each may begin whatever is asked.
Symmetry == Permutations(Caller)

Budget(some) ==
  some @@ [kind \in {"gives", "removals", "operations", "recoveries", "doors", "restarts"} |-> 0]

PinOf(who) == IF who = anna THEN pinA ELSE pinB

\* A document in which these pairs have access with these statuses.
Document(version, status) ==
  LET has == DOMAIN status
      doors == {g[2] : g \in has} \cup {front}
  IN [version |-> version, has |-> Collections(version),
      people |-> [who \in Person |-> evening], schedules |-> {always, evening},
      points |-> doors,
      doors |-> [d \in Door |-> IF d \in doors THEN [managed |-> TRUE, full |-> TRUE] ELSE None],
      authority |-> [who \in Person |-> IF version > 13 THEN PinOf(who) ELSE None],
      metadata |-> [g \in Pair |->
         IF g \in has THEN [cred |-> PinOf(g[1]), status |-> status[g]] ELSE None],
      grants |-> [g \in Pair |->
         IF g \in has THEN [schedule |-> evening, cred |-> PinOf(g[1]), status |-> status[g]]
         ELSE None],
      statuses |-> [d \in Door |->
         IF d \in doors /\ version > 10 THEN [status |-> "unknown", at |-> 0] ELSE None],
      ops |-> [o \in Op |-> None]]

HomeOf(d, some, event) ==
  [doc |-> d, may |-> Budget(some), latest |-> [g \in Pair |-> event]]

Fine(pairs) == [g \in pairs |-> "synchronized"]
Odd(g, status) == g :> status @@ Fine({<<ben, front>>})

\* Calls meet: of one person at three doors, of two people at one.
Meeting ==
  {HomeOf(Document(19, Fine({<<anna, front>>, <<anna, back>>, <<anna, side>>})), some, "other") : some \in
     {[removals |-> 2], [operations |-> 1, gives |-> 1]}}
  \cup {HomeOf(Document(19, Fine({<<anna, front>>, <<anna, back>>, <<ben, back>>})), some, "other") : some \in
     {[operations |-> 1, removals |-> 1],
      [operations |-> 1, gives |-> 1],
      [operations |-> 1, recoveries |-> 1, restarts |-> 1],
      [removals |-> 2, restarts |-> 1],
      [removals |-> 1, operations |-> 1, restarts |-> 1],
      [removals |-> 1, gives |-> 1, doors |-> 1]}}

\* A relationship that is not in order is recovered, more than once.
Recovered ==
  {HomeOf(Document(19, Odd(<<anna, front>>, status)), some, event) :
     status \in {"unknown", "retry_required", "manual_attention_required"},
     event \in {"pending", "failed", "other"},
     some \in {[recoveries |-> 1, removals |-> 1], [recoveries |-> 1, doors |-> 1, restarts |-> 1]}}

\* An operation that the last process left, or two.
Left(o, status) ==
  LET d == Document(19, Fine({<<anna, front>>, <<anna, back>>}))
  IN [d EXCEPT !.ops[o] = Operation(d, anna, status)]

Interrupted ==
  {HomeOf(Left(o, status), some, "failed") :
     o \in Op, status \in {"running", "waiting_retry", "failed"},
     some \in {[recoveries |-> 2], [recoveries |-> 1, removals |-> 1],
               [recoveries |-> 1, operations |-> 1]}}

\* Older documents: with doors that need their fields, with owners of PINs to be found.
Retained(d) ==
  [d EXCEPT !.people[ben] = None, !.grants[<<ben, front>>] = None, !.authority[ben] = None]
Shared(d) ==
  [d EXCEPT !.metadata[<<ben, front>>].cred = pinA]
Slotted(d) ==
  [Retained(d) EXCEPT !.metadata[<<ben, front>>] = [cred |-> None, status |-> "unknown"]]

\* Nobody has claimed the slot of a person who is still there.
Unowned(d) ==
  [d EXCEPT !.metadata[<<ben, front>>] = [cred |-> None, status |-> "unknown"]]

\* The other eight fields of an enrolment came with schema 16.
Enrolled16(d) ==
  [d EXCEPT !.doors = [x \in Door |->
     IF d.doors[x] = None THEN None ELSE [d.doors[x] EXCEPT !.full = d.version > 15]]]

\* A home that never had a door: it has no status either.
Doorless(version) ==
  [Document(version, [g \in {} |-> None]) EXCEPT
    !.points = {}, !.doors = [x \in Door |-> None], !.statuses = [x \in Door |-> None]]

Older ==
  LET Both(version) ==
        Enrolled16(Document(version, Fine({<<anna, front>>, <<ben, front>>, <<anna, back>>})))
  IN {Both(version) : version \in 11..18}
     \cup {Retained(Both(version)) : version \in {12, 13}}
     \cup {Shared(Retained(Both(version))) : version \in {11, 13}}
     \cup {Slotted(Both(version)) : version \in {13, 14}}
     \cup {Doorless(10)}

Migrated ==
  {HomeOf(d, some, "failed") : d \in Older,
     some \in {[recoveries |-> 1, restarts |-> 1], [removals |-> 1]}}

\* A person goes while the removal of an unclaimed slot writes its record.
Orphaned ==
  {HomeOf(Unowned(Enrolled16(Document(13, Fine({<<anna, back>>, <<ben, front>>})))),
          [removals |-> 1, operations |-> 1], "failed")}

MCHomes == Meeting \cup Recovered \cup Interrupted \cup Migrated \cup Orphaned
=============================================================================
