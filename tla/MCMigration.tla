------------------------------ MODULE MCMigration ------------------------------
(***************************************************************************)
(* Documents of the schemas 1 to 10, as those versions of HomePASS wrote   *)
(* them: enrolments of two fields, from schema 9 on; no collection of      *)
(* doors before schema 10; and each record with the fields of its time.    *)
(***************************************************************************)
EXTENDS MCSynchronization

Early(version) ==
  LET d == Document(version, <<anna, front>> :> "working" @@ <<ben, front>> :> "out_of_sync")
  IN [d EXCEPT
       !.people = [who \in Person |-> IF version > 6 THEN evening ELSE None],
       !.schedules = IF version > 6 THEN {always, evening} ELSE {},
       !.points = IF version > 9 THEN {front} ELSE {},
       !.doors = [x \in Door |->
          IF version > 8 /\ x = front THEN [managed |-> TRUE, full |-> FALSE] ELSE None],
       !.grants = [g \in Pair |->
          IF version < 3 \/ d.grants[g] = None THEN None
          ELSE [d.grants[g] EXCEPT !.schedule = IF version > 6 THEN evening ELSE None]],
       !.metadata = [g \in Pair |-> IF version < 2 THEN None ELSE d.metadata[g]]]

MCEarlyHomes == {HomeOf(Early(version), [restarts |-> 0], "other") : version \in 1..10}
=============================================================================
