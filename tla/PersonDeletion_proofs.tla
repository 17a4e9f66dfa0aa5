------------------------- MODULE PersonDeletion_proofs -------------------------
(***************************************************************************)
(* Proofs about PersonDeletion, for any number of calls, access points,    *)
(* operations, changes by other services and retries.                      *)
(***************************************************************************)
EXTENDS PersonDeletion, TLAPS

\* A target that payload p claims to be empty was seen empty by operation o.
Backed(o, p) ==
  /\ p.done \subseteq seen[o]
  /\ \A t \in Target : p.state[t] \in {"removal_confirmed", "success"} => t \in seen[o]

\* A payload that claims nothing yet.
Blank(p) == p.done = {} /\ p.state = [t \in Target |-> "removal_not_requested"]

BeforeOperation == {"idle", "lookup", "capture", "create"}

\* The access point that a session with payload p is at.
Head(p, t) ==
  /\ t \in p.targets \ p.done
  /\ \A u \in p.targets \ p.done : t <= u

\* States of a target that no clear was sent to.
Unsent == {"removal_not_requested", "removal_request_rejected", "pending"}

\* A session in state x stands where its copy of the payload says, j being
\* the journal.
PlacedIn(x, j) ==
  /\ x.pc \in BeforeOperation => x.op = None /\ Blank(x.payload)
  /\ x.pc \notin BeforeOperation => x.op \in Op /\ j[x.op] # None /\ Backed(x.op, x.payload)
  /\ x.pc = "request" => \A t \in Target : Head(x.payload, t) => x.payload.state[t] \notin Unsent
  /\ x.pc = "commit" => x.payload.targets \subseteq x.payload.done
  /\ x.pc = "commit" /\ edits = 0 => ~nfc
  /\ x.pc = "verified" /\ x.answer = "removed" =>
       \A t \in Target : Head(x.payload, t) => t \in seen[x.op]
  /\ x.pc \in {"observe", "cleanup"} => ~person

Placed(x) == PlacedIn(x, journal)

JournalInv ==
  \A o \in Op : journal[o] # None =>
    /\ Backed(o, journal[o].payload)
    /\ journal[o].status = "completed" => ~person

\* Without changes by other services a lock once seen empty stays empty.
Undisturbed ==
  edits = 0 =>
    /\ \A o \in Op : \A t \in seen[o] : ~holds[t]
    /\ person => granted = Target
    /\ ~person => ~nfc /\ \A t \in Locks : ~holds[t]

IInv ==
  /\ TypeOK /\ JournalInv /\ Undisturbed
  /\ person => secret
  /\ \A s \in Session : Placed(sess[s])

-----------------------------------------------------------------------------
(* One call at a time                                                       *)

NotSent(o, t) == sent[o][t] = 0

\* The journal knows of every clear that was sent, j being the journal.
KnowsClears(j) ==
  \A o \in Op, t \in ZWaves :
    /\ sent[o][t] <= 1
    /\ j[o] = None => NotSent(o, t)
    /\ j[o] # None /\ (t \notin j[o].payload.targets \/ j[o].payload.state[t] \in Unsent) =>
         NotSent(o, t)

\* The operations that are incomplete in j.
ActiveIn(j) == {o \in Op : j[o] # None /\ Incomplete(j[o])}

\* What a session in state x, the only one, can rely on.
AloneIn(x, j) ==
  /\ x.pc \notin {"idle", "observe", "cleanup"} => person
  /\ x.pc \in {"capture", "create"} => ActiveIn(j) = {}
  /\ x.pc \notin BeforeOperation => ActiveIn(j) \subseteq {x.op} /\ x.payload = j[x.op].payload
  /\ x.pc = "request" \/ (x.pc = "answered" /\ x.answer = "rejected") =>
       \A t \in ZWaves : Head(x.payload, t) => NotSent(x.op, t)

Alone ==
  ~overlap =>
    /\ \A s, r \in Session : sess[s].pc # "idle" /\ sess[r].pc # "idle" => s = r
    /\ \A s \in Session : AloneIn(sess[s], journal)
    /\ \A o, q \in ActiveIn(journal) : o = q
    /\ ~person => ActiveIn(journal) = {}
    /\ KnowsClears(journal)

Inv == IInv /\ Alone

-----------------------------------------------------------------------------
LEMMA IdleFacts ==
  /\ Idle \in Sessions /\ Idle.pc = "idle" /\ Idle.op = None
  /\ \A j : PlacedIn(Idle, j) /\ AloneIn(Idle, j)
<1>1. /\ NewPayload({}) \in Payload
      /\ Blank(NewPayload({}))
  BY DEF NewPayload, Payload, RemovalState, Dated, Blank
<1>2. Idle \in Sessions /\ Idle.pc = "idle" /\ Idle.op = None /\ Idle.payload = NewPayload({})
  BY <1>1 DEF Idle, Sessions, Control
<1> QED BY <1>1, <1>2 DEF PlacedIn, AloneIn, BeforeOperation

LEMMA DatedFacts ==
  ASSUME NEW t \in Target, NEW state \in Dated \ {"success"}
  PROVE  /\ DatedOperation(t, state) \in Operation(Payload)
         /\ DatedOperation(t, state).status = "waiting_retry"
         /\ DatedOperation(t, state).payload.done = 1..(t - 1)
         /\ DatedOperation(t, state).payload.targets = Target
         /\ \A u \in Target :
              DatedOperation(t, state).payload.state[u] =
                IF u < t THEN "success" ELSE IF u = t THEN state ELSE "pending"
<1> USE Assumptions
<1> DEFINE p == [targets |-> Target, done |-> 1..(t - 1), dated |-> Target,
                 state |-> [u \in Target |-> IF u < t THEN "success"
                                             ELSE IF u = t THEN state ELSE "pending"]]
<1>1. 1..(t - 1) \subseteq Target /\ t \in Nat
  BY DEF Target
<1>2. p.state \in [Target -> RemovalState]
  BY DEF RemovalState, Dated
<1>3. p \in Payload
  BY <1>1, <1>2 DEF Payload
<1>6. DatedOperation(t, state) = [NewOperation(p) EXCEPT !.status = "waiting_retry"]
  BY Zenon DEF DatedOperation
<1> HIDE DEF p
<1>4. DatedOperation(t, state) = [status |-> "waiting_retry", retries |-> 0, payload |-> p]
  BY <1>6 DEF NewOperation
<1>5. DatedOperation(t, state) \in Operation(Payload)
  BY <1>3, <1>4 DEF Operation, OperationStatus, RetryCount
<1> QED BY <1>4, <1>5 DEF p

LEMMA InitInv == Init => Inv
<1> SUFFICES ASSUME Init PROVE Inv
  OBVIOUS
<1> USE Assumptions
<1>2. /\ person = TRUE /\ nfc = TRUE /\ secret = TRUE /\ granted = Target /\ edits = 0
      /\ overlap = FALSE /\ edits \in 0..MaxEdits
      /\ \A s \in Session : sess[s] = Idle
      /\ sess \in [Session -> Sessions]
  BY IdleFacts DEF Init
<1>3. CASE /\ journal = [o \in Op |-> None]
           /\ holds = [t \in Target |-> t \in Locks]
           /\ air = [t \in Target |-> 0]
           /\ sent = [o \in Op |-> [t \in Target |-> 0]]
           /\ seen = [o \in Op |-> {}]
  <2>1. TypeOK
    <3>1. /\ journal \in [Op -> Operation(Payload) \cup {None}]
          /\ holds \in [Target -> BOOLEAN] /\ air \in [Target -> 0..2]
      BY <1>3
    <3>2. sent \in [Op -> [Target -> 0..2]] /\ seen \in [Op -> SUBSET Target]
      BY <1>3
    <3> QED BY <1>2, <3>1, <3>2 DEF TypeOK
  <2>2. JournalInv /\ Undisturbed
    BY <1>2, <1>3 DEF JournalInv, Undisturbed
  <2>3. Alone
    BY <1>2, <1>3, IdleFacts DEF Alone, ActiveIn, KnowsClears, NotSent, ZWaves, Locks
  <2> QED BY <1>2, <2>1, <2>2, <2>3, IdleFacts DEF Inv, IInv, Placed
<1>4. ASSUME NEW t \in Target, NEW state \in Dated \ {"success"},
        journal = [o \in Op |-> IF o = 1 THEN DatedOperation(t, state) ELSE None],
        holds = [u \in Target |-> u \in Locks /\ u >= t],
        LET out(u) == u = t /\ state = "retryable_failure"
        IN /\ air = [u \in Target |-> IF out(u) /\ u \in ZWaves THEN 1 ELSE 0]
           /\ sent = [o \in Op |-> [u \in Target |-> IF o = 1 /\ out(u) THEN 1 ELSE 0]],
        seen = [o \in Op |-> IF o = 1 THEN 1..(t - 1) ELSE {}]
      PROVE Inv
  <2>1. 1..(t - 1) \subseteq Target /\ t \in Nat /\ \A u \in Target : u \in Nat
    BY DEF Target
  <2>2. TypeOK
    <3>1. journal \in [Op -> Operation(Payload) \cup {None}]
      BY DatedFacts, <1>4
    <3>2. air \in [Target -> 0..2] /\ sent \in [Op -> [Target -> 0..2]]
      BY <1>4
    <3>3. holds \in [Target -> BOOLEAN] /\ seen \in [Op -> SUBSET Target]
      BY <1>4, <2>1
    <3> QED BY <1>2, <3>1, <3>2, <3>3 DEF TypeOK
  <2>3. \A o \in Op : journal[o] # None => o = 1 /\ journal[o] = DatedOperation(t, state)
    BY <1>4
  <2>4. JournalInv
    <3> SUFFICES ASSUME NEW o \in Op, journal[o] # None
                 PROVE  /\ Backed(o, journal[o].payload)
                        /\ journal[o].status # "completed"
      BY DEF JournalInv
    <3>1. o = 1 /\ seen[o] = 1..(t - 1) /\ journal[o] = DatedOperation(t, state)
      BY <1>4, <2>3
    <3>2. journal[o].payload.done = seen[o] /\ journal[o].status # "completed"
      BY DatedFacts, <3>1
    <3>3. ASSUME NEW u \in Target,
                 journal[o].payload.state[u] \in {"removal_confirmed", "success"}
          PROVE  u \in seen[o]
      <4>1. state \notin {"removal_confirmed", "success"}
        BY DEF Dated
      <4>2. u < t
        BY DatedFacts, <3>1, <3>3, <4>1
      <4> QED BY <2>1, <3>1, <4>2 DEF Target
    <3> QED BY <3>2, <3>3 DEF Backed
  <2>5. Undisturbed
    <3>1. ASSUME NEW o \in Op, NEW u \in seen[o] PROVE ~holds[u]
      <4>1. u \in 1..(t - 1)
        BY <1>4
      <4>2. u \in Target /\ ~(u >= t)
        BY <2>1, <4>1
      <4> QED BY <1>4, <4>2
    <3> QED BY <1>2, <3>1 DEF Undisturbed
  <2>6. KnowsClears(journal)
    <3> SUFFICES ASSUME NEW o \in Op, NEW u \in ZWaves
                 PROVE  /\ sent[o][u] <= 1
                        /\ journal[o] = None => NotSent(o, u)
                        /\ journal[o] # None /\ (u \notin journal[o].payload.targets
                              \/ journal[o].payload.state[u] \in Unsent) => NotSent(o, u)
      BY DEF KnowsClears
    <3>1. u \in Target
      BY DEF ZWaves, Locks
    <3>2. sent[o][u] = IF o = 1 /\ u = t /\ state = "retryable_failure" THEN 1 ELSE 0
      BY <1>4, <3>1
    <3>3. o = 1 => journal[o] = DatedOperation(t, state) /\ journal[o] # None
      <4>1. DatedOperation(t, state) # None
        BY DatedFacts
      <4> QED BY <1>4, <4>1
    <3>4. o = 1 /\ u = t => journal[o].payload.state[u] = state
                            /\ u \in journal[o].payload.targets
      BY DatedFacts, <2>1, <3>3
    <3> QED BY <3>2, <3>3, <3>4 DEF NotSent, Unsent
  <2>7. Alone
    BY <1>2, <2>3, <2>6, IdleFacts DEF Alone, ActiveIn
  <2> QED BY <1>2, <2>2, <2>4, <2>5, <2>7, IdleFacts DEF Inv, IInv, Placed
<1> QED BY <1>3, <1>4 DEF Init

-----------------------------------------------------------------------------
(* Steps that only move a session, and steps that also write its operation. *)

\* Session s, which was not idle, goes on as y; devices and registry may change
\* as they do when locks are cleared and read and authority is taken away.
LEMMA SessionMovesOn ==
  ASSUME Inv, NEW s \in Session, NEW y \in Sessions, sess[s].pc # "idle",
         sess' = [sess EXCEPT ![s] = y],
         y = Idle \/ PlacedIn(y, journal)', y = Idle \/ overlap \/ AloneIn(y, journal)',
         UNCHANGED <<person, granted, edits, journal, overlap>>,
         nfc' \in {nfc, FALSE}, secret' \in {secret, FALSE}, person => secret',
         holds' \in [Target -> BOOLEAN], \A t \in Target : holds'[t] => holds[t],
         air' \in [Target -> 0..2],
         sent' \in [Op -> [Target -> 0..2]], overlap \/ KnowsClears(journal)',
         seen' \in [Op -> SUBSET Target],
         \A o \in Op : /\ seen[o] \subseteq seen'[o]
                       /\ \A t \in seen'[o] \ seen[o] : ~holds[t]
  PROVE  Inv'
<1>1. \A r \in Session : sess'[r] = IF r = s THEN y ELSE sess[r]
  BY DEF Inv, IInv, TypeOK
<1>2. TypeOK'
  <2>1. sess' \in [Session -> Sessions]
    BY DEF Inv, IInv, TypeOK
  <2> QED BY <2>1 DEF Inv, IInv, TypeOK
<1>3. JournalInv'
  BY DEF Inv, IInv, JournalInv, Backed
<1>4. Undisturbed'
  <2> SUFFICES ASSUME edits = 0
               PROVE  /\ \A o \in Op : \A t \in seen'[o] : ~holds'[t]
                      /\ person => granted = Target
                      /\ ~person => ~nfc' /\ \A t \in Locks : ~holds'[t]
    BY DEF Undisturbed
  <2>1. ASSUME NEW o \in Op, NEW t \in seen'[o] PROVE ~holds'[t]
    <3>1. t \in Target
      OBVIOUS
    <3> QED BY <3>1 DEF Inv, IInv, Undisturbed
  <2>2. person => granted = Target
    BY DEF Inv, IInv, Undisturbed
  <2>3. ~person => ~nfc' /\ \A t \in Locks : ~holds'[t]
    BY DEF Inv, IInv, Undisturbed, Locks
  <2> QED BY <2>1, <2>2, <2>3
<1>5. ASSUME NEW r \in Session PROVE Placed(sess[r])'
  <2>1. CASE r = s
    BY <1>1, <2>1, IdleFacts DEF Placed, PlacedIn, Backed
  <2>2. CASE r # s
    <3>1. PlacedIn(sess[r], journal) /\ sess'[r] = sess[r] /\ sess[r] \in Sessions
      BY <1>1, <2>2 DEF Inv, IInv, Placed, TypeOK
    <3>2. ~nfc => ~nfc'
      OBVIOUS
    <3>3. Backed(sess[r].op, sess[r].payload) /\ sess[r].op \in Op =>
            Backed(sess[r].op, sess[r].payload)'
      BY <3>1 DEF Backed
    <3>4. PlacedIn(sess[r], journal)'
      BY <3>1, <3>2, <3>3 DEF PlacedIn, BeforeOperation, Head
    <3> QED BY <3>4 DEF Placed
  <2> QED BY <2>1, <2>2
<1>6. IInv'
  BY <1>2, <1>3, <1>4, <1>5 DEF Inv, IInv
<1>7. Alone'
  <2> SUFFICES ASSUME ~overlap
               PROVE  /\ \A q, r \in Session :
                           sess'[q].pc # "idle" /\ sess'[r].pc # "idle" => q = r
                      /\ \A r \in Session : AloneIn(sess[r], journal)'
                      /\ \A o, q \in ActiveIn(journal) : o = q
                      /\ ~person => ActiveIn(journal) = {}
                      /\ KnowsClears(journal)'
    BY DEF Alone, ActiveIn
  <2>1. \A r \in Session : r # s => sess'[r].pc = "idle"
    BY <1>1 DEF Inv, Alone
  <2>2. ASSUME NEW r \in Session PROVE AloneIn(sess[r], journal)'
    <3>1. CASE r # s
      BY <2>1, <3>1 DEF AloneIn, BeforeOperation
    <3>2. CASE r = s
      BY <1>1, <3>2, IdleFacts DEF AloneIn, NotSent, ActiveIn
    <3> QED BY <3>1, <3>2
  <2>3. \A q, r \in Session : sess'[q].pc # "idle" /\ sess'[r].pc # "idle" => q = r
    BY <2>1
  <2> QED BY <2>2, <2>3 DEF Inv, Alone
<1> QED BY <1>6, <1>7 DEF Inv

\* Session s goes on as y and nothing else changes.
LEMMA SessionMoves ==
  ASSUME Inv, NEW s \in Session, NEW y \in Sessions, sess[s].pc # "idle",
         sess' = [sess EXCEPT ![s] = y],
         y = Idle \/ (PlacedIn(y, journal) /\ (overlap \/ AloneIn(y, journal))),
         UNCHANGED <<registry, devices, journal, overlap>>
  PROVE  Inv'
<1>1. UNCHANGED <<person, granted, nfc, secret, edits, holds, air, sent, seen>>
  BY DEF registry, devices
<1>2. /\ y = Idle \/ PlacedIn(y, journal)'
      /\ y = Idle \/ overlap \/ AloneIn(y, journal)'
  BY <1>1 DEF PlacedIn, Backed, AloneIn, NotSent, ActiveIn
<1>3. overlap \/ KnowsClears(journal)'
  BY <1>1 DEF Inv, Alone, KnowsClears, NotSent
<1>4. /\ holds' \in [Target -> BOOLEAN] /\ air' \in [Target -> 0..2]
      /\ sent' \in [Op -> [Target -> 0..2]] /\ seen' \in [Op -> SUBSET Target]
      /\ person => secret'
  BY <1>1 DEF Inv, IInv, TypeOK
<1> QED BY <1>1, <1>2, <1>3, <1>4, SessionMovesOn

LEMMA SessionEnds ==
  ASSUME Inv, NEW s \in Session, sess[s].pc # "idle", End(s),
         UNCHANGED <<registry, devices, journal, overlap>>
  PROVE  Inv'
BY IdleFacts, SessionMoves DEF End

\* No clear of operation o was sent for a target that p claims none for.
Unclaimed(o, p) ==
  \A t \in ZWaves : t \notin p.targets \/ p.state[t] \in Unsent => NotSent(o, t)

\* Operation o is written as op, and s goes on as y.
LEMMA OperationWritten ==
  ASSUME Inv, NEW s \in Session, NEW y \in Sessions, NEW o \in Op,
         NEW op \in Operation(Payload),
         sess[s].pc = "create" \/ (sess[s].pc \notin BeforeOperation /\ sess[s].op = o),
         StoreOperation(s, o, op, y),
         y = Idle \/ PlacedIn(y, journal)',
         y = Idle \/ (y.op = o /\ y.pc \notin BeforeOperation),
         y = Idle \/ overlap \/ y.payload = op.payload,
         overlap \/ (y.pc = "request" => \A t \in ZWaves : Head(y.payload, t) => NotSent(o, t)),
         y.pc # "answered", Backed(o, op.payload), overlap \/ Unclaimed(o, op.payload),
         op.status = "completed" => ~person',
         UNCHANGED <<nfc, secret, edits, devices, overlap>>,
         \/ /\ UNCHANGED <<person, granted>> /\ sess[s].pc \notin {"observe", "cleanup"}
         \/ person' = FALSE /\ granted' = {} /\ op.status = "completed" /\ y.pc = "observe",
         Undisturbed'
  PROVE  Inv'
<1> DEFINE j == [journal EXCEPT ![o] = op]
<1> USE Assumptions
<1>1. UNCHANGED <<holds, air, sent, seen>>
  BY DEF devices
<1>2. /\ journal' = j /\ j[o] = op /\ op # None
      /\ \A q \in Op : q # o => j[q] = journal[q]
      /\ j \in [Op -> Operation(Payload) \cup {None}]
  BY DEF StoreOperation, Inv, IInv, TypeOK
<1>3. /\ \A r \in Session : sess'[r] = IF r = s THEN y
                             ELSE IF sess[r].op = o THEN [sess[r] EXCEPT !.fresh = FALSE]
                             ELSE sess[r]
      /\ sess' = [r \in Session |-> sess'[r]]
  BY DEF StoreOperation
<1>4. \A r \in Session :
        r # s => /\ sess'[r] \in Sessions /\ sess'[r].pc = sess[r].pc
                 /\ sess'[r].op = sess[r].op /\ sess'[r].payload = sess[r].payload
                 /\ sess'[r].answer = sess[r].answer
  <2> TAKE r \in Session
  <2>1. sess[r] \in Sessions
    BY DEF Inv, IInv, TypeOK
  <2> QED BY <1>3, <2>1 DEF Sessions
<1> HIDE DEF j
<1>5. TypeOK'
  <2>1. sess' \in [Session -> Sessions]
    BY <1>3, <1>4
  <2>2. person' \in BOOLEAN /\ granted' \in SUBSET Target
    BY DEF Inv, IInv, TypeOK
  <2> QED BY <1>1, <1>2, <2>1, <2>2 DEF Inv, IInv, TypeOK
<1>6. person' => person
  BY DEF Inv, IInv, TypeOK
<1>7. JournalInv'
  BY <1>1, <1>2, <1>6 DEF Inv, IInv, JournalInv, Backed
<1>8. ASSUME NEW r \in Session PROVE Placed(sess[r])'
  <2>1. CASE r = s
    BY <1>3, <2>1, IdleFacts DEF Placed, PlacedIn, Backed
  <2>2. CASE r # s
    <3>1. PlacedIn(sess[r], journal)
      BY DEF Inv, IInv, Placed
    <3>2. \A q \in Op : journal[q] # None => j[q] # None
      BY <1>2
    <3> QED BY <1>1, <1>2, <1>4, <1>6, <2>2, <3>1, <3>2 DEF Placed, PlacedIn, Backed, Head
  <2> QED BY <2>1, <2>2
<1>9. IInv'
  BY <1>5, <1>6, <1>7, <1>8 DEF Inv, IInv
<1>10. Alone'
  <2> SUFFICES ASSUME ~overlap
               PROVE  /\ \A q, r \in Session :
                           sess'[q].pc # "idle" /\ sess'[r].pc # "idle" => q = r
                      /\ \A r \in Session : AloneIn(sess[r], journal)'
                      /\ \A p, q \in ActiveIn(j) : p = q
                      /\ ~person' => ActiveIn(j) = {}
                      /\ KnowsClears(journal)'
    BY <1>2 DEF Alone, ActiveIn
  <2>1. sess[s].pc # "idle" /\ sess[s].pc \notin {"capture"}
    BY DEF BeforeOperation
  <2>2. \A r \in Session : r # s => sess'[r].pc = "idle"
    BY <1>4, <2>1 DEF Inv, Alone
  <2>3. AloneIn(sess[s], journal) /\ KnowsClears(journal)
    BY DEF Inv, Alone
  <2>4. ActiveIn(journal) \subseteq {o}
    BY <2>3 DEF AloneIn
  <2>5. ActiveIn(j) \subseteq {o}
    BY <1>2, <2>4 DEF ActiveIn
  <2>6. \A p, q \in ActiveIn(j) : p = q
    BY <2>5
  <2>7. ~person' => ActiveIn(j) = {} /\ y.pc = "observe"
    <3>1. CASE UNCHANGED person /\ sess[s].pc \notin {"observe", "cleanup"}
      BY <2>1, <2>3, <3>1 DEF AloneIn
    <3>2. CASE op.status = "completed" /\ y.pc = "observe"
      <4>1. o \notin ActiveIn(j)
        BY <1>2, <3>2 DEF ActiveIn, Incomplete
      <4> QED BY <2>5, <3>2, <4>1
    <3> QED BY <3>1, <3>2
  <2>8. KnowsClears(journal)'
    BY <1>1, <1>2, <2>3 DEF KnowsClears, Unclaimed, NotSent
  <2>9. ASSUME NEW r \in Session PROVE AloneIn(sess[r], journal)'
    <3>1. CASE r # s
      BY <2>2, <3>1 DEF AloneIn, BeforeOperation
    <3>2. CASE r = s /\ y = Idle
      BY <1>3, <3>2, IdleFacts DEF AloneIn, BeforeOperation
    <3>3. CASE r = s /\ y # Idle
      <4>1. ActiveIn(journal)' \subseteq {o}
        BY <1>2, <2>5 DEF ActiveIn
      <4>2. y.payload = journal'[y.op].payload /\ y.op = o
        BY <1>2, <3>3
      <4>3. sess'[r] = y
        BY <1>3, <3>3
      <4> QED BY <1>1, <2>7, <3>3, <4>1, <4>2, <4>3 DEF AloneIn, BeforeOperation, NotSent
    <3> QED BY <3>1, <3>2, <3>3
  <2> QED BY <2>2, <2>6, <2>7, <2>8, <2>9
<1> QED BY <1>9, <1>10 DEF Inv

-----------------------------------------------------------------------------
(* What a session at work on an operation knows                             *)

LEMMA Working ==
  ASSUME Inv, NEW s \in Session, sess[s].pc \notin BeforeOperation
  PROVE  /\ sess[s] \in Sessions /\ sess[s].payload \in Payload
         /\ sess[s].op \in Op /\ sess[s].op # None /\ sess[s].pc # "idle"
         /\ Stored(s) \in Operation(Payload) /\ Stored(s) # None
         /\ Stored(s).payload \in Payload
         /\ Stored(s).status = "completed" => ~person
         /\ Backed(sess[s].op, sess[s].payload)
         /\ Backed(sess[s].op, Stored(s).payload)
         /\ \/ overlap
            \/ /\ sess[s].payload = Stored(s).payload
               /\ Unclaimed(sess[s].op, sess[s].payload)
<1> USE Assumptions
<1>1. sess[s] \in Sessions /\ sess[s].payload \in Payload
  BY DEF Inv, IInv, TypeOK, Sessions
<1>2. PlacedIn(sess[s], journal)
  BY DEF Inv, IInv, Placed
<1>3. /\ sess[s].op \in Op /\ sess[s].op # None /\ sess[s].pc # "idle"
      /\ Stored(s) # None /\ Backed(sess[s].op, sess[s].payload)
  BY <1>2 DEF PlacedIn, BeforeOperation, Stored
<1>4. Stored(s) \in Operation(Payload)
  BY <1>3 DEF Inv, IInv, TypeOK, Stored
<1>5. /\ Stored(s).status = "completed" => ~person
      /\ Backed(sess[s].op, Stored(s).payload)
  BY <1>3 DEF Inv, IInv, JournalInv, Stored
<1>6. overlap \/ (/\ sess[s].payload = Stored(s).payload
                  /\ Unclaimed(sess[s].op, sess[s].payload))
  BY <1>3 DEF Inv, Alone, AloneIn, Stored, Unclaimed, KnowsClears
<1> QED BY <1>1, <1>3, <1>4, <1>5, <1>6 DEF Operation

LEMMA TargetWritten ==
  ASSUME NEW s \in Session, sess[s].payload \in Payload, NEW t \in Target,
         NEW state \in RemovalState
  PROVE  /\ WithTarget(s, t, state) \in Payload
         /\ WithTarget(s, t, state).targets = sess[s].payload.targets
         /\ WithTarget(s, t, state).done = sess[s].payload.done
         /\ WithTarget(s, t, state).state[t] = state
         /\ \A u \in Target : u # t =>
              WithTarget(s, t, state).state[u] = sess[s].payload.state[u]
BY DEF WithTarget, Payload

\* Writing a state that claims no removal, nor that nothing was sent where
\* something was.
LEMMA TargetClaims ==
  ASSUME Inv, NEW s \in Session, sess[s].pc \notin BeforeOperation, NEW t \in Target,
         NEW state \in RemovalState, state \notin {"removal_confirmed", "success"},
         overlap \/ (state \in Unsent /\ t \in ZWaves => NotSent(sess[s].op, t))
  PROVE  /\ WithTarget(s, t, state) \in Payload
         /\ Backed(sess[s].op, WithTarget(s, t, state))
         /\ overlap \/ Unclaimed(sess[s].op, WithTarget(s, t, state))
<1> DEFINE p == WithTarget(s, t, state)
<1>1. /\ p \in Payload /\ p.targets = sess[s].payload.targets
      /\ p.done = sess[s].payload.done /\ p.state[t] = state
      /\ \A u \in Target : u # t => p.state[u] = sess[s].payload.state[u]
  BY Working, TargetWritten
<1> HIDE DEF p
<1>2. Backed(sess[s].op, p)
  BY <1>1, Working DEF Backed
<1>3. overlap \/ Unclaimed(sess[s].op, p)
  BY <1>1, Working DEF Unclaimed, ZWaves, Locks
<1> QED BY <1>1, <1>2, <1>3 DEF p

LEMMA WriteKeeps ==
  ASSUME Inv, NEW s \in Session,
         sess[s].pc \notin BeforeOperation \cup {"observe", "cleanup"},
         NEW op \in Operation(Payload), NEW pc \in {"mark", "targets", "request"},
         Backed(sess[s].op, op.payload), op.status = "completed" => ~person,
         overlap \/ Unclaimed(sess[s].op, op.payload),
         pc = "request" => \A t \in Target : Head(op.payload, t) => op.payload.state[t] \notin Unsent,
         pc = "request" =>
           overlap \/ \A t \in ZWaves : Head(op.payload, t) => NotSent(sess[s].op, t),
         Write(s, op, pc), UNCHANGED <<registry, devices, overlap>>
  PROVE  Inv'
<1> DEFINE x == [sess[s] EXCEPT !.pc = pc, !.payload = op.payload, !.fresh = TRUE,
                                !.answer = "none"]
<1>0. PICK o \in Op : o = sess[s].op
  BY Working
<1>8. PICK new : new = x
  OBVIOUS
<1>1. UNCHANGED <<person, granted, nfc, secret, edits, holds, air, sent, seen>>
  BY DEF registry, devices
<1>2. op.payload \in Payload /\ pc \in Control
  BY DEF Operation, Control
<1>3. new \in Sessions /\ new.pc = pc /\ new.op = o /\ new.payload = op.payload
      /\ new.answer = "none"
  BY <1>0, <1>8, <1>2, Working DEF Sessions
<1> HIDE DEF x
<1>4. Undisturbed'
  BY <1>1 DEF Inv, IInv, Undisturbed
<1>5. CASE StoreOperation(s, o, op, new)
  <2>1. journal'[o] = op /\ op # None
    BY <1>0, <1>5, Working, Assumptions DEF StoreOperation, Inv, IInv, TypeOK
  <2>2. Backed(o, op.payload)'
    BY <1>0, <1>1 DEF Backed
  <2>3. PlacedIn(new, journal)'
    BY <1>3, <2>1, <2>2, Working DEF PlacedIn, BeforeOperation, Head
  <2>4. overlap \/ (new.pc = "request" => \A t \in ZWaves : Head(new.payload, t) => NotSent(o, t))
    BY <1>0, <1>3 DEF Head
  <2>5. new.pc \notin BeforeOperation /\ new.pc # "answered"
    BY <1>3 DEF BeforeOperation
  <2> QED BY <1>0, <1>1, <1>3, <1>4, <1>5, <2>3, <2>4, <2>5, OperationWritten
<1>6. CASE StoreOperation(s, o, op, Idle)
  <2>1. Idle.pc = "idle" /\ Idle \in Sessions
    BY IdleFacts
  <2> QED BY <1>0, <1>1, <1>4, <1>6, <2>1, OperationWritten
<1>7. CASE End(s) /\ UNCHANGED journal
  BY <1>7, Working, SessionEnds
<1> QED BY <1>0, <1>5, <1>6, <1>7, <1>8 DEF Write, x

LEMMA PauseKeeps ==
  ASSUME Inv, NEW s \in Session,
         sess[s].pc \notin BeforeOperation \cup {"observe", "cleanup"},
         NEW p \in Payload, NEW retryable \in BOOLEAN, Backed(sess[s].op, p),
         overlap \/ Unclaimed(sess[s].op, p), Pause(s, p, retryable),
         UNCHANGED <<registry, devices, overlap>>
  PROVE  Inv'
<1> DEFINE o == sess[s].op
           q == [p EXCEPT !.done = Stored(s).payload.done]
           op == FailureRecorded(Stored(s), q, retryable)
<1>1. UNCHANGED <<person, granted, nfc, secret, edits, holds, air, sent, seen>>
  BY DEF registry, devices
<1>2. q \in Payload /\ q.targets = p.targets /\ q.state = p.state
      /\ q.done = Stored(s).payload.done
  BY Working DEF Payload
<1>3. Backed(o, q) /\ (overlap \/ Unclaimed(o, q))
  BY <1>2, Working DEF Backed, Unclaimed
<1> HIDE DEF q
<1>4. op \in Operation(Payload) /\ op.payload = q /\ op.status # "completed"
  BY <1>2, Working, Assumptions DEF FailureRecorded, Operation, OperationStatus, RetryCount
<1> HIDE DEF op
<1>5. Undisturbed'
  BY <1>1 DEF Inv, IInv, Undisturbed
<1>6. CASE StoreOperation(s, o, op, Idle)
  <2>1. o \in Op /\ Idle.pc = "idle" /\ Idle \in Sessions
    BY Working, IdleFacts
  <2> QED BY <1>1, <1>3, <1>4, <1>5, <1>6, <2>1, OperationWritten
<1>7. CASE End(s) /\ UNCHANGED journal
  BY <1>7, Working, SessionEnds
<1> QED BY <1>6, <1>7 DEF Pause, q, op

-----------------------------------------------------------------------------
(* The beginning of a call                                                  *)

LEMMA BeginKeeps ==
  ASSUME Inv, NEW s \in Session, BeginDeletion(s)
  PROVE  Inv'
<1> DEFINE x == [sess[s] EXCEPT !.pc = "lookup"]
<1>1. UNCHANGED <<person, granted, nfc, secret, edits, holds, air, sent, seen, journal>>
      /\ sess' = [sess EXCEPT ![s] = x] /\ sess[s].pc = "idle" /\ person
      /\ overlap' = (overlap \/ \E r \in Session \ {s} : sess[r].pc # "idle")
  BY DEF BeginDeletion, registry, devices, At, GoTo
<1>2. PICK y : y = x
  OBVIOUS
<1>3. sess[s] \in Sessions /\ PlacedIn(sess[s], journal)
  BY DEF Inv, IInv, TypeOK, Placed
<1>4. /\ y \in Sessions /\ y.pc = "lookup" /\ y.op = sess[s].op
      /\ y.payload = sess[s].payload
  BY <1>2, <1>3 DEF Sessions, Control
<1> HIDE DEF x
<1>5. \A r \in Session : sess'[r] = IF r = s THEN y ELSE sess[r]
  BY <1>1, <1>2 DEF Inv, IInv, TypeOK
<1>6. TypeOK'
  <2>1. overlap' \in BOOLEAN
    BY <1>1
  <2>2. sess' \in [Session -> Sessions]
    BY <1>1, <1>2, <1>4 DEF Inv, IInv, TypeOK
  <2> QED BY <1>1, <2>1, <2>2 DEF Inv, IInv, TypeOK
<1>7. JournalInv' /\ Undisturbed'
  BY <1>1 DEF Inv, IInv, JournalInv, Undisturbed, Backed
<1>8. PlacedIn(y, journal)
  BY <1>1, <1>3, <1>4 DEF PlacedIn, BeforeOperation
<1>9. \A r \in Session : PlacedIn(sess'[r], journal)
  BY <1>5, <1>8 DEF Inv, IInv, Placed
<1>10. \A r \in Session : Placed(sess[r])'
  BY <1>1, <1>9 DEF Placed, PlacedIn, Backed
<1>11. Alone'
  <2> SUFFICES ASSUME ~overlap, \A r \in Session \ {s} : sess[r].pc = "idle"
               PROVE  /\ \A q, r \in Session :
                           sess'[q].pc # "idle" /\ sess'[r].pc # "idle" => q = r
                      /\ \A r \in Session : AloneIn(sess[r], journal)'
                      /\ \A o, q \in ActiveIn(journal) : o = q
                      /\ ~person => ActiveIn(journal) = {}
                      /\ KnowsClears(journal)'
    BY <1>1 DEF Alone, ActiveIn
  <2>1. \A r \in Session : r # s => sess'[r].pc = "idle"
    BY <1>5
  <2>2. ASSUME NEW r \in Session PROVE AloneIn(sess[r], journal)'
    <3>1. CASE r # s
      BY <2>1, <3>1 DEF AloneIn, BeforeOperation
    <3>2. CASE r = s
      BY <1>1, <1>4, <1>5, <3>2 DEF AloneIn, BeforeOperation
    <3> QED BY <3>1, <3>2
  <2>3. KnowsClears(journal)'
    BY <1>1 DEF Inv, Alone, KnowsClears, NotSent
  <2> QED BY <2>1, <2>2, <2>3 DEF Inv, Alone
<1> QED BY <1>1, <1>6, <1>7, <1>10, <1>11 DEF Inv, IInv

LEMMA LookupKeeps ==
  ASSUME Inv, NEW s \in Session, ActiveOperation(s) \/ CaptureTargets(s)
  PROVE  Inv'
<1> USE Assumptions
<1>1. sess[s] \in Sessions /\ PlacedIn(sess[s], journal)
      /\ (overlap \/ AloneIn(sess[s], journal))
  BY DEF Inv, IInv, TypeOK, Placed, Alone
<1>2. Active = ActiveIn(journal)
  BY DEF Active, ActiveIn
<1>3. ASSUME At(s, "lookup"), Active = {}, GoTo(s, "capture"),
             UNCHANGED <<registry, devices, journal, overlap>>
      PROVE  Inv'
  <2>1. PICK y : y = [sess[s] EXCEPT !.pc = "capture"]
    OBVIOUS
  <2>2. y \in Sessions /\ y.pc = "capture" /\ y.op = sess[s].op
        /\ y.payload = sess[s].payload
    BY <1>1, <2>1 DEF Sessions, Control
  <2>3. PlacedIn(y, journal)
    BY <1>1, <1>3, <2>2 DEF PlacedIn, BeforeOperation, At
  <2>4. overlap \/ AloneIn(y, journal)
    BY <1>1, <1>2, <1>3, <2>2 DEF AloneIn, BeforeOperation, At
  <2> QED BY <1>3, <2>1, <2>2, <2>3, <2>4, SessionMoves DEF GoTo, At
<1>4. ASSUME At(s, "lookup"), NEW o \in Active, \A q \in Active : o <= q,
             sess' = [sess EXCEPT ![s] =
               [sess[s] EXCEPT !.pc = "normalize", !.op = o,
                               !.payload = journal[o].payload, !.fresh = TRUE]],
             UNCHANGED <<registry, devices, journal, overlap>>
      PROVE  Inv'
  <2>1. PICK y : y = [sess[s] EXCEPT !.pc = "normalize", !.op = o,
                                     !.payload = journal[o].payload, !.fresh = TRUE]
    OBVIOUS
  <2>2. /\ o \in Op /\ journal[o] # None /\ journal[o] \in Operation(Payload)
        /\ journal[o].payload \in Payload /\ Backed(o, journal[o].payload)
    BY DEF Inv, IInv, TypeOK, JournalInv, Active, Operation
  <2>3. y \in Sessions /\ y.pc = "normalize" /\ y.op = o
        /\ y.payload = journal[o].payload
    BY <1>1, <2>1, <2>2 DEF Sessions, Control
  <2>4. PlacedIn(y, journal)
    BY <2>2, <2>3 DEF PlacedIn, BeforeOperation
  <2>5. ~overlap => person /\ ActiveIn(journal) \subseteq {o}
    BY <1>1, <1>2, <1>4 DEF Inv, Alone, AloneIn, At
  <2>6. overlap \/ AloneIn(y, journal)
    BY <2>3, <2>5 DEF AloneIn, BeforeOperation
  <2> QED BY <1>4, <2>1, <2>3, <2>4, <2>6, SessionMoves DEF At
<1>5. ASSUME CaptureTargets(s) PROVE Inv'
  <2>1. CASE person
    <3>1. PICK y : y = [sess[s] EXCEPT !.pc = "create", !.payload = NewPayload(granted)]
      OBVIOUS
    <3>2. NewPayload(granted) \in Payload /\ Blank(NewPayload(granted))
      BY DEF NewPayload, Payload, RemovalState, Dated, Blank, Inv, IInv, TypeOK
    <3>3. y \in Sessions /\ y.pc = "create" /\ y.op = sess[s].op
          /\ y.payload = NewPayload(granted)
      BY <1>1, <3>1, <3>2 DEF Sessions, Control
    <3>4. PlacedIn(y, journal)
      BY <1>1, <1>5, <3>2, <3>3 DEF PlacedIn, BeforeOperation, CaptureTargets, At
    <3>5. overlap \/ AloneIn(y, journal)
      BY <1>1, <1>5, <2>1, <3>3 DEF AloneIn, BeforeOperation, CaptureTargets, At
    <3> QED BY <1>5, <2>1, <3>1, <3>3, <3>4, <3>5, SessionMoves DEF CaptureTargets, At
  <2>2. CASE ~person
    BY <1>5, <2>2, SessionEnds DEF CaptureTargets, At, End
  <2> QED BY <2>1, <2>2
<1> QED BY <1>3, <1>4, <1>5 DEF ActiveOperation

LEMMA CreateKeeps ==
  ASSUME Inv, NEW s \in Session, CreateOperation(s)
  PROVE  Inv'
<1> USE Assumptions
<1> DEFINE p == sess[s].payload
<1>1. /\ sess[s].pc = "create" /\ sess[s] \in Sessions /\ p \in Payload
      /\ sess[s].op = None /\ Blank(p)
      /\ UNCHANGED <<nfc, secret, edits, devices, overlap, person, granted, registry>>
  BY DEF CreateOperation, At, Inv, IInv, TypeOK, Placed, PlacedIn, BeforeOperation,
         Sessions, registry
<1>2. PICK op : op = NewOperation(p)
  OBVIOUS
<1>3. op \in Operation(Payload) /\ op.payload = p /\ op.status = "pending"
  BY <1>1, <1>2 DEF NewOperation, Operation, OperationStatus, RetryCount
<1>4. Undisturbed'
  BY <1>1 DEF devices, Inv, IInv, Undisturbed
<1>5. ASSUME NEW o \in Op, journal[o] = None,
             NEW y, y \in {[sess[s] EXCEPT !.pc = "mark", !.op = o, !.fresh = TRUE], Idle},
             StoreOperation(s, o, op, y)
      PROVE  Inv'
  <2>1. Backed(o, p)
    BY <1>1 DEF Blank, Backed
  <2>2. overlap \/ Unclaimed(o, p)
    BY <1>5 DEF Inv, Alone, KnowsClears, Unclaimed
  <2>3. CASE y = Idle
    BY <1>1, <1>3, <1>4, <1>5, <2>1, <2>2, <2>3, IdleFacts, OperationWritten
  <2>4. CASE y = [sess[s] EXCEPT !.pc = "mark", !.op = o, !.fresh = TRUE]
    <3>1. y \in Sessions /\ y.pc = "mark" /\ y.op = o /\ y.payload = p
      BY <1>1, <2>4 DEF Sessions, Control
    <3>2. journal'[o] = op /\ op # None
      BY <1>3, <1>5 DEF StoreOperation, Inv, IInv, TypeOK
    <3>3. Backed(o, y.payload)'
      BY <1>1, <2>1, <3>1 DEF Backed, devices
    <3>4. PlacedIn(y, journal)'
      BY <3>1, <3>2, <3>3 DEF PlacedIn, BeforeOperation
    <3>5. y.pc \notin BeforeOperation
      BY <3>1 DEF BeforeOperation
    <3> HIDE DEF p
    <3> QED BY <1>1, <1>3, <1>4, <1>5, <2>1, <2>2, <3>1, <3>4, <3>5, OperationWritten DEF p
  <2> QED BY <1>5, <2>3, <2>4
<1>6. CASE End(s) /\ UNCHANGED journal
  BY <1>1, <1>6, SessionEnds
<1> QED BY <1>2, <1>5, <1>6 DEF CreateOperation

-----------------------------------------------------------------------------
(* Normalizing and resuming an operation                                    *)

\* Upgrading an old journal claims no removal that was not claimed, and forgets
\* no clear that was sent.
LEMMA NormalizedClaims ==
  ASSUME NEW o \in Op, NEW p \in Payload, Backed(o, p), NEW known \in BOOLEAN,
         known => Unclaimed(o, p)
  PROVE  /\ Normalized(p) \in Payload
         /\ Backed(o, Normalized(p))
         /\ known => Unclaimed(o, Normalized(p))
<1> DEFINE q == Normalized(p)
<1>1. ASSUME NEW t \in Target
      PROVE  /\ UpgradedState(p, t) \in RemovalState
             /\ UpgradedState(p, t) \in {"removal_confirmed", "success"} =>
                  p.state[t] \in {"removal_confirmed", "success"}
             /\ UpgradedState(p, t) \in Unsent => p.state[t] \in Unsent
  <2>1. p.state[t] \in RemovalState
    BY DEF Payload
  <2> QED BY <2>1 DEF UpgradedState, Upgraded, RemovalState, Dated, Unsent
<1>2. /\ q.targets = p.targets
      /\ q.done = {t \in Visited(p) : UpgradedState(p, t) = "removal_confirmed"}
      /\ q.dated = p.dated \ Visited(p)
      /\ q.state = [t \in Target |-> IF t \in Visited(p) THEN UpgradedState(p, t)
                                     ELSE p.state[t]]
      /\ q = [targets |-> q.targets, done |-> q.done, dated |-> q.dated, state |-> q.state]
  BY DEF Normalized
<1> HIDE DEF q
<1>3. Visited(p) \subseteq Target /\ p.targets \subseteq Target
  BY DEF Visited, Payload
<1>4. q.state \in [Target -> RemovalState]
  BY <1>1, <1>2 DEF Payload
<1>5. q \in Payload
  BY <1>2, <1>3, <1>4 DEF Payload
<1>6. Backed(o, q)
  BY <1>1, <1>2, <1>3 DEF Backed
<1>7. known => Unclaimed(o, q)
  BY <1>1, <1>2 DEF Unclaimed, ZWaves, Locks
<1> QED BY <1>5, <1>6, <1>7 DEF q

LEMMA NormalizeKeeps ==
  ASSUME Inv, NEW s \in Session, NormalizeOperation(s)
  PROVE  Inv'
<1> DEFINE p == sess[s].payload
           op == [Stored(s) EXCEPT !.payload = Normalized(p)]
<1>1. /\ sess[s].pc = "normalize"
      /\ sess[s].pc \notin BeforeOperation \cup {"observe", "cleanup"}
  BY DEF NormalizeOperation, At, BeforeOperation
<1>2. UNCHANGED <<registry, devices, overlap>>
  BY DEF NormalizeOperation
<1>3. CASE GoTo(s, "mark") /\ UNCHANGED journal
  <2>1. PICK y : y = [sess[s] EXCEPT !.pc = "mark"]
    OBVIOUS
  <2>2. y \in Sessions /\ y.pc = "mark" /\ y.op = sess[s].op /\ y.payload = p
    BY <1>1, <2>1, Working DEF Sessions, Control
  <2>3. PlacedIn(y, journal)
    BY <1>1, <2>2, Working DEF PlacedIn, BeforeOperation, Stored
  <2>4. overlap \/ AloneIn(sess[s], journal)
    BY DEF Inv, Alone
  <2>5. overlap \/ AloneIn(y, journal)
    BY <1>1, <2>2, <2>4 DEF AloneIn, BeforeOperation
  <2> QED BY <1>1, <1>2, <1>3, <2>1, <2>2, <2>3, <2>5, SessionMoves DEF GoTo
<1>4. CASE Write(s, op, "mark")
  <2>1. /\ Normalized(p) \in Payload /\ Backed(sess[s].op, Normalized(p))
        /\ overlap \/ Unclaimed(sess[s].op, Normalized(p))
    <3>1. overlap \in BOOLEAN
      BY DEF Inv, IInv, TypeOK
    <3> QED BY <1>1, <3>1, Working, NormalizedClaims
  <2>2. op \in Operation(Payload) /\ op.payload = Normalized(p)
        /\ op.status = Stored(s).status
    BY <1>1, <2>1, Working DEF Operation
  <2> HIDE DEF op
  <2> QED BY <1>1, <1>2, <1>4, <2>1, <2>2, Working, WriteKeeps
<1> QED BY <1>3, <1>4 DEF NormalizeOperation

LEMMA MarkKeeps ==
  ASSUME Inv, NEW s \in Session, MarkRunning(s)
  PROVE  Inv'
<1> DEFINE op == MarkedRunning(Stored(s))
<1>1. /\ sess[s].pc \notin BeforeOperation \cup {"observe", "cleanup"}
      /\ UNCHANGED <<registry, devices, overlap>> /\ Write(s, op, "targets")
  BY DEF MarkRunning, At, BeforeOperation
<1>2. op \in Operation(Payload) /\ op.payload = Stored(s).payload /\ op.status = "running"
  BY <1>1, Working DEF MarkedRunning, Operation, OperationStatus
<1>3. overlap \/ Unclaimed(sess[s].op, op.payload)
  BY <1>1, <1>2, Working
<1> HIDE DEF op
<1> QED BY <1>1, <1>2, <1>3, Working, WriteKeeps

-----------------------------------------------------------------------------
(* One target                                                               *)

\* Writing payload p and going on at pc, as every checkpoint of a target does.
LEMMA CheckpointKeeps ==
  ASSUME Inv, NEW s \in Session,
         sess[s].pc \notin BeforeOperation \cup {"observe", "cleanup"},
         NEW p \in Payload, NEW pc \in {"targets", "request"},
         Backed(sess[s].op, p), overlap \/ Unclaimed(sess[s].op, p),
         pc = "request" => \A t \in Target : Head(p, t) => p.state[t] \notin Unsent,
         pc = "request" =>
           overlap \/ \A t \in ZWaves : Head(p, t) => NotSent(sess[s].op, t),
         Write(s, Progressed(Stored(s), p), pc) \/ Write(s, Checkpointed(p), pc),
         UNCHANGED <<registry, devices, overlap>>
  PROVE  Inv'
<1>1. CASE Write(s, Progressed(Stored(s), p), pc)
  <2> DEFINE op == Progressed(Stored(s), p)
  <2>1. op \in Operation(Payload) /\ op.payload = p /\ op.status = "running"
    BY Working DEF Progressed, Operation, OperationStatus
  <2> HIDE DEF op
  <2> QED BY <1>1, <2>1, WriteKeeps DEF op
<1>2. CASE Write(s, Checkpointed(p), pc)
  <2> DEFINE op == Checkpointed(p)
  <2>1. op \in Operation(Payload) /\ op.payload = p /\ op.status = "running"
    BY Assumptions DEF Checkpointed, Operation, OperationStatus, RetryCount
  <2> HIDE DEF op
  <2> QED BY <1>2, <2>1, WriteKeeps DEF op
<1> QED BY <1>1, <1>2

LEMMA IntendKeeps ==
  ASSUME Inv, NEW s \in Session, NEW t \in Target,
         NoDriver(s, t) \/ IntendRemoval(s, t) \/ AssumeRequested(s, t)
  PROVE  Inv'
<1>1. /\ sess[s].pc = "targets"
      /\ sess[s].pc \notin BeforeOperation \cup {"observe", "cleanup"}
      /\ AtTarget(s, t) /\ UNCHANGED <<registry, devices, overlap>>
  BY DEF NoDriver, IntendRemoval, AssumeRequested, At, BeforeOperation
<1>2. CASE NoDriver(s, t)
  <2> DEFINE p == WithTarget(s, t, "verification_failed")
  <2>1. /\ p \in Payload /\ Backed(sess[s].op, p)
        /\ overlap \/ Unclaimed(sess[s].op, p)
    BY <1>1, TargetClaims DEF RemovalState, Unsent
  <2> QED BY <1>1, <1>2, <2>1, PauseKeeps DEF NoDriver
<1>3. CASE IntendRemoval(s, t)
  <2> DEFINE p == WithTarget(s, t, "removal_requesting")
  <2>1. /\ p \in Payload /\ Backed(sess[s].op, p)
        /\ overlap \/ Unclaimed(sess[s].op, p)
    BY <1>1, TargetClaims DEF RemovalState, Unsent
  <2>2. p.targets = sess[s].payload.targets /\ p.done = sess[s].payload.done
    BY <1>1, Working, TargetWritten DEF RemovalState
  <2>3. overlap \/ (t \in ZWaves => NotSent(sess[s].op, t))
    BY <1>1, <1>3, Working DEF IntendRemoval, StateOf, Unclaimed, Unsent
  <2>6. p.state[t] \notin Unsent
    BY <1>1, Working, TargetWritten DEF RemovalState, Unsent
  <2> HIDE DEF p
  <2>4. \A u \in Target : Head(p, u) => u = t
    BY <1>1, <2>2 DEF Head, AtTarget, Pending, Target
  <2>7. ZWaves \subseteq Target
    BY DEF ZWaves, Locks
  <2>5. Write(s, Progressed(Stored(s), p), "request")
    BY <1>3 DEF IntendRemoval, Checkpoint, p
  <2> QED BY <1>1, <2>1, <2>3, <2>4, <2>5, <2>6, <2>7, CheckpointKeeps
<1>4. CASE AssumeRequested(s, t)
  <2> DEFINE p == WithTarget(s, t, "verification_pending")
  <2>1. /\ p \in Payload /\ Backed(sess[s].op, p)
        /\ overlap \/ Unclaimed(sess[s].op, p)
    BY <1>1, TargetClaims DEF RemovalState, Unsent
  <2> HIDE DEF p
  <2>2. Write(s, Progressed(Stored(s), p), "targets")
    BY <1>4 DEF AssumeRequested, Checkpoint, p
  <2> QED BY <1>1, <2>1, <2>2, CheckpointKeeps
<1> QED BY <1>2, <1>3, <1>4

LEMMA RequestKeeps ==
  ASSUME Inv, NEW s \in Session, NEW t \in Target, RequestRemoval(s, t)
  PROVE  Inv'
<1>1. /\ sess[s].pc = "request" /\ sess[s].pc \notin BeforeOperation
      /\ Head(sess[s].payload, t)
      /\ UNCHANGED <<person, granted, nfc, secret, edits, journal, seen, overlap>>
  BY DEF RequestRemoval, At, AtTarget, Pending, Head, BeforeOperation, registry
<1>2. /\ t \in Nat /\ \A u \in Target : u \in Nat
  BY DEF Target
<1>3. PICK a \in {"taken", "rejected"} :
        /\ Answer(s, "answered", a)
        /\ \/ /\ a = "taken" /\ t \in ZWaves /\ Send(s, t) /\ UNCHANGED holds
              /\ air' = [air EXCEPT ![t] = More(@)]
           \/ /\ t \in Nukis /\ Send(s, t) /\ UNCHANGED air
              /\ holds' = [holds EXCEPT ![t] = FALSE]
           \/ UNCHANGED <<holds, air, sent>>
  BY DEF RequestRemoval
<1>4. PICK y : y = [sess[s] EXCEPT !.pc = "answered", !.answer = a]
  OBVIOUS
<1>5. y \in Sessions /\ y.pc = "answered" /\ y.answer = a /\ y.op = sess[s].op
      /\ y.payload = sess[s].payload
  BY <1>1, <1>4, Working DEF Sessions, Control
<1>6. sess' = [sess EXCEPT ![s] = y]
  BY <1>3, <1>4 DEF Answer
<1>7. PlacedIn(y, journal)'
  BY <1>1, <1>5, Working DEF PlacedIn, BeforeOperation, Stored, Backed
<1>8. PICK o \in Op : o = sess[s].op
  BY <1>1, Working
<1>9. sent \in [Op -> [Target -> 0..2]] /\ air \in [Target -> 0..2]
      /\ holds \in [Target -> BOOLEAN] /\ seen \in [Op -> SUBSET Target]
  BY DEF Inv, IInv, TypeOK
<1>10. /\ holds' \in [Target -> BOOLEAN] /\ \A u \in Target : holds'[u] => holds[u]
       /\ air' \in [Target -> 0..2]
  <2>1. More(air[t]) \in 0..2
    BY <1>9 DEF More
  <2>2. air' \in [Target -> 0..2]
    BY <1>3, <1>9, <2>1
  <2>3. UNCHANGED holds \/ holds' = [holds EXCEPT ![t] = FALSE]
    BY <1>3
  <2> QED BY <1>9, <2>2, <2>3
<1>11. CASE UNCHANGED sent
  <2>1. overlap \/ KnowsClears(journal)'
    BY <1>1, <1>11 DEF Inv, Alone, KnowsClears, NotSent
  <2>2. overlap \/ AloneIn(sess[s], journal)
    BY DEF Inv, Alone
  <2>3. \A u : Head(y.payload, u) => Head(sess[s].payload, u)
    BY <1>5 DEF Head
  <2>4. overlap \/ AloneIn(y, journal)'
    BY <1>1, <1>5, <1>11, <2>2, <2>3 DEF AloneIn, BeforeOperation, NotSent, ActiveIn
  <2> QED BY <1>1, <1>5, <1>6, <1>7, <1>9, <1>10, <1>11, <2>1, <2>4, Working, SessionMovesOn
          DEF Inv, IInv
<1>12. CASE Send(s, t) /\ (t \in Nukis \/ (t \in ZWaves /\ a = "taken"))
  <2>1. sent' = [sent EXCEPT ![o] = [sent[o] EXCEPT ![t] = More(@)]]
    BY <1>8, <1>12 DEF Send
  <2>2. More(sent[o][t]) \in 0..2
    BY <1>9 DEF More
  <2>3. sent' \in [Op -> [Target -> 0..2]]
    BY <1>9, <2>1, <2>2
  <2>4. \A q \in Op, u \in Target : q # o \/ u # t => sent'[q][u] = sent[q][u]
    BY <1>9, <2>1
  <2>5. sent'[o][t] = More(sent[o][t])
    BY <1>9, <2>1
  <2>6. overlap \/ AloneIn(sess[s], journal)
    BY DEF Inv, Alone
  <2>7. ZWaves \subseteq Target /\ ZWaves \cap Nukis = {}
    BY DEF ZWaves, Locks
  <2>8. overlap \/ KnowsClears(journal)'
    <3> SUFFICES ASSUME ~overlap, NEW q \in Op, NEW u \in ZWaves
                 PROVE  /\ sent'[q][u] <= 1
                        /\ journal[q] = None => sent'[q][u] = 0
                        /\ journal[q] # None /\ (u \notin journal[q].payload.targets
                             \/ journal[q].payload.state[u] \in Unsent) => sent'[q][u] = 0
      BY <1>1 DEF KnowsClears, NotSent
    <3>1. KnowsClears(journal)
      BY DEF Inv, Alone
    <3>2. CASE q # o \/ u # t
      BY <2>4, <2>7, <3>1, <3>2 DEF KnowsClears, NotSent
    <3>3. CASE q = o /\ u = t
      <4>1. sent[o][t] = 0
        BY <1>1, <1>8, <2>6, <3>3 DEF AloneIn, NotSent
      <4>2. sent'[o][t] = 1
        BY <2>5, <4>1 DEF More
      <4>3. /\ journal[o] # None
            /\ journal[o].payload = sess[s].payload
        BY <1>1, <1>8, Working DEF Stored
      <4>4. /\ t \in sess[s].payload.targets
            /\ sess[s].payload.state[t] \notin Unsent
        BY <1>1 DEF Head, Inv, IInv, Placed, PlacedIn
      <4> QED BY <3>3, <4>2, <4>3, <4>4
    <3> QED BY <3>2, <3>3
  <2>9. \A u \in Target : Head(y.payload, u) => u = t
    BY <1>1, <1>2, <1>5 DEF Head
  <2>10. overlap \/ AloneIn(y, journal)'
    BY <1>1, <1>5, <1>12, <2>6, <2>7, <2>9 DEF AloneIn, BeforeOperation, ActiveIn
  <2> QED BY <1>1, <1>5, <1>6, <1>7, <1>9, <1>10, <2>3, <2>8, <2>10, Working, SessionMovesOn
          DEF Inv, IInv
<1> QED BY <1>3, <1>11, <1>12

LEMMA RecordAnswerKeeps ==
  ASSUME Inv, NEW s \in Session, NEW t \in Target, RecordAnswer(s, t)
  PROVE  Inv'
<1>1. /\ sess[s].pc = "answered"
      /\ sess[s].pc \notin BeforeOperation \cup {"observe", "cleanup"}
      /\ AtTarget(s, t) /\ Head(sess[s].payload, t) /\ UNCHANGED <<registry, devices, overlap>>
  BY DEF RecordAnswer, At, AtTarget, Pending, Head, BeforeOperation
<1>2. CASE /\ sess[s].answer = "rejected"
           /\ Pause(s, WithTarget(s, t, "removal_request_rejected"), TRUE)
  <2> DEFINE p == WithTarget(s, t, "removal_request_rejected")
  <2>1. overlap \/ (t \in ZWaves => NotSent(sess[s].op, t))
    BY <1>1, <1>2 DEF Inv, Alone, AloneIn
  <2>2. /\ p \in Payload /\ Backed(sess[s].op, p)
        /\ overlap \/ Unclaimed(sess[s].op, p)
    BY <1>1, <2>1, TargetClaims DEF RemovalState
  <2> QED BY <1>1, <1>2, <2>2, PauseKeeps
<1>3. CASE Checkpoint(s, WithTarget(s, t, "removal_requested"), "targets")
  <2> DEFINE p == WithTarget(s, t, "removal_requested")
  <2>1. /\ p \in Payload /\ Backed(sess[s].op, p)
        /\ overlap \/ Unclaimed(sess[s].op, p)
    BY <1>1, TargetClaims DEF RemovalState, Unsent
  <2> HIDE DEF p
  <2>2. Write(s, Progressed(Stored(s), p), "targets")
    BY <1>3 DEF Checkpoint, p
  <2> QED BY <1>1, <2>1, <2>2, CheckpointKeeps
<1> QED BY <1>2, <1>3 DEF RecordAnswer

LEMMA VerifyKeeps ==
  ASSUME Inv, NEW s \in Session, NEW t \in Target, VerifyRemoval(s, t)
  PROVE  Inv'
<1>1. /\ sess[s].pc = "targets" /\ sess[s].pc \notin BeforeOperation
      /\ Head(sess[s].payload, t)
      /\ UNCHANGED <<person, granted, nfc, secret, edits, holds, air, sent, journal, overlap>>
  BY DEF VerifyRemoval, At, AtTarget, Pending, Head, BeforeOperation, registry
<1>2. \A u \in Target : u \in Nat
  BY DEF Target
<1>3. PICK o \in Op : o = sess[s].op
  BY <1>1, Working
<1>4. PICK a \in {"removed", "present", "unknown", "unsupported"} :
        /\ Answer(s, "verified", a)
        /\ \/ /\ a = "removed" /\ ~holds[t]
              /\ seen' = [seen EXCEPT ![o] = seen[o] \cup {t}]
           \/ a # "removed" /\ UNCHANGED seen
  BY <1>3 DEF VerifyRemoval
<1>5. PICK y : y = [sess[s] EXCEPT !.pc = "verified", !.answer = a]
  OBVIOUS
<1>6. y \in Sessions /\ y.pc = "verified" /\ y.answer = a /\ y.op = o
      /\ y.payload = sess[s].payload
  BY <1>1, <1>3, <1>5, Working DEF Sessions, Control
<1>7. sess' = [sess EXCEPT ![s] = y]
  BY <1>4, <1>5 DEF Answer
<1>8. seen \in [Op -> SUBSET Target]
  BY DEF Inv, IInv, TypeOK
<1>9. /\ seen' \in [Op -> SUBSET Target]
      /\ \A q \in Op : /\ seen[q] \subseteq seen'[q]
                       /\ \A u \in seen'[q] \ seen[q] : ~holds[u]
      /\ a = "removed" => t \in seen'[o]
  <2>1. seen[o] \cup {t} \in SUBSET Target
    BY <1>8
  <2>2. \A q \in Op : seen'[q] = IF q = o /\ a = "removed" THEN seen[o] \cup {t} ELSE seen[q]
    BY <1>4, <1>8
  <2>3. seen' \in [Op -> SUBSET Target]
    BY <1>4, <1>8, <2>1
  <2> QED BY <1>4, <2>2, <2>3
<1>10. PlacedIn(y, journal)'
  <2>1. Backed(y.op, y.payload)'
    BY <1>1, <1>3, <1>6, <1>9, Working DEF Backed
  <2>2. \A u \in Target : Head(y.payload, u) => u = t
    BY <1>1, <1>2, <1>6 DEF Head
  <2> QED BY <1>1, <1>3, <1>6, <1>9, <2>1, <2>2, Working DEF PlacedIn, BeforeOperation, Stored
<1>11. overlap \/ AloneIn(y, journal)'
  <2>1. overlap \/ AloneIn(sess[s], journal)
    BY DEF Inv, Alone
  <2> QED BY <1>1, <1>3, <1>6, <2>1 DEF AloneIn, BeforeOperation, ActiveIn
<1>12. overlap \/ KnowsClears(journal)'
  BY <1>1 DEF Inv, Alone, KnowsClears, NotSent
<1>13. /\ holds' \in [Target -> BOOLEAN] /\ air' \in [Target -> 0..2]
       /\ sent' \in [Op -> [Target -> 0..2]] /\ (person => secret')
       /\ \A u \in Target : holds'[u] => holds[u]
  BY <1>1 DEF Inv, IInv, TypeOK
<1> QED BY <1>1, <1>6, <1>7, <1>9, <1>10, <1>11, <1>12, <1>13, Working, SessionMovesOn

LEMMA RecordVerificationKeeps ==
  ASSUME Inv, NEW s \in Session, NEW t \in Target, RecordVerification(s, t)
  PROVE  Inv'
<1>1. /\ sess[s].pc = "verified"
      /\ sess[s].pc \notin BeforeOperation \cup {"observe", "cleanup"}
      /\ Head(sess[s].payload, t) /\ UNCHANGED <<registry, devices, overlap>>
  BY DEF RecordVerification, At, AtTarget, Pending, Head, BeforeOperation
<1>2. CASE /\ sess[s].answer = "removed"
           /\ Write(s, Checkpointed(Confirmed(s, t)), "targets")
  <2> DEFINE p == Confirmed(s, t)
             w == WithTarget(s, t, "removal_confirmed")
  <2>1. t \in seen[sess[s].op]
    BY <1>1, <1>2 DEF Inv, IInv, Placed, PlacedIn
  <2>2. /\ w \in Payload /\ w.targets = sess[s].payload.targets
        /\ w.done = sess[s].payload.done /\ w.state[t] = "removal_confirmed"
        /\ \A u \in Target : u # t => w.state[u] = sess[s].payload.state[u]
    BY <1>1, Working, TargetWritten DEF RemovalState
  <2>3. p = [w EXCEPT !.done = sess[s].payload.done \cup {t}]
    BY DEF Confirmed
  <2> HIDE DEF p, w
  <2>4. /\ p \in Payload /\ p.targets = w.targets /\ p.state = w.state
        /\ p.done = sess[s].payload.done \cup {t}
    <3>1. sess[s].payload.done \cup {t} \in SUBSET Target
      BY <1>1, Working DEF Payload
    <3> QED BY <2>2, <2>3, <3>1 DEF Payload
  <2>5. Backed(sess[s].op, p)
    BY <1>1, <2>1, <2>2, <2>4, Working DEF Backed
  <2>6. overlap \/ Unclaimed(sess[s].op, p)
    BY <1>1, <2>2, <2>4, Working DEF Unclaimed, Unsent, Head, ZWaves, Locks
  <2>7. Write(s, Checkpointed(p), "targets")
    BY <1>2 DEF p
  <2> QED BY <1>1, <2>4, <2>5, <2>6, <2>7, CheckpointKeeps
<1>3. ASSUME NEW state \in {"verification_pending", "verification_failed"},
             NEW retryable \in BOOLEAN, Pause(s, WithTarget(s, t, state), retryable)
      PROVE  Inv'
  <2> DEFINE p == WithTarget(s, t, state)
  <2>1. /\ p \in Payload /\ Backed(sess[s].op, p)
        /\ overlap \/ Unclaimed(sess[s].op, p)
    BY <1>1, TargetClaims DEF RemovalState, Unsent
  <2> QED BY <1>1, <1>3, <2>1, PauseKeeps
<1> QED BY <1>2, <1>3 DEF RecordVerification

-----------------------------------------------------------------------------
(* The end of a call                                                        *)

LEMMA BeforeDeleteKeeps ==
  ASSUME Inv, NEW s \in Session, BeforeDelete(s)
  PROVE  Inv'
<1>1. /\ sess[s].pc = "targets" /\ sess[s].pc \notin BeforeOperation
      /\ sess[s].payload.targets \subseteq sess[s].payload.done
      /\ UNCHANGED <<person, granted, secret, edits, holds, air, sent, seen, journal, overlap>>
  BY DEF BeforeDelete, At, Pending, BeforeOperation, devices
<1>2. overlap \/ KnowsClears(journal)'
  BY <1>1 DEF Inv, Alone, KnowsClears, NotSent
<1>3. /\ holds' \in [Target -> BOOLEAN] /\ air' \in [Target -> 0..2]
      /\ sent' \in [Op -> [Target -> 0..2]] /\ seen' \in [Op -> SUBSET Target]
      /\ person => secret'
  BY <1>1 DEF Inv, IInv, TypeOK
<1>4. CASE nfc' = FALSE /\ GoTo(s, "commit")
  <2>1. PICK y : y = [sess[s] EXCEPT !.pc = "commit"]
    OBVIOUS
  <2>2. y \in Sessions /\ y.pc = "commit" /\ y.op = sess[s].op
        /\ y.payload = sess[s].payload
    BY <1>1, <2>1, Working DEF Sessions, Control
  <2>3. PlacedIn(y, journal)'
    BY <1>1, <1>4, <2>2, Working DEF PlacedIn, BeforeOperation, Backed, Stored
  <2>4. overlap \/ AloneIn(sess[s], journal)
    BY DEF Inv, Alone
  <2>5. overlap \/ AloneIn(y, journal)'
    BY <1>1, <2>2, <2>4 DEF AloneIn, BeforeOperation, ActiveIn
  <2> QED BY <1>1, <1>2, <1>3, <1>4, <2>1, <2>2, <2>3, <2>5, Working, SessionMovesOn DEF GoTo
<1>5. CASE nfc' = nfc /\ End(s)
  BY <1>1, <1>5, Working, SessionEnds DEF registry, devices
<1> QED BY <1>4, <1>5 DEF BeforeDelete

\* A person that is removed had no access but what the operation saw removed.
LEMMA RemovalSeen ==
  ASSUME Inv, NEW s \in Session, sess[s].pc = "commit", Unchanged(s)
  PROVE  /\ granted = sess[s].payload.targets
         /\ granted \subseteq seen[sess[s].op]
<1>1. sess[s].pc \notin BeforeOperation
  BY DEF BeforeOperation
<1>2. sess[s].payload.targets \subseteq sess[s].payload.done
  BY DEF Inv, IInv, Placed, PlacedIn
<1>3. sess[s].payload.done \subseteq seen[sess[s].op]
  BY <1>1, Working DEF Backed
<1> QED BY <1>2, <1>3 DEF Unchanged

LEMMA FinalizeKeeps ==
  ASSUME Inv, NEW s \in Session, FinalizeDeletion(s)
  PROVE  Inv'
<1>1. /\ sess[s].pc = "commit" /\ sess[s].pc \notin {"observe", "cleanup"}
      /\ sess[s].pc \notin BeforeOperation
      /\ UNCHANGED <<nfc, secret, edits, devices, overlap>>
  BY DEF FinalizeDeletion, At, BeforeOperation
<1>2. PICK o \in Op : o = sess[s].op
  BY <1>1, Working
<1>3. UNCHANGED <<holds, air, sent, seen>>
  BY <1>1 DEF devices
<1>4. ASSUME person, Unchanged(s), person' = FALSE, granted' = {},
             StoreOperation(s, o, [Stored(s) EXCEPT !.status = "completed"],
                            [sess[s] EXCEPT !.pc = "observe"]),
             sess[s].fresh
      PROVE  Inv'
  <2>1. PICK op, y : op = [Stored(s) EXCEPT !.status = "completed"]
                     /\ y = [sess[s] EXCEPT !.pc = "observe"]
    OBVIOUS
  <2>2. op \in Operation(Payload) /\ op.payload = Stored(s).payload
        /\ op.status = "completed" /\ op # None
    BY <1>1, <2>1, Working, Assumptions DEF Operation, OperationStatus
  <2>3. y \in Sessions /\ y.pc = "observe" /\ y.op = o /\ y.payload = sess[s].payload
    BY <1>1, <1>2, <2>1, Working DEF Sessions, Control
  <2>4. StoreOperation(s, o, op, y)
    BY <1>4, <2>1
  <2>5. journal'[o] # None
    BY <2>2, <2>4 DEF StoreOperation, Inv, IInv, TypeOK
  <2>6. PlacedIn(y, journal)'
    BY <1>1, <1>2, <1>3, <1>4, <2>3, <2>5, Working DEF PlacedIn, BeforeOperation, Backed
  <2>7. /\ Backed(o, op.payload)
        /\ overlap \/ Unclaimed(o, op.payload)
    BY <1>1, <1>2, <2>2, Working
  <2>8. Undisturbed'
    <3> SUFFICES ASSUME edits = 0
                 PROVE  /\ \A q \in Op : \A t \in seen[q] : ~holds[t]
                        /\ ~nfc /\ \A t \in Locks : ~holds[t]
      BY <1>1, <1>3, <1>4 DEF Undisturbed
    <3>1. granted = Target /\ \A q \in Op : \A t \in seen[q] : ~holds[t]
      BY <1>4 DEF Inv, IInv, Undisturbed
    <3>2. granted \subseteq seen[o]
      BY <1>1, <1>2, <1>4, RemovalSeen
    <3>3. \A t \in Locks : ~holds[t]
      BY <3>1, <3>2 DEF Locks
    <3>4. ~nfc
      BY <1>1 DEF Inv, IInv, Placed, PlacedIn
    <3> QED BY <3>1, <3>3, <3>4
  <2>9. (overlap \/ y.payload = op.payload) /\ y.pc \notin BeforeOperation
    BY <1>1, <2>2, <2>3, Working DEF BeforeOperation
  <2> QED BY <1>1, <1>2, <1>4, <2>2, <2>3, <2>4, <2>6, <2>7, <2>8, <2>9, OperationWritten
<1>5. ASSUME ~Unchanged(s), UNCHANGED <<person, granted>>, sess[s].fresh,
             StoreOperation(s, o,
               [Stored(s) EXCEPT !.status = "waiting_retry", !.payload = Expanded(s)], Idle)
      PROVE  Inv'
  <2> DEFINE p == Expanded(s)
             new == granted \ sess[s].payload.targets
  <2>1. /\ p.targets = sess[s].payload.targets \cup new
        /\ p.done = sess[s].payload.done /\ p.dated = sess[s].payload.dated
        /\ p.state = [t \in Target |-> IF t \in new THEN "removal_not_requested"
                                       ELSE sess[s].payload.state[t]]
        /\ p = [targets |-> p.targets, done |-> p.done, dated |-> p.dated, state |-> p.state]
    BY DEF Expanded
  <2> HIDE DEF p
  <2>2. new \subseteq Target
    BY DEF Inv, IInv, TypeOK
  <2>3. p.state \in [Target -> RemovalState]
    BY <1>1, <2>1, Working DEF Payload, RemovalState
  <2>4. p \in Payload
    BY <1>1, <2>1, <2>2, <2>3, Working DEF Payload
  <2>5. Backed(o, p)
    BY <1>1, <1>2, <2>1, <2>2, Working DEF Backed
  <2>6. overlap \/ Unclaimed(o, p)
    BY <1>1, <1>2, <2>1, Working DEF Unclaimed, ZWaves, Locks
  <2>7. PICK op : op = [Stored(s) EXCEPT !.status = "waiting_retry", !.payload = p]
    OBVIOUS
  <2>8. op \in Operation(Payload) /\ op.payload = p /\ op.status = "waiting_retry"
    BY <1>1, <2>4, <2>7, Working DEF Operation, OperationStatus
  <2>9. StoreOperation(s, o, op, Idle)
    BY <1>5, <2>7 DEF p
  <2>10. Undisturbed'
    BY <1>1, <1>3, <1>5 DEF Inv, IInv, Undisturbed
  <2> HIDE DEF new
  <2> QED BY <1>1, <1>2, <1>5, <2>5, <2>6, <2>8, <2>9, <2>10, IdleFacts, OperationWritten
<1>6. CASE End(s) /\ UNCHANGED <<person, granted, journal>>
  BY <1>1, <1>6, Working, SessionEnds DEF registry
<1> QED BY <1>2, <1>4, <1>5, <1>6 DEF FinalizeDeletion

LEMMA CleanupKeeps ==
  ASSUME Inv, NEW s \in Session, Observe(s) \/ DeleteSecret(s)
  PROVE  Inv'
<1>1. ASSUME Observe(s) PROVE Inv'
  <2>1. sess[s].pc = "observe" /\ sess[s].pc \notin BeforeOperation
        /\ UNCHANGED <<registry, devices, journal, overlap>>
    BY <1>1 DEF Observe, At, BeforeOperation
  <2>2. CASE GoTo(s, "cleanup")
    <3>1. PICK y : y = [sess[s] EXCEPT !.pc = "cleanup"]
      OBVIOUS
    <3>2. y \in Sessions /\ y.pc = "cleanup" /\ y.op = sess[s].op
          /\ y.payload = sess[s].payload
      BY <2>1, <3>1, Working DEF Sessions, Control
    <3>3. PlacedIn(sess[s], journal) /\ (overlap \/ AloneIn(sess[s], journal))
      BY DEF Inv, IInv, Placed, Alone
    <3>4. PlacedIn(y, journal)
      BY <2>1, <3>2, <3>3 DEF PlacedIn, BeforeOperation
    <3>5. overlap \/ AloneIn(y, journal)
      BY <2>1, <3>2, <3>3 DEF AloneIn, BeforeOperation
    <3> QED BY <2>1, <2>2, <3>1, <3>2, <3>4, <3>5, Working, SessionMoves DEF GoTo
  <2>3. CASE End(s)
    BY <2>1, <2>3, Working, SessionEnds
  <2> QED BY <1>1, <2>2, <2>3 DEF Observe
<1>2. ASSUME DeleteSecret(s) PROVE Inv'
  <2>1. /\ sess[s].pc = "cleanup" /\ sess' = [sess EXCEPT ![s] = Idle]
        /\ secret' \in {secret, FALSE}
        /\ UNCHANGED <<person, granted, nfc, edits, holds, air, sent, seen, journal, overlap>>
    BY <1>2 DEF DeleteSecret, At, End, devices
  <2>2. ~person
    BY <2>1 DEF Inv, IInv, Placed, PlacedIn
  <2>3. overlap \/ KnowsClears(journal)'
    BY <2>1 DEF Inv, Alone, KnowsClears, NotSent
  <2>4. /\ holds' \in [Target -> BOOLEAN] /\ air' \in [Target -> 0..2]
        /\ sent' \in [Op -> [Target -> 0..2]] /\ seen' \in [Op -> SUBSET Target]
    BY <2>1 DEF Inv, IInv, TypeOK
  <2> QED BY <2>1, <2>2, <2>3, <2>4, IdleFacts, SessionMovesOn
<1> QED BY <1>1, <1>2

-----------------------------------------------------------------------------
(* The world around the service                                             *)

LEMMA WorldKeeps ==
  ASSUME Inv, UNCHANGED <<person, secret, journal, sess, sent, seen, overlap>>,
         granted' \in SUBSET Target, nfc' \in BOOLEAN, edits' \in 0..MaxEdits,
         holds' \in [Target -> BOOLEAN], air' \in [Target -> 0..2],
         \/ edits' # 0
         \/ UNCHANGED <<granted, nfc, edits>> /\ \A t \in Target : holds'[t] => holds[t]
  PROVE  Inv'
<1>1. TypeOK' /\ JournalInv'
  BY DEF Inv, IInv, TypeOK, JournalInv, Backed
<1>2. Undisturbed'
  <2> SUFFICES ASSUME edits' = 0
               PROVE  /\ \A o \in Op : \A t \in seen[o] : ~holds'[t]
                      /\ person => granted' = Target
                      /\ ~person => ~nfc' /\ \A t \in Locks : ~holds'[t]
    BY DEF Undisturbed
  <2>1. /\ edits = 0 /\ UNCHANGED <<granted, nfc>>
        /\ \A t \in Target : holds'[t] => holds[t]
    OBVIOUS
  <2>2. /\ \A o \in Op : seen[o] \subseteq Target
        /\ Locks \subseteq Target
    BY DEF Inv, IInv, TypeOK, Locks
  <2>3. /\ \A o \in Op : \A t \in seen[o] : ~holds[t]
        /\ person => granted = Target
        /\ ~person => ~nfc /\ \A t \in Locks : ~holds[t]
    BY <2>1 DEF Inv, IInv, Undisturbed
  <2>4. ~person => ~nfc'
    BY <2>1, <2>3
  <2> QED BY <2>1, <2>2, <2>3, <2>4
<1>3. ASSUME NEW s \in Session PROVE Placed(sess[s])'
  <2>1. PlacedIn(sess[s], journal)
    BY DEF Inv, IInv, Placed
  <2>2. sess[s].pc = "commit" /\ edits' = 0 => ~nfc'
    BY <2>1 DEF PlacedIn
  <2>3. Backed(sess[s].op, sess[s].payload) => Backed(sess[s].op, sess[s].payload)'
    BY DEF Backed
  <2> QED BY <2>1, <2>2, <2>3 DEF Placed, PlacedIn, BeforeOperation, Head
<1>4. Alone'
  BY DEF Inv, Alone, AloneIn, KnowsClears, NotSent, ActiveIn, BeforeOperation, Head
<1> QED BY <1>1, <1>2, <1>3, <1>4 DEF Inv, IInv

LEMMA DeliverKeeps ==
  ASSUME Inv, NEW t \in Target, Deliver(t)
  PROVE  Inv'
<1>1. /\ granted \in SUBSET Target /\ nfc \in BOOLEAN /\ edits \in 0..MaxEdits
      /\ holds \in [Target -> BOOLEAN] /\ air \in [Target -> 0..2]
  BY DEF Inv, IInv, TypeOK
<1>2. air[t] - 1 \in 0..2
  BY <1>1 DEF Deliver
<1>3. air' \in [Target -> 0..2]
  BY <1>1, <1>2 DEF Deliver
<1>4. holds' \in [Target -> BOOLEAN] /\ \A u \in Target : holds'[u] => holds[u]
  BY <1>1 DEF Deliver
<1> QED BY <1>1, <1>3, <1>4, WorldKeeps DEF Deliver, registry

LEMMA OthersKeep ==
  ASSUME Inv, Others
  PROVE  Inv'
<1>1. /\ granted \in SUBSET Target /\ nfc \in BOOLEAN /\ edits \in 0..MaxEdits
      /\ holds \in [Target -> BOOLEAN] /\ air \in [Target -> 0..2]
  BY DEF Inv, IInv, TypeOK
<1>2. ASSUME Edit PROVE edits' \in 0..MaxEdits /\ edits' # 0
  BY <1>1, <1>2, Assumptions DEF Edit
<1>3. ASSUME NEW t \in Target, GiveAccess(t) PROVE Inv'
  <2>1. granted \cup {t} \in SUBSET Target
    BY <1>1
  <2>2. holds' \in [Target -> BOOLEAN]
    BY <1>1, <1>3 DEF GiveAccess
  <2> QED BY <1>1, <1>2, <1>3, <2>1, <2>2, WorldKeeps DEF GiveAccess
<1>4. ASSUME NEW t \in Target, TakeAccess(t) PROVE Inv'
  <2>1. granted \ {t} \in SUBSET Target
    BY <1>1
  <2>2. holds' \in [Target -> BOOLEAN]
    BY <1>1, <1>4 DEF TakeAccess
  <2> QED BY <1>1, <1>2, <1>4, <2>1, <2>2, WorldKeeps DEF TakeAccess
<1>5. ASSUME NEW t \in Target, ReplacePin(t) PROVE Inv'
  <2>1. holds' \in [Target -> BOOLEAN]
    BY <1>1, <1>5 DEF ReplacePin
  <2> QED BY <1>1, <1>2, <1>5, <2>1, WorldKeeps DEF ReplacePin
<1>6. ASSUME EnrolPasskey PROVE Inv'
  BY <1>1, <1>2, <1>6, WorldKeeps DEF EnrolPasskey, devices
<1> QED BY <1>3, <1>4, <1>5, <1>6 DEF Others

LEMMA CrashKeeps ==
  ASSUME Inv, Crash
  PROVE  Inv'
<1>1. /\ UNCHANGED <<person, granted, nfc, secret, edits, holds, air, sent, seen>>
      /\ UNCHANGED <<journal, overlap>>
      /\ \A s \in Session : sess'[s] = Idle
      /\ sess' \in [Session -> Sessions]
  BY IdleFacts DEF Crash, registry, devices
<1>2. TypeOK' /\ JournalInv' /\ Undisturbed'
  BY <1>1 DEF Inv, IInv, TypeOK, JournalInv, Undisturbed, Backed
<1>3. \A s \in Session : Placed(sess[s])'
  BY <1>1, IdleFacts DEF Placed, PlacedIn, BeforeOperation
<1>4. Alone'
  BY <1>1, IdleFacts DEF Inv, Alone, AloneIn, KnowsClears, NotSent, ActiveIn, BeforeOperation
<1> QED BY <1>1, <1>2, <1>3, <1>4 DEF Inv, IInv

LEMMA StutterKeeps ==
  ASSUME Inv, UNCHANGED vars
  PROVE  Inv'
BY WorldKeeps DEF vars, registry, devices, Inv, IInv, TypeOK

-----------------------------------------------------------------------------
LEMMA NextInv == Inv /\ [Next]_vars => Inv'
<1> SUFFICES ASSUME Inv, [Next]_vars PROVE Inv'
  OBVIOUS
<1>1. ASSUME NEW s \in Session, SessionStep(s) PROVE Inv'
  <2>1. ASSUME TargetStep(s) PROVE Inv'
    BY <2>1, IntendKeeps, RequestKeeps, RecordAnswerKeeps, VerifyKeeps,
       RecordVerificationKeeps DEF TargetStep
  <2> QED BY <1>1, <2>1, LookupKeeps, CreateKeeps, NormalizeKeeps, MarkKeeps,
          BeforeDeleteKeeps, FinalizeKeeps, CleanupKeeps DEF SessionStep
<1> QED BY <1>1, BeginKeeps, DeliverKeeps, OthersKeep, CrashKeeps, StutterKeeps DEF Next

\* The inductive invariant holds throughout.
THEOREM Invariance == Spec => []Inv
BY InitInv, NextInv, PTL DEF Spec

\* The state is always of its type, with any number of calls.
THEOREM TypeCorrect == Spec => []TypeOK
<1>1. Inv => TypeOK
  BY DEF Inv, IInv
<1> QED BY <1>1, Invariance, PTL

\* "Remove device credentials before finalizing local Person deletion": while no
\* other service changes the person's access, no lock has the code of a person
\* that is gone, however calls overlap and wherever they end.
THEOREM DevicesFirst == Spec => []DeviceFirstUndisturbed
<1>1. Inv => DeviceFirstUndisturbed
  BY DEF Inv, IInv, Undisturbed, DeviceFirstUndisturbed, DeviceFirst
<1> QED BY <1>1, Invariance, PTL

\* The PIN leaves the vault, and the NFC authority is gone, in the order the
\* service promises.
THEOREM AuthorityInOrder == Spec => []AuthorityGoesInOrder
<1>1. Inv => AuthorityGoesInOrder
  BY DEF Inv, IInv, Undisturbed, AuthorityGoesInOrder
<1> QED BY <1>1, Invariance, PTL

\* Calls that do not overlap send a Z-Wave lock one clear per deletion, however
\* often they end early and the deletion is tried again.
THEOREM ClearedAtMostOnce == Spec => []ClearedOnce
<1>1. Inv => ClearedOnce
  BY DEF Inv, Alone, KnowsClears, ClearedOnce
<1> QED BY <1>1, Invariance, PTL

\* Calls that do not overlap leave no incomplete operation of a person that is gone.
THEOREM NoOrphanOperation == Spec => []NothingLeftBehind
<1>1. Inv => NothingLeftBehind
  BY DEF Inv, Alone, NothingLeftBehind, Active, ActiveIn
<1> QED BY <1>1, Invariance, PTL

\* Whatever other services and calls do, the step that removes a person completes
\* an operation that saw each access point of the person empty.
THEOREM RemovalConfirmed == Spec => RemovedOnlyIfConfirmed
<1> DEFINE Fine == person /\ ~person' =>
                     \E o \in Op : /\ journal[o] # None /\ journal[o].status # "completed"
                                   /\ journal'[o].status = "completed"
                                   /\ granted \subseteq seen[o]
<1>1. Inv /\ [Next]_vars => [Fine]_vars
  <2> SUFFICES ASSUME Inv, Next, person, ~person'
               PROVE  \E o \in Op : /\ journal[o] # None /\ journal[o].status # "completed"
                                    /\ journal'[o].status = "completed"
                                    /\ granted \subseteq seen[o]
    OBVIOUS
  <2>1. ASSUME NEW s \in Session, ~FinalizeDeletion(s), BeginDeletion(s) \/ SessionStep(s)
        PROVE  UNCHANGED person
    <3>1. ASSUME TargetStep(s) PROVE UNCHANGED person
      BY <3>1 DEF TargetStep, NoDriver, IntendRemoval, RequestRemoval, RecordAnswer,
         AssumeRequested, VerifyRemoval, RecordVerification, registry
    <3> QED BY <2>1, <3>1 DEF SessionStep, BeginDeletion, ActiveOperation, CaptureTargets,
            CreateOperation, NormalizeOperation, MarkRunning, BeforeDelete, Observe,
            DeleteSecret, registry
  <2>2. Others \/ Crash \/ (\E t \in Target : Deliver(t)) => UNCHANGED person
    BY DEF Others, GiveAccess, TakeAccess, ReplacePin, EnrolPasskey, Crash, Deliver, registry
  <2>3. PICK s \in Session : FinalizeDeletion(s)
    BY <2>1, <2>2 DEF Next
  <2>4. sess[s].pc = "commit" /\ sess[s].pc \notin BeforeOperation
    BY <2>3 DEF FinalizeDeletion, At, BeforeOperation
  <2>5. /\ Unchanged(s)
        /\ StoreOperation(s, sess[s].op, [Stored(s) EXCEPT !.status = "completed"],
                          [sess[s] EXCEPT !.pc = "observe"])
    BY <2>3 DEF FinalizeDeletion
  <2>6. /\ sess[s].op \in Op /\ Stored(s) # None /\ Stored(s) \in Operation(Payload)
        /\ Stored(s).status # "completed"
    BY <2>4, Working
  <2>7. journal'[sess[s].op] = [Stored(s) EXCEPT !.status = "completed"]
    BY <2>5, <2>6 DEF StoreOperation, Inv, IInv, TypeOK
  <2>8. journal'[sess[s].op].status = "completed"
    BY <2>6, <2>7 DEF Operation
  <2>9. granted \subseteq seen[sess[s].op]
    BY <2>4, <2>5, RemovalSeen
  <2> QED BY <2>6, <2>8, <2>9 DEF Stored
<1> QED BY <1>1, Invariance, PTL DEF Spec, RemovedOnlyIfConfirmed

-----------------------------------------------------------------------------
(* The clears on their way, where one call runs at a time and no other      *)
(* service touches the person's access.                                     *)

\* States of a target of which a clear may still be sent.
Open == Unsent \cup {"removal_requesting"}

\* No clear was ever sent to t, there being operations that could have.
NeverCleared(t) == Op # {} /\ \A o \in Op : NotSent(o, t)

\* Payload p asks for no clear of t.
Closed(p, t) == t \in p.targets /\ p.state[t] \notin Open

\* A call is about to send, or has sent, the clear of the target it is at.
Requesting(x) ==
  x.pc \in {"request", "answered"} =>
    \A t \in Target : Head(x.payload, t) => x.payload.state[t] = "removal_requesting"

\* What no operation asks for can be missing from a lock before any clear.
ClosedEverywhere(j, t) ==
  /\ \E o \in Op : j[o] # None
  /\ \A o \in Op : j[o] # None => Closed(j[o].payload, t)

\* A clear is on its way only to a Z-Wave lock that still has the code, and one
\* at most: it was never cleared before, and a lock that is empty without having
\* been cleared is closed in every operation.
ClearsKnown ==
  /\ \A t \in Target : air[t] # 0 => air[t] = 1 /\ t \in ZWaves /\ holds[t]
  /\ \A t \in ZWaves : NeverCleared(t) =>
       /\ air[t] = 0
       /\ holds[t] \/ ClosedEverywhere(journal, t)
  /\ \A s \in Session : Requesting(sess[s])

ClearsInv == ~overlap /\ edits = 0 => ClearsKnown

LEMMA InitClears == Init => ClearsKnown
<1> SUFFICES ASSUME Init PROVE ClearsKnown
  OBVIOUS
<1> USE Assumptions
<1>1. \A s \in Session : Requesting(sess[s])
  BY IdleFacts DEF Init, Requesting
<1>2. ZWaves \subseteq Locks /\ Locks \subseteq Target
  BY DEF ZWaves, Locks
<1>3. CASE /\ journal = [o \in Op |-> None]
           /\ holds = [t \in Target |-> t \in Locks]
           /\ air = [t \in Target |-> 0]
  BY <1>1, <1>2, <1>3 DEF ClearsKnown
<1>4. ASSUME NEW t \in Target, NEW state \in Dated \ {"success"},
        journal = [o \in Op |-> IF o = 1 THEN DatedOperation(t, state) ELSE None],
        holds = [u \in Target |-> u \in Locks /\ u >= t],
        LET out(u) == u = t /\ state = "retryable_failure"
        IN /\ air = [u \in Target |-> IF out(u) /\ u \in ZWaves THEN 1 ELSE 0]
           /\ sent = [o \in Op |-> [u \in Target |-> IF o = 1 /\ out(u) THEN 1 ELSE 0]]
      PROVE ClearsKnown
  <2>1. t \in Nat /\ \A u \in Target : u \in Nat
    BY DEF Target
  <2>2. \A u \in Target : u \in Locks /\ u >= t => holds[u]
    BY <1>4, Zenon
  <2>3. \A u \in Target : air[u] # 0 => air[u] = 1 /\ u \in ZWaves /\ u = t
    BY <1>4
  <2>4. \A u \in Target : air[u] # 0 => air[u] = 1 /\ u \in ZWaves /\ holds[u]
    BY <1>2, <2>1, <2>2, <2>3
  <2>5. ASSUME NEW u \in ZWaves, Op # {}, \A o \in Op : sent[o][u] = 0
        PROVE  air[u] = 0 /\ (holds[u] \/ ClosedEverywhere(journal, u))
    <3>1. u \in Target /\ u \in Locks
      BY <1>2
    <3>2. 1 \in Op
      BY <2>5 DEF Op
    <3>3. air[u] = 0
      <4>1. sent[1][u] = 0
        BY <2>5, <3>2
      <4> QED BY <1>4, <3>1, <3>2, <4>1
    <3>4. ASSUME ~holds[u] PROVE ClosedEverywhere(journal, u)
      <4>1. u < t
        BY <2>1, <2>2, <3>1, <3>4
      <4>2. Closed(DatedOperation(t, state).payload, u)
        BY <3>1, <4>1, DatedFacts DEF Closed, Open, Unsent
      <4>3. \A o \in Op : journal[o] # None => journal[o] = DatedOperation(t, state)
        BY <1>4
      <4>4. journal[1] # None
        <5>1. DatedOperation(t, state) # None
          BY DatedFacts, Assumptions
        <5> QED BY <1>4, <3>2, <5>1
      <4> QED BY <3>2, <4>2, <4>3, <4>4 DEF ClosedEverywhere
    <3> QED BY <3>3, <3>4
  <2> QED BY <1>1, <2>4, <2>5 DEF ClearsKnown, NeverCleared, NotSent
<1> QED BY <1>3, <1>4 DEF Init

\* A step that changes no Z-Wave lock and nothing on its way, and leaves each
\* operation of the journal as closed as it was.
LEMMA ClearsStay ==
  ASSUME ClearsKnown, air' = air,
         \A t \in ZWaves : holds'[t] = holds[t] /\ \A o \in Op : sent'[o][t] = sent[o][t],
         \A t \in ZWaves : ClosedEverywhere(journal, t) => ClosedEverywhere(journal', t),
         \A s \in Session : Requesting(sess'[s])
  PROVE  ClearsKnown'
<1>1. ZWaves \subseteq Target
  BY DEF ZWaves, Locks
<1>2. \A t \in ZWaves : NeverCleared(t)' => NeverCleared(t)
  BY DEF NeverCleared, NotSent
<1>3. \A t \in Target : air'[t] # 0 => air'[t] = 1 /\ t \in ZWaves /\ holds'[t]
  BY DEF ClearsKnown
<1>4. \A t \in ZWaves : NeverCleared(t)' =>
        /\ air'[t] = 0
        /\ holds'[t] \/ ClosedEverywhere(journal', t)
  BY <1>2 DEF ClearsKnown
<1> QED BY <1>3, <1>4 DEF ClearsKnown

\* Session s goes on as y, and nothing that was sent or written changes.
LEMMA ClearsMove ==
  ASSUME Inv, ClearsKnown, NEW s \in Session, NEW y, Requesting(y),
         sess' = [sess EXCEPT ![s] = y], UNCHANGED <<air, journal, sent>>,
         \A t \in ZWaves : holds'[t] = holds[t]
  PROVE  ClearsKnown'
<1>1. \A r \in Session : Requesting(sess'[r])
  BY DEF ClearsKnown, Inv, IInv, TypeOK
<1> QED BY <1>1, ClearsStay

LEMMA ClearsEnd ==
  ASSUME Inv, ClearsKnown, NEW s \in Session, End(s),
         UNCHANGED <<holds, air, journal, sent>>
  PROVE  ClearsKnown'
<1>1. Requesting(Idle)
  BY IdleFacts DEF Requesting
<1> QED BY <1>1, ClearsMove DEF End

\* Operation o, which was there, is stored as op, which asks for no clear that o
\* did not ask for.
LEMMA ClearsStore ==
  ASSUME Inv, ClearsKnown, NEW s \in Session, NEW o \in Op, journal[o] # None,
         NEW op \in Operation(Payload), NEW y, Requesting(y),
         \A t \in ZWaves : Closed(journal[o].payload, t) => Closed(op.payload, t),
         StoreOperation(s, o, op, y), UNCHANGED devices
  PROVE  ClearsKnown'
<1>1. UNCHANGED <<holds, air, sent>>
  BY DEF devices
<1>2. /\ journal'[o] = op /\ op # None
      /\ \A q \in Op : q # o => journal'[q] = journal[q]
  BY Assumptions DEF StoreOperation, Inv, IInv, TypeOK
<1>3. \A t \in ZWaves : ClosedEverywhere(journal, t) => ClosedEverywhere(journal', t)
  BY <1>2 DEF ClosedEverywhere
<1>4. ASSUME NEW r \in Session PROVE Requesting(sess'[r])
  <2>1. sess[r] \in Sessions /\ Requesting(sess[r])
    BY DEF Inv, IInv, TypeOK, ClearsKnown
  <2>2. CASE r = s
    BY <2>2 DEF StoreOperation
  <2>3. CASE r # s
    <3>1. sess'[r] = sess[r] \/ sess'[r] = [sess[r] EXCEPT !.fresh = FALSE]
      BY <2>3 DEF StoreOperation
    <3>2. sess'[r].pc = sess[r].pc /\ sess'[r].payload = sess[r].payload
      BY <2>1, <3>1 DEF Sessions
    <3> QED BY <2>1, <3>2 DEF Requesting
  <2> QED BY <2>2, <2>3
<1> QED BY <1>1, <1>3, <1>4, ClearsStay

LEMMA ClearsWrite ==
  ASSUME Inv, ClearsKnown, NEW s \in Session, sess[s].pc \notin BeforeOperation,
         NEW op \in Operation(Payload), NEW pc,
         pc = "request" => \A t \in Target : Head(op.payload, t) =>
                             op.payload.state[t] = "removal_requesting",
         pc # "answered", \A t \in ZWaves : Closed(Stored(s).payload, t) => Closed(op.payload, t),
         Write(s, op, pc), UNCHANGED devices
  PROVE  ClearsKnown'
<1>1. PICK o \in Op : o = sess[s].op
  BY Working
<1>2. journal[o] # None /\ Stored(s) = journal[o] /\ sess[s] \in Sessions
  BY <1>1, Working DEF Stored
<1>3. PICK y : y = [sess[s] EXCEPT !.pc = pc, !.payload = op.payload, !.fresh = TRUE,
                                   !.answer = "none"]
  OBVIOUS
<1>4. y.pc = pc /\ y.payload = op.payload
  BY <1>2, <1>3 DEF Sessions
<1>5. Requesting(y) /\ Requesting(Idle)
  BY <1>4, IdleFacts DEF Requesting
<1>6. CASE End(s) /\ UNCHANGED journal
  BY <1>6, ClearsEnd DEF devices
<1>7. CASE StoreOperation(s, o, op, y) \/ StoreOperation(s, o, op, Idle)
  BY <1>2, <1>5, <1>7, ClearsStore
<1> QED BY <1>1, <1>3, <1>6, <1>7 DEF Write

LEMMA ClearsPause ==
  ASSUME Inv, ClearsKnown, NEW s \in Session, sess[s].pc \notin BeforeOperation,
         NEW p \in Payload, NEW retryable \in BOOLEAN,
         \A t \in ZWaves : Closed(Stored(s).payload, t) => Closed(p, t),
         Pause(s, p, retryable), UNCHANGED devices
  PROVE  ClearsKnown'
<1>1. PICK o \in Op : o = sess[s].op
  BY Working
<1>2. journal[o] # None /\ Stored(s) = journal[o]
  BY <1>1, Working DEF Stored
<1>3. PICK q : q = [p EXCEPT !.done = Stored(s).payload.done]
  OBVIOUS
<1>4. q \in Payload /\ q.targets = p.targets /\ q.state = p.state
  BY <1>3, Working DEF Payload
<1>5. PICK op : op = FailureRecorded(Stored(s), q, retryable)
  OBVIOUS
<1>6. op \in Operation(Payload) /\ op.payload = q
  BY <1>4, <1>5, Working, Assumptions DEF FailureRecorded, Operation, OperationStatus, RetryCount
<1>7. \A t \in ZWaves : Closed(journal[o].payload, t) => Closed(op.payload, t)
  BY <1>2, <1>4, <1>6 DEF Closed
<1>8. Requesting(Idle)
  BY IdleFacts DEF Requesting
<1>9. CASE End(s) /\ UNCHANGED journal
  BY <1>9, ClearsEnd DEF devices
<1>10. CASE StoreOperation(s, o, op, Idle)
  BY <1>2, <1>6, <1>7, <1>8, <1>10, ClearsStore
<1> QED BY <1>1, <1>3, <1>5, <1>9, <1>10 DEF Pause

-----------------------------------------------------------------------------
(* Each step of a call *)

\* Writing the state of the target that the session is at closes or opens only
\* that target.
LEMMA TargetCloses ==
  ASSUME Inv, ~overlap, NEW s \in Session, sess[s].pc \notin BeforeOperation,
         NEW t \in Target, Head(sess[s].payload, t), NEW state \in RemovalState,
         \/ state \notin Open
         \/ sess[s].payload.state[t] \in Open
  PROVE  /\ WithTarget(s, t, state) \in Payload
         /\ \A u \in ZWaves : Closed(Stored(s).payload, u) => Closed(WithTarget(s, t, state), u)
<1>1. /\ WithTarget(s, t, state) \in Payload
      /\ WithTarget(s, t, state).targets = sess[s].payload.targets
      /\ WithTarget(s, t, state).state[t] = state
      /\ \A u \in Target : u # t =>
           WithTarget(s, t, state).state[u] = sess[s].payload.state[u]
  BY Working, TargetWritten
<1>2. sess[s].payload = Stored(s).payload
  BY Working
<1> QED BY <1>1, <1>2 DEF Closed, ZWaves, Locks

LEMMA BeginClears ==
  ASSUME Inv, ClearsKnown, NEW s \in Session,
         BeginDeletion(s) \/ ActiveOperation(s) \/ CaptureTargets(s)
  PROVE  ClearsKnown'
<1>1. sess[s] \in Sessions
  BY DEF Inv, IInv, TypeOK
<1>2. UNCHANGED <<holds, air, journal, sent>>
  BY DEF BeginDeletion, ActiveOperation, CaptureTargets, devices
<1>3. PICK y : /\ sess' = [sess EXCEPT ![s] = y]
               /\ y.pc \notin {"request", "answered"}
  <2>1. CASE BeginDeletion(s)
    <3>1. [sess[s] EXCEPT !.pc = "lookup"].pc = "lookup"
      BY <1>1 DEF Sessions
    <3> QED BY <2>1, <3>1 DEF BeginDeletion, GoTo
  <2>2. CASE ActiveOperation(s)
    <3>1. CASE GoTo(s, "capture")
      <4>1. [sess[s] EXCEPT !.pc = "capture"].pc = "capture"
        BY <1>1 DEF Sessions
      <4> QED BY <3>1, <4>1 DEF GoTo
    <3>2. ASSUME NEW o \in Active,
                 sess' = [sess EXCEPT ![s] =
                   [sess[s] EXCEPT !.pc = "normalize", !.op = o,
                                   !.payload = journal[o].payload, !.fresh = TRUE]]
          PROVE  \E y : sess' = [sess EXCEPT ![s] = y] /\ y.pc \notin {"request", "answered"}
      <4>1. [sess[s] EXCEPT !.pc = "normalize", !.op = o, !.payload = journal[o].payload,
                            !.fresh = TRUE].pc = "normalize"
        BY <1>1 DEF Sessions
      <4> QED BY <3>2, <4>1
    <3> QED BY <2>2, <3>1, <3>2 DEF ActiveOperation
  <2>3. CASE CaptureTargets(s)
    <3>1. [sess[s] EXCEPT !.pc = "create", !.payload = NewPayload(granted)].pc = "create"
      BY <1>1 DEF Sessions
    <3> QED BY <2>3, <3>1, IdleFacts DEF CaptureTargets
  <2> QED BY <2>1, <2>2, <2>3
<1>4. Requesting(y)
  BY <1>3 DEF Requesting
<1> QED BY <1>2, <1>3, <1>4, ClearsMove

\* A new operation is created where there is none at all: those that are
\* completed are of a person that is gone.
LEMMA CreateClears ==
  ASSUME Inv, ~overlap, ClearsKnown, NEW s \in Session, CreateOperation(s)
  PROVE  ClearsKnown'
<1>1. sess[s].pc = "create" /\ UNCHANGED <<holds, air, sent>> /\ sess[s] \in Sessions
  BY DEF CreateOperation, At, devices, Inv, IInv, TypeOK
<1>2. person /\ ActiveIn(journal) = {}
  BY <1>1 DEF Inv, Alone, AloneIn
<1>3. \A o \in Op : journal[o] = None
  BY <1>2 DEF ActiveIn, Incomplete, Inv, IInv, JournalInv
<1>4. ASSUME NEW o \in Op, NEW y,
             y \in {[sess[s] EXCEPT !.pc = "mark", !.op = o, !.fresh = TRUE], Idle},
             StoreOperation(s, o, NewOperation(sess[s].payload), y)
      PROVE  ClearsKnown'
  <2>1. [sess[s] EXCEPT !.pc = "mark", !.op = o, !.fresh = TRUE].pc = "mark"
    BY <1>1 DEF Sessions
  <2>2. Requesting(y)
    BY <1>4, <2>1, IdleFacts DEF Requesting
  <2>3. ASSUME NEW r \in Session PROVE Requesting(sess'[r])
    <3>1. sess[r] \in Sessions /\ Requesting(sess[r])
      BY DEF Inv, IInv, TypeOK, ClearsKnown
    <3>2. CASE r = s
      BY <1>4, <2>2, <3>2 DEF StoreOperation
    <3>3. CASE r # s
      <4>1. sess'[r] = sess[r] \/ sess'[r] = [sess[r] EXCEPT !.fresh = FALSE]
        BY <1>4, <3>3 DEF StoreOperation
      <4>2. sess'[r].pc = sess[r].pc /\ sess'[r].payload = sess[r].payload
        BY <3>1, <4>1 DEF Sessions
      <4> QED BY <3>1, <4>2 DEF Requesting
    <3> QED BY <3>2, <3>3
  <2>4. \A t \in ZWaves : ~ClosedEverywhere(journal, t)
    BY <1>3 DEF ClosedEverywhere
  <2> QED BY <1>1, <2>3, <2>4, ClearsStay
<1>5. CASE End(s) /\ UNCHANGED journal
  BY <1>1, <1>5, ClearsEnd
<1> QED BY <1>4, <1>5 DEF CreateOperation

LEMMA ResumeClears ==
  ASSUME Inv, ~overlap, ClearsKnown, NEW s \in Session,
         NormalizeOperation(s) \/ MarkRunning(s)
  PROVE  ClearsKnown'
<1>1. /\ sess[s].pc \in {"normalize", "mark"} /\ sess[s].pc \notin BeforeOperation
      /\ UNCHANGED devices
  BY DEF NormalizeOperation, MarkRunning, At, BeforeOperation
<1>2. sess[s].payload = Stored(s).payload /\ sess[s] \in Sessions
      /\ Stored(s) \in Operation(Payload)
      /\ sess[s].payload \in Payload /\ Backed(sess[s].op, sess[s].payload)
  BY <1>1, Working
<1>3. CASE MarkRunning(s)
  <2>1. PICK op : op = MarkedRunning(Stored(s))
    OBVIOUS
  <2>2. op \in Operation(Payload) /\ op.payload = Stored(s).payload
    BY <1>2, <2>1 DEF MarkedRunning, Operation, OperationStatus
  <2>3. Write(s, op, "targets")
    BY <1>3, <2>1 DEF MarkRunning
  <2> QED BY <1>1, <2>2, <2>3, ClearsWrite
<1>4. CASE NormalizeOperation(s) /\ GoTo(s, "mark") /\ UNCHANGED journal
  <2>1. PICK y : y = [sess[s] EXCEPT !.pc = "mark"]
    OBVIOUS
  <2>2. y.pc = "mark"
    BY <1>2, <2>1 DEF Sessions
  <2>3. Requesting(y)
    BY <2>2 DEF Requesting
  <2> QED BY <1>1, <1>4, <2>1, <2>3, ClearsMove DEF GoTo, devices
<1>5. CASE Write(s, [Stored(s) EXCEPT !.payload = Normalized(sess[s].payload)], "mark")
  <2>1. PICK p : p = sess[s].payload
    OBVIOUS
  <2>2. PICK q : q = Normalized(p)
    OBVIOUS
  <2>3. p \in Payload /\ q \in Payload
    <3>1. overlap \in BOOLEAN
      BY DEF Inv, IInv, TypeOK
    <3>2. PICK o \in Op : Backed(o, p) /\ (overlap => Unclaimed(o, p))
      BY <1>1, <2>1, Working
    <3> QED BY <1>2, <2>1, <2>2, <3>1, <3>2, NormalizedClaims
  <2>4. q.targets = p.targets
        /\ \A t \in Target : q.state[t] = UpgradedState(p, t) \/ q.state[t] = p.state[t]
    BY <2>2 DEF Normalized
  <2>5. \A t \in Target : p.state[t] \notin Open => UpgradedState(p, t) \notin Open
    BY <2>3 DEF UpgradedState, Upgraded, Open, Unsent, Payload, RemovalState, Dated
  <2>6. \A t \in ZWaves : Closed(p, t) => Closed(q, t)
    BY <2>4, <2>5 DEF Closed, ZWaves, Locks
  <2>7. PICK op : op = [Stored(s) EXCEPT !.payload = q]
    OBVIOUS
  <2>8. op \in Operation(Payload) /\ op.payload = q
    BY <1>2, <2>3, <2>7 DEF Operation
  <2>9. Write(s, op, "mark")
    BY <1>5, <2>1, <2>2, <2>7
  <2> QED BY <1>1, <1>2, <2>1, <2>6, <2>8, <2>9, ClearsWrite
<1> QED BY <1>3, <1>4, <1>5 DEF NormalizeOperation

LEMMA IntendClears ==
  ASSUME Inv, ~overlap, ClearsKnown, NEW s \in Session, NEW t \in Target,
         NoDriver(s, t) \/ IntendRemoval(s, t) \/ AssumeRequested(s, t)
  PROVE  ClearsKnown'
<1>1. /\ sess[s].pc = "targets" /\ sess[s].pc \notin BeforeOperation
      /\ Head(sess[s].payload, t) /\ UNCHANGED devices
      /\ sess[s].payload \in Payload /\ Stored(s) \in Operation(Payload)
  BY Working DEF NoDriver, IntendRemoval, AssumeRequested, At, BeforeOperation, AtTarget,
                 Pending, Head
<1>2. CASE NoDriver(s, t)
  <2>1. PICK p : p = WithTarget(s, t, "verification_failed")
    OBVIOUS
  <2>2. p \in Payload /\ \A u \in ZWaves : Closed(Stored(s).payload, u) => Closed(p, u)
    BY <1>1, <2>1, TargetCloses DEF RemovalState, Open, Unsent
  <2> QED BY <1>1, <1>2, <2>1, <2>2, ClearsPause DEF NoDriver
<1>3. CASE IntendRemoval(s, t)
  <2>1. PICK p : p = WithTarget(s, t, "removal_requesting")
    OBVIOUS
  <2>2. sess[s].payload.state[t] \in Open
    BY <1>3 DEF IntendRemoval, StateOf, Open, Unsent
  <2>3. p \in Payload /\ \A u \in ZWaves : Closed(Stored(s).payload, u) => Closed(p, u)
    BY <1>1, <2>1, <2>2, TargetCloses DEF RemovalState
  <2>4. p.targets = sess[s].payload.targets /\ p.done = sess[s].payload.done
        /\ p.state[t] = "removal_requesting"
    BY <1>1, <2>1, TargetWritten DEF RemovalState
  <2>5. \A u \in Target : Head(p, u) => u = t
    BY <1>1, <2>4 DEF Head, Target
  <2>6. PICK op : op = Progressed(Stored(s), p)
    OBVIOUS
  <2>7. op \in Operation(Payload) /\ op.payload = p
    BY <1>1, <2>3, <2>6 DEF Progressed, Operation, OperationStatus
  <2>8. Write(s, op, "request")
    BY <1>3, <2>1, <2>6 DEF IntendRemoval, Checkpoint
  <2> QED BY <1>1, <2>3, <2>4, <2>5, <2>7, <2>8, ClearsWrite
<1>4. CASE AssumeRequested(s, t)
  <2>1. PICK p : p = WithTarget(s, t, "verification_pending")
    OBVIOUS
  <2>2. p \in Payload /\ \A u \in ZWaves : Closed(Stored(s).payload, u) => Closed(p, u)
    BY <1>1, <2>1, TargetCloses DEF RemovalState, Open, Unsent
  <2>3. PICK op : op = Progressed(Stored(s), p)
    OBVIOUS
  <2>4. op \in Operation(Payload) /\ op.payload = p
    BY <1>1, <2>2, <2>3 DEF Progressed, Operation, OperationStatus
  <2>5. Write(s, op, "targets")
    BY <1>4, <2>1, <2>3 DEF AssumeRequested, Checkpoint
  <2> QED BY <1>1, <2>2, <2>4, <2>5, ClearsWrite
<1> QED BY <1>2, <1>3, <1>4

\* The clear that goes out is the first of its lock, whatever the operation: the
\* lock has the code, and nothing else is on its way to it.
LEMMA RequestClears ==
  ASSUME Inv, ~overlap, ClearsKnown, NEW s \in Session, NEW t \in Target,
         RequestRemoval(s, t)
  PROVE  ClearsKnown'
<1>1. /\ sess[s].pc = "request" /\ sess[s].pc \notin BeforeOperation
      /\ Head(sess[s].payload, t) /\ UNCHANGED journal
      /\ sess[s] \in Sessions
  BY Working DEF RequestRemoval, At, BeforeOperation, AtTarget, Pending, Head
<1>2. PICK y : /\ sess' = [sess EXCEPT ![s] = y]
               /\ y.pc = "answered" /\ y.payload = sess[s].payload
  <2>1. PICK a : sess' = [sess EXCEPT ![s] = [sess[s] EXCEPT !.pc = "answered", !.answer = a]]
    BY DEF RequestRemoval, Answer
  <2>2. PICK x : x = [sess[s] EXCEPT !.pc = "answered", !.answer = a]
    OBVIOUS
  <2>3. x.pc = "answered" /\ x.payload = sess[s].payload
    BY <1>1, <2>2 DEF Sessions
  <2> QED BY <2>1, <2>2, <2>3
<1>3. Requesting(sess[s]) /\ Requesting(y)
  BY <1>1, <1>2 DEF ClearsKnown, Requesting
<1>4. ZWaves \subseteq Target /\ ZWaves \cap Nukis = {}
  BY DEF ZWaves, Locks
<1>5. /\ sent \in [Op -> [Target -> 0..2]] /\ air \in [Target -> 0..2]
      /\ holds \in [Target -> BOOLEAN]
  BY DEF Inv, IInv, TypeOK
<1>6. PICK o \in Op : o = sess[s].op
  BY <1>1, Working
<1>7. CASE /\ t \in ZWaves /\ air' = [air EXCEPT ![t] = More(@)] /\ Send(s, t)
           /\ UNCHANGED holds
  <2>1. /\ sent' = [sent EXCEPT ![o] = [sent[o] EXCEPT ![t] = More(@)]]
    BY <1>6, <1>7 DEF Send
  <2>2. sent'[o][t] = More(sent[o][t])
        /\ \A q \in Op, u \in Target : q # o \/ u # t => sent'[q][u] = sent[q][u]
    BY <1>5, <2>1
  <2>3. /\ NotSent(o, t) /\ ActiveIn(journal) \subseteq {o} /\ person
        /\ sess[s].payload = journal[o].payload /\ journal[o] # None
    BY <1>1, <1>6, <1>7, Working DEF Inv, Alone, AloneIn, BeforeOperation, Stored
  <2>4. ASSUME NEW q \in Op, q # o PROVE NotSent(q, t)
    <3>1. journal[q] = None
      BY <2>3, <2>4 DEF ActiveIn, Incomplete, Inv, IInv, JournalInv
    <3> QED BY <1>7, <3>1 DEF Inv, Alone, KnowsClears
  <2>5. NeverCleared(t)
    BY <2>3, <2>4 DEF NeverCleared
  <2>6. ~Closed(journal[o].payload, t)
    BY <1>1, <1>3, <2>3 DEF Requesting, Closed, Open
  <2>7. air[t] = 0 /\ holds[t]
    BY <1>7, <2>3, <2>5, <2>6 DEF ClearsKnown, ClosedEverywhere
  <2>8. \A u \in Target : air'[u] # 0 => air'[u] = 1 /\ u \in ZWaves /\ holds'[u]
    <3>1. \A u \in Target : air'[u] = IF u = t THEN 1 ELSE air[u]
      BY <1>5, <1>7, <2>7 DEF More
    <3> QED BY <1>7, <2>7, <3>1 DEF ClearsKnown
  <2>9. ASSUME NEW u \in ZWaves, NeverCleared(u)'
        PROVE  air'[u] = 0 /\ (holds'[u] \/ ClosedEverywhere(journal', u))
    <3>1. u # t
      <4>1. sent'[o][t] # 0
        BY <2>2, <2>3 DEF More, NotSent
      <4> QED BY <2>9, <4>1 DEF NeverCleared, NotSent
    <3>2. NeverCleared(u)
      BY <1>4, <2>2, <2>9, <3>1 DEF NeverCleared, NotSent
    <3>3. air'[u] = air[u]
      BY <1>4, <1>5, <1>7, <3>1
    <3> QED BY <1>1, <1>7, <3>2, <3>3 DEF ClearsKnown
  <2>10. \A r \in Session : Requesting(sess'[r])
    BY <1>2, <1>3 DEF ClearsKnown, Inv, IInv, TypeOK
  <2> QED BY <2>8, <2>9, <2>10 DEF ClearsKnown
<1>8. CASE /\ t \in Nukis /\ holds' = [holds EXCEPT ![t] = FALSE] /\ Send(s, t)
           /\ UNCHANGED air
  <2>1. sent' = [sent EXCEPT ![o] = [sent[o] EXCEPT ![t] = More(@)]]
    BY <1>6, <1>8 DEF Send
  <2>2. \A q \in Op, u \in ZWaves : sent'[q][u] = sent[q][u]
    BY <1>4, <1>5, <1>8, <2>1
  <2>3. \A u \in ZWaves : holds'[u] = holds[u]
    BY <1>4, <1>5, <1>8
  <2>4. \A r \in Session : Requesting(sess'[r])
    BY <1>2, <1>3 DEF ClearsKnown, Inv, IInv, TypeOK
  <2> QED BY <1>1, <1>8, <2>2, <2>3, <2>4, ClearsStay
<1>9. CASE UNCHANGED <<holds, air, sent>>
  BY <1>1, <1>2, <1>3, <1>9, ClearsMove
<1> QED BY <1>7, <1>8, <1>9 DEF RequestRemoval

LEMMA AnswerClears ==
  ASSUME Inv, ~overlap, ClearsKnown, NEW s \in Session, NEW t \in Target,
         RecordAnswer(s, t)
  PROVE  ClearsKnown'
<1>1. /\ sess[s].pc = "answered" /\ sess[s].pc \notin BeforeOperation
      /\ Head(sess[s].payload, t) /\ UNCHANGED devices
      /\ Stored(s) \in Operation(Payload)
  BY Working DEF RecordAnswer, At, BeforeOperation, AtTarget, Pending, Head
<1>2. CASE Pause(s, WithTarget(s, t, "removal_request_rejected"), TRUE)
  <2>1. PICK p : p = WithTarget(s, t, "removal_request_rejected")
    OBVIOUS
  <2>2. sess[s].payload.state[t] \in Open
    BY <1>1 DEF ClearsKnown, Requesting, Open
  <2>3. p \in Payload /\ \A u \in ZWaves : Closed(Stored(s).payload, u) => Closed(p, u)
    BY <1>1, <2>1, <2>2, TargetCloses DEF RemovalState
  <2> QED BY <1>1, <1>2, <2>1, <2>3, ClearsPause
<1>3. CASE Checkpoint(s, WithTarget(s, t, "removal_requested"), "targets")
  <2>1. PICK p : p = WithTarget(s, t, "removal_requested")
    OBVIOUS
  <2>2. p \in Payload /\ \A u \in ZWaves : Closed(Stored(s).payload, u) => Closed(p, u)
    BY <1>1, <2>1, TargetCloses DEF RemovalState, Open, Unsent
  <2>3. PICK op : op = Progressed(Stored(s), p)
    OBVIOUS
  <2>4. op \in Operation(Payload) /\ op.payload = p
    BY <1>1, <2>2, <2>3 DEF Progressed, Operation, OperationStatus
  <2>5. Write(s, op, "targets")
    BY <1>3, <2>1, <2>3 DEF Checkpoint
  <2> QED BY <1>1, <2>2, <2>4, <2>5, ClearsWrite
<1> QED BY <1>2, <1>3 DEF RecordAnswer

LEMMA VerifyClears ==
  ASSUME Inv, ClearsKnown, NEW s \in Session, NEW t \in Target, VerifyRemoval(s, t)
  PROVE  ClearsKnown'
<1>1. sess[s] \in Sessions /\ UNCHANGED <<holds, air, sent, journal>>
  BY DEF VerifyRemoval, Inv, IInv, TypeOK
<1>2. PICK a : sess' = [sess EXCEPT ![s] = [sess[s] EXCEPT !.pc = "verified", !.answer = a]]
  BY DEF VerifyRemoval, Answer
<1>3. PICK y : y = [sess[s] EXCEPT !.pc = "verified", !.answer = a]
  OBVIOUS
<1>4. y.pc = "verified"
  BY <1>1, <1>3 DEF Sessions
<1>5. Requesting(y)
  BY <1>4 DEF Requesting
<1> QED BY <1>1, <1>2, <1>3, <1>5, ClearsMove

LEMMA VerificationClears ==
  ASSUME Inv, ~overlap, ClearsKnown, NEW s \in Session, NEW t \in Target,
         RecordVerification(s, t)
  PROVE  ClearsKnown'
<1>1. /\ sess[s].pc = "verified" /\ sess[s].pc \notin BeforeOperation
      /\ Head(sess[s].payload, t) /\ UNCHANGED devices /\ sess[s].payload \in Payload
  BY Working DEF RecordVerification, At, BeforeOperation, AtTarget, Pending, Head
<1>2. ASSUME NEW state \in {"verification_pending", "verification_failed"},
             NEW retryable \in BOOLEAN, Pause(s, WithTarget(s, t, state), retryable)
      PROVE  ClearsKnown'
  <2>1. PICK p : p = WithTarget(s, t, state)
    OBVIOUS
  <2>2. p \in Payload /\ \A u \in ZWaves : Closed(Stored(s).payload, u) => Closed(p, u)
    BY <1>1, <2>1, TargetCloses DEF RemovalState, Open, Unsent
  <2> QED BY <1>1, <1>2, <2>1, <2>2, ClearsPause
<1>3. CASE Write(s, Checkpointed(Confirmed(s, t)), "targets")
  <2>1. PICK p : p = WithTarget(s, t, "removal_confirmed")
    OBVIOUS
  <2>2. p \in Payload /\ \A u \in ZWaves : Closed(Stored(s).payload, u) => Closed(p, u)
    BY <1>1, <2>1, TargetCloses DEF RemovalState, Open, Unsent
  <2>3. PICK q : q = [p EXCEPT !.done = sess[s].payload.done \cup {t}]
    OBVIOUS
  <2>4. q \in Payload /\ q.targets = p.targets /\ q.state = p.state
    BY <1>1, <2>2, <2>3 DEF Payload
  <2>5. PICK op : op = Checkpointed(q)
    OBVIOUS
  <2>6. op \in Operation(Payload) /\ op.payload = q
    BY <2>4, <2>5, Assumptions DEF Checkpointed, Operation, OperationStatus, RetryCount
  <2>7. Write(s, op, "targets")
    BY <1>3, <2>1, <2>3, <2>5 DEF Confirmed
  <2>8. \A u \in ZWaves : Closed(Stored(s).payload, u) => Closed(op.payload, u)
    BY <2>2, <2>4, <2>6 DEF Closed
  <2> QED BY <1>1, <2>6, <2>7, <2>8, ClearsWrite
<1> QED BY <1>2, <1>3 DEF RecordVerification

LEMMA FinalClears ==
  ASSUME Inv, ~overlap, ClearsKnown, NEW s \in Session,
         BeforeDelete(s) \/ FinalizeDeletion(s) \/ Observe(s) \/ DeleteSecret(s)
  PROVE  ClearsKnown'
<1>1. /\ UNCHANGED devices /\ sess[s].pc \notin BeforeOperation
      /\ UNCHANGED <<holds, air, sent>> /\ sess[s] \in Sessions
  BY Working DEF BeforeDelete, FinalizeDeletion, Observe, DeleteSecret, At, BeforeOperation,
                 devices
<1>2. CASE End(s) /\ UNCHANGED journal
  BY <1>1, <1>2, ClearsEnd
<1>3. ASSUME NEW pc \in {"commit", "cleanup"}, GoTo(s, pc), UNCHANGED journal
      PROVE  ClearsKnown'
  <2>1. PICK y : y = [sess[s] EXCEPT !.pc = pc]
    OBVIOUS
  <2>2. y.pc = pc
    BY <1>1, <2>1 DEF Sessions
  <2>3. Requesting(y)
    BY <2>2 DEF Requesting
  <2> QED BY <1>1, <1>3, <2>1, <2>3, ClearsMove DEF GoTo
<1>4. PICK o \in Op : o = sess[s].op
  BY <1>1, Working
<1>5. /\ journal[o] # None /\ Stored(s) = journal[o] /\ Stored(s) \in Operation(Payload)
      /\ sess[s].payload = Stored(s).payload /\ sess[s].payload \in Payload
  BY <1>1, <1>4, Working DEF Stored
<1>6. CASE StoreOperation(s, o, [Stored(s) EXCEPT !.status = "completed"],
                          [sess[s] EXCEPT !.pc = "observe"])
  <2>1. PICK op, y : /\ op = [Stored(s) EXCEPT !.status = "completed"]
                     /\ y = [sess[s] EXCEPT !.pc = "observe"]
    OBVIOUS
  <2>2. op \in Operation(Payload) /\ op.payload = journal[o].payload
    BY <1>5, <2>1 DEF Operation, OperationStatus
  <2>3. y.pc = "observe"
    BY <1>1, <2>1 DEF Sessions
  <2>4. Requesting(y)
    BY <2>3 DEF Requesting
  <2> QED BY <1>1, <1>5, <1>6, <2>1, <2>2, <2>4, ClearsStore
<1>7. CASE StoreOperation(s, o,
             [Stored(s) EXCEPT !.status = "waiting_retry", !.payload = Expanded(s)], Idle)
  <2>1. PICK p : p = Expanded(s)
    OBVIOUS
  <2>2. /\ p.targets = sess[s].payload.targets \cup (granted \ sess[s].payload.targets)
        /\ p.state = [t \in Target |-> IF t \in granted \ sess[s].payload.targets
                                       THEN "removal_not_requested"
                                       ELSE sess[s].payload.state[t]]
        /\ p.done = sess[s].payload.done /\ p.dated = sess[s].payload.dated
        /\ p = [targets |-> p.targets, done |-> p.done, dated |-> p.dated, state |-> p.state]
    BY <2>1 DEF Expanded
  <2>3. granted \subseteq Target
    BY DEF Inv, IInv, TypeOK
  <2>4. p.state \in [Target -> RemovalState]
    BY <1>5, <2>2 DEF Payload, RemovalState
  <2>5. p \in Payload
    BY <1>5, <2>2, <2>3, <2>4 DEF Payload
  <2>6. \A t \in ZWaves : Closed(journal[o].payload, t) => Closed(p, t)
    BY <1>5, <2>2 DEF Closed, ZWaves, Locks
  <2>7. PICK op : op = [Stored(s) EXCEPT !.status = "waiting_retry", !.payload = p]
    OBVIOUS
  <2>8. op \in Operation(Payload) /\ op.payload = p
    BY <1>5, <2>5, <2>7 DEF Operation, OperationStatus
  <2>9. Requesting(Idle)
    BY IdleFacts DEF Requesting
  <2> QED BY <1>1, <1>5, <1>7, <2>1, <2>6, <2>7, <2>8, <2>9, ClearsStore
<1> QED BY <1>2, <1>3, <1>4, <1>6, <1>7 DEF BeforeDelete, FinalizeDeletion, Observe, DeleteSecret

\* What a lock carries out was the only clear on its way to it.
LEMMA DeliverClears ==
  ASSUME Inv, ClearsKnown, NEW t \in Target, Deliver(t)
  PROVE  ClearsKnown'
<1>1. /\ UNCHANGED <<journal, sess, sent>> /\ air[t] # 0
      /\ air \in [Target -> 0..2] /\ holds \in [Target -> BOOLEAN]
  BY DEF Deliver, Inv, IInv, TypeOK
<1>2. air[t] = 1
  BY <1>1 DEF ClearsKnown
<1>3. /\ \A u \in Target : air'[u] = IF u = t THEN 0 ELSE air[u]
      /\ \A u \in Target : u # t => holds'[u] = holds[u]
  BY <1>1, <1>2 DEF Deliver
<1>4. \A u \in Target : air'[u] # 0 => air'[u] = 1 /\ u \in ZWaves /\ holds'[u]
  BY <1>3 DEF ClearsKnown
<1>5. \A u \in ZWaves : NeverCleared(u)' => NeverCleared(u) /\ u # t
  BY <1>1 DEF NeverCleared, NotSent, ClearsKnown
<1>6. \A u \in ZWaves : NeverCleared(u)' =>
        air'[u] = 0 /\ (holds'[u] \/ ClosedEverywhere(journal', u))
  BY <1>1, <1>3, <1>5 DEF ClearsKnown, ZWaves, Locks
<1>7. \A s \in Session : Requesting(sess'[s])
  BY <1>1 DEF ClearsKnown
<1> QED BY <1>4, <1>6, <1>7 DEF ClearsKnown

LEMMA CrashClears ==
  ASSUME ClearsKnown, Crash \/ UNCHANGED vars
  PROVE  ClearsKnown'
<1>1. UNCHANGED <<holds, air, sent, journal>>
  BY DEF Crash, vars, devices
<1>2. \A s \in Session : Requesting(sess'[s])
  BY IdleFacts DEF Crash, vars, Requesting, ClearsKnown
<1> QED BY <1>1, <1>2, ClearsStay

LEMMA NextClears == Inv /\ ClearsInv /\ [Next]_vars => ClearsInv'
<1> SUFFICES ASSUME Inv, ClearsInv, [Next]_vars, ~overlap', edits' = 0
             PROVE  ClearsKnown'
  BY DEF ClearsInv
<1>1. edits \in Nat /\ overlap \in BOOLEAN
  BY DEF Inv, IInv, TypeOK
<1>2. CASE Others
  <2>1. edits' = edits + 1
    BY <1>2 DEF Others, GiveAccess, TakeAccess, ReplacePin, EnrolPasskey, Edit
  <2> QED BY <1>1, <2>1
<1>3. ASSUME NEW s \in Session, BeginDeletion(s) \/ SessionStep(s) PROVE ClearsKnown'
  <2>1. ASSUME TargetStep(s) PROVE UNCHANGED <<edits, overlap>>
    BY <2>1 DEF TargetStep, NoDriver, IntendRemoval, RequestRemoval, RecordAnswer,
                AssumeRequested, VerifyRemoval, RecordVerification, registry
  <2>2. CASE BeginDeletion(s)
    <3>1. edits' = edits /\ ~overlap
      BY <2>2, Zenon DEF BeginDeletion, registry
    <3>2. ClearsKnown
      BY <3>1 DEF ClearsInv
    <3> QED BY <2>2, <3>2, BeginClears
  <2>3. ASSUME SessionStep(s) PROVE ~overlap /\ ClearsKnown
    <3>1. UNCHANGED <<edits, overlap>>
      BY <2>1, <2>3 DEF SessionStep, ActiveOperation, CaptureTargets,
         CreateOperation, NormalizeOperation, MarkRunning, BeforeDelete, FinalizeDeletion,
         Observe, DeleteSecret, registry
    <3> QED BY <3>1 DEF ClearsInv
  <2>4. ASSUME SessionStep(s), TargetStep(s) PROVE ClearsKnown'
    BY <2>3, <2>4, IntendClears, RequestClears, AnswerClears, VerifyClears,
       VerificationClears DEF TargetStep
  <2> QED BY <1>3, <2>2, <2>3, <2>4, BeginClears, CreateClears, ResumeClears, FinalClears
          DEF SessionStep
<1>4. ASSUME NEW t \in Target, Deliver(t) PROVE ClearsKnown'
  <2>1. ClearsKnown
    BY <1>4 DEF Deliver, registry, ClearsInv
  <2> QED BY <1>4, <2>1, DeliverClears
<1>5. CASE Crash \/ UNCHANGED vars
  <2>1. ClearsKnown
    BY <1>5 DEF Crash, vars, registry, ClearsInv
  <2> QED BY <1>5, <2>1, CrashClears
<1> QED BY <1>2, <1>3, <1>4, <1>5 DEF Next

\* Calls that do not overlap, and that nobody else disturbs, leave no clear on its
\* way when the person is gone: none can erase the code of the slot's next owner.
THEOREM NoClearAfterwards == Spec => []ClearsSettled
<1>1. Init => ClearsInv
  BY InitClears DEF ClearsInv
<1>2. Inv /\ ClearsInv => ClearsSettled
  <2> SUFFICES ASSUME Inv, ClearsKnown, edits = 0, ~person, NEW t \in Target, air[t] # 0
               PROVE  FALSE
    BY DEF ClearsSettled, ClearsInv
  <2>1. t \in ZWaves /\ holds[t]
    BY DEF ClearsKnown
  <2> QED BY <2>1 DEF Inv, IInv, Undisturbed, ZWaves
<1> QED BY <1>1, <1>2, Invariance, NextClears, PTL DEF Spec

=============================================================================
