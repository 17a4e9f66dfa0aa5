------------------------ MODULE AccessManagement_proofs ------------------------
(***************************************************************************)
(* What is proved of AccessManagement, for any people, slots and bounds:    *)
(* its type invariant, and the three properties that the run checks.  They  *)
(* rest on an invariant in four layers: the shape of calls and jobs, the    *)
(* order in which calls and verifiers touch a record, what is on the lock   *)
(* and on its way to it, and the slot in which access was confirmed.        *)
(***************************************************************************)
EXTENDS AccessManagement, TLAPS

-----------------------------------------------------------------------------
(* The shape of calls and jobs                                              *)

\* A call that has not recorded what it programs
Preparing == {"choose", "program", "readback", "record"}

\* A call that undoes what it has programmed
Undoing == {"unprogram", "emptied", "forget"}

AddingControl == Preparing \cup {"complete", "compensate", "rollback"} \cup Undoing

Saving == {"save", "save_grant"}

\* A call that acts on a copy of recorded metadata
CopyControl ==
  {"removing", "clear", "check", "ownership", "clear_again", "confirm",
   "schedule", "verify", "verifying"} \cup Saving

\* A call that has chosen a slot
Placed(r) ==
  \/ r.pc \in AddingControl \ {"choose"}
  \/ r.pc \in Saving /\ r.after = "unprogram"

\* A call that adds access
Adds(r) == r.pc = "choose" \/ Placed(r)

\* A call that removes access or recovers it
Copied(r) == r.pc \in CopyControl /\ ~Placed(r)

\* The status of access that no removal has touched
Upright == {"synchronized", "unknown"}

Attention == {"retry_required", "manual_attention_required"}

CallShape(c, r) ==
  /\ r.pc # "idle" => r.person \in Person
  /\ Placed(r) => r.slot \in Slot
  /\ r.pc \in CopyControl => r.meta \in Metadata
  /\ r.pc \in Saving => r.status \in Status \ {"unknown"}
  /\ r.pc \in Saving /\ r.status = "synchronized" => r.after = "end"
  /\ r.pc \in {"record", "complete"} => r.status \in Upright
  /\ c = "give" => r.pc \in AddingControl \cup {"idle"}

JobShape(j) ==
  /\ j.meta \in Metadata
  /\ j.pc \in {"mark", "mark_grant"} => j.status \in Attention

CallShapes == \A c \in Caller : CallShape(c, call[c])

JobShapes == \A v \in Verifier : job[v] # None => JobShape(job[v])

Shape == TypeOK /\ CallShapes /\ JobShapes

-----------------------------------------------------------------------------
(* The order in which calls and verifiers touch a record                    *)

\* Access that no removal has touched
Standing(p) == meta[p] # None /\ meta[p].status \in Upright

\* A call under which a record may become upright
Raises(r) ==
  Adds(r) \/ r.pc = "confirm" \/ (r.pc \in Saving /\ r.status = "synchronized")

\* A call that found access which is not upright, or has marked it
Lowered(r) ==
  \/ r.pc \in Undoing
  \/ r.pc \in {"clear", "check", "ownership", "clear_again", "schedule", "verify",
               "verifying"}
  \/ r.pc = "removing" /\ r.meta.status \notin Upright
  \/ r.pc = "save" /\ r.after \in {"schedule", "verify"}
  \/ r.pc = "save_grant" /\ r.after # "end"

NoJob(p) == \A v \in Verifier : job[v] # None => job[v].person # p

\* What the record of its subject is while a call runs
RecordOf(c, r) ==
  /\ Raises(r) => NoJob(r.person)
  /\ Lowered(r) => ~Standing(r.person)
  /\ r.pc \in Preparing => meta[r.person] = None
  /\ c = "give" /\ r.pc = "rollback" => meta[r.person] = None
  /\ r.pc = "complete" => meta[r.person] = [slot |-> r.slot, status |-> r.status]
  /\ r.pc = "confirm" => meta[r.person] = r.meta /\ r.meta.status = "unknown"
  /\ Placed(r) /\ meta[r.person] # None => meta[r.person].slot = r.slot
  /\ Placed(r) /\ r.pc \in Saving => r.meta.slot = r.slot
  /\ Copied(r) /\ meta[r.person] # None => meta[r.person].slot = r.meta.slot

SlotsApart ==
  \A p, q \in Person : meta[p] # None /\ meta[q] # None /\ meta[p].slot = meta[q].slot => p = q

\* What the record of its person is while a verifier runs, and that all who act
\* on the person's access know the same slot
JobOf(j) ==
  /\ ~Standing(j.person)
  /\ meta[j.person] # None => meta[j.person].slot = j.meta.slot
  /\ \A u \in Verifier :
       job[u] # None /\ job[u].person = j.person => job[u].meta.slot = j.meta.slot
  /\ \A c \in Caller :
       Copied(call[c]) /\ Subject(c) = j.person => call[c].meta.slot = j.meta.slot

Alone == \A c, d \in Caller : ~At(c, "idle") /\ ~At(d, "idle") => c = d

CallsOrdered == \A c \in Caller : ~At(c, "idle") => RecordOf(c, call[c])

JobsOrdered == \A v \in Verifier : job[v] # None => JobOf(job[v])

Order == Alone /\ CallsOrdered /\ JobsOrdered

-----------------------------------------------------------------------------
(* How often a slot was cleared                                             *)

\* A call before its first clear
BeforeClear(r) ==
  \/ Raises(r)
  \/ r.pc = "removing" /\ r.meta.status \in Upright
  \/ r.pc \in Saving /\ r.after = "clear"
  \/ r.pc = "clear"

Clears ==
  /\ \A p \in Person : cleared[p] <= 1
  /\ \A p \in Person : Standing(p) => cleared[p] = 0
  /\ \A c \in Caller : ~At(c, "idle") /\ BeforeClear(call[c]) => cleared[Subject(c)] = 0

-----------------------------------------------------------------------------
(* What is on the lock and on its way to it                                 *)

\* Nothing is on its way to the slot.
Still(k) == \A i \in 1..Len(air) : air[i].slot # k

OnLock(r) ==
  /\ Placed(r) => holds[r.slot] \in {None, r.person}
  /\ r.pc = "program" => holds[r.slot] = None
  /\ r.pc = "readback" /\ Len(air) > 0 =>
       holds[r.slot] = None /\ air[Len(air)] = [slot |-> r.slot, pin |-> r.person]
  /\ r.pc = "record" /\ holds[r.slot] = r.person => Len(air) = 0
  /\ r.pc = "record" /\ r.status = "synchronized" => holds[r.slot] = r.person
  /\ r.pc \in Saving /\ r.status = "synchronized" =>
       holds[r.meta.slot] = r.person /\ Still(r.meta.slot)
  /\ Copied(r) => \A q \in Person \ {r.person} :
                     Standing(q) => meta[q].slot # r.meta.slot

Lock ==
  /\ \A p \in Person : Standing(p) /\ holds[meta[p].slot] = p => Still(meta[p].slot)
  /\ \A c \in Caller : ~At(c, "idle") => OnLock(call[c])

\* Access that counts as synchronized is on the lock.
SynchronizedOnLock ==
  \A p \in Person :
    meta[p] # None /\ meta[p].status = "synchronized" => holds[meta[p].slot] = p

-----------------------------------------------------------------------------
(* The slot in which access was confirmed                                   *)

\* A call before access is confirmed
Unconfirmed(r) == r.pc \in Preparing \cup {"complete", "compensate"}

Confirmed(p, k) ==
  /\ meta[p] # None => meta[p].slot = k
  /\ meta[p] = None => holds[k] # p
  /\ \A v \in Verifier : job[v] # None /\ job[v].person = p =>
       /\ job[v].meta.slot = k
       /\ job[v].pc \in {"drop_grant", "drop_metadata"} => holds[k] # p
  /\ \A c \in Caller : ~At(c, "idle") /\ Subject(c) = p =>
       /\ ~Unconfirmed(call[c])
       /\ Placed(call[c]) => call[c].slot = k
       /\ Copied(call[c]) => call[c].meta.slot = k
       /\ At(c, "forget") => holds[k] # p

Confirmations == \A p \in Person : confirmed[p] # 0 => Confirmed(p, confirmed[p])

IInv ==
  /\ Shape
  /\ SlotsApart
  /\ ~disturbed => Order /\ Clears /\ Lock /\ SynchronizedOnLock /\ Confirmations

-----------------------------------------------------------------------------
(* Moves of a call, field by field                                          *)

\* Only call c changes.
Only(c) == call' \in [Caller -> Calls] /\ \A d \in Caller \ {c} : call'[d] = call[d]

\* The call is what it was but for its place.
Goes(c, pc) ==
  /\ Only(c)
  /\ call'[c].pc = pc
  /\ call'[c].person = call[c].person
  /\ call'[c].slot = call[c].slot
  /\ call'[c].meta = call[c].meta
  /\ call'[c].status = call[c].status
  /\ call'[c].after = call[c].after

\* The call is about to save the status.
Saves(c, m, status, after) ==
  /\ Only(c)
  /\ call'[c].pc = "save"
  /\ call'[c].person = call[c].person
  /\ call'[c].slot = call[c].slot
  /\ call'[c].meta = m
  /\ call'[c].status = status
  /\ call'[c].after = after

\* The call is over.
Ends(c) == Only(c) /\ call'[c].pc = "idle"

\* A call that goes on changes its place only.
LEMMA GoToGoes ==
  ASSUME call \in [Caller -> Calls], NEW c \in Caller, NEW pc \in CallControl, GoTo(c, pc)
  PROVE  Goes(c, pc)
<1> PICK r \in Calls : r = call[c]
  OBVIOUS
<1> DEFINE n == [r EXCEPT !.pc = pc]
<1>1. n \in Calls
  BY DEF Calls
<1>2. /\ n.pc = pc /\ n.person = r.person /\ n.slot = r.slot
      /\ n.meta = r.meta /\ n.status = r.status /\ n.after = r.after
  BY DEF Calls
<1>3. call' = [call EXCEPT ![c] = n]
  BY DEF GoTo, Put
<1> QED
  BY <1>1, <1>2, <1>3 DEF Goes, Only

\* A call that saves holds the metadata and the status it saves.
LEMMA SaveSaves ==
  ASSUME call \in [Caller -> Calls], NEW c \in Caller, NEW m \in Metadata,
         NEW status \in Status, NEW after \in After, Save(c, m, status, after)
  PROVE  Saves(c, m, status, after)
<1> PICK r \in Calls : r = call[c]
  OBVIOUS
<1> DEFINE n == [r EXCEPT !.pc = "save", !.meta = m, !.status = status, !.after = after]
<1>1. n \in Calls
  BY DEF Calls, CallControl
<1>2. /\ n.pc = "save" /\ n.person = r.person /\ n.slot = r.slot
      /\ n.meta = m /\ n.status = status /\ n.after = after
  BY DEF Calls
<1>3. call' = [call EXCEPT ![c] = n]
  BY DEF Save, Put
<1> QED
  BY <1>1, <1>2, <1>3 DEF Saves, Only

\* An idle call has nothing in hand.
LEMMA Idle == IdleCall \in Calls /\ IdleCall.pc = "idle"
<1> DEFINE r == [pc |-> "idle", person |-> None, slot |-> 0, meta |-> NoMetadata,
                 status |-> "none", found |-> FALSE, after |-> "end"]
<1>1. /\ "idle" \in CallControl /\ None \in Person \cup {None} /\ 0 \in 0..Slots
      /\ NoMetadata \in Metadata \cup {NoMetadata} /\ "none" \in Status \cup {"none"}
      /\ FALSE \in BOOLEAN /\ "end" \in After
  BY Assumptions DEF CallControl, After
<1> QED
  BY <1>1 DEF IdleCall, Calls

\* A call that ends is idle.
LEMMA EndEnds ==
  ASSUME call \in [Caller -> Calls], NEW c \in Caller, End(c)
  PROVE  Ends(c)
  BY Idle DEF End, Put, Ends, Only

\* The moves, for every call at once.
LEMMA Moves ==
  ASSUME call \in [Caller -> Calls]
  PROVE  /\ \A c \in Caller : \A pc \in CallControl : GoTo(c, pc) => Goes(c, pc)
         /\ \A c \in Caller : End(c) => Ends(c)
         /\ \A c \in Caller : \A m \in Metadata : \A status \in Status : \A after \in After :
              Save(c, m, status, after) => Saves(c, m, status, after)
  BY GoToGoes, EndEnds, SaveSaves

\* A command that is sent is the last on its way.
LEMMA Sent ==
  ASSUME TypeOK, NEW k \in Slot, NEW pin \in Person \cup {None}, Send(k, pin)
  PROVE  /\ air' \in Seq(Command) /\ Len(air') <= MaxAir
         /\ Len(air') = Len(air) + 1
         /\ air'[Len(air')] = [slot |-> k, pin |-> pin]
         /\ \A i \in 1..Len(air) : air'[i] = air[i]
<1>1. [slot |-> k, pin |-> pin] \in Command
  BY DEF Command
<1> QED
  BY <1>1, Assumptions DEF Assumptions, TypeOK, Send

\* A call that begins has its subject.
LEMMA Begins ==
  ASSUME TypeOK, NEW c \in Caller, NEW p \in Person, NEW pc \in CallControl,
         NEW m \in Metadata \cup {NoMetadata}, Begin(c, p, pc, m)
  PROVE  /\ Only(c) /\ call'[c].pc = pc /\ call'[c].person = p
         /\ call'[c].meta = m /\ call'[c].after = "end" /\ call'[c].status = "none"
         /\ calls' \in 0..MaxCalls /\ disturbed' \in BOOLEAN
<1> DEFINE n == [IdleCall EXCEPT !.pc = pc, !.person = p, !.meta = m]
<1>1. /\ n \in Calls
      /\ n.pc = pc /\ n.person = p /\ n.meta = m /\ n.after = "end" /\ n.status = "none"
  BY Idle DEF Calls, IdleCall
<1>2. call' = [call EXCEPT ![c] = n]
  BY DEF Begin, Put
<1>3. Only(c) /\ call'[c] = n
  BY <1>1, <1>2 DEF Only, TypeOK
<1>4. calls' \in 0..MaxCalls
  BY Assumptions DEF Assumptions, Begin, TypeOK
<1>5. disturbed' \in BOOLEAN
  BY DEF Begin, TypeOK
<1> QED
  BY <1>1, <1>3, <1>4, <1>5

\* A call that has chosen a slot goes on with one that is empty.
LEMMA ChooseSlotMoves ==
  ASSUME TypeOK, NEW c \in Caller, ChooseSlot(c)
  PROVE  \/ Ends(c)
         \/ /\ Only(c) /\ call'[c].pc = "program" /\ call'[c].person = call[c].person
            /\ call'[c].slot \in Slot /\ holds[call'[c].slot] = None
<1> USE DEF TypeOK
<1>1. CASE End(c)
  BY <1>1, Moves
<1>2. ASSUME NEW k \in Slot, holds[k] = None,
             Put(c, [call[c] EXCEPT !.pc = "program", !.slot = k])
      PROVE  /\ Only(c) /\ call'[c].pc = "program" /\ call'[c].person = call[c].person
             /\ call'[c].slot = k
  <2> PICK r \in Calls : r = call[c]
    OBVIOUS
  <2> DEFINE n == [r EXCEPT !.pc = "program", !.slot = k]
  <2>0. k \in 0..Slots
    BY DEF Slot
  <2>1. n \in Calls /\ n.pc = "program" /\ n.person = r.person /\ n.slot = k
    BY <2>0 DEF Calls, CallControl
  <2>2. call' = [call EXCEPT ![c] = n]
    BY <1>2 DEF Put
  <2> QED
    BY <2>1, <2>2 DEF Only
<1> QED
  BY <1>1, <1>2 DEF ChooseSlot

\* A call that has read its slot records what it has seen.
LEMMA ReadBackMoves ==
  ASSUME TypeOK, NEW c \in Caller, ReadBack(c)
  PROVE  \/ Ends(c)
         \/ /\ Only(c) /\ call'[c].pc = "record" /\ call'[c].person = call[c].person
            /\ call'[c].slot = call[c].slot /\ call'[c].status \in Upright
            /\ call'[c].status = "synchronized" => holds[call[c].slot] = call[c].person
<1> USE DEF TypeOK
<1>1. CASE End(c)
  BY <1>1, Moves
<1>2. ASSUME NEW status \in Upright,
             Put(c, [call[c] EXCEPT !.pc = "record", !.status = status])
      PROVE  /\ Only(c) /\ call'[c].pc = "record" /\ call'[c].person = call[c].person
             /\ call'[c].slot = call[c].slot /\ call'[c].status = status
  <2> PICK r \in Calls : r = call[c]
    OBVIOUS
  <2> DEFINE n == [r EXCEPT !.pc = "record", !.status = status]
  <2>1. n \in Calls
    BY DEF Calls, CallControl, Upright, Status
  <2>2. n.pc = "record" /\ n.person = r.person /\ n.slot = r.slot /\ n.status = status
    BY DEF Calls
  <2>3. call' = [call EXCEPT ![c] = n]
    BY <1>2 DEF Put
  <2> QED
    BY <2>1, <2>2, <2>3 DEF Only
<1>3. CASE /\ holds[call[c].slot] = Subject(c)
           /\ Put(c, [call[c] EXCEPT !.pc = "record", !.status = "synchronized"])
  BY <1>2, <1>3 DEF Upright, Subject
<1>4. CASE Put(c, [call[c] EXCEPT !.pc = "record", !.status = "unknown"])
  BY <1>2, <1>4 DEF Upright
<1> QED
  BY <1>1, <1>3, <1>4 DEF ReadBack

\* A call whose save fails ends or schedules the verification.
LEMMA SaveFailsMoves ==
  ASSUME TypeOK, NEW c \in Caller, SaveFails(c)
  PROVE  Ends(c) \/ (call[c].after = "schedule" /\ Goes(c, "schedule"))
  BY Moves DEF TypeOK, SaveFails, CallControl

\* A call that goes on to the grant knows whether there is one.
LEMMA PutGrant ==
  ASSUME call \in [Caller -> Calls], NEW c \in Caller,
         Put(c, [call[c] EXCEPT !.pc = "save_grant", !.found = grant[Subject(c)] # None])
  PROVE  Goes(c, "save_grant")
<1> PICK r \in Calls : r = call[c]
  OBVIOUS
<1> PICK found \in BOOLEAN : found = (grant[Subject(c)] # None)
  OBVIOUS
<1> DEFINE n == [r EXCEPT !.pc = "save_grant", !.found = found]
<1>1. n \in Calls
  BY DEF Calls, CallControl
<1>2. /\ n.pc = "save_grant" /\ n.person = r.person /\ n.slot = r.slot
      /\ n.meta = r.meta /\ n.status = r.status /\ n.after = r.after
  BY DEF Calls
<1>3. call' = [call EXCEPT ![c] = n]
  BY DEF Put
<1> QED
  BY <1>1, <1>2, <1>3 DEF Goes, Only

\* A call that has saved the metadata goes on to the grant.
LEMMA SaveMetadataMoves ==
  ASSUME TypeOK, NEW c \in Caller, SaveMetadata(c)
  PROVE  \/ Ends(c) \/ (call[c].after = "schedule" /\ Goes(c, "schedule"))
         \/ Goes(c, "save_grant")
  BY SaveFailsMoves, PutGrant DEF SaveMetadata, TypeOK

\* A call that has saved the grant goes on where it said.
LEMMA SaveGrantMoves ==
  ASSUME TypeOK, NEW c \in Caller, SaveGrant(c),
         call[c].meta \in Metadata, call[c].status \in Status
  PROVE  \/ Ends(c) \/ (call[c].after = "schedule" /\ Goes(c, "schedule"))
         \/ /\ Only(c) /\ call'[c].pc = call[c].after /\ call[c].after # "end"
            /\ call'[c].person = call[c].person /\ call'[c].slot = call[c].slot
            /\ call'[c].meta \in Metadata /\ call'[c].meta.slot = call[c].meta.slot
            /\ call'[c].meta.status = call[c].status
<1> USE DEF TypeOK
<1>1. CASE SaveFails(c)
  BY <1>1, SaveFailsMoves
<1>2. CASE End(c)
  BY <1>2, Moves
<1>3. ASSUME call[c].after # "end",
             Put(c, [[call[c] EXCEPT !.meta.status = call[c].status]
                       EXCEPT !.pc = call[c].after])
      PROVE  /\ Only(c) /\ call'[c].pc = call[c].after
             /\ call'[c].person = call[c].person /\ call'[c].slot = call[c].slot
             /\ call'[c].meta \in Metadata /\ call'[c].meta.slot = call[c].meta.slot
             /\ call'[c].meta.status = call[c].status
  <2> PICK r \in Calls : r = call[c]
    OBVIOUS
  <2> PICK m \in Metadata : m = r.meta
    OBVIOUS
  <2> DEFINE k == [m EXCEPT !.status = r.status]
             s == [r EXCEPT !.meta.status = r.status]
             n == [s EXCEPT !.pc = r.after]
  <2>1. k \in Metadata /\ k.slot = m.slot /\ k.status = r.status
    BY DEF Metadata
  <2>2. s = [r EXCEPT !.meta = k]
    OBVIOUS
  <2>3. s \in Calls /\ s.person = r.person /\ s.slot = r.slot /\ s.meta = k
    BY <2>1, <2>2 DEF Calls
  <2>4. r.after \in CallControl
    BY <1>3 DEF Calls, After, CallControl
  <2>5. /\ n \in Calls
        /\ n.pc = r.after /\ n.person = r.person /\ n.slot = r.slot /\ n.meta = k
    BY <2>3, <2>4 DEF Calls
  <2>6. call' = [call EXCEPT ![c] = n]
    BY <1>3 DEF Put
  <2> QED
    BY <2>1, <2>5, <2>6 DEF Only
<1> QED
  BY <1>1, <1>2, <1>3 DEF SaveGrant

\* Only job v changes.
OnlyJob(v) ==
  job' \in [Verifier -> Jobs \cup {None}] /\ \A u \in Verifier \ {v} : job'[u] = job[u]

\* The job is what it was but for its place and its status.
JobMoves(v, pc, status) ==
  /\ OnlyJob(v)
  /\ job'[v].pc = pc
  /\ job'[v].person = job[v].person
  /\ job'[v].meta = job[v].meta
  /\ job'[v].status = status

\* A job that goes on changes its place only.
LEMMA JobGoes ==
  ASSUME TypeOK, NEW v \in Verifier, NEW pc, job[v] # None, JobGoesTo(v, pc),
         pc \in {"drop_grant", "drop_metadata", "check", "ending"}
  PROVE  JobMoves(v, pc, job[v].status)
<1> PICK j \in Jobs : j = job[v]
  BY DEF TypeOK
<1> DEFINE n == [j EXCEPT !.pc = pc]
<1>1. n \in Jobs
  BY DEF Jobs
<1>2. n.pc = pc /\ n.person = j.person /\ n.meta = j.meta /\ n.status = j.status
  BY DEF Jobs
<1>3. job' = [job EXCEPT ![v] = n]
  BY DEF JobGoesTo
<1> QED
  BY <1>1, <1>2, <1>3 DEF JobMoves, OnlyJob, TypeOK

\* A job that marks its record holds the status it marks it with.
LEMMA MarkMoves ==
  ASSUME TypeOK, NEW v \in Verifier, NEW status \in Attention, job[v] # None,
         Mark(v, status)
  PROVE  JobMoves(v, "mark", status)
<1> PICK j \in Jobs : j = job[v]
  BY DEF TypeOK
<1> DEFINE n == [j EXCEPT !.pc = "mark", !.status = status]
<1>1. n \in Jobs
  BY DEF Jobs, Attention, Status
<1>2. n.pc = "mark" /\ n.person = j.person /\ n.meta = j.meta /\ n.status = status
  BY DEF Jobs
<1>3. job' = [job EXCEPT ![v] = n]
  BY DEF Mark
<1> QED
  BY <1>1, <1>2, <1>3 DEF JobMoves, OnlyJob, TypeOK

\* The moves of jobs, for every status at once.
LEMMA JobMovesOn ==
  ASSUME TypeOK, NEW v \in Verifier, job[v] # None
  PROVE  /\ \A pc \in {"drop_grant", "drop_metadata", "check", "ending"} :
              JobGoesTo(v, pc) => JobMoves(v, pc, job[v].status)
         /\ \A status \in Attention : Mark(v, status) => JobMoves(v, "mark", status)
         /\ NeedsAttention(v) => JobMoves(v, "mark", "manual_attention_required")
<1>1. \A pc \in {"drop_grant", "drop_metadata", "check", "ending"} :
        JobGoesTo(v, pc) => JobMoves(v, pc, job[v].status)
  BY JobGoes
<1>2. \A status \in Attention : Mark(v, status) => JobMoves(v, "mark", status)
  BY MarkMoves
<1> QED
  BY <1>1, <1>2 DEF NeedsAttention, Attention

\* A verifier that has marked the metadata goes on to the grant.
LEMMA MarkMetadataMoves ==
  ASSUME TypeOK, NEW v \in Verifier, MarkMetadata(v)
  PROVE  JobMoves(v, "mark_grant", job[v].status) \/ JobMoves(v, "ending", job[v].status)
<1>1. job[v] # None
  BY DEF MarkMetadata, Verifying
<1>2. CASE JobGoesTo(v, "ending")
  BY <1>1, <1>2, JobGoes
<1>3. CASE job' = [job EXCEPT ![v] =
               [job[v] EXCEPT !.pc = "mark_grant", !.found = grant[job[v].person] # None]]
  <2> PICK j \in Jobs : j = job[v]
    BY <1>1 DEF TypeOK
  <2> PICK found \in BOOLEAN : found = (grant[job[v].person] # None)
    OBVIOUS
  <2> DEFINE n == [j EXCEPT !.pc = "mark_grant", !.found = found]
  <2>1. n \in Jobs
    BY DEF Jobs
  <2>2. n.pc = "mark_grant" /\ n.person = j.person /\ n.meta = j.meta /\ n.status = j.status
    BY DEF Jobs
  <2>3. job' = [job EXCEPT ![v] = n]
    BY <1>3
  <2> QED
    BY <2>1, <2>2, <2>3 DEF JobMoves, OnlyJob, TypeOK
<1> QED
  BY <1>2, <1>3 DEF MarkMetadata

\* A verification starts with the metadata it is given.
LEMMA JobStarts ==
  ASSUME NEW p \in Person, NEW m \in Metadata
  PROVE  /\ NewJob(p, m) \in Jobs
         /\ NewJob(p, m).pc = "read" /\ NewJob(p, m).person = p /\ NewJob(p, m).meta = m
  BY DEF NewJob, Jobs

\* Metadata keeps its slot when its status changes.
LEMMA StatusChanges ==
  ASSUME NEW m \in Metadata, NEW status \in Status
  PROVE  /\ [m EXCEPT !.status = status] \in Metadata
         /\ [m EXCEPT !.status = status].slot = m.slot
         /\ [m EXCEPT !.status = status].status = status
         /\ [m EXCEPT !.status = status] # None
  BY Assumptions DEF Assumptions, Metadata

-----------------------------------------------------------------------------
(* Shape                                                                    *)

\* A call that moves to a proper shape leaves the others in shape.
LEMMA OneShape ==
  ASSUME CallShapes, NEW c \in Caller, Only(c), CallShape(c, call'[c])
  PROVE  CallShapes'
<1> SUFFICES ASSUME NEW d \in Caller PROVE CallShape(d, call'[d])
  BY DEF CallShapes, CallShape, Placed
<1> QED
  BY DEF Only, CallShapes

\* Calls that are left alone stay in shape.
LEMMA SameCalls == CallShapes /\ call' = call => CallShapes'
  BY DEF CallShapes, CallShape, Placed

\* Jobs that are left alone stay in shape.
LEMMA SameJobs == JobShapes /\ job' = job => JobShapes'
  BY DEF JobShapes, JobShape

\* Beginning to add access keeps the shape.
LEMMA ShapeBeginAdding ==
  ASSUME Shape, NEW c \in Caller, NEW p \in Person, BeginAdding(c, p)
  PROVE  Shape'
<1> USE DEF Shape, TypeOK
<1>1. /\ Only(c) /\ call'[c].pc = "choose" /\ call'[c].person = p
      /\ calls' \in 0..MaxCalls /\ disturbed' \in BOOLEAN
  BY Begins DEF BeginAdding, CallControl
<1>2. CallShape(c, call'[c])
  BY <1>1 DEF CallShape, Placed, AddingControl, Preparing, Undoing, CopyControl, Saving
<1>3. TypeOK'
  BY <1>1, Assumptions DEF Assumptions, Only, BeginAdding, lock, records
<1> QED
  BY <1>1, <1>2, <1>3, OneShape, SameJobs DEF BeginAdding

\* Choosing a slot keeps the shape.
LEMMA ShapeChooseSlot ==
  ASSUME Shape, NEW c \in Caller, ChooseSlot(c)
  PROVE  Shape'
<1> USE DEF Shape, TypeOK
<1>1. \/ Ends(c)
      \/ /\ Only(c) /\ call'[c].pc = "program" /\ call'[c].person = call[c].person
         /\ call'[c].slot \in Slot
  BY ChooseSlotMoves
<1>2. CallShape(c, call'[c])
  BY <1>1 DEF Ends, CallShapes, ChooseSlot, At, 
     CallShape, Placed, AddingControl, Preparing, Undoing, CopyControl, Saving
<1>3. TypeOK'
  BY <1>1 DEF Ends, Only, ChooseSlot, lock, records, history
<1> QED
  BY <1>1, <1>2, <1>3, OneShape, SameJobs DEF Ends, ChooseSlot

\* Programming keeps the shape.
LEMMA ShapeProgramSlot ==
  ASSUME Shape, NEW c \in Caller, ProgramSlot(c)
  PROVE  Shape'
<1> USE DEF Shape, TypeOK
<1>1. Goes(c, "readback") \/ Ends(c)
  BY Moves DEF ProgramSlot, CallControl
<1>2. CallShape(c, call'[c])
  BY <1>1 DEF Goes, Ends, CallShapes, ProgramSlot, At,
     CallShape, Placed, AddingControl, Preparing, Undoing, CopyControl, Saving
<1>3. call[c].slot \in Slot /\ call[c].person \in Person
  BY DEF CallShapes, ProgramSlot, At, CallShape, Placed, AddingControl, Preparing
<1>4. air' \in Seq(Command) /\ Len(air') <= MaxAir
  BY <1>3, Sent DEF ProgramSlot, Subject
<1>5. TypeOK'
  BY <1>1, <1>4 DEF Goes, Ends, Only, ProgramSlot, records, history
<1> QED
  BY <1>1, <1>2, <1>5, OneShape, SameJobs DEF Goes, Ends, ProgramSlot

\* Recording keeps the shape.
LEMMA ShapeRecordMetadata ==
  ASSUME Shape, NEW c \in Caller, RecordMetadata(c)
  PROVE  Shape'
<1> USE DEF Shape, TypeOK
<1>1. Goes(c, "complete") \/ Goes(c, "rollback")
  BY Moves DEF RecordMetadata, CallControl
<1>2. CallShape(c, call'[c])
  BY <1>1 DEF Goes, CallShapes, RecordMetadata, At,
     CallShape, Placed, AddingControl, Preparing, Undoing, CopyControl, Saving
<1>3. [slot |-> call[c].slot, status |-> call[c].status] \in Metadata
  BY DEF RecordMetadata, At, CallShapes, CallShape, Placed, AddingControl, Preparing,
     Metadata, Status, Upright
<1>4. meta' \in [Person -> Metadata \cup {None}]
  BY <1>3 DEF RecordMetadata
<1>5. faults' \in 0..MaxFaults
  BY Assumptions DEF Assumptions, RecordMetadata, Write, Fault
<1>6. TypeOK'
  BY <1>1, <1>4, <1>5 DEF Goes, Only, RecordMetadata, lock, history
<1> QED
  BY <1>1, <1>2, <1>6, OneShape, SameJobs DEF Goes, RecordMetadata

\* A job that moves to a proper shape leaves the others in shape.
LEMMA OneJobShape ==
  ASSUME JobShapes, NEW v \in Verifier, OnlyJob(v), job'[v] # None => JobShape(job'[v])
  PROVE  JobShapes'
<1> SUFFICES ASSUME NEW u \in Verifier, job'[u] # None PROVE JobShape(job'[u])
  BY DEF JobShapes, JobShape
<1> QED
  BY DEF OnlyJob, JobShapes

\* Reading the slot back keeps the shape.
LEMMA ShapeReadBack ==
  ASSUME Shape, NEW c \in Caller, ReadBack(c)
  PROVE  Shape'
<1> USE DEF Shape, TypeOK
<1>1. \/ Ends(c)
      \/ /\ Only(c) /\ call'[c].pc = "record" /\ call'[c].person = call[c].person
         /\ call'[c].slot = call[c].slot /\ call'[c].status \in Upright
  BY ReadBackMoves
<1>2. CallShape(c, call'[c])
  BY <1>1 DEF Ends, CallShapes, ReadBack, At,
     CallShape, Placed, AddingControl, Preparing, Undoing, CopyControl, Saving
<1>3. TypeOK'
  BY <1>1 DEF Ends, Only, ReadBack, lock, records, history
<1> QED
  BY <1>1, <1>2, <1>3, OneShape, SameJobs DEF Ends, ReadBack

\* Completing the record keeps the shape.
LEMMA ShapeCompleteRecord ==
  ASSUME Shape, NEW c \in Caller, CompleteRecord(c)
  PROVE  Shape'
<1> USE DEF Shape, TypeOK
<1>1. Ends(c) \/ Goes(c, "rollback") \/ Goes(c, "compensate")
  BY Moves DEF CompleteRecord, CallControl
<1>2. CallShape(c, call'[c])
  BY <1>1 DEF Ends, Goes, CallShapes, CompleteRecord, At,
     CallShape, Placed, AddingControl, Preparing, Undoing, CopyControl, Saving
<1>3. call[c].slot \in 0..Slots /\ call[c].status \in Status /\ call[c].person \in Person
  BY DEF CompleteRecord, At, CallShapes, CallShape, Upright, Status, Calls
<1>4. grant' \in [Person -> Status \cup {None}]
  BY <1>3 DEF CompleteRecord
<1>5. confirmed' \in [Person -> 0..Slots]
  BY <1>3 DEF CompleteRecord, Subject
<1>6. faults' \in 0..MaxFaults
  BY Assumptions DEF Assumptions, CompleteRecord, Write, Fault
<1>7. TypeOK'
  BY <1>1, <1>4, <1>5, <1>6 DEF Ends, Goes, Only, CompleteRecord, lock
<1> QED
  BY <1>1, <1>2, <1>7, OneShape, SameJobs DEF Ends, Goes, CompleteRecord

\* Forgetting access keeps the records typed.
LEMMA Forgets ==
  ASSUME TypeOK, NEW p \in Person, Forget(p)
  PROVE  /\ meta' \in [Person -> Metadata \cup {None}]
         /\ grant' \in [Person -> Status \cup {None}]
         /\ faults' \in 0..MaxFaults
<1>1. faults' \in 0..MaxFaults
  BY Assumptions DEF Assumptions, Forget, Write, Fault, TypeOK
<1> QED
  BY <1>1 DEF Forget, TypeOK

\* Compensating keeps the shape.
LEMMA ShapeCompensate ==
  ASSUME Shape, NEW c \in Caller, Compensate(c)
  PROVE  Shape'
<1> USE DEF Shape
<1>1. Goes(c, "rollback")
  BY Moves DEF Compensate, CallControl, TypeOK
<1>2. CallShape(c, call'[c])
  BY <1>1 DEF Goes, CallShapes, Compensate, At,
     CallShape, Placed, AddingControl, Preparing, Undoing, CopyControl, Saving
<1>3. Subject(c) \in Person
  BY DEF Compensate, At, CallShapes, CallShape, Subject
<1>4. /\ meta' \in [Person -> Metadata \cup {None}]
      /\ grant' \in [Person -> Status \cup {None}]
      /\ faults' \in 0..MaxFaults
  BY <1>3, Forgets DEF Compensate
<1>5. TypeOK'
  BY <1>1, <1>4 DEF Goes, Only, Compensate, lock, TypeOK
<1> QED
  BY <1>1, <1>2, <1>5, OneShape, SameJobs DEF Goes, Compensate

\* Beginning a rollback keeps the shape.
LEMMA ShapeRollBack ==
  ASSUME Shape, NEW c \in Caller, RollBack(c)
  PROVE  Shape'
<1> USE DEF Shape, TypeOK
<1>1. Subject(c) \in Person /\ call[c].slot \in Slot
  BY DEF RollBack, At, CallShapes, CallShape, Subject, Placed, AddingControl, Preparing
<1>2. \/ Goes(c, "unprogram")
      \/ /\ c # "give" /\ meta[Subject(c)] \in Metadata
         /\ Saves(c, meta[Subject(c)], "manual_attention_required", "unprogram")
  BY <1>1, Moves DEF RollBack, CallControl, Status, After
<1>3. CallShape(c, call'[c])
  BY <1>1, <1>2 DEF Goes, Saves, CallShapes, RollBack, At, Subject, Status,
     CallShape, Placed, AddingControl, Preparing, Undoing, CopyControl, Saving
<1>4. TypeOK'
  BY <1>2 DEF Goes, Saves, Only, RollBack, lock, records, history
<1> QED
  BY <1>2, <1>3, <1>4, OneShape, SameJobs DEF Goes, Saves, RollBack

\* Clearing a slot that was programmed keeps the shape.
LEMMA ShapeUnprogram ==
  ASSUME Shape, NEW c \in Caller, Unprogram(c)
  PROVE  Shape'
<1> USE DEF Shape, TypeOK
<1>1. Goes(c, "emptied") \/ Ends(c)
  BY Moves DEF Unprogram, CallControl
<1>2. CallShape(c, call'[c])
  BY <1>1 DEF Goes, Ends, CallShapes, Unprogram, At,
     CallShape, Placed, AddingControl, Preparing, Undoing, CopyControl, Saving
<1>3. call[c].slot \in Slot
  BY DEF CallShapes, Unprogram, At, CallShape, Placed, AddingControl, Undoing
<1>4. air' \in Seq(Command) /\ Len(air') <= MaxAir
  BY <1>3, Sent DEF Unprogram
<1>5. TypeOK'
  BY <1>1, <1>4 DEF Goes, Ends, Only, Unprogram, records, history
<1> QED
  BY <1>1, <1>2, <1>5, OneShape, SameJobs DEF Goes, Ends, Unprogram

\* Reading the emptied slot keeps the shape.
LEMMA ShapeReadEmptied ==
  ASSUME Shape, NEW c \in Caller, ReadEmptied(c)
  PROVE  Shape'
<1> USE DEF Shape, TypeOK
<1>1. Goes(c, "forget") \/ Ends(c)
  BY Moves DEF ReadEmptied, CallControl
<1>2. CallShape(c, call'[c])
  BY <1>1 DEF Goes, Ends, CallShapes, ReadEmptied, At,
     CallShape, Placed, AddingControl, Preparing, Undoing, CopyControl, Saving
<1>3. TypeOK'
  BY <1>1 DEF Goes, Ends, Only, ReadEmptied, records, lock, history
<1> QED
  BY <1>1, <1>2, <1>3, OneShape, SameJobs DEF Goes, Ends, ReadEmptied

\* Forgetting what was rolled back keeps the shape.
LEMMA ShapeForgetAccess ==
  ASSUME Shape, NEW c \in Caller, ForgetAccess(c)
  PROVE  Shape'
<1> USE DEF Shape
<1>1. Ends(c)
  BY Moves DEF ForgetAccess, TypeOK
<1>2. CallShape(c, call'[c])
  BY <1>1 DEF Ends, CallShape, Placed, AddingControl, Preparing, Undoing, CopyControl, Saving
<1>3. Subject(c) \in Person
  BY DEF ForgetAccess, At, CallShapes, CallShape, Subject
<1>4. /\ meta' \in [Person -> Metadata \cup {None}]
      /\ grant' \in [Person -> Status \cup {None}]
      /\ faults' \in 0..MaxFaults
  BY <1>3, Forgets DEF ForgetAccess
<1>5. TypeOK'
  BY <1>1, <1>4 DEF Ends, Only, ForgetAccess, lock, history, TypeOK
<1> QED
  BY <1>1, <1>2, <1>5, OneShape, SameJobs DEF Ends, ForgetAccess

\* Beginning a removal keeps the shape.
LEMMA ShapeBeginRemoval ==
  ASSUME Shape, NEW p \in Person, BeginRemoval(p)
  PROVE  Shape'
<1> USE DEF Shape, TypeOK
<1>1. /\ Only("manage") /\ call'["manage"].pc = "removing" /\ call'["manage"].person = p
      /\ call'["manage"].meta \in Metadata
      /\ calls' \in 0..MaxCalls /\ disturbed' \in BOOLEAN
  BY Begins DEF BeginRemoval, CallControl, Caller
<1>2. CallShape("manage", call'["manage"])
  BY <1>1 DEF CallShape, Placed, AddingControl, Preparing, Undoing, CopyControl, Saving
<1>3. TypeOK'
  BY <1>1 DEF Only, BeginRemoval, lock, records
<1> QED
  BY <1>1, <1>2, <1>3, OneShape, SameJobs DEF BeginRemoval, Caller

\* Beginning a retry keeps the shape.
LEMMA ShapeBeginRetry ==
  ASSUME Shape, NEW p \in Person, BeginRetry(p)
  PROVE  Shape'
<1> USE DEF Shape, TypeOK
<1>1. /\ Only("manage") /\ call'["manage"].pc \in {"check", "confirm"}
      /\ call'["manage"].person = p /\ call'["manage"].meta \in Metadata
      /\ calls' \in 0..MaxCalls /\ disturbed' \in BOOLEAN
  BY Begins DEF BeginRetry, CallControl, Caller
<1>2. CallShape("manage", call'["manage"])
  BY <1>1 DEF CallShape, Placed, AddingControl, Preparing, Undoing, CopyControl, Saving
<1>3. TypeOK'
  BY <1>1 DEF Only, BeginRetry, lock, records
<1> QED
  BY <1>1, <1>2, <1>3, OneShape, SameJobs DEF BeginRetry, Caller

\* What the call that acts on a copy does next: it saves a status, goes on with
\* the copy, or ends.
CopyMoves ==
  LET m == call["manage"].meta
  IN \/ Ends("manage")
     \/ Goes("manage", "schedule") \/ Goes("manage", "ownership")
     \/ Goes("manage", "clear_again") \/ Goes("manage", "verifying")
     \/ Saves("manage", m, "pending", "schedule") \/ Saves("manage", m, "pending", "verify")
     \/ Saves("manage", m, "synchronizing", "clear")
     \/ Saves("manage", m, "manual_attention_required", "end")
     \/ Saves("manage", m, "synchronized", "end")

\* Such a call keeps its shape.
LEMMA CopyShape ==
  ASSUME Shape, call["manage"].pc \in CopyControl \ Saving, CopyMoves
  PROVE  CallShapes' /\ Only("manage")
<1>1. "manage" \in Caller
  BY DEF Caller
<1>2. /\ CallShape("manage", call["manage"])
      /\ call["manage"].person \in Person /\ call["manage"].meta \in Metadata
  BY <1>1 DEF Shape, CallShapes, CallShape, CopyControl, Saving
<1>3. Only("manage")
  BY DEF CopyMoves, Goes, Saves, Ends
<1>4. CallShape("manage", call'["manage"])
  BY <1>2 DEF CopyMoves, Goes, Saves, Ends, Status,
     CallShape, Placed, AddingControl, Preparing, Undoing, CopyControl, Saving
<1> QED
  BY <1>1, <1>3, <1>4, OneShape DEF Shape

\* The moves of such a call.
LEMMA CopyMovesOn ==
  ASSUME Shape,
         \/ RemoveAccess \/ ClearSlot \/ ScheduleVerification \/ CheckRemoved
         \/ CheckOwnership \/ ClearAgain \/ VerifyInline \/ ConfirmProvisioning
  PROVE  /\ call["manage"].pc \in CopyControl \ Saving
         /\ Subject("manage") \in Person /\ call["manage"].meta \in Metadata
         /\ CopyMoves
<1>1. "manage" \in Caller
  BY DEF Caller
<1>2. call["manage"].pc \in CopyControl \ Saving
  BY DEF RemoveAccess, ClearSlot, ScheduleVerification, CheckRemoved, CheckOwnership,
     ClearAgain, VerifyInline, ConfirmProvisioning, At, CopyControl, Saving
<1>3. Subject("manage") \in Person /\ call["manage"].meta \in Metadata
  BY <1>1, <1>2 DEF Shape, CallShapes, CallShape, Subject, CopyControl, Saving
<1> DEFINE m == call["manage"].meta
<1>4. call \in [Caller -> Calls]
  BY DEF Shape, TypeOK
<1>5. /\ End("manage") => Ends("manage")
      /\ GoTo("manage", "schedule") => Goes("manage", "schedule")
      /\ GoTo("manage", "ownership") => Goes("manage", "ownership")
      /\ GoTo("manage", "clear_again") => Goes("manage", "clear_again")
      /\ GoTo("manage", "verifying") => Goes("manage", "verifying")
  BY <1>1, <1>4, EndEnds, GoToGoes DEF CallControl
<1>6. /\ Save("manage", m, "pending", "schedule")
           => Saves("manage", m, "pending", "schedule")
      /\ Save("manage", m, "pending", "verify") => Saves("manage", m, "pending", "verify")
      /\ Save("manage", m, "synchronizing", "clear")
           => Saves("manage", m, "synchronizing", "clear")
      /\ Save("manage", m, "manual_attention_required", "end")
           => Saves("manage", m, "manual_attention_required", "end")
      /\ Save("manage", m, "synchronized", "end")
           => Saves("manage", m, "synchronized", "end")
  BY <1>1, <1>3, <1>4, SaveSaves DEF Status, After
<1>7. CopyMoves
  BY <1>5, <1>6 DEF CopyMoves, RemoveAccess, ClearSlot, ScheduleVerification, CheckRemoved,
     CheckOwnership, ClearAgain, VerifyInline, ConfirmProvisioning
<1> QED
  BY <1>2, <1>3, <1>7

\* Removing and retrying keep the shape.
LEMMA ShapeCopyStep ==
  ASSUME Shape, RemovingStep \/ RetryStep
  PROVE  Shape'
<1>1. /\ Subject("manage") \in Person /\ call["manage"].meta \in Metadata
      /\ CallShapes' /\ Only("manage")
  BY CopyMovesOn, CopyShape DEF RemovingStep, RetryStep
<1>2. call["manage"].meta.slot \in Slot
  BY <1>1 DEF Metadata
<1> USE DEF Shape, TypeOK
<1>3. CASE RemoveAccess \/ CheckRemoved \/ CheckOwnership \/ ConfirmProvisioning
  <2>1. TypeOK'
    BY <1>1, <1>3 DEF RemoveAccess, CheckRemoved, CheckOwnership, ConfirmProvisioning,
       Only, records, lock, history
  <2> QED
    BY <1>1, <1>3, <2>1, SameJobs
    DEF RemoveAccess, CheckRemoved, CheckOwnership, ConfirmProvisioning
<1>4. CASE ClearSlot
  <2>1. air' \in Seq(Command) /\ Len(air') <= MaxAir
    BY <1>2, <1>4, Sent DEF ClearSlot
  <2>2. cleared' \in [Person -> 0..2]
    <3> PICK n \in 0..2 : n = cleared[Subject("manage")]
      BY <1>1
    <3>1. More(n) \in 0..2
      BY DEF More
    <3>2. \/ cleared' = cleared
          \/ cleared' = [cleared EXCEPT ![Subject("manage")] = More(n)]
      BY <1>4 DEF ClearSlot
    <3> QED
      BY <1>1, <3>1, <3>2
  <2>3. TypeOK'
    BY <1>1, <1>4, <2>1, <2>2 DEF ClearSlot, Only, records
  <2> QED
    BY <1>1, <1>4, <2>3, SameJobs DEF ClearSlot
<1>5. CASE ClearAgain
  <2>1. air' \in Seq(Command) /\ Len(air') <= MaxAir
    BY <1>2, <1>5, Sent DEF ClearAgain
  <2>2. TypeOK'
    BY <1>1, <1>5, <2>1 DEF ClearAgain, Only, records, history
  <2> QED
    BY <1>1, <1>5, <2>2, SameJobs DEF ClearAgain
<1>6. CASE ScheduleVerification
  <2>1. OnlyJob(Subject("manage"))
    BY <1>1, <1>6, JobStarts DEF ScheduleVerification, OnlyJob, Verifier
  <2>2. \/ job' = job
        \/ job'[Subject("manage")] = NewJob(Subject("manage"), call["manage"].meta)
    BY <1>1, <1>6 DEF ScheduleVerification, Verifier
  <2>3. JobShape(NewJob(Subject("manage"), call["manage"].meta))
    BY <1>1, JobStarts DEF JobShape
  <2>4. JobShapes'
    BY <1>1, <2>1, <2>2, <2>3, SameJobs, OneJobShape DEF Verifier
  <2>5. TypeOK'
    BY <1>1, <1>6, <2>1 DEF ScheduleVerification, OnlyJob, Only, records, lock, history
  <2> QED
    BY <1>1, <2>4, <2>5
<1>7. CASE VerifyInline
  <2>1. /\ OnlyJob(Inline)
        /\ job'[Inline] = NewJob(Subject("manage"), call["manage"].meta)
    BY <1>1, <1>7, JobStarts DEF VerifyInline, OnlyJob, Verifier
  <2>2. JobShape(NewJob(Subject("manage"), call["manage"].meta))
    BY <1>1, JobStarts DEF JobShape
  <2>3. JobShapes'
    BY <1>1, <2>1, <2>2, OneJobShape DEF Verifier
  <2>4. TypeOK'
    BY <1>1, <1>7, <2>1 DEF VerifyInline, OnlyJob, Only, records, lock, history
  <2> QED
    BY <1>1, <2>3, <2>4
<1> QED
  BY <1>3, <1>4, <1>5, <1>6, <1>7 DEF RemovingStep, RetryStep

\* Saving the metadata keeps the shape.
LEMMA ShapeSaveMetadata ==
  ASSUME Shape, NEW c \in Caller, SaveMetadata(c)
  PROVE  Shape'
<1> USE DEF Shape, TypeOK
<1>1. /\ CallShape(c, call[c]) /\ call[c].pc = "save" /\ Subject(c) \in Person
      /\ call[c].meta \in Metadata /\ call[c].status \in Status
  BY DEF SaveMetadata, At, CallShapes, CallShape, Subject, CopyControl, Saving
<1>2. \/ Ends(c) \/ (call[c].after = "schedule" /\ Goes(c, "schedule"))
      \/ Goes(c, "save_grant")
  BY SaveMetadataMoves
<1>3. CallShape(c, call'[c])
  BY <1>1, <1>2 DEF Ends, Goes,
     CallShape, Placed, AddingControl, Preparing, Undoing, CopyControl, Saving
<1>4. meta' \in [Person -> Metadata \cup {None}]
  <2> DEFINE m == [call[c].meta EXCEPT !.status = call[c].status]
  <2>1. m \in Metadata
    BY <1>1, StatusChanges
  <2>2. meta' = meta \/ meta' = [meta EXCEPT ![Subject(c)] = m]
    BY DEF SaveMetadata
  <2> HIDE DEF m
  <2> QED
    BY <1>1, <2>1, <2>2
<1>5. faults' \in 0..MaxFaults
  BY Assumptions DEF Assumptions, SaveMetadata, Write, Fault
<1>6. TypeOK'
  BY <1>2, <1>4, <1>5 DEF Ends, Goes, Only, SaveMetadata, lock, history
<1> QED
  BY <1>2, <1>3, <1>6, OneShape, SameJobs DEF Ends, Goes, SaveMetadata

\* Saving the grant keeps the shape.
LEMMA ShapeSaveGrant ==
  ASSUME Shape, NEW c \in Caller, SaveGrant(c)
  PROVE  Shape'
<1> USE DEF Shape, TypeOK
<1>1. /\ CallShape(c, call[c]) /\ call[c].pc = "save_grant" /\ Subject(c) \in Person
      /\ call[c].meta \in Metadata /\ call[c].status \in Status /\ call[c].after \in After
  BY DEF SaveGrant, At, CallShapes, CallShape, Subject, CopyControl, Saving, Calls
<1>2. \/ Ends(c) \/ (call[c].after = "schedule" /\ Goes(c, "schedule"))
      \/ /\ Only(c) /\ call'[c].pc = call[c].after /\ call[c].after # "end"
         /\ call'[c].person = call[c].person /\ call'[c].slot = call[c].slot
         /\ call'[c].meta \in Metadata
  BY <1>1, SaveGrantMoves
<1>3. CallShape(c, call'[c])
  BY <1>1, <1>2 DEF Ends, Goes, After,
     CallShape, Placed, AddingControl, Preparing, Undoing, CopyControl, Saving
<1>4. grant' \in [Person -> Status \cup {None}]
  BY <1>1 DEF SaveGrant
<1>5. faults' \in 0..MaxFaults
  BY Assumptions DEF Assumptions, SaveGrant, Write, Fault
<1>6. TypeOK'
  BY <1>2, <1>4, <1>5 DEF Ends, Goes, Only, SaveGrant, lock, history
<1> QED
  BY <1>2, <1>3, <1>6, OneShape, SameJobs DEF Ends, Goes, SaveGrant

\* Verifying keeps the shape.
LEMMA ShapeVerifierStep ==
  ASSUME Shape, NEW v \in Verifier, VerifierStep(v)
  PROVE  Shape'
<1>1. job[v] # None /\ job[v] \in Jobs /\ JobShape(job[v])
  BY DEF VerifierStep, ReadRemoved, DropGrant, DropMetadata, CheckDropped, MarkMetadata,
     MarkGrant, EndVerification, Verifying, Shape, TypeOK, JobShapes
<1>2. job[v].person \in Person /\ job[v].meta \in Metadata
  BY <1>1 DEF Jobs
<1> USE DEF Shape
<1>3. CASE ReadRemoved(v)
  <2>1. \/ JobMoves(v, "drop_grant", job[v].status)
        \/ \E status \in Attention : JobMoves(v, "mark", status)
    BY <1>1, <1>3, JobMovesOn DEF ReadRemoved, Attention
  <2>2. JobShapes'
    BY <1>1, <2>1, OneJobShape DEF JobMoves, JobShape
  <2>3. TypeOK'
    BY <1>3, <2>1 DEF ReadRemoved, JobMoves, OnlyJob, TypeOK, records, lock, history
  <2> QED
    BY <1>3, <2>2, <2>3, SameCalls DEF ReadRemoved
<1>4. CASE DropGrant(v)
  <2>1. \/ JobMoves(v, "drop_metadata", job[v].status)
        \/ JobMoves(v, "mark", "manual_attention_required")
    BY <1>1, <1>4, JobMovesOn DEF DropGrant
  <2>2. JobShapes'
    BY <1>1, <2>1, OneJobShape DEF JobMoves, JobShape, Attention
  <2>3. faults' \in 0..MaxFaults
    BY <1>4, Assumptions DEF Assumptions, DropGrant, Write, Fault, TypeOK
  <2>4. grant' \in [Person -> Status \cup {None}]
    BY <1>2, <1>4 DEF DropGrant, TypeOK
  <2>5. TypeOK'
    BY <1>4, <2>1, <2>3, <2>4 DEF DropGrant, JobMoves, OnlyJob, TypeOK, lock, history
  <2> QED
    BY <1>4, <2>2, <2>5, SameCalls DEF DropGrant
<1>5. CASE DropMetadata(v)
  <2>1. \/ JobMoves(v, "check", job[v].status)
        \/ JobMoves(v, "mark", "manual_attention_required")
    BY <1>1, <1>5, JobMovesOn DEF DropMetadata
  <2>2. JobShapes'
    BY <1>1, <2>1, OneJobShape DEF JobMoves, JobShape, Attention
  <2>3. faults' \in 0..MaxFaults
    BY <1>5, Assumptions DEF Assumptions, DropMetadata, Write, Fault, TypeOK
  <2>4. meta' \in [Person -> Metadata \cup {None}]
    BY <1>2, <1>5 DEF DropMetadata, TypeOK
  <2>5. TypeOK'
    BY <1>5, <2>1, <2>3, <2>4 DEF DropMetadata, JobMoves, OnlyJob, TypeOK, lock, history
  <2> QED
    BY <1>5, <2>2, <2>5, SameCalls DEF DropMetadata
<1>6. CASE CheckDropped(v)
  <2>1. \/ JobMoves(v, "ending", job[v].status)
        \/ JobMoves(v, "mark", "manual_attention_required")
    BY <1>1, <1>6, JobMovesOn DEF CheckDropped
  <2>2. JobShapes'
    BY <1>1, <2>1, OneJobShape DEF JobMoves, JobShape, Attention
  <2>3. TypeOK'
    BY <1>6, <2>1 DEF CheckDropped, JobMoves, OnlyJob, TypeOK, records, lock, history
  <2> QED
    BY <1>6, <2>2, <2>3, SameCalls DEF CheckDropped
<1>7. CASE MarkMetadata(v)
  <2>1. \/ JobMoves(v, "mark_grant", job[v].status) \/ JobMoves(v, "ending", job[v].status)
    BY <1>7, MarkMetadataMoves
  <2>2. job[v].status \in Attention
    BY <1>1, <1>7 DEF MarkMetadata, Verifying, JobShape
  <2>3. JobShapes'
    BY <1>1, <2>1, <2>2, OneJobShape DEF JobMoves, JobShape
  <2>4. faults' \in 0..MaxFaults
    BY <1>7, Assumptions DEF Assumptions, MarkMetadata, Write, Fault, TypeOK
  <2>5. meta' \in [Person -> Metadata \cup {None}]
    <3> DEFINE m == [job[v].meta EXCEPT !.status = job[v].status]
    <3>1. m \in Metadata
      BY <1>2, <2>2, StatusChanges DEF Attention, Status
    <3>2. meta' = meta \/ meta' = [meta EXCEPT ![job[v].person] = m]
      BY <1>7 DEF MarkMetadata
    <3> HIDE DEF m
    <3> QED
      BY <1>2, <3>1, <3>2 DEF TypeOK
  <2>6. TypeOK'
    BY <1>7, <2>1, <2>4, <2>5 DEF MarkMetadata, JobMoves, OnlyJob, TypeOK, lock, history
  <2> QED
    BY <1>7, <2>3, <2>6, SameCalls DEF MarkMetadata
<1>8. CASE MarkGrant(v)
  <2>1. JobMoves(v, "ending", job[v].status)
    BY <1>1, <1>8, JobMovesOn DEF MarkGrant
  <2>2. job[v].status \in Status
    BY <1>1, <1>8 DEF MarkGrant, Verifying, JobShape, Attention, Status
  <2>3. JobShapes'
    BY <1>1, <2>1, OneJobShape DEF JobMoves, JobShape
  <2>4. faults' \in 0..MaxFaults
    BY <1>8, Assumptions DEF Assumptions, MarkGrant, Write, Fault, TypeOK
  <2>5. grant' \in [Person -> Status \cup {None}]
    BY <1>2, <1>8, <2>2 DEF MarkGrant, TypeOK
  <2>6. TypeOK'
    BY <1>8, <2>1, <2>4, <2>5 DEF MarkGrant, JobMoves, OnlyJob, TypeOK, lock, history
  <2> QED
    BY <1>8, <2>3, <2>6, SameCalls DEF MarkGrant
<1>9. CASE EndVerification(v)
  <2>1. OnlyJob(v) /\ job'[v] = None
    BY <1>9 DEF EndVerification, OnlyJob, TypeOK
  <2>2. JobShapes'
    BY <2>1, OneJobShape
  <2>3. "manage" \in Caller
    BY DEF Caller
  <2>4. call' = call \/ Ends("manage")
    BY <1>9, <2>3, Moves DEF EndVerification, TypeOK
  <2>5. ASSUME Ends("manage") PROVE CallShapes'
    <3>1. CallShape("manage", call'["manage"])
      BY <2>5 DEF Ends, CallShape, Placed, AddingControl, Preparing, Undoing, CopyControl, Saving
    <3> QED
      BY <2>3, <2>5, <3>1, OneShape DEF Ends
  <2>6. TypeOK'
    BY <1>9, <2>1, <2>4 DEF EndVerification, Ends, Only, OnlyJob, TypeOK, records, lock, history
  <2> QED
    BY <2>2, <2>4, <2>5, <2>6, SameCalls
<1> QED
  BY <1>3, <1>4, <1>5, <1>6, <1>7, <1>8, <1>9 DEF VerifierStep

\* Delivering a command keeps the shape.
LEMMA ShapeDeliver == Shape /\ Deliver => Shape'
<1> SUFFICES ASSUME Shape, Deliver PROVE Shape'
  OBVIOUS
<1>1. Len(air) > 0 /\ Head(air) \in Command
  BY DEF Deliver, Shape, TypeOK
<1>2. air' \in Seq(Command) /\ Len(air') <= MaxAir
  BY <1>1, Assumptions DEF Assumptions, Deliver, Shape, TypeOK
<1>3. holds' \in [Slot -> Person \cup {None}]
  BY <1>1 DEF Deliver, Shape, TypeOK, Command
<1>4. TypeOK'
  BY <1>2, <1>3 DEF Deliver, Shape, TypeOK, records
<1> QED
  BY <1>4, SameCalls, SameJobs DEF Deliver, Shape

\* What a restart does to the metadata
Marked(p) ==
  IF meta[p] # None /\ meta[p].status = "synchronizing"
  THEN [meta[p] EXCEPT !.status = "manual_attention_required"] ELSE meta[p]

\* A restart marks what was being synchronized, and starts calls and jobs anew.
LEMMA Restarts ==
  ASSUME Shape, Restart
  PROVE  /\ meta' \in [Person -> Metadata \cup {None}]
         /\ \A p \in Person :
              /\ meta'[p] = Marked(p)
              /\ meta[p] = None <=> meta'[p] = None
              /\ meta[p] # None => meta'[p].slot = meta[p].slot
              /\ meta[p] # None /\ meta'[p].status \in Upright => meta'[p] = meta[p]
         /\ call' \in [Caller -> Calls] /\ \A c \in Caller : call'[c].pc = "idle"
         /\ job' \in [Verifier -> Jobs \cup {None}]
         /\ \A v \in Verifier : job'[v] # None =>
              /\ v \in Person /\ meta[v] # None /\ meta[v].status = "pending"
              /\ job'[v].person = v /\ job'[v].meta = meta[v] /\ job'[v].pc = "read"
<1>1. \A p \in Person :
        /\ Marked(p) \in Metadata \cup {None}
        /\ meta[p] = None <=> Marked(p) = None
        /\ meta[p] # None => Marked(p).slot = meta[p].slot
        /\ meta[p] # None /\ Marked(p).status \in Upright => Marked(p) = meta[p]
  <2> SUFFICES ASSUME NEW p \in Person
               PROVE  /\ Marked(p) \in Metadata \cup {None}
                      /\ meta[p] = None <=> Marked(p) = None
                      /\ meta[p] # None => Marked(p).slot = meta[p].slot
                      /\ meta[p] # None /\ Marked(p).status \in Upright => Marked(p) = meta[p]
    OBVIOUS
  <2>1. CASE meta[p] # None /\ meta[p].status = "synchronizing"
    <3> PICK m \in Metadata : m = meta[p]
      BY <2>1 DEF Shape, TypeOK
    <3> DEFINE n == [m EXCEPT !.status = "manual_attention_required"]
    <3>1. n \in Metadata /\ n.slot = m.slot /\ n.status = "manual_attention_required" /\ n # None
      BY StatusChanges DEF Status
    <3>2. Marked(p) = n
      BY <2>1 DEF Marked
    <3> QED
      BY <2>1, <3>1, <3>2 DEF Upright
  <2>2. CASE ~(meta[p] # None /\ meta[p].status = "synchronizing")
    <3>1. Marked(p) = meta[p]
      BY <2>2 DEF Marked
    <3> QED
      BY <3>1 DEF Shape, TypeOK
  <2> QED
    BY <2>1, <2>2
<1>2. meta' = [p \in Person |-> Marked(p)]
  BY DEF Restart, Marked
<1>3. call' \in [Caller -> Calls] /\ \A c \in Caller : call'[c].pc = "idle"
  BY Idle DEF Restart
<1>4. ASSUME NEW v \in Person, meta[v] # None
      PROVE  /\ NewJob(v, meta[v]) \in Jobs /\ NewJob(v, meta[v]).pc = "read"
             /\ NewJob(v, meta[v]).person = v /\ NewJob(v, meta[v]).meta = meta[v]
  BY <1>4, JobStarts DEF Shape, TypeOK
<1>5. job' = [v \in Verifier |->
                IF v \in Person /\ meta[v] # None /\ meta[v].status = "pending"
                THEN NewJob(v, meta[v]) ELSE None]
  BY DEF Restart
<1>6. job' \in [Verifier -> Jobs \cup {None}]
  BY <1>4, <1>5
<1>7. \A v \in Verifier : job'[v] # None =>
        /\ v \in Person /\ meta[v] # None /\ meta[v].status = "pending"
        /\ job'[v].person = v /\ job'[v].meta = meta[v] /\ job'[v].pc = "read"
  BY <1>4, <1>5
<1> QED
  BY <1>1, <1>2, <1>3, <1>6, <1>7

\* A restart keeps the shape.
LEMMA ShapeRestart == Shape /\ Restart => Shape'
<1> SUFFICES ASSUME Shape, Restart PROVE Shape'
  OBVIOUS
<1>1. /\ meta' \in [Person -> Metadata \cup {None}]
      /\ call' \in [Caller -> Calls] /\ \A c \in Caller : call'[c].pc = "idle"
      /\ job' \in [Verifier -> Jobs \cup {None}]
      /\ \A v \in Verifier : job'[v] # None =>
           /\ v \in Person /\ meta[v] # None
           /\ job'[v].person = v /\ job'[v].meta = meta[v] /\ job'[v].pc = "read"
  BY Restarts
<1>2. CallShapes'
  BY <1>1 DEF CallShapes, CallShape, Placed, AddingControl, Preparing, Undoing, CopyControl, Saving
<1>3. JobShapes'
  BY <1>1 DEF JobShapes, JobShape, Shape, TypeOK
<1>4. grant' \in [Person -> Status \cup {None}]
  BY DEF Restart, Shape, TypeOK, Status
<1>5. TypeOK'
  BY <1>1, <1>4 DEF Restart, Shape, TypeOK, lock, history
<1> QED
  BY <1>2, <1>3, <1>5 DEF Shape

\* The shape at the start.
LEMMA ShapeInit == Init => Shape
<1> SUFFICES ASSUME Init PROVE Shape
  OBVIOUS
<1>1. call \in [Caller -> Calls] /\ \A c \in Caller : call[c].pc = "idle"
  BY Idle DEF Init
<1>2. CallShapes
  BY <1>1 DEF CallShapes, CallShape, Placed, AddingControl, Preparing, Undoing, CopyControl, Saving
<1>3. TypeOK
  <2>1. air \in Seq(Command) /\ Len(air) <= MaxAir
    BY Assumptions DEF Assumptions, Init
  <2>2. 0 \in 0..Slots /\ 0 \in 0..MaxCalls /\ 0 \in 0..MaxFaults /\ 0 \in 0..2
    BY Assumptions DEF Assumptions
  <2> QED
    BY <1>1, <2>1, <2>2 DEF Init, TypeOK
<1> QED
  BY <1>2, <1>3 DEF Init, Shape, JobShapes

\* Every step keeps the shape.
LEMMA ShapeNext == Shape /\ [Next]_vars => Shape'
<1> SUFFICES ASSUME Shape, [Next]_vars PROVE Shape'
  OBVIOUS
<1>1. ASSUME NEW c \in Caller, AddingStep(c) PROVE Shape'
  BY <1>1, ShapeChooseSlot, ShapeProgramSlot, ShapeReadBack, ShapeRecordMetadata,
     ShapeCompleteRecord, ShapeCompensate, ShapeRollBack, ShapeUnprogram, ShapeReadEmptied,
     ShapeForgetAccess DEF AddingStep
<1>2. CASE UNCHANGED vars
  <2>1. TypeOK'
    BY <1>2 DEF Shape, TypeOK, vars, records, lock, history
  <2> QED
    BY <1>2, <2>1, SameCalls, SameJobs DEF Shape, vars
<1> QED
  BY <1>1, <1>2, ShapeBeginAdding, ShapeSaveMetadata, ShapeSaveGrant, ShapeBeginRemoval,
     ShapeBeginRetry, ShapeCopyStep, ShapeVerifierStep, ShapeDeliver, ShapeRestart
  DEF Next

\* The variables have their types, and calls and jobs their shape, in every
\* reachable state.
THEOREM Typing == Spec => []Shape
  BY ShapeInit, ShapeNext, PTL DEF Spec

-----------------------------------------------------------------------------
(* The order in which calls and verifiers touch a record                    *)

\* The metadata of a person is written, in a slot that nobody else has.
Written(p, m) ==
  /\ m \in Metadata /\ ~Taken(p, m.slot)
  /\ meta' = [meta EXCEPT ![p] = m]

\* The metadata of a person is dropped.
Dropped(p) == meta' = [meta EXCEPT ![p] = None]

\* What calls and verifiers write
LEMMA Writes ==
  ASSUME Shape, NEW c \in Caller, NEW v \in Verifier
  PROVE  /\ RecordMetadata(c) =>
              \/ meta' = meta
              \/ Written(Subject(c), [slot |-> call[c].slot, status |-> call[c].status])
         /\ SaveMetadata(c) =>
              \/ meta' = meta
              \/ Written(Subject(c), [call[c].meta EXCEPT !.status = call[c].status])
         /\ MarkMetadata(v) =>
              \/ meta' = meta
              \/ Written(job[v].person, [job[v].meta EXCEPT !.status = job[v].status])
<1>1. ASSUME RecordMetadata(c)
      PROVE  \/ meta' = meta
             \/ Written(Subject(c), [slot |-> call[c].slot, status |-> call[c].status])
  <2>1. [slot |-> call[c].slot, status |-> call[c].status] \in Metadata
    BY <1>1 DEF Shape, RecordMetadata, At, CallShapes, CallShape, Placed, AddingControl,
       Preparing, Metadata, Status, Upright
  <2> QED
    BY <1>1, <2>1 DEF RecordMetadata, Written
<1>2. ASSUME SaveMetadata(c)
      PROVE  \/ meta' = meta
             \/ Written(Subject(c), [call[c].meta EXCEPT !.status = call[c].status])
  <2>1. call[c].meta \in Metadata /\ call[c].status \in Status
    BY <1>2 DEF Shape, SaveMetadata, At, CallShapes, CallShape, CopyControl, Saving
  <2> QED
    BY <1>2, <2>1, StatusChanges DEF SaveMetadata, Written
<1>3. ASSUME MarkMetadata(v)
      PROVE  \/ meta' = meta
             \/ Written(job[v].person, [job[v].meta EXCEPT !.status = job[v].status])
  <2>1. job[v].meta \in Metadata /\ job[v].status \in Status
    BY <1>3 DEF Shape, MarkMetadata, Verifying, JobShapes, JobShape, Attention, Status
  <2> QED
    BY <1>3, <2>1, StatusChanges DEF MarkMetadata, Written
<1> QED
  BY <1>1, <1>2, <1>3

\* Every step leaves no two people in one slot.
LEMMA ApartNext == Shape /\ SlotsApart /\ [Next]_vars => SlotsApart'
<1> SUFFICES ASSUME Shape, SlotsApart, [Next]_vars PROVE SlotsApart'
  OBVIOUS
<1>1. meta \in [Person -> Metadata \cup {None}]
  BY DEF Shape, TypeOK
<1>2. CASE meta' = meta
  BY <1>2 DEF SlotsApart
<1>3. ASSUME NEW p \in Person, Dropped(p) PROVE SlotsApart'
  BY <1>1, <1>3 DEF Dropped, SlotsApart
<1>4. ASSUME NEW p \in Person, NEW m, Written(p, m) PROVE SlotsApart'
  BY <1>1, <1>4 DEF Written, Taken, SlotsApart
<1>5. CASE Restart
  BY <1>5, Restarts DEF SlotsApart
<1>6. ASSUME NEW c \in Caller, AddingStep(c) \/ SaveMetadata(c) \/ SaveGrant(c)
      PROVE  SlotsApart'
  <2>1. ~At(c, "idle")
    BY <1>6 DEF AddingStep, ChooseSlot, ProgramSlot, ReadBack, RecordMetadata, CompleteRecord,
       Compensate, RollBack, Unprogram, ReadEmptied, ForgetAccess, SaveMetadata, SaveGrant, At
  <2>2. Subject(c) \in Person
    BY <2>1 DEF Shape, CallShapes, CallShape, Subject, At
  <2>3. CASE Compensate(c) \/ ForgetAccess(c)
    BY <1>2, <1>3, <2>2, <2>3 DEF Compensate, ForgetAccess, Forget, Dropped
  <2>4. CASE RecordMetadata(c) \/ SaveMetadata(c)
    <3> Inline \in Verifier
      BY DEF Verifier
    <3> QED
      BY <1>2, <1>4, <2>2, <2>4, Writes
  <2>5. CASE ChooseSlot(c) \/ ProgramSlot(c) \/ ReadBack(c) \/ CompleteRecord(c)
             \/ RollBack(c) \/ Unprogram(c) \/ ReadEmptied(c) \/ SaveGrant(c)
    BY <1>2, <2>5 DEF ChooseSlot, ProgramSlot, ReadBack, CompleteRecord, RollBack, Unprogram,
       ReadEmptied, SaveGrant, records
  <2> QED
    BY <1>6, <2>3, <2>4, <2>5 DEF AddingStep
<1>7. ASSUME NEW v \in Verifier, VerifierStep(v) PROVE SlotsApart'
  <2>1. job[v].person \in Person
    BY <1>7 DEF VerifierStep, ReadRemoved, DropGrant, DropMetadata, CheckDropped, MarkMetadata,
       MarkGrant, EndVerification, Verifying, Shape, TypeOK, Jobs
  <2>2. CASE DropMetadata(v)
    BY <1>2, <1>3, <2>1, <2>2 DEF DropMetadata, Dropped
  <2>3. CASE MarkMetadata(v)
    <3> "manage" \in Caller
      BY DEF Caller
    <3> QED
      BY <1>2, <1>4, <2>1, <2>3, Writes
  <2>4. CASE ReadRemoved(v) \/ DropGrant(v) \/ CheckDropped(v) \/ MarkGrant(v)
             \/ EndVerification(v)
    BY <1>2, <2>4 DEF ReadRemoved, DropGrant, CheckDropped, MarkGrant, EndVerification, records
  <2> QED
    BY <1>7, <2>2, <2>3, <2>4 DEF VerifierStep
<1>8. CASE RemovingStep \/ RetryStep
  BY <1>2, <1>8 DEF RemovingStep, RetryStep, RemoveAccess, ClearSlot, ScheduleVerification,
     CheckRemoved, CheckOwnership, ClearAgain, VerifyInline, ConfirmProvisioning, records
<1>9. CASE \E p \in Person : BeginRemoval(p) \/ BeginRetry(p)
  BY <1>2, <1>9 DEF BeginRemoval, BeginRetry, records
<1>10. CASE \E c \in Caller, p \in Person : BeginAdding(c, p)
  BY <1>2, <1>10 DEF BeginAdding, records
<1>11. CASE Deliver \/ UNCHANGED vars
  BY <1>2, <1>11 DEF Deliver, vars, records
<1> QED
  BY <1>5, <1>6, <1>7, <1>8, <1>9, <1>10, <1>11 DEF Next

\* A call that moves, with its record and the verifiers left alone, keeps the order.
LEMMA OneOrder ==
  ASSUME Order, NEW c \in Caller, Only(c), \A d \in Caller \ {c} : At(d, "idle"),
         meta' = meta, job' = job,
         call'[c].pc # "idle" => RecordOf(c, call'[c]),
         Copied(call'[c]) => \A v \in Verifier : job[v] # None /\ job[v].person = call'[c].person
                               => call'[c].meta.slot = job[v].meta.slot
  PROVE  Order'
<1>1. \A d \in Caller \ {c} : call'[d] = call[d] /\ call[d].pc = "idle"
  BY DEF Only, At
<1>2. Alone'
  BY <1>1 DEF Alone, At
<1>3. CallsOrdered'
  BY <1>1 DEF CallsOrdered, RecordOf, NoJob, Standing, At, Raises, Lowered, Adds, Placed, Copied
<1>4. JobsOrdered'
  <2> SUFFICES ASSUME NEW v \in Verifier, job[v] # None
               PROVE  JobOf(job[v])'
    BY DEF JobsOrdered
  <2>1. JobOf(job[v])
    BY DEF Order, JobsOrdered
  <2>2. ASSUME NEW d \in Caller, Copied(call'[d]), call'[d].person = job[v].person
        PROVE  call'[d].meta.slot = job[v].meta.slot
    <3>1. CASE d = c
      BY <2>2, <3>1
    <3>2. CASE d # c
      BY <1>1, <2>2, <3>2 DEF Copied, CopyControl, Saving
    <3> QED
      BY <3>1, <3>2
  <2> QED
    BY <2>1, <2>2 DEF JobOf, Standing, Copied, Subject, Placed
<1> QED
  BY <1>2, <1>3, <1>4 DEF Order

\* A call that is running is the only one, and what is known of it
LEMMA Running ==
  ASSUME Shape, Order, NEW c \in Caller, ~At(c, "idle")
  PROVE  /\ CallShape(c, call[c]) /\ RecordOf(c, call[c]) /\ Subject(c) \in Person
         /\ \A d \in Caller \ {c} : At(d, "idle")
  BY DEF Shape, CallShapes, CallShape, Subject, At, Order, Alone, CallsOrdered

\* The same, when the call does not begin.
LEMMA MoveOrder ==
  ASSUME Shape, Order, NEW c \in Caller, ~At(c, "idle"), Only(c), meta' = meta, job' = job,
         call'[c].pc # "idle" => RecordOf(c, call'[c]),
         Copied(call'[c]) =>
           /\ Copied(call[c]) /\ call'[c].person = call[c].person
           /\ call'[c].meta.slot = call[c].meta.slot
  PROVE  Order'
<1>1. \A d \in Caller \ {c} : At(d, "idle")
  BY Running
<1>2. Copied(call'[c]) => \A v \in Verifier : job[v] # None /\ job[v].person = call'[c].person
                            => call'[c].meta.slot = job[v].meta.slot
  BY DEF Order, JobsOrdered, JobOf, Subject
<1> QED
  BY <1>1, <1>2, OneOrder

\* A call that moves and writes the metadata of its person keeps the order.
LEMMA WriteOrder ==
  ASSUME Shape, Order, NEW c \in Caller, ~At(c, "idle"), Only(c), job' = job,
         NEW x \in Metadata \cup {None}, meta' = [meta EXCEPT ![Subject(c)] = x],
         call'[c].pc # "idle" => RecordOf(c, call[c])',
         Copied(call'[c]) =>
           /\ Copied(call[c]) /\ call'[c].person = call[c].person
           /\ call'[c].meta.slot = call[c].meta.slot,
         \A v \in Verifier : job[v] # None /\ job[v].person = Subject(c) =>
           x = None \/ (x.slot = job[v].meta.slot /\ x.status \notin Upright)
  PROVE  Order'
<1>1. \A d \in Caller \ {c} : call'[d] = call[d] /\ call[d].pc = "idle"
  BY Running DEF Only, At
<1>2. Alone'
  BY <1>1 DEF Alone, At
<1>3. CallsOrdered'
  BY <1>1 DEF CallsOrdered, At
<1>4. JobsOrdered'
  <2> SUFFICES ASSUME NEW v \in Verifier, job[v] # None
               PROVE  JobOf(job[v])'
    BY DEF JobsOrdered
  <2>1. JobOf(job[v]) /\ job[v].person \in Person
    BY DEF Order, JobsOrdered, Shape, TypeOK, Jobs
  <2>2. Subject(c) \in Person
    BY Running
  <2>3. ASSUME NEW d \in Caller, Copied(call'[d]), call'[d].person = job[v].person
        PROVE  call'[d].meta.slot = job[v].meta.slot
    <3>1. CASE d = c
      BY <2>1, <2>3, <3>1 DEF JobOf, Subject
    <3>2. CASE d # c
      BY <1>1, <2>3, <3>2 DEF Copied, CopyControl, Saving
    <3> QED
      BY <3>1, <3>2
  <2>4. ~Standing(job[v].person)' /\
        (meta'[job[v].person] # None => meta'[job[v].person].slot = job[v].meta.slot)
    <3>1. CASE job[v].person = Subject(c)
      BY <2>1, <2>2, <3>1 DEF Shape, TypeOK, Standing
    <3>2. CASE job[v].person # Subject(c)
      BY <2>1, <2>2, <3>2 DEF Shape, TypeOK, Standing, JobOf
    <3> QED
      BY <3>1, <3>2
  <2> QED
    BY <2>1, <2>3, <2>4 DEF JobOf, Standing, Copied, Subject, Placed
<1> QED
  BY <1>2, <1>3, <1>4 DEF Order

\* Choosing, programming, reading back and undoing keep the order.
LEMMA OrderAddingMove ==
  ASSUME Shape, Order, NEW c \in Caller,
         \/ ChooseSlot(c) \/ ProgramSlot(c) \/ ReadBack(c) \/ CompleteRecord(c)
         \/ RollBack(c) \/ Unprogram(c) \/ ReadEmptied(c)
  PROVE  Order'
<1>1. /\ ~At(c, "idle") /\ meta' = meta /\ job' = job
      /\ call \in [Caller -> Calls]
  BY DEF ChooseSlot, ProgramSlot, ReadBack, CompleteRecord, RollBack, Unprogram, ReadEmptied,
     At, records, Shape, TypeOK
<1>2. CallShape(c, call[c]) /\ RecordOf(c, call[c]) /\ Subject(c) \in Person
  BY <1>1, Running
<1>3. ASSUME Ends(c) PROVE Order'
  BY <1>1, <1>3, MoveOrder DEF Ends, Copied, CopyControl, Saving
<1> USE DEF At, RecordOf, Raises, Lowered, Adds, Placed, Copied, CopyControl, Saving,
    AddingControl, Preparing, Undoing
<1>4. CASE ChooseSlot(c)
  <2>1. ASSUME Only(c), call'[c].pc = "program", call'[c].person = call[c].person
        PROVE  Order'
    <3>1. RecordOf(c, call'[c])
      BY <1>2, <1>4, <2>1 DEF ChooseSlot
    <3> QED
      BY <1>1, <2>1, <3>1, MoveOrder
  <2> QED
    BY <1>3, <1>4, <2>1, ChooseSlotMoves DEF Shape
<1>5. CASE ProgramSlot(c)
  <2>1. Goes(c, "readback") \/ Ends(c)
    BY <1>1, <1>5, Moves DEF ProgramSlot, CallControl
  <2>2. ASSUME Goes(c, "readback") PROVE Order'
    <3>1. RecordOf(c, call'[c])
      BY <1>2, <1>5, <2>2 DEF ProgramSlot, Goes
    <3> QED
      BY <1>1, <2>2, <3>1, MoveOrder DEF Goes
  <2> QED
    BY <1>3, <2>1, <2>2
<1>6. CASE ReadBack(c)
  <2>1. ASSUME Only(c), call'[c].pc = "record", call'[c].person = call[c].person,
               call'[c].slot = call[c].slot
        PROVE  Order'
    <3>1. RecordOf(c, call'[c])
      BY <1>2, <1>6, <2>1 DEF ReadBack
    <3> QED
      BY <1>1, <2>1, <3>1, MoveOrder
  <2> QED
    BY <1>3, <1>6, <2>1, ReadBackMoves DEF Shape
<1>7. CASE CompleteRecord(c)
  <2>1. Ends(c) \/ (c = "manage" /\ Goes(c, "rollback")) \/ Goes(c, "compensate")
    BY <1>1, <1>7, Moves DEF CompleteRecord, CallControl
  <2>2. ASSUME (c = "manage" /\ Goes(c, "rollback")) \/ Goes(c, "compensate") PROVE Order'
    <3>1. RecordOf(c, call'[c])
      BY <1>2, <1>7, <2>2 DEF CompleteRecord, Goes
    <3> QED
      BY <1>1, <2>2, <3>1, MoveOrder DEF Goes
  <2> QED
    BY <1>3, <2>1, <2>2
<1>8. CASE RollBack(c)
  <2>1. ASSUME c = "manage", meta[Subject(c)] # None,
               Saves(c, meta[Subject(c)], "manual_attention_required", "unprogram")
        PROVE  Order'
    <3>1. RecordOf(c, call'[c])
      BY <1>2, <1>8, <2>1 DEF RollBack, Saves, Subject
    <3> QED
      BY <1>1, <2>1, <3>1, MoveOrder DEF Saves
  <2>2. ASSUME c = "manage" => meta[Subject(c)] = None, Goes(c, "unprogram")
        PROVE  Order'
    <3>1. meta[Subject(c)] = None
      BY <1>2, <1>8, <2>2 DEF RollBack, Subject, Caller
    <3>2. RecordOf(c, call'[c])
      BY <1>2, <1>8, <2>2, <3>1 DEF RollBack, Goes, Subject, Standing
    <3> QED
      BY <1>1, <2>2, <3>2, MoveOrder DEF Goes
  <2>3. meta[Subject(c)] # None => meta[Subject(c)] \in Metadata
    BY <1>2 DEF Shape, TypeOK
  <2>4. GoTo(c, "unprogram") => Goes(c, "unprogram")
    BY <1>1, Moves DEF CallControl
  <2>5. meta[Subject(c)] # None /\
        Save(c, meta[Subject(c)], "manual_attention_required", "unprogram")
          => Saves(c, meta[Subject(c)], "manual_attention_required", "unprogram")
    BY <1>1, <2>3, Moves DEF Status, After
  <2> QED
    BY <1>8, <2>1, <2>2, <2>4, <2>5 DEF RollBack
<1>9. CASE Unprogram(c)
  <2>1. Goes(c, "emptied") \/ Ends(c)
    BY <1>1, <1>9, Moves DEF Unprogram, CallControl
  <2>2. ASSUME Goes(c, "emptied") PROVE Order'
    <3>1. RecordOf(c, call'[c])
      BY <1>2, <1>9, <2>2 DEF Unprogram, Goes
    <3> QED
      BY <1>1, <2>2, <3>1, MoveOrder DEF Goes
  <2> QED
    BY <1>3, <2>1, <2>2
<1>10. CASE ReadEmptied(c)
  <2>1. Goes(c, "forget") \/ Ends(c)
    BY <1>1, <1>10, Moves DEF ReadEmptied, CallControl
  <2>2. ASSUME Goes(c, "forget") PROVE Order'
    <3>1. RecordOf(c, call'[c])
      BY <1>2, <1>10, <2>2 DEF ReadEmptied, Goes
    <3> QED
      BY <1>1, <2>2, <3>1, MoveOrder DEF Goes
  <2> QED
    BY <1>3, <2>1, <2>2
<1> QED
  BY <1>4, <1>5, <1>6, <1>7, <1>8, <1>9, <1>10

\* Recording the metadata, compensating and forgetting keep the order.
LEMMA OrderAddingWrite ==
  ASSUME Shape, Order, NEW c \in Caller,
         \/ RecordMetadata(c) \/ (Compensate(c) /\ ~disturbed') \/ ForgetAccess(c)
  PROVE  Order'
<1>1. ~At(c, "idle") /\ job' = job /\ call \in [Caller -> Calls]
  BY DEF RecordMetadata, Compensate, ForgetAccess, At, Shape, TypeOK
<1>2. CallShape(c, call[c]) /\ RecordOf(c, call[c]) /\ Subject(c) \in Person
  BY <1>1, Running
<1>3. ASSUME Ends(c), meta' = meta PROVE Order'
  BY <1>1, <1>3, MoveOrder DEF Ends, Copied, CopyControl, Saving
<1>4. ASSUME NEW v \in Verifier, job[v] # None, job[v].person = Subject(c)
      PROVE  c = "manage" /\ At(c, "forget")
  BY <1>2, <1>4 DEF RecordMetadata, Compensate, ForgetAccess, At, RecordOf, Raises, Adds, Placed,
     AddingControl, Preparing, Undoing, NoJob, Subject
<1> USE DEF At, RecordOf, Raises, Lowered, Adds, Placed, Copied, CopyControl, Saving,
    AddingControl, Preparing, Undoing
<1>5. CASE RecordMetadata(c)
  <2> PICK x \in Metadata : x = [slot |-> call[c].slot, status |-> call[c].status]
    BY <1>2, <1>5 DEF RecordMetadata, CallShape, Metadata, Status, Upright
  <2>1. \/ meta' = meta /\ Goes(c, "rollback")
        \/ meta' = [meta EXCEPT ![Subject(c)] = x] /\ Goes(c, "complete")
    BY <1>1, <1>5, Moves DEF RecordMetadata, CallControl
  <2>2. CASE meta' = meta /\ Goes(c, "rollback")
    <3>1. RecordOf(c, call'[c])
      BY <1>2, <1>5, <2>2 DEF RecordMetadata, Goes
    <3> QED
      BY <1>1, <2>2, <3>1, MoveOrder DEF Goes
  <2>3. CASE meta' = [meta EXCEPT ![Subject(c)] = x] /\ Goes(c, "complete")
    <3>1. meta'[Subject(c)] = x /\ x.slot = call[c].slot
      BY <1>2, <2>3 DEF Shape, TypeOK
    <3>2. NoJob(Subject(c))'
      BY <1>1, <1>2, <1>5, <2>3 DEF RecordMetadata, Goes, NoJob, Subject
    <3>3. RecordOf(c, call[c])'
      BY <1>2, <1>5, <2>3, <3>1, <3>2 DEF RecordMetadata, Goes, Subject
    <3>4. ~Copied(call'[c])
      BY <2>3 DEF Goes
    <3> QED
      BY <1>1, <1>4, <1>5, <2>3, <3>3, <3>4, WriteOrder DEF RecordMetadata, Goes
  <2> QED
    BY <2>1, <2>2, <2>3
<1>6. CASE Compensate(c) /\ ~disturbed'
  <2>1. Goes(c, "rollback")
    BY <1>1, <1>6, Moves DEF Compensate, CallControl
  <2>2. \/ meta' = meta /\ c # "give"
        \/ meta' = [meta EXCEPT ![Subject(c)] = None]
    <3>1. ~(c = "give" /\ faults' # faults)
      BY <1>6, Zenon DEF Compensate
    <3>2. faults \in Nat
      BY Assumptions DEF Assumptions, Shape, TypeOK
    <3>3. \/ meta' = meta /\ faults' = faults + 1
          \/ meta' = [meta EXCEPT ![Subject(c)] = None]
      BY <1>6 DEF Compensate, Forget, Fault
    <3> QED
      BY <3>1, <3>2, <3>3
  <2>3. CASE meta' = meta /\ c # "give"
    <3>1. RecordOf(c, call'[c])
      BY <1>2, <1>6, <2>1, <2>3 DEF Compensate, Goes
    <3> QED
      BY <1>1, <2>1, <2>3, <3>1, MoveOrder DEF Goes
  <2>4. CASE meta' = [meta EXCEPT ![Subject(c)] = None]
    <3>1. meta'[Subject(c)] = None
      BY <1>2, <2>4 DEF Shape, TypeOK
    <3>2. NoJob(Subject(c))'
      BY <1>1, <1>2, <1>6, <2>1 DEF Compensate, Goes, NoJob, Subject
    <3>3. RecordOf(c, call[c])'
      BY <1>2, <1>6, <2>1, <3>1, <3>2 DEF Compensate, Goes, Subject
    <3>4. ~Copied(call'[c])
      BY <2>1 DEF Goes
    <3> QED
      BY <1>1, <1>4, <1>6, <2>1, <2>4, <3>3, <3>4, WriteOrder DEF Compensate, Goes
  <2> QED
    BY <2>2, <2>3, <2>4
<1>7. CASE ForgetAccess(c)
  <2>1. Ends(c)
    BY <1>1, <1>7, Moves DEF ForgetAccess
  <2>2. meta' = meta \/ meta' = [meta EXCEPT ![Subject(c)] = None]
    BY <1>7 DEF ForgetAccess, Forget
  <2> QED
    BY <1>1, <1>3, <2>1, <2>2, WriteOrder DEF Ends
<1> QED
  BY <1>5, <1>6, <1>7

\* Saving keeps the order.
LEMMA OrderSaving ==
  ASSUME Shape, Order, NEW c \in Caller, SaveMetadata(c) \/ SaveGrant(c)
  PROVE  Order'
<1>1. ~At(c, "idle") /\ job' = job /\ call \in [Caller -> Calls]
  BY DEF SaveMetadata, SaveGrant, At, Shape, TypeOK
<1>2. /\ CallShape(c, call[c]) /\ RecordOf(c, call[c]) /\ Subject(c) \in Person
      /\ call[c].meta \in Metadata /\ call[c].status \in Status
      /\ call[c].after \in After
  BY <1>1, Running DEF SaveMetadata, SaveGrant, At, CallShape, CopyControl, Saving, Shape,
     TypeOK, Calls
<1>3. ASSUME Ends(c), meta' = meta PROVE Order'
  BY <1>1, <1>3, MoveOrder DEF Ends, Copied, CopyControl, Saving
<1> USE DEF At, Raises, Lowered, Adds, Placed, Copied, CopyControl, Saving,
    AddingControl, Preparing, Undoing
<1>4. ASSUME call[c].after = "schedule", Goes(c, "schedule"), meta' = meta PROVE Order'
  <2>1. RecordOf(c, call'[c])
    BY <1>2, <1>4 DEF SaveMetadata, SaveGrant, Goes, RecordOf
  <2> QED
    BY <1>1, <1>4, <2>1, MoveOrder DEF SaveMetadata, SaveGrant, Goes
<1>5. CASE SaveMetadata(c)
  <2> PICK x \in Metadata : x = [call[c].meta EXCEPT !.status = call[c].status]
    BY <1>2, StatusChanges
  <2>1. x.slot = call[c].meta.slot /\ x.status = call[c].status
    BY <1>2, StatusChanges
  <2>2. meta' = meta \/ meta' = [meta EXCEPT ![Subject(c)] = x]
    BY <1>5 DEF SaveMetadata
  <2>3. \/ meta' = meta /\ SaveFails(c)
        \/ /\ meta' = [meta EXCEPT ![Subject(c)] = x]
           /\ Put(c, [call[c] EXCEPT !.pc = "save_grant", !.found = grant[Subject(c)] # None])
    BY <1>5 DEF SaveMetadata
  <2>4. CASE meta' = meta /\ SaveFails(c)
    BY <1>3, <1>4, <2>4, SaveFailsMoves DEF Shape
  <2>5. CASE /\ meta' = [meta EXCEPT ![Subject(c)] = x]
             /\ Goes(c, "save_grant")
    <3>1. meta'[Subject(c)] = x
      BY <1>2, <2>5 DEF Shape, TypeOK
    <3>2. call[c].status = "synchronized" \/ call[c].status \notin Upright
      BY <1>2, <1>5 DEF CallShape, SaveMetadata, Upright
    <3>3. Lowered(call'[c]) => x.status \notin Upright
      BY <1>2, <1>5, <2>1, <2>5, <3>2 DEF CallShape, SaveMetadata, Goes
    <3>4. Raises(call'[c]) => NoJob(Subject(c))'
      BY <1>1, <1>2, <1>5, <2>5 DEF SaveMetadata, Goes, NoJob, Subject, RecordOf
    <3>5. RecordOf(c, call[c])'
      BY <1>2, <1>5, <2>1, <2>5, <3>1, <3>3, <3>4
      DEF SaveMetadata, Goes, Subject, RecordOf, Standing
    <3>6. ASSUME NEW v \in Verifier, job[v] # None, job[v].person = Subject(c)
          PROVE  x.slot = job[v].meta.slot /\ x.status \notin Upright
      <4>1. ~Raises(call[c])
        BY <1>2, <3>6 DEF RecordOf, NoJob, Subject
      <4>2. Copied(call[c]) /\ x.status \notin Upright
        BY <1>5, <2>1, <3>2, <4>1 DEF SaveMetadata
      <4>3. JobOf(job[v])
        BY <3>6 DEF Order, JobsOrdered
      <4> QED
        BY <2>1, <3>6, <4>2, <4>3 DEF JobOf, Subject
    <3>7. Copied(call'[c]) => Copied(call[c])
      BY <1>5, <2>5 DEF SaveMetadata, Goes
    <3> QED
      BY <1>1, <2>5, <3>5, <3>6, <3>7, WriteOrder DEF Goes
  <2>6. ASSUME Put(c, [call[c] EXCEPT !.pc = "save_grant", !.found = grant[Subject(c)] # None])
        PROVE  Goes(c, "save_grant")
    BY <1>1, <2>6, PutGrant
  <2> QED
    BY <2>3, <2>4, <2>5, <2>6
<1>6. CASE SaveGrant(c)
  <2>1. meta' = meta
    BY <1>6 DEF SaveGrant
  <2>2. ASSUME Only(c), call'[c].pc = call[c].after, call[c].after # "end",
               call'[c].person = call[c].person, call'[c].slot = call[c].slot,
               call'[c].meta.slot = call[c].meta.slot
        PROVE  Order'
    <3>1. RecordOf(c, call'[c])
      BY <1>2, <1>6, <2>2 DEF SaveGrant, RecordOf, After, CallShape
    <3> QED
      BY <1>1, <1>2, <1>6, <2>1, <2>2, <3>1, MoveOrder DEF SaveGrant, After
  <2> QED
    BY <1>2, <1>3, <1>4, <1>6, <2>1, <2>2, SaveGrantMoves DEF Shape
<1> QED
  BY <1>5, <1>6

\* Removing and retrying, but for the start of a verifier, keep the order.
LEMMA OrderCopyMove ==
  ASSUME Shape, Order,
         \/ RemoveAccess \/ ClearSlot \/ CheckRemoved \/ CheckOwnership \/ ClearAgain
         \/ ConfirmProvisioning
  PROVE  Order'
<1> DEFINE r == call["manage"]
           m == call["manage"].meta
<1>1. /\ "manage" \in Caller /\ ~At("manage", "idle") /\ meta' = meta /\ job' = job
      /\ call \in [Caller -> Calls]
  BY DEF RemoveAccess, ClearSlot, CheckRemoved, CheckOwnership, ClearAgain,
     ConfirmProvisioning, At, records, Shape, TypeOK, Caller
<1>2. /\ CallShape("manage", r) /\ RecordOf("manage", r) /\ Subject("manage") \in Person
      /\ m \in Metadata /\ r.pc \in CopyControl \ Saving
  BY <1>1, Running, CopyMovesOn
<1>3. /\ End("manage") => Ends("manage")
      /\ GoTo("manage", "schedule") => Goes("manage", "schedule")
      /\ GoTo("manage", "ownership") => Goes("manage", "ownership")
      /\ GoTo("manage", "clear_again") => Goes("manage", "clear_again")
  BY <1>1, EndEnds, GoToGoes DEF CallControl
<1>4. /\ Save("manage", m, "pending", "schedule")
           => Saves("manage", m, "pending", "schedule")
      /\ Save("manage", m, "pending", "verify") => Saves("manage", m, "pending", "verify")
      /\ Save("manage", m, "synchronizing", "clear")
           => Saves("manage", m, "synchronizing", "clear")
      /\ Save("manage", m, "manual_attention_required", "end")
           => Saves("manage", m, "manual_attention_required", "end")
      /\ Save("manage", m, "synchronized", "end")
           => Saves("manage", m, "synchronized", "end")
  BY <1>1, <1>2, SaveSaves DEF Status, After
<1> USE DEF At, RecordOf, Raises, Lowered, Adds, Placed, Copied, CopyControl, Saving,
    AddingControl, Preparing, Undoing
<1>5. CASE Ends("manage")
  BY <1>1, <1>5, MoveOrder DEF Ends
<1>6. ASSUME Only("manage"), RecordOf("manage", call'["manage"]),
             call'["manage"].pc \in CopyControl,
             call'["manage"].person = r.person, call'["manage"].meta = m,
             call'["manage"].pc \in Saving => call'["manage"].after # "unprogram"
      PROVE  Order'
  BY <1>1, <1>2, <1>6, MoveOrder
<1>7. CASE RemoveAccess
  <2>1. \/ m.status = "pending" /\ Goes("manage", "schedule")
        \/ Ends("manage")
        \/ m.status \notin Upright /\ Saves("manage", m, "pending", "schedule")
        \/ Saves("manage", m, "synchronizing", "clear")
    BY <1>3, <1>4, <1>7 DEF RemoveAccess, Upright
  <2>2. ASSUME ~Ends("manage") PROVE RecordOf("manage", call'["manage"])
    BY <1>2, <1>7, <2>1, <2>2 DEF RemoveAccess, Goes, Saves, Upright
  <2> QED
    BY <1>5, <1>6, <2>1, <2>2 DEF Goes, Saves
<1>8. CASE ClearSlot
  <2>1. \/ Saves("manage", m, "pending", "schedule")
        \/ Saves("manage", m, "manual_attention_required", "end")
    BY <1>4, <1>8 DEF ClearSlot
  <2>2. RecordOf("manage", call'["manage"])
    BY <1>2, <1>8, <2>1 DEF ClearSlot, Saves
  <2> QED
    BY <1>6, <2>1, <2>2 DEF Saves
<1>9. CASE CheckRemoved
  <2>1. \/ Saves("manage", m, "pending", "verify")
        \/ Goes("manage", "ownership")
    BY <1>3, <1>4, <1>9 DEF CheckRemoved
  <2>2. RecordOf("manage", call'["manage"])
    BY <1>2, <1>9, <2>1 DEF CheckRemoved, Goes, Saves
  <2> QED
    BY <1>6, <2>1, <2>2 DEF Goes, Saves
<1>10. CASE CheckOwnership
  <2>1. \/ Saves("manage", m, "pending", "verify")
        \/ Saves("manage", m, "manual_attention_required", "end")
        \/ Goes("manage", "clear_again")
    BY <1>3, <1>4, <1>10 DEF CheckOwnership
  <2>2. RecordOf("manage", call'["manage"])
    BY <1>2, <1>10, <2>1 DEF CheckOwnership, Goes, Saves
  <2> QED
    BY <1>6, <2>1, <2>2 DEF Goes, Saves
<1>11. CASE ClearAgain
  <2>1. \/ Saves("manage", m, "pending", "verify")
        \/ Saves("manage", m, "manual_attention_required", "end")
    BY <1>4, <1>11 DEF ClearAgain
  <2>2. RecordOf("manage", call'["manage"])
    BY <1>2, <1>11, <2>1 DEF ClearAgain, Saves
  <2> QED
    BY <1>6, <2>1, <2>2 DEF Saves
<1>12. CASE ConfirmProvisioning
  <2>1. \/ Saves("manage", m, "synchronized", "end")
        \/ Saves("manage", m, "manual_attention_required", "end")
        \/ Ends("manage")
    BY <1>3, <1>4, <1>12 DEF ConfirmProvisioning
  <2>2. ASSUME ~Ends("manage") PROVE RecordOf("manage", call'["manage"])
    BY <1>2, <1>12, <2>1, <2>2 DEF ConfirmProvisioning, Saves
  <2> QED
    BY <1>5, <1>6, <2>1, <2>2 DEF Saves
<1> QED
  BY <1>7, <1>8, <1>9, <1>10, <1>11, <1>12

\* Starting a verifier keeps the order.
LEMMA OrderJobStart ==
  ASSUME Shape, Order, ScheduleVerification \/ VerifyInline
  PROVE  Order'
<1> DEFINE r == call["manage"]
           m == call["manage"].meta
           p == call["manage"].person
<1>1. /\ "manage" \in Caller /\ ~At("manage", "idle") /\ meta' = meta
      /\ call \in [Caller -> Calls]
  BY DEF ScheduleVerification, VerifyInline, At, records, Shape, TypeOK, Caller
<1>2. /\ RecordOf("manage", r) /\ p \in Person /\ m \in Metadata
      /\ \A d \in Caller \ {"manage"} : At(d, "idle")
  BY <1>1, Running, CopyMovesOn DEF Subject
<1>3. Only("manage") /\ (call'["manage"].pc = "idle" \/ Goes("manage", "verifying"))
  BY <1>1, EndEnds, GoToGoes DEF CallControl, ScheduleVerification, VerifyInline, Ends, Goes
<1>4. \A d \in Caller \ {"manage"} : call'[d].pc = "idle" /\ call[d].pc = "idle"
  BY <1>2, <1>3 DEF Only, At
<1>5. Alone'
  BY <1>4 DEF Alone, At
<1>6. ~Standing(p) /\ Copied(r)
  BY <1>2 DEF ScheduleVerification, VerifyInline, At, RecordOf, Lowered, Copied, CopyControl,
     Placed, AddingControl, Preparing, Undoing, Saving
<1>7. CallsOrdered'
  <2>1. ASSUME Goes("manage", "verifying") PROVE RecordOf("manage", call["manage"])'
    BY <1>1, <1>2, <1>6, <2>1 DEF Goes, RecordOf, Raises, Adds, Lowered, Copied, Placed, Standing,
       CopyControl, AddingControl, Preparing, Undoing, Saving
  <2> QED
    BY <1>3, <1>4, <2>1 DEF CallsOrdered, At
<1>8. \A v \in Verifier : job'[v] # None =>
        \/ job[v] # None /\ job'[v] = job[v]
        \/ job'[v].person = p /\ job'[v].meta = m
  BY <1>2, JobStarts DEF ScheduleVerification, VerifyInline, Verifier, Shape, TypeOK, Subject
<1>9. /\ meta[p] # None => meta[p].slot = m.slot
      /\ \A v \in Verifier : job[v] # None /\ job[v].person = p => job[v].meta.slot = m.slot
  BY <1>1, <1>2, <1>6 DEF RecordOf, Order, JobsOrdered, JobOf, Subject
<1>10. ASSUME NEW d \in Caller, Copied(call'[d])
       PROVE  call'[d].person = p /\ call'[d].meta = m
  BY <1>3, <1>4, <1>10 DEF Goes, Copied, CopyControl, Saving
<1>11. JobsOrdered'
  <2> SUFFICES ASSUME NEW v \in Verifier, job'[v] # None
               PROVE  JobOf(job[v])'
    BY DEF JobsOrdered
  <2>1. /\ ~Standing(job'[v].person)
        /\ meta[job'[v].person] # None => meta[job'[v].person].slot = job'[v].meta.slot
    BY <1>6, <1>8, <1>9 DEF Order, JobsOrdered, JobOf
  <2>2. ASSUME NEW u \in Verifier, job'[u] # None, job'[u].person = job'[v].person
        PROVE  job'[u].meta.slot = job'[v].meta.slot
    BY <1>8, <1>9, <2>2 DEF Order, JobsOrdered, JobOf
  <2>3. ASSUME NEW d \in Caller, Copied(call'[d]), call'[d].person = job'[v].person
        PROVE  call'[d].meta.slot = job'[v].meta.slot
    BY <1>8, <1>9, <1>10, <2>3
  <2> QED
    BY <1>1, <2>1, <2>2, <2>3 DEF JobOf, Standing, Copied, Placed, Subject
<1> QED
  BY <1>5, <1>7, <1>11 DEF Order

\* A call that begins undisturbed finds the others at rest, and no verifier of the
\* person to whom it adds access.
LEMMA BeginsAlone ==
  ASSUME Shape, NEW c \in Caller, NEW p \in Person, NEW pc, NEW m, Begin(c, p, pc, m),
         ~disturbed'
  PROVE  /\ ~disturbed /\ At(c, "idle") /\ \A d \in Caller \ {c} : At(d, "idle")
         /\ pc = "choose" => NoJob(p)
<1>1. ~disturbed /\ ~Disturbance(c, p, pc)
  BY Zenon DEF Begin
<1> QED
  BY <1>1 DEF Begin, Disturbance, NoJob

\* Beginning a call keeps the order, if it is not disturbed.
LEMMA OrderBegin ==
  ASSUME Shape, Order, NEW p \in Person, ~disturbed',
         \/ \E c \in Caller : BeginAdding(c, p)
         \/ BeginRemoval(p) \/ BeginRetry(p)
  PROVE  Order'
<1> USE DEF RecordOf, Raises, Lowered, Adds, Placed, Copied, CopyControl, Saving,
    AddingControl, Preparing, Undoing
<1>1. meta' = meta /\ job' = job
  BY DEF BeginAdding, BeginRemoval, BeginRetry, records
<1>2. ASSUME NEW c \in Caller, BeginAdding(c, p) PROVE Order'
  <2>1. Only(c) /\ call'[c].pc = "choose" /\ call'[c].person = p
    BY <1>2, Begins DEF BeginAdding, CallControl, Shape
  <2>2. NoJob(p) /\ \A d \in Caller \ {c} : At(d, "idle")
    BY <1>2, BeginsAlone DEF BeginAdding
  <2>3. RecordOf(c, call'[c])
    BY <1>2, <2>1, <2>2 DEF BeginAdding
  <2>4. ~Copied(call'[c])
    BY <2>1
  <2> QED
    BY <1>1, <2>1, <2>2, <2>3, <2>4, OneOrder
<1>3. ASSUME NEW pc \in {"removing", "check", "confirm"}, meta[p] # None,
             Begin("manage", p, pc, meta[p]),
             pc = "check" => meta[p].status = "retry_required",
             pc = "confirm" => meta[p].status = "unknown"
      PROVE  Order'
  <2>1. meta[p] \in Metadata /\ "manage" \in Caller
    BY <1>3 DEF Shape, TypeOK, Caller
  <2>2. /\ Only("manage") /\ call'["manage"].pc = pc /\ call'["manage"].person = p
        /\ call'["manage"].meta = meta[p]
    BY <1>3, <2>1, Begins DEF CallControl, Shape
  <2>3. \A d \in Caller \ {"manage"} : At(d, "idle")
    BY <1>3, <2>1, BeginsAlone
  <2>4. \A v \in Verifier : job[v] # None /\ job[v].person = p =>
          ~Standing(p) /\ meta[p].slot = job[v].meta.slot
    BY <1>3 DEF Order, JobsOrdered, JobOf
  <2>5. pc = "confirm" => NoJob(p)
    BY <1>3, <2>4 DEF NoJob, Standing, Upright
  <2>6. RecordOf("manage", call'["manage"])
    BY <1>3, <2>2, <2>5 DEF Standing, Upright
  <2> QED
    BY <1>1, <2>1, <2>2, <2>3, <2>4, <2>6, OneOrder
<1>4. CASE BeginRemoval(p)
  BY <1>3, <1>4 DEF BeginRemoval
<1>5. CASE BeginRetry(p)
  BY <1>3, <1>5 DEF BeginRetry
<1> QED
  BY <1>2, <1>4, <1>5

\* A verifier that moves, and may write the metadata of its person, keeps the order.
LEMMA JobOrder ==
  ASSUME Shape, Order, NEW v \in Verifier, job[v] # None, OnlyJob(v), call' = call,
         job'[v] # None => job'[v].person = job[v].person /\ job'[v].meta = job[v].meta,
         NEW x, x = None \/ (x.slot = job[v].meta.slot /\ x.status \notin Upright),
         meta' = meta \/ meta' = [meta EXCEPT ![job[v].person] = x]
  PROVE  Order'
<1>1. job[v].person \in Person /\ meta \in [Person -> Metadata \cup {None}]
  BY DEF Shape, TypeOK, Jobs
<1>2. Alone'
  BY DEF Order, Alone, At
<1>3. \A p \in Person : Standing(p)' => meta'[p] = meta[p]
  BY <1>1 DEF Standing
<1>4. \A u \in Verifier : job'[u] # None =>
        /\ job[u] # None /\ job'[u].person = job[u].person /\ job'[u].meta = job[u].meta
  BY DEF OnlyJob
<1>5. \A p \in Person : meta'[p] # meta[p] => p = job[v].person /\ meta'[p] = x
  BY <1>1
<1>6. CallsOrdered'
  <2> SUFFICES ASSUME NEW c \in Caller, call[c].pc # "idle"
               PROVE  RecordOf(c, call[c])'
    BY DEF CallsOrdered, At
  <2> DEFINE p == call[c].person
  <2>1. RecordOf(c, call[c]) /\ p \in Person
    BY DEF Order, CallsOrdered, At, Shape, CallShapes, CallShape
  <2>2. Raises(call[c]) => NoJob(p)'
    BY <1>4, <2>1 DEF RecordOf, NoJob
  <2>3. Raises(call[c]) => meta'[p] = meta[p]
    BY <1>5, <2>1 DEF RecordOf, NoJob
  <2>4. Lowered(call[c]) => ~Standing(p)'
    BY <1>3, <2>1 DEF RecordOf, Standing
  <2>5. Placed(call[c]) \/ call[c].pc \in Preparing \/ call[c].pc = "confirm" => Raises(call[c])
    BY DEF Raises, Adds, Placed, Preparing, AddingControl
  <2>6. call[c].pc \in {"rollback", "complete"} => Placed(call[c])
    BY DEF Placed, AddingControl, Preparing
  <2>7. Copied(call[c]) /\ meta'[p] # None => meta'[p].slot = call[c].meta.slot
    <3>1. CASE meta'[p] = meta[p]
      BY <2>1, <3>1 DEF RecordOf
    <3>2. CASE meta'[p] # meta[p]
      <4>1. p = job[v].person /\ meta'[p] = x
        BY <1>5, <2>1, <3>2
      <4>2. Copied(call[c]) => call[c].meta.slot = job[v].meta.slot
        BY <4>1 DEF Order, JobsOrdered, JobOf, Subject
      <4> QED
        BY <4>1, <4>2
    <3> QED
      BY <3>1, <3>2
  <2>8. /\ Raises(call[c]) => meta'[p] = meta[p]
        /\ call[c].pc \in Preparing => meta'[p] = None
        /\ c = "give" /\ call[c].pc = "rollback" => meta'[p] = None
        /\ call[c].pc = "complete" => meta'[p] = [slot |-> call[c].slot, status |-> call[c].status]
        /\ call[c].pc = "confirm" => meta'[p] = call[c].meta /\ call[c].meta.status = "unknown"
        /\ Placed(call[c]) /\ meta'[p] # None => meta'[p].slot = call[c].slot
        /\ Placed(call[c]) /\ call[c].pc \in Saving => call[c].meta.slot = call[c].slot
    BY <2>1, <2>3, <2>5, <2>6 DEF RecordOf
  <2> QED
    BY <2>2, <2>4, <2>7, <2>8
    DEF RecordOf, Raises, Lowered, Adds, Placed, Copied, NoJob, Standing
<1>7. JobsOrdered'
  <2> SUFFICES ASSUME NEW u \in Verifier, job'[u] # None
               PROVE  JobOf(job[u])'
    BY DEF JobsOrdered
  <2>1. /\ job[u] # None /\ JobOf(job[u]) /\ job[u].person \in Person
        /\ job'[u].person = job[u].person /\ job'[u].meta = job[u].meta
    BY <1>4 DEF Order, JobsOrdered, Shape, TypeOK, Jobs
  <2>2. ~Standing(job[u].person)'
    BY <1>3, <2>1 DEF JobOf, Standing
  <2>3. job[v].person = job[u].person => job[v].meta.slot = job[u].meta.slot
    BY <2>1 DEF JobOf
  <2>4. meta'[job[u].person] # None => meta'[job[u].person].slot = job[u].meta.slot
    BY <1>5, <2>1, <2>3 DEF JobOf
  <2>5. \A w \in Verifier : job'[w] # None /\ job'[w].person = job'[u].person
          => job'[w].meta.slot = job'[u].meta.slot
    BY <1>4, <2>1 DEF JobOf
  <2> QED
    BY <2>1, <2>2, <2>4, <2>5 DEF JobOf, Standing, Copied, Placed, Subject
<1> QED
  BY <1>2, <1>6, <1>7 DEF Order

\* A verifier that ends, and the call that waited for it, keep the order.
LEMMA OrderEndVerification ==
  ASSUME Shape, Order, NEW v \in Verifier, EndVerification(v)
  PROVE  Order'
<1>1. /\ meta' = meta /\ job[v] # None
      /\ job' = [job EXCEPT ![v] = None] /\ job \in [Verifier -> Jobs \cup {None}]
      /\ call \in [Caller -> Calls] /\ "manage" \in Caller
  BY DEF EndVerification, Verifying, records, Shape, TypeOK, Caller
<1>2. \A d \in Caller : call'[d].pc = "idle" \/ call'[d] = call[d]
  BY <1>1, EndEnds DEF EndVerification, Ends, Only
<1>3. \A u \in Verifier : job'[u] # None => job[u] # None /\ job'[u] = job[u]
  BY <1>1
<1>4. Alone'
  BY <1>2 DEF Order, Alone, At
<1>5. CallsOrdered'
  <2> SUFFICES ASSUME NEW c \in Caller, call'[c].pc # "idle"
               PROVE  RecordOf(c, call[c])'
    BY DEF CallsOrdered, At
  <2>1. call'[c] = call[c] /\ RecordOf(c, call[c])
    BY <1>2 DEF Order, CallsOrdered, At
  <2> QED
    BY <1>1, <1>3, <2>1
    DEF RecordOf, Raises, Lowered, Adds, Placed, Copied, NoJob, Standing
<1>6. JobsOrdered'
  <2> SUFFICES ASSUME NEW u \in Verifier, job'[u] # None
               PROVE  JobOf(job[u])'
    BY DEF JobsOrdered
  <2>1. job'[u] = job[u] /\ JobOf(job[u])
    BY <1>3 DEF Order, JobsOrdered
  <2>2. \A d \in Caller : Copied(call'[d]) => Copied(call[d]) /\ call'[d] = call[d]
    BY <1>2 DEF Copied, CopyControl, Saving
  <2> QED
    BY <1>1, <1>3, <2>1, <2>2 DEF JobOf, Standing, Copied, Placed, Subject
<1> QED
  BY <1>4, <1>5, <1>6 DEF Order

\* Verifying keeps the order.
LEMMA OrderVerifierStep ==
  ASSUME Shape, Order, NEW v \in Verifier, VerifierStep(v)
  PROVE  Order'
<1>1. job[v] # None /\ JobShape(job[v])
  BY DEF VerifierStep, ReadRemoved, DropGrant, DropMetadata, CheckDropped, MarkMetadata,
     MarkGrant, EndVerification, Verifying, Shape, JobShapes
<1>2. ASSUME NEW pc, NEW status, JobMoves(v, pc, status), call' = call,
             \/ meta' = meta \/ meta' = [meta EXCEPT ![job[v].person] = None]
             \/ \E x \in Metadata :
                  /\ x.slot = job[v].meta.slot /\ x.status \notin Upright
                  /\ meta' = [meta EXCEPT ![job[v].person] = x]
      PROVE  Order'
  <2>1. PICK x : /\ x = None \/ (x.slot = job[v].meta.slot /\ x.status \notin Upright)
                 /\ meta' = meta \/ meta' = [meta EXCEPT ![job[v].person] = x]
    BY <1>2
  <2> QED
    BY <1>1, <1>2, <2>1, JobOrder DEF JobMoves
<1>3. CASE ReadRemoved(v)
  BY <1>1, <1>2, <1>3, JobMovesOn DEF ReadRemoved, Attention, records, Shape
<1>4. CASE DropGrant(v)
  BY <1>1, <1>2, <1>4, JobMovesOn DEF DropGrant, Shape
<1>5. CASE DropMetadata(v)
  <2>1. meta' = meta \/ meta' = [meta EXCEPT ![job[v].person] = None]
    BY <1>5 DEF DropMetadata
  <2> QED
    BY <1>1, <1>2, <1>5, <2>1, JobMovesOn DEF DropMetadata, Shape
<1>6. CASE CheckDropped(v)
  BY <1>1, <1>2, <1>6, JobMovesOn DEF CheckDropped, records, Shape
<1>7. CASE MarkMetadata(v)
  <2> PICK m \in Metadata : m = job[v].meta
    BY <1>1, <1>7 DEF JobShape
  <2> PICK s \in Attention : s = job[v].status
    BY <1>1, <1>7 DEF JobShape, MarkMetadata, Verifying
  <2> PICK x : x = [m EXCEPT !.status = s]
    OBVIOUS
  <2>1. s \in Status /\ s \notin Upright
    BY DEF Attention, Status, Upright
  <2>2. x \in Metadata /\ x.slot = m.slot /\ x.status \notin Upright
    BY <2>1, StatusChanges
  <2>3. meta' = meta \/ meta' = [meta EXCEPT ![job[v].person] = x]
    BY <1>7 DEF MarkMetadata
  <2>4. call' = call
    BY <1>7 DEF MarkMetadata
  <2> QED
    BY <1>2, <1>7, <2>2, <2>3, <2>4, MarkMetadataMoves DEF Shape
<1>8. CASE MarkGrant(v)
  BY <1>1, <1>2, <1>8, JobMovesOn DEF MarkGrant, Shape
<1>9. CASE EndVerification(v)
  BY <1>9, OrderEndVerification
<1> QED
  BY <1>3, <1>4, <1>5, <1>6, <1>7, <1>8, <1>9 DEF VerifierStep

\* With calls, verifiers and metadata left alone the order is kept.
LEMMA SameOrder ==
  ASSUME Order, meta' = meta, call' = call, job' = job
  PROVE  Order'
  BY DEF Order, Alone, CallsOrdered, JobsOrdered, JobOf, RecordOf, Raises, Lowered, Adds,
     Placed, Copied, NoJob, Standing, Subject, At

\* After a restart the order holds.
LEMMA OrderRestart ==
  ASSUME Shape, Restart
  PROVE  Order'
<1>1. /\ \A p \in Person :
           /\ meta'[p] = Marked(p)
           /\ meta[p] # None => meta'[p].slot = meta[p].slot
      /\ \A c \in Caller : call'[c].pc = "idle"
      /\ \A v \in Verifier : job'[v] # None =>
           /\ v \in Person /\ meta[v] # None /\ meta[v].status = "pending"
           /\ job'[v].person = v /\ job'[v].meta = meta[v]
  BY Restarts
<1>2. Alone' /\ CallsOrdered'
  BY <1>1 DEF Alone, CallsOrdered, At
<1>3. JobsOrdered'
  <2> SUFFICES ASSUME NEW v \in Verifier, job'[v] # None
               PROVE  JobOf(job[v])'
    BY DEF JobsOrdered
  <2>1. /\ v \in Person /\ meta[v] # None /\ meta[v].status = "pending"
        /\ job'[v].person = v /\ job'[v].meta = meta[v] /\ meta'[v] = meta[v]
    BY <1>1 DEF Marked
  <2>2. \A u \in Verifier : job'[u] # None /\ job'[u].person = v => u = v
    BY <1>1
  <2>3. \A c \in Caller : ~Copied(call'[c])
    BY <1>1 DEF Copied, CopyControl, Saving
  <2> QED
    BY <2>1, <2>2, <2>3 DEF JobOf, Standing, Upright, Copied, Placed
<1> QED
  BY <1>2, <1>3 DEF Order

\* The order at the start.
LEMMA OrderInit == Init => Order
<1> SUFFICES ASSUME Init PROVE Order
  OBVIOUS
<1>1. \A c \in Caller : call[c].pc = "idle"
  BY Idle DEF Init
<1> QED
  BY <1>1 DEF Init, Order, Alone, CallsOrdered, JobsOrdered, At

\* A step that is not disturbed was not disturbed before.
LEMMA Undisturbed == Next /\ ~disturbed' => ~disturbed
<1> SUFFICES ASSUME Next, disturbed PROVE disturbed'
  OBVIOUS
<1>1. ASSUME NEW c \in Caller, NEW p \in Person, BeginAdding(c, p) PROVE disturbed'
  BY <1>1, Zenon DEF BeginAdding, Begin
<1>2. ASSUME NEW p \in Person, BeginRemoval(p) \/ BeginRetry(p) PROVE disturbed'
  BY <1>2, Zenon DEF BeginRemoval, BeginRetry, Begin
<1>3. ASSUME NEW c \in Caller, Compensate(c) PROVE disturbed'
  BY <1>3, Zenon DEF Compensate
<1>4. ASSUME Deliver PROVE disturbed'
  BY <1>4, Zenon DEF Deliver
<1>5. CASE RemovingStep \/ RetryStep
  BY <1>5 DEF RemovingStep, RetryStep, RemoveAccess, ClearSlot, ScheduleVerification,
     CheckRemoved, CheckOwnership, ClearAgain, VerifyInline, ConfirmProvisioning, history
<1>6. ASSUME NEW c \in Caller,
             \/ ChooseSlot(c) \/ ProgramSlot(c) \/ ReadBack(c) \/ RecordMetadata(c)
             \/ CompleteRecord(c) \/ RollBack(c) \/ Unprogram(c) \/ ReadEmptied(c)
             \/ ForgetAccess(c) \/ SaveMetadata(c) \/ SaveGrant(c)
      PROVE  disturbed'
  BY <1>6 DEF ChooseSlot, ProgramSlot, ReadBack, RecordMetadata, CompleteRecord, RollBack,
     Unprogram, ReadEmptied, ForgetAccess, SaveMetadata, SaveGrant, history
<1>7. ASSUME NEW v \in Verifier, VerifierStep(v) PROVE disturbed'
  BY <1>7 DEF VerifierStep, ReadRemoved, DropGrant, DropMetadata, CheckDropped, MarkMetadata,
     MarkGrant, EndVerification, history
<1>8. CASE Restart
  BY <1>8 DEF Restart, history
<1> QED
  BY <1>1, <1>2, <1>3, <1>4, <1>5, <1>6, <1>7, <1>8 DEF Next, AddingStep

\* Every step that is not disturbed keeps the order.
LEMMA OrderNext == Shape /\ Order /\ [Next]_vars /\ ~disturbed' => Order'
<1> SUFFICES ASSUME Shape, Order, [Next]_vars, ~disturbed' PROVE Order'
  OBVIOUS
<1>1. ASSUME NEW c \in Caller, AddingStep(c) PROVE Order'
  BY <1>1, OrderAddingMove, OrderAddingWrite DEF AddingStep
<1>2. ASSUME NEW c \in Caller, SaveMetadata(c) \/ SaveGrant(c) PROVE Order'
  BY <1>2, OrderSaving
<1>3. ASSUME NEW p \in Person,
             \/ \E c \in Caller : BeginAdding(c, p)
             \/ BeginRemoval(p) \/ BeginRetry(p)
      PROVE  Order'
  BY <1>3, OrderBegin
<1>4. CASE RemovingStep \/ RetryStep
  BY <1>4, OrderCopyMove, OrderJobStart DEF RemovingStep, RetryStep
<1>5. ASSUME NEW v \in Verifier, VerifierStep(v) PROVE Order'
  BY <1>5, OrderVerifierStep
<1>6. CASE Deliver \/ UNCHANGED vars
  BY <1>6, SameOrder DEF Deliver, vars, records
<1>7. CASE Restart
  BY <1>7, OrderRestart
<1> QED
  BY <1>1, <1>2, <1>3, <1>4, <1>5, <1>6, <1>7 DEF Next

-----------------------------------------------------------------------------
(* The moves of a call, one for each action                                 *)

BeginMove(c) ==
  \E p \in Person :
    /\ Only(c) /\ call'[c].person = p
    /\ \/ BeginAdding(c, p) /\ call'[c].pc = "choose"
       \/ /\ BeginRemoval(p) \/ BeginRetry(p)
          /\ c = "manage" /\ meta[p] # None /\ call'[c].meta = meta[p]
          /\ \/ call'[c].pc = "removing"
             \/ call'[c].pc = "check" /\ meta[p].status = "retry_required"
             \/ call'[c].pc = "confirm" /\ meta[p].status = "unknown"

AddMove(c) ==
  \/ /\ ChooseSlot(c) /\ Only(c)
     /\ call'[c].pc = "program" /\ call'[c].person = call[c].person
     /\ call'[c].slot \in Slot /\ holds[call'[c].slot] = None
  \/ ProgramSlot(c) /\ Goes(c, "readback") /\ Send(call[c].slot, Subject(c))
  \/ /\ ReadBack(c) /\ Only(c)
     /\ call'[c].pc = "record" /\ call'[c].person = call[c].person
     /\ call'[c].slot = call[c].slot /\ call'[c].status \in Upright
     /\ call'[c].status = "synchronized" => holds[call[c].slot] = call[c].person
  \/ RecordMetadata(c) /\ (Goes(c, "complete") \/ Goes(c, "rollback"))
  \/ CompleteRecord(c) /\ (Goes(c, "compensate") \/ Goes(c, "rollback"))
  \/ Compensate(c) /\ Goes(c, "rollback")
  \/ /\ RollBack(c)
     /\ \/ Goes(c, "unprogram")
        \/ /\ meta[Subject(c)] # None
           /\ Saves(c, meta[Subject(c)], "manual_attention_required", "unprogram")
  \/ Unprogram(c) /\ Goes(c, "emptied")
  \/ ReadEmptied(c) /\ Goes(c, "forget") /\ holds[call[c].slot] = None

SaveMove(c) ==
  \/ SaveMetadata(c) /\ Goes(c, "save_grant")
  \/ (SaveMetadata(c) \/ SaveGrant(c)) /\ call[c].after = "schedule" /\ Goes(c, "schedule")
  \/ /\ SaveGrant(c) /\ Only(c)
     /\ call[c].after # "end" /\ call'[c].pc = call[c].after
     /\ call'[c].person = call[c].person /\ call'[c].slot = call[c].slot
     /\ call'[c].meta.slot = call[c].meta.slot /\ call'[c].meta.status = call[c].status

CopyMove(c) ==
  LET m == call[c].meta
  IN /\ c = "manage"
     /\ \/ /\ RemoveAccess
           /\ \/ m.status \notin Upright /\ Goes(c, "schedule")
              \/ m.status \notin Upright /\ Saves(c, m, "pending", "schedule")
              \/ m.status \in Upright /\ Saves(c, m, "synchronizing", "clear")
        \/ /\ ClearSlot
           /\ \/ Saves(c, m, "pending", "schedule")
              \/ Saves(c, m, "manual_attention_required", "end")
        \/ CheckRemoved /\ (Saves(c, m, "pending", "verify") \/ Goes(c, "ownership"))
        \/ /\ CheckOwnership
           /\ \/ Goes(c, "clear_again") \/ Saves(c, m, "pending", "verify")
              \/ Saves(c, m, "manual_attention_required", "end")
        \/ /\ ClearAgain
           /\ \/ Saves(c, m, "pending", "verify")
              \/ Saves(c, m, "manual_attention_required", "end")
        \/ VerifyInline /\ Goes(c, "verifying")
        \/ /\ ConfirmProvisioning
           /\ \/ holds[m.slot] = call[c].person /\ Saves(c, m, "synchronized", "end")
              \/ Saves(c, m, "manual_attention_required", "end")

\* A step leaves a call alone, ends it, begins it or moves it.
LEMMA CallSteps ==
  ASSUME Shape, [Next]_vars, NEW c \in Caller
  PROVE  \/ call'[c] = call[c] \/ call'[c].pc = "idle"
         \/ BeginMove(c) \/ AddMove(c) \/ SaveMove(c) \/ CopyMove(c)
<1> DEFINE Goal == \/ call'[c] = call[c] \/ call'[c].pc = "idle"
                   \/ BeginMove(c) \/ AddMove(c) \/ SaveMove(c) \/ CopyMove(c)
<1> SUFFICES Goal
  OBVIOUS
<1> USE DEF Shape
<1>1. call \in [Caller -> Calls] /\ "manage" \in Caller
  BY DEF TypeOK, Caller
<1>2. ASSUME NEW d \in Caller, Only(d), d # c PROVE Goal
  BY <1>2 DEF Only
<1>3. ASSUME NEW d \in Caller, Ends(d) PROVE Goal
  BY <1>2, <1>3 DEF Ends
<1>4. ASSUME NEW d \in Caller, NEW p \in Person, BeginAdding(d, p) PROVE Goal
  <2>1. Only(d) /\ call'[d].pc = "choose" /\ call'[d].person = p
    BY <1>4, Begins DEF BeginAdding, CallControl
  <2>2. BeginMove(d)
    BY <1>4, <2>1 DEF BeginMove
  <2> QED
    BY <1>2, <2>1, <2>2
<1>5. ASSUME NEW p \in Person, BeginRemoval(p) \/ BeginRetry(p) PROVE Goal
  <2>1. meta[p] # None /\ meta[p] \in Metadata
    BY <1>5 DEF BeginRemoval, BeginRetry, TypeOK
  <2>2. ASSUME NEW pc \in {"removing", "check", "confirm"}, Begin("manage", p, pc, meta[p])
        PROVE  /\ Only("manage") /\ call'["manage"].pc = pc /\ call'["manage"].person = p
               /\ call'["manage"].meta = meta[p]
    BY <1>1, <2>1, <2>2, Begins DEF CallControl
  <2>3. BeginMove("manage")
    BY <1>5, <2>1, <2>2 DEF BeginMove, BeginRemoval, BeginRetry
  <2>4. Only("manage")
    BY <2>3 DEF BeginMove
  <2> QED
    BY <1>1, <1>2, <2>3, <2>4
<1>6. ASSUME NEW d \in Caller, AddMove(d) PROVE Goal
  <2>1. Only(d)
    BY <1>6 DEF AddMove, Goes, Saves
  <2> QED
    BY <1>2, <1>6, <2>1
<1>7. ASSUME NEW d \in Caller, AddingStep(d) PROVE Goal
  <2>1. ~At(d, "idle") /\ Subject(d) \in Person
    BY <1>7 DEF AddingStep, ChooseSlot, ProgramSlot, ReadBack, RecordMetadata, CompleteRecord,
       Compensate, RollBack, Unprogram, ReadEmptied, ForgetAccess, At, CallShapes, CallShape,
       Subject
  <2>2. meta[Subject(d)] # None => meta[Subject(d)] \in Metadata
    BY <2>1 DEF TypeOK
  <2>3. /\ End(d) => Ends(d)
        /\ \A pc \in CallControl : GoTo(d, pc) => Goes(d, pc)
        /\ meta[Subject(d)] # None =>
             (Save(d, meta[Subject(d)], "manual_attention_required", "unprogram")
               => Saves(d, meta[Subject(d)], "manual_attention_required", "unprogram"))
    BY <1>1, <2>2, Moves DEF Status, After
  <2>4. ChooseSlot(d) => Goal
    BY <1>3, <1>6, ChooseSlotMoves DEF AddMove
  <2>5. ProgramSlot(d) => Goal
    BY <1>3, <1>6, <2>3 DEF ProgramSlot, AddMove, CallControl
  <2>6. ReadBack(d) => Goal
    BY <1>3, <1>6, ReadBackMoves DEF AddMove
  <2>7. RecordMetadata(d) => Goal
    BY <1>6, <2>3 DEF RecordMetadata, AddMove, CallControl
  <2>8. CompleteRecord(d) => Goal
    BY <1>3, <1>6, <2>3 DEF CompleteRecord, AddMove, CallControl
  <2>9. Compensate(d) => Goal
    BY <1>6, <2>3 DEF Compensate, AddMove, CallControl
  <2>10. RollBack(d) => Goal
    BY <1>6, <2>3 DEF RollBack, AddMove, CallControl
  <2>11. Unprogram(d) => Goal
    BY <1>3, <1>6, <2>3 DEF Unprogram, AddMove, CallControl
  <2>12. ReadEmptied(d) => Goal
    BY <1>3, <1>6, <2>3 DEF ReadEmptied, AddMove, CallControl
  <2>13. ForgetAccess(d) => Goal
    BY <1>3, <2>3 DEF ForgetAccess
  <2> QED
    BY <1>7, <2>4, <2>5, <2>6, <2>7, <2>8, <2>9, <2>10, <2>11, <2>12, <2>13 DEF AddingStep
<1>8. ASSUME NEW d \in Caller, SaveMetadata(d) \/ SaveGrant(d) PROVE Goal
  <2>1. call[d].meta \in Metadata /\ call[d].status \in Status
    BY <1>8 DEF SaveMetadata, SaveGrant, At, CallShapes, CallShape, CopyControl, Saving
  <2>2. Ends(d) \/ SaveMove(d)
    BY <1>8, <2>1, SaveMetadataMoves, SaveGrantMoves DEF SaveMove
  <2>3. SaveMove(d) => Only(d)
    BY DEF SaveMove, Goes
  <2> QED
    BY <1>2, <1>3, <2>2, <2>3
<1>9. CASE RemovingStep \/ RetryStep
  <2> DEFINE m == call["manage"].meta
  <2>1. m \in Metadata
    BY <1>9, CopyMovesOn DEF RemovingStep, RetryStep
  <2>2. /\ End("manage") => Ends("manage")
        /\ GoTo("manage", "schedule") => Goes("manage", "schedule")
        /\ GoTo("manage", "ownership") => Goes("manage", "ownership")
        /\ GoTo("manage", "clear_again") => Goes("manage", "clear_again")
        /\ GoTo("manage", "verifying") => Goes("manage", "verifying")
    BY <1>1, EndEnds, GoToGoes DEF CallControl
  <2>3. /\ Save("manage", m, "pending", "schedule")
             => Saves("manage", m, "pending", "schedule")
        /\ Save("manage", m, "pending", "verify") => Saves("manage", m, "pending", "verify")
        /\ Save("manage", m, "synchronizing", "clear")
             => Saves("manage", m, "synchronizing", "clear")
        /\ Save("manage", m, "manual_attention_required", "end")
             => Saves("manage", m, "manual_attention_required", "end")
        /\ Save("manage", m, "synchronized", "end")
             => Saves("manage", m, "synchronized", "end")
    BY <1>1, <2>1, SaveSaves DEF Status, After
  <2>4. m.status \in Status
    BY <2>1 DEF Metadata
  <2>5. RemoveAccess => Ends("manage") \/ CopyMove("manage")
    BY <2>2, <2>3, <2>4 DEF RemoveAccess, CopyMove, Upright, Status
  <2>6. ScheduleVerification => Ends("manage")
    BY <2>2 DEF ScheduleVerification
  <2>7. ClearSlot => CopyMove("manage")
    BY <2>3 DEF ClearSlot, CopyMove
  <2>8. CheckRemoved \/ CheckOwnership \/ ClearAgain \/ VerifyInline => CopyMove("manage")
    BY <2>2, <2>3 DEF CheckRemoved, CheckOwnership, ClearAgain, VerifyInline, CopyMove
  <2>9. ConfirmProvisioning => Ends("manage") \/ CopyMove("manage")
    BY <2>2, <2>3 DEF ConfirmProvisioning, CopyMove, Occupant, Subject
  <2>10. CopyMove("manage") => Only("manage")
    BY DEF CopyMove, Goes, Saves
  <2> QED
    BY <1>1, <1>2, <1>3, <1>9, <2>5, <2>6, <2>7, <2>8, <2>9, <2>10 DEF RemovingStep, RetryStep
<1>10. ASSUME NEW v \in Verifier, VerifierStep(v) PROVE Goal
  <2>1. call' = call \/ Ends("manage")
    BY <1>1, <1>10, EndEnds DEF VerifierStep, ReadRemoved, DropGrant, DropMetadata, CheckDropped,
       MarkMetadata, MarkGrant, EndVerification
  <2> QED
    BY <1>1, <1>3, <2>1
<1>11. CASE Deliver \/ UNCHANGED vars
  BY <1>11 DEF Deliver, vars
<1>12. CASE Restart
  BY <1>12, Restarts
<1> QED
  BY <1>4, <1>5, <1>7, <1>8, <1>9, <1>10, <1>11, <1>12 DEF Next

\* The metadata of a person changes when a call on the person records or saves it,
\* when it is dropped or marked, or at a restart.
LEMMA MetaSteps ==
  ASSUME Shape, [Next]_vars, NEW p \in Person
  PROVE  \/ meta'[p] = meta[p]
         \/ \E c \in Caller :
              /\ Subject(c) = p
              /\ \/ /\ RecordMetadata(c)
                    /\ meta'[p] = [slot |-> call[c].slot, status |-> call[c].status]
                 \/ /\ SaveMetadata(c) /\ meta'[p] # None
                    /\ meta'[p].slot = call[c].meta.slot /\ meta'[p].status = call[c].status
                 \/ (Compensate(c) \/ ForgetAccess(c)) /\ meta'[p] = None
         \/ \E v \in Verifier :
              /\ job[v] # None /\ job[v].person = p
              /\ \/ DropMetadata(v) /\ meta'[p] = None
                 \/ /\ MarkMetadata(v) /\ meta'[p] # None
                    /\ meta'[p].slot = job[v].meta.slot /\ meta'[p].status \in Attention
         \/ Restart
<1> DEFINE Goal ==
         \/ meta'[p] = meta[p]
         \/ \E c \in Caller :
              /\ Subject(c) = p
              /\ \/ /\ RecordMetadata(c)
                    /\ meta'[p] = [slot |-> call[c].slot, status |-> call[c].status]
                 \/ /\ SaveMetadata(c) /\ meta'[p] # None
                    /\ meta'[p].slot = call[c].meta.slot /\ meta'[p].status = call[c].status
                 \/ (Compensate(c) \/ ForgetAccess(c)) /\ meta'[p] = None
         \/ \E v \in Verifier :
              /\ job[v] # None /\ job[v].person = p
              /\ \/ DropMetadata(v) /\ meta'[p] = None
                 \/ /\ MarkMetadata(v) /\ meta'[p] # None
                    /\ meta'[p].slot = job[v].meta.slot /\ meta'[p].status \in Attention
         \/ Restart
<1> SUFFICES Goal
  OBVIOUS
<1>1. meta \in [Person -> Metadata \cup {None}] /\ "manage" \in Caller /\ Inline \in Verifier
  BY DEF Shape, TypeOK, Caller, Verifier
<1>2. ASSUME meta' = meta PROVE Goal
  BY <1>2
<1>3. ASSUME NEW q \in Person, NEW x, meta' = [meta EXCEPT ![q] = x]
      PROVE  meta'[p] = meta[p] \/ (q = p /\ meta'[p] = x)
  BY <1>1, <1>3
<1>4. ASSUME NEW c \in Caller, AddingStep(c) \/ SaveMetadata(c) \/ SaveGrant(c) PROVE Goal
  <2>1. Subject(c) \in Person
    BY <1>4 DEF AddingStep, ChooseSlot, ProgramSlot, ReadBack, RecordMetadata, CompleteRecord,
       Compensate, RollBack, Unprogram, ReadEmptied, ForgetAccess, SaveMetadata, SaveGrant, At,
       Shape, CallShapes, CallShape, Subject
  <2>2. CASE Compensate(c) \/ ForgetAccess(c)
    <3>1. meta' = meta \/ meta' = [meta EXCEPT ![Subject(c)] = None]
      BY <2>2 DEF Compensate, ForgetAccess, Forget
    <3> QED
      BY <1>3, <2>1, <2>2, <3>1
  <2>3. CASE RecordMetadata(c)
    <3> PICK x : x = [slot |-> call[c].slot, status |-> call[c].status]
      OBVIOUS
    <3>1. meta' = meta \/ meta' = [meta EXCEPT ![Subject(c)] = x]
      BY <1>1, <2>3, Writes DEF Written
    <3>2. meta'[p] = meta[p] \/ (Subject(c) = p /\ meta'[p] = x)
      BY <1>3, <2>1, <3>1
    <3> QED
      BY <2>3, <3>2
  <2>4. CASE SaveMetadata(c)
    <3> PICK m \in Metadata : m = call[c].meta
      BY <2>4 DEF SaveMetadata, At, Shape, CallShapes, CallShape, CopyControl, Saving
    <3> PICK s \in Status : s = call[c].status
      BY <2>4 DEF SaveMetadata, At, Shape, CallShapes, CallShape, Saving
    <3> PICK x : x = [m EXCEPT !.status = s]
      OBVIOUS
    <3>1. x.slot = m.slot /\ x.status = s /\ x # None
      BY StatusChanges
    <3>2. meta' = meta \/ meta' = [meta EXCEPT ![Subject(c)] = x]
      BY <1>1, <2>4, Writes DEF Written
    <3>3. meta'[p] = meta[p] \/ (Subject(c) = p /\ meta'[p] = x)
      BY <1>3, <2>1, <3>2
    <3> QED
      BY <2>4, <3>1, <3>3
  <2>5. CASE ChooseSlot(c) \/ ProgramSlot(c) \/ ReadBack(c) \/ CompleteRecord(c)
             \/ RollBack(c) \/ Unprogram(c) \/ ReadEmptied(c) \/ SaveGrant(c)
    BY <1>2, <2>5 DEF ChooseSlot, ProgramSlot, ReadBack, CompleteRecord, RollBack, Unprogram,
       ReadEmptied, SaveGrant, records
  <2> QED
    BY <1>4, <2>2, <2>3, <2>4, <2>5 DEF AddingStep
<1>5. ASSUME NEW v \in Verifier, VerifierStep(v) PROVE Goal
  <2>1. job[v] # None /\ job[v].person \in Person
    BY <1>5 DEF VerifierStep, ReadRemoved, DropGrant, DropMetadata, CheckDropped, MarkMetadata,
       MarkGrant, EndVerification, Verifying, Shape, TypeOK, Jobs
  <2>2. CASE DropMetadata(v)
    <3>1. meta' = meta \/ meta' = [meta EXCEPT ![job[v].person] = None]
      BY <2>2 DEF DropMetadata
    <3> QED
      BY <1>3, <2>1, <2>2, <3>1
  <2>3. CASE MarkMetadata(v)
    <3> PICK m \in Metadata : m = job[v].meta
      BY <2>3 DEF MarkMetadata, Verifying, Shape, JobShapes, JobShape
    <3> PICK s \in Attention : s = job[v].status
      BY <2>3 DEF MarkMetadata, Verifying, Shape, JobShapes, JobShape
    <3> PICK x : x = [m EXCEPT !.status = s]
      OBVIOUS
    <3>1. s \in Status
      BY DEF Attention, Status
    <3>2. x.slot = m.slot /\ x.status = s /\ x # None
      BY <3>1, StatusChanges
    <3>3. meta' = meta \/ meta' = [meta EXCEPT ![job[v].person] = x]
      BY <1>1, <2>3, Writes DEF Written
    <3>4. meta'[p] = meta[p] \/ (job[v].person = p /\ meta'[p] = x)
      BY <1>3, <2>1, <3>3
    <3> QED
      BY <2>1, <2>3, <3>2, <3>4
  <2>4. CASE ReadRemoved(v) \/ DropGrant(v) \/ CheckDropped(v) \/ MarkGrant(v)
             \/ EndVerification(v)
    BY <1>2, <2>4 DEF ReadRemoved, DropGrant, CheckDropped, MarkGrant, EndVerification, records
  <2> QED
    BY <1>5, <2>2, <2>3, <2>4 DEF VerifierStep
<1>6. CASE RemovingStep \/ RetryStep
  BY <1>2, <1>6 DEF RemovingStep, RetryStep, RemoveAccess, ClearSlot, ScheduleVerification,
     CheckRemoved, CheckOwnership, ClearAgain, VerifyInline, ConfirmProvisioning, records
<1>7. CASE \E q \in Person : BeginRemoval(q) \/ BeginRetry(q)
  BY <1>2, <1>7 DEF BeginRemoval, BeginRetry, records
<1>8. CASE \E c \in Caller, q \in Person : BeginAdding(c, q)
  BY <1>2, <1>8 DEF BeginAdding, records
<1>9. CASE Deliver \/ UNCHANGED vars
  BY <1>2, <1>9 DEF Deliver, vars, records
<1> QED
  BY <1>4, <1>5, <1>6, <1>7, <1>8, <1>9 DEF Next

\* Access that stands after a step stood before, or a call has just recorded or
\* confirmed it.
LEMMA Rises ==
  ASSUME Shape, [Next]_vars, NEW p \in Person, Standing(p)'
  PROVE  \/ meta'[p] = meta[p] /\ Standing(p)
         \/ \E c \in Caller :
              /\ Subject(c) = p
              /\ \/ /\ RecordMetadata(c)
                    /\ meta'[p] = [slot |-> call[c].slot, status |-> call[c].status]
                 \/ /\ SaveMetadata(c) /\ call[c].status = "synchronized"
                    /\ meta'[p].slot = call[c].meta.slot
                    /\ meta'[p].status = "synchronized"
<1>1. meta'[p] # None /\ meta'[p].status \in Upright
  BY DEF Standing
<1>2. CASE meta'[p] = meta[p]
  BY <1>1, <1>2 DEF Standing
<1>3. CASE Restart
  <2>1. meta'[p] = meta[p]
    BY <1>1, <1>3, Restarts
  <2> QED
    BY <1>2, <2>1
<1>4. ASSUME NEW c \in Caller, SaveMetadata(c), meta'[p].status = call[c].status
      PROVE  call[c].status = "synchronized"
  BY <1>1, <1>4 DEF SaveMetadata, At, Shape, CallShapes, CallShape, Saving, Upright
<1> QED
  BY <1>1, <1>2, <1>3, <1>4, MetaSteps DEF Attention, Upright

-----------------------------------------------------------------------------
(* How often a slot was cleared                                             *)

\* A call that is still before its first clear was so before, unless it begins.
LEMMA BeforeClearSteps ==
  ASSUME Shape, NEW c \in Caller, AddMove(c) \/ SaveMove(c) \/ CopyMove(c),
         BeforeClear(call'[c])
  PROVE  ~At(c, "idle") /\ BeforeClear(call[c]) /\ call'[c].person = call[c].person
<1> USE DEF BeforeClear, Raises, Adds, Placed, AddingControl, Preparing, Undoing, Saving, At
<1>1. CASE AddMove(c)
  BY <1>1 DEF AddMove, Goes, Saves, ChooseSlot, ProgramSlot, ReadBack, RecordMetadata,
     CompleteRecord, Compensate, RollBack, Unprogram, ReadEmptied
<1>2. CASE SaveMove(c)
  <2>1. CallShape(c, call[c]) /\ call[c].after \in After
    BY DEF Shape, TypeOK, CallShapes, Calls
  <2> QED
    BY <1>2, <2>1 DEF SaveMove, Goes, SaveMetadata, SaveGrant, CallShape, After
<1>3. CASE CopyMove(c)
  BY <1>3 DEF CopyMove, Goes, Saves, RemoveAccess, ClearSlot, CheckRemoved, CheckOwnership,
     ClearAgain, VerifyInline, ConfirmProvisioning
<1> QED
  BY <1>1, <1>2, <1>3

\* The count of clears changes when adding begins and when a removal clears.
LEMMA ClearedSteps ==
  ASSUME Shape, [Next]_vars
  PROVE  \/ cleared' = cleared
         \/ \E c \in Caller, p \in Person :
              BeginAdding(c, p) /\ cleared' = [cleared EXCEPT ![p] = 0]
         \/ /\ ClearSlot
            /\ cleared' = [cleared EXCEPT ![Subject("manage")] =
                             More(cleared[Subject("manage")])]
<1>1. CASE ClearSlot
  BY <1>1 DEF ClearSlot
<1>2. ASSUME NEW c \in Caller,
             \/ \E p \in Person : BeginAdding(c, p)
             \/ AddingStep(c) \/ SaveMetadata(c) \/ SaveGrant(c)
      PROVE  \/ cleared' = cleared
             \/ \E p \in Person : BeginAdding(c, p) /\ cleared' = [cleared EXCEPT ![p] = 0]
  BY <1>2 DEF AddingStep, BeginAdding, ChooseSlot, ProgramSlot, ReadBack, RecordMetadata,
     CompleteRecord, Compensate, RollBack, Unprogram, ReadEmptied, ForgetAccess, SaveMetadata,
     SaveGrant, history
<1>3. CASE RemoveAccess \/ ScheduleVerification \/ RetryStep
  BY <1>3 DEF RemoveAccess, ScheduleVerification, RetryStep, CheckRemoved, CheckOwnership,
     ClearAgain, VerifyInline, ConfirmProvisioning, history
<1>4. ASSUME NEW v \in Verifier, VerifierStep(v) PROVE cleared' = cleared
  BY <1>4 DEF VerifierStep, ReadRemoved, DropGrant, DropMetadata, CheckDropped, MarkMetadata,
     MarkGrant, EndVerification, history
<1>5. CASE (\E p \in Person : BeginRemoval(p) \/ BeginRetry(p)) \/ Deliver \/ Restart
           \/ UNCHANGED vars
  BY <1>5 DEF BeginRemoval, BeginRetry, Deliver, Restart, vars, history
<1> QED
  BY <1>1, <1>2, <1>3, <1>4, <1>5 DEF Next, RemovingStep

\* Every step that is not disturbed clears at most once.
LEMMA ClearsNext ==
  ASSUME Shape, Order, Clears, [Next]_vars, ~disturbed', Order'
  PROVE  Clears'
<1>1. cleared \in [Person -> 0..2]
  BY DEF Shape, TypeOK
<1>2. ASSUME NEW p \in Person, cleared'[p] # cleared[p]
      PROVE  \/ cleared'[p] = 0
             \/ /\ cleared'[p] = 1 /\ ClearSlot /\ p = Subject("manage")
  <2>1. CASE \E c \in Caller, q \in Person :
               BeginAdding(c, q) /\ cleared' = [cleared EXCEPT ![q] = 0]
    BY <1>1, <1>2, <2>1
  <2>2. CASE /\ ClearSlot
             /\ cleared' = [cleared EXCEPT ![Subject("manage")] =
                              More(cleared[Subject("manage")])]
    <3>1. "manage" \in Caller /\ At("manage", "clear")
      BY <2>2 DEF ClearSlot, Caller
    <3>2. cleared[Subject("manage")] = 0
      BY <3>1 DEF Clears, BeforeClear, At
    <3>3. More(0) = 1
      BY DEF More
    <3> QED
      BY <1>1, <1>2, <2>2, <3>2, <3>3
  <2> QED
    BY <1>2, <2>1, <2>2, ClearedSteps
<1>3. \A p \in Person : cleared'[p] <= 1
  BY <1>2 DEF Clears
<1>4. ASSUME NEW p \in Person, Standing(p)'
      PROVE  cleared[p] = 0
  <2>1. ASSUME NEW c \in Caller, Subject(c) = p,
               RecordMetadata(c) \/ (SaveMetadata(c) /\ call[c].status = "synchronized")
        PROVE  cleared[p] = 0
    BY <2>1 DEF RecordMetadata, SaveMetadata, At, Clears, BeforeClear, Raises, Adds, Placed,
       AddingControl, Preparing, Saving
  <2> QED
    BY <1>4, <2>1, Rises DEF Clears
<1>5. ASSUME ClearSlot, NEW p \in Person, p = Subject("manage")
      PROVE  ~Standing(p)' /\ (\A c \in Caller : call'[c].pc # "idle" =>
                                 c = "manage" /\ ~BeforeClear(call'[c]))
  <2>1. "manage" \in Caller /\ ~At("manage", "idle")
    BY <1>5 DEF Caller, ClearSlot, At
  <2>2. ~Standing(p) /\ \A d \in Caller \ {"manage"} : At(d, "idle")
    BY <1>5, <2>1, Running DEF ClearSlot, At, RecordOf, Lowered, Subject
  <2>3. ~Standing(p)'
    BY <1>5, <2>2 DEF ClearSlot, records, Standing
  <2>4. CopyMove("manage") /\ Only("manage")
    <3>1. call["manage"].meta \in Metadata /\ call \in [Caller -> Calls]
      BY <1>5, CopyMovesOn DEF Shape, TypeOK
    <3>2. \/ Saves("manage", call["manage"].meta, "pending", "schedule")
          \/ Saves("manage", call["manage"].meta, "manual_attention_required", "end")
      BY <1>5, <2>1, <3>1, SaveSaves DEF ClearSlot, Status, After
    <3> QED
      BY <1>5, <3>2 DEF CopyMove, Saves
  <2>5. ~BeforeClear(call'["manage"])
    BY <1>5, <2>4 DEF CopyMove, ClearSlot, At, RemoveAccess, CheckRemoved, CheckOwnership,
       ClearAgain, VerifyInline, ConfirmProvisioning, Saves, BeforeClear, Raises, Adds, Placed,
       AddingControl, Preparing, Undoing, Saving
  <2> QED
    BY <2>2, <2>3, <2>4, <2>5 DEF Only, At
<1>6. ASSUME NEW p \in Person, Standing(p)' PROVE cleared'[p] = 0
  BY <1>2, <1>4, <1>5, <1>6
<1>7. ASSUME NEW c \in Caller, call'[c].pc # "idle", BeforeClear(call'[c])
      PROVE  cleared'[call'[c].person] = 0
  <2>1. call'[c].person \in Person
    BY <1>7, ShapeNext DEF Shape, CallShapes, CallShape
  <2>2. cleared[call'[c].person] = 0 \/ cleared'[call'[c].person] = 0
    <3>1. CASE call'[c] = call[c]
      BY <1>7, <3>1 DEF Clears, At, Subject
    <3>2. CASE AddMove(c) \/ SaveMove(c) \/ CopyMove(c)
      BY <1>7, <3>2, BeforeClearSteps DEF Clears, Subject
    <3>3. CASE BeginMove(c)
      <4>1. PICK p \in Person :
              /\ call'[c].person = p
              /\ \/ BeginAdding(c, p)
                 \/ /\ meta[p] # None /\ call'[c].meta = meta[p]
                    /\ \/ call'[c].pc = "removing"
                       \/ call'[c].pc = "check"
                       \/ call'[c].pc = "confirm" /\ meta[p].status = "unknown"
        BY <3>3 DEF BeginMove
      <4>2. CASE BeginAdding(c, p)
        BY <1>1, <4>1, <4>2 DEF BeginAdding
      <4>3. CASE ~BeginAdding(c, p)
        <5>1. Standing(p)
          BY <1>7, <4>1, <4>3 DEF BeforeClear, Raises, Adds, Placed, AddingControl, Preparing,
             Undoing, Saving, Standing, Upright
        <5> QED
          BY <4>1, <5>1 DEF Clears
      <4> QED
        BY <4>2, <4>3
    <3> QED
      BY <1>7, <3>1, <3>2, <3>3, CallSteps
  <2> QED
    BY <1>2, <1>5, <1>7, <2>1, <2>2
<1> QED
  BY <1>3, <1>6, <1>7 DEF Clears, At, Subject, BeforeClear, Raises, Adds, Placed, Standing

-----------------------------------------------------------------------------
(* What is on the lock and on its way to it                                 *)

\* A step leaves the lock and the commands alone, delivers a command, or is the
\* step of a call that sends one.
LEMMA LockSteps ==
  ASSUME Shape, [Next]_vars
  PROVE  \/ holds' = holds /\ air' = air
         \/ Deliver
         \/ \E c \in Caller, k \in Slot, pin \in Person \cup {None} :
              /\ Send(k, pin) /\ holds' = holds /\ meta' = meta
              /\ ~At(c, "idle") /\ call'[c].pc # call[c].pc
              /\ \/ At(c, "program") /\ k = call[c].slot
                 \/ At(c, "unprogram") /\ k = call[c].slot
                 \/ call[c].pc \in {"clear", "clear_again"} /\ k = call[c].meta.slot
<1> DEFINE Sends(c, k, pin) ==
      /\ Send(k, pin) /\ holds' = holds /\ meta' = meta
      /\ ~At(c, "idle") /\ call'[c].pc # call[c].pc
      /\ \/ At(c, "program") /\ k = call[c].slot
         \/ At(c, "unprogram") /\ k = call[c].slot
         \/ call[c].pc \in {"clear", "clear_again"} /\ k = call[c].meta.slot
<1> DEFINE Goal ==
      \/ holds' = holds /\ air' = air
      \/ Deliver
      \/ \E c \in Caller, k \in Slot, pin \in Person \cup {None} : Sends(c, k, pin)
<1> SUFFICES Goal
  OBVIOUS
<1>1. call \in [Caller -> Calls] /\ "manage" \in Caller
  BY DEF Shape, TypeOK, Caller
<1>2. ASSUME NEW c \in Caller, ProgramSlot(c) \/ Unprogram(c) PROVE Goal
  <2>1. call[c].slot \in Slot /\ Subject(c) \in Person
    BY <1>2 DEF ProgramSlot, Unprogram, At, Subject, Shape, CallShapes, CallShape, Placed,
       AddingControl, Preparing, Undoing
  <2>2. air' = air \/ Send(call[c].slot, Subject(c)) \/ Send(call[c].slot, None)
    BY <1>2 DEF ProgramSlot, Unprogram
  <2>3. call'[c].pc # call[c].pc
    BY <1>1, <1>2, GoToGoes, EndEnds DEF ProgramSlot, Unprogram, CallControl, Goes, Ends, At
  <2>4. holds' = holds /\ meta' = meta /\ (At(c, "program") \/ At(c, "unprogram"))
    BY <1>2 DEF ProgramSlot, Unprogram, records
  <2>5. ASSUME NEW pin \in Person \cup {None}, Send(call[c].slot, pin) PROVE Goal
    <3>1. Sends(c, call[c].slot, pin)
      BY <2>3, <2>4, <2>5 DEF At
    <3> QED
      BY <2>1, <3>1
  <2> QED
    BY <2>1, <2>2, <2>4, <2>5
<1>3. CASE ClearSlot \/ ClearAgain
  <2> PICK m \in Metadata : m = call["manage"].meta
    BY <1>3, CopyMovesOn
  <2>1. m.slot \in Slot
    BY DEF Metadata
  <2>2. air' = air \/ Send(m.slot, None)
    BY <1>3 DEF ClearSlot, ClearAgain
  <2>3. call'["manage"].pc # call["manage"].pc
    BY <1>1, <1>3, SaveSaves DEF ClearSlot, ClearAgain, Status, After, Saves, At
  <2>4. holds' = holds /\ meta' = meta /\ call["manage"].pc \in {"clear", "clear_again"}
    BY <1>3 DEF ClearSlot, ClearAgain, records, At
  <2>5. Send(m.slot, None) => Sends("manage", m.slot, None)
    BY <2>3, <2>4 DEF At
  <2> QED
    BY <1>1, <2>1, <2>2, <2>4, <2>5
<1>4. ASSUME NEW c \in Caller,
             \/ \E p \in Person : BeginAdding(c, p)
             \/ AddingStep(c) \/ SaveMetadata(c) \/ SaveGrant(c)
      PROVE  Goal
  BY <1>2, <1>4 DEF AddingStep, BeginAdding, ChooseSlot, ReadBack, RecordMetadata,
     CompleteRecord, Compensate, RollBack, ReadEmptied, ForgetAccess, SaveMetadata,
     SaveGrant, lock
<1>5. CASE RemovingStep \/ RetryStep
  BY <1>3, <1>5 DEF RemovingStep, RetryStep, RemoveAccess, ScheduleVerification, CheckRemoved,
     CheckOwnership, VerifyInline, ConfirmProvisioning, lock
<1>6. ASSUME NEW v \in Verifier, VerifierStep(v) PROVE Goal
  BY <1>6 DEF VerifierStep, ReadRemoved, DropGrant, DropMetadata, CheckDropped, MarkMetadata,
     MarkGrant, EndVerification, lock
<1>7. CASE (\E p \in Person : BeginRemoval(p) \/ BeginRetry(p)) \/ Restart \/ UNCHANGED vars
  BY <1>7 DEF BeginRemoval, BeginRetry, Restart, vars, lock
<1> QED
  BY <1>4, <1>5, <1>6, <1>7 DEF Next

\* While a call runs, the access of other people does not come to stand.
LEMMA OthersStand ==
  ASSUME Shape, Order, [Next]_vars, NEW c \in Caller, ~At(c, "idle"),
         NEW q \in Person, q # Subject(c), Standing(q)'
  PROVE  Standing(q) /\ meta'[q] = meta[q]
<1>1. ASSUME NEW d \in Caller, RecordMetadata(d) \/ SaveMetadata(d) PROVE d = c
  BY <1>1 DEF RecordMetadata, SaveMetadata, At, Order, Alone
<1> QED
  BY <1>1, Rises

\* A call that begins to remove or to retry finds nobody else in its slot.
LEMMA OnLockBegin ==
  ASSUME Shape, SlotsApart, NEW c \in Caller, BeginMove(c)
  PROVE  OnLock(call[c])'
<1> USE DEF OnLock, Placed, Copied, CopyControl, Saving, AddingControl, Preparing, Undoing
<1>1. PICK p \in Person :
        /\ call'[c].person = p
        /\ \/ BeginAdding(c, p) /\ call'[c].pc = "choose"
           \/ /\ BeginRemoval(p) \/ BeginRetry(p)
              /\ meta[p] # None /\ call'[c].meta = meta[p]
              /\ call'[c].pc \in {"removing", "check", "confirm"}
  BY DEF BeginMove
<1>2. CASE call'[c].pc = "choose"
  BY <1>2
<1>3. CASE call'[c].pc # "choose"
  <2>1. meta' = meta
    BY <1>1, <1>3 DEF BeginRemoval, BeginRetry, records
  <2>2. \A q \in Person \ {p} : meta[q] # None => meta[q].slot # meta[p].slot
    BY <1>1, <1>3 DEF SlotsApart
  <2>3. \A q \in Person \ {p} : Standing(q)' => meta'[q].slot # call'[c].meta.slot
    BY <1>1, <1>3, <2>1, <2>2 DEF Standing
  <2> QED
    BY <1>1, <1>3, <2>3
<1> QED
  BY <1>2, <1>3

\* A call that goes on agrees with the lock, if the others agree with it before.
LEMMA OnLockMoves ==
  ASSUME Shape, Order, Lock, [Next]_vars, NEW c \in Caller,
         AddMove(c) \/ SaveMove(c) \/ CopyMove(c)
  PROVE  OnLock(call[c])'
<1>1. ~At(c, "idle")
  BY DEF AddMove, SaveMove, CopyMove, ChooseSlot, ProgramSlot, ReadBack, RecordMetadata,
     CompleteRecord, Compensate, RollBack, Unprogram, ReadEmptied, SaveMetadata, SaveGrant,
     RemoveAccess, ClearSlot, CheckRemoved, CheckOwnership, ClearAgain, VerifyInline,
     ConfirmProvisioning, At
<1>2. /\ CallShape(c, call[c]) /\ RecordOf(c, call[c]) /\ Subject(c) \in Person
      /\ OnLock(call[c]) /\ call[c].after \in After
  BY <1>1, Running DEF Lock, Shape, TypeOK, Calls
<1>3. holds' = holds
  BY DEF AddMove, SaveMove, CopyMove, ChooseSlot, ProgramSlot, ReadBack, RecordMetadata,
     CompleteRecord, Compensate, RollBack, Unprogram, ReadEmptied, SaveMetadata, SaveGrant,
     RemoveAccess, ClearSlot, CheckRemoved, CheckOwnership, ClearAgain, VerifyInline,
     ConfirmProvisioning, lock
<1>4. call'[c].person = call[c].person
  BY DEF AddMove, SaveMove, CopyMove, Goes, Saves
<1> USE DEF Placed, Copied, CopyControl, Saving, AddingControl, Preparing, Undoing, At
<1>5. Placed(call'[c]) => holds[call'[c].slot] \in {None, call[c].person}
  <2>1. Placed(call'[c]) /\ call'[c].pc # "program" =>
          Placed(call[c]) /\ call'[c].slot = call[c].slot
    <3>1. CASE AddMove(c)
      BY <3>1 DEF AddMove, Goes, Saves, ChooseSlot, ProgramSlot, ReadBack, RecordMetadata,
         CompleteRecord, Compensate, RollBack, Unprogram, ReadEmptied
    <3>2. CASE SaveMove(c)
      BY <1>2, <3>2 DEF SaveMove, Goes, SaveMetadata, SaveGrant, After
    <3>3. CASE CopyMove(c)
      BY <3>3 DEF CopyMove, Goes, Saves
    <3> QED
      BY <3>1, <3>2, <3>3
  <2>2. call'[c].pc = "program" => holds[call'[c].slot] = None
    BY <1>2 DEF AddMove, SaveMove, CopyMove, Goes, Saves, After
  <2> QED
    BY <1>2, <2>1, <2>2 DEF OnLock
<1>6. call'[c].pc = "program" => holds[call'[c].slot] = None
  BY <1>2 DEF AddMove, SaveMove, CopyMove, Goes, Saves, After
<1>7. call'[c].pc = "readback" =>
        holds[call'[c].slot] = None
        /\ air'[Len(air')] = [slot |-> call'[c].slot, pin |-> call'[c].person]
  <2> SUFFICES ASSUME call'[c].pc = "readback"
               PROVE  holds[call'[c].slot] = None
                 /\ air'[Len(air')] = [slot |-> call'[c].slot, pin |-> call'[c].person]
    OBVIOUS
  <2>1. ProgramSlot(c) /\ Goes(c, "readback") /\ Send(call[c].slot, Subject(c))
    BY <1>2 DEF AddMove, SaveMove, CopyMove, Goes, Saves, After
  <2>2. call[c].slot \in Slot
    BY <1>2, <2>1 DEF ProgramSlot, CallShape
  <2>3. air'[Len(air')] = [slot |-> call[c].slot, pin |-> Subject(c)]
    BY <1>2, <2>1, <2>2, Sent DEF Shape
  <2> QED
    BY <1>2, <2>1, <2>3 DEF ProgramSlot, OnLock, Goes, Subject
<1>8. call'[c].pc = "record" =>
        /\ holds[call'[c].slot] = call'[c].person => Len(air') = 0
        /\ call'[c].status = "synchronized" => holds[call'[c].slot] = call'[c].person
  <2> SUFFICES ASSUME call'[c].pc = "record"
               PROVE  /\ holds[call'[c].slot] = call'[c].person => Len(air') = 0
                      /\ call'[c].status = "synchronized"
                           => holds[call'[c].slot] = call'[c].person
    OBVIOUS
  <2>1. /\ ReadBack(c) /\ call'[c].slot = call[c].slot
        /\ call'[c].status = "synchronized" => holds[call[c].slot] = call[c].person
    BY <1>2 DEF AddMove, SaveMove, CopyMove, Goes, Saves, After
  <2>2. call[c].person # None
    BY <1>2, Assumptions DEF Assumptions, Subject
  <2>3. holds[call[c].slot] = call[c].person => ~(Len(air) > 0)
    BY <1>2, <2>1, <2>2 DEF ReadBack, OnLock
  <2>4. Len(air) \in Nat /\ air' = air
    BY <2>1 DEF Shape, TypeOK, ReadBack, lock
  <2> QED
    BY <1>4, <2>1, <2>3, <2>4
<1>9. call'[c].pc \in Saving /\ call'[c].status = "synchronized" =>
        /\ holds[call'[c].meta.slot] = call'[c].person
        /\ \A i \in 1..Len(air') : air'[i].slot # call'[c].meta.slot
  <2> SUFFICES ASSUME call'[c].pc \in Saving, call'[c].status = "synchronized"
               PROVE  /\ holds[call'[c].meta.slot] = call'[c].person
                      /\ \A i \in 1..Len(air') : air'[i].slot # call'[c].meta.slot
    OBVIOUS
  <2>1. CASE ConfirmProvisioning /\ c = "manage" /\ call'[c].meta = call[c].meta
             /\ holds[call[c].meta.slot] = call[c].person
    <3>1. Standing(Subject(c)) /\ meta[Subject(c)] = call[c].meta
      BY <1>2, <2>1, Assumptions DEF Assumptions, ConfirmProvisioning, RecordOf, Subject, Standing,
         Upright, CallShape
    <3>2. Still(call[c].meta.slot)
      BY <1>2, <2>1, <3>1 DEF Lock, Subject
    <3>3. air' = air
      BY <2>1 DEF ConfirmProvisioning, lock
    <3> QED
      BY <1>4, <2>1, <3>2, <3>3 DEF Still
  <2>2. CASE SaveMetadata(c) /\ Goes(c, "save_grant")
    <3>1. Still(call[c].meta.slot) /\ holds[call[c].meta.slot] = call[c].person
      BY <1>2, <2>2 DEF SaveMetadata, OnLock, Goes
    <3>2. air' = air
      BY <2>2 DEF SaveMetadata, lock
    <3> QED
      BY <2>2, <3>1, <3>2 DEF Goes, Still
  <2>3. \/ ConfirmProvisioning /\ c = "manage" /\ call'[c].meta = call[c].meta
           /\ holds[call[c].meta.slot] = call[c].person
        \/ SaveMetadata(c) /\ Goes(c, "save_grant")
    BY <1>2 DEF AddMove, SaveMove, CopyMove, Goes, Saves, After
  <2> QED
    BY <2>1, <2>2, <2>3
<1>10. Copied(call'[c]) => \A q \in Person \ {call'[c].person} :
                             Standing(q)' => meta'[q].slot # call'[c].meta.slot
  <2>1. Copied(call'[c]) => Copied(call[c]) /\ call'[c].meta.slot = call[c].meta.slot
    <3>1. CASE AddMove(c)
      BY <3>1 DEF AddMove, Goes, Saves
    <3>2. CASE SaveMove(c)
      BY <1>2, <3>2 DEF SaveMove, Goes, SaveMetadata, SaveGrant, After
    <3>3. CASE CopyMove(c)
      BY <3>3 DEF CopyMove, Goes, Saves, RemoveAccess, ClearSlot, CheckRemoved, CheckOwnership,
         ClearAgain, VerifyInline, ConfirmProvisioning
    <3> QED
      BY <3>1, <3>2, <3>3
  <2>2. \A q \in Person \ {call[c].person} : Standing(q)' =>
          Standing(q) /\ meta'[q] = meta[q]
    BY <1>1, OthersStand DEF Subject
  <2> QED
    BY <1>2, <1>4, <2>1, <2>2 DEF OnLock
<1> QED
  BY <1>3, <1>4, <1>5, <1>6, <1>7, <1>8, <1>9, <1>10 DEF OnLock, Still

\* Steps that leave the lock and the commands alone keep what is known of them.
LEMMA LockSame ==
  ASSUME Shape, SlotsApart, Order, Lock, SynchronizedOnLock, [Next]_vars,
         holds' = holds, air' = air
  PROVE  Lock' /\ SynchronizedOnLock'
<1>1. ASSUME NEW p \in Person, Standing(p)'
      PROVE  /\ holds[meta'[p].slot] = p =>
                  \A i \in 1..Len(air) : air[i].slot # meta'[p].slot
             /\ meta'[p].status = "synchronized" => holds[meta'[p].slot] = p
  <2>1. CASE meta'[p] = meta[p] /\ Standing(p)
    BY <2>1 DEF Lock, Still, SynchronizedOnLock, Standing
  <2>2. ASSUME NEW c \in Caller, RecordMetadata(c), Subject(c) = p,
               meta'[p] = [slot |-> call[c].slot, status |-> call[c].status]
        PROVE  /\ holds[meta'[p].slot] = p =>
                    \A i \in 1..Len(air) : air[i].slot # meta'[p].slot
               /\ meta'[p].status = "synchronized" => holds[meta'[p].slot] = p
    <3>1. meta'[p].slot = call[c].slot /\ meta'[p].status = call[c].status
      BY <2>2
    <3>2. OnLock(call[c]) /\ call[c].pc = "record" /\ call[c].person = p
      BY <2>2 DEF RecordMetadata, At, Lock, Subject
    <3> QED
      BY <3>1, <3>2 DEF OnLock
  <2>3. ASSUME NEW c \in Caller, SaveMetadata(c), Subject(c) = p,
               call[c].status = "synchronized", meta'[p].slot = call[c].meta.slot
        PROVE  /\ holds[meta'[p].slot] = p
               /\ \A i \in 1..Len(air) : air[i].slot # meta'[p].slot
    BY <2>3 DEF SaveMetadata, At, Lock, OnLock, Saving, Subject, Still
  <2> QED
    BY <1>1, <2>1, <2>2, <2>3, Rises
<1>2. SynchronizedOnLock'
  BY <1>1 DEF SynchronizedOnLock, Standing, Upright
<1>3. ASSUME NEW c \in Caller, call'[c].pc # "idle" PROVE OnLock(call[c])'
  <2>1. CASE call'[c] = call[c]
    <3>1. ~At(c, "idle") /\ OnLock(call[c])
      BY <1>3, <2>1 DEF Lock, At
    <3>2. \A q \in Person \ {call[c].person} : Standing(q)' =>
            Standing(q) /\ meta'[q] = meta[q]
      BY <3>1, OthersStand DEF Subject
    <3> QED
      BY <2>1, <3>1, <3>2 DEF OnLock, Placed, Copied, Still
  <2> QED
    BY <1>3, <2>1, CallSteps, OnLockMoves, OnLockBegin
<1> QED
  BY <1>1, <1>2, <1>3 DEF Lock, Still, At

\* A command that is sent is not meant for a slot in which access stands and works.
LEMMA LockSent ==
  ASSUME Shape, Order, Lock, SynchronizedOnLock, [Next]_vars,
         NEW c \in Caller, NEW k \in Slot, NEW pin \in Person \cup {None},
         Send(k, pin), holds' = holds, meta' = meta,
         ~At(c, "idle"), call'[c].pc # call[c].pc,
         \/ At(c, "program") /\ k = call[c].slot
         \/ At(c, "unprogram") /\ k = call[c].slot
         \/ call[c].pc \in {"clear", "clear_again"} /\ k = call[c].meta.slot,
         Order'
  PROVE  Lock' /\ SynchronizedOnLock'
<1>1. RecordOf(c, call[c]) /\ OnLock(call[c]) /\ Subject(c) \in Person
  BY Running DEF Lock
<1>2. \A d \in Caller \ {c} : At(d, "idle")
  BY Running
<1>3. ASSUME NEW p \in Person, Standing(p), holds[meta[p].slot] = p
      PROVE  Still(meta[p].slot) /\ meta[p].slot # k
  <2>1. Still(meta[p].slot)
    BY <1>3 DEF Lock
  <2>2. p # None
    BY Assumptions DEF Assumptions
  <2>3. CASE At(c, "program") /\ k = call[c].slot
    BY <1>1, <1>3, <2>1, <2>2, <2>3 DEF OnLock, At
  <2>4. CASE At(c, "unprogram") /\ k = call[c].slot
    BY <1>1, <1>3, <2>1, <2>2, <2>4 DEF OnLock, At, Placed, AddingControl, Undoing, RecordOf,
       Lowered
  <2>5. CASE call[c].pc \in {"clear", "clear_again"} /\ k = call[c].meta.slot
    BY <1>1, <1>3, <2>1, <2>5 DEF OnLock, At, Copied, Placed, CopyControl, Saving,
       AddingControl, Preparing, Undoing, RecordOf, Lowered
  <2> QED
    BY <2>3, <2>4, <2>5
<1>4. /\ Len(air) \in Nat /\ Len(air') = Len(air) + 1
      /\ air'[Len(air')] = [slot |-> k, pin |-> pin]
      /\ \A i \in 1..Len(air) : air'[i] = air[i]
  BY Sent DEF Shape, TypeOK
<1>5. ASSUME NEW p \in Person, Standing(p), holds[meta[p].slot] = p
      PROVE  \A i \in 1..Len(air') : air'[i].slot # meta[p].slot
  <2> SUFFICES ASSUME NEW i \in 1..Len(air') PROVE air'[i].slot # meta[p].slot
    OBVIOUS
  <2>1. CASE i \in 1..Len(air)
    BY <1>3, <1>4, <1>5, <2>1 DEF Still
  <2>2. CASE i = Len(air')
    BY <1>3, <1>4, <1>5, <2>2
  <2> QED
    BY <1>4, <2>1, <2>2
<1>6. ASSUME NEW d \in Caller, call'[d].pc # "idle" PROVE OnLock(call[d])'
  <2>1. d = c \/ call[d].pc = "idle"
    BY <1>2 DEF At
  <2>2. call'[d] # call[d]
    BY <1>6, <2>1
  <2>3. ~BeginMove(d)
    <3>1. BeginMove(d) => air' = air
      BY DEF BeginMove, BeginAdding, BeginRemoval, BeginRetry, lock
    <3>2. Len(air') # Len(air)
      BY <1>4
    <3> QED
      BY <3>1, <3>2
  <2> QED
    BY <1>6, <2>2, <2>3, CallSteps, OnLockMoves
<1> QED
  BY <1>5, <1>6 DEF Lock, SynchronizedOnLock, Standing, Still, At

\* The command that arrives leaves the queue.
LEMMA Delivered ==
  ASSUME TypeOK, Deliver
  PROVE  /\ Head(air) \in Command /\ Head(air) = air[1]
         /\ Len(air) \in Nat \ {0} /\ Len(air') \in Nat /\ Len(air') = Len(air) - 1
         /\ \A i \in 1..Len(air') : i + 1 \in 1..Len(air) /\ air'[i] = air[i + 1]
         /\ Len(air') > 0 => air'[Len(air')] = air[Len(air)]
<1> PICK s \in Seq(Command) : s = air
  BY DEF TypeOK
<1>1. s # <<>> /\ air' = Tail(s)
  BY DEF Deliver
<1>2. /\ Head(s) \in Command /\ Head(s) = s[1] /\ Len(s) \in Nat \ {0}
      /\ Tail(s) \in Seq(Command) /\ Len(Tail(s)) = Len(s) - 1
      /\ \A i \in 1..Len(Tail(s)) : Tail(s)[i] = s[i + 1]
  BY <1>1
<1>3. Len(Tail(s)) \in Nat
  BY <1>2
<1>4. Len(Tail(s)) > 0 => Tail(s)[Len(Tail(s))] = s[Len(s)]
  <2> SUFFICES ASSUME Len(Tail(s)) > 0 PROVE Tail(s)[Len(Tail(s))] = s[Len(s)]
    OBVIOUS
  <2>1. Len(Tail(s)) \in 1..Len(Tail(s)) /\ Len(Tail(s)) + 1 = Len(s)
    BY <1>2, <1>3
  <2> QED
    BY <1>2, <2>1
<1>5. \A i \in 1..Len(Tail(s)) : i + 1 \in 1..Len(s)
  BY <1>2, <1>3
<1> QED
  BY <1>1, <1>2, <1>3, <1>4, <1>5

\* An undisturbed delivery leaves the slots alone, empties one, or is the PIN that a
\* call is waiting for and nothing else is on its way.
LEMMA DeliveredUndisturbed ==
  ASSUME Shape, Deliver, ~disturbed'
  PROVE  \/ /\ Head(air).slot \in Slot
            /\ \A k \in Slot : \/ holds'[k] = holds[k]
                               \/ k = Head(air).slot /\ holds'[k] = None
         \/ /\ Awaited /\ Head(air).slot \in Slot /\ Head(air).pin \in Person
            /\ holds' = [holds EXCEPT ![Head(air).slot] = Head(air).pin]
<1>1. Head(air).slot \in Slot /\ Head(air).pin \in Person \cup {None}
  BY Delivered DEF Shape, Command
<1>2. ~(holds' # holds /\ Head(air).pin # None /\ ~Awaited)
  BY Zenon DEF Deliver
<1>3. /\ holds \in [Slot -> Person \cup {None}]
      /\ holds' \in {holds, [holds EXCEPT ![Head(air).slot] = Head(air).pin]}
  BY DEF Deliver, Shape, TypeOK
<1> QED
  BY <1>1, <1>2, <1>3

\* An undisturbed delivery keeps what is known of the lock.
LEMMA LockDelivered ==
  ASSUME Shape, Order, Lock, SynchronizedOnLock, Deliver, ~disturbed'
  PROVE  Lock' /\ SynchronizedOnLock'
<1> DEFINE h == Head(air)
<1>1. meta' = meta /\ call' = call
  BY DEF Deliver, records
<1>2. /\ Len(air) \in Nat \ {0} /\ Len(air') \in Nat /\ Len(air') = Len(air) - 1
      /\ Len(air') > 0 => air'[Len(air')] = air[Len(air)]
  BY Delivered DEF Shape
<1>3. ASSUME NEW k, Still(k)
      PROVE  k # h.slot /\ \A i \in 1..Len(air') : air'[i].slot # k
  <2>1. 1 \in 1..Len(air)
    BY <1>2
  <2> QED
    BY <1>3, <2>1, Delivered DEF Shape, Still
<1>4. None \notin Person
  BY Assumptions DEF Assumptions
<1>5. \A p \in Person : meta[p] # None => meta[p].slot \in Slot
  BY DEF Shape, TypeOK, Metadata
<1>6. CASE \A k \in Slot : holds'[k] = holds[k] \/ (k = h.slot /\ holds'[k] = None)
  <2>1. ASSUME NEW p \in Person, Standing(p), holds'[meta[p].slot] = p
        PROVE  \A i \in 1..Len(air') : air'[i].slot # meta[p].slot
    <3>1. holds[meta[p].slot] = p
      BY <1>4, <1>5, <1>6, <2>1 DEF Standing
    <3> QED
      BY <1>3, <2>1, <3>1 DEF Lock
  <2>2. ASSUME NEW p \in Person, meta[p] # None, meta[p].status = "synchronized"
        PROVE  holds'[meta[p].slot] = p
    <3>1. holds[meta[p].slot] = p /\ Standing(p)
      BY <2>2 DEF SynchronizedOnLock, Standing, Upright
    <3>2. meta[p].slot # h.slot
      BY <1>3, <2>2, <3>1 DEF Lock
    <3> QED
      BY <1>5, <1>6, <2>2, <3>1, <3>2
  <2>3. ASSUME NEW c \in Caller, call[c].pc # "idle" PROVE OnLock(call[c])'
    <3>1. OnLock(call[c]) /\ CallShape(c, call[c]) /\ call[c].person \in Person
      BY <2>3, Running DEF Lock, At, Subject
    <3>2. Placed(call[c]) => holds'[call[c].slot] \in {None, call[c].person}
      BY <1>6, <3>1 DEF OnLock, CallShape
    <3>3. call[c].pc \in {"program", "readback", "record"} => call[c].slot \in Slot
      BY <3>1 DEF CallShape, Placed, AddingControl, Preparing
    <3>4. call[c].pc = "program" => holds'[call[c].slot] = None
      BY <1>6, <3>1, <3>3 DEF OnLock
    <3>5. call[c].pc = "readback" /\ Len(air') > 0 =>
            /\ holds'[call[c].slot] = None
            /\ air'[Len(air')] = [slot |-> call[c].slot, pin |-> call[c].person]
      BY <1>2, <1>6, <3>1, <3>3 DEF OnLock
    <3>6. call[c].pc = "record" =>
            holds[call[c].slot] # call[c].person /\ holds'[call[c].slot] # call[c].person
      BY <1>2, <1>4, <1>6, <3>1, <3>3 DEF OnLock
    <3>7. call[c].pc \in Saving /\ call[c].status = "synchronized" =>
            /\ holds'[call[c].meta.slot] = call[c].person
            /\ \A i \in 1..Len(air') : air'[i].slot # call[c].meta.slot
      <4>1. call[c].pc \in Saving => call[c].meta.slot \in Slot
        BY <3>1 DEF CallShape, CopyControl, Metadata
      <4> QED
        BY <1>3, <1>6, <3>1, <4>1 DEF OnLock
    <3> QED
      BY <1>1, <3>1, <3>2, <3>4, <3>5, <3>6, <3>7 DEF OnLock, Placed, Copied, Still, Standing
  <2> QED
    BY <1>1, <2>1, <2>2, <2>3 DEF Lock, SynchronizedOnLock, Still, Standing, At
<1>7. CASE /\ Awaited /\ h.slot \in Slot /\ h.pin \in Person
           /\ holds' = [holds EXCEPT ![h.slot] = h.pin]
  <2>1. PICK c \in Caller : Len(air) = 1 /\ At(c, "readback") /\ call[c].person = h.pin
    BY <1>7 DEF Awaited, Subject
  <2>2. /\ OnLock(call[c]) /\ RecordOf(c, call[c]) /\ \A d \in Caller \ {c} : At(d, "idle")
    BY <2>1, Running DEF Lock, At
  <2>3. h = [slot |-> call[c].slot, pin |-> call[c].person] /\ holds[call[c].slot] = None
    BY <2>1, <2>2, Delivered DEF OnLock, At, Shape
  <2>4. call[c].slot = h.slot /\ meta[h.pin] = None
    BY <2>1, <2>2, <2>3 DEF RecordOf, Preparing, At
  <2>5. Len(air') = 0
    BY <1>2, <2>1
  <2>6. holds \in [Slot -> Person \cup {None}]
    BY DEF Shape, TypeOK
  <2>7. ASSUME NEW p \in Person, meta[p] # None, meta[p].status = "synchronized"
        PROVE  holds'[meta[p].slot] = p
    <3>1. holds[meta[p].slot] = p /\ meta[p].slot \in Slot
      BY <1>5, <2>7 DEF SynchronizedOnLock
    <3> QED
      BY <1>4, <1>7, <2>3, <2>4, <2>6, <3>1
  <2>8. OnLock(call[c])'
    <3>1. holds'[call[c].slot] = call[c].person
      BY <1>7, <2>1, <2>4, <2>6
    <3> QED
      BY <1>1, <2>1, <2>5, <3>1 DEF OnLock, At, Placed, Copied, CopyControl, Saving, Preparing,
         AddingControl, Undoing
  <2> QED
    BY <1>1, <2>2, <2>5, <2>7, <2>8 DEF Lock, SynchronizedOnLock, Still, At
<1> QED
  BY <1>6, <1>7, DeliveredUndisturbed

\* Every step that is not disturbed keeps what is known of the lock, and with it
\* that synchronized access works.
LEMMA LockNext ==
  ASSUME Shape, SlotsApart, Order, Lock, SynchronizedOnLock, [Next]_vars, ~disturbed', Order'
  PROVE  Lock' /\ SynchronizedOnLock'
  BY LockSteps, LockSame, LockSent, LockDelivered

-----------------------------------------------------------------------------
(* The slot in which access was confirmed                                   *)

\* What a verifier is after a step: what it was, gone, or just started.
LEMMA JobSteps ==
  ASSUME Shape, [Next]_vars, NEW v \in Verifier, job'[v] # None
  PROVE  \/ job'[v] = job[v]
         \/ /\ job[v] # None
            /\ job'[v].person = job[v].person /\ job'[v].meta = job[v].meta
            /\ job'[v].pc \in {"drop_grant", "drop_metadata"} =>
                 \/ job[v].pc = "drop_grant"
                 \/ holds[job[v].meta.slot] = None
         \/ /\ "manage" \in Caller /\ call["manage"].pc \in {"schedule", "verify"}
            /\ job'[v].person = call["manage"].person
            /\ job'[v].meta = call["manage"].meta /\ job'[v].pc = "read"
         \/ /\ v \in Person /\ meta[v] # None
            /\ job'[v].person = v /\ job'[v].meta = meta[v] /\ job'[v].pc = "read"
<1> DEFINE Goal ==
      \/ job'[v] = job[v]
      \/ /\ job[v] # None
         /\ job'[v].person = job[v].person /\ job'[v].meta = job[v].meta
         /\ job'[v].pc \in {"drop_grant", "drop_metadata"} =>
              \/ job[v].pc = "drop_grant"
              \/ holds[job[v].meta.slot] = None
      \/ /\ "manage" \in Caller /\ call["manage"].pc \in {"schedule", "verify"}
         /\ job'[v].person = call["manage"].person
         /\ job'[v].meta = call["manage"].meta /\ job'[v].pc = "read"
      \/ /\ v \in Person /\ meta[v] # None
         /\ job'[v].person = v /\ job'[v].meta = meta[v] /\ job'[v].pc = "read"
<1> SUFFICES Goal
  OBVIOUS
<1>1. job \in [Verifier -> Jobs \cup {None}] /\ "manage" \in Caller /\ TypeOK
  BY DEF Shape, TypeOK, Caller
<1>2. CASE job' = job
  BY <1>2
<1>3. ASSUME NEW u \in Verifier, VerifierStep(u) PROVE Goal
  <2>1. job[u] # None
    BY <1>3 DEF VerifierStep, ReadRemoved, DropGrant, DropMetadata, CheckDropped, MarkMetadata,
       MarkGrant, EndVerification, Verifying
  <2>2. /\ \A pc \in {"drop_grant", "drop_metadata", "check", "ending"} :
             JobGoesTo(u, pc) => JobMoves(u, pc, job[u].status)
        /\ \A status \in Attention : Mark(u, status) => JobMoves(u, "mark", status)
        /\ NeedsAttention(u) => JobMoves(u, "mark", "manual_attention_required")
    BY <1>1, <2>1, JobMovesOn
  <2>3. ASSUME NEW pc, NEW status, JobMoves(u, pc, status),
               pc \in {"drop_grant", "drop_metadata"} =>
                 job[u].pc = "drop_grant" \/ holds[job[u].meta.slot] = None
        PROVE  Goal
    BY <2>1, <2>3 DEF JobMoves, OnlyJob
  <2>4. ReadRemoved(u) => Goal
    BY <2>2, <2>3 DEF ReadRemoved, Attention
  <2>5. DropGrant(u) => Goal
    BY <2>2, <2>3 DEF DropGrant, Verifying
  <2>6. DropMetadata(u) \/ CheckDropped(u) \/ MarkGrant(u) => Goal
    BY <2>2, <2>3 DEF DropMetadata, CheckDropped, MarkGrant
  <2>7. MarkMetadata(u) => Goal
    BY <1>1, <2>3, MarkMetadataMoves
  <2>8. EndVerification(u) => Goal
    BY <1>1 DEF EndVerification
  <2> QED
    BY <1>3, <2>4, <2>5, <2>6, <2>7, <2>8 DEF VerifierStep
<1>4. CASE ScheduleVerification \/ VerifyInline
  <2> PICK m \in Metadata : m = call["manage"].meta
    BY <1>4, CopyMovesOn
  <2> PICK p \in Person : p = Subject("manage")
    BY <1>4, CopyMovesOn
  <2>1. /\ NewJob(p, m).pc = "read" /\ NewJob(p, m).person = p /\ NewJob(p, m).meta = m
    BY JobStarts
  <2>2. job'[v] = job[v] \/ job'[v] = NewJob(p, m)
    BY <1>1, <1>4 DEF ScheduleVerification, VerifyInline
  <2>3. call["manage"].pc \in {"schedule", "verify"}
    BY <1>4 DEF ScheduleVerification, VerifyInline, At
  <2> QED
    BY <1>1, <2>1, <2>2, <2>3 DEF Subject
<1>5. CASE Restart
  BY <1>5, Restarts
<1>6. ASSUME NEW c \in Caller,
             \/ \E p \in Person : BeginAdding(c, p)
             \/ AddingStep(c) \/ SaveMetadata(c) \/ SaveGrant(c)
      PROVE  Goal
  BY <1>6 DEF AddingStep, BeginAdding, ChooseSlot, ProgramSlot, ReadBack, RecordMetadata,
     CompleteRecord, Compensate, RollBack, Unprogram, ReadEmptied, ForgetAccess, SaveMetadata,
     SaveGrant
<1>7. CASE RemoveAccess \/ ClearSlot \/ CheckRemoved \/ CheckOwnership \/ ClearAgain
           \/ ConfirmProvisioning \/ Deliver \/ UNCHANGED vars
           \/ \E p \in Person : BeginRemoval(p) \/ BeginRetry(p)
  BY <1>7 DEF RemoveAccess, ClearSlot, CheckRemoved, CheckOwnership, ClearAgain,
     ConfirmProvisioning, Deliver, BeginRemoval, BeginRetry, vars
<1> QED
  BY <1>3, <1>4, <1>5, <1>6, <1>7 DEF Next, RemovingStep, RetryStep

\* A person's confirmed slot is what it was, or access was just recorded in it; it
\* is forgotten when adding begins.
LEMMA ConfirmedSteps ==
  ASSUME Shape, [Next]_vars, NEW p \in Person, confirmed'[p] # 0
  PROVE  \/ /\ confirmed'[p] = confirmed[p]
            /\ \A c \in Caller : ~BeginAdding(c, p)
         \/ \E c \in Caller :
              /\ CompleteRecord(c) /\ Subject(c) = p /\ confirmed'[p] = call[c].slot
              /\ Ends(c) \/ Goes(c, "rollback")
<1> DEFINE Goal ==
         \/ /\ confirmed'[p] = confirmed[p]
            /\ \A c \in Caller : ~BeginAdding(c, p)
         \/ \E c \in Caller :
              /\ CompleteRecord(c) /\ Subject(c) = p /\ confirmed'[p] = call[c].slot
              /\ Ends(c) \/ Goes(c, "rollback")
<1> SUFFICES Goal
  OBVIOUS
<1>1. confirmed \in [Person -> 0..Slots]
  BY DEF Shape, TypeOK
<1>2. \A c \in Caller : ~BeginAdding(c, p)
  BY <1>1 DEF BeginAdding
<1>3. CASE confirmed' = confirmed
  BY <1>2, <1>3
<1>4. ASSUME NEW c \in Caller, NEW q \in Person, BeginAdding(c, q) PROVE Goal
  BY <1>1, <1>2, <1>4 DEF BeginAdding
<1>5. ASSUME NEW c \in Caller, CompleteRecord(c) PROVE Goal
  <2>1. Subject(c) \in Person
    BY <1>5 DEF CompleteRecord, At, Subject, Shape, CallShapes, CallShape
  <2>2. \/ confirmed' = confirmed
        \/ /\ confirmed' = [confirmed EXCEPT ![Subject(c)] =
                 IF call[c].status = "synchronized" THEN call[c].slot ELSE @]
           /\ Ends(c) \/ Goes(c, "rollback")
    BY <1>5, EndEnds, GoToGoes DEF CompleteRecord, CallControl, Shape, TypeOK
  <2> QED
    BY <1>1, <1>2, <1>5, <2>1, <2>2
<1>6. ASSUME NEW c \in Caller, AddingStep(c) \/ SaveMetadata(c) \/ SaveGrant(c) PROVE Goal
  BY <1>3, <1>5, <1>6 DEF AddingStep, ChooseSlot, ProgramSlot, ReadBack, RecordMetadata,
     Compensate, RollBack, Unprogram, ReadEmptied, ForgetAccess, SaveMetadata, SaveGrant,
     history
<1>7. CASE RemovingStep \/ RetryStep
  BY <1>3, <1>7 DEF RemovingStep, RetryStep, RemoveAccess, ClearSlot, ScheduleVerification,
     CheckRemoved, CheckOwnership, ClearAgain, VerifyInline, ConfirmProvisioning, history
<1>8. ASSUME NEW v \in Verifier, VerifierStep(v) PROVE Goal
  BY <1>3, <1>8 DEF VerifierStep, ReadRemoved, DropGrant, DropMetadata, CheckDropped,
     MarkMetadata, MarkGrant, EndVerification, history
<1>9. CASE (\E q \in Person : BeginRemoval(q) \/ BeginRetry(q)) \/ Deliver \/ Restart
           \/ UNCHANGED vars
  BY <1>3, <1>9 DEF BeginRemoval, BeginRetry, Deliver, Restart, vars, history
<1> QED
  BY <1>4, <1>6, <1>7, <1>8, <1>9 DEF Next

\* Access that is recorded as confirmed is in the slot its call programmed.
LEMMA ConfirmedAnew ==
  ASSUME Shape, Order, NEW c \in Caller, CompleteRecord(c), Ends(c) \/ Goes(c, "rollback"),
         NEW p \in Person, p = Subject(c), confirmed'[p] = call[c].slot
  PROVE  Confirmed(p, confirmed[p])'
<1> DEFINE k == call[c].slot
<1>1. At(c, "complete") /\ meta' = meta /\ job' = job
  BY DEF CompleteRecord
<1>2. /\ RecordOf(c, call[c]) /\ \A d \in Caller \ {c} : At(d, "idle")
      /\ k \in Slot /\ call[c].status \in Upright
  BY <1>1, Running DEF At, CallShape, Placed, AddingControl, Preparing
<1>3. meta[p] = [slot |-> k, status |-> call[c].status] /\ NoJob(p)
  BY <1>1, <1>2 DEF RecordOf, At, Raises, Adds, Placed, AddingControl, Preparing, Subject
<1>4. meta[p] # None /\ meta[p].slot = k
  <2>1. [slot |-> k, status |-> call[c].status] \in Metadata
    BY <1>2 DEF Metadata, Upright, Status
  <2>2. [slot |-> k, status |-> call[c].status].slot = k
    OBVIOUS
  <2> QED
    BY <1>3, <2>1, <2>2, Assumptions DEF Assumptions
<1>5. ASSUME NEW d \in Caller, call'[d].pc # "idle"
      PROVE  d = c /\ call'[d].pc = "rollback" /\ call'[d].slot = k
  BY <1>2, <1>5 DEF Ends, Goes, Only, At
<1>6. \A d \in Caller : call'[d].pc # "idle" =>
        /\ ~Unconfirmed(call'[d])
        /\ Placed(call'[d]) => call'[d].slot = k
        /\ ~Copied(call'[d])
        /\ call'[d].pc # "forget"
  BY <1>5 DEF Unconfirmed, Copied, CopyControl, Saving, Placed, AddingControl, Preparing, Undoing
<1> QED
  BY <1>1, <1>3, <1>4, <1>6 DEF Confirmed, NoJob, At

\* A step that leaves the confirmed slot of a person keeps what is known of it: the
\* record of the person.
LEMMA ConfirmedRecord ==
  ASSUME Shape, Order, [Next]_vars, NEW p \in Person, NEW k \in Slot, Confirmed(p, k)
  PROVE  /\ meta'[p] # None => meta'[p].slot = k
         /\ meta'[p] = None => holds[k] # p
<1>1. CASE meta'[p] = meta[p]
  BY <1>1 DEF Confirmed
<1>2. ASSUME NEW c \in Caller, Subject(c) = p, RecordMetadata(c) \/ Compensate(c) PROVE FALSE
  BY <1>2 DEF RecordMetadata, Compensate, At, Confirmed, Unconfirmed, Preparing
<1>3. ASSUME NEW c \in Caller, Subject(c) = p, SaveMetadata(c), meta'[p].slot = call[c].meta.slot
      PROVE  meta'[p].slot = k
  <2>1. call[c].pc = "save" /\ RecordOf(c, call[c])
    BY <1>3, Running DEF SaveMetadata, At
  <2>2. CASE Placed(call[c])
    BY <1>3, <2>1, <2>2 DEF Confirmed, At, RecordOf, Saving
  <2>3. CASE ~Placed(call[c])
    BY <1>3, <2>1, <2>3 DEF Confirmed, At, Copied, CopyControl, Saving
  <2> QED
    BY <2>2, <2>3
<1>4. ASSUME NEW c \in Caller, Subject(c) = p, ForgetAccess(c) PROVE holds[k] # p
  BY <1>4 DEF ForgetAccess, At, Confirmed
<1>5. ASSUME NEW v \in Verifier, job[v] # None, job[v].person = p
      PROVE  DropMetadata(v) => holds[k] # p /\ job[v].meta.slot = k
  BY <1>5 DEF DropMetadata, Verifying, Confirmed
<1>6. CASE Restart
  BY <1>6, Restarts DEF Confirmed
<1>7. \A v \in Verifier : job[v] # None /\ job[v].person = p => job[v].meta.slot = k
  BY DEF Confirmed
<1> QED
  BY <1>1, <1>2, <1>3, <1>4, <1>5, <1>6, <1>7, MetaSteps

\* The same of the slot: the PIN does not come back.
LEMMA ConfirmedSlot ==
  ASSUME Shape, [Next]_vars, ~disturbed', NEW p \in Person, NEW k \in Slot, Confirmed(p, k)
  PROVE  holds'[k] = p => holds[k] = p
<1>1. CASE holds' = holds
  BY <1>1
<1>2. CASE Deliver
  <2>1. CASE \A i \in Slot : holds'[i] = holds[i] \/ (i = Head(air).slot /\ holds'[i] = None)
    BY <2>1, Assumptions DEF Assumptions
  <2>2. CASE /\ Awaited /\ holds' = [holds EXCEPT ![Head(air).slot] = Head(air).pin]
    <3>1. PICK c \in Caller : At(c, "readback") /\ Subject(c) = Head(air).pin
      BY <2>2 DEF Awaited
    <3>2. Subject(c) # p
      BY <3>1 DEF Confirmed, At, Unconfirmed, Preparing
    <3>3. holds \in [Slot -> Person \cup {None}]
      BY DEF Shape, TypeOK
    <3> QED
      BY <2>2, <3>1, <3>2, <3>3
  <2> QED
    BY <1>2, <2>1, <2>2, DeliveredUndisturbed
<1> QED
  BY <1>1, <1>2, LockSteps

\* The same of the verifiers of the person.
LEMMA ConfirmedJobs ==
  ASSUME Shape, [Next]_vars, ~disturbed', NEW p \in Person, NEW k \in Slot, Confirmed(p, k),
         NEW v \in Verifier, job'[v] # None, job'[v].person = p
  PROVE  /\ job'[v].meta.slot = k
         /\ job'[v].pc \in {"drop_grant", "drop_metadata"} => holds[k] # p
<1>1. CASE job'[v] = job[v]
  BY <1>1 DEF Confirmed
<1>2. CASE /\ job[v] # None
           /\ job'[v].person = job[v].person /\ job'[v].meta = job[v].meta
           /\ job'[v].pc \in {"drop_grant", "drop_metadata"} =>
                \/ job[v].pc = "drop_grant"
                \/ holds[job[v].meta.slot] = None
  BY <1>2, Assumptions DEF Confirmed, Assumptions
<1>3. CASE /\ "manage" \in Caller /\ call["manage"].pc \in {"schedule", "verify"}
           /\ job'[v].person = call["manage"].person
           /\ job'[v].meta = call["manage"].meta /\ job'[v].pc = "read"
  BY <1>3 DEF Confirmed, At, Subject, Copied, Placed, CopyControl, Saving, AddingControl,
     Preparing, Undoing
<1>4. CASE /\ v \in Person /\ meta[v] # None
           /\ job'[v].person = v /\ job'[v].meta = meta[v] /\ job'[v].pc = "read"
  BY <1>4 DEF Confirmed
<1> QED
  BY <1>1, <1>2, <1>3, <1>4, JobSteps

\* The same of the calls on the person.
LEMMA ConfirmedCalls ==
  ASSUME Shape, [Next]_vars, ~disturbed', NEW p \in Person, NEW k \in Slot, Confirmed(p, k),
         \A c \in Caller : ~BeginAdding(c, p),
         NEW c \in Caller, call'[c].pc # "idle", call'[c].person = p
  PROVE  /\ ~Unconfirmed(call'[c])
         /\ Placed(call'[c]) => call'[c].slot = k
         /\ Copied(call'[c]) => call'[c].meta.slot = k
         /\ call'[c].pc = "forget" => holds[k] # p
<1> USE DEF Unconfirmed, Placed, Copied, CopyControl, Saving, AddingControl, Preparing, Undoing,
        At, Subject
<1>1. CASE call'[c] = call[c]
  BY <1>1 DEF Confirmed
<1>2. CASE BeginMove(c)
  <2>1. /\ meta[p] # None /\ call'[c].meta = meta[p]
        /\ call'[c].pc \in {"removing", "check", "confirm"}
    BY <1>2 DEF BeginMove
  <2> QED
    BY <2>1 DEF Confirmed
<1>3. CASE AddMove(c)
  <2>1. call[c].pc # "idle" /\ call[c].person = p
    BY <1>3 DEF AddMove, Goes, Saves, ChooseSlot, ProgramSlot, ReadBack, RecordMetadata,
       CompleteRecord, Compensate, RollBack, Unprogram, ReadEmptied
  <2>2. ~Unconfirmed(call[c]) /\ (Placed(call[c]) => call[c].slot = k)
    BY <2>1 DEF Confirmed
  <2>3. p # None
    BY Assumptions DEF Assumptions
  <2> QED
    BY <1>3, <2>1, <2>2, <2>3 DEF AddMove, Goes, Saves, ChooseSlot, ProgramSlot, ReadBack,
       RecordMetadata, CompleteRecord, Compensate, RollBack, Unprogram, ReadEmptied
<1>4. CASE SaveMove(c)
  <2>1. call[c].pc \in Saving /\ call[c].person = p /\ call[c].after \in After
    BY <1>4 DEF SaveMove, Goes, SaveMetadata, SaveGrant, Shape, TypeOK, Calls
  <2>2. /\ Placed(call[c]) => call[c].slot = k
        /\ Copied(call[c]) => call[c].meta.slot = k
    BY <2>1 DEF Confirmed
  <2> QED
    BY <1>4, <2>1, <2>2 DEF SaveMove, Goes, SaveMetadata, SaveGrant, After
<1>5. CASE CopyMove(c)
  <2>1. /\ Copied(call[c]) /\ call[c].person = p
        /\ call'[c].meta = call[c].meta /\ Copied(call'[c])
    BY <1>5 DEF CopyMove, Goes, Saves, RemoveAccess, ClearSlot, CheckRemoved, CheckOwnership,
       ClearAgain, VerifyInline, ConfirmProvisioning
  <2> QED
    BY <2>1 DEF Confirmed
<1> QED
  BY <1>1, <1>2, <1>3, <1>4, <1>5, CallSteps

\* Every step that is not disturbed keeps the slots in which access was confirmed.
LEMMA ConfirmationsNext ==
  ASSUME Shape, Order, Confirmations, [Next]_vars, ~disturbed'
  PROVE  Confirmations'
<1> SUFFICES ASSUME NEW p \in Person, confirmed'[p] # 0
             PROVE  Confirmed(p, confirmed[p])'
  BY DEF Confirmations
<1>1. ASSUME NEW c \in Caller, CompleteRecord(c), Subject(c) = p,
             confirmed'[p] = call[c].slot, Ends(c) \/ Goes(c, "rollback")
      PROVE  Confirmed(p, confirmed[p])'
  BY <1>1, ConfirmedAnew
<1>2. CASE confirmed'[p] = confirmed[p] /\ \A c \in Caller : ~BeginAdding(c, p)
  <2> PICK k \in Slot : k = confirmed[p]
    BY <1>2, Assumptions DEF Assumptions, Shape, TypeOK, Slot
  <2>1. Confirmed(p, k)
    BY <1>2 DEF Confirmations
  <2>2. /\ meta'[p] # None => meta'[p].slot = k
        /\ meta'[p] = None => holds[k] # p
        /\ holds'[k] = p => holds[k] = p
    BY <2>1, ConfirmedRecord, ConfirmedSlot
  <2>3. \A v \in Verifier : job'[v] # None /\ job'[v].person = p =>
          /\ job'[v].meta.slot = k
          /\ job'[v].pc \in {"drop_grant", "drop_metadata"} => holds'[k] # p
    BY <2>1, <2>2, ConfirmedJobs
  <2>4. \A c \in Caller : call'[c].pc # "idle" /\ call'[c].person = p =>
          /\ ~Unconfirmed(call'[c])
          /\ Placed(call'[c]) => call'[c].slot = k
          /\ Copied(call'[c]) => call'[c].meta.slot = k
          /\ call'[c].pc = "forget" => holds'[k] # p
    BY <1>2, <2>1, <2>2, ConfirmedCalls
  <2>5. confirmed'[p] = k
    BY <1>2
  <2> QED
    BY <2>2, <2>3, <2>4, <2>5 DEF Confirmed, At, Subject, Unconfirmed, Placed, Copied
<1> QED
  BY <1>1, <1>2, ConfirmedSteps

-----------------------------------------------------------------------------
(* The theorems                                                             *)

\* The invariant at the start
LEMMA IInvInit == Init => IInv
<1> SUFFICES ASSUME Init PROVE IInv
  OBVIOUS
<1>1. Shape /\ Order
  BY ShapeInit, OrderInit
<1>2. \A c \in Caller : call[c].pc = "idle"
  BY Idle DEF Init
<1>3. SlotsApart /\ Clears /\ Lock /\ SynchronizedOnLock
  BY <1>2, Assumptions DEF Assumptions, Init, SlotsApart, Clears, Lock, SynchronizedOnLock,
     Standing, At
<1>4. Confirmations
  BY DEF Init, Confirmations
<1> QED
  BY <1>1, <1>3, <1>4 DEF IInv

\* Every step keeps the invariant.
LEMMA IInvNext == IInv /\ [Next]_vars => IInv'
<1> SUFFICES ASSUME IInv, [Next]_vars PROVE IInv'
  OBVIOUS
<1>1. Shape' /\ SlotsApart'
  BY ShapeNext, ApartNext DEF IInv
<1>2. ASSUME ~disturbed'
      PROVE  (Order /\ Clears /\ Lock /\ SynchronizedOnLock /\ Confirmations)'
  <2>1. ~disturbed
    <3>1. CASE Next
      BY <1>2, <3>1, Undisturbed, Zenon
    <3>2. CASE UNCHANGED vars
      <4>1. disturbed' = disturbed
        BY <3>2 DEF vars, history
      <4> QED
        BY <1>2, <4>1, Zenon
    <3> QED
      BY <3>1, <3>2
  <2>2. /\ Shape /\ SlotsApart
        /\ Order /\ Clears /\ Lock /\ SynchronizedOnLock /\ Confirmations
    BY <2>1, Zenon DEF IInv
  <2>3. Order'
    BY <1>2, <2>2, OrderNext
  <2>4. Clears'
    BY <1>2, <2>2, <2>3, ClearsNext
  <2>5. Lock' /\ SynchronizedOnLock'
    BY <1>2, <2>2, <2>3, LockNext
  <2>6. Confirmations'
    BY <1>2, <2>2, ConfirmationsNext
  <2> QED
    BY <2>3, <2>4, <2>5, <2>6
<1> QED
  BY <1>1, <1>2, Zenon DEF IInv

\* The invariant holds in every state.
LEMMA Invariance == Spec => []IInv
<1>1. Init => IInv
  BY IInvInit
<1>2. IInv /\ [Next]_vars => IInv'
  BY IInvNext
<1> QED
  BY <1>1, <1>2, PTL DEF Spec

\* Access that counts as synchronized works, in whatever order the calls of the two
\* services, the verifiers, the lock and failed writes take their steps.
THEOREM Works == Spec => []SynchronizedWorks
<1>1. IInv => SynchronizedWorks
  BY DEF IInv, SynchronizedWorks, SynchronizedOnLock
<1> QED
  BY <1>1, Invariance, PTL

\* A PIN that was read back and recorded stays on record while it is on the lock.
THEOREM StaysRecorded == Spec => []ConfirmedStaysRecorded
<1>1. IInv => ConfirmedStaysRecorded
  <2> SUFFICES ASSUME IInv, ~disturbed, NEW p \in Person, NEW k \in Slot,
                      confirmed[p] = k, holds[k] = p
               PROVE  meta[p] # None /\ meta[p].slot = k
    BY DEF ConfirmedStaysRecorded
  <2>1. confirmed[p] # 0
    BY Assumptions DEF Assumptions, Slot
  <2> QED
    BY <2>1 DEF IInv, Confirmations, Confirmed
<1> QED
  BY <1>1, Invariance, PTL

\* Saving the same selection again never repeats the clear of a slot.
THEOREM Cleared == Spec => []ClearedBySaveOnce
<1>1. IInv => ClearedBySaveOnce
  BY DEF IInv, ClearedBySaveOnce, Clears
<1> QED
  BY <1>1, Invariance, PTL
=============================================================================
