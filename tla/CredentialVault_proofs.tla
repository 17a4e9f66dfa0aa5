------------------------ MODULE CredentialVault_proofs ------------------------
(***************************************************************************)
(* Proofs about CredentialVault, for every set of credentials, handles,    *)
(* secrets and keys.                                                       *)
(***************************************************************************)
EXTENDS CredentialVault, TLAPS

\* Identifiers that the data mentions have been generated.
MintedIn(d, m) ==
  /\ \A c \in Credential : Exists(d, c) => c \in m
  /\ \A h \in Handle : d.staged[h] # None => h \in m
  /\ \A h \in Handle : d.receipts[h] # None => h \in m /\ d.receipts[h].cred \in m

DataInv(d) ==
  /\ RevisionsLoad(d) /\ StagesCurrent(d) /\ ReceiptsDistinct(d)

IInv ==
  /\ TypeOK
  /\ DataInv(Stored)
  /\ MintedIn(Stored, minted)
  /\ cache # None => file.schema = CurrentSchema /\ cache = file.data
  /\ Unlocked => cache # None /\ cipher \in Key /\ rootKey \in {None, cipher}
  /\ Decryptable

-----------------------------------------------------------------------------
(* The mutations keep the data well-formed.                                 *)

\* Storing a credential under a fresh identifier.
LEMMA StoreLemma ==
  ASSUME NEW d \in EnvelopeState, DataInv(d), NEW m, MintedIn(d, m),
         NEW c \in Credential, c \notin m, NEW e \in Envelope
  PROVE  LET n == StoreEnvelope(d, c, e)
         IN  n \in EnvelopeState /\ DataInv(n) /\ MintedIn(n, m \cup {c})
<1> DEFINE n == StoreEnvelope(d, c, e)
<1>1. n \in EnvelopeState
  <2>1. [d.env EXCEPT ![c] = e] \in [Credential -> Envelope \cup {None}]
    BY DEF EnvelopeState
  <2>2. [d.rev EXCEPT ![c] = d.rev[c] + 1] \in [Credential -> Nat]
    BY DEF EnvelopeState
  <2> QED BY <2>1, <2>2 DEF StoreEnvelope, EnvelopeState
<1>2. ~Exists(d, c) /\ d.rev[c] = 0
  BY DEF MintedIn, DataInv, RevisionsLoad, EnvelopeState
<1>3. /\ \A b \in Credential \ {c} : n.env[b] = d.env[b] /\ n.rev[b] = d.rev[b]
      /\ n.env[c] = e /\ n.rev[c] = 1
      /\ n.staged = d.staged /\ n.receipts = d.receipts
  BY <1>2 DEF StoreEnvelope, EnvelopeState
<1>4. e # None
  BY NoneAssumption DEF Envelope
<1>5. RevisionsLoad(n)
  BY <1>1, <1>3, <1>4 DEF DataInv, RevisionsLoad, Exists, EnvelopeState
<1>6. StagesCurrent(n)
  BY <1>1, <1>2, <1>3, NoneAssumption DEF DataInv, StagesCurrent, Exists, StagedFor, EnvelopeState, StagedSecret
<1>7. ReceiptsDistinct(n)
  BY <1>1, <1>3 DEF DataInv, MintedIn, ReceiptsDistinct, Exists, EnvelopeState, PromotionReceipt
<1>8. MintedIn(n, m \cup {c})
  BY <1>3 DEF MintedIn, Exists
<1> QED BY <1>1, <1>5, <1>6, <1>7, <1>8 DEF DataInv

\* Deleting a credential takes its stages with it.
LEMMA DeleteLemma ==
  ASSUME NEW d \in EnvelopeState, DataInv(d), NEW m, MintedIn(d, m),
         NEW c \in Credential
  PROVE  LET n == DeleteEnvelope(d, c)
         IN  n \in EnvelopeState /\ DataInv(n) /\ MintedIn(n, m)
<1> DEFINE n == DeleteEnvelope(d, c)
<1>1. n \in EnvelopeState
  <2>1. [d.env EXCEPT ![c] = None] \in [Credential -> Envelope \cup {None}]
    BY DEF EnvelopeState
  <2>2. [d.rev EXCEPT ![c] = 0] \in [Credential -> Nat]
    BY DEF EnvelopeState
  <2>3. [h \in Handle |-> IF StagedFor(d, h, c) THEN None ELSE d.staged[h]]
          \in [Handle -> StagedSecret \cup {None}]
    BY DEF EnvelopeState
  <2> QED BY <2>1, <2>2, <2>3 DEF DeleteEnvelope, EnvelopeState
<1>2. /\ \A b \in Credential \ {c} : n.env[b] = d.env[b] /\ n.rev[b] = d.rev[b]
      /\ n.env[c] = None /\ n.rev[c] = 0
      /\ \A h \in Handle : n.staged[h] = IF StagedFor(d, h, c) THEN None ELSE d.staged[h]
      /\ n.receipts = d.receipts
  BY DEF DeleteEnvelope, EnvelopeState
<1>3. RevisionsLoad(n)
  BY <1>1, <1>2 DEF DataInv, RevisionsLoad, Exists, EnvelopeState
<1>4. StagesCurrent(n)
  <2> SUFFICES ASSUME NEW h \in Handle, n.staged[h] # None
               PROVE  /\ Exists(n, n.staged[h].cred)
                      /\ n.staged[h].expected = n.rev[n.staged[h].cred]
                      /\ n.receipts[h] = None
                      /\ \A g \in Handle : StagedFor(n, g, n.staged[h].cred) => g = h
    BY DEF StagesCurrent
  <2>1. n.staged[h] = d.staged[h] /\ d.staged[h] # None /\ d.staged[h].cred # c
    BY <1>2 DEF StagedFor
  <2>2. d.staged[h].cred \in Credential \ {c}
    BY <2>1 DEF EnvelopeState, StagedSecret
  <2>3. \A g \in Handle : StagedFor(n, g, d.staged[h].cred) => StagedFor(d, g, d.staged[h].cred)
    BY <1>2 DEF StagedFor
  <2> QED BY <1>2, <2>1, <2>2, <2>3 DEF DataInv, StagesCurrent, Exists
<1>5. ReceiptsDistinct(n)
  BY <1>1, <1>2 DEF DataInv, ReceiptsDistinct, Exists, EnvelopeState, PromotionReceipt
<1>6. MintedIn(n, m)
  BY <1>2 DEF MintedIn, Exists
<1> QED BY <1>1, <1>3, <1>4, <1>5, <1>6 DEF DataInv

\* Staging under a fresh handle.
LEMMA StageLemma ==
  ASSUME NEW d \in EnvelopeState, DataInv(d), NEW m, MintedIn(d, m),
         NEW c \in Credential, NEW h \in Handle, h \notin m,
         CanStage(d, h, c, d.rev[c]), NEW e \in Envelope
  PROVE  LET n == Stage(d, h, c, d.rev[c], e)
         IN  n \in EnvelopeState /\ DataInv(n) /\ MintedIn(n, m \cup {h})
<1> DEFINE n == Stage(d, h, c, d.rev[c], e)
           new == [cred |-> c, expected |-> d.rev[c], env |-> e]
<1>1. new \in StagedSecret /\ new # None
  BY NoneAssumption DEF StagedSecret, EnvelopeState, Envelope
<1>2. n \in EnvelopeState
  <2>1. [d.staged EXCEPT ![h] = new] \in [Handle -> StagedSecret \cup {None}]
    BY <1>1 DEF EnvelopeState
  <2> QED BY <2>1 DEF Stage, EnvelopeState
<1>3. /\ n.env = d.env /\ n.rev = d.rev /\ n.receipts = d.receipts
      /\ n.staged[h] = new
      /\ \A g \in Handle \ {h} : n.staged[g] = d.staged[g]
  BY DEF Stage, EnvelopeState
<1>4. RevisionsLoad(n)
  BY <1>3 DEF DataInv, RevisionsLoad, Exists
<1>5. StagesCurrent(n)
  <2> SUFFICES ASSUME NEW g \in Handle, n.staged[g] # None
               PROVE  /\ Exists(n, n.staged[g].cred)
                      /\ n.staged[g].expected = n.rev[n.staged[g].cred]
                      /\ n.receipts[g] = None
                      /\ \A k \in Handle : StagedFor(n, k, n.staged[g].cred) => k = g
    BY DEF StagesCurrent
  <2>1. CASE g = h
    BY <1>3, <2>1 DEF CanStage, StagedFor, Exists
  <2>2. CASE g # h
    <3>1. n.staged[g] = d.staged[g] /\ d.staged[g] # None
      BY <1>3, <2>2
    <3>2. d.staged[g].cred # c
      BY <3>1 DEF CanStage, StagedFor
    <3> QED BY <1>3, <2>2, <3>1, <3>2 DEF DataInv, StagesCurrent, StagedFor, Exists
  <2> QED BY <2>1, <2>2
<1>6. ReceiptsDistinct(n)
  BY <1>3 DEF DataInv, ReceiptsDistinct, Exists
<1>7. MintedIn(n, m \cup {h})
  BY <1>3 DEF MintedIn, Exists
<1> QED BY <1>2, <1>4, <1>5, <1>6, <1>7 DEF DataInv

\* Promotion consumes the stage and answers with the next revision.
LEMMA PromoteLemma ==
  ASSUME NEW d \in EnvelopeState, DataInv(d), NEW m, MintedIn(d, m),
         NEW h \in Handle, CanPromote(d, h), NEW e \in Envelope
  PROVE  LET n == Promote(d, h, e)
         IN  n \in EnvelopeState /\ DataInv(n) /\ MintedIn(n, m)
<1> DEFINE n == Promote(d, h, e)
           c == d.staged[h].cred
           r == d.staged[h].expected + 1
           new == [cred |-> c, rev |-> r]
<1>1. c \in Credential /\ r \in Nat /\ d.rev[c] \in Nat /\ r = d.rev[c] + 1 /\ d.rev[c] >= 1
  BY DEF CanPromote, EnvelopeState, StagedSecret, DataInv, RevisionsLoad
<1>2. new \in PromotionReceipt /\ new # None
  BY <1>1, NoneAssumption DEF PromotionReceipt
<1>3. n = [env      |-> [d.env EXCEPT ![c] = e],
           rev      |-> [d.rev EXCEPT ![c] = r],
           staged   |-> [d.staged EXCEPT ![h] = None],
           receipts |-> [d.receipts EXCEPT ![h] = new]]
  BY DEF Promote
<1>4. n \in EnvelopeState
  <2>1. [d.env EXCEPT ![c] = e] \in [Credential -> Envelope \cup {None}]
    BY <1>1 DEF EnvelopeState
  <2>2. [d.rev EXCEPT ![c] = r] \in [Credential -> Nat]
    BY <1>1 DEF EnvelopeState
  <2>3. [d.staged EXCEPT ![h] = None] \in [Handle -> StagedSecret \cup {None}]
    BY DEF EnvelopeState
  <2>4. [d.receipts EXCEPT ![h] = new] \in [Handle -> PromotionReceipt \cup {None}]
    BY <1>2 DEF EnvelopeState
  <2> HIDE DEF n, new, c, r
  <2> QED BY <1>3, <2>1, <2>2, <2>3, <2>4 DEF EnvelopeState
<1>5. /\ \A b \in Credential \ {c} : n.env[b] = d.env[b] /\ n.rev[b] = d.rev[b]
      /\ n.env[c] = e /\ n.rev[c] = r
      /\ n.staged[h] = None /\ n.receipts[h] = new
      /\ \A g \in Handle \ {h} : n.staged[g] = d.staged[g] /\ n.receipts[g] = d.receipts[g]
  BY <1>1, <1>3 DEF EnvelopeState
<1>6. e # None
  BY NoneAssumption DEF Envelope
<1> HIDE DEF n
<1>7. RevisionsLoad(n)
  BY <1>1, <1>5, <1>6 DEF DataInv, RevisionsLoad, Exists
<1>8. StagesCurrent(n)
  <2> SUFFICES ASSUME NEW g \in Handle, n.staged[g] # None
               PROVE  /\ Exists(n, n.staged[g].cred)
                      /\ n.staged[g].expected = n.rev[n.staged[g].cred]
                      /\ n.receipts[g] = None
                      /\ \A k \in Handle : StagedFor(n, k, n.staged[g].cred) => k = g
    BY DEF StagesCurrent
  <2>1. g # h /\ n.staged[g] = d.staged[g] /\ d.staged[g] # None
    BY <1>5
  <2>2. d.staged[g].cred \in Credential \ {c}
    BY <2>1 DEF DataInv, StagesCurrent, StagedFor, CanPromote, EnvelopeState, StagedSecret
  <2> QED BY <1>5, <2>1, <2>2 DEF DataInv, StagesCurrent, StagedFor, Exists
<1>9. ReceiptsDistinct(n)
  <2> SUFFICES ASSUME NEW g \in Handle, n.receipts[g] # None
               PROVE  /\ Exists(n, n.receipts[g].cred) =>
                           n.receipts[g].rev <= n.rev[n.receipts[g].cred]
                      /\ \A k \in Handle : n.receipts[k] = n.receipts[g] => k = g
    BY DEF ReceiptsDistinct
  <2>1. \A k \in Handle \ {h} :
          d.receipts[k] # None => /\ d.receipts[k] \in PromotionReceipt
                                  /\ d.receipts[k] # new
    BY <1>1 DEF DataInv, ReceiptsDistinct, EnvelopeState, PromotionReceipt, CanPromote
  <2>2. CASE g = h
    BY <1>1, <1>2, <1>5, <2>1, <2>2
  <2>3. CASE g # h
    <3>1. n.receipts[g] = d.receipts[g] /\ d.receipts[g].cred \in Credential
          /\ d.receipts[g].rev \in Nat
      BY <1>5, <2>1, <2>3 DEF PromotionReceipt
    <3>2. Exists(n, n.receipts[g].cred) => n.receipts[g].rev <= n.rev[n.receipts[g].cred]
      BY <1>1, <1>5, <3>1, <2>3 DEF DataInv, ReceiptsDistinct, Exists, CanPromote
    <3>3. \A k \in Handle : n.receipts[k] = n.receipts[g] => k = g
      BY <1>2, <1>5, <2>1, <2>3, <3>1 DEF DataInv, ReceiptsDistinct
    <3> QED BY <3>2, <3>3
  <2> QED BY <2>2, <2>3
<1>10. MintedIn(n, m)
  BY <1>1, <1>2, <1>5 DEF MintedIn, CanPromote, Exists
<1> QED BY <1>4, <1>7, <1>8, <1>9, <1>10 DEF DataInv, n

\* Discarding a stage.
LEMMA DiscardLemma ==
  ASSUME NEW d \in EnvelopeState, DataInv(d), NEW m, MintedIn(d, m),
         NEW h \in Handle
  PROVE  LET n == Discard(d, h)
         IN  n \in EnvelopeState /\ DataInv(n) /\ MintedIn(n, m)
<1> DEFINE n == Discard(d, h)
<1>1. n \in EnvelopeState
  BY DEF Discard, EnvelopeState
<1>2. /\ n.env = d.env /\ n.rev = d.rev /\ n.receipts = d.receipts
      /\ n.staged[h] = None
      /\ \A g \in Handle \ {h} : n.staged[g] = d.staged[g]
  BY DEF Discard, EnvelopeState
<1>3. RevisionsLoad(n)
  BY <1>2 DEF DataInv, RevisionsLoad, Exists
<1>4. StagesCurrent(n)
  BY <1>2 DEF DataInv, StagesCurrent, StagedFor, Exists
<1>5. ReceiptsDistinct(n)
  BY <1>2 DEF DataInv, ReceiptsDistinct, Exists
<1>6. MintedIn(n, m)
  BY <1>2 DEF MintedIn, Exists
<1> QED BY <1>1, <1>3, <1>4, <1>5, <1>6 DEF DataInv

-----------------------------------------------------------------------------
(* What the loader makes of a file.                                         *)

LEMMA DecodedLemma ==
  ASSUME NEW f \in [schema : 1..CurrentSchema, data : EnvelopeState]
  PROVE  /\ Decoded(f) \in EnvelopeState
         /\ Decoded([schema |-> CurrentSchema, data |-> Decoded(f)]) = Decoded(f)
         /\ f.schema = CurrentSchema => Decoded(f) = f.data
<1>1. CASE f.schema = 1
  <2> DEFINE rev == [c \in Credential |-> IF f.data.env[c] = None THEN 0 ELSE 1]
  <2>1. /\ f.data.env \in [Credential -> Envelope \cup {None}]
        /\ rev \in [Credential -> Nat]
        /\ [h \in Handle |-> None] \in [Handle -> StagedSecret \cup {None}]
        /\ [h \in Handle |-> None] \in [Handle -> PromotionReceipt \cup {None}]
    BY DEF EnvelopeState
  <2>2. Decoded(f) = [env |-> f.data.env, rev |-> rev,
                      staged |-> [h \in Handle |-> None],
                      receipts |-> [h \in Handle |-> None]]
    BY <1>1 DEF Decoded, EmptyState
  <2> HIDE DEF rev
  <2>3. Decoded(f) \in EnvelopeState
    BY <2>1, <2>2 DEF EnvelopeState
  <2> QED BY <1>1, <2>3 DEF Decoded, CurrentSchema
<1>2. CASE f.schema # 1
  BY <1>2 DEF Decoded, CurrentSchema
<1> QED BY <1>1, <1>2

\* A save of well-formed data by an unlocked vault.
LEMMA SaveLemma ==
  ASSUME IInv, Unlocked, NEW n \in EnvelopeState, DataInv(n),
         MintedIn(n, minted'), minted \subseteq minted',
         minted' \subseteq Credential \cup Handle \cup Key,
         SealedWith(n, cipher), Save(n), UNCHANGED <<rootKey, cipher>>,
         status' = status
  PROVE  IInv'
<1>1. CASE file' = [schema |-> CurrentSchema, data |-> n] /\ cache' = n
  <2>1. TypeOK'
    BY <1>1 DEF IInv, TypeOK, CurrentSchema
  <2>2. Stored' = n
    BY <1>1 DEF Stored, Decoded, CurrentSchema
  <2>3. Decryptable'
    BY <2>2 DEF IInv, Decryptable, Unlocked
  <2>4. cache' # None => file'.schema = CurrentSchema /\ cache' = file'.data
    BY <1>1
  <2>5. cache' # None
    BY <1>1, NoneAssumption
  <2> QED BY <2>1, <2>2, <2>3, <2>4, <2>5 DEF IInv, Unlocked
<1>2. CASE UNCHANGED <<file, cache>>
  <2>1. TypeOK'
    BY <1>2 DEF IInv, TypeOK
  <2>2. Stored' = Stored
    BY <1>2 DEF Stored
  <2>3. MintedIn(Stored, minted')
    BY DEF IInv, MintedIn
  <2> QED BY <1>2, <2>1, <2>2, <2>3 DEF IInv, Decryptable, Unlocked
<1> QED BY <1>1, <1>2 DEF Save

-----------------------------------------------------------------------------
(* The inductive invariant.                                                 *)

LEMMA InitInv == Init => IInv
<1> SUFFICES ASSUME Init PROVE IInv
  OBVIOUS
<1>1. cache = None /\ cipher = None /\ status = "uninitialized"
  BY DEF Init
<1>2. CASE /\ rootKey = None
           /\ file = [schema |-> CurrentSchema, data |-> EmptyState]
           /\ minted = {}
  <2>1. EmptyState \in EnvelopeState
    BY DEF EmptyState, EnvelopeState
  <2>2. TypeOK
    BY <1>1, <1>2, <2>1 DEF TypeOK, Status, CurrentSchema
  <2>3. Stored = EmptyState
    BY <1>2 DEF Stored, Decoded, CurrentSchema
  <2>4. DataInv(EmptyState) /\ MintedIn(EmptyState, minted)
    BY DEF EmptyState, DataInv, RevisionsLoad, StagesCurrent, ReceiptsDistinct, MintedIn, Exists
  <2> QED BY <1>1, <1>2, <2>2, <2>3, <2>4 DEF IInv, Decryptable, Unlocked
<1>3. ASSUME NEW k \in Key, NEW C \in SUBSET Credential, NEW v \in 1..2,
             NEW f \in [Credential -> Secret],
             rootKey = k,
             file = [schema |-> v,
                     data |-> [EmptyState EXCEPT
                       !.env = [c \in Credential |->
                                  IF c \in C THEN [secret |-> f[c], key |-> k] ELSE None],
                       !.rev = [c \in Credential |-> IF c \in C /\ v = 2 THEN 1 ELSE 0]]],
             minted = C \cup {k}
      PROVE  IInv
  <2> DEFINE env == [c \in Credential |->
                       IF c \in C THEN [secret |-> f[c], key |-> k] ELSE None]
             rev == [c \in Credential |-> IF c \in C THEN 1 ELSE 0]
             old == [c \in Credential |-> IF c \in C /\ v = 2 THEN 1 ELSE 0]
             none == [h \in Handle |-> None]
  <2>1. file.schema = v /\ file.data = [env |-> env, rev |-> old, staged |-> none, receipts |-> none]
    BY <1>3 DEF EmptyState
  <2>2. file = [schema |-> file.schema, data |-> file.data]
    BY <1>3
  <2>3. /\ env \in [Credential -> Envelope \cup {None}]
        /\ rev \in [Credential -> Nat] /\ old \in [Credential -> Nat]
        /\ none \in [Handle -> StagedSecret \cup {None}]
        /\ none \in [Handle -> PromotionReceipt \cup {None}]
    BY DEF Envelope
  <2>4. \A c \in Credential : (env[c] # None <=> c \in C) /\ (rev[c] >= 1 <=> c \in C)
                              /\ (c \in C => env[c].key = k)
    BY NoneAssumption DEF Envelope
  <2>5. v = 2 => old = rev
    OBVIOUS
  <2>6. v = 1 => rev = [c \in Credential |-> IF env[c] = None THEN 0 ELSE 1]
    BY <2>4
  <2>7. \A h \in Handle : none[h] = None
    OBVIOUS
  <2> HIDE DEF env, rev, old, none
  <2>8. file.data \in EnvelopeState
    BY <2>1, <2>3 DEF EnvelopeState
  <2>9. TypeOK
    BY <1>1, <1>3, <2>1, <2>2, <2>8 DEF TypeOK, Status, CurrentSchema
  <2>10. /\ Stored.env = env /\ Stored.rev = rev
         /\ \A h \in Handle : Stored.staged[h] = None /\ Stored.receipts[h] = None
    <3>1. CASE v = 1
      BY <2>1, <2>6, <3>1 DEF Stored, Decoded, EmptyState
    <3>2. CASE v = 2
      BY <2>1, <2>5, <2>7, <3>2 DEF Stored, Decoded
    <3> QED BY <3>1, <3>2
  <2>11. DataInv(Stored)
    BY <2>4, <2>10 DEF DataInv, RevisionsLoad, StagesCurrent, ReceiptsDistinct, Exists
  <2>12. MintedIn(Stored, minted)
    BY <1>3, <2>4, <2>10 DEF MintedIn, Exists
  <2>13. SealedWith(Stored, k)
    BY <2>4, <2>10 DEF SealedWith
  <2> QED BY <1>1, <1>3, <2>9, <2>11, <2>12, <2>13 DEF IInv, Decryptable, Unlocked
<1> QED BY <1>2, <1>3 DEF Init

\* A step keeps the invariant: one step of the proof per action.
LEMMA NextInv == IInv /\ [Next]_vars => IInv'
<1> SUFFICES ASSUME IInv, [Next]_vars PROVE IInv'
  OBVIOUS
<1> USE DEF Unlocked
<1>1. /\ file \in [schema : 1..CurrentSchema, data : EnvelopeState]
      /\ Stored \in EnvelopeState
      /\ cache # None => cache = Stored
  BY DecodedLemma DEF IInv, TypeOK, Stored
<1>2. ASSUME Unlocked
      PROVE  /\ cache \in EnvelopeState /\ DataInv(cache) /\ MintedIn(cache, minted)
             /\ cipher \in Key /\ SealedWith(cache, cipher)
             /\ minted \subseteq Credential \cup Handle \cup Key
  BY <1>1, <1>2 DEF IInv, Decryptable, TypeOK
<1>3. CASE ListEnvelopes
  <2>1. Stored' = Stored
    BY <1>1, <1>3, DecodedLemma DEF ListEnvelopes, Stored
  <2>2. TypeOK' /\ ~Unlocked'
    BY <1>1, <1>3 DEF ListEnvelopes, Initializing, IInv, TypeOK, Status, Stored, CurrentSchema
  <2>3. cache' # None => file'.schema = CurrentSchema /\ cache' = file'.data
    BY <1>3 DEF ListEnvelopes, IInv
  <2>4. Decryptable'
    BY <1>3, <2>1, <2>2 DEF ListEnvelopes, IInv, Decryptable
  <2> QED BY <1>3, <2>1, <2>2, <2>3, <2>4 DEF ListEnvelopes, IInv
<1>4. CASE Unlock
  <2>1. Stored' = Stored
    BY <1>4 DEF Unlock, Stored
  <2>2. TypeOK'
    BY <1>4 DEF Unlock, IInv, TypeOK, Status
  <2>3. MintedIn(Stored, minted')
    BY <1>4 DEF Unlock, IInv, MintedIn
  <2>4. Unlocked' => cache' # None /\ cipher' \in Key /\ rootKey' \in {None, cipher'}
    BY <1>4, NoneAssumption DEF Unlock, Initializing, IInv, TypeOK
  <2>5. ~HasEnvelopes(cache) => \A k \in Key : SealedWith(Stored, k)
    BY <1>1, <1>4 DEF Unlock, HasEnvelopes, Exists, SealedWith, IInv, DataInv, StagesCurrent, EnvelopeState, StagedSecret
  <2>6. Decryptable'
    BY <1>4, <2>1, <2>2, <2>4, <2>5 DEF Unlock, Initializing, IInv, TypeOK, Decryptable
  <2> QED BY <1>4, <2>1, <2>2, <2>3, <2>4, <2>6 DEF Unlock, IInv
<1>5. CASE Restart
  BY <1>5 DEF Restart, IInv, TypeOK, Status, Stored, Decryptable
<1>6. CASE LoseRootKey
  BY <1>6 DEF LoseRootKey, IInv, TypeOK, Stored, Decryptable
<1>7. ASSUME NEW c \in Credential, Delete(c) PROVE IInv'
  <2>1. Unlocked
    BY <1>7 DEF Delete
  <2>2. /\ DeleteEnvelope(cache, c) \in EnvelopeState
        /\ DataInv(DeleteEnvelope(cache, c))
        /\ MintedIn(DeleteEnvelope(cache, c), minted)
    BY <1>2, <2>1, DeleteLemma
  <2>3. SealedWith(DeleteEnvelope(cache, c), cipher)
    BY <1>2, <2>1 DEF SealedWith, DeleteEnvelope, EnvelopeState
  <2> QED BY <1>2, <1>7, <2>1, <2>2, <2>3, SaveLemma DEF Delete
<1>8. ASSUME NEW c \in Credential, Retrieve(c) PROVE IInv'
  BY <1>8 DEF Retrieve, Opened, IInv, TypeOK, Status, Stored, Decryptable
<1>9. ASSUME NEW c \in Credential, NEW s \in Secret, Store(c, s) PROVE IInv'
  <2>1. Unlocked
    BY <1>9 DEF Store
  <2>2. Encrypt(s) \in Envelope
    BY <1>2, <2>1 DEF Encrypt, Envelope
  <2>3. /\ StoreEnvelope(cache, c, Encrypt(s)) \in EnvelopeState
        /\ DataInv(StoreEnvelope(cache, c, Encrypt(s)))
        /\ MintedIn(StoreEnvelope(cache, c, Encrypt(s)), minted \cup {c})
    BY <1>2, <1>9, <2>1, <2>2, StoreLemma DEF Store
  <2>4. SealedWith(StoreEnvelope(cache, c, Encrypt(s)), cipher)
    BY <1>2, <2>1 DEF SealedWith, StoreEnvelope, EnvelopeState, Encrypt
  <2> QED BY <1>2, <1>9, <2>1, <2>3, <2>4, SaveLemma DEF Store
<1>10. ASSUME NEW c \in Credential, NEW h \in Handle, NEW s \in Secret, StageSecret(c, h, s)
       PROVE  IInv'
  <2> DEFINE n == Stage(cache, h, c, cache.rev[c], Encrypt(s))
  <2>1. Unlocked
    BY <1>10 DEF StageSecret
  <2>2. Encrypt(s) \in Envelope
    BY <1>2, <2>1 DEF Encrypt, Envelope
  <2>3. n \in EnvelopeState /\ DataInv(n) /\ MintedIn(n, minted \cup {h})
    BY <1>2, <1>10, <2>1, <2>2, StageLemma DEF StageSecret
  <2>4. SealedWith(n, cipher)
    BY <1>2, <2>1 DEF SealedWith, Stage, EnvelopeState, Encrypt
  <2>5. minted' = minted \cup {h} /\ Save(n)
    BY <1>10 DEF StageSecret
  <2> HIDE DEF n
  <2> QED BY <1>2, <1>10, <2>1, <2>3, <2>4, <2>5, SaveLemma DEF StageSecret
<1>11. ASSUME NEW h \in Handle, RetrieveStaged(h) PROVE IInv'
  BY <1>11 DEF RetrieveStaged, Opened, IInv, TypeOK, Status, Stored, Decryptable
<1>12. ASSUME NEW h \in Handle, PromoteStaged(h) PROVE IInv'
  <2> DEFINE e == cache.staged[h].env
             n == Promote(cache, h, Encrypt(e.secret))
  <2>1. Unlocked /\ CanPromote(cache, h)
    BY <1>12 DEF PromoteStaged
  <2>2. e \in Envelope /\ e.key = cipher
    BY <1>2, <2>1 DEF CanPromote, EnvelopeState, StagedSecret, SealedWith
  <2>3. Encrypt(e.secret) \in Envelope
    BY <1>2, <2>1, <2>2 DEF Encrypt, Envelope
  <2>4. n \in EnvelopeState /\ DataInv(n) /\ MintedIn(n, minted)
    BY <1>2, <2>1, <2>3, PromoteLemma
  <2>5. SealedWith(n, cipher)
    BY <1>2, <2>1 DEF SealedWith, Promote, EnvelopeState, StagedSecret, CanPromote, Encrypt
  <2>6. Save(n) /\ status' = status /\ UNCHANGED <<rootKey, cipher, minted>>
    BY <1>12, <2>2 DEF PromoteStaged, Opened
  <2> HIDE DEF n, e
  <2> QED BY <1>2, <2>1, <2>4, <2>5, <2>6, SaveLemma
<1>13. ASSUME NEW h \in Handle, DiscardStaged(h) PROVE IInv'
  <2>1. Unlocked
    BY <1>13 DEF DiscardStaged
  <2>2. /\ Discard(cache, h) \in EnvelopeState
        /\ DataInv(Discard(cache, h))
        /\ MintedIn(Discard(cache, h), minted)
    BY <1>2, <2>1, DiscardLemma
  <2>3. SealedWith(Discard(cache, h), cipher)
    BY <1>2, <2>1 DEF SealedWith, Discard, EnvelopeState
  <2> QED BY <1>2, <1>13, <2>1, <2>2, <2>3, SaveLemma DEF DiscardStaged
<1>14. CASE UNCHANGED vars
  BY <1>14 DEF vars, IInv, TypeOK, Stored, Decryptable
<1> QED BY <1>3, <1>4, <1>5, <1>6, <1>7, <1>8, <1>9, <1>10, <1>11, <1>12, <1>13, <1>14 DEF Next

\* The inductive invariant holds throughout.
THEOREM Invariance == Spec => []IInv
BY InitInv, NextInv, PTL DEF Spec

\* The state of the vault is always of its type.
THEOREM TypeCorrect == Spec => []TypeOK
<1>1. IInv => TypeOK
  BY DEF IInv
<1> QED BY <1>1, Invariance, PTL

\* Every staged candidate is current: stage, promote and delete never leave one
\* behind that names a deleted credential or an older revision.
THEOREM StagesStayUpToDate == Spec => []StagesUpToDate
<1>1. IInv => StagesUpToDate
  BY DEF IInv, DataInv, StagesUpToDate
<1> QED BY <1>1, Invariance, PTL

\* Promotions of a credential are answered with distinct revisions.
THEOREM ReceiptsStayOrdered == Spec => []ReceiptsOrdered
<1>1. IInv => ReceiptsOrdered
  BY DEF IInv, DataInv, ReceiptsOrdered
<1> QED BY <1>1, Invariance, PTL

\* Every stored secret opens with the key record and with the key in use.
THEOREM AlwaysDecryptable == Spec => []Decryptable
<1>1. IInv => Decryptable
  BY DEF IInv
<1> QED BY <1>1, Invariance, PTL

\* The cache that mutations start from is what the file holds.
THEOREM CacheStaysCoherent == Spec => []CacheCoherent
<1>1. IInv => CacheCoherent
  BY DecodedLemma DEF IInv, TypeOK, CacheCoherent, Stored
<1> QED BY <1>1, Invariance, PTL

-----------------------------------------------------------------------------
(* The vault implements the register.                                       *)

AbsSecret(d) == [c \in Credential |-> IF Exists(d, c) THEN d.env[c].secret ELSE None]

AbsOffer(d) ==
  [h \in Handle |-> IF d.staged[h] = None THEN None
                    ELSE [cred |-> d.staged[h].cred,
                          base |-> d.staged[h].expected,
                          secret |-> d.staged[h].env.secret]]

AbsSpent(d) ==
  [h \in Handle |-> IF d.receipts[h] = None THEN None
                    ELSE [cred |-> d.receipts[h].cred, version |-> d.receipts[h].rev]]

LEMMA RegisterInit == Init => Register!Init
<1> SUFFICES ASSUME Init PROVE Register!Init
  OBVIOUS
<1>1. IInv
  BY InitInv
<1>2. Stored \in EnvelopeState
  BY <1>1, DecodedLemma DEF IInv, TypeOK, Stored
<1>3. \A h \in Handle : Stored.staged[h] = None /\ Stored.receipts[h] = None
  <2>1. \A h \in Handle : file.data.staged[h] = None /\ file.data.receipts[h] = None
    <3>1. CASE rootKey = None /\ file = [schema |-> CurrentSchema, data |-> EmptyState]
      BY <3>1 DEF EmptyState
    <3>2. ASSUME NEW k \in Key, NEW C \in SUBSET Credential, NEW v \in 1..2,
                 NEW f \in [Credential -> Secret],
                 file = [schema |-> v,
                         data |-> [EmptyState EXCEPT
                           !.env = [c \in Credential |->
                                      IF c \in C THEN [secret |-> f[c], key |-> k] ELSE None],
                           !.rev = [c \in Credential |-> IF c \in C /\ v = 2 THEN 1 ELSE 0]]]
          PROVE  \A h \in Handle : file.data.staged[h] = None /\ file.data.receipts[h] = None
      <4>1. /\ file.data.staged = EmptyState.staged
            /\ file.data.receipts = EmptyState.receipts
        BY <3>2 DEF EmptyState
      <4> QED BY <4>1 DEF EmptyState
    <3> QED BY <3>1, <3>2 DEF Init
  <2>2. \A h \in Handle : EmptyState.staged[h] = None /\ EmptyState.receipts[h] = None
    BY DEF EmptyState
  <2>3. CASE file.schema = 1
    BY <2>2, <2>3 DEF Stored, Decoded, EmptyState
  <2>4. CASE file.schema # 1
    BY <2>1, <2>4 DEF Stored, Decoded
  <2> QED BY <2>3, <2>4
<1>4. [c \in Credential |-> IF Exists(Stored, c) THEN Stored.env[c].secret ELSE None]
        \in [Credential -> Secret \cup {None}]
  BY <1>2 DEF Exists, EnvelopeState, Envelope
<1>5. Stored.rev \in [Credential -> Nat]
  BY <1>2 DEF EnvelopeState
<1> HIDE DEF Init
<1> QED BY <1>3, <1>4, <1>5 DEF Register!Init

\* A mutation saved by an unlocked vault is a step of the register or a stutter.
LEMMA SavedStep ==
  ASSUME IInv, Unlocked, NEW n, Save(n)
  PROVE  /\ cache = Stored /\ Stored \in EnvelopeState /\ DataInv(Stored)
         /\ MintedIn(Stored, minted)
         /\ Stored' = n \/ Stored' = Stored
<1>1. cache = Stored /\ Stored \in EnvelopeState
  BY DecodedLemma DEF IInv, TypeOK, Stored
<1>2. DataInv(Stored) /\ MintedIn(Stored, minted)
  BY DEF IInv
<1>3. CASE file' = [schema |-> CurrentSchema, data |-> n] /\ cache' = n
  BY <1>1, <1>2, <1>3 DEF Stored, Decoded, CurrentSchema
<1>4. CASE UNCHANGED <<file, cache>>
  BY <1>1, <1>2, <1>4 DEF Stored
<1> QED BY <1>3, <1>4 DEF Save

LEMMA RegisterStutter ==
  ASSUME Stored' = Stored
  PROVE  UNCHANGED Register!vars
  BY DEF Register!vars, Exists

\* A step of the vault is a step of the register or leaves it as it is.
LEMMA RegisterStep == IInv /\ [Next]_vars => [Register!Next]_(Register!vars)
<1> SUFFICES ASSUME IInv, [Next]_vars, Stored' # Stored PROVE Register!Next
  BY RegisterStutter
<1> USE NoneAssumption
<1>1. \/ \E c \in Credential : Delete(c)
      \/ \E c \in Credential, s \in Secret : Store(c, s)
      \/ \E c \in Credential, h \in Handle, s \in Secret : StageSecret(c, h, s)
      \/ \E h \in Handle : PromoteStaged(h)
      \/ \E h \in Handle : DiscardStaged(h)
  <2>1. ListEnvelopes => Stored' = Stored
    BY DecodedLemma DEF ListEnvelopes, Stored, IInv, TypeOK
  <2>2. Unlock \/ Restart \/ LoseRootKey \/ UNCHANGED vars => Stored' = Stored
    BY DEF Unlock, Restart, LoseRootKey, vars, Stored
  <2>3. \A c \in Credential : Retrieve(c) => Stored' = Stored
    BY DEF Retrieve, Stored
  <2>4. \A h \in Handle : RetrieveStaged(h) => Stored' = Stored
    BY DEF RetrieveStaged, Stored
  <2> QED BY <2>1, <2>2, <2>3, <2>4 DEF Next
<1> DEFINE d == Stored
<1>2. ASSUME NEW c \in Credential, Delete(c) PROVE Register!Remove(c)
  <2> DEFINE n == DeleteEnvelope(cache, c)
  <2>1. cache = d /\ d \in EnvelopeState /\ Exists(d, c) /\ Stored' = n
    BY <1>2, SavedStep DEF Delete
  <2>2. /\ n.env = [d.env EXCEPT ![c] = None] /\ n.rev = [d.rev EXCEPT ![c] = 0]
        /\ n.staged = [h \in Handle |-> IF StagedFor(d, h, c) THEN None ELSE d.staged[h]]
        /\ n.receipts = d.receipts
    BY <2>1 DEF DeleteEnvelope, EnvelopeState
  <2> HIDE DEF n
  <2>3. AbsSecret(n) = [AbsSecret(d) EXCEPT ![c] = None]
    BY <2>1, <2>2 DEF AbsSecret, Exists, EnvelopeState
  <2>4. AbsOffer(n) = [h \in Handle |->
           IF AbsOffer(d)[h] # None /\ AbsOffer(d)[h].cred = c THEN None ELSE AbsOffer(d)[h]]
    BY <2>1, <2>2 DEF AbsOffer, StagedFor, EnvelopeState, StagedSecret, Envelope
  <2>5. AbsSpent(n) = AbsSpent(d)
    BY <2>2 DEF AbsSpent
  <2>6. AbsSecret(d)[c] # None
    BY <2>1 DEF AbsSecret, Exists, EnvelopeState, Envelope
  <2> QED BY <2>1, <2>2, <2>3, <2>4, <2>5, <2>6
          DEF Register!Remove, AbsSecret, AbsOffer, AbsSpent
<1>3. ASSUME NEW c \in Credential, NEW s \in Secret, Store(c, s) PROVE Register!Create(c, s)
  <2> DEFINE e == Encrypt(s)
             n == StoreEnvelope(cache, c, e)
  <2>1. /\ cache = d /\ d \in EnvelopeState /\ DataInv(d) /\ MintedIn(d, minted)
        /\ Stored' = n
    BY <1>3, SavedStep DEF Store
  <2>2. ~Exists(d, c) /\ d.rev[c] = 0
    BY <1>3, <2>1 DEF Store, MintedIn, DataInv, RevisionsLoad, EnvelopeState
  <2>3. /\ n.env = [d.env EXCEPT ![c] = e] /\ n.rev = [d.rev EXCEPT ![c] = 1]
        /\ n.staged = d.staged /\ n.receipts = d.receipts
    BY <2>1, <2>2 DEF StoreEnvelope, EnvelopeState
  <2>4. e.secret = s /\ e # None
    BY <1>3 DEF Encrypt, Store, Envelope, IInv
  <2> HIDE DEF n, e
  <2>5. AbsSecret(n) = [AbsSecret(d) EXCEPT ![c] = s]
    BY <2>1, <2>3, <2>4 DEF AbsSecret, Exists, EnvelopeState
  <2>6. AbsOffer(n) = AbsOffer(d) /\ AbsSpent(n) = AbsSpent(d)
    BY <2>3 DEF AbsOffer, AbsSpent
  <2>7. AbsSecret(d)[c] = None
    BY <2>2 DEF AbsSecret
  <2> QED BY <2>1, <2>3, <2>5, <2>6, <2>7
          DEF Register!Create, AbsSecret, AbsOffer, AbsSpent
<1>4. ASSUME NEW c \in Credential, NEW h \in Handle, NEW s \in Secret, StageSecret(c, h, s)
      PROVE  Register!Offer(h, c, s)
  <2> DEFINE e == Encrypt(s)
             new == [cred |-> c, expected |-> d.rev[c], env |-> e]
             n == Stage(cache, h, c, cache.rev[c], e)
  <2>1. /\ cache = d /\ d \in EnvelopeState /\ MintedIn(d, minted)
        /\ CanStage(d, h, c, d.rev[c]) /\ Stored' = n
    BY <1>4, SavedStep DEF StageSecret
  <2>2. d.staged[h] = None /\ d.receipts[h] = None /\ Exists(d, c)
    BY <1>4, <2>1 DEF StageSecret, MintedIn, CanStage
  <2>3. /\ n.env = d.env /\ n.rev = d.rev /\ n.receipts = d.receipts
        /\ n.staged = [d.staged EXCEPT ![h] = new]
    BY <2>1 DEF Stage, EnvelopeState
  <2>4. e \in Envelope /\ e.secret = s
    BY <1>4 DEF Encrypt, StageSecret, IInv, Envelope
  <2>5. new # None /\ new.cred = c /\ new.expected = d.rev[c] /\ new.env.secret = s
    BY <2>1, <2>4 DEF StagedSecret, EnvelopeState
  <2> HIDE DEF n, e, new
  <2>6. AbsOffer(n) = [AbsOffer(d) EXCEPT ![h] = [cred |-> c, base |-> d.rev[c], secret |-> s]]
    BY <2>1, <2>3, <2>5 DEF AbsOffer, EnvelopeState
  <2>7. AbsSecret(n) = AbsSecret(d) /\ AbsSpent(n) = AbsSpent(d)
    BY <2>3 DEF AbsSecret, AbsSpent, Exists
  <2>8. AbsSecret(d)[c] # None /\ AbsOffer(d)[h] = None /\ AbsSpent(d)[h] = None
    BY <2>1, <2>2 DEF AbsSecret, AbsOffer, AbsSpent, Exists, EnvelopeState, Envelope
  <2> QED BY <2>1, <2>3, <2>6, <2>7, <2>8
          DEF Register!Offer, AbsSecret, AbsOffer, AbsSpent
<1>5. ASSUME NEW h \in Handle, PromoteStaged(h) PROVE Register!Accept(h)
  <2> DEFINE t == d.staged[h]
             c == t.cred
             r == t.expected + 1
             e == Encrypt(t.env.secret)
             new == [cred |-> c, rev |-> r]
             n == Promote(cache, h, e)
  <2>1. /\ Save(n) /\ cache = d /\ d \in EnvelopeState /\ CanPromote(d, h)
        /\ Stored' = n
    <3>1. Save(Promote(cache, h, Encrypt(cache.staged[h].env.secret)))
          \/ UNCHANGED <<file, cache>>
      BY <1>5 DEF PromoteStaged
    <3>2. ~UNCHANGED <<file, cache>>
      BY DEF Stored
    <3>3. Unlocked /\ CanPromote(cache, h)
      BY <1>5 DEF PromoteStaged
    <3>4. cache = d /\ d \in EnvelopeState
      BY <3>3, DecodedLemma DEF IInv, TypeOK, Stored
    <3> QED BY <3>1, <3>2, <3>3, <3>4, SavedStep
  <2>2. /\ t \in StagedSecret /\ t # None /\ c \in Credential /\ r \in Nat
        /\ Exists(d, c) /\ d.rev[c] = t.expected /\ r = d.rev[c] + 1
    BY <2>1 DEF CanPromote, EnvelopeState, StagedSecret
  <2>3. n = [env      |-> [d.env EXCEPT ![c] = e],
             rev      |-> [d.rev EXCEPT ![c] = r],
             staged   |-> [d.staged EXCEPT ![h] = None],
             receipts |-> [d.receipts EXCEPT ![h] = new]]
    BY <2>1 DEF Promote
  <2>4. /\ n.env = [d.env EXCEPT ![c] = e] /\ n.rev = [d.rev EXCEPT ![c] = r]
        /\ n.staged = [d.staged EXCEPT ![h] = None]
        /\ n.receipts = [d.receipts EXCEPT ![h] = new]
    BY <2>3
  <2>5. e # None /\ e.secret = t.env.secret
    BY <2>1, <2>2, <1>5 DEF Encrypt, Envelope, StagedSecret, PromoteStaged, IInv
  <2>6. new # None /\ new.cred = c /\ new.rev = r
    BY <2>2 DEF PromotionReceipt
  <2> HIDE DEF n, e, new, r
  <2>7. AbsSecret(n) = [AbsSecret(d) EXCEPT ![c] = t.env.secret]
    BY <2>1, <2>2, <2>4, <2>5 DEF AbsSecret, Exists, EnvelopeState
  <2>8. AbsOffer(n) = [AbsOffer(d) EXCEPT ![h] = None]
    BY <2>1, <2>4 DEF AbsOffer, EnvelopeState
  <2>9. AbsSpent(n) = [AbsSpent(d) EXCEPT ![h] = [cred |-> c, version |-> d.rev[c] + 1]]
    BY <2>1, <2>2, <2>4, <2>6 DEF AbsSpent, EnvelopeState
  <2>10. AbsOffer(d)[h] = [cred |-> c, base |-> d.rev[c], secret |-> t.env.secret]
    BY <2>2 DEF AbsOffer
  <2>11. AbsOffer(d)[h] # None /\ AbsSecret(d)[c] # None
    BY <2>1, <2>2, <2>10 DEF StagedSecret, Envelope, AbsSecret, Exists, EnvelopeState
  <2>12. n.rev = [d.rev EXCEPT ![c] = d.rev[c] + 1]
    BY <2>2, <2>4
  <2> QED BY <2>1, <2>7, <2>8, <2>9, <2>10, <2>11, <2>12
          DEF Register!Accept, AbsSecret, AbsOffer, AbsSpent
<1>6. ASSUME NEW h \in Handle, DiscardStaged(h) PROVE Register!Withdraw(h)
  <2> DEFINE n == Discard(cache, h)
  <2>1. cache = d /\ d \in EnvelopeState /\ d.staged[h] # None /\ Stored' = n
    BY <1>6, SavedStep DEF DiscardStaged
  <2>2. /\ n.env = d.env /\ n.rev = d.rev /\ n.receipts = d.receipts
        /\ n.staged = [d.staged EXCEPT ![h] = None]
    BY <2>1 DEF Discard, EnvelopeState
  <2> HIDE DEF n
  <2>3. AbsOffer(n) = [AbsOffer(d) EXCEPT ![h] = None]
    BY <2>1, <2>2 DEF AbsOffer, EnvelopeState
  <2>4. AbsSecret(n) = AbsSecret(d) /\ AbsSpent(n) = AbsSpent(d)
    BY <2>2 DEF AbsSecret, AbsSpent, Exists
  <2>5. AbsOffer(d)[h] # None
    BY <2>1 DEF AbsOffer, EnvelopeState, StagedSecret, Envelope
  <2> QED BY <2>1, <2>2, <2>3, <2>4, <2>5
          DEF Register!Withdraw, AbsSecret, AbsOffer, AbsSpent
<1> QED BY <1>1, <1>2, <1>3, <1>4, <1>5, <1>6 DEF Register!Next

\* The vault is a compare-and-swap register whose offers are spent at most once,
\* whatever saves fail and whenever the process restarts or the key is lost.
THEOREM Refinement == Spec => ImplementsRegister
BY RegisterInit, RegisterStep, Invariance, PTL DEF Spec, ImplementsRegister, Register!Spec

=============================================================================
