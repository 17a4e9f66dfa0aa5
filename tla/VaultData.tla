------------------------------ MODULE VaultData ------------------------------
(***************************************************************************)
(* The record the encrypted envelope repository keeps (vault/repository.py)*)
(* and the pure part of its mutations: what each one requires of the       *)
(* record and what it turns the record into.  The modules of the           *)
(* components that own or use a vault apply these operators to their own   *)
(* variables.                                                              *)
(*                                                                         *)
(* The Python dictionaries are total functions here: an absent key holds   *)
(* None, and an absent revision is 0 (the code reads it that way in store, *)
(* and a stored revision is at least 1).                                   *)
(***************************************************************************)
EXTENDS Naturals

CONSTANTS Credential,   \* VaultCredentialId values
          Handle,       \* StagedSecretHandle values
          Envelope,     \* EncryptedSecretEnvelope values
          None          \* an absent dictionary entry

StagedSecret == [cred : Credential, expected : Nat, env : Envelope]

PromotionReceipt == [cred : Credential, rev : Nat]

EnvelopeState ==
  [env      : [Credential -> Envelope \cup {None}],
   rev      : [Credential -> Nat],
   staged   : [Handle -> StagedSecret \cup {None}],
   receipts : [Handle -> PromotionReceipt \cup {None}]]

EmptyState ==
  [env      |-> [c \in Credential |-> None],
   rev      |-> [c \in Credential |-> 0],
   staged   |-> [h \in Handle |-> None],
   receipts |-> [h \in Handle |-> None]]

Exists(d, c) == d.env[c] # None

StagedFor(d, h, c) == d.staged[h] # None /\ d.staged[h].cred = c

-----------------------------------------------------------------------------
(* Mutations.  A mutation whose requirement fails raises before it saves.   *)

StoreEnvelope(d, c, e) ==
  [d EXCEPT !.env = [d.env EXCEPT ![c] = e],
            !.rev = [d.rev EXCEPT ![c] = d.rev[c] + 1]]

\* Mutant: delete forgets the stages of the credential.
DeleteKeepingStages(d, c) ==
  [d EXCEPT !.env = [d.env EXCEPT ![c] = None],
            !.rev = [d.rev EXCEPT ![c] = 0]]

\* delete drops the envelope, its revision and its stages.  The promotion
\* receipts that name the credential stay.
DeleteEnvelope(d, c) ==
  [d EXCEPT !.env = [d.env EXCEPT ![c] = None],
            !.rev = [d.rev EXCEPT ![c] = 0],
            !.staged = [h \in Handle |->
                          IF StagedFor(d, h, c) THEN None ELSE d.staged[h]]]

\* Mutant: a second stage for the same credential is let in.
CanStageTwice(d, h, c, expected) ==
  /\ Exists(d, c)
  /\ expected = d.rev[c]
  /\ d.receipts[h] = None

CanStage(d, h, c, expected) ==
  /\ Exists(d, c)
  /\ \A g \in Handle : ~StagedFor(d, g, c)
  /\ expected = d.rev[c]
  /\ d.receipts[h] = None

Stage(d, h, c, expected, e) ==
  [d EXCEPT !.staged =
     [d.staged EXCEPT ![h] = [cred |-> c, expected |-> expected, env |-> e]]]

\* A handle that has a receipt is answered with it and nothing is saved.
AlreadyPromoted(d, h) == d.receipts[h] # None

CanPromote(d, h) ==
  /\ ~AlreadyPromoted(d, h)
  /\ d.staged[h] # None
  /\ Exists(d, d.staged[h].cred)
  /\ d.rev[d.staged[h].cred] = d.staged[h].expected

\* Mutant: the revision is not advanced.
PromoteSameRevision(d, h, e) ==
  LET c == d.staged[h].cred
      r == d.staged[h].expected
  IN  [env      |-> [d.env EXCEPT ![c] = e],
       rev      |-> d.rev,
       staged   |-> [d.staged EXCEPT ![h] = None],
       receipts |-> [d.receipts EXCEPT ![h] = [cred |-> c, rev |-> r]]]

\* e is the staged secret encrypted anew under the credential's identifier.
Promote(d, h, e) ==
  LET c == d.staged[h].cred
      r == d.staged[h].expected + 1
  IN  [env      |-> [d.env EXCEPT ![c] = e],
       rev      |-> [d.rev EXCEPT ![c] = r],
       staged   |-> [d.staged EXCEPT ![h] = None],
       receipts |-> [d.receipts EXCEPT ![h] = [cred |-> c, rev |-> r]]]

Discard(d, h) == [d EXCEPT !.staged = [d.staged EXCEPT ![h] = None]]

-----------------------------------------------------------------------------
(* The checks _load_unlocked makes of a stored record before it is used.    *)

RevisionsLoad(d) == \A c \in Credential : Exists(d, c) <=> d.rev[c] >= 1

StagesLoad(d) ==
  \A h \in Handle : d.staged[h] # None =>
    /\ Exists(d, d.staged[h].cred)
    /\ d.staged[h].expected <= d.rev[d.staged[h].cred]
    /\ \A g \in Handle : StagedFor(d, g, d.staged[h].cred) => g = h

ReceiptsLoad(d) ==
  \A h \in Handle : d.receipts[h] # None =>
    /\ d.staged[h] = None
    /\ Exists(d, d.receipts[h].cred)
    /\ d.receipts[h].rev <= d.rev[d.receipts[h].cred]

Loadable(d) == RevisionsLoad(d) /\ StagesLoad(d) /\ ReceiptsLoad(d)

-----------------------------------------------------------------------------
(* What the mutations keep of each other's work (properties, not code).     *)

StagesCurrent(d) ==
  \A h \in Handle : d.staged[h] # None =>
    /\ Exists(d, d.staged[h].cred)
    /\ d.staged[h].expected = d.rev[d.staged[h].cred]
    /\ d.receipts[h] = None
    /\ \A g \in Handle : StagedFor(d, g, d.staged[h].cred) => g = h

ReceiptsDistinct(d) ==
  \A h \in Handle : d.receipts[h] # None =>
    /\ Exists(d, d.receipts[h].cred) =>
         d.receipts[h].rev <= d.rev[d.receipts[h].cred]
    /\ \A g \in Handle : d.receipts[g] = d.receipts[h] => g = h

=============================================================================
