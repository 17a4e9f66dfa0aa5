--------------------------- MODULE CredentialVault ---------------------------
(***************************************************************************)
(* The credential vault of one Home Assistant process: CredentialVault     *)
(* (vault/api.py) over RootKeyRepository and EncryptedEnvelopeRepository   *)
(* (vault/repository.py).                                                  *)
(*                                                                         *)
(* Every public method holds the vault's asyncio lock for its whole body,  *)
(* so methods do not interleave with each other; each is one action.  What *)
(* does happen between two awaits is the end of the process.  initialize   *)
(* makes two separate durable writes (the migrated envelope file, then a   *)
(* first root key), so it is two actions with room for a Restart between.  *)
(*                                                                         *)
(* Encryption is abstracted to the key a secret is encrypted under: an     *)
(* envelope decrypts exactly under its own key (AES-GCM authentication).   *)
(***************************************************************************)
EXTENDS Naturals, FiniteSets

CONSTANTS Credential, Handle, Secret, Key, None

Envelope == [secret : Secret, key : Key]

INSTANCE VaultData

\* None is no value of the types it is the absence of, here and in the register.
ASSUME NoneAssumption ==
  /\ None \notin Secret \cup Key \cup Envelope
  /\ None \notin StagedSecret
  /\ None \notin PromotionReceipt
  /\ None \notin EnvelopeState
  /\ None \notin [cred : Credential, base : Nat, secret : Secret]
  /\ None \notin [cred : Credential, version : Nat]

VARIABLES
  rootKey,  \* the key record on disk, None when there is none
  file,     \* the envelope file: its schema version and contents
  cache,    \* EncryptedEnvelopeRepository._state, None until first loaded
  cipher,   \* the key CredentialVault._encryption holds, None before that
  status,   \* CredentialVault._status
  minted    \* identifiers and keys ever generated (they are random: no repeat)

vars == <<rootKey, file, cache, cipher, status, minted>>

Status == {"uninitialized", "unlocked", "unavailable", "corrupt"}

CurrentSchema == 3

\* Schema 1 has neither revisions nor stages nor receipts, schema 2 has no
\* receipts; the loader supplies what is missing.
Decoded(f) ==
  IF f.schema = 1
  THEN [EmptyState EXCEPT !.env = f.data.env,
                          !.rev = [c \in Credential |->
                                     IF f.data.env[c] = None THEN 0 ELSE 1]]
  ELSE f.data

TypeOK ==
  /\ rootKey \in Key \cup {None}
  /\ file \in [schema : 1..CurrentSchema, data : EnvelopeState]
  /\ cache \in EnvelopeState \cup {None}
  /\ cipher \in Key \cup {None}
  /\ status \in Status
  /\ minted \subseteq Credential \cup Handle \cup Key

-----------------------------------------------------------------------------
\* A first installation finds no files; an upgrade finds the envelope file of
\* an older release, written under the key record next to it.
Init ==
  /\ cache = None /\ cipher = None /\ status = "uninitialized"
  /\ \/ /\ rootKey = None
        /\ file = [schema |-> CurrentSchema, data |-> EmptyState]
        /\ minted = {}
     \/ \E k \in Key, C \in SUBSET Credential, v \in 1..2, f \in [Credential -> Secret] :
          /\ rootKey = k
          /\ file = [schema |-> v,
                     data |-> [EmptyState EXCEPT
                       !.env = [c \in Credential |->
                                  IF c \in C THEN [secret |-> f[c], key |-> k] ELSE None],
                       !.rev = [c \in Credential |-> IF c \in C /\ v = 2 THEN 1 ELSE 0]]]
          /\ minted = C \cup {k}

\* Mutant: the cache is published before the file is written.
CacheThenSave(d) ==
  /\ cache' = d
  /\ \/ file' = [schema |-> CurrentSchema, data |-> d]
     \/ UNCHANGED file

\* Mutant: every save counts the schema version up.
SaveNextSchema(d) ==
  /\ file' = [schema |-> file.schema + 1, data |-> d]
  /\ cache' = d

\* _save_unlocked: the file first, the cache after it.  A save that raises
\* leaves both alone.
Save(d) ==
  \/ /\ file' = [schema |-> CurrentSchema, data |-> d]
     /\ cache' = d
  \/ UNCHANGED <<file, cache>>

-----------------------------------------------------------------------------
(* initialize                                                               *)

Initializing == status = "uninitialized"

\* list_all: load, validate, and save once more when the schema is an older one.
ListEnvelopes ==
  /\ Initializing /\ cache = None
  /\ \/ /\ Loadable(Decoded(file))
        /\ cache' = Decoded(file)
        /\ file' = [schema |-> CurrentSchema, data |-> Decoded(file)]
        /\ UNCHANGED status
     \/ /\ ~Loadable(Decoded(file))
        /\ status' = "corrupt"
        /\ UNCHANGED <<file, cache>>
     \/ /\ status' = "unavailable"     \* the load or the migration's save raised
        /\ UNCHANGED <<file, cache>>
  /\ UNCHANGED <<rootKey, cipher, minted>>

\* Mutant: stored envelopes are not looked at.
HasNoEnvelopes(d) == FALSE

HasEnvelopes(d) == \E c \in Credential : Exists(d, c)

\* The key record is read only now, after the envelopes; a missing one is
\* replaced by a new random key only when there is nothing it could open.
Unlock ==
  /\ Initializing /\ cache # None
  /\ \/ /\ rootKey # None
        /\ cipher' = rootKey /\ status' = "unlocked"
        /\ UNCHANGED <<rootKey, minted>>
     \/ /\ rootKey = None /\ ~HasEnvelopes(cache)
        /\ \E k \in Key \ minted :
             /\ rootKey' = k /\ cipher' = k /\ minted' = minted \cup {k}
        /\ status' = "unlocked"
     \/ /\ rootKey = None /\ HasEnvelopes(cache)
        /\ status' = "unavailable"
        /\ UNCHANGED <<rootKey, cipher, minted>>
     \/ /\ status' = "unavailable"     \* the key record could not be read or written
        /\ UNCHANGED <<rootKey, cipher, minted>>
  /\ UNCHANGED <<file, cache>>

-----------------------------------------------------------------------------
(* The public methods.  Each first requires an unlocked vault               *)
(* (_require_encryption), which implies that the envelopes are cached.      *)

Unlocked == status = "unlocked"

Encrypt(s) == [secret |-> s, key |-> cipher]

Store(c, s) ==
  /\ Unlocked
  /\ c \notin minted
  /\ minted' = minted \cup {c}
  /\ Save(StoreEnvelope(cache, c, Encrypt(s)))
  /\ UNCHANGED <<rootKey, cipher, status>>

Delete(c) ==
  /\ Unlocked
  /\ Exists(cache, c)
  /\ Save(DeleteEnvelope(cache, c))
  /\ UNCHANGED <<rootKey, cipher, status, minted>>

StageSecret(c, h, s) ==
  /\ Unlocked
  /\ h \notin minted
  /\ CanStage(cache, h, c, cache.rev[c])
  /\ minted' = minted \cup {h}
  /\ Save(Stage(cache, h, c, cache.rev[c], Encrypt(s)))
  /\ UNCHANGED <<rootKey, cipher, status>>

\* An envelope that does not authenticate marks the vault corrupt: retrieve,
\* retrieve_staged and promote all decrypt.
Opened(e) == status' = IF e.key = cipher THEN status ELSE "corrupt"

Retrieve(c) ==
  /\ Unlocked
  /\ Exists(cache, c)
  /\ Opened(cache.env[c])
  /\ UNCHANGED <<rootKey, file, cache, cipher, minted>>

RetrieveStaged(h) ==
  /\ Unlocked
  /\ cache.staged[h] # None
  /\ Opened(cache.staged[h].env)
  /\ UNCHANGED <<rootKey, file, cache, cipher, minted>>

\* The staged secret is decrypted and encrypted anew under the credential.
PromoteStaged(h) ==
  /\ Unlocked
  /\ CanPromote(cache, h)
  /\ LET e == cache.staged[h].env
     IN  /\ Opened(e)
         /\ IF e.key = cipher
            THEN Save(Promote(cache, h, Encrypt(e.secret)))
            ELSE UNCHANGED <<file, cache>>
  /\ UNCHANGED <<rootKey, cipher, minted>>

DiscardStaged(h) ==
  /\ Unlocked
  /\ cache.staged[h] # None
  /\ Save(Discard(cache, h))
  /\ UNCHANGED <<rootKey, cipher, status, minted>>

-----------------------------------------------------------------------------
\* The process ends and a new CredentialVault is made.  A failed initialize
\* fails the entry's setup, and the next attempt starts here too.
Restart ==
  /\ cache' = None /\ cipher' = None /\ status' = "uninitialized"
  /\ UNCHANGED <<rootKey, file, minted>>

\* The key record is lost while nothing reads it (it is read only by Unlock).
LoseRootKey ==
  /\ rootKey # None
  /\ rootKey' = None
  /\ UNCHANGED <<file, cache, cipher, status, minted>>

Next ==
  \/ ListEnvelopes \/ Unlock \/ Restart \/ LoseRootKey
  \/ \E c \in Credential :
       \/ Delete(c) \/ Retrieve(c)
       \/ \E s \in Secret : Store(c, s)
       \/ \E h \in Handle, s \in Secret : StageSecret(c, h, s)
  \/ \E h \in Handle : RetrieveStaged(h) \/ PromoteStaged(h) \/ DiscardStaged(h)

Spec == Init /\ [][Next]_vars

-----------------------------------------------------------------------------
(* Properties                                                               *)

\* What the file says, whatever its schema.
Stored == Decoded(file)

\* Every staged candidate belongs to a stored credential, to which no other
\* stage belongs, was made against the revision the credential still has, and
\* has not been promoted (stage, promote and delete of repository.py against
\* each other): a promotion can then never be refused as stale.
StagesUpToDate == StagesCurrent(Stored)

\* No two promotions of a credential are answered with the same revision, and
\* none is ahead of the credential's own revision (promote, promotion_receipt).
ReceiptsOrdered == ReceiptsDistinct(Stored)

SealedWith(d, k) ==
  /\ \A c \in Credential : d.env[c] # None => d.env[c].key = k
  /\ \A h \in Handle : d.staged[h] # None => d.staged[h].env.key = k

\* Every stored secret opens with the root key record, if there still is one,
\* and with the key an unlocked vault works with: initialize never generates a
\* key next to envelopes of another, through any crash or loss of the record.
Decryptable ==
  /\ rootKey # None => SealedWith(Stored, rootKey)
  /\ Unlocked => SealedWith(Stored, cipher)

\* The cached snapshot that every mutation starts from is what the file holds
\* (_save_unlocked updates _state only after async_save succeeded).
CacheCoherent == cache # None => cache = Stored

\* Deleting a credential deletes exactly that one (docstring of delete): what
\* is on disk is still something the next start can load.
StoredLoads == Loadable(Stored)

\* The vault is a compare-and-swap register per credential whose offers are
\* spent at most once, across saves that fail, restarts and migrations.
Register == INSTANCE SecretRegister WITH
  secret  <- [c \in Credential |->
                IF Exists(Stored, c) THEN Stored.env[c].secret ELSE None],
  version <- Stored.rev,
  offer   <- [h \in Handle |->
                IF Stored.staged[h] = None THEN None
                ELSE [cred |-> Stored.staged[h].cred,
                      base |-> Stored.staged[h].expected,
                      secret |-> Stored.staged[h].env.secret]],
  spent   <- [h \in Handle |->
                IF Stored.receipts[h] = None THEN None
                ELSE [cred |-> Stored.receipts[h].cred,
                      version |-> Stored.receipts[h].rev]]

ImplementsRegister == Register!Spec

=============================================================================
