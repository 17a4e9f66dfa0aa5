---------------------------- MODULE SecretRegister ----------------------------
(***************************************************************************)
(* What a credential vault promises its callers: a register per credential *)
(* that changes by compare-and-swap, each offer being spent at most once.  *)
(* There are no processes, caches, keys, files or restarts here.           *)
(*                                                                         *)
(*   secret[c]   the authoritative secret, or None                         *)
(*   version[c]  how often it has been set; 0 when there is none           *)
(*   offer[h]    a secret offered to replace the one of a credential, with *)
(*               the version it was made against                           *)
(*   spent[h]    the version an accepted offer produced                    *)
(***************************************************************************)
EXTENDS Naturals

CONSTANTS Credential, Handle, Secret, None

VARIABLES secret, version, offer, spent

vars == <<secret, version, offer, spent>>

\* A register starts with whatever earlier runs left, and no offer is pending.
Init ==
  /\ secret \in [Credential -> Secret \cup {None}]
  /\ version \in [Credential -> Nat]
  /\ offer = [h \in Handle |-> None]
  /\ spent = [h \in Handle |-> None]

Create(c, s) ==
  /\ secret[c] = None
  /\ secret' = [secret EXCEPT ![c] = s]
  /\ version' = [version EXCEPT ![c] = 1]
  /\ UNCHANGED <<offer, spent>>

Offer(h, c, s) ==
  /\ secret[c] # None
  /\ offer[h] = None /\ spent[h] = None
  /\ offer' = [offer EXCEPT ![h] = [cred |-> c, base |-> version[c], secret |-> s]]
  /\ UNCHANGED <<secret, version, spent>>

\* The swap succeeds only against the version the offer was made for.
Accept(h) ==
  /\ offer[h] # None
  /\ LET c == offer[h].cred
     IN  /\ secret[c] # None
         /\ version[c] = offer[h].base
         /\ secret' = [secret EXCEPT ![c] = offer[h].secret]
         /\ version' = [version EXCEPT ![c] = version[c] + 1]
         /\ spent' = [spent EXCEPT ![h] = [cred |-> c, version |-> version[c] + 1]]
  /\ offer' = [offer EXCEPT ![h] = None]

Withdraw(h) ==
  /\ offer[h] # None
  /\ offer' = [offer EXCEPT ![h] = None]
  /\ UNCHANGED <<secret, version, spent>>

Remove(c) ==
  /\ secret[c] # None
  /\ secret' = [secret EXCEPT ![c] = None]
  /\ version' = [version EXCEPT ![c] = 0]
  /\ offer' = [h \in Handle |->
                 IF offer[h] # None /\ offer[h].cred = c THEN None ELSE offer[h]]
  /\ UNCHANGED spent

Next ==
  \/ \E c \in Credential : Remove(c) \/ \E s \in Secret : Create(c, s)
  \/ \E h \in Handle :
       \/ Accept(h) \/ Withdraw(h)
       \/ \E c \in Credential, s \in Secret : Offer(h, c, s)

Spec == Init /\ [][Next]_vars

=============================================================================
