--------------------------- MODULE NukiFingerprints ---------------------------
(***************************************************************************)
(* NukiFingerprintService at one Nuki: which person's keypad authorization *)
(* a fingerprint is linked to.  The scan itself is done in the Nuki app;   *)
(* HomePASS knows when it was asked for, when somebody says it is done,    *)
(* and sees in the log of the lock that a finger has opened the door.      *)
(***************************************************************************)
EXTENDS LockCorrelation

CONSTANTS
  Owner,     \* people who may have a PIN at this lock
  CodeId     \* the numbers that the lock gives to its authorizations

VARIABLES
  access,    \* the authorization of each person with its stage, or None
  link       \* the stored enrolment of each person, or None

linkVars == <<access, link>>

(* A fingerprint belongs to one authorization: what was linked to an       *)
(* earlier one is not linked to its successor.                             *)
Matches(links, has, o) ==
  /\ links[o] # None /\ has[o] # None /\ has[o].stage = "on"
  /\ links[o].slot = has[o].slot
  /\ links[o].updated >= has[o].since

Linked(o) == Matches(link, access, o)
Confirmed(o) == Linked(o) /\ link[o].status = "confirmed"

(* start *)
StartEnrolment(o) ==
  /\ access[o] # None /\ access[o].stage = "on" /\ ~Confirmed(o)
  /\ link' = [link EXCEPT ![o] =
       [slot |-> access[o].slot, status |-> "awaiting_nuki_app", updated |-> now]]
  /\ UNCHANGED access

(* mark_nuki_app_complete *)
CompleteEnrolment(o) ==
  /\ Linked(o) /\ ~Confirmed(o)
  /\ link' = [link EXCEPT ![o] = [@ EXCEPT !.status = "enrolled_unverified", !.updated = now]]
  /\ UNCHANGED access

(* Access management gives and removes authorizations.  A removal is       *)
(* first intended; when the lock has been seen without the authorization,  *)
(* the link goes, and then the records of access.  The lock may give the   *)
(* number again from then on.                                              *)
GiveAccess(o, s) ==
  /\ access[o] = None
  /\ \A p \in Owner : access[p] # None /\ access[p].slot = s => access[p].stage = "gone"
  /\ access' = [access EXCEPT ![o] = [slot |-> s, since |-> now, stage |-> "on"]]
  /\ UNCHANGED link

Withdraw(o) ==
  /\ access[o] # None /\ access[o].stage = "on"
  /\ access' = [access EXCEPT ![o].stage = "going"]
  /\ UNCHANGED link

RemoveAccessLink(o) ==
  /\ access[o] # None /\ access[o].stage = "going"
  /\ link' = [link EXCEPT ![o] = None]
  /\ access' = [access EXCEPT ![o].stage = "gone"]

RemoveRecords(o) ==
  /\ access[o] # None /\ access[o].stage = "gone"
  /\ access' = [access EXCEPT ![o] = None]
  /\ UNCHANGED link

Enrol(o) ==
  \/ StartEnrolment(o)
  \/ CompleteEnrolment(o)
  \/ Withdraw(o)
  \/ \E s \in CodeId : GiveAccess(o, s)

(***************************************************************************)
(* observe_provider_event.  A finger that the log names is its owner's, if *)
(* it is linked; one that is not named is taken for the only one that is   *)
(* to be seen for the first time.                                          *)
(***************************************************************************)
Numbered(s) == {o \in Owner : access[o] # None /\ access[o].slot = s}

Holders(s) == {o \in Numbered(s) : Numbered(s) = {o} /\ access[o].stage = "on"}

\* Mutant: it does not matter when the finger was seen.
NamedAnytime(links, r) == {o \in Holders(r.slot) : links[o] # None /\ links[o].slot = r.slot}

Named(links, r) ==
  {o \in Holders(r.slot) :
     links[o] # None /\ links[o].slot = r.slot /\ r.at >= links[o].updated}

Candidates(r) ==
  {o \in Owner : Linked(o) /\ link[o].status = "enrolled_unverified" /\ r.at >= link[o].updated}

Unnamed(r) == IF \E o \in Owner : Candidates(r) = {o} THEN Candidates(r) ELSE {}

(* The link is confirmed as it is by now, if it is of the same number. *)
Confirm(o, expected) ==
  /\ link' = IF link[o] # None /\ link[o].slot = expected
             THEN [link EXCEPT ![o] = [@ EXCEPT !.status = "confirmed", !.updated = now]]
             ELSE link
  /\ UNCHANGED access
=============================================================================
