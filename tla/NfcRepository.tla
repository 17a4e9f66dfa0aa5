--------------------------- MODULE NfcRepository ---------------------------
(***************************************************************************)
(* NfcAccessRepository: tags, test tags, passkeys, invitations and grants  *)
(* in one file of their own.  Every operation works on a copy under one    *)
(* lock and either saves the copy or raises and changes nothing, so that   *)
(* each is an operator from the data to the data.  The audit list, which   *)
(* is only ever appended to and cut, and the counts of signatures, which   *)
(* make an authentication fail at most, are left out.                      *)
(***************************************************************************)
EXTENDS Policy

CONSTANTS
  Person, Door,
  Tag,        \* public identifiers of tags
  Test,       \* tokens of test tags
  Passkey,    \* passkeys
  Invite      \* tokens of invitations

Empty == [tags |-> [t \in Tag |-> None], tests |-> [x \in Test |-> None],
          passkeys |-> [k \in Passkey |-> None], invites |-> [i \in Invite |-> None],
          grants |-> {}]

(***************************************************************************)
(* Tags.                                                                   *)
(***************************************************************************)
NewTag(door, keys, admin) ==
  [door |-> door, keys |-> keys, admin |-> admin, enabled |-> TRUE, last |-> None,
   protected |-> FALSE]

Registered(d, t) == d.tags[t] # None

UpsertTag(d, t, tag) == [d EXCEPT !.tags[t] = tag]
SetTagEnabled(d, t, enabled) == [d EXCEPT !.tags[t].enabled = enabled]
DeleteTag(d, t) == [d EXCEPT !.tags[t] = None]
SetTagAdminKey(d, t, key) == [d EXCEPT !.tags[t].admin = key]

MayConfirm(d, t) == Registered(d, t) /\ d.tags[t].admin # None

(* The tag was written anew and counts from the beginning. *)
ConfirmTagWriteProtected(d, t) ==
  [d EXCEPT !.tags[t].last = None, !.tags[t].protected = TRUE]

(* A reading is accepted once, and none that is older. *)
MayClaim(d, t, counter) ==
  /\ Registered(d, t) /\ d.tags[t].enabled
  /\ d.tags[t].last # None => counter > d.tags[t].last

ClaimCounter(d, t, counter) == [d EXCEPT !.tags[t].last = counter]

(***************************************************************************)
(* Test tags: one at most for a door.                                      *)
(***************************************************************************)
ReplaceTestTag(d, x, door, expires) ==
  [d EXCEPT !.tests = [y \in Test |->
     CASE y = x -> [door |-> door, expires |-> expires]
       [] d.tests[y] # None /\ d.tests[y].door = door -> None
       [] OTHER -> d.tests[y]]]

\* Mutant: a test tag is active until it is revoked.
TestTagKnown(d, x, now) == d.tests[x] # None

TestTagActive(d, x, now) == d.tests[x] # None /\ d.tests[x].expires > now

RevokeTestTags(d, door) ==
  [d EXCEPT !.tests = [x \in Test |->
     IF d.tests[x] # None /\ d.tests[x].door = door THEN None ELSE d.tests[x]]]

(***************************************************************************)
(* Passkeys and invitations.                                               *)
(***************************************************************************)
CreateInvite(d, i, person, expires) ==
  [d EXCEPT !.invites[i] = [person |-> person, expires |-> expires, used |-> FALSE]]

InviteActive(d, i, now) ==
  d.invites[i] # None /\ ~d.invites[i].used /\ d.invites[i].expires > now

MayEnroll(d, i, person, passkey, now) ==
  InviteActive(d, i, now) /\ d.invites[i].person = person /\ d.passkeys[passkey] = None

CompleteEnrollment(d, i, person, passkey) ==
  [d EXCEPT !.passkeys[passkey] = [person |-> person, enabled |-> TRUE],
            !.invites[i].used = TRUE]

PasskeyEnabled(d, k) == d.passkeys[k] # None /\ d.passkeys[k].enabled

(***************************************************************************)
(* Grants, and what goes with a person or with a door.                     *)
(***************************************************************************)
HasAccessGrant(d, person, door) == <<person, door>> \in d.grants

ReplaceAccessGrants(d, person, doors) ==
  [d EXCEPT !.grants = {g \in @ : g[1] # person} \cup ({person} \X doors)]

DisableCredentials(d, person) ==
  [d EXCEPT
     !.passkeys = [k \in Passkey |->
        IF d.passkeys[k] # None /\ d.passkeys[k].person = person
        THEN [d.passkeys[k] EXCEPT !.enabled = FALSE] ELSE d.passkeys[k]],
     !.invites = [i \in Invite |->
        IF d.invites[i] # None /\ d.invites[i].person = person THEN None ELSE d.invites[i]],
     !.grants = {g \in @ : g[1] # person}]

DisableTags(d, door) ==
  [RevokeTestTags(d, door) EXCEPT
     !.tags = [t \in Tag |->
        IF d.tags[t] # None /\ d.tags[t].door = door
        THEN [d.tags[t] EXCEPT !.enabled = FALSE] ELSE d.tags[t]],
     !.grants = {g \in @ : g[2] # door}]
=============================================================================
