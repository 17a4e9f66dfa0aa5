-------------------------- MODULE LockCorrelation --------------------------
(***************************************************************************)
(* LockCommandCorrelationService: the one command that HomePASS has sent   *)
(* to a door and whose confirmation it waits for, under a clock of its     *)
(* own.  A state change that comes in time and matches is that command's.  *)
(***************************************************************************)
EXTENDS Integers

CONSTANTS
  None,      \* no command, no person, no time
  Expiry     \* for how long a confirmation is waited for

VARIABLES
  now,       \* the clock
  pending    \* the command that is waited for at the door, or None

(* What expires is forgotten before anything else is done. *)
Live == IF pending # None /\ pending.expires <= now THEN None ELSE pending

MayRegister == Live = None

(* The command is registered before it is sent. *)
Registered(id, requested, origin, person) ==
  [id |-> id, requested |-> requested, origin |-> origin, person |-> person,
   at |-> now, expires |-> now + Expiry]

Confirms(state, at) ==
  /\ Live # None
  /\ Live.requested = state
  /\ Live.at <= at
  /\ at < Live.expires

(* consume: the command that a change to state confirms, *)
ConfirmedBy(state, at) == IF Confirms(state, at) THEN Live ELSE None

(* and what is waited for afterwards. *)
Awaited(state, at) ==
  IF Confirms(state, at) \/ (Live # None /\ Live.requested = state /\ at >= Live.expires)
  THEN None
  ELSE Live

\* Mutant: whatever waits is taken back.
CancelledAny(id) == None

(* A command that could not be sent takes only itself back. *)
Cancelled(id) == IF pending # None /\ pending.id = id THEN None ELSE pending
=============================================================================
