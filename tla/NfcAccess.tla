----------------------------- MODULE NfcAccess -----------------------------
(***************************************************************************)
(* A visitor at a door: a reading of a tag opens a session, a passkey      *)
(* answers for a person, the policy decides and the door is operated; an   *)
(* invitation enrols a passkey.  The handlers are public HTTP views, each  *)
(* request of which is a coroutine that other requests and the actions of  *)
(* the administrators interleave with at every await.                      *)
(***************************************************************************)
EXTENDS NfcRepository, ExpiringTokens

CONSTANTS
  Request,                            \* requests served at a time
  Key,                                \* credentials of the vault, in the order they are stored
  Counter,                            \* what a tag counts
  TapTtl, CeremonyTtl, EnrolTtl,      \* 30 s, 2 min, 5 min
  LastToken, LastInstant              \* bounds: tokens issued, time

VARIABLES
  now,
  data,        \* the file of the repository
  vault,       \* the keys that exist
  stored,      \* the last key that was stored
  people,      \* of each person: None or the enabled flag and the schedule
  pins,        \* of <<person, door>>: None or the grant of a PIN
  doors,       \* of each door: managed and enabled
  schedules,
  taps, ceremonies, enrolments,   \* the three stores of tokens
  issued,      \* the last token
  requests,
  may,         \* what this installation's visitors and administrators do
  opened,      \* history: the sessions that readings opened
  commands,    \* history: the commands to doors, by session
  enrolled,    \* history: of each passkey the invitation
  voided,      \* history: invitations and passkeys revoked with their person
  confirms     \* history: how often each tag was confirmed as protected

memory == <<taps, ceremonies, enrolments, issued, requests>>
policy == <<people, pins, doors, schedules>>
past == <<opened, commands, enrolled, voided, confirms>>
access == <<now, data, vault, stored, policy, memory, may, past>>

Idle == [pc |-> "idle"]
Token == 1..LastToken

(* A session of a tap is of a tag or of a test tag. *)
Tap(tag, door, counter, test) == [tag |-> tag, door |-> door, counter |-> counter, test |-> test]

At(r, pc) == requests[r].pc = pc
Goes(r, request) == requests' = [requests EXCEPT ![r] = request]
Allowed(what) == may[what] > 0
Uses(what) == may' = [may EXCEPT ![what] = @ - 1]

(***************************************************************************)
(* begin_tap.                                                              *)
(***************************************************************************)
ReadTag(r, t, counter) ==
  /\ At(r, "idle") /\ Allowed("taps")
  /\ Registered(data, t) /\ data.tags[t].enabled
  /\ Goes(r, [pc |-> "verify", keys |-> data.tags[t].keys,
              tap |-> Tap(t, data.tags[t].door, counter, FALSE)])
  /\ Uses("taps")
  /\ UNCHANGED <<now, data, vault, stored, policy, taps, ceremonies, enrolments, issued, past>>

(* The door can be operated, both keys are retrieved, the message is genuine. *)
VerifyReading(r) ==
  /\ At(r, "verify") /\ requests[r].keys \subseteq vault
  /\ Goes(r, [pc |-> "claim", tap |-> requests[r].tap])
  /\ UNCHANGED <<now, data, vault, stored, policy, taps, ceremonies, enrolments, issued, may, past>>

ClaimReading(r) ==
  LET tap == requests[r].tap
  IN /\ At(r, "claim")
     /\ IF MayClaim(data, tap.tag, tap.counter)
        THEN /\ data' = ClaimCounter(data, tap.tag, tap.counter)
             /\ Goes(r, [pc |-> "issue", tap |-> tap, epoch |-> confirms[tap.tag]])
        ELSE Goes(r, Idle) /\ UNCHANGED data
     /\ UNCHANGED <<now, vault, stored, policy, taps, ceremonies, enrolments, issued, may, past>>

(* begin_test_tap. *)
ReadTestTag(r, x) ==
  /\ At(r, "idle") /\ Allowed("taps") /\ TestTagActive(data, x, now)
  /\ Goes(r, [pc |-> "issue", epoch |-> 0,
              tap |-> Tap(x, data.tests[x].door, None, TRUE)])
  /\ Uses("taps")
  /\ UNCHANGED <<now, data, vault, stored, policy, taps, ceremonies, enrolments, issued, past>>

IssueTap(r) ==
  LET tap == requests[r].tap
  IN /\ At(r, "issue") /\ issued < LastToken
     /\ taps' = Issued(taps, issued + 1, tap, now, TapTtl)
     /\ issued' = issued + 1
     /\ opened' = opened \cup {[tap |-> tap, token |-> issued + 1, epoch |-> requests[r].epoch]}
     /\ Goes(r, Idle)
     /\ UNCHANGED <<now, data, vault, stored, policy, ceremonies, enrolments, may, commands,
                    enrolled, voided, confirms>>

(***************************************************************************)
(* validate_tap_session and begin_authentication: no await between them.   *)
(***************************************************************************)
Challenge(token) ==
  /\ Allowed("challenges") /\ issued < LastToken /\ Holds(taps, token, now)
  /\ taps' = Unexpired(taps, now)
  /\ ceremonies' = Issued(ceremonies, issued + 1, token, now, CeremonyTtl)
  /\ issued' = issued + 1
  /\ Uses("challenges")
  /\ UNCHANGED <<now, data, vault, stored, policy, enrolments, requests, past>>

(***************************************************************************)
(* finish_authentication and operate.  The answer may come several times.  *)
(***************************************************************************)
Answer(r, ceremony, k) ==
  /\ At(r, "idle") /\ Allowed("answers") /\ Holds(ceremonies, ceremony, now)
  /\ ceremonies' = Consumed(ceremonies, ceremony, now)
  /\ Goes(r, [pc |-> "authenticate", token |-> ValueOf(ceremonies, ceremony), passkey |-> k])
  /\ Uses("answers")
  /\ UNCHANGED <<now, data, vault, stored, policy, taps, enrolments, issued, past>>

(* get_credential and the verification; the count is saved next. *)
Authenticate(r) ==
  LET request == requests[r]
  IN /\ At(r, "authenticate") /\ PasskeyEnabled(data, request.passkey)
     /\ Goes(r, [pc |-> "operate", token |-> request.token, passkey |-> request.passkey,
                 person |-> data.passkeys[request.passkey].person])
     /\ UNCHANGED <<now, data, vault, stored, policy, taps, ceremonies, enrolments, issued, may, past>>

(* What can never come back: a person, a door, or a test tag that is gone. *)
Gone(person, tap) ==
  \/ people[person] = None
  \/ ~doors[tap.door].managed
  \/ tap.test /\ (data.tests[tap.tag] = None \/ data.tests[tap.tag].expires <= now)

ConsumeTap(r) ==
  LET request == requests[r]
      tap == ValueOf(taps, request.token)
  IN /\ At(r, "operate")
     /\ IF Holds(taps, request.token, now)
        THEN Goes(r, [pc |-> "grant", token |-> request.token, person |-> request.person,
                      tap |-> tap, instant |-> now, gone |-> Gone(request.person, tap),
                      passkey |-> request.passkey])
        ELSE Goes(r, Idle)
     /\ taps' = Consumed(taps, request.token, now)
     /\ UNCHANGED <<now, data, vault, stored, policy, ceremonies, enrolments, issued, may, past>>

HasGrant(person, tap) ==
  IF tap.test THEN TestTagActive(data, tap.tag, now) ELSE HasAccessGrant(data, person, tap.door)

CheckGrant(r) ==
  LET request == requests[r]
  IN /\ At(r, "grant")
     /\ IF HasGrant(request.person, request.tap)
        THEN Goes(r, [request EXCEPT !.pc = "decide"])
        ELSE Goes(r, Idle)
     /\ UNCHANGED <<now, data, vault, stored, policy, taps, ceremonies, enrolments, issued, may, past>>

(***************************************************************************)
(* The snapshot is taken after the grant was seen, and decides for the     *)
(* instant at which the session was consumed.                              *)
(***************************************************************************)
GrantOf(person, tap) ==
  IF tap.test THEN pins[person, tap.door]
  ELSE Supplied(people[person], pins[person, tap.door])

Snapshot(person, tap) ==
  [person |-> people[person], grant |-> GrantOf(person, tap), door |-> doors[tap.door],
   schedules |-> schedules]

Decide(r) ==
  LET request == requests[r]
      snapshot == Snapshot(request.person, request.tap)
  IN /\ At(r, "decide") /\ people[request.person] # None
     /\ Goes(r, [pc |-> "decided", token |-> request.token, person |-> request.person,
                 tap |-> request.tap, instant |-> request.instant, gone |-> request.gone,
                 passkey |-> request.passkey, snapshot |-> snapshot,
                 decision |-> Authorize(snapshot.person, snapshot.grant, snapshot.door,
                                        snapshot.schedules, request.instant)])
     /\ UNCHANGED <<now, data, vault, stored, policy, taps, ceremonies, enrolments, issued, may, past>>

Operate(r) ==
  LET request == requests[r]
  IN /\ At(r, "decided") /\ request.decision = "allowed"
     /\ commands' = commands \cup {[token |-> request.token, person |-> request.person,
                                    passkey |-> request.passkey, gone |-> request.gone,
                                    nth |-> Cardinality(commands)]}
     /\ Goes(r, Idle)
     /\ UNCHANGED <<now, data, vault, stored, policy, taps, ceremonies, enrolments, issued, may,
                    opened, enrolled, voided, confirms>>

(* A request ends without more: refused, a failure, an unknown person. *)
End(r) ==
  /\ ~At(r, "idle") /\ ~At(r, "operate") /\ ~At(r, "grant") /\ ~At(r, "claim")
  /\ Goes(r, Idle)
  /\ UNCHANGED <<now, data, vault, stored, policy, taps, ceremonies, enrolments, issued, may, past>>

(***************************************************************************)
(* begin_registration and finish_registration.                             *)
(***************************************************************************)
Register(i) ==
  /\ Allowed("enrolments") /\ issued < LastToken /\ InviteActive(data, i, now)
  /\ enrolments' = Issued(enrolments, issued + 1,
                          [invite |-> i, person |-> data.invites[i].person], now, EnrolTtl)
  /\ issued' = issued + 1
  /\ Uses("enrolments")
  /\ UNCHANGED <<now, data, vault, stored, policy, taps, ceremonies, requests, past>>

Attest(r, ceremony, k) ==
  /\ At(r, "idle") /\ Holds(enrolments, ceremony, now)
  /\ enrolments' = Consumed(enrolments, ceremony, now)
  /\ Goes(r, [pc |-> "enrol", session |-> ValueOf(enrolments, ceremony), passkey |-> k])
  /\ UNCHANGED <<now, data, vault, stored, policy, taps, ceremonies, issued, may, past>>

Enrol(r) ==
  LET session == requests[r].session
      passkey == requests[r].passkey
  IN /\ At(r, "enrol") /\ MayEnroll(data, session.invite, session.person, passkey, now)
     /\ data' = CompleteEnrollment(data, session.invite, session.person, passkey)
     /\ enrolled' = [enrolled EXCEPT ![passkey] = session.invite]
     /\ Goes(r, Idle)
     /\ UNCHANGED <<now, vault, stored, policy, taps, ceremonies, enrolments, issued, may, opened,
                    commands, voided, confirms>>

Pass ==
  /\ Allowed("time") /\ now < LastInstant
  /\ now' = now + 1
  /\ Uses("time")
  /\ UNCHANGED <<data, vault, stored, policy, memory, past>>

Visit ==
  \/ \E r \in Request, t \in Tag, counter \in Counter : ReadTag(r, t, counter)
  \/ \E r \in Request, x \in Test : ReadTestTag(r, x)
  \/ \E token \in Token : Challenge(token)
  \/ \E r \in Request, ceremony \in Token, k \in Passkey :
       Answer(r, ceremony, k) \/ Attest(r, ceremony, k)
  \/ \E i \in Invite : Register(i)
  \/ \E r \in Request :
       \/ VerifyReading(r) \/ ClaimReading(r) \/ IssueTap(r) \/ Authenticate(r) \/ ConsumeTap(r)
       \/ CheckGrant(r) \/ Decide(r) \/ Operate(r) \/ Enrol(r) \/ End(r)
  \/ Pass
=============================================================================
