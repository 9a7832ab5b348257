---------------------------- MODULE GroupSession ----------------------------
(***************************************************************************)
(* The outbound Megolm session of one encrypted room: how AsyncClient      *)
(* creates it, sends its key to the devices of the room, encrypts with it  *)
(* and drops it.                                                           *)
(*                                                                         *)
(* Several coroutines of the one event loop touch the session: every       *)
(* pending room_send() or share_group_session() call (a Task), and the     *)
(* sync loop, which applies membership changes and device list updates.    *)
(* A coroutine runs alone from one suspended await to the next, so one     *)
(* action here is one such stretch of code.                                *)
(*                                                                         *)
(* room_send        async_client.py    share_group_session_parallel        *)
(* share_group_session    "            group_encrypt     olm_machine.py    *)
(* _handle_olm_response, invalidate_outbound_session     base_client.py    *)
(*                                                                         *)
(* A definition headed "Slip" is a wrong version of the one after it, for  *)
(* mutation tests of the properties; nothing uses it.                      *)
(***************************************************************************)
EXTENDS Naturals, FiniteSets

CONSTANTS
  User,         \* the other members the room can have
  Device,       \* their devices; the client's own device is never a target
  Owner,        \* the user of each device
  Task,         \* concurrent callers of room_send and share_group_session
  ChunkSize,    \* Olm._maxToDeviceMessagesPerRequest
  MaxMessages,  \* OutboundGroupSession.max_messages
  MayGiveUp,    \* can a request raise: AsyncClientConfig.max_timeouts is set,
                \* or the application cancels the coroutine
  MaxCalls,     \* bound: calls of room_send and share_group_session
  MaxChanges    \* bound: membership, device, trust and expiry events

ASSUME OwnerAssumption  == Owner \in [Device -> User]
ASSUME BoundsAssumption ==
  /\ ChunkSize \in Nat \ {0} /\ MaxMessages \in Nat \ {0}
  /\ MaxCalls \in Nat /\ MaxChanges \in Nat /\ MayGiveUp \in BOOLEAN

VARIABLES
  members,        \* the keys of room.users
  membersSynced,  \* room.members_synced
  state,          \* device store: is a device unknown, active or deleted
  trust,          \* the trust state of each device
  olm,            \* devices an Olm session exists with, for their current key
  sess,           \* outbound_group_sessions[room_id], NoSession when absent
  created,        \* number of outbound sessions created so far
  sharing,        \* room_id is in sharing_session
  pc,             \* what each task awaits
  op,             \* the method each task runs
  claim,          \* the devices a task claims one-time keys for
  requests,       \* to-device requests that carry a session key, in flight
  calls, changes  \* counters for the bounds

vars == <<members, membersSynced, state, trust, olm, sess, created, sharing,
          pc, op, claim, requests, calls, changes>>
room == <<members, membersSynced>>
devs == <<state, trust>>
env  == <<members, membersSynced, state, changes>>

Trust    == {"unset", "verified", "blacklisted", "ignored"}
PC       == {"idle", "members", "querying", "claiming", "gathering",
             "waiting", "woken", "sending"}

(* The session record.  holders and exposed are history: the devices the   *)
(* server delivered the key to, and those that lost the right to it after  *)
(* they were given it, at a moment when the client did not drop it.        *)
Session  == [id : Nat, old : BOOLEAN, count : Nat, shared : BOOLEAN,
             sharedWith : SUBSET Device, ignored : SUBSET Device,
             holders : SUBSET Device, exposed : SUBSET Device]
\* Slip: message_count starts one too low.
NewCountingFromBelow(n) ==
            [id |-> n, old |-> FALSE, count |-> 0 - 1, shared |-> FALSE,
             sharedWith |-> {}, ignored |-> {}, holders |-> {}, exposed |-> {}]
New(n)   == [id |-> n, old |-> FALSE, count |-> 0, shared |-> FALSE,
             sharedWith |-> {}, ignored |-> {}, holders |-> {}, exposed |-> {}]
NoSession == New(0)
Exists(s) == s.id # 0
Expired(s) == s.count >= MaxMessages \/ s.old
ShouldShare(s) == ~Exists(s) \/ Expired(s) \/ ~s.shared

Request == [task : Task, sid : Nat, devices : SUBSET Device]
RequestsOf(t) == {r \in requests : r.task = t}
InFlight(n)   == UNION {r.devices : r \in {q \in requests : q.sid = n}}

RoomDevices(m, st) == {d \in Device : Owner[d] \in m /\ st[d] = "active"}
Entitled(m, st, tr) ==
  {d \in RoomDevices(m, st) : tr[d] \in {"verified", "ignored"}}

Init ==
  /\ members \in SUBSET User
  /\ membersSynced \in BOOLEAN
  /\ state \in [Device -> {"unknown", "active"}]
  /\ trust \in [Device -> Trust]
  /\ \A d \in Device : state[d] = "unknown" => trust[d] = "unset"
  /\ olm \in SUBSET {d \in Device : state[d] = "active"}
  /\ sess = NoSession /\ created = 0 /\ sharing = FALSE
  /\ pc = [t \in Task |-> "idle"]
  /\ op = [t \in Task |-> "send"]
  /\ claim = [t \in Task |-> {}]
  /\ requests = {} /\ calls = 0 /\ changes = 0

-----------------------------------------------------------------------------
(* Encrypting and sharing: the stretches of a task.                        *)

\* Slip: the event is never set.
WakeNobody == pc
\* asyncio.Event.set() on the event of the room: every waiter can resume.
Wake == [t \in Task |-> IF pc[t] = "waiting" THEN "woken" ELSE pc[t]]

\* The session becomes s; ids only grow.
SetSession(s) ==
  /\ sess' = s
  /\ created' = IF s.id > created THEN s.id ELSE created
Fresh(s) == New((IF s.id > created THEN s.id ELSE created) + 1)

\* Slip: group_encrypt does not look at expired.
EncryptAnyAge(s) == membersSynced /\ Exists(s) /\ s.shared
CanEncrypt(s) == membersSynced /\ Exists(s) /\ ~Expired(s) /\ s.shared

\* Client.encrypt: raise MembersSyncError, or group_encrypt: replace a missing
\* or expired session by one that is not shared and raise, or encrypt.  p is
\* the pc of the tasks so far; t sends its message or has raised.
Encrypt(t, s, p) ==
  \/ /\ CanEncrypt(s)
     /\ SetSession([s EXCEPT !.count = @ + 1])
     /\ pc' = [p EXCEPT ![t] = "sending"]
  \/ /\ ~CanEncrypt(s)
     /\ SetSession(IF membersSynced /\ (~Exists(s) \/ Expired(s))
                   THEN Fresh(s) ELSE s)
     /\ pc' = [p EXCEPT ![t] = "idle"]

\* The end of share_group_session: the session is marked as shared whatever
\* became of the requests, the event is set, and a room_send goes on to encrypt.
FinishShare(t, s, method) ==
  /\ sharing' = FALSE
  /\ LET done == [s EXCEPT !.shared = TRUE]
     IN IF method = "send" THEN Encrypt(t, done, Wake)
        ELSE SetSession(done) /\ pc' = [Wake EXCEPT ![t] = "idle"]

\* An exception in the try block: the finally clause still sets the event.
AbortShare(t, s) ==
  /\ sharing' = FALSE
  /\ SetSession(s)
  /\ pc' = [Wake EXCEPT ![t] = "idle"]

\* The chunks() of a set of targets: all of them full but one.
Chunks(D) ==
  {P \in SUBSET (SUBSET D) :
     /\ UNION P = D /\ {} \notin P
     /\ \A c1, c2 \in P : c1 # c2 => c1 \cap c2 = {}
     /\ \A c \in P : Cardinality(c) <= ChunkSize
     /\ Cardinality({c \in P : Cardinality(c) < ChunkSize}) <= 1}

Blacklisted == {d \in RoomDevices(members, state) : trust[d] = "blacklisted"}

Targets(s, o) ==
  ((RoomDevices(members, state) \cap o) \ Blacklisted) \ (s.sharedWith \cup s.ignored)
Unverified(T) == {d \in T : trust[d] = "unset"}

\* Slip: a session that is shared is shared again.
ToShareAgain == IF ~Exists(sess) THEN New(created + 1) ELSE sess
ToShare == IF ~Exists(sess) \/ sess.shared THEN New(created + 1) ELSE sess

\* share_group_session_parallel and the requests it leads to, with the Olm
\* sessions o.  An unverified target makes it raise before anything is sent,
\* blacklisted devices it has already passed staying ignored, unless the caller
\* passed ignore_unverified_devices.
Prepare(t, o, method) ==
  LET s == ToShare
      T == Targets(s, o)
  IN \/ /\ Unverified(T) # {}
        /\ \E I \in SUBSET Blacklisted :
             AbortShare(t, [s EXCEPT !.ignored = @ \cup I])
        /\ UNCHANGED <<trust, requests>>
     \/ /\ trust' = [d \in Device |-> IF d \in Unverified(T) THEN "ignored" ELSE trust[d]]
        /\ LET s2 == [s EXCEPT !.ignored = @ \cup Blacklisted]
           IN IF T = {}
              THEN FinishShare(t, s2, method) /\ UNCHANGED requests
              ELSE /\ SetSession(s2)
                   /\ sharing' = TRUE
                   /\ pc' = [pc EXCEPT ![t] = "gathering"]
                   /\ \E P \in Chunks(T) :
                        requests' = requests \cup [task : {t}, sid : {s2.id}, devices : P]

\* share_group_session up to its first await: the devices of the room that
\* have no Olm session need a one-time key first.
BeginShare(t, method) ==
  LET missing == RoomDevices(members, state) \ olm
  IN IF missing # {}
     THEN /\ sharing' = TRUE
          /\ pc' = [pc EXCEPT ![t] = "claiming"]
          /\ claim' = [claim EXCEPT ![t] = missing]
          /\ UNCHANGED <<trust, sess, created, requests>>
     ELSE Prepare(t, olm, method) /\ UNCHANGED claim

\* Slip: sharing_session is not looked at.
NeverSharing   == FALSE
AlreadySharing == sharing

\* room_send once the members are there: share first, wait for the share of
\* another task, or encrypt at once.
CheckSession(t) ==
  \/ /\ ShouldShare(sess) /\ AlreadySharing
     /\ pc' = [pc EXCEPT ![t] = "waiting"]
     /\ UNCHANGED <<trust, sess, created, sharing, claim, requests>>
  \/ ShouldShare(sess) /\ ~AlreadySharing /\ BeginShare(t, "send")
  \/ ~ShouldShare(sess) /\ Encrypt(t, sess, pc) /\ UNCHANGED <<trust, sharing, claim, requests>>

-----------------------------------------------------------------------------
(* Losing a session.                                                       *)

\* invalidate_outbound_session: a session that was never shared is put back.
\* Slip: nothing is dropped.
KeepAlways(s) == s
Invalidate(s) == IF s.shared THEN NoSession ELSE s

\* The same when something changed about a device of user u: only the rooms u
\* is in are looked at.
InvalidateFor(u, s) == IF u \in members THEN Invalidate(s) ELSE s

\* History: the room is about to become (m, st, tr).  Expose notes the devices
\* that were given the key of s and lose the right to it now, ExposeUnshared
\* does so only for a session that invalidation leaves in place.
Expose(s, m, st, tr) ==
  LET lost == Entitled(members, state, trust) \ Entitled(m, st, tr)
  IN [s EXCEPT !.exposed = @ \cup (lost \cap (s.holders \cup InFlight(s.id)))]
ExposeUnshared(s, m, st, tr) == IF s.shared THEN s ELSE Expose(s, m, st, tr)

-----------------------------------------------------------------------------
(* The actions of the tasks.                                               *)

RoomSend(t) ==
  /\ pc[t] = "idle" /\ calls < MaxCalls
  /\ calls' = calls + 1
  /\ op' = [op EXCEPT ![t] = "send"]
  /\ IF membersSynced THEN CheckSession(t)
     ELSE /\ pc' = [pc EXCEPT ![t] = "members"]
          /\ UNCHANGED <<trust, sess, created, sharing, claim, requests>>
  /\ UNCHANGED <<env, olm>>

\* The public share_group_session; it raises when a share is in flight.
ShareGroupSession(t) ==
  /\ pc[t] = "idle" /\ calls < MaxCalls /\ ~AlreadySharing
  /\ calls' = calls + 1
  /\ op' = [op EXCEPT ![t] = "share"]
  /\ BeginShare(t, "share")
  /\ UNCHANGED <<env, olm>>

\* joined_members is answered for room_send: with the members M, which may be
\* older or newer than what the sync loop has applied, or with an error.  The
\* session is not invalidated, whoever is gone.
JoinedMembersResponse(t) ==
  /\ pc[t] = "members"
  /\ pc' = [pc EXCEPT ![t] = "querying"]
  /\ \/ UNCHANGED <<room, sess>>
     \/ \E M \in SUBSET User :
          /\ members' = M /\ membersSynced' = TRUE
          /\ sess' = Expose(sess, M, state, trust)
  /\ UNCHANGED <<devs, olm, created, sharing, op, claim, requests, calls, changes>>

\* The key query for the new members is over (what it found is a device event
\* below; with nobody to query the task goes straight on).
KeysQueried(t) ==
  /\ pc[t] = "querying"
  /\ CheckSession(t)
  /\ UNCHANGED <<env, olm, op, calls>>

\* keys_claim is answered: the server had a key for the devices C.
KeysClaimed(t) ==
  /\ pc[t] = "claiming"
  /\ \E C \in SUBSET claim[t] : olm' = olm \cup C /\ Prepare(t, olm \cup C, op[t])
  /\ claim' = [claim EXCEPT ![t] = {}]
  /\ UNCHANGED <<env, op, calls>>

\* keys_claim is answered by an error: it passes no response_data, so making the
\* KeysClaimError out of the answer raises TypeError, whatever the configuration.
\* The claim is in front of the try block of share_group_session, so the event of
\* the room stays and nobody sets it.
ClaimRefused(t) ==
  /\ pc[t] = "claiming"
  /\ pc' = [pc EXCEPT ![t] = "idle"]
  /\ claim' = [claim EXCEPT ![t] = {}]
  /\ UNCHANGED <<env, trust, olm, sess, created, sharing, op, requests, calls>>

\* A request runs out of time-outs, or the application cancels the task, before
\* that try block: again the event of the room stays as it is.
GivesUp(t) ==
  /\ MayGiveUp /\ pc[t] \in {"members", "querying", "claiming", "waiting", "woken"}
  /\ pc' = [pc EXCEPT ![t] = "idle"]
  /\ claim' = [claim EXCEPT ![t] = {}]
  /\ UNCHANGED <<env, trust, olm, sess, created, sharing, op, requests, calls>>

Delivered(s, n, D) == IF s.id = n THEN [s EXCEPT !.holders = @ \cup D] ELSE s

\* _handle_olm_response: the devices are noted on whatever session the room has
\* now, which becomes shared once every device of the room is accounted for.
NoteShared(s, D) ==
  IF ~Exists(s) THEN s
  ELSE LET noted == s.sharedWith \cup D
       IN [s EXCEPT !.sharedWith = noted,
                    !.shared = @ \/ RoomDevices(members, state) \subseteq noted \cup s.ignored]

RequestAnswered(r) ==
  /\ r \in requests
  /\ sess' = NoteShared(Delivered(sess, r.sid, r.devices), r.devices)
  /\ requests' = requests \ {r}
  /\ UNCHANGED <<env, trust, olm, created, sharing, pc, op, claim, calls>>

\* An error response, or an exception that gather() returns as a result: the
\* server may have delivered the messages all the same.
RequestFails(r) ==
  /\ r \in requests
  /\ \E D \in {{}, r.devices} : sess' = Delivered(sess, r.sid, D)
  /\ requests' = requests \ {r}
  /\ UNCHANGED <<env, trust, olm, created, sharing, pc, op, claim, calls>>

\* gather() has every result.  Without a session in the room the assignment of
\* .shared raises KeyError.
Gathered(t) ==
  /\ pc[t] = "gathering" /\ RequestsOf(t) = {}
  /\ IF Exists(sess) THEN FinishShare(t, sess, op[t]) ELSE AbortShare(t, sess)
  /\ UNCHANGED <<env, trust, olm, op, claim, requests, calls>>

\* The application cancels the task while it gathers; some messages are out.
ShareCancelled(t) ==
  /\ MayGiveUp /\ pc[t] = "gathering"
  /\ \E D \in SUBSET UNION {r.devices : r \in {q \in RequestsOf(t) : q.sid = sess.id}} :
       AbortShare(t, Delivered(sess, sess.id, D))
  /\ requests' = requests \ RequestsOf(t)
  /\ UNCHANGED <<env, trust, olm, op, claim, calls>>

\* A room_send that waited for another share encrypts with what there is.
Resume(t) ==
  /\ pc[t] = "woken"
  /\ Encrypt(t, sess, pc)
  /\ UNCHANGED <<env, trust, olm, sharing, op, claim, requests, calls>>

Sent(t) ==
  /\ pc[t] = "sending"
  /\ pc' = [pc EXCEPT ![t] = "idle"]
  /\ UNCHANGED <<env, trust, olm, sess, created, sharing, op, claim, requests, calls>>

-----------------------------------------------------------------------------
(* What the sync loop, key queries, the user and time do to the room.      *)

Change == changes < MaxChanges /\ changes' = changes + 1
tasks  == <<created, sharing, pc, op, claim, requests, calls>>

\* _handle_joined_state and _handle_timeline_event, for a member event that
\* changes the member list.
MemberJoins(u) ==
  /\ Change /\ u \notin members
  /\ members' = members \cup {u}
  /\ sess' = Invalidate(sess)
  /\ UNCHANGED <<membersSynced, devs, olm, tasks>>

MemberLeaves(u) ==
  /\ Change /\ u \in members
  /\ members' = members \ {u}
  /\ sess' = ExposeUnshared(Invalidate(sess), members', state, trust)
  /\ UNCHANGED <<membersSynced, devs, olm, tasks>>

\* _handle_key_query: a new device, a new identity key of a known one (the Olm
\* session is kept under the old key), a device that is gone.  A device marked
\* as deleted stays so.
DeviceListed(d) ==
  /\ Change /\ state[d] = "unknown"
  /\ state' = [state EXCEPT ![d] = "active"]
  /\ sess' = InvalidateFor(Owner[d], sess)
  /\ UNCHANGED <<room, trust, olm, tasks>>

DeviceKeyChanges(d) ==
  /\ Change /\ state[d] = "active"
  /\ olm' = olm \ {d}
  /\ sess' = InvalidateFor(Owner[d], sess)
  /\ UNCHANGED <<room, devs, tasks>>

DeviceDeleted(d) ==
  /\ Change /\ state[d] = "active"
  /\ state' = [state EXCEPT ![d] = "deleted"]
  /\ sess' = ExposeUnshared(InvalidateFor(Owner[d], sess), members, state', trust)
  /\ UNCHANGED <<room, trust, olm, tasks>>

\* verify_device, blacklist_device, ignore_device and their opposites of
\* Client: the session goes when the trust state changed.
TrustChanges(d, value) ==
  /\ Change /\ state[d] # "unknown" /\ trust[d] # value
  /\ trust' = [trust EXCEPT ![d] = value]
  /\ sess' = ExposeUnshared(InvalidateFor(Owner[d], sess), members, state, trust')
  /\ UNCHANGED <<room, state, olm, tasks>>

\* Olm.handle_key_verification calls Olm.verify_device, which keeps the session.
VerifiedBySas(d) ==
  /\ Change /\ state[d] # "unknown" /\ trust[d] # "verified"
  /\ trust' = [trust EXCEPT ![d] = "verified"]
  /\ UNCHANGED <<room, state, olm, sess, tasks>>

\* An inbound Olm message opens a session with the device.
OlmSessionAppears(d) ==
  /\ Change /\ state[d] = "active" /\ d \notin olm
  /\ olm' = olm \cup {d}
  /\ UNCHANGED <<room, devs, sess, tasks>>

\* max_age has passed since the session was created.
SessionAges ==
  /\ Change /\ Exists(sess) /\ ~sess.old
  /\ sess' = [sess EXCEPT !.old = TRUE]
  /\ UNCHANGED <<room, devs, olm, tasks>>

-----------------------------------------------------------------------------
TaskStep(t) ==
  \/ RoomSend(t) \/ ShareGroupSession(t)
  \/ JoinedMembersResponse(t) \/ KeysQueried(t)
  \/ KeysClaimed(t) \/ ClaimRefused(t) \/ GivesUp(t)
  \/ Gathered(t) \/ ShareCancelled(t) \/ Resume(t) \/ Sent(t)
RequestStep(r) == RequestAnswered(r) \/ RequestFails(r)
RoomStep ==
  \/ \E u \in User : MemberJoins(u) \/ MemberLeaves(u)
  \/ \E d \in Device :
       \/ DeviceListed(d) \/ DeviceKeyChanges(d) \/ DeviceDeleted(d)
       \/ VerifiedBySas(d) \/ OlmSessionAppears(d)
       \/ \E value \in Trust : TrustChanges(d, value)
  \/ SessionAges

Next == (\E t \in Task : TaskStep(t)) \/ (\E r \in requests : RequestStep(r)) \/ RoomStep
Spec == Init /\ [][Next]_vars

\* A runnable coroutine runs, and every request is answered in the end, one way or
\* the other: _send repeats one that timed out until max_timeouts, by default for
\* ever.
Progress(t) ==
  \/ JoinedMembersResponse(t) \/ KeysQueried(t)
  \/ KeysClaimed(t) \/ ClaimRefused(t)
  \/ Gathered(t) \/ Resume(t) \/ Sent(t)
  \/ \E r \in RequestsOf(t) : RequestStep(r)
Fairness == \A t \in Task : WF_vars(Progress(t))
FairSpec == Spec /\ Fairness

-----------------------------------------------------------------------------
(* Properties.                                                             *)

TypeOK ==
  /\ members \in SUBSET User /\ membersSynced \in BOOLEAN
  /\ state \in [Device -> {"unknown", "active", "deleted"}]
  /\ trust \in [Device -> Trust] /\ olm \in SUBSET Device
  /\ sess \in Session /\ created \in Nat /\ sharing \in BOOLEAN
  /\ pc \in [Task -> PC] /\ op \in [Task -> {"send", "share"}]
  /\ claim \in [Task -> SUBSET Device]
  /\ requests \in SUBSET Request
  /\ calls \in 0..MaxCalls /\ changes \in 0..MaxChanges

InShare(t) == pc[t] \in {"claiming", "gathering"}

\* sharing_session keeps concurrent room_send calls from sharing the session of
\* the room twice: at most one task is between the two ends of
\* share_group_session, and the event is there while one is.
OneShareAtATime ==
  /\ \A t1, t2 \in Task : InShare(t1) /\ InShare(t2) => t1 = t2
  /\ \A t \in Task : InShare(t) => sharing

\* The devices that hold the key of the session in use, or are being sent it,
\* are those of the room that the user trusts, but for devices that lost the
\* right to it while the session was not shared yet, or by a members response.
KeyConfinement ==
  sess.holders \cup InFlight(sess.id) \subseteq Entitled(members, state, trust) \cup sess.exposed

\* "Devices on the blacklist will not receive room encryption keys and therefore
\* won't be able to decrypt messages coming from this client" (blacklist_device).
\* Does not hold: a session that is still being shared is not invalidated.
BlacklistedCannotRead ==
  CanEncrypt(sess) => \A d \in sess.holders : trust[d] # "blacklisted"

\* A session encrypts at most max_messages messages, however many tasks found it
\* usable before they were suspended.
MessageLimit == sess.count <= MaxMessages

\* The key of a session is sent out only before its first message: a device that
\* joins later gets a new session.
KeyLeavesBeforeFirstMessage ==
  [][\A r \in requests' \ requests : r.sid = sess'.id /\ sess'.count = 0]_vars

\* OutboundGroupSession is "aware of the users it is shared with": a device it
\* lists holds its key.  Does not hold: an answer about the session before is
\* noted on the new one.
SharedWithHolds == sess.sharedWith \subseteq sess.holders

\* share_group_session raises for a share in flight only when one is.  Does not
\* hold: keys_claim is awaited outside the try, and an error of the server is
\* enough to leave the event behind.
InFlightWhileSharing == sharing => \E t \in Task : InShare(t)

\* Every call of room_send and share_group_session returns or raises.  Does not
\* hold, for the same reason.
EveryCallEnds == \A t \in Task : pc[t] # "idle" ~> pc[t] = "idle"

\* The share of the room was left at the key claim.
Abandoned == sharing /\ \A t \in Task : ~InShare(t)

\* What does hold: every call of room_send and share_group_session returns or
\* raises, one that waits for the share of another task included, unless a share
\* was left at the key claim; even then, only calls that wait for its event hang.
CallsEnd ==
  \A t \in Task :
    pc[t] # "idle" ~> (pc[t] = "idle" \/ (Abandoned /\ pc[t] = "waiting"))
=============================================================================
