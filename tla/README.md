# A TLA+ model of matrix-nio

matrix-nio is a Matrix client library. This directory holds a specification of
the parts of it that keep state across requests, callbacks and sync responses, and
of the tables their requests and answers go through. It is checked with TLC on small
instances and, for the main results, proved with TLAPS for every value of the
constants. Every definition is written from the Python source; `PROJECT.json` names
the lines each one stands for (`map`), what each run shows (`runs`), the wrong versions
of the code that each property rejects (`mutants`), what is hard to test in the code
(`hazards`) and where the code contradicts its documentation (`findings`).

## The system

Paths are relative to `src/src/nio/`.

| component | source | state | operations | module |
|---|---|---|---|---|
| outbound group sessions | `crypto/olm_machine.py`, `crypto/sessions.py`, `client/base_client.py`, `client/async_client.py` | `outbound_group_sessions`, `sharing_session`, requests in flight | `room_send`, `share_group_session`, `group_encrypt`, `invalidate_outbound_session` | `GroupSession` |
| interactive verification | `crypto/sas.py`, `crypto/olm_machine.py` | `key_verifications`, `outgoing_to_device_messages`, the `Sas` objects | start, accept, confirm, cancel, `handle_key_verification`, `clear_verifications` | `Sas`, `KeyVerification` |
| device tracking | `crypto/olm_machine.py`, `crypto/device.py` | `tracked_users`, `users_for_key_query`, `device_store` | `keys_query`, `_handle_key_query`, `update_tracked_users`, `_handle_olm_events` | `DeviceTracking` |
| key requests | `crypto/olm_machine.py`, `crypto/key_request.py` | `received_key_requests`, `key_requests_waiting_for_session`, `key_request_devices_no_session`, `key_request_from_untrusted` | `collect_key_requests`, `continue_key_share`, `cancel_key_share`, `_handle_key_claiming` | `KeyRequests` |
| trust store | `store/database.py`, `store/file_trustdb.py`, `crypto/device.py` | trust state in memory, three files or one table | verify, blacklist, ignore and their opposites, `load_device_keys` | `TrustStore` |
| Olm sessions and one-time keys | `crypto/olm_machine.py`, `crypto/sessions.py` | account, `session_store`, `uploaded_key_count` | `share_keys`, `keys_upload`, `decrypt`, `create_session` | `OneTimeKeys` |
| Megolm decryption | `crypto/olm_machine.py` | `inbound_group_store`, `message_index_store`, `outgoing_key_requests`, `wedged_devices` | `decrypt_megolm_event`, room keys, forwards, imports, unwedging | `MegolmDecryption` |
| sending | `client/async_client.py`, `monitors.py` | retry counters, position in the file, the `TransferMonitor` | `_send`, `upload`, `receive_response` | `Sending` |
| room upgrade | `client/async_client.py` | local variables of a dozen awaits | `room_upgrade`, `room_update_aliases`, `has_event_permission` | `RoomUpgrade` |
| sync loop | `client/async_client.py`, `client/base_client.py` | `next_batch`, `loaded_sync_token`, `encrypted_rooms`, the store | `sync_forever`, `sync`, `_handle_sync`, `joined_members` | `SyncLoop` |
| rooms | `rooms.py` | `users`, `invited_users`, `names`, `summary`, `members_synced` | `handle_membership`, `update_summary`, counts, group name | `Rooms` |
| HTTP client of the sans-I/O client | `http.py`, `client/http_client.py` | `requests_made`, `parse_queue`, queues and buffers of the connection | `connect`, `disconnect`, the methods, `receive`, `data_to_send`, `next_response` | `HttpConnection` |
| client methods, API, responses, schemas | `client/*.py`, `api.py`, `responses.py`, `schemas.py` | none | build a request, parse an answer | `ClientCalls`, `HttpCalls`, `Api`, `Responses`, `Schemas` |
| events | `events/`, `event_builders/` | none | parse, build | - |
| attachments, key export | `crypto/attachments.py`, `crypto/key_export.py` | none | encrypt, decrypt | - |
| database schema | `store/models.py` | tables | create, upgrade | - |

How they meet: there is one event loop. `sync_forever` applies one sync response
at a time and then, concurrently, sends the queued to-device messages, uploads
keys, queries devices and claims one-time keys; the application calls
`room_send`, the verification methods and so on from other coroutines of the same
loop. A coroutine runs alone from one suspended `await` to the next, so what
interleaves are these stretches, and all of the state above is shared without
locks. Answers to concurrent requests come in any order, `_send` repeats a request
that timed out although the server may have handled it, and any await can end with
an exception (`max_timeouts`, a callback that raises, cancellation by the
application). A restart loads what the store has. `HttpClient` has no event loop: the
application carries its bytes, and everything a chunk holds is handled in one call.

What is hard to test in this code is listed in `PROJECT.json` under `hazards`, each
at its line with the properties aimed at it:

* state read before an await and used after it: the session a waiting `room_send`
  resumes with, a key request that waited for an Olm session, a members response
  that is older than the sync;
* changes that arrive during a share or a key query: a device is blacklisted, a
  notice comes while an older answer is on its way;
* exits by exception: between setting a flag and the `try` that resets it, out of a
  sync response whose token is saved already, out of a loop over a dictionary that
  changes;
* messages that are duplicated, overtaken, or come from both sides at once;
* crashes between two files, between an upload and its answer, between a dummy message
  and the requests that wait for it;
* requests that are repeated, and answers that pass for something else.

## Modules

| module | models | uses |
|---|---|---|
| `GroupSession` | the outbound session of one room | |
| `Sas`, `KeyVerification` | one `Sas` object, one operator per method; two devices, their users, the queues and the network | |
| `VerificationGoal` | what verification promises, without a protocol | |
| `DeviceTracking` | device lists, queries, notices | |
| `TrustStore` | trust in memory and in both stores | |
| `KeyRequests` | requests of other devices for room keys | `TrustStore` |
| `OneTimeKeys` | the account, the server, the devices that claim | |
| `MegolmDecryption` | inbound sessions, replay check, unwedging, own requests | |
| `Schemas`, `Responses` | which body a class takes for a success | |
| `Api`, `ClientCalls`, `HttpCalls` | the requests; the methods of both clients: request, class, decorators | `Responses` |
| `Sending` | one call of `AsyncClient`, uploads included | `ClientCalls` |
| `RoomUpgrade` | a room upgrade as a sequence of calls | `Sending` |
| `Rooms` | a `MatrixRoom` as a record and its methods as operators | |
| `SyncLoop` | syncs, the loop, crashes, the server's stream of events | `Rooms` |
| `HttpConnection` | both connections and `HttpClient` | `HttpCalls` |
| `KeyVerificationProofs`, `DeviceTrackingProofs`, `KeyRequestsProofs`, `MegolmDecryptionProofs`, `RoomUpgradeProofs`, `SyncLoopProofs`, `HttpConnectionProofs` | the theorems of the module named and of those it extends (`TrustStore`, `Sending`, `Rooms`) | the module named |
| `EncryptionProofs` | the theorems of `GroupSession` and `OneTimeKeys`, each about its own specification | both |
| `MC...` | small instances for TLC | the module named |

A definition whose comment starts with "Slip" is a wrong version of the next one,
such as a careless change would produce; the mutants of `PROJECT.json` put it in
the place of the right one and TLC must then find the property violated.

Variables marked "history" record what happened so that a property can say it; they do
not change what the code does. Most properties have the form "X, unless Y", where Y is a history
variable for one way in which the code is known to fail: the run shows that there is
no other way.

### GroupSession

`Task` is the set of coroutines that call `room_send` or `share_group_session`;
`pc[t]` says what `t` awaits and each action is the code up to the next await:

| action | code |
|---|---|
| `RoomSend`, `KeysQueried`, `CheckSession` | `room_send`: members first, then share, wait or encrypt |
| `ShareGroupSession`, `BeginShare`, `KeysClaimed`, `Prepare` | `share_group_session` and `share_group_session_parallel`: claim keys, chunk the targets, send |
| `RequestAnswered`, `RequestFails`, `Gathered` | `_handle_olm_response` for one to-device request; the result of `gather` |
| `Resume`, `Sent` | a `room_send` woken by the event; its request is over |
| `ClaimRefused`, `GivesUp`, `ShareCancelled` | exceptions out of an await: an error in answer to the key claim, which raises `TypeError`; a request that gives up; a task that is cancelled |
| `JoinedMembersResponse`, `MemberJoins`, `MemberLeaves` | members by `joined_members`, by the sync |
| `DeviceListed`, `DeviceKeyChanges`, `DeviceDeleted` | key query answers with their invalidation |
| `TrustChanges`, `VerifiedBySas` | the trust methods of `Client`; of `Olm`, which invalidate nothing |
| `OlmSessionAppears`, `SessionAges` | inbound Olm messages; `max_age` |

`sess` is the room's session with `message_count`, `shared`, `users_shared_with`
and `users_ignored`. Two fields are history: `holders`, the devices the server
gave the key to, and `exposed`, devices that lost the right to the key while the
client kept the session. Left out: the own device, room content, and reactions,
which are sent unencrypted by design (`m.reaction`); the sequential
`Olm.share_group_session`, which only the sans-I/O client uses; forgetting a room and
logging out. Outbound sessions are never stored, so a restart is a fresh `Init`.

`KeyConfinement` is the main property: who holds or is sent the key of the session in
use is a trusted active device of a member, or is in `exposed`. The code keeps
that promise only up to `exposed`: a session that is not shared yet survives
invalidation (`client/base_client.py:479-482`), and a members response invalidates
nothing.

`CallsEnd` has an exception too. `keys_claim` gives `_send` no `response_data`, and
`KeysClaimError.from_dict` cannot do without the room id, so an error in answer to the
claim raises `TypeError`. The claim is awaited in front of the `try` block that takes the
room out of `sharing_session`: the event stays, unset, and every later `room_send` to an
unshared session of that room waits for it (`Abandoned`).

### Sas and KeyVerification

`Sas` has the object as a record and one operator per method that changes it.
Keys are numbers, a commitment is the key committed to, and the secret is the pair
of keys, so two devices show the same emoji exactly when their secrets are equal.
`KeyVerification` has two sides with their `key_verifications` and
`outgoing_to_device_messages`, a network that is a set (messages queued together
are sent concurrently, so any order is possible), requests that fail before or
after the server has taken them, and users who start, accept, compare, confirm and
cancel at any time. Users compare honestly (`StringsMatch`). The other device is
either nio too or, in the run `KeyVerificationTime`, one that offers unknown methods,
authenticates other keys or has the MAC of its own wrong.

`news` says that a side is handling a sync response with a new token. To-device events come
with these only, and only these get to `clear_verifications`: `_handle_sync` returns at once
when the token is that of the last response (`client/async_client.py:706`).

`VerificationGoal` is what the users see, without keys, messages or states: which string
each device shows, which strings are confirmed, and under which a device is verified. A
string goes on show in one verification only, the same on both devices, and never to a user
who has confirmed it before; a confirmation counts for the string on show, and so does
verifying; canceling takes it away for good. `MutualConfirmation` relates two history variables of
the protocol and says nothing of strings that are used again, nor of verifications that
were cancelled in between.

### DeviceTracking

`server` and `told` are the homeserver: the lists, and the users a later sync
response will name in `device_lists.changed`. `pending` is `users_for_key_query`,
`queries` the calls of `keys_query` in flight, each answered with a snapshot of the
server that can be handled after a later one. `missed` is history: users whose last
notice was dropped because they share no known encrypted room, or came while an
answer older than it was on its way. `Restart` keeps only the store and can lose
notices whose sync token was saved (`client/async_client.py:709-712`).

### TrustStore and KeyRequests

A trust file is the number of copies of each key in it (`KeyStore` is a list and `add`
does not look for a copy); `remarked` is history for devices that got a second copy.
`ReloadHalfway` is a crash between two of the three files that one call rewrites.

`KeyRequests` composes the queues with `TrustStore`: trust changes and restarts are
steps of both. A request is a device and an id; nio uses the id of the session as the
id of the request, so the requests of two devices meet in dictionaries with one entry
per id. `status` is history: what became of each request. `Displaced` are the requests that an
entry of another device replaces; they are `lost`, which the properties admit. Which
of several waiting requests with one id is received again last is left open
(`pick`). `shown` is what the application was told, since its calls name requests it
was shown.

### OneTimeKeys

Keys are numbered in the order they are made. `account` and `saved` are the pickle in
memory and in the database, which differ between saves; `upload` is the request in
flight with the keys it carries; `server` and `claims` are the homeserver. A count in a
sync response can be older than the answer to an upload. `orphans` and `unlearned` are
history for the two things a lost answer or a crash can do: the server has keys that
the client's account no longer has, or that it will upload again. Taken from outside:
the server stores a key again that it no longer has, and the account of vodozemac drops a key
with the first session made from it. The specification and its parts are named `Account...`
(`AccountInit`, `AccountNext`, `AccountSpec`), as `EncryptionProofs` extends this module beside
`GroupSession`.

### MegolmDecryption

One device whose Olm channel with us works or is broken. A room event finds its session
or not (`RoomEvent`); without it and with a fresh channel a request goes out, and with a
wedged one it waits for the dummy message (`reRequests`). `Reaches` and `MarkAsSent`
are two steps because the forwarded key can come before the answer to the request
(`early`). The replay check is the LRU cache with its size. `AddSession` writes memory and
database, where the chain of a forwarded session is only ever added to.

### Schemas, Responses, Api, ClientCalls, HttpCalls

Tables without state. A body is its set of top-level fields, so `Valid` can tell the full
answer of each schema, an error and a page of a gateway from one another. `Responses` has
per class its schema, its error class, whether the error class needs an argument and
gets it, and what ends up in `retry_after_ms`; `ClientCalls` and `HttpCalls` have per
method its request, its class and its decorators; `Api` whether repeating the request acts
again. `RoomUpgrade` makes every call of `ClientCalls` by itself; the instance of
`HttpConnection` takes the calls that differ for it: a request that names a transaction,
one whose error is parsed twice, a file.

### Sending and RoomUpgrade

`Sending` is one call: prepared, sent, served, answered, retried by one loop with two
limits. An upload streams its file in chunks; `held` is the chunk that is between the
look at `cancel` and the wait for `pause`; each attempt rewinds the file and
makes new encryption keys, `keys` is the attempt whose keys the caller gets.
The exception with which the body generator answers `cancel` does not get to the caller:
aiohttp wraps it in a `ClientConnectionError`, and `_send` takes that for one more lost
connection (`CancelSeen`).
`RoomUpgrade` drives it: `step` is the request that is due, and `Continue` is the code
between two awaits. What `ServerDoes` to rooms, tombstone and aliases happens when the
server handles a request, not when the answer arrives.

### Rooms and SyncLoop

`Rooms` has no variables: a room is a record, and one operator per method. `names`
counts how often a label lists a user, since `names` in the code is a list and
`list.remove` raises when there is nothing to remove. `SyncLoop` has the server as one
stream of events, so that what is true as of a token can be read off it. A
response is handled in steps, one up to each callback that is awaited; between
two steps a members response, a second sync (`orphan`, left behind when another request of an
iteration raised) or a crash can come. The order of `Receive` is that of the code: the
token is saved before anything is done.

### HttpConnection

One module for both classes of connection, as `HttpClient` uses them. HTTP/1 queues what
it cannot send; HTTP/2 opens a stream per request and buffers the part of a body that does
not fit in the windows. A call of `receive` is several steps: h2 first takes in every event
of the chunk (`Receive`), then the client goes through them one by one. `spoilt` is
history: requests whose answer was lost because the loop over events returned
early, an exception left it, or `connect` replaced a connection.

## Runs

| run | instance | shows |
|---|---|---|
| `GroupSession` | 2 tasks, 2 users with a device each, chunks of 1 | type, exclusive sharing, key confinement, message limit, no re-sharing |
| `GroupSessionLive` | the same, fair | every call ends, but for those that wait for a share left at its key claim |
| `KeyVerification` | 2 devices in each other's store, 2 verifications, no clock | mutual confirmation, same emoji, implementation of `VerificationGoal` |
| `KeyVerificationTime` | one verification with clock, unknown methods, other keys, a device not known yet, no faults, fair | cancellation is final, no verification stays undecided where new tokens keep coming |
| `DeviceTracking` | 1 user, 1 device, 2 queries, 2 keys, 3 changes, 1 fault, fair | type, lists current unless missed, identity keys pinned, lists converge |
| `KeyRequests` | 2 devices, the second of the own or another user, 1 session, 3 events, 2 trust changes, 1 fault, fair | the queues agree, keys go to verified devices that want them, trust survives a restart, requests settle |
| `OneTimeKeys` | 2 keys kept on the server, 4 keys, 2 claims, 2 faults, fair | keys are given out once, sessions can be joined, the server is refilled |
| `MegolmDecryption` | 1 session, 2 indices, 2 events, a cache of 1, 4 messages, 1 fault, fair | replays, verified marks, one dummy an hour, missing keys come |
| `RoomUpgrade` | every method once; an upgrade with 2 aliases; limits 1 or none, 2 faults, a file of 2 chunks, fair | what a call promises, uploads arrive whole, what an upgrade leaves, it ends, and so do cancelled uploads with a limit |
| `SyncLoop` | 1 other user, 1 name, 3 events and 1 turn for the worse, or 2 of each | rooms consistent and current, nothing lost, no sync after a stop |
| `HttpConnection` | 2 requests of 3 setups, windows of 1 byte, 2 connects, fair | answers go with their requests and are what they seem, queues, flow control, every request answered |

One run shows the code contradict its documentation, with the property
`RateLimitsAreRetried` and its counterexample:

| run | what happens |
|---|---|
| `SendingLimited` | a 429 answer to `to_device` or `share_group_session` raises a `TypeError` in `_send` instead of being retried (`responses.py:1819`, `client/async_client.py:842`) |

**Promises that do not hold.** These definitions quote a docstring or state what one would
expect, and the code does not keep them. They have no run of their own; naming one as an
invariant or property in the configuration of its module gives the counterexample:

| definition | what happens |
|---|---|
| `GroupSession.BlacklistedCannotRead` | a device blacklisted while the session is being shared reads what follows (`client/base_client.py:481`) |
| `GroupSession.InFlightWhileSharing` | an error in answer to a key claim leaves the room marked as being shared, in the default configuration (`client/async_client.py:2242`) |
| `GroupSession.EveryCallEnds` | the same; later calls of `room_send` wait for ever (`client/async_client.py:1783`; use `GroupSessionLive.cfg`) |
| `GroupSession.SharedWithHolds` | a late answer is noted on the next session (`client/base_client.py:991`) |
| `KeyVerification.VerifiedChecksDevice` | a MAC without the device key verifies the device (`crypto/sas.py:741`; use `KeyVerificationTime.cfg`) |
| `KeyVerification.EveryVerificationEnds` | sync responses that repeat the token skip the clean-up (`client/async_client.py:706`; use `KeyVerificationTime.cfg`) |
| `DeviceTracking.QueryWhenNecessary` | an older answer erases a newer notice (`crypto/olm_machine.py:704`) |
| `DeviceTracking.DeletedByOwner` | answers out of order mark a live device as deleted (`crypto/olm_machine.py:804`) |
| `OneTimeKeys.UsedKeyIsGone` | the account is saved before the session takes its key out (`crypto/olm_machine.py`, `_create_inbound_session`) |
| `OneTimeKeys.NeverRunsOut` | a key count of zero is ignored, so an empty server is not refilled (`client/base_client.py:845`) |
| `Sending.CancelEnds` | a cancelled upload is taken for a lost connection and tried again, by default without end (`client/async_client.py:851`, against the docstring of `upload` at 3037) |

**Defects the models contain without a property about each.** They are modelled as the
code has them, and properties make an exception for them by name:

* Sharing: a share whose request failed is marked as shared (`client/async_client.py:2275`).
* Verification: nothing moves `_last_event_time`, so a verification under way times out a
  minute after its start (`crypto/sas.py:210`).
* Parsing: `RoomPutAliasResponse` and `RoomDeleteAliasResponse` are always a success, and
  `room_update_aliases` looks for another class; `KeysClaimError` and
  `DeleteDevicesAuthResponse` raise on an error body; classes with an empty schema take a
  gateway page for a success; `download` and `room_get_state_event` take it, or an error body,
  for content (`TakesErrors`, `TakesNothing`, `OnlyKnownRaises`).
* `has_event_permission` returns an error, which is truthy, when the user or the event
  is listed (`Allowed`).
* A paused upload does not look at `cancel` and sends the held chunk first (`held`).
* The sync token is saved before the response is handled (`interrupted`); `sync_forever`
  leaves its sync running when another request raises (`overlapped`); an invitation of
  somebody who is listed as joined is ignored (`reinvited`); a members response older than
  the sync is applied (`stale`).
* HTTP/2: `_handle_window_update` loops over a dictionary that `_send_data` changes;
  `_handle_events` returns at the first stream that ends; `connect` keeps the queues of
  the old connection; two requests under one uuid are one (`spoilt`, and the
  exceptions of `RequestsTracked`).

**Bounds.** Each counter that would grow without end is capped by a constant in a guard:
`MaxCalls`, `MaxChanges`, `MaxFaults`, `MaxTxn`, `MaxEvents`, `MaxTurns`, `MaxMarks`,
`MaxMessages`, `MaxKeys`, `MaxClaims`, `MaxConnects`. The values are the smallest with which
every action fires and the mutants are found, or larger where the time allows.

* Two tasks are enough for every race on `sharing_session` (a third only waits like the
  second), two devices for a share of which one request fails.
* Two queries are what answers out of order need; two transactions are verifications that
  replace one another; three changes are a user who joins and whose device changes twice.
* Two devices and one id are what collides in the queues of key requests: every queue is a map
  from ids or devices. Two trust changes are a state that replaces another.
* Four keys are two batches of two, so that one may be lost and the next uploaded.
* A cache of one entry is at its limit with the second index. In `MegolmDecryption` a message
  sent, an index reused, a request and its forward take four messages.
* Three events of the stream are a state, a change and a key that one response holds
  together, or three responses. A turn is one interruption: a crash, an exception, a
  cancellation or a members response; with two events there are two of them, so that a
  members response meets an orphaned sync and a crash follows an exception.
* `KeyVerificationTime` has no faults: a lost message is one that is never delivered, and both of
  its properties are about one object, to which a repetition is one more message out of turn;
  `CancelIsFinal` is proved for any number of faults.
* A limit of one lets a cancelled upload be tried again once before it fails.
* Windows of one byte cut bodies of two and three at every place; two connects are one connection
  that replaces another.

Because the counters run out, most models stop: `CHECK_DEADLOCK FALSE` is in their
configurations for that reason only. `SyncLoop` never stops and is checked for deadlock.
Symmetry is used only for interchangeable tasks and sides, and never with a
liveness property.

**Fairness.** `GroupSession`: a runnable coroutine runs and every request is
answered in the end, as `_send` repeats a request without limit by default
(`max_timeouts` is `None`). Nothing is assumed of membership, device or user events.
An error in answer to the key claim is an answer as well, and nothing forces the success of one.
`KeyVerification`: time passes, and the handling of a response with a new token gets to its end.
That such responses keep coming is no assumption, since the code does not see to it: it is
the premise of `VerificationsEnd` for the side in question. No user has to answer and no
message has to arrive. `DeviceTracking`, `KeyRequests`, `OneTimeKeys` and
`MegolmDecryption`: `sync_forever` repeats sync, query, claim, upload and send, and the
server answers; in the last a verified device of the own user answers requests. Other
devices, the application and failures are never forced. `RoomUpgrade`: the coroutine and
the server go on, but a user who has paused an upload need not resume it; that a call with
an endless retry ends is claimed only where a limit is set. `HttpConnection`:
the application writes and reads what there is, and the server reads, opens windows and
answers.

## Proofs

Every theorem holds for arbitrary constants under the named assumptions of the modules
(`OwnerAssumption`, `BoundsAssumption`, `ConstantsAssumption`, ...), which say no more than
that bounds are numbers, that a placeholder differs from what it stands beside, that each
device has an owner. Each proof module states an inductive invariant, proves that `Init`
implies it and that each action keeps it, and derives the properties that the runs check on
their instances. TLC has checked each inductive invariant on the run of its module first.
Every invariant and every action property of a passing run is proved.

| module | properties proved |
|---|---|
| `EncryptionProofs` | of `GroupSession`: `TypeOK`, `OneShareAtATime`, `KeyConfinement`, `MessageLimit`, `KeyLeavesBeforeFirstMessage`; of `OneTimeKeys`: `AccountTypeOK`, `GivenOutOnce`, `SessionsJoin` |
| `KeyVerificationProofs` | `TypeOK`, `MutualConfirmation`, `KeyAgreement`, `CancelIsFinal`; refinement of `VerificationGoal` |
| `DeviceTrackingProofs` | `TypeOK`, `CurrentUnlessMissed`, `FingerprintPinned` |
| `KeyRequestsProofs` | `QueuesAgree`, `TrustPersists` of `TrustStore`, `SharedOnlyOnRequest` |
| `MegolmDecryptionProofs` | `ReplayCheck`, `ForwardedIsKnown`, `OneDummyAnHour` |
| `RoomUpgradeProofs` | `CallPromise` and `UploadedWhole` of `Sending`, `UpgradeSound` |
| `SyncLoopProofs` | `RoomsConsistent`, `RoomCurrent`, `NothingLost`, `NoSyncAfterStop` |
| `HttpConnectionProofs` | `AnswersTrue`, `Tracked`, `FlowControl` |

What the inductive invariants add to the properties, and why:

* `GroupSession`: session ids only grow, a request in flight names a session that was
  created, an unshared session has encrypted nothing. A request of a dropped session must not
  count for a later one, and a key that is sent must be of a session with no message yet.
* `KeyVerification`, `IInv`: an accepted string was confirmed by its user, the sender of a
  MAC in flight has confirmed the secret, so has the other user of every object in
  `mac_received`. No single message or object carries the whole argument. `Keyed`, for `KeyAgreement`:
  what an object knows by itself (`Anchor`) and of the one of the other side (`Pair`), and that
  each message says what the object of its sender does, with nothing but cancellations
  beside a start message (`StartFirst`, `AcceptTrue`, `KeyTrue`). For `ImplementsGoal` also: a key
  belongs to one side of one verification (`OneOwner`), and the key of an object with no
  answer yet is in no string that its user has confirmed (`Unasked`). A string is then new when
  it goes on show. Every step is sorted by what it does to the objects: one begins,
  one learns the other key, or all stay as they were or less (`StepKinds`). The theorem takes
  any pair of positive numbers as a string; the run has the pairs up to six.
* `DeviceTracking`: an answer on its way is what the server lists, or a notice is to come or was
  missed (`AnswersCurrent`).
* `KeyRequests`: what a queue holds was asked for and is not withdrawn (`QueuedAsked`), a
  request whose cancellation is about to be collected is not among those shown
  (`WithdrawnIsGone`), devices to claim keys for are known. Without these a cancellation
  could leave a request in another queue. For the files: a device that never got a mark
  twice is in its own file once and in no other (`StoreHolds`), and no count exceeds the calls
  made (`FilesCounted`).
* `OneTimeKeys`: each place a key can be in is told apart from the others by what the server
  did with it. A key on the server was not given out (`ServedOnce`), one that is to be uploaded,
  or asked to be, was never there (`FreshIsNew`, `AskedIsNew`), what the server has or had is
  in the account that made it (`HeldOrOrphan`), what is published is in the pickle
  (`PublishedSaved`), what is used up is in a session (`UsedBySession`). All make an exception for
  `unlearned` and `orphans`, as the properties do.
* `MegolmDecryption`: an index is in the cache once (`KeysUnique`), which is what makes it a
  dictionary; nothing is forgotten before an entry is dropped (`Remembered`); a device that got a
  dummy message has a new session and is not wedged (`DummyIsNew`).
* `RoomUpgrade`: `Calling` is about one call of `Sending`, for every method: each attempt
  but the first has a cause, a fault or a cancelled upload (`Counted`), a repeatable request acts once (`ServedOnce`),
  the answer is the server's full one or a refusal (`Answered`), an upload is at the place in the
  file that what was received says (`Uploading`). What the response classes make of an answer is
  reduced to four traits of each class (`Traits`), so that no proof goes through all methods.
  `Upgrading` says what has been done at each step of an upgrade: which room exists and what
  the tombstone names (`RoomsMade`), which aliases have moved (`AliasesMoved`).
* `SyncLoop`: the types say that no token is ahead of the stream and that an idle loop has no
  sync. `RoomGood` is that the one room in memory agrees with itself, which every method of
  `Rooms` keeps (`RemovedIsGood`, `RenamedIsGood`, ... one lemma each). `Keeping`, for
  `NothingLost`: what the server told up to any token the client holds or has asked with
  is stored or in a response being handled (`AllKnown`), an answer carries all that came after
  the token it was asked with (`AnswersWhole`), and a room in memory is encrypted if the store
  says so (`RoomEncrypted`).
  `RoomFollows`, for `RoomCurrent`: there is one sync at a time (`OneSync`), asked for with the
  client's own token (`Tokens`); its answer says nothing false (`AnswersTruthful`) and all that
  changed after that token (`AnswersCover`). Then, however much of a response has been
  handled, the room together with the rest of the response says what the server does as of
  the token: for the counts and heroes in `SummaryKept`, for each user in `MembersKept`. Nobody
  is listed of whom the server never spoke (`MembersHeard`), not even by a members response
  that is ahead of the sync.
* `HttpConnection`, `HttpInv`: over HTTP/1 the server has the current request and no other,
  and the end of an answer is the last of it (`InTurn`). Over HTTP/2 two sums hold, through
  every loop over buffers and frames. A window is what is open, what is on its way, what the
  server has yet to open again and what it has opened but not yet said (`WindowsAddUp`). A
  body is what the server has, what is on its way and what is left; a frame that ends a stream
  goes out only with nothing left, and a body with something left is buffered (`BodiesAddUp`).
  Without the second an answer could be to a part of a body. `NotesKept` relates
  `requests_made` to the queues: what is noted is waited for or spoilt, and what waits to be
  parsed is noted no more.

**Recursion.** Loops over events (`Timeline`, `HandleAll`) are recursive functions and sums over
frames are folds (`FoldLeft`). The induction theorems of the library take the claim as an
operator, which the installed provers cannot instantiate, so these lemmas use the well-foundedness
of the naturals directly: a set of numbers that is not empty has a least element (`LeastNumber`),
and a recursive function that breaks a claim breaks it at a least argument, where its definition
refutes that. `HttpConnectionProofs` has it once as an induction over a set (`UpTo`): a set with
zero, and with every number the next, is all of `Nat`. The lemmas about sums rest on it.

**Only model-checked.** Liveness needs fairness and is out of the prover's reach: `CallsEnd`,
`VerificationsEnd`, `ListsConverge`, `RequestsSettle`, `Refills`, `MissingKeysCome`,
`UpgradeEnds`, `EveryRequestAnswered`. Nor is it proved that a slip breaks a property, that the
defects above happen, or that the tables of `Schemas`, `Responses` and `Api` are complete: the
theorems about calls hold for the tables as written.

## Plan

Done: the modules and the theorems above. Next: composition, with an abstract specification of
key distribution (who may read which message) that `GroupSession` implements, and
`DeviceTracking` and `SyncLoop` as its environment.

## Not modelled

* `events/`, `event_builders/`: value classes parsed from JSON, without state; the events
  that matter to a component are messages of its module.
* `crypto/attachments.py`, `crypto/async_attachments.py`, `crypto/key_export.py`:
  transforms of byte streams without control state.
* `store/models.py` and the upgrade of the database: tables; what is read back after a
  restart is in the module of the component that writes it.
* The speed that the thread of `TransferMonitor` averages, which nothing depends on.
* `MatrixInvitedRoom`, and the attributes of a room that one event assigns: avatar, topic,
  power levels, receipts, typing. Rooms the user is invited to or leaves.
* The sequential `Olm.share_group_session` of the sans-I/O client.
* Which of several Olm sessions with one device is used.
* Cryptography itself (vodozemac), h11, h2, aiohttp and the homeserver are taken as
  they are documented to be; their definitions are marked external. Keys are
  numbers, signatures a flag, ciphertexts say what they are made from.
