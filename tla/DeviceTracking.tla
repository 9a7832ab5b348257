--------------------------- MODULE DeviceTracking ---------------------------
(***************************************************************************)
(* How the client keeps the device lists of other users: which users it    *)
(* has to query (Olm.users_for_key_query), the key queries in flight, what *)
(* _handle_key_query does to the device store with an answer, and the      *)
(* change notices of the sync responses.                                   *)
(*                                                                         *)
(* keys_query runs concurrently with the sync request in sync_forever, and *)
(* room_send and the application call it too, so several queries can be in *)
(* flight and their answers can be handled in any order.                   *)
(*                                                                         *)
(* The server's side is how src uses it: an answer is what was listed when *)
(* the server handled the request, a change is told in a later sync.       *)
(*                                                                         *)
(* A definition headed "Slip" is a wrong version of the one after it, for  *)
(* mutation tests of the properties; nothing uses it.                      *)
(***************************************************************************)
EXTENDS Naturals

CONSTANTS
  User, Device,
  Owner,       \* the user of each device; the client's own is left out
  Query,       \* calls of keys_query that can run at the same time
  Keys,        \* key values: identities (Ed25519) and Curve25519 keys
  MaxChanges,  \* bound: changes of the server's lists and of room members
  MaxFaults    \* bound: failed queries, partial answers, restarts

ASSUME OwnerAssumption == Owner \in [Device -> User]
ASSUME KeysAssumption  == Keys \subseteq Nat \ {0}
ASSUME BoundsAssumption == MaxChanges \in Nat /\ MaxFaults \in Nat

VARIABLES
  server,   \* the entry the server lists for each device
  told,     \* users with a change notice no sync response has brought yet
  members,  \* users of the encrypted rooms the client knows
  tracked,  \* Olm.tracked_users
  pending,  \* Olm.users_for_key_query
  store,    \* Olm.device_store, which the database always agrees with
  queries,  \* what each call of keys_query is at
  missed,   \* history: users whose last notice was dropped or overtaken
  removed,  \* history: devices their owner has removed at some time
  changes, faults

vars == <<server, told, members, tracked, pending, store, queries, missed,
          removed, changes, faults>>

\* What the server lists: keys, and whether the payload has its keys, its own
\* ids and a valid signature.  Absent when the device is gone.
Entry  == [ed : Keys, curve : Keys, valid : BOOLEAN]
Absent == [ed |-> 0, curve |-> 0, valid |-> FALSE]

Nothing == [ed |-> 0, curve |-> 0, deleted |-> FALSE]
Stored  == [ed : Keys, curve : Keys, deleted : BOOLEAN] \cup {Nothing}
Known(s) == s.ed # 0

Idle == [state |-> "idle", users |-> {}, lists |-> [d \in Device |-> Absent]]
QueryState == [state : {"idle", "asked", "answered"}, users : SUBSET User,
               lists : [Device -> Entry \cup {Absent}]]
Answered(u) == \E q \in Query : queries[q].state = "answered" /\ u \in queries[q].users

Init ==
  /\ server \in [Device -> {e \in Entry : e.valid} \cup {Absent}]
  /\ told = {} /\ members = {} /\ tracked = {} /\ pending = {}
  /\ store = [d \in Device |-> Nothing]
  /\ queries = [q \in Query |-> Idle]
  /\ missed = {} /\ removed = {} /\ changes = 0 /\ faults = 0

Change == changes < MaxChanges /\ changes' = changes + 1
Fault  == faults < MaxFaults /\ faults' = faults + 1

-----------------------------------------------------------------------------
(* The server.                                                             *)

\* A device is added, rotates its keys or is removed.
ListChanges(d) ==
  /\ Change
  /\ \E e \in (Entry \cup {Absent}) \ {server[d]} : server' = [server EXCEPT ![d] = e]
  /\ told' = told \cup {Owner[d]}
  /\ removed' = IF server'[d] = Absent THEN removed \cup {d} ELSE removed
  /\ UNCHANGED <<members, tracked, pending, store, queries, missed, faults>>

\* The server handles a query: it answers for the users A, those it could reach.
Answers(q) ==
  /\ queries[q].state = "asked"
  /\ \E A \in SUBSET queries[q].users :
       /\ queries' = [queries EXCEPT ![q] = [state |-> "answered", users |-> A, lists |-> server]]
       /\ \/ A = queries[q].users /\ UNCHANGED faults
          \/ A # queries[q].users /\ Fault
  /\ UNCHANGED <<server, told, members, tracked, pending, store, missed, removed, changes>>

-----------------------------------------------------------------------------
(* The client.                                                             *)

\* Slip: the difference taken the wrong way round.
Departed(M) == tracked \ M
\* update_tracked_users, with the users M of the rooms.
Untracked(M) == M \ tracked

\* A user turns up in an encrypted room: in a sync response that brings a change
\* notice with it, or with a members response for a room loaded lazily.
UserJoins(u) ==
  /\ Change /\ u \notin members
  /\ members' = members \cup {u}
  /\ pending' = pending \cup Untracked(members')
  /\ told' \in {told, told \cup {u}}
  /\ UNCHANGED <<server, tracked, store, queries, missed, removed, faults>>

\* Nothing forgets that the user was tracked.
UserLeaves(u) ==
  /\ Change /\ u \in members
  /\ members' = members \ {u}
  /\ UNCHANGED <<server, told, tracked, pending, store, queries, missed, removed, faults>>

\* _handle_olm_events: the users a sync response names are queried if they are
\* in an encrypted room.  The notice comes too late for an answer on its way.
SyncNotices ==
  LET heard == told \cap members
      lost  == (told \ members) \cup {u \in told : Answered(u)}
  IN /\ told # {} /\ told' = {}
     /\ pending' = pending \cup heard
     /\ missed' = (missed \ told) \cup lost
     /\ UNCHANGED <<server, members, tracked, store, queries, removed, changes, faults>>

\* An Olm or verification event of a device that is not in the store.
UnknownDeviceSeen(u) ==
  /\ u \notin pending
  /\ pending' = pending \cup {u}
  /\ UNCHANGED <<server, told, members, tracked, store, queries, missed, removed, changes, faults>>

\* keys_query raises when there is nobody to query.
KeysQuery(q) ==
  /\ queries[q].state = "idle" /\ pending # {}
  /\ queries' = [queries EXCEPT ![q] = [Idle EXCEPT !.state = "asked", !.users = pending]]
  /\ UNCHANGED <<server, told, members, tracked, pending, store, missed, removed, changes, faults>>

\* Slip: devices that were never stored are marked too.
UpdateUnknownToo(s, e) ==
  CASE e = Absent                       -> [s EXCEPT !.deleted = TRUE]
    [] e # Absent /\ e.valid /\ ~Known(s) -> [ed |-> e.ed, curve |-> e.curve, deleted |-> FALSE]
    [] OTHER                            -> s
\* Slip: a changed identity key is stored.
UpdateAnyIdentity(s, e) ==
  CASE e = Absent             -> [s EXCEPT !.deleted = Known(s)]
    [] e # Absent /\ ~e.valid -> s
    [] e # Absent /\ e.valid  -> [ed |-> e.ed, curve |-> e.curve, deleted |-> FALSE]
\* _handle_key_query for one device: the device s of the store, the entry e of
\* the answer.  A device marked as deleted stays so.
Update(s, e) ==
  CASE e = Absent                              -> [s EXCEPT !.deleted = Known(s)]
    [] e # Absent /\ ~e.valid                  -> s
    [] e # Absent /\ e.valid /\ ~Known(s)      -> [ed |-> e.ed, curve |-> e.curve, deleted |-> FALSE]
    [] e # Absent /\ e.valid /\ Known(s) /\ s.ed # e.ed -> s
    [] e # Absent /\ e.valid /\ Known(s) /\ s.ed = e.ed -> [s EXCEPT !.curve = e.curve]

\* Slip: an answer that leaves users out settles them too.
StillPending(q) == {}
\* The users an answer does not settle stay in users_for_key_query.
Unsettled(q) == pending \ queries[q].users

\* _handle_key_query: the users of the answer are tracked and no longer pending.
HandleKeyQuery(q) ==
  LET A == queries[q].users
  IN /\ queries[q].state = "answered"
     /\ pending' = Unsettled(q)
     /\ tracked' = tracked \cup A
     /\ store' = [d \in Device |-> IF Owner[d] \in A THEN Update(store[d], queries[q].lists[d])
                                   ELSE store[d]]
     /\ queries' = [queries EXCEPT ![q] = Idle]
     /\ UNCHANGED <<server, told, members, missed, removed, changes, faults>>

\* An error response or an exception: the users stay in the set.
QueryFails(q) ==
  /\ Fault /\ queries[q].state # "idle"
  /\ queries' = [queries EXCEPT ![q] = Idle]
  /\ UNCHANGED <<server, told, members, tracked, pending, store, missed, removed, changes>>

\* A restart: the store is loaded from the database, nobody is tracked, and the
\* notices of a sync response whose token was saved but that was not handled to
\* its end are gone.
Restart ==
  /\ Fault
  /\ told' \in SUBSET told
  /\ members' = {} /\ tracked' = {} /\ pending' = {} /\ missed' = {}
  /\ queries' = [q \in Query |-> Idle]
  /\ UNCHANGED <<server, store, removed, changes>>

-----------------------------------------------------------------------------
Next ==
  \/ \E d \in Device : ListChanges(d)
  \/ \E u \in User : UserJoins(u) \/ UserLeaves(u) \/ UnknownDeviceSeen(u)
  \/ SyncNotices \/ Restart
  \/ \E q \in Query : KeysQuery(q) \/ Answers(q) \/ HandleKeyQuery(q) \/ QueryFails(q)
Spec == Init /\ [][Next]_vars

\* sync_forever goes on: each turn brings the notices and makes a query when one
\* is needed; the server answers and the answer is handled.
FairSpec == Spec /\ WF_vars(SyncNotices) /\ WF_vars(\E q \in Query : KeysQuery(q))
                 /\ \A q \in Query : WF_vars(Answers(q)) /\ WF_vars(HandleKeyQuery(q))

-----------------------------------------------------------------------------
(* Properties.                                                             *)

TypeOK ==
  /\ server \in [Device -> Entry \cup {Absent}] /\ store \in [Device -> Stored]
  /\ told \in SUBSET User /\ members \in SUBSET User /\ tracked \in SUBSET User
  /\ pending \in SUBSET User /\ missed \in SUBSET User /\ removed \in SUBSET Device
  /\ queries \in [Query -> QueryState]
  /\ changes \in 0..MaxChanges /\ faults \in 0..MaxFaults

\* The identity key of a known device never changes, so neither does what the
\* user has verified: not by any order of answers, not by a restart.
FingerprintPinned ==
  [][\A d \in Device : Known(store[d]) => store'[d].ed = store[d].ed]_vars

\* The stored list of u agrees with the server's: valid new devices are known
\* with their current Curve25519 key, unlisted ones are marked as deleted.
Match(u) ==
  \A d \in Device : Owner[d] = u =>
    /\ server[d] = Absent => (Known(store[d]) => store[d].deleted)
    /\ server[d].valid => /\ Known(store[d])
                          /\ store[d].ed = server[d].ed => store[d].curve = server[d].curve

\* The client is out of date about a tracked user only while a notice or a query
\* is still to come, or when the notice was dropped (for a user of no known room)
\* or came while an older answer was on its way.  Restarts lose nothing.
CurrentUnlessMissed ==
  \A u \in tracked : u \in pending \cup told \cup missed \/ Match(u)

\* Why: an answer on its way is what the server lists now, unless a notice about
\* the user is still to come or was missed.
AnswersCurrent ==
  \A q \in Query : queries[q].state = "answered" => \A u \in queries[q].users :
    \/ u \in told \cup missed
    \/ \A d \in Device : Owner[d] = u => queries[q].lists[d] = server[d]

\* "Returns True if a key query is necessary, false otherwise" (should_query_keys):
\* with no query in flight and no notice to come, an outdated list of a member
\* makes one necessary.  Does not hold: an older answer erases a newer notice.
QueryWhenNecessary ==
  (\A q \in Query : queries[q].state = "idle") =>
    \A u \in (tracked \cap members) \ told : Match(u) \/ pending # {}

\* "A boolean signaling if this device has been deleted by its owner"
\* (OlmDevice.deleted).  Does not hold: answers may be handled out of order.
DeletedByOwner == \A d \in Device : store[d].deleted => d \in removed

\* Once lists and rooms stop changing, the device list of every member is
\* queried and agrees with the server's, unless its notice was missed.
ListsConverge == <>[](\A u \in members : u \in missed \/ (u \in tracked /\ Match(u)))
=============================================================================
