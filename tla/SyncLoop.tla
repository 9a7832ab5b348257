------------------------------ MODULE SyncLoop ------------------------------
(***************************************************************************)
(* AsyncClient.sync_forever and what a sync response does: to-device events *)
(* and the events of a room are handled one by one, and between two of them *)
(* other coroutines run: a joined_members call of the application, another  *)
(* sync that a failed sync_forever has left behind.  The client may crash   *)
(* at any point and be started again from its store.                        *)
(*                                                                          *)
(* Left out: rooms the user is invited to or leaves, presence, account      *)
(* data, ephemeral events.  External: the homeserver, which keeps what has  *)
(* happened in the room and to the device as one stream.                    *)
(*                                                                          *)
(* A definition headed "Slip" is a wrong version of the one after it, for   *)
(* mutation tests of the properties; nothing uses it.                       *)
(***************************************************************************)
EXTENDS Rooms, Sequences, SequencesExt

CONSTANTS
  MaxEvents,  \* bound: events of the stream
  MaxTurns    \* bound: failed requests, raising callbacks, cancellations, crashes,
              \* and calls of joined_members
ASSUME BoundsAssumption == MaxEvents \in Nat /\ MaxTurns \in Nat

VARIABLES
  stream,           \* what has happened on the server
  loop, stop,       \* where sync_forever is, _stop_sync_forever
  syncs,            \* the sync of the loop and one that nobody waits for
  next_batch,       \* as a position in the stream, 0 is none
  rooms,            \* a set: the room, if it is known
  encrypted_rooms,  \* whether the room is among them
  members,          \* the joined_members call
  sync_token, stored_encrypted, stored_keys, \* the store
  loaded_sync_token,
  turns,
  interrupted,      \* history: a response was not handled to its end
  overlapped,       \* history: two syncs have been going on at once
  reinvited,        \* history: an invitation of somebody listed as joined was handled
  stale,            \* history: a members response was older than the room
  ahead,            \* history: position of the newest members response
  complete          \* history: the room has been built from all there was

store  == <<sync_token, stored_encrypted, stored_keys>>
memory == <<next_batch, rooms, encrypted_rooms, loaded_sync_token>>
past   == <<interrupted, overlapped, reinvited, stale, ahead, complete>>
vars   == <<stream, loop, stop, syncs, members, store, memory, turns, past>>

Task == {"main", "orphan"}
NoSync == [state |-> "none", since |-> 0, full |-> FALSE, upto |-> 0, steps |-> <<>>, encrypted |-> FALSE]
NoMembers == [state |-> "none", at |-> 0]

Init ==
  /\ stream = <<>> /\ loop = "idle" /\ stop = FALSE
  /\ syncs = [t \in Task |-> NoSync] /\ members = NoMembers
  /\ sync_token = 0 /\ stored_encrypted = FALSE /\ stored_keys = {}
  /\ next_batch = 0 /\ rooms = {} /\ encrypted_rooms = FALSE /\ loaded_sync_token = 0
  /\ turns = 0
  /\ interrupted = FALSE /\ overlapped = FALSE /\ reinvited = FALSE /\ stale = FALSE /\ ahead = 0 /\ complete = FALSE

Turn == turns < MaxTurns /\ turns' = turns + 1
Syncing(t)  == syncs[t].state \in {"flight", "answered", "handling"}
Handling(t) == syncs[t].state = "handling"

-----------------------------------------------------------------------------
(* The homeserver.                                                         *)

\* What the stream says of a user at a position.
About(u, n) == {i \in 1..n : stream[i].type = "member" /\ stream[i].user = u}
StateOf(u, n) ==
  IF About(u, n) = {} THEN MemberEvent(u, "leave", Unchanged) ELSE stream[Max(About(u, n))]
JoinedAt(n)    == {u \in User : StateOf(u, n).membership = "join"}
InvitedAt(n)   == {u \in User : StateOf(u, n).membership = "invite"}
EncryptedAt(n) == \E i \in 1..n : stream[i].type = "encryption"

\* Members join, are invited, leave, and change their names; the room is
\* encrypted; a room key is sent to the device.
MayHappen(e) ==
  CASE e.type = "encryption" -> ~EncryptedAt(Len(stream))
    [] e.type = "key"        -> TRUE
    [] OTHER ->
         LET now == StateOf(e.user, Len(stream)) IN
         CASE e.membership = "join"   -> now.membership # "join" \/ e.name # now.name
           [] e.membership = "invite" -> now.membership = "leave"
           [] OTHER                   -> now.membership # "leave"
MemberEvents ==
  {MemberEvent(u, "join", n) : u \in User, n \in Name \cup {Unchanged}}
  \cup {MemberEvent(u, m, Unchanged) : u \in User, m \in {"invite", "leave"}}
Events == MemberEvents \cup {[type |-> "encryption"], [type |-> "key"]}

Happens(e) ==
  /\ Len(stream) < MaxEvents /\ MayHappen(e) /\ stream' = Append(stream, e)
  /\ UNCHANGED <<loop, stop, syncs, members, store, memory, turns, past>>

\* The summary names what has changed, the first one everything.
Told(n)        == \E i \in 1..n : stream[i].type # "key"
SummaryAt(n)   == [joined |-> Cardinality(JoinedAt(n)), invited |-> Cardinality(InvitedAt(n)), heroes |-> JoinedAt(n)]
SummarySince(m, n) ==
  [f \in {"joined", "invited", "heroes"} |->
     IF Told(m) /\ SummaryAt(m)[f] = SummaryAt(n)[f] THEN Unknown ELSE Given(SummaryAt(n)[f])]

\* An answer: the to-device events, each by itself; then the state with the
\* summary and the first event of the timeline, and each later event by itself.
\* A full state stands for the whole timeline.
Summary(m, n) == [type |-> "summary", summary |-> SummarySince(m, n)]
FullState(n) ==
  SetToSeq({StateOf(u, n) : u \in {v \in User : About(v, n) # {}}}
           \cup (IF EncryptedAt(n) THEN {[type |-> "encryption"]} ELSE {}))
ToDevice(m, n) ==
  LET keys == {i \in m + 1..n : stream[i].type = "key"}
  IN SetToSeq({<<[type |-> "key", at |-> i]>> : i \in keys})
\* The events of the room after a position, up to another one.
Timeline(m, n) ==
  LET upto[i \in 0..n] ==
        IF i <= m THEN <<>>
        ELSE IF stream[i].type = "key" THEN upto[i - 1] ELSE Append(upto[i - 1], stream[i])
  IN upto[n]
RoomSteps(m, n, full) ==
  LET timeline == Timeline(m, n)
  IN CASE full -> <<FullState(n) \o <<Summary(0, n)>>>>
       [] ~full /\ timeline = <<>> -> <<>>
       [] OTHER -> <<<<Summary(m, n), Head(timeline)>>>> \o [i \in 1..Len(timeline) - 1 |-> <<timeline[i + 1]>>]

\* Slip: the loop over to-device events is left at the first one.
ToDeviceOnce(t) ==
  LET s == syncs[t]
      keys == ToDevice(s.since, Len(stream))
  IN (IF keys = <<>> THEN <<>> ELSE <<Head(keys)>>) \o RoomSteps(s.since, Len(stream), s.full)
\* What _handle_sync goes through, up to each place where it awaits a callback.
HandleSync(t) ==
  LET s == syncs[t] IN ToDevice(s.since, Len(stream)) \o RoomSteps(s.since, Len(stream), s.full)

Serve(t) ==
  /\ syncs[t].state = "flight"
  /\ syncs' = [syncs EXCEPT ![t].state = "answered", ![t].upto = Len(stream), ![t].steps = HandleSync(t)]
  /\ UNCHANGED <<stream, loop, stop, members, store, memory, turns, past>>

-----------------------------------------------------------------------------
(* sync and _handle_sync.                                                  *)

Request(full) ==
  [NoSync EXCEPT !.state = "flight", !.full = full,
                 !.since = IF next_batch # 0 THEN next_batch ELSE loaded_sync_token]
Done(t) == syncs' = [syncs EXCEPT ![t] = IF t = "main" THEN [NoSync EXCEPT !.state = "done"] ELSE NoSync]

\* A response with the token that is known already is dropped; otherwise the
\* token is saved before anything is done.
Receive(t) ==
  /\ syncs[t].state = "answered"
  /\ IF syncs[t].upto = next_batch
     THEN Done(t) /\ UNCHANGED <<next_batch, sync_token, interrupted, complete>>
     ELSE /\ syncs' = [syncs EXCEPT ![t].state = "handling", ![t].full = FALSE, ![t].since = 0]
          /\ next_batch' = syncs[t].upto /\ sync_token' = syncs[t].upto
          /\ complete' = (complete \/ syncs[t].full \/ syncs[t].since = 0)
          /\ UNCHANGED interrupted
  /\ UNCHANGED <<stream, loop, stop, members, stored_encrypted, stored_keys, rooms, encrypted_rooms,
                 loaded_sync_token, turns, overlapped, reinvited, stale, ahead>>

\* _handle_joined_state and _handle_timeline_event for one event.
Handle(room, e) ==
  CASE e.type = "member"     -> HandleMembership(room, e)
    [] e.type = "encryption" -> [room EXCEPT !.encrypted = TRUE]
    [] e.type = "summary"    -> UpdateSummary(room, e.summary)
\* The room after all events of a batch.
HandleAll(room, batch) ==
  LET after[i \in 0..Len(batch)] == IF i = 0 THEN room ELSE Handle(after[i - 1], batch[i])
  IN after[Len(batch)]
Room == IF rooms = {} THEN EmptyRoom(encrypted_rooms) ELSE CHOOSE r \in rooms : TRUE

Reinvites(room, e) ==
  e.type = "member" /\ e.membership = "invite" /\ e.user \in Members(room) \ room.invited_users
\* A room key is stored when it comes.
Step(t) ==
  /\ Handling(t) /\ syncs[t].steps # <<>>
  /\ LET batch == Head(syncs[t].steps) IN
     /\ IF Head(batch).type = "key"
        THEN stored_keys' = stored_keys \cup {Head(batch).at} /\ UNCHANGED rooms
        ELSE rooms' = {HandleAll(Room, batch)} /\ UNCHANGED stored_keys
     /\ reinvited' = (reinvited \/ \E i \in DOMAIN batch : Reinvites(Room, batch[i]))
     /\ syncs' = [syncs EXCEPT ![t].steps = Tail(@),
                               ![t].encrypted = @ \/ \E i \in DOMAIN batch : batch[i].type = "encryption"]
  /\ UNCHANGED <<stream, loop, stop, members, sync_token, stored_encrypted, next_batch, encrypted_rooms,
                 loaded_sync_token, turns, interrupted, overlapped, stale, ahead, complete>>

StoredEncrypted(t) == stored_encrypted \/ syncs[t].encrypted
\* The end of _handle_joined_rooms, and what follows.
Finish(t) ==
  /\ Handling(t) /\ syncs[t].steps = <<>>
  /\ encrypted_rooms' = (encrypted_rooms \/ syncs[t].encrypted)
  /\ stored_encrypted' = StoredEncrypted(t)
  /\ Done(t)
  /\ UNCHANGED <<stream, loop, stop, members, sync_token, stored_keys, next_batch, rooms, loaded_sync_token,
                 turns, past>>

\* The server refuses: a SyncError, which changes nothing.
Refuse(t) ==
  /\ syncs[t].state = "flight" /\ Turn /\ Done(t)
  /\ UNCHANGED <<stream, loop, stop, members, store, memory, past>>

-----------------------------------------------------------------------------
(* sync_forever.                                                           *)

Start(full) ==
  /\ loop = "idle"
  /\ IF stop THEN stop' = FALSE /\ UNCHANGED <<loop, syncs, overlapped>>
     ELSE /\ loop' = "first" /\ UNCHANGED stop
          /\ syncs' = [syncs EXCEPT !["main"] = Request(full)]
          /\ overlapped' = (overlapped \/ Syncing("orphan"))
  /\ UNCHANGED <<stream, members, store, memory, turns, interrupted, reinvited, stale, ahead, complete>>

\* The first sync goes alone; in every later iteration all requests go at once.
FirstDone ==
  /\ loop = "first" /\ syncs["main"].state = "done"
  /\ loop' = "gather"
  /\ UNCHANGED <<stream, stop, syncs, members, store, memory, turns, past>>

\* Slip: a request to stop does not outlive the iteration.
IgnoreStop == FALSE
Stops == stop
Iterate ==
  /\ loop = "gather" /\ syncs["main"].state = "done"
  /\ IF Stops THEN loop' = "idle" /\ syncs' = [syncs EXCEPT !["main"] = NoSync]
     ELSE syncs' = [syncs EXCEPT !["main"] = Request(FALSE)] /\ UNCHANGED loop
  /\ stop' = FALSE
  /\ UNCHANGED <<stream, members, store, memory, turns, past>>

Leave(left) ==
  /\ loop' = "idle" /\ stop' = FALSE 
  /\ syncs' = [main |-> NoSync, orphan |-> left]

\* Another request raises, and so does sync_forever: its sync goes on.
OthersRaise ==
  /\ loop = "gather" /\ Turn
  /\ Syncing("main") => ~Syncing("orphan")
  /\ Leave(IF Syncing("main") THEN syncs["main"] ELSE syncs["orphan"])
  /\ UNCHANGED <<stream, members, store, memory, past>>

\* The sync raises: the connection, or a callback of the application.
SyncRaises(t) ==
  /\ syncs[t].state \in {"flight", "handling"} /\ Turn
  /\ interrupted' = (interrupted \/ Handling(t))
  /\ IF t = "main" THEN Leave(syncs["orphan"])
     ELSE syncs' = [syncs EXCEPT ![t] = NoSync] /\ UNCHANGED <<loop, stop>>
  /\ UNCHANGED <<stream, members, store, memory, overlapped, reinvited, stale, ahead, complete>>

\* The task of sync_forever is cancelled and cancels its own.
Cancel ==
  /\ loop # "idle" /\ Turn
  /\ interrupted' = (interrupted \/ Handling("main"))
  /\ Leave(syncs["orphan"])
  /\ UNCHANGED <<stream, members, store, memory, overlapped, reinvited, stale, ahead, complete>>

StopSyncForever ==
  /\ ~stop /\ stop' = TRUE
  /\ UNCHANGED <<stream, loop, syncs, members, store, memory, turns, past>>

-----------------------------------------------------------------------------
(* The application, and a crash.                                           *)

JoinedMembers ==
  /\ members.state = "none" /\ Turn
  /\ members' = [members EXCEPT !.state = "flight"]
  /\ UNCHANGED <<stream, loop, stop, syncs, store, memory, past>>

ServeMembers ==
  /\ members.state = "flight" /\ members' = [state |-> "answered", at |-> Len(stream)]
  /\ UNCHANGED <<stream, loop, stop, syncs, store, memory, turns, past>>

NameAt(u, n) == IF StateOf(u, n).name = Unchanged THEN NoName ELSE StateOf(u, n).name
ReceiveMembers ==
  /\ members.state = "answered" /\ members' = NoMembers
  /\ IF rooms = {} THEN UNCHANGED <<rooms, stale, ahead>>
     ELSE /\ rooms' = {HandleJoinedMembers(Room, [u \in JoinedAt(members.at) |-> NameAt(u, members.at)])}
          /\ stale' = (stale \/ (members.at < next_batch /\ JoinedAt(members.at) # JoinedAt(next_batch)))
          /\ ahead' = IF members.at > ahead THEN members.at ELSE ahead
  /\ UNCHANGED <<stream, loop, stop, syncs, store, next_batch, encrypted_rooms, loaded_sync_token, turns, interrupted, overlapped, reinvited, complete>>

\* What was in memory is gone; restore_login and load_store read the store.
Crash ==
  /\ Turn
  /\ loop' = "idle" /\ stop' = FALSE /\ syncs' = [t \in Task |-> NoSync]
  /\ members' = NoMembers /\ next_batch' = 0 /\ rooms' = {}
  /\ loaded_sync_token' = sync_token /\ encrypted_rooms' = stored_encrypted
  /\ interrupted' = (interrupted \/ \E t \in Task : Handling(t))
  /\ reinvited' = FALSE /\ stale' = FALSE /\ ahead' = 0 /\ complete' = FALSE
  /\ UNCHANGED <<stream, store, overlapped>>

SyncStep(t) == Serve(t) \/ Receive(t) \/ Step(t) \/ Finish(t)
Next ==
  \/ \E e \in Events : Happens(e)
  \/ \E t \in Task : SyncStep(t) \/ Refuse(t) \/ SyncRaises(t)
  \/ \E full \in BOOLEAN : Start(full)
  \/ FirstDone \/ Iterate \/ OthersRaise \/ Cancel \/ StopSyncForever
  \/ JoinedMembers \/ ServeMembers \/ ReceiveMembers \/ Crash
Spec == Init /\ [][Next]_vars

-----------------------------------------------------------------------------
(* Properties.                                                             *)

Positions == 0..MaxEvents
TypeOK ==
  /\ Len(stream) \in Positions /\ loop \in {"idle", "first", "gather"}
  /\ {stop, encrypted_rooms, stored_encrypted, interrupted, overlapped, reinvited, stale, complete} \subseteq BOOLEAN
  /\ {next_batch, sync_token, loaded_sync_token, ahead, members.at} \subseteq Positions
  /\ \A t \in Task : syncs[t].since \in Positions /\ syncs[t].upto \in Positions
  /\ Cardinality(rooms) \in {0, 1} /\ stored_keys \subseteq Positions
  /\ \A r \in rooms : r.invited_users \subseteq User /\ \A l \in Label, u \in User : r.names[l][u] \in {0, 1}
  /\ loop = "idle" => ~Syncing("main")

\* No response is being handled.
Quiet == \A t \in Task : ~Handling(t)

\* Whatever overlaps, users, invited_users and names agree, so that no removal
\* of a name raises out of the sync loop and every name that clashes is told.
RoomsConsistent == TypeOK /\ \A r \in rooms : Consistent(r)

\* Between responses the client lists who is in the room as of its token, unless
\* a response was interrupted, two syncs overlapped, a members response was
\* handled after a newer sync or is newer than the token, or somebody who was
\* still listed as joined was invited.
MembersCurrent ==
  Quiet /\ complete /\ ~interrupted /\ ~overlapped /\ ~stale /\ ~reinvited /\ ahead <= next_batch =>
    \A r \in rooms : Members(r) = JoinedAt(next_batch) \cup InvitedAt(next_batch)

\* The counts of the room are those of the server as of the token, although a
\* summary names only what has changed.
CountsCurrent ==
  Quiet /\ complete /\ ~interrupted /\ ~overlapped =>
    \A r \in rooms : MemberCount(r) = Cardinality(JoinedAt(next_batch)) + Cardinality(InvitedAt(next_batch))
                     /\ Others(r) = Cardinality(InvitedAt(next_batch))

\* A room whose encryption the client has been told of stays encrypted, over
\* restarts with and without the full state; only an interrupted response can
\* lose it.
EncryptionKept ==
  Quiet /\ ~interrupted => \A r \in rooms : EncryptedAt(next_batch) => r.encrypted

\* A room key that was sent before the saved token is in the store, unless a
\* response was interrupted.
KeysNotLost ==
  Quiet /\ ~interrupted => \A i \in 1..sync_token : stream[i].type = "key" => i \in stored_keys

\* Between responses members and counts are what the server has said.
RoomCurrent == MembersCurrent /\ CountsCurrent

\* What a response says only once, a room key or that the room is encrypted, is
\* not lost when the client is started again.
NothingLost == EncryptionKept /\ KeysNotLost

\* Once it is asked to stop, the loop starts no other sync, nor does the next call of
\* sync_forever, until the request is heeded or an exception that ends the loop
\* takes it back.
NoSyncAfterStop ==
  [][stop /\ syncs["main"].state # "flight" => syncs'["main"].state # "flight"]_vars
=============================================================================
