-------------------------- MODULE MegolmDecryption --------------------------
(***************************************************************************)
(* Decrypting the messages of one device of a room, and getting the keys    *)
(* that are missing: inbound group sessions from room keys, key forwards    *)
(* and imports; the check for replayed messages; a wedged Olm channel with  *)
(* the device, which is given a new session and a dummy message before keys *)
(* are requested again; requests, forwards and cancellations.               *)
(*                                                                          *)
(* Left out: other algorithms, payloads that are malformed or name another  *)
(* recipient, which are only logged.  External: other devices of the own    *)
(* user, which answer a request once the server has it.                     *)
(*                                                                          *)
(* A definition headed "Slip" is a wrong version of the one after it, for   *)
(* mutation tests of the properties; nothing uses it.                       *)
(***************************************************************************)
EXTENDS Naturals, Sequences, SequencesExt

CONSTANTS
  Session,      \* ids of Megolm sessions of the device
  MaxIndex,     \* message indices are 0..MaxIndex
  EventId,      \* ids of room events
  CacheSize,    \* _message_index_store_size
  MaxMessages,  \* bound: Olm messages and room events of the device, requests
  MaxFaults     \* bound: channel failures, lost answers, restarts

ASSUME IndexAssumption  == MaxIndex \in Nat
ASSUME CacheAssumption  == CacheSize \in Nat \ {0}
ASSUME BoundsAssumption == MaxMessages \in Nat /\ MaxFaults \in Nat

VARIABLES
  inbound,     \* inbound_group_store: first index that decrypts, forwarded or not
  saved,       \* the same in the database
  cache,       \* message_index_store, least recently used first
  accepted,    \* history: events decrypted since the start
  evicted,     \* history: whether the cache dropped an entry
  direct,      \* history: sessions received from the device or imported
  channel,     \* whether the Olm messages of the device can be decrypted
  recent,      \* the newest Olm session with it is less than an hour old
  hasOlm,      \* there is an Olm session with it
  wedged,      \* it is in wedged_devices
  claiming,    \* a keys_claim for it is in flight
  reRequests,  \* key_re_requests_events: the sessions of the events
  outgoing,    \* outgoing_to_device_messages
  asked,       \* requests the server has passed on
  requests,    \* outgoing_key_requests, saved as they change
  forwards,    \* forwarded keys on their way
  early,       \* history: sessions whose forward came before the request was noted
  dropped,     \* history: sessions whose request waited for the dummy at a restart
  dummyRecent, \* history: a dummy message was queued less than an hour ago
  messages, faults

vars == <<inbound, saved, cache, accepted, evicted, direct, channel, recent, hasOlm, wedged,
          claiming, reRequests, outgoing, asked, requests, forwards, early, dropped,
          dummyRecent, messages, faults>>
megolmVars  == <<inbound, saved, cache, accepted, evicted, direct>>
olmVars     == <<channel, recent, hasOlm, wedged, claiming, reRequests, dummyRecent>>
requestVars == <<asked, requests, forwards, early, dropped>>

Index == 0..MaxIndex
Never == MaxIndex + 1
NoKey == [start |-> Never, forwarded |-> FALSE]
Has(s) == inbound[s].start # Never

Dummy        == [type |-> "dummy", session |-> "any"]
Request(s)   == [type |-> "request", session |-> s]
Cancel(s)    == [type |-> "cancellation", session |-> s]
Message      == {Dummy} \cup {Request(s) : s \in Session} \cup {Cancel(s) : s \in Session}

Init ==
  /\ inbound = [s \in Session |-> NoKey] /\ saved = inbound
  /\ cache = <<>> /\ accepted = {} /\ evicted = FALSE /\ direct = {}
  /\ channel \in BOOLEAN /\ hasOlm \in BOOLEAN /\ recent = FALSE
  /\ wedged = FALSE /\ claiming = FALSE /\ reRequests = {}
  /\ outgoing = {} /\ asked = {} /\ requests = {} /\ forwards = {} /\ early = {} /\ dropped = {}
  /\ dummyRecent = FALSE /\ messages = 0 /\ faults = 0

Count == messages < MaxMessages /\ messages' = messages + 1
Fault == faults < MaxFaults /\ faults' = faults + 1

-----------------------------------------------------------------------------
(* Inbound group sessions.                                                 *)

\* Slip: the chain of a session is not stored.
SaveKeyOnly(s, k) == saved' = [saved EXCEPT ![s].start = k.start]
\* save_inbound_group_session: the row is inserted or its key updated, and the
\* chain is added to what is there.
Save(s, k) == saved' = [saved EXCEPT ![s] = [start |-> k.start, forwarded |-> @.forwarded \/ k.forwarded]]

\* GroupSessionStore.add replaces whatever session has the same id: two objects
\* are never equal.
AddSession(s, k) ==
  /\ inbound' = [inbound EXCEPT ![s] = k]
  /\ Save(s, k)

\* The device sends a room key over Olm, from any index on, and the channel works.
RoomKey(s) ==
  /\ Count /\ channel
  /\ \E i \in Index : AddSession(s, [start |-> i, forwarded |-> FALSE])
  /\ direct' = direct \cup {s}
  /\ hasOlm' = TRUE
  /\ recent' \in {recent, recent \/ ~hasOlm}
  /\ UNCHANGED <<cache, accepted, evicted, channel, wedged, claiming, reRequests, dummyRecent,
                 outgoing, requestVars, faults>>

\* import_keys
ImportKeys(s) ==
  /\ Count
  /\ \E i \in Index : AddSession(s, [start |-> i, forwarded |-> FALSE])
  /\ direct' = direct \cup {s}
  /\ UNCHANGED <<cache, accepted, evicted, olmVars, outgoing, requestVars, faults>>

-----------------------------------------------------------------------------
(* Room events.                                                            *)

CacheKeys == {<<cache[n][1], cache[n][2]>> : n \in DOMAIN cache}
EntryOf(s, i) == CHOOSE n \in DOMAIN cache : cache[n][1] = s /\ cache[n][2] = i

\* Slip: an event with a known index only has to be of the same session.
AnyEvent(s, i, e) == TRUE
\* message_index_ok
MessageIndexOk(s, i, e) == <<s, i>> \in CacheKeys => cache[EntryOf(s, i)][3] = e

\* The entry is the most recently used one; the cache drops the oldest.
Noted(s, i, e) ==
  IF <<s, i>> \in CacheKeys
  THEN LET n == EntryOf(s, i) IN Append(RemoveAt(cache, n), cache[n])
  ELSE Append(IF Len(cache) = CacheSize THEN Tail(cache) ELSE cache, <<s, i, e>>)

\* check_if_wedged: a request goes out now when the channel is new, and after
\* the dummy message when the device is waiting for one.
CheckIfWedged(s) ==
  /\ outgoing' = IF hasOlm /\ recent /\ s \notin requests THEN outgoing \cup {Request(s)} ELSE outgoing
  /\ reRequests' = IF hasOlm /\ wedged THEN reRequests \cup {s} ELSE reRequests

\* decrypt_megolm_event
RoomEvent(s, i, e) ==
  /\ Count
  /\ \/ /\ ~Has(s) /\ CheckIfWedged(s)
        /\ UNCHANGED megolmVars
     \/ /\ Has(s) /\ i >= inbound[s].start
        /\ cache' = Noted(s, i, e)
        /\ evicted' = (evicted \/ (<<s, i>> \notin CacheKeys /\ Len(cache) = CacheSize))
        /\ accepted' = IF MessageIndexOk(s, i, e) THEN accepted \cup {<<s, i, e>>} ELSE accepted
        /\ UNCHANGED <<inbound, saved, direct, outgoing, reRequests>>
  /\ UNCHANGED <<channel, recent, hasOlm, wedged, claiming, dummyRecent, requestVars, faults>>

-----------------------------------------------------------------------------
(* The Olm channel.                                                        *)

\* Slip: the age of the newest session does not matter.
UnwedgeAnytime == TRUE
\* Not when the newest session is less than an hour old.
MayUnwedge == ~(hasOlm /\ recent)

\* An Olm message that no session decrypts: _mark_device_for_unwedging.
Undecryptable ==
  /\ Count /\ ~channel
  /\ wedged' = (wedged \/ MayUnwedge)
  /\ UNCHANGED <<megolmVars, channel, recent, hasOlm, claiming, reRequests, dummyRecent, outgoing,
                 requestVars, faults>>

ChannelBreaks ==
  /\ Fault /\ channel /\ channel' = FALSE
  /\ UNCHANGED <<megolmVars, recent, hasOlm, wedged, claiming, reRequests, dummyRecent, outgoing,
                 requestVars, messages>>

\* Another claim, for a room key to send, makes a session too.
ClaimKeys ==
  /\ wedged /\ ~claiming /\ claiming' = TRUE
  /\ UNCHANGED <<megolmVars, channel, recent, hasOlm, wedged, reRequests, dummyRecent, outgoing,
                 requestVars, messages, faults>>

NotWedged == FALSE

\* _handle_key_claiming
KeysClaimed ==
  /\ claiming /\ claiming' = FALSE
  /\ hasOlm' = TRUE /\ recent' = TRUE
  /\ wedged' = NotWedged
  /\ outgoing' = IF wedged THEN outgoing \cup {Dummy} ELSE outgoing
  /\ dummyRecent' = (dummyRecent \/ wedged)
  /\ UNCHANGED <<megolmVars, channel, reRequests, requestVars, messages, faults>>

ClaimFails ==
  /\ Fault /\ claiming /\ claiming' = FALSE
  /\ UNCHANGED <<megolmVars, channel, recent, hasOlm, wedged, reRequests, dummyRecent, outgoing,
                 requestVars, messages>>

HourPasses ==
  /\ recent \/ dummyRecent
  /\ recent' = FALSE /\ dummyRecent' = FALSE
  /\ UNCHANGED <<megolmVars, channel, hasOlm, wedged, claiming, reRequests, outgoing, requestVars,
                 messages, faults>>

-----------------------------------------------------------------------------
(* Requests, forwards, cancellations.                                      *)

\* request_room_key refuses a session that is being requested.
RequestRoomKey(s) ==
  /\ Count /\ ~Has(s) /\ s \notin requests
  /\ outgoing' = outgoing \cup {Request(s)}
  /\ UNCHANGED <<megolmVars, olmVars, requestVars, faults>>

\* The server has the message; its answer is still to come and may be lost, so
\* that the message goes out again.
Reaches(m) ==
  /\ m \in outgoing
  /\ \/ m.type = "dummy" /\ channel' = TRUE /\ ~channel /\ UNCHANGED asked
     \/ m.type = "request" /\ asked' = asked \cup {m.session} /\ m.session \notin asked /\ UNCHANGED channel
     \/ m.type = "cancellation" /\ asked' = asked \ {m.session} /\ m.session \in asked /\ UNCHANGED channel
  /\ UNCHANGED <<megolmVars, recent, hasOlm, wedged, claiming, reRequests, dummyRecent, outgoing,
                 requests, forwards, early, dropped, messages, faults>>
Reached(m) == CASE m.type = "dummy"        -> channel
                [] m.type = "request"      -> m.session \in asked
                [] m.type = "cancellation" -> m.session \notin asked

\* Slip: the requests are not sent until another event needs them.
KeepReRequests == {}
\* The requests that waited for the dummy message.
WaitedForDummy == {Request(s) : s \in reRequests}

\* _mark_to_device_message_as_sent
MarkAsSent(m) ==
  /\ m \in outgoing /\ Reached(m)
  /\ \/ /\ m.type = "dummy"
        /\ outgoing' = (outgoing \ {m}) \cup WaitedForDummy
        /\ reRequests' = {} /\ UNCHANGED requests
     \/ /\ m.type = "request"
        /\ outgoing' = outgoing \ {m}
        /\ requests' = requests \cup {m.session} /\ UNCHANGED reRequests
     \/ /\ m.type = "cancellation"
        /\ outgoing' = outgoing \ {m} /\ UNCHANGED <<requests, reRequests>>
  /\ UNCHANGED <<megolmVars, channel, recent, hasOlm, wedged, claiming, dummyRecent, asked,
                 forwards, early, dropped, messages, faults>>

\* A device of the own user answers, with the key from some index on; trusted
\* says whether it is verified here.
Forward(s, trusted) ==
  /\ s \in asked /\ ~\E f \in forwards : f.session = s /\ f.trusted = trusted
  /\ \E i \in Index : forwards' = forwards \cup {[session |-> s, start |-> i, trusted |-> trusted]}
  /\ UNCHANGED <<megolmVars, olmVars, outgoing, asked, requests, early, dropped, messages, faults>>

\* _should_accept_forward
ShouldAcceptForward(f) == f.session \in requests /\ f.trusted

\* _handle_forwarded_room_key_event
ForwardArrives(f) ==
  /\ f \in forwards /\ forwards' = forwards \ {f}
  /\ \/ /\ ShouldAcceptForward(f)
        /\ AddSession(f.session, [start |-> f.start, forwarded |-> TRUE])
        /\ requests' = requests \ {f.session}
        /\ outgoing' = outgoing \cup {Cancel(f.session)}
        /\ UNCHANGED early
     \/ /\ ~ShouldAcceptForward(f)
        /\ early' = IF f.session \notin requests THEN early \cup {f.session} ELSE early
        /\ UNCHANGED <<inbound, saved, requests, outgoing>>
  /\ UNCHANGED <<cache, accepted, evicted, direct, olmVars, asked, dropped, messages, faults>>

\* Olm.load and a new object.
Restart ==
  /\ Fault
  /\ inbound' = saved /\ cache' = <<>> /\ accepted' = {} /\ evicted' = FALSE
  /\ wedged' = FALSE /\ claiming' = FALSE /\ reRequests' = {} /\ outgoing' = {}
  /\ dropped' = dropped \cup reRequests
  /\ UNCHANGED <<saved, direct, channel, recent, hasOlm, dummyRecent, asked, requests, forwards,
                 early, messages>>

-----------------------------------------------------------------------------
Next ==
  \/ \E s \in Session : RoomKey(s) \/ ImportKeys(s) \/ RequestRoomKey(s)
  \/ \E s \in Session, i \in Index, e \in EventId : RoomEvent(s, i, e)
  \/ \E s \in Session, t \in BOOLEAN : Forward(s, t)
  \/ \E f \in forwards : ForwardArrives(f)
  \/ \E m \in outgoing : Reaches(m) \/ MarkAsSent(m)
  \/ Undecryptable \/ ChannelBreaks \/ ClaimKeys \/ KeysClaimed \/ ClaimFails
  \/ HourPasses \/ Restart
Spec == Init /\ [][Next]_vars

\* sync_forever claims keys and sends what is queued, the server answers, and a
\* verified device of the own user answers requests.
FairSpec ==
  /\ Spec
  /\ WF_vars(ClaimKeys) /\ WF_vars(KeysClaimed)
  /\ \A m \in Message : WF_vars(Reaches(m)) /\ WF_vars(MarkAsSent(m))
  /\ \A s \in Session : WF_vars(Forward(s, TRUE))
  /\ WF_vars(\E f \in forwards : f.trusted /\ ForwardArrives(f))

-----------------------------------------------------------------------------
(* Properties.                                                             *)

Key == [start : 0..Never, forwarded : BOOLEAN]
TypeOK ==
  /\ inbound \in [Session -> Key] /\ saved \in [Session -> Key]
  /\ cache \in Seq(Session \X Index \X EventId) /\ Len(cache) <= CacheSize
  /\ accepted \in SUBSET (Session \X Index \X EventId) /\ direct \in SUBSET Session
  /\ evicted \in BOOLEAN /\ channel \in BOOLEAN /\ recent \in BOOLEAN /\ hasOlm \in BOOLEAN
  /\ wedged \in BOOLEAN /\ claiming \in BOOLEAN /\ dummyRecent \in BOOLEAN
  /\ reRequests \in SUBSET Session /\ outgoing \in SUBSET Message
  /\ asked \in SUBSET Session /\ requests \in SUBSET Session /\ early \in SUBSET Session
  /\ dropped \in SUBSET Session
  /\ forwards \in SUBSET [session : Session, start : Index, trusted : BOOLEAN]
  /\ messages \in 0..MaxMessages /\ faults \in 0..MaxFaults

\* No two events are decrypted from one message index of a session, as long as
\* the cache has not had to drop an entry.
NoReplay ==
  \A x, y \in accepted : x[1] = y[1] /\ x[2] = y[2] => x[3] = y[3] \/ evicted

\* The check for replays works within its bounds: the cache keeps its size, what
\* it still knows it tells apart.
ReplayCheck == TypeOK /\ NoReplay

\* A session that does not count as forwarded came from its device or from a
\* key file, in this process and after any restart: so no event decrypted with
\* a forwarded key is ever marked as verified.
ForwardedIsKnown ==
  \A s \in Session : (inbound[s].start # Never /\ ~inbound[s].forwarded) \/
                     (saved[s].start # Never /\ ~saved[s].forwarded) => s \in direct

\* A device is unwedged at most once an hour, however many of its messages
\* cannot be decrypted, across restarts.
OneDummyAnHour == [][Dummy \notin outgoing /\ Dummy \in outgoing' => ~dummyRecent]_vars

\* An event that waits for the channel to be unwedged gets its key requested,
\* unless a restart forgets it; and a session that is requested is received,
\* unless its forward came while the request was not noted yet.
MissingKeysCome ==
  \A s \in Session :
    /\ s \in reRequests ~> Request(s) \in outgoing \/ s \in dropped
    /\ s \in requests ~> Has(s) \/ s \in early
=============================================================================
