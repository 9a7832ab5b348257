------------------------- MODULE RoomUpgradeProofs -------------------------
(***************************************************************************)
(* Proofs about RoomUpgrade and the calls of Sending it is made of.         *)
(***************************************************************************)
EXTENDS RoomUpgrade, FiniteSetTheorems, TLAPS

-----------------------------------------------------------------------------
(* The response classes.  What SuccessIsReal and OnlyKnownRaises say of the *)
(* calls comes down to four traits of each of them.                         *)

ErrorTakers == {room_put_alias, room_delete_alias, room_get_state_event, content_repository_config}

\* The parsing raises nothing; retry_after_ms is a number; an error is not taken
\* for what was asked for; nor is nothing, unless that is what was asked for.
Traits(c) ==
  /\ c \notin {keys_claim, delete_devices} =>
       /\ c.response.reads = {} /\ c.response.name # "delete_devices"
       /\ c.response.error.argument => c.response.passes /\ c.given
  /\ c \notin {to_device, share_group_session} => c.response.error.retry_after # "argument"
  /\ \/ ~R!Valid(R!ErrorBody, c.response.schema)
     \/ c.response.file \/ c \in ErrorTakers
  /\ \/ ~R!Valid(R!NoBody, c.response.schema)
     \/ c.response.schema.closed \/ c.response.file
     \/ c \in ErrorTakers \cup {list_direct_rooms, get_profile}

LEMMA CallsHaveTraits == \A c \in Calls : Traits(c)
<1> USE DEF Traits, Call, CallAbout, LoggedIn, LoggedInAbout, WithStore, WithStoreAbout,
            R!Verified, R!Needs, R!ErrorResponse, R!ErrorWithRoomId, R!Valid, R!ErrorBody,
            R!NoBody, R!Object, R!error, R!empty, R!Unchecked
<1>1. Traits(login_raw) /\ Traits(register_interactive) /\ Traits(register) /\
     Traits(discovery_info) /\ Traits(login_info) /\ Traits(login) /\ Traits(sync)
  BY DEF login_raw, register_interactive, register, discovery_info, login_info, login, sync,
         R!LoginResponse, R!login, R!RegisterInteractiveResponse, R!register_flows,
         R!RegisterResponse, R!register, R!DiscoveryInfoResponse, R!discovery_info,
         R!LoginInfoResponse, R!login_info, R!SyncResponse, R!sync
<1>2. Traits(keys_upload) /\ Traits(keys_query) /\ Traits(devices) /\
     Traits(space_get_hierarchy) /\ Traits(joined_members) /\ Traits(joined_rooms) /\
     Traits(room_send)
  BY DEF keys_upload, keys_query, devices, space_get_hierarchy, joined_members,
         joined_rooms, room_send, R!KeysUploadResponse, R!keys_upload, R!KeysQueryResponse,
         R!keys_query, R!DevicesResponse, R!devices, R!SpaceGetHierarchyResponse,
         R!space_hierarchy, R!JoinedMembersResponse, R!joined_members,
         R!JoinedRoomsResponse, R!joined_rooms, R!RoomSendResponse, R!room_event_id
<1>3. Traits(room_get_event) /\ Traits(room_get_event_relations) /\
     Traits(room_get_threads) /\ Traits(room_put_state) /\ Traits(room_get_state) /\
     Traits(room_redact) /\ Traits(room_resolve_alias)
  BY DEF room_get_event, room_get_event_relations, room_get_threads, room_put_state,
         room_get_state, room_redact, room_resolve_alias, R!RoomGetEventResponse,
         R!room_event, R!RoomEventRelationsResponse, R!room_get_chunked_messages,
         R!RoomThreadsResponse, R!RoomPutStateResponse, R!room_event_id,
         R!RoomGetStateResponse, R!room_state, R!RoomRedactResponse,
         R!RoomResolveAliasResponse, R!room_resolve_alias
<1>4. Traits(room_get_visibility) /\ Traits(room_create) /\ Traits(join) /\
     Traits(room_knock) /\ Traits(room_context) /\ Traits(room_messages) /\
     Traits(upload)
  BY DEF room_get_visibility, room_create, join, room_knock, room_context, room_messages,
         upload, R!RoomGetVisibilityResponse, R!room_get_visibility, R!RoomCreateResponse,
         R!room_create_response, R!JoinResponse, R!RoomIdResponse, R!room_id,
         R!RoomKnockResponse, R!RoomContextResponse, R!room_context, R!RoomMessagesResponse,
         R!room_messages, R!UploadResponse, R!upload
<1>5. Traits(get_presence) /\ Traits(get_displayname) /\ Traits(get_avatar) /\
     Traits(get_openid_token) /\ Traits(upload_filter) /\ Traits(whoami) /\
     Traits(list_public_rooms(TRUE)) /\ Traits(list_public_rooms(FALSE))
  BY DEF get_presence, get_displayname, get_avatar, get_openid_token, upload_filter, whoami,
         list_public_rooms, R!PresenceGetResponse, R!get_presence,
         R!ProfileGetDisplayNameResponse, R!get_displayname, R!ProfileGetAvatarResponse,
         R!get_avatar, R!GetOpenIDTokenResponse, R!get_openid_token, R!UploadFilterResponse,
         R!upload_filter, R!WhoamiResponse, R!whoami, R!PublicRoomsResponse,
         R!public_rooms_response
<1>6. Traits(logout) /\ Traits(update_device) /\ Traits(request_room_key) /\
     Traits(room_invite)
  BY DEF logout, update_device, request_room_key, room_invite, R!LogoutResponse,
         R!UpdateDeviceResponse, R!EmptyResponse, R!RoomKeyRequestResponse,
         R!RoomInviteResponse
<1>7. Traits(room_leave) /\ Traits(room_forget) /\ Traits(room_kick) /\ Traits(room_ban)
  BY DEF room_leave, room_forget, room_kick, room_ban, R!RoomLeaveResponse, R!EmptyResponse,
         R!RoomForgetResponse, R!EmptyResponseWithRoomId, R!RoomKickResponse,
         R!RoomBanResponse
<1>8. Traits(room_unban) /\ Traits(room_typing) /\ Traits(update_receipt_marker) /\
     Traits(room_read_markers)
  BY DEF room_unban, room_typing, update_receipt_marker, room_read_markers,
         R!RoomUnbanResponse, R!EmptyResponse, R!RoomTypingResponse,
         R!EmptyResponseWithRoomId, R!UpdateReceiptMarkerResponse, R!RoomReadMarkersResponse
<1>9. Traits(set_presence) /\ Traits(set_displayname) /\ Traits(set_avatar) /\
     Traits(set_pushrule)
  BY DEF set_presence, set_displayname, set_avatar, set_pushrule, R!PresenceSetResponse,
         R!EmptyResponse, R!ProfileSetDisplayNameResponse, R!ProfileSetAvatarResponse,
         R!SetPushRuleResponse
<1>10. Traits(delete_pushrule) /\ Traits(enable_pushrule) /\ Traits(set_pushrule_actions)
  BY DEF delete_pushrule, enable_pushrule, set_pushrule_actions, R!DeletePushRuleResponse,
         R!EmptyResponse, R!EnablePushRuleResponse, R!SetPushRuleActionsResponse
<1>11. Traits(room_put_alias)
  BY DEF ErrorTakers, room_put_alias, R!RoomPutAliasResponse
<1>12. Traits(room_delete_alias)
  BY DEF ErrorTakers, room_delete_alias, R!RoomDeleteAliasResponse
<1>13. Traits(room_get_state_event)
  BY DEF ErrorTakers, room_get_state_event, R!RoomGetStateEventResponse
<1>14. Traits(content_repository_config)
  BY DEF ErrorTakers, content_repository_config, R!ContentRepositoryConfigResponse, R!content_repository_config
<1>15. Traits(to_device)
  BY DEF to_device, R!ToDeviceResponse, R!ToDeviceError
<1>16. Traits(share_group_session)
  BY DEF share_group_session, R!ShareGroupSessionResponse, R!ShareGroupSessionError
<1>17. Traits(keys_claim)
  BY DEF keys_claim, R!KeysClaimResponse, R!keys_claim
<1>18. Traits(delete_devices)
  BY DEF delete_devices, R!DeleteDevicesResponse, R!EmptyResponse
<1>19. Traits(list_direct_rooms)
  BY DEF list_direct_rooms, R!DirectRoomsResponse
<1>20. Traits(get_profile)
  BY DEF get_profile, R!ProfileGetResponse, R!get_profile
<1>21. Traits(download)
  BY DEF download, R!DownloadResponse, R!FileResponse
<1>22. Traits(thumbnail)
  BY DEF thumbnail, R!ThumbnailResponse, R!FileResponse
<1> HIDE DEF Traits, Call, CallAbout, LoggedIn, LoggedInAbout, WithStore, WithStoreAbout
<1> QED BY <1>1, <1>2, <1>3, <1>4, <1>5, <1>6, <1>7, <1>8, <1>9, <1>10, <1>11,
           <1>12, <1>13, <1>14, <1>15, <1>16, <1>17, <1>18, <1>19, <1>20, <1>21,
           <1>22 DEF Calls

\* How the answers of a homeserver and of a gateway are parsed.
Refusals == [status : {401, 403, 404}, body : {R!ErrorBody}]
            \cup [status : {429}, body : {R!ErrorBody, R!NoBody}]
            \cup [status : {502}, body : {R!NoBody}]
FullAnswer(c) == R!Answer(200, R!FullBody(c.response))

ParsedTruly(c) ==
  /\ \A a \in Refusals :
       R!Parse(c.response, a, c.given) = "success" =>
         \/ c \in ErrorTakers
         \/ a.body = R!NoBody /\ (c.response.schema.closed \/ c.response.file
                                  \/ c \in {list_direct_rooms, get_profile})
  /\ \A a \in Refusals \cup {FullAnswer(c)} :
       /\ R!Parse(c.response, a, c.given) = "raises" => c \in {keys_claim, delete_devices}
       /\ R!RetryAfter(c.response, a, c.given) = "argument" => c \in {to_device, share_group_session}

\* Every call of the client: only those that cannot tell take a refusal for
\* what they asked for, and only the known ones raise.
LEMMA CallsParsed == \A c \in Calls : ParsedTruly(c)
<1> SUFFICES ASSUME NEW c \in Calls PROVE ParsedTruly(c)
  OBVIOUS
<1>1. Traits(c)
  BY CallsHaveTraits
<1>2. \A a : /\ R!Parse(c.response, a, c.given) = "raises" => c \in {keys_claim, delete_devices}
             /\ R!RetryAfter(c.response, a, c.given) = "argument" => c \in {to_device, share_group_session}
  BY <1>1 DEF Traits, R!Parse, R!ParseDict, R!ParseFile, R!RetryAfter
<1>3. ASSUME NEW a \in Refusals, R!Parse(c.response, a, c.given) = "success"
      PROVE  \/ c \in ErrorTakers
             \/ a.body = R!NoBody /\ (c.response.schema.closed \/ c.response.file
                                      \/ c \in {list_direct_rooms, get_profile})
  <2>1. a.body \in {R!ErrorBody, R!NoBody} /\ R!ErrorBody # R!NoBody
    BY DEF Refusals, R!ErrorBody, R!NoBody, R!Object, R!error, R!Needs
  <2>2. R!ParseDict(R!DeleteDevicesAuthResponse, a, c.given) # "success"
    <3>1. R!DeleteDevicesAuthResponse.reads = {"session", "flows", "params"}
      BY DEF R!DeleteDevicesAuthResponse, R!Verified
    <3>2. "session" \notin a.body.fields
      BY <2>1 DEF R!ErrorBody, R!NoBody, R!Object, R!error, R!Needs
    <3> QED BY <3>1, <3>2 DEF R!ParseDict
  <2>3. CASE c.response.file
    <3>1. R!ParseFile(c.response, a) = "success"
      BY <1>3, <2>2, <2>3 DEF R!Parse
    <3>2. a.body # R!ErrorBody
      BY <3>1, <2>1 DEF R!ParseFile
    <3> QED BY <3>2, <2>1, <2>3
  <2>4. CASE ~c.response.file
    <3>1. R!Valid(a.body, c.response.schema)
      BY <1>3, <2>2, <2>4 DEF R!Parse, R!ParseDict
    <3> QED BY <1>1, <2>1, <2>4, <3>1 DEF Traits
  <2> QED BY <2>3, <2>4
<1> QED BY <1>2, <1>3 DEF ParsedTruly

\* The calls that fail unless the server did what they ask for.
Strict == {upload, room_create, room_put_state}

LEMMA StrictCallsParsed ==
  ASSUME NEW c \in Strict, NEW a \in Refusals
  PROVE  c \in Calls /\ R!Parse(c.response, a, c.given) # "success"
<1> USE DEF Strict, Call, CallAbout, LoggedIn, LoggedInAbout, WithStore, R!Verified, R!Needs,
            R!ErrorResponse, R!ErrorWithRoomId, R!Unchecked
<1>1. c \in Calls
  BY DEF Calls
<1>2. /\ c.response.schema.required # {}
      /\ ~c.response.schema.closed /\ ~c.response.file
  <2>1. CASE c = upload
    BY <2>1 DEF upload, R!UploadResponse, R!upload
  <2>2. CASE c = room_create
    BY <2>2 DEF room_create, R!RoomCreateResponse, R!room_create_response
  <2>3. CASE c = room_put_state
    BY <2>3 DEF room_put_state, R!RoomPutStateResponse, R!room_event_id
  <2> QED BY <2>1, <2>2, <2>3
<1>3. \A d \in ErrorTakers \cup {list_direct_rooms, get_profile} : d.response.schema.required = {}
  <2>1. room_put_alias.response.schema.required = {}
    BY DEF room_put_alias, R!RoomPutAliasResponse, R!empty
  <2>2. room_delete_alias.response.schema.required = {}
    BY DEF room_delete_alias, R!RoomDeleteAliasResponse, R!empty
  <2>3. room_get_state_event.response.schema.required = {}
    BY DEF room_get_state_event, R!RoomGetStateEventResponse, R!empty
  <2>4. content_repository_config.response.schema.required = {}
    BY DEF content_repository_config, R!ContentRepositoryConfigResponse, R!content_repository_config
  <2>5. list_direct_rooms.response.schema.required = {}
    BY DEF list_direct_rooms, R!DirectRoomsResponse
  <2>6. get_profile.response.schema.required = {}
    BY DEF get_profile, R!ProfileGetResponse, R!get_profile
  <2> QED BY <2>1, <2>2, <2>3, <2>4, <2>5, <2>6 DEF ErrorTakers
<1> QED BY <1>1, <1>2, <1>3, CallsParsed DEF ParsedTruly

LEMMA ParseKinds ==
  ASSUME NEW class, NEW a, NEW given
  PROVE  R!Parse(class, a, given) \in {"success", "error", "raises"}
BY DEF R!Parse, R!ParseDict, R!ParseFile

-----------------------------------------------------------------------------
(* The inductive invariant of a call: what its counters, its answer and the *)
(* state of an upload are worth in each phase.                              *)

SendingTyped ==
  /\ max429 \in Limits \cup {Unlimited} /\ maxTimeouts \in Limits \cup {Unlimited}
  /\ loggedIn \in BOOLEAN /\ hasStore \in BOOLEAN /\ call \in Calls
  /\ phase \in {"idle", "prepare", "streaming", "sent", "served", "answered", "done"}
  /\ result \in Results /\ got429 \in Nat /\ gotTimeouts \in Nat /\ faults \in 0..MaxFaults
  /\ served \subseteq 1..2 * Unlimited /\ held \in BOOLEAN /\ received \in Seq(Nat)
  /\ position \in 0..FileSize /\ startAt \in 0..FileSize /\ keys \in 0..2 * Unlimited
  /\ monitor \in [transferred : 0..FileSize, cancel : BOOLEAN, pause : BOOLEAN]

IdleIsNew ==
  phase = "idle" => /\ got429 = 0 /\ gotTimeouts = 0 /\ served = {} /\ received = <<>>
                    /\ monitor = Unwatched

\* What attempts after the first may be due to: faults and, for an upload, the user
\* who cancels it.
Causes == IF IsUpload THEN Unlimited + faults ELSE faults

\* Each attempt but the first has a cause, and so has a rate limit that is still to
\* be counted; a call that goes on has not used up its limits.
Counted ==
  /\ got429 <= faults /\ got429 + gotTimeouts <= Causes
  /\ phase = "answered" /\ IsLimited => got429 < faults /\ got429 + gotTimeouts < Causes
  /\ phase # "done" => /\ max429 # Unlimited => got429 <= max429
                       /\ maxTimeouts # Unlimited => gotTimeouts <= maxTimeouts
  /\ LimitsKept

ServedOnce ==
  /\ A!Repeatable(call.request) => served \subseteq {1}
  /\ phase = "served" => served # {}

HasAnswer == phase = "answered" \/ (phase = "done" /\ result \in {"success", "error", "unparsable", "no_number"})
Answered  == HasAnswer => (answer = FullAnswer(call) /\ served # {}) \/ answer \in Refusals
Explained == phase = "done" /\ result = "success" => Outcome = "success"

\* An attempt reads on from startAt, and the server stores what it has read.
Uploading ==
  /\ phase = "streaming" => IsUpload
  /\ IsUpload =>
       /\ phase = "prepare" /\ Attempt = 1 => monitor.transferred = 0
       /\ phase # "prepare" => monitor.transferred = Len(received)
       /\ phase = "streaming" => /\ position = IF held THEN startAt + Len(received) + 1 ELSE startAt + Len(received)
                                 /\ \A i \in DOMAIN received : received[i] = startAt + i
       /\ phase = "sent" => received = Suffix(startAt) /\ keys = Attempt
       /\ \/ phase = "served"
          \/ phase = "answered" /\ answer.status = 200
          \/ phase = "done" /\ result = "success"
          => uploaded = [content |-> Suffix(startAt), attempt |-> keys]

Calling == SendingTyped /\ IdleIsNew /\ Counted /\ ServedOnce /\ Answered /\ Explained /\ OnlyKnownRaises /\ Uploading

\* A step of a call.
CallNext == (\E c \in Calls : Begin(c)) \/ CallStep \/ Return

LEMMA ARefusalSays ==
  ASSUME NEW a \in Refusals
  PROVE  /\ a.status \in {401, 403, 404, 429, 502}
         /\ a.body \in {R!ErrorBody, R!NoBody}
         /\ a.body = R!NoBody => a.status # 404
BY DEF Refusals, R!ErrorBody, R!NoBody, R!Object, R!error, R!Needs

LEMMA FullAnswerSays == \A c : FullAnswer(c).status = 200
BY DEF FullAnswer, R!Answer

LEMMA AttemptsBounded ==
  ASSUME SendingTyped, Counted
  PROVE  Attempt \in 1..2 * Unlimited /\ (~IsUpload => Attempt \in 1..MaxFaults + 1)
BY LimitsAssumption DEF SendingTyped, Counted, Causes, Attempt, Unlimited

\* What has been sent of an upload is less than the file while a chunk is held.
LEMMA HeldIsLeft ==
  ASSUME SendingTyped, Uploading, phase = "streaming", held
  PROVE  monitor.transferred + 1 \in 0..FileSize /\ position \in Nat
<1>1. /\ monitor.transferred = Len(received) /\ startAt + Len(received) + 1 = position
      /\ Len(received) \in Nat
  BY DEF SendingTyped, Uploading
<1> QED BY <1>1, LimitsAssumption DEF SendingTyped

LEMMA TypedKept == ASSUME Calling, CallNext PROVE SendingTyped'
<1> USE LimitsAssumption DEF config, retry_vars, upload_vars, End, Fault, Respond, Results, Unlimited
<1> SendingTyped
  BY DEF Calling
<1>a. Attempt \in 1..2 * Unlimited
  BY AttemptsBounded DEF Calling
<1>z. 0 \in 0..FileSize /\ 0 \in 0..2 * Unlimited
  OBVIOUS
<1>1. CASE \E c \in Calls : Begin(c)
  BY <1>1 DEF Begin, SendingTyped
<1>2. CASE Prepare
  <2>1. position' \in 0..FileSize /\ startAt' \in 0..FileSize
    BY <1>2 DEF Prepare, Rewound, SendingTyped
  <2>2. monitor' \in [transferred : 0..FileSize, cancel : BOOLEAN, pause : BOOLEAN]
    <3>1. [monitor EXCEPT !.transferred = 0] \in [transferred : 0..FileSize, cancel : BOOLEAN, pause : BOOLEAN]
      BY <1>z DEF SendingTyped
    <3> QED BY <1>2, <3>1 DEF Prepare, Restarted, SendingTyped
  <2>3. received' \in Seq(Nat)
    BY <1>2 DEF Prepare
  <2> QED BY <1>2, <2>1, <2>2, <2>3 DEF Prepare, SendingTyped
<1>3. CASE ReadChunk
  BY <1>3 DEF ReadChunk, Streaming, SendingTyped
<1>4. CASE SendChunk
  <2>1. monitor.transferred + 1 \in 0..FileSize /\ position \in Nat
    BY <1>4, HeldIsLeft DEF SendChunk, Calling
  <2>2. monitor' \in [transferred : 0..FileSize, cancel : BOOLEAN, pause : BOOLEAN]
    BY <1>4, <2>1 DEF SendChunk, SendingTyped
  <2>3. received' \in Seq(Nat)
    BY <1>4, <2>1 DEF SendChunk, SendingTyped
  <2> QED BY <1>4, <2>2, <2>3 DEF SendChunk, SendingTyped
<1>5. CASE BodyEnds
  BY <1>5, <1>a DEF BodyEnds, SendingTyped
<1>6. CASE CancelSeen
  BY <1>6 DEF CancelSeen, Failed, SendingTyped
<1>7. CASE UserCancels
  BY <1>7 DEF UserCancels, SendingTyped
<1>8. CASE UserPauses
  <2>1. monitor' \in [transferred : 0..FileSize, cancel : BOOLEAN, pause : BOOLEAN]
    BY <1>8 DEF UserPauses, SendingTyped
  <2> QED BY <1>8, <2>1 DEF UserPauses, SendingTyped
<1>9. CASE Serve
  <2>1. Effect \in 1..2 * Unlimited
    BY <1>a DEF Effect
  <2> QED BY <1>9, <2>1 DEF Serve, SendingTyped
<1>10. CASE Answers \/ Refuses \/ Limited \/ Gateway
  <2>0. faults \in 0..MaxFaults
    BY DEF SendingTyped
  <2>1. faults' \in 0..MaxFaults /\ phase' = "answered"
    BY <1>10, <2>0 DEF Answers, Refuses, Limited, Gateway
  <2>2. UNCHANGED <<max429, maxTimeouts, hasStore, loggedIn, call, got429, gotTimeouts, served,
                    received, uploaded, position, startAt, held, keys, monitor, result>>
    BY <1>10 DEF Answers, Refuses, Limited, Gateway
  <2> QED BY <2>1, <2>2 DEF SendingTyped
<1>11. CASE Lost
  BY <1>11 DEF Lost, Failed, SendingTyped
<1>12. CASE Finish
  <2>1. loggedIn' \in BOOLEAN
    BY <1>12 DEF Finish, Received, SendingTyped
  <2>2. result' \in Results
    BY <1>12, ParseKinds DEF Finish, Outcome
  <2> QED BY <1>12, <2>1, <2>2 DEF Finish, SendingTyped
<1>13. CASE RetryLimited
  BY <1>13 DEF RetryLimited, SendingTyped
<1>14. CASE Return
  <2>1. login \in Calls
    BY DEF Calls
  <2>2. Unwatched \in [transferred : 0..FileSize, cancel : BOOLEAN, pause : BOOLEAN]
    BY DEF Unwatched
  <2>3. received' \in Seq(Nat)
    BY <1>14 DEF Return, Forget
  <2> QED BY <1>14, <1>z, <2>1, <2>2, <2>3 DEF Return, Forget, SendingTyped
<1> QED BY <1>1, <1>2, <1>3, <1>4, <1>5, <1>6, <1>7, <1>8, <1>9, <1>10, <1>11, <1>12,
           <1>13, <1>14 DEF CallNext, CallStep

\* Where a step of a call leads.
LEMMA StepEnds ==
  ASSUME CallStep
  PROVE  phase' # "idle" /\ (phase' = "done" /\ result' = "success" => Finish)
<1> USE DEF End, Streaming
<1>1. CASE Prepare \/ ReadChunk \/ SendChunk
  BY <1>1 DEF Prepare, ReadChunk, SendChunk
<1>2. CASE BodyEnds \/ CancelSeen
  BY <1>2 DEF BodyEnds, CancelSeen, Failed
<1>3. CASE UserCancels \/ UserPauses
  BY <1>3 DEF UserCancels, UserPauses
<1>4. CASE Serve \/ Answers \/ Refuses \/ Limited \/ Gateway
  BY <1>4 DEF Serve, Answers, Refuses, Limited, Gateway, Respond
<1>5. CASE Lost \/ RetryLimited
  BY <1>5 DEF Lost, Failed, RetryLimited
<1>6. CASE Finish
  BY <1>6 DEF Finish
<1> QED BY <1>1, <1>2, <1>3, <1>4, <1>5, <1>6 DEF CallStep

LEMMA IdleKept == ASSUME Calling, CallNext PROVE IdleIsNew'
<1> USE DEF config, retry_vars, upload_vars, End, IdleIsNew
<1>1. CASE \E c \in Calls : Begin(c)
  BY <1>1 DEF Begin
<1>2. CASE CallStep
  BY <1>2, StepEnds
<1>3. CASE Return
  BY <1>3 DEF Return, Forget
<1> QED BY <1>1, <1>2, <1>3 DEF CallNext

LEMMA CountedKept == ASSUME Calling, CallNext PROVE Counted'
<1> USE LimitsAssumption DEF config, retry_vars, upload_vars, End, Fault, Respond, LimitsKept, GivesUp
<1> SendingTyped /\ Counted /\ IdleIsNew
  BY DEF Calling
<1> USE DEF Causes, IsUpload
<1>a. /\ max429 \in Nat /\ maxTimeouts \in Nat /\ faults \in Nat /\ got429 \in Nat /\ gotTimeouts \in Nat
      /\ Unlimited \in Nat /\ SendingTyped'
  BY TypedKept DEF SendingTyped, Unlimited
<1>b. /\ got429 <= faults /\ got429 + gotTimeouts <= Causes
      /\ phase = "answered" /\ IsLimited => got429 < faults /\ got429 + gotTimeouts < Causes
  BY DEF Counted
<1>1. CASE \E c \in Calls : Begin(c)
  BY <1>1, <1>a, <1>b DEF Begin, Counted, IdleIsNew, Unlimited
<1>2. CASE Prepare \/ ReadChunk \/ SendChunk \/ BodyEnds \/ Serve
  <2>1. /\ UNCHANGED <<max429, maxTimeouts, call, got429, gotTimeouts, faults>>
        /\ phase # "done" /\ phase' # "answered"
    BY <1>2, Zenon DEF Prepare, ReadChunk, SendChunk, BodyEnds, Serve, Streaming
  <2> QED BY <2>1, <1>a, <1>b DEF Counted
<1>3. CASE UserCancels \/ UserPauses
  BY <1>3, <1>a, <1>b DEF UserCancels, UserPauses, Counted, IsLimited
<1>11. CASE CancelSeen
  <2>1. /\ call = upload /\ UNCHANGED <<max429, maxTimeouts, call, got429, faults>>
        /\ phase = "streaming" /\ phase' \in {"done", "prepare"}
        /\ gotTimeouts' = IF gotTimeouts < Unlimited THEN gotTimeouts + 1 ELSE gotTimeouts
        /\ phase' = "prepare" => maxTimeouts = Unlimited \/ gotTimeouts + 1 <= maxTimeouts
    BY <1>11, <1>a DEF CancelSeen, Failed, TimedOutOften, Streaming, Calling, Uploading
  <2> QED BY <2>1, <1>a, <1>b DEF Counted
<1>4. CASE Answers \/ Refuses
  <2>1. ~IsLimited'
    BY <1>4 DEF Answers, Refuses, R!Answer, IsLimited
  <2> QED BY <1>4, <2>1, <1>a, <1>b DEF Answers, Refuses, Counted
<1>5. CASE Limited
  BY <1>5, <1>a, <1>b DEF Limited, Counted
<1>6. CASE Gateway
  <2>1. ~IsLimited'
    BY <1>6 DEF Gateway, R!Answer, IsLimited
  <2> QED BY <1>6, <2>1, <1>a, <1>b DEF Gateway, Counted
<1>7. CASE Lost
  BY <1>7, <1>a, <1>b DEF Lost, Failed, TimedOutOften, Counted
<1>8. CASE Finish
  <2>1. /\ UNCHANGED <<max429, maxTimeouts, call, gotTimeouts, faults>> /\ phase' = "done"
    BY <1>8 DEF Finish
  <2>2. got429' = got429 \/ (got429' = got429 + 1 /\ IsLimited)
    BY <1>8 DEF Finish
  <2> QED BY <1>8, <2>1, <2>2, <1>a, <1>b DEF Finish, Counted
<1>9. CASE RetryLimited
  <2>1. /\ UNCHANGED <<max429, maxTimeouts, call, gotTimeouts, faults>>
        /\ phase' \in {"done", "prepare"}
        /\ got429' = got429 + 1 /\ IsLimited /\ phase = "answered"
        /\ max429 # Unlimited => got429 + 1 <= max429
    BY <1>9, <1>a DEF RetryLimited
  <2> QED BY <2>1, <1>a, <1>b DEF Counted
<1>10. CASE Return
  BY <1>10, <1>a, <1>b DEF Return, Forget, Counted
<1> QED BY <1>1, <1>2, <1>3, <1>4, <1>5, <1>6, <1>7, <1>8, <1>9, <1>10, <1>11 DEF CallNext, CallStep

LEMMA ServedOnceKept == ASSUME Calling, CallNext PROVE ServedOnce'
<1> USE DEF config, retry_vars, upload_vars, End, ServedOnce
<1>1. CASE \E c \in Calls : Begin(c)
  BY <1>1 DEF Begin, Calling, IdleIsNew
<1>2. CASE Serve
  BY <1>2 DEF Serve, Effect, Calling
<1>3. CASE CallStep /\ ~Serve
  BY <1>3 DEF CallStep, Prepare, ReadChunk, SendChunk, BodyEnds, CancelSeen, UserCancels, UserPauses,
              Answers, Refuses, Limited, Gateway, Respond, Lost, Failed, Finish, RetryLimited, Calling
<1>4. CASE Return
  BY <1>4 DEF Return, Forget
<1> QED BY <1>1, <1>2, <1>3, <1>4 DEF CallNext

LEMMA AnsweredKept == ASSUME Calling, CallNext PROVE Answered'
<1> USE DEF config, retry_vars, upload_vars, End, Answered, HasAnswer
<1> Answered
  BY DEF Calling
<1>1. CASE \E c \in Calls : Begin(c)
  BY <1>1 DEF Begin
<1>2. CASE Prepare \/ ReadChunk \/ SendChunk \/ BodyEnds \/ CancelSeen \/ Serve
  BY <1>2 DEF Prepare, ReadChunk, SendChunk, BodyEnds, CancelSeen, Failed, Serve
<1>3. CASE UserCancels \/ UserPauses
  BY <1>3 DEF UserCancels, UserPauses
<1>4. CASE Answers
  <2>1. served # {}
    BY <1>4 DEF Answers, Calling, ServedOnce
  <2> QED BY <1>4, <2>1 DEF Answers, Respond, FullAnswer
<1>5. CASE Refuses \/ Limited \/ Gateway
  <2>1. answer' \in Refusals
    BY <1>5 DEF Refuses, Limited, Gateway, Respond, Refusals, R!Answer
  <2> QED BY <2>1
<1>6. CASE Lost
  BY <1>6 DEF Lost, Failed
<1>7. CASE Finish \/ RetryLimited
  <2>1. phase = "answered" /\ UNCHANGED <<call, answer, served>>
    BY <1>7, Zenon DEF Finish, RetryLimited
  <2>2. (answer = FullAnswer(call) /\ served # {}) \/ answer \in Refusals
    BY <2>1
  <2>3. ((answer = FullAnswer(call) /\ served # {}) \/ answer \in Refusals)'
    BY <2>1, <2>2
  <2> QED BY <2>3
<1>8. CASE Return
  BY <1>8 DEF Return, Forget
<1> QED BY <1>1, <1>2, <1>3, <1>4, <1>5, <1>6, <1>7, <1>8 DEF CallNext, CallStep

LEMMA ExplainedKept == ASSUME Calling, CallNext PROVE Explained'
<1> USE DEF config, retry_vars, upload_vars, End, Explained
<1>1. CASE \E c \in Calls : Begin(c)
  BY <1>1 DEF Begin
<1>2. CASE CallStep /\ ~Finish
  BY <1>2, StepEnds
<1>3. CASE Finish
  <2>1. Outcome' = Outcome
    BY <1>3 DEF Finish, Outcome
  <2> QED BY <1>3, <2>1 DEF Finish
<1>4. CASE Return
  BY <1>4 DEF Return, Forget
<1> QED BY <1>1, <1>2, <1>3, <1>4 DEF CallNext

\* What an answer on its way can be parsed as.
LEMMA AnswerParsed ==
  ASSUME Calling, phase = "answered"
  PROVE  /\ Outcome = "raises" => call \in {keys_claim, delete_devices}
         /\ Wait = "argument" => call \in {to_device, share_group_session}
<1>1. answer \in Refusals \cup {FullAnswer(call)} /\ call \in Calls
  BY DEF Calling, Answered, HasAnswer, SendingTyped
<1> QED BY <1>1, CallsParsed DEF ParsedTruly, Outcome, Wait

LEMMA RaisesKept == ASSUME Calling, CallNext PROVE OnlyKnownRaises'
<1> USE DEF config, retry_vars, upload_vars, End, OnlyKnownRaises
<1>1. CASE \E c \in Calls : Begin(c)
  <2>1. PICK c \in Calls : Begin(c)
    BY <1>1
  <2>2. CASE Guarded(c)
    BY <2>1, <2>2 DEF Begin
  <2>3. CASE ~Guarded(c)
    <3>1. phase' = "done" /\ result' = "refused" /\ call' = c /\ UNCHANGED <<loggedIn, hasStore>>
      BY <2>1, <2>3 DEF Begin
    <3>2. ~Guarded(call)'
      BY <2>3, <3>1 DEF Guarded
    <3> QED BY <3>1, <3>2
  <2> QED BY <2>2, <2>3
<1>2. CASE Prepare \/ ReadChunk \/ SendChunk \/ BodyEnds \/ Serve
  BY <1>2 DEF Prepare, ReadChunk, SendChunk, BodyEnds, Serve, Streaming
<1>3. CASE CancelSeen
  <2>1. maxTimeouts \in 0..Unlimited /\ gotTimeouts \in Nat /\ Unlimited \in Nat
    BY LimitsAssumption DEF Calling, SendingTyped, Unlimited
  <2> QED BY <1>3, <2>1 DEF CancelSeen, Failed, TimedOutOften, GivesUp
<1>4. CASE UserCancels \/ UserPauses
  BY <1>4 DEF UserCancels, UserPauses
<1>5. CASE Answers \/ Refuses \/ Limited \/ Gateway
  BY <1>5 DEF Answers, Refuses, Limited, Gateway, Respond
<1>6. CASE Lost
  BY <1>6 DEF Lost, Failed, TimedOutOften, GivesUp
<1>7. CASE Finish
  <2>1. result' \in {"success", "error", "unparsable"} /\ UNCHANGED call
    BY <1>7, ParseKinds DEF Finish, Outcome
  <2>2. result' = "unparsable" => call \in {keys_claim, delete_devices}
    BY <1>7, AnswerParsed, ParseKinds DEF Finish, Outcome
  <2> QED BY <2>1, <2>2
<1>8. CASE RetryLimited
  <2>1. phase' = "done" => result' = "no_number" /\ Wait = "argument"
    BY <1>8 DEF RetryLimited
  <2> QED BY <1>8, <2>1, AnswerParsed DEF RetryLimited
<1>9. CASE Return
  BY <1>9 DEF Return, Forget
<1> QED BY <1>1, <1>2, <1>3, <1>4, <1>5, <1>6, <1>7, <1>8, <1>9 DEF CallNext, CallStep

\* A call of those that can tell succeeds only when the server did what it asks.
LEMMA StrictSuccess ==
  ASSUME Calling, call \in Strict, Outcome = "success", HasAnswer
  PROVE  answer = FullAnswer(call) /\ served # {}
BY StrictCallsParsed DEF Calling, Answered, Outcome

LEMMA UploadingKept == ASSUME Calling, CallNext PROVE Uploading'
<1> USE DEF config, retry_vars, upload_vars, End
<1> SendingTyped /\ Uploading
  BY DEF Calling
<1>1. CASE \E c \in Calls : Begin(c)
  <2>1. received' = <<>> /\ monitor' = Unwatched /\ phase' \in {"prepare", "done"} /\ (phase' = "done" => result' = "refused")
    BY <1>1 DEF Begin, Calling, IdleIsNew
  <2> QED BY <2>1 DEF Uploading, Unwatched
<1>2. CASE Prepare
  <2>1. CASE IsUpload
    <3>1. received' = <<>> /\ phase' = "streaming" /\ ~held' /\ IsUpload'
      BY <1>2, <2>1 DEF Prepare, IsUpload
    <3>2. monitor'.transferred = 0
      BY <1>2, <2>1 DEF Prepare, Restarted, Uploading, SendingTyped
    <3>3. position' = startAt' /\ startAt' \in Nat
      BY <1>2, <2>1, LimitsAssumption DEF Prepare, Rewound, SendingTyped
    <3>4. Len(received') = 0
      BY <3>1
    <3>5. position' = startAt' + Len(received')
      <4>1. ASSUME NEW a \in Nat, NEW b, b = 0 PROVE a = a + b
        BY <4>1
      <4> QED BY <3>3, <3>4, <4>1, Zenon
    <3> QED BY <3>1, <3>2, <3>5 DEF Uploading
  <2>2. CASE ~IsUpload
    BY <1>2, <2>2 DEF Prepare, Uploading, IsUpload
  <2> QED BY <2>1, <2>2
<1>3. CASE ReadChunk
  <2>1. /\ phase = "streaming" /\ ~held /\ held' /\ position' = position + 1
        /\ UNCHANGED <<call, phase, result, received, startAt, monitor>>
    BY <1>3 DEF ReadChunk, Streaming
  <2>2. IsUpload /\ position = startAt + Len(received) /\ startAt + Len(received) \in Nat
    BY <2>1, LimitsAssumption DEF Uploading, SendingTyped
  <2>3. position' = startAt + Len(received) + 1
    BY <2>1, <2>2
  <2> QED BY <2>1, <2>3 DEF Uploading, IsUpload
<1>4. CASE SendChunk
  <2>1. /\ IsUpload /\ phase = "streaming" /\ position = startAt + Len(received) + 1
        /\ \A i \in DOMAIN received : received[i] = startAt + i
        /\ position \in Nat /\ startAt \in Nat /\ Len(received) \in Nat /\ monitor.transferred = Len(received)
    BY <1>4, LimitsAssumption DEF SendChunk, Uploading, SendingTyped
  <2>2. /\ received' = Append(received, position) /\ monitor'.transferred = Len(received) + 1
        /\ UNCHANGED <<phase, position, startAt, call>> /\ ~held'
    BY <1>4, <2>1 DEF SendChunk, SendingTyped
  <2>3. Len(received') = Len(received) + 1
    BY <2>1, <2>2 DEF SendingTyped
  <2>4. ASSUME NEW i \in DOMAIN received' PROVE received'[i] = startAt + i
    <3>1. i \in 1..Len(received) + 1 /\ received' \in Seq(Nat)
      BY <2>1, <2>2, <2>3 DEF SendingTyped
    <3>2. CASE i = Len(received) + 1
      BY <2>1, <2>2, <3>2 DEF SendingTyped
    <3>3. CASE i \in 1..Len(received)
      BY <2>1, <2>2, <3>3 DEF SendingTyped
    <3> QED BY <2>1, <3>1, <3>2, <3>3
  <2> QED BY <2>1, <2>2, <2>3, <2>4 DEF Uploading, IsUpload
<1>5. CASE BodyEnds
  <2>1. /\ IsUpload /\ phase = "streaming" /\ FileSize = startAt + Len(received)
        /\ \A i \in DOMAIN received : received[i] = startAt + i
        /\ startAt \in Nat /\ Len(received) \in Nat /\ received \in Seq(Nat)
    BY <1>5, LimitsAssumption DEF BodyEnds, Streaming, Uploading, SendingTyped
  <2>2. FileSize - startAt = Len(received) /\ DOMAIN received = 1..Len(received)
    BY <2>1
  <2>3. received = Suffix(startAt)
    BY <2>1, <2>2 DEF Suffix
  <2>4. UNCHANGED <<call, received, startAt, monitor, got429, gotTimeouts>> /\ keys' = Attempt /\ phase' = "sent"
    BY <1>5 DEF BodyEnds
  <2> QED BY <2>1, <2>3, <2>4 DEF Uploading, IsUpload, Attempt, Suffix
<1>6. CASE CancelSeen
  <2>1. /\ UNCHANGED <<call, received, uploaded, position, startAt, held, keys, monitor>>
        /\ phase # "prepare" /\ phase' \in {"prepare", "done"} /\ (phase' = "done" => result' = "timeout")
        /\ Attempt' # 1
    BY <1>6, LimitsAssumption DEF CancelSeen, Failed, Streaming, Attempt, SendingTyped, Unlimited
  <2> QED BY <2>1 DEF Uploading, IsUpload
<1>7. CASE UserCancels \/ UserPauses
  <2>1. /\ monitor'.transferred = monitor.transferred
        /\ UNCHANGED <<call, phase, got429, gotTimeouts, answer, received, uploaded, position, startAt, held, keys, result>>
    BY <1>7 DEF UserCancels, UserPauses, SendingTyped
  <2> QED BY <2>1 DEF Uploading, IsUpload, Attempt, Suffix
<1>8. CASE Serve
  BY <1>8 DEF Serve, Uploading, IsUpload, Suffix
<1>9. CASE Answers
  BY <1>9 DEF Answers, Respond, Uploading, IsUpload, Suffix
<1>10. CASE Refuses \/ Limited \/ Gateway
  <2>1. answer'.status # 200
    BY <1>10 DEF Refuses, Limited, Gateway, Respond, R!Answer
  <2> QED BY <1>10, <2>1 DEF Refuses, Limited, Gateway, Respond, Uploading, IsUpload
<1>11. CASE Lost
  <2>1. /\ UNCHANGED <<call, received, uploaded, position, startAt, held, keys, monitor>>
        /\ phase # "prepare" /\ phase' \in {"prepare", "done"} /\ (phase' = "done" => result' = "timeout")
        /\ Attempt' # 1
    BY <1>11 DEF Lost, Failed, Attempt, SendingTyped
  <2> QED BY <2>1 DEF Uploading, IsUpload
<1>12. CASE Finish
  <2>1. /\ UNCHANGED <<call, answer, received, uploaded, position, startAt, held, keys, monitor>>
        /\ phase = "answered" /\ phase' = "done" /\ (result' = "success" => Outcome = "success")
    BY <1>12 DEF Finish
  <2>2. IsUpload /\ result' = "success" => uploaded = [content |-> Suffix(startAt), attempt |-> keys]
    BY <2>1, StrictSuccess, FullAnswerSays DEF Uploading, IsUpload, Strict, HasAnswer
  <2> QED BY <2>1, <2>2 DEF Uploading, IsUpload, Suffix
<1>13. CASE RetryLimited
  <2>1. /\ UNCHANGED <<call, received, uploaded, position, startAt, held, keys, monitor>>
        /\ phase # "prepare" /\ phase' \in {"prepare", "done"} /\ (phase' = "done" => result' = "no_number")
        /\ Attempt' # 1
    BY <1>13 DEF RetryLimited, Attempt, SendingTyped
  <2> QED BY <2>1 DEF Uploading, IsUpload
<1>14. CASE Return
  BY <1>14 DEF Return, Forget, Uploading, Unwatched
<1> QED BY <1>1, <1>2, <1>3, <1>4, <1>5, <1>6, <1>7, <1>8, <1>9, <1>10, <1>11, <1>12,
           <1>13, <1>14 DEF CallNext, CallStep

LEMMA CallsKept == Calling /\ CallNext => Calling'
BY TypedKept, IdleKept, CountedKept, ServedOnceKept, AnsweredKept, ExplainedKept, RaisesKept, UploadingKept DEF Calling

LEMMA CallsStutter == Calling /\ UNCHANGED sending => Calling'
<1> SUFFICES ASSUME Calling, UNCHANGED sending PROVE Calling'
  OBVIOUS
<1> USE DEF sending, upload_vars
<1>1. SendingTyped' /\ IdleIsNew' /\ ServedOnce'
  BY DEF Calling, SendingTyped, IdleIsNew, ServedOnce
<1>2. Counted'
  BY DEF Calling, Counted, Causes, IsUpload, LimitsKept, IsLimited
<1>3. Answered' /\ Explained'
  BY DEF Calling, Answered, HasAnswer, Explained, Outcome, FullAnswer
<1>4. OnlyKnownRaises'
  BY DEF Calling, OnlyKnownRaises, Guarded
<1>5. Uploading'
  BY DEF Calling, Uploading, IsUpload, Attempt, Suffix
<1> QED BY <1>1, <1>2, <1>3, <1>4, <1>5 DEF Calling

LEMMA CallsStart == SendingInit => Calling
<1> SUFFICES ASSUME SendingInit PROVE Calling
  OBVIOUS
<1> USE LimitsAssumption DEF SendingInit
<1>1. SendingTyped
  <2>1. login \in Calls
    BY DEF Calls
  <2>2. Unwatched \in [transferred : 0..FileSize, cancel : BOOLEAN, pause : BOOLEAN]
    BY DEF Unwatched
  <2>3. 0 \in 0..FileSize /\ 0 \in 0..2 * Unlimited /\ 0 \in 0..MaxFaults
    BY DEF Unlimited
  <2>4. received \in Seq(Nat)
    OBVIOUS
  <2> QED BY <2>1, <2>2, <2>3, <2>4 DEF SendingTyped, Results
<1>2. Counted
  BY <1>1 DEF Counted, Causes, LimitsKept, SendingTyped, Unlimited
<1>3. IdleIsNew /\ ServedOnce /\ Answered /\ Explained /\ OnlyKnownRaises
  BY DEF IdleIsNew, ServedOnce, Answered, HasAnswer, Explained, OnlyKnownRaises
<1>4. Uploading
  BY DEF Uploading, Unwatched
<1> QED BY <1>1, <1>2, <1>3, <1>4 DEF Calling

LEMMA PromiseFollows == Calling => CallPromise /\ UploadedWhole
<1> SUFFICES ASSUME Calling PROVE CallPromise /\ UploadedWhole
  OBVIOUS
<1>1. SendingTypeOK
  <2>1. got429 \in 0..MaxFaults /\ gotTimeouts \in 0..2 * Unlimited
    BY LimitsAssumption DEF Calling, SendingTyped, Counted, Causes, Unlimited
  <2> QED BY <2>1 DEF Calling, SendingTyped, SendingTypeOK
<1>2. ActsOnce
  <2>1. ASSUME A!Repeatable(call.request) PROVE Cardinality(served) <= 1
    <3>1. served = {} \/ served = {1}
      BY <2>1 DEF Calling, ServedOnce
    <3>2. Cardinality({}) = 0
      BY FS_EmptySet
    <3>3. Cardinality({1}) = 1
      BY FS_Singleton
    <3> QED BY <3>1, <3>2, <3>3
  <2> QED BY <2>1 DEF ActsOnce
<1>3. SuccessIsReal
  <2> SUFFICES ASSUME phase = "done", result = "success", served = {}
      PROVE  CASE answer.body = R!ErrorBody -> TakesErrors
               [] answer.body = R!NoBody    -> answer.status # 404 /\ TakesNothing
               [] OTHER -> FALSE
    BY DEF SuccessIsReal
  <2>1. answer \in Refusals /\ Outcome = "success" /\ call \in Calls
    BY DEF Calling, SendingTyped, Answered, HasAnswer, Explained
  <2>2. /\ answer.body \in {R!ErrorBody, R!NoBody} /\ R!ErrorBody # R!NoBody
        /\ answer.body = R!NoBody => answer.status # 404
    BY <2>1, ARefusalSays DEF R!ErrorBody, R!NoBody, R!Object, R!error, R!Needs
  <2>3. \/ call \in ErrorTakers
        \/ answer.body = R!NoBody /\ TakesNothing
    BY <2>1, CallsParsed DEF ParsedTruly, Outcome, TakesNothing
  <2>4. call \in ErrorTakers => TakesErrors /\ TakesNothing
    BY DEF ErrorTakers, TakesErrors, TakesNothing
  <2> QED BY <2>2, <2>3, <2>4
<1>4. LimitsKept /\ OnlyKnownRaises
  BY DEF Calling, Counted
<1>5. UploadedWhole
  BY DEF Calling, Uploading, UploadedWhole
<1> QED BY <1>1, <1>2, <1>3, <1>4, <1>5 DEF CallPromise

-----------------------------------------------------------------------------
(* The inductive invariant of an upgrade: what the server and the client    *)
(* know at each of its steps.                                               *)

Before == {"whoami", "power", "state", "messages"}
After  == {"alias", "old_get", "old_delete", "old_event", "old_clear", "new_get", "new_put", "new_event"}

LEMMA StepsAre ==
  /\ Steps = Before \cup {"create", "tombstone"} \cup After
  /\ \A s \in Steps : CallOf[s] \in Calls
  /\ CallOf["create"] = room_create /\ CallOf["tombstone"] = room_put_state
<1>1. Steps = Before \cup {"create", "tombstone"} \cup After
  BY DEF Steps, CallOf, Before, After
<1>2. {whoami, room_get_state_event, room_get_state, room_messages, room_create, room_put_state,
       room_delete_alias, room_put_alias} \subseteq Calls
  BY DEF Calls
<1>3. \A s \in Steps : CallOf[s] \in {whoami, room_get_state_event, room_get_state, room_messages,
                                      room_create, room_put_state, room_delete_alias, room_put_alias}
  BY <1>1 DEF CallOf, Before, After
<1>4. CallOf["create"] = room_create /\ CallOf["tombstone"] = room_put_state
  BY DEF CallOf
<1> QED BY <1>1, <1>2, <1>3, <1>4

UpgradeTyped ==
  /\ step \in Steps \cup {"none"} /\ power \in Power /\ todo \subseteq Alias
  /\ directory \in [Alias -> {"old", "new", "none"}] /\ listed \in [{"old", "new"} -> SUBSET Alias]
  /\ whoFailed \in BOOLEAN /\ failed \in BOOLEAN
  /\ upgraded \in {"none", "success", "not_allowed", "error", "raised"}

\* The call that runs is the one that is due.
InTurn ==
  /\ step \in Steps /\ phase # "idle" => call = CallOf[step]
  /\ step # "none" => upgraded = "none"

\* No attempt makes more than one room, and the tombstone names the room that
\* room_create returned or none.
RoomsMade ==
  /\ rooms \in 0..MaxFaults + 1 /\ newRoom \in 0..rooms /\ tombstone \in {0, newRoom}
  /\ step \in Before \/ (step = "none" /\ upgraded = "none") => rooms = 0
  /\ step = "create" => /\ newRoom = 0 /\ rooms <= Attempt
                        /\ phase \in {"idle", "prepare", "streaming", "sent"} => rooms < Attempt
                        /\ served # {} => rooms # 0
  /\ step = "tombstone" => newRoom # 0 /\ (served # {} => tombstone = newRoom)
  /\ step \in After \/ upgraded = "success" => tombstone = newRoom /\ newRoom # 0

\* Unless a request failed, the aliases that are not still to be put name the
\* new room, and the new room lists them only after all have been.
AliasesMoved ==
  /\ step \in {"old_delete", "new_put"} => todo # {}
  /\ listed.new \in {{}, Alias} /\ (listed.new # {} => step = "new_event" \/ upgraded # "none")
  /\ step = "new_put" => /\ served # {} => directory[Current] = "new"
                         /\ ~failed => \A a \in Alias \ todo : directory[a] = "new"
  /\ step = "new_event" /\ ~failed => \A a \in Alias : directory[a] = "new"
  /\ AliasesMove

Upgrading == UpgradeTyped /\ InTurn /\ RoomsMade /\ AliasesMoved

\* How an upgrade goes on from a call that has ended.
LEMMA ContinueSays ==
  ASSUME Continue
  PROVE  \/ Ends("raised")
         \/ /\ step = "whoami" /\ step' = "power" /\ whoFailed' \in BOOLEAN
            /\ UNCHANGED <<todo, newRoom, upgraded>>
         \/ step = "power" /\ (Ends("not_allowed") \/ Next_("state"))
         \/ step = "state" /\ (Ends("error") \/ Next_("messages"))
         \/ step = "messages" /\ (Ends("error") \/ Next_("create"))
         \/ step = "create" /\ Ends("error")
         \/ /\ step = "create" /\ result = "success" /\ newRoom' = rooms /\ step' = "tombstone"
            /\ UNCHANGED <<whoFailed, todo, upgraded>>
         \/ step = "tombstone" /\ (Ends("error") \/ (result = "success" /\ Next_("alias")))
         \/ step = "alias" /\ (Ends("success") \/ Next_("old_get"))
         \/ /\ step = "old_get" /\ step' = "old_delete" /\ todo' = Alias
            /\ UNCHANGED <<whoFailed, newRoom, upgraded>>
         \/ step = "old_get" /\ Next_("old_clear")
         \/ step = "old_delete" /\ AfterAlias("old_event")
         \/ step \in {"old_event", "old_clear"} /\ Next_("new_get")
         \/ /\ step = "new_get" /\ step' = "new_put" /\ todo' = Alias
            /\ UNCHANGED <<whoFailed, newRoom, upgraded>>
         \/ step = "new_put" /\ AfterAlias("new_event")
         \/ step = "new_event" /\ Ends("success")
<1> step \in Before \cup {"create", "tombstone"} \cup After
  BY StepsAre DEF Continue
<1>1. CASE Raised
  BY <1>1 DEF Continue
<1>2. CASE ~Raised /\ step = "whoami"
  BY <1>2 DEF Continue
<1>3. CASE ~Raised /\ step = "power"
  BY <1>3 DEF Continue, AfterPower
<1>4. CASE ~Raised /\ step = "state"
  BY <1>4 DEF Continue, Order
<1>5. CASE ~Raised /\ step = "messages"
  BY <1>5 DEF Continue, Order
<1>6. CASE ~Raised /\ step = "create"
  BY <1>6 DEF Continue, Order, Raised
<1>7. CASE ~Raised /\ step = "tombstone"
  BY <1>7 DEF Continue, Raised
<1>8. CASE ~Raised /\ step = "alias"
  BY <1>8 DEF Continue
<1>9. CASE ~Raised /\ step = "old_get"
  BY <1>9 DEF Continue
<1>10. CASE ~Raised /\ step = "old_delete"
  BY <1>10 DEF Continue
<1>11. CASE ~Raised /\ step \in {"old_event", "old_clear"}
  BY <1>11 DEF Continue
<1>12. CASE ~Raised /\ step = "new_get"
  BY <1>12 DEF Continue, NewAliases
<1>13. CASE ~Raised /\ step = "new_put"
  BY <1>13 DEF Continue
<1>14. CASE ~Raised /\ step = "new_event"
  BY <1>14 DEF Continue
<1> QED BY <1>1, <1>2, <1>3, <1>4, <1>5, <1>6, <1>7, <1>8, <1>9, <1>10, <1>11, <1>12,
           <1>13, <1>14 DEF Before, After

\* A step of a call that is not Serve.
LEMMA StepMoves ==
  ASSUME SendingTyped, CallStep, phase' = "served" => phase = "served"
  PROVE  /\ UNCHANGED <<call, served>> /\ phase # "idle" /\ phase' # "idle"
         /\ Attempt \in Nat /\ Attempt' \in Nat /\ Attempt' >= Attempt
         /\ phase' \in {"prepare", "streaming", "sent"} =>
              phase \in {"prepare", "streaming", "sent"} \/ Attempt' > Attempt
<1> USE DEF config, retry_vars, upload_vars, End, Streaming, Attempt
<1>1. CASE Prepare \/ ReadChunk \/ SendChunk
  BY <1>1 DEF Prepare, ReadChunk, SendChunk, SendingTyped
<1>2. CASE BodyEnds
  BY <1>2 DEF BodyEnds, SendingTyped
<1>9. CASE CancelSeen
  <2>1. gotTimeouts' = gotTimeouts \/ gotTimeouts' = gotTimeouts + 1
    BY <1>9 DEF CancelSeen, Failed
  <2> QED BY <1>9, <2>1 DEF CancelSeen, Failed, SendingTyped
<1>3. CASE UserCancels \/ UserPauses
  BY <1>3 DEF UserCancels, UserPauses, SendingTyped
<1>4. CASE Serve
  BY <1>4 DEF Serve
<1>5. CASE Answers \/ Refuses \/ Limited \/ Gateway
  BY <1>5 DEF Answers, Refuses, Limited, Gateway, Respond, SendingTyped
<1>6. CASE Lost
  BY <1>6 DEF Lost, Failed, SendingTyped
<1>7. CASE Finish
  <2>1. got429' \in {got429, got429 + 1}
    BY <1>7 DEF Finish
  <2> QED BY <1>7, <2>1 DEF Finish, SendingTyped
<1>8. CASE RetryLimited
  BY <1>8 DEF RetryLimited, SendingTyped
<1> QED BY <1>1, <1>2, <1>3, <1>4, <1>5, <1>6, <1>7, <1>8, <1>9 DEF CallStep

\* The alias that a request is about is one that is still to be done.
LEMMA CurrentIsLeft == ASSUME todo \subseteq Alias, todo # {} PROVE Current \in todo
BY DEF Current

LEMMA NextIsCall == Next => CallNext \/ UNCHANGED sending
<1> SUFFICES ASSUME Next PROVE CallNext \/ UNCHANGED sending
  OBVIOUS
<1>1. CASE Start
  BY <1>1 DEF Start
<1>2. CASE \E c \in Calls : Single(c)
  BY <1>2 DEF Single, CallNext
<1>3. CASE Due
  BY <1>3, StepsAre DEF Due, CallNext
<1>4. CASE Run
  BY <1>4 DEF Run, CallNext, CallStep
<1>5. CASE SingleEnds
  BY <1>5 DEF SingleEnds, CallNext
<1>6. CASE Continue
  BY <1>6 DEF Continue, Return, CallNext
<1> QED BY <1>1, <1>2, <1>3, <1>4, <1>5, <1>6 DEF Next

LEMMA UpgradeTypedKept == ASSUME Calling, Upgrading, Next PROVE UpgradeTyped'
<1> USE AliasAssumption DEF server, locals
<1> UpgradeTyped
  BY DEF Upgrading
<1>1. CASE Start
  BY <1>1, StepsAre DEF Start, UpgradeTyped, Before
<1>2. CASE (\E c \in Calls : Single(c)) \/ Due \/ SingleEnds
  BY <1>2 DEF Single, Due, SingleEnds, UpgradeTyped
<1>3. CASE Run
  <2>1. CASE UNCHANGED server
    BY <1>3, <2>1 DEF Run, UpgradeTyped
  <2>2. CASE ServerDoes
    <3>1. step = "old_delete" \/ step = "new_put" => Current \in Alias
      BY CurrentIsLeft DEF Upgrading, AliasesMoved, UpgradeTyped
    <3>2. directory' \in [Alias -> {"old", "new", "none"}]
      BY <2>2, <3>1 DEF ServerDoes, UpgradeTyped
    <3>3. listed' \in [{"old", "new"} -> SUBSET Alias]
      BY <2>2 DEF ServerDoes, UpgradeTyped
    <3> QED BY <1>3, <3>2, <3>3 DEF Run, UpgradeTyped
  <2> QED BY <1>3, <2>1, <2>2 DEF Run
<1>4. CASE Continue
  <2>1. UNCHANGED <<power, directory, listed>> /\ failed' \in BOOLEAN
    BY <1>4 DEF Continue
  <2>2. /\ step' \in Steps \cup {"none"} /\ todo' \subseteq Alias /\ whoFailed' \in BOOLEAN
        /\ upgraded' \in {"none", "success", "not_allowed", "error", "raised"}
    BY <1>4, ContinueSays, StepsAre DEF Ends, Next_, AfterAlias, AliasesLeft, UpgradeTyped, Before, After
  <2> QED BY <2>1, <2>2 DEF UpgradeTyped
<1> QED BY <1>1, <1>2, <1>3, <1>4 DEF Next

LEMMA InTurnKept == ASSUME Calling, Upgrading, Next PROVE InTurn'
<1> USE DEF locals, sending
<1> InTurn
  BY DEF Upgrading
<1>1. CASE Start
  BY <1>1 DEF Start, InTurn
<1>2. CASE (\E c \in Calls : Single(c)) \/ SingleEnds
  <2>1. step = "none" /\ UNCHANGED <<step, upgraded>> /\ "none" \notin Steps
    BY <1>2, StepsAre DEF Single, SingleEnds, Before, After
  <2> QED BY <2>1 DEF InTurn
<1>3. CASE Due
  BY <1>3 DEF Due, Begin, InTurn
<1>4. CASE Run
  <2>1. UNCHANGED <<step, upgraded, call>> /\ phase # "idle"
    BY <1>4, StepMoves DEF Run, Serve, Calling
  <2> QED BY <2>1 DEF InTurn
<1>5. CASE Continue
  <2>1. phase' = "idle"
    BY <1>5 DEF Continue, Forget
  <2>2. upgraded = "none"
    BY <1>5, StepsAre DEF Continue, InTurn, Before, After
  <2>3. step' # "none" => upgraded' = "none"
    BY <1>5, <2>2, ContinueSays DEF Ends, Next_, AfterAlias
  <2> QED BY <2>1, <2>3 DEF InTurn
<1> QED BY <1>1, <1>2, <1>3, <1>4, <1>5 DEF Next

LEMMA RoomIsNoUpload == room_create # upload
<1> USE DEF Call, LoggedIn, R!Verified, R!Needs
<1>1. room_create.response.schema.required = {"room_id"}
  BY DEF room_create, R!RoomCreateResponse, R!room_create_response
<1>2. upload.response.schema.required = {"content_uri"}
  BY DEF upload, R!UploadResponse, R!upload
<1> QED BY <1>1, <1>2

LEMMA RoomsMadeKept == ASSUME Calling, Upgrading, Next PROVE RoomsMade'
<1> USE DEF locals, server
<1> RoomsMade /\ InTurn /\ SendingTyped
  BY DEF Upgrading, Calling
<1>a. /\ Attempt \in Nat /\ MaxFaults \in Nat
      /\ ~IsUpload => Attempt \in 1..MaxFaults + 1
  BY AttemptsBounded, LimitsAssumption DEF Calling, Unlimited
<1>b. step \in Before \cup {"create", "tombstone", "none"} \cup After /\ rooms \in Nat
  BY StepsAre, <1>a DEF Upgrading, UpgradeTyped, RoomsMade
<1>1. CASE Start
  BY <1>1 DEF Start, RoomsMade, Before, After
<1>2. CASE (\E c \in Calls : Single(c)) \/ SingleEnds
  <2>1. step = "none" /\ UNCHANGED <<step, upgraded, newRoom, rooms, tombstone>>
    BY <1>2 DEF Single, SingleEnds
  <2> QED BY <2>1 DEF RoomsMade, Before, After
<1>3. CASE Due
  <2>1. /\ UNCHANGED <<step, upgraded, newRoom, rooms, tombstone, served, got429, gotTimeouts>>
        /\ phase = "idle"
    BY <1>3 DEF Due, Begin, retry_vars
  <2> QED BY <2>1 DEF RoomsMade, Attempt
<1>4. CASE Run /\ Serve /\ ServerDoes
  <2>1. /\ UNCHANGED <<step, upgraded, newRoom, got429, gotTimeouts>> /\ phase = "sent" /\ phase' = "served"
        /\ rooms' = IF step = "create" THEN rooms + 1 ELSE rooms
        /\ tombstone' = IF step = "tombstone" THEN newRoom ELSE tombstone
    BY <1>4 DEF Run, Serve, ServerDoes, retry_vars
  <2>2. Attempt' = Attempt
    BY <2>1 DEF Attempt
  <2>3. CASE step = "create"
    <3>1. rooms < Attempt /\ newRoom = 0 /\ tombstone = 0
      BY <2>1, <2>3 DEF RoomsMade
    <3>4. ~IsUpload
      BY <2>1, <2>3, RoomIsNoUpload DEF InTurn, Steps, CallOf, IsUpload
    <3>2. rooms' <= Attempt' /\ rooms' \in 1..MaxFaults + 1
      BY <1>a, <1>b, <2>1, <2>2, <2>3, <3>1, <3>4
    <3>3. tombstone' = 0 /\ newRoom' = 0
      BY <2>1, <2>3, <3>1
    <3> QED BY <2>1, <2>3, <3>2, <3>3 DEF RoomsMade, Before, After, InTurn
  <2>4. CASE step = "tombstone"
    BY <2>1, <2>4 DEF RoomsMade, Before, After, InTurn
  <2>5. CASE step \notin {"create", "tombstone"}
    BY <2>1, <2>5 DEF RoomsMade
  <2> QED BY <2>3, <2>4, <2>5
<1>5. CASE Run /\ CallStep /\ (phase' = "served" => phase = "served") /\ UNCHANGED server
  <2>1. UNCHANGED <<step, upgraded, newRoom, rooms, tombstone>>
    BY <1>5 DEF Run
  <2>2. /\ served' = served /\ Attempt \in Nat /\ Attempt' \in Nat /\ Attempt' >= Attempt
        /\ phase' # "idle"
        /\ phase' \in {"prepare", "streaming", "sent"} =>
             phase \in {"prepare", "streaming", "sent"} \/ Attempt' > Attempt
    BY <1>5, StepMoves
  <2>3. step = "create" => /\ rooms <= Attempt'
                           /\ phase' \in {"idle", "prepare", "streaming", "sent"} => rooms < Attempt'
    BY <1>b, <2>2 DEF RoomsMade
  <2> QED BY <2>1, <2>2, <2>3 DEF RoomsMade
<1>6. CASE Continue
  <2>1. /\ phase = "done" /\ phase' = "idle" /\ served' = {} /\ Attempt' = 1
        /\ UNCHANGED <<rooms, tombstone>> /\ upgraded = "none" /\ step # "none"
    BY <1>6, StepsAre DEF Continue, Forget, Attempt, InTurn, Before, After
  <2>2. result = "success" /\ step \in {"create", "tombstone"} => served # {}
    <3>1. CASE result = "success" /\ step \in {"create", "tombstone"}
      <4>1. call \in Strict
        BY <2>1, <3>1, StepsAre DEF InTurn, Strict
      <4>2. Outcome = "success"
        BY <2>1, <3>1 DEF Calling, Explained
      <4> QED BY <2>1, <3>1, <4>1, <4>2, StrictSuccess DEF HasAnswer
    <3> QED BY <3>1
  <2>3. CASE Ends("raised") \/ Ends("error") \/ Ends("not_allowed")
    BY <2>1, <2>3 DEF Ends, RoomsMade, Before, After
  <2>4. CASE step = "whoami" /\ step' = "power" /\ UNCHANGED <<todo, newRoom, upgraded>>
    BY <2>1, <2>4 DEF RoomsMade, Before, After
  <2>5. CASE \/ step = "power" /\ Next_("state")
             \/ step = "state" /\ Next_("messages")
    BY <2>1, <2>5 DEF Next_, RoomsMade, Before, After
  <2>6. CASE step = "messages" /\ Next_("create")
    <3>1. rooms = 0 /\ newRoom = 0 /\ tombstone = 0
      BY <2>6 DEF RoomsMade, Before
    <3>2. 0 < Attempt' /\ 0 <= Attempt'
      BY <2>1
    <3> QED BY <1>a, <2>1, <2>6, <3>1, <3>2 DEF Next_, RoomsMade, Before, After
  <2>7. CASE step = "create" /\ result = "success" /\ newRoom' = rooms /\ step' = "tombstone" /\ upgraded' = upgraded
    <3>1. rooms # 0 /\ tombstone = 0
      BY <2>2, <2>7 DEF RoomsMade
    <3> QED BY <1>b, <2>1, <2>7, <3>1 DEF RoomsMade, Before, After
  <2>8. CASE step = "tombstone" /\ result = "success" /\ Next_("alias")
    BY <2>1, <2>2, <2>8 DEF Next_, RoomsMade, Before, After
  <2>9. CASE /\ step \in After
             /\ step' \in After \cup {"none"} /\ newRoom' = newRoom
             /\ step' = "none" => upgraded' = "success"
    BY <2>1, <2>9 DEF RoomsMade, Before, After
  <2> QED BY <1>6, ContinueSays, <2>1, <2>3, <2>4, <2>5, <2>6, <2>7, <2>8, <2>9
          DEF Ends, Next_, AfterAlias, After
<1> QED BY <1>1, <1>2, <1>3, <1>4, <1>5, <1>6 DEF Next, Run

LEMMA AliasesMovedKept == ASSUME Calling, Upgrading, Next PROVE AliasesMoved'
<1> USE AliasAssumption DEF locals, server, AliasesMove
<1> AliasesMoved /\ InTurn /\ UpgradeTyped
  BY DEF Upgrading
<1>b. step \in Before \cup {"create", "tombstone", "none"} \cup After
  BY StepsAre DEF UpgradeTyped
<1>1. CASE Start
  BY <1>1 DEF Start, AliasesMoved
<1>2. CASE (\E c \in Calls : Single(c)) \/ SingleEnds
  <2>1. step = "none" /\ UNCHANGED <<step, upgraded, todo, directory, listed, failed>>
    BY <1>2 DEF Single, SingleEnds
  <2> QED BY <2>1 DEF AliasesMoved
<1>3. CASE Due
  <2>1. UNCHANGED <<step, upgraded, todo, directory, listed, failed, served>>
    BY <1>3 DEF Due, Begin
  <2> QED BY <2>1 DEF AliasesMoved, Current
<1>4. CASE Run /\ Serve /\ ServerDoes
  <2>1. UNCHANGED <<step, upgraded, todo, failed>>
    BY <1>4 DEF Run
  <2>2. CASE step = "new_put"
    <3>1. Current \in todo /\ todo \subseteq Alias
      BY <2>2, CurrentIsLeft DEF AliasesMoved, UpgradeTyped
    <3>2. directory' = [directory EXCEPT ![Current] = "new"] /\ UNCHANGED listed
      BY <1>4, <2>2 DEF ServerDoes
    <3>3. directory'[Current] = "new" /\ \A a \in Alias \ todo : directory'[a] = directory[a]
      BY <3>1, <3>2 DEF UpgradeTyped
    <3> QED BY <2>1, <2>2, <3>2, <3>3 DEF AliasesMoved, Current, InTurn
  <2>3. CASE step = "new_event"
    <3>1. UNCHANGED directory /\ listed' = [listed EXCEPT !.new = Alias]
      BY <1>4, <2>3 DEF ServerDoes
    <3>2. listed'.new = Alias
      BY <3>1 DEF UpgradeTyped
    <3> QED BY <2>1, <2>3, <3>1, <3>2 DEF AliasesMoved, InTurn
  <2>4. CASE step \in {"old_delete", "old_event", "old_clear"}
    <3>1. listed'.new = listed.new
      BY <1>4, <2>4 DEF ServerDoes, UpgradeTyped
    <3> QED BY <2>1, <2>4, <3>1 DEF AliasesMoved, InTurn
  <2>5. CASE step \notin {"new_put", "new_event", "old_delete", "old_event", "old_clear"}
    <3>1. UNCHANGED <<directory, listed>>
      BY <1>4, <2>5 DEF ServerDoes
    <3> QED BY <2>1, <2>5, <3>1 DEF AliasesMoved
  <2> QED BY <2>2, <2>3, <2>4, <2>5
<1>5. CASE Run /\ CallStep /\ (phase' = "served" => phase = "served") /\ UNCHANGED server
  <2>1. UNCHANGED <<step, upgraded, todo, directory, listed, failed>>
    BY <1>5 DEF Run
  <2>2. served' = served
    BY <1>5, StepMoves DEF Calling
  <2> QED BY <2>1, <2>2 DEF AliasesMoved, Current
<1>6. CASE Continue
  <2>1. /\ served' = {} /\ UNCHANGED <<directory, listed>> /\ upgraded = "none" /\ step # "none"
        /\ failed' = (failed \/ (step \in {"old_get", "old_delete", "old_event", "old_clear", "new_put", "new_event"} /\ served = {}))
    BY <1>6, StepsAre DEF Continue, Forget, InTurn, Before, After
  <2>2. ~failed' => ~failed /\ (step = "new_put" => served # {})
    BY <2>1
  <2>3. CASE Ends("raised") \/ Ends("error") \/ Ends("not_allowed")
    BY <2>1, <2>3 DEF Ends, AliasesMoved
  <2>4. CASE step = "alias" /\ Ends("success")
    BY <2>1, <2>4 DEF Ends, AliasesMoved
  <2>5. CASE step = "new_event" /\ Ends("success")
    BY <2>1, <2>2, <2>5 DEF Ends, AliasesMoved
  <2>6. CASE /\ step # "new_event"
             /\ step' \notin {"none", "old_delete", "new_put", "new_event"} /\ upgraded' = upgraded
    BY <2>1, <2>6 DEF AliasesMoved
  <2>7. CASE /\ step # "new_event" /\ todo' = Alias /\ upgraded' = upgraded
             /\ step' \in {"old_delete", "new_put"}
    BY <2>1, <2>7 DEF AliasesMoved
  <2>8. CASE step = "old_delete" /\ AfterAlias("old_event")
    BY <2>1, <2>8 DEF AfterAlias, AliasesMoved
  <2>9. CASE step = "new_put" /\ AfterAlias("new_event")
    <3>1. todo' = todo \ {Current} /\ upgraded' = upgraded /\ step' = IF todo' = {} THEN "new_event" ELSE "new_put"
      BY <2>9 DEF AfterAlias, AliasesLeft
    <3>2. ~failed' => \A a \in Alias \ todo' : directory[a] = "new"
      BY <2>2, <2>9, <3>1 DEF AliasesMoved
    <3> QED BY <2>1, <2>9, <3>1, <3>2 DEF AliasesMoved
  <2> QED BY <1>6, ContinueSays, <2>1, <2>3, <2>4, <2>5, <2>6, <2>7, <2>8, <2>9
          DEF Next_
<1> QED BY <1>1, <1>2, <1>3, <1>4, <1>5, <1>6 DEF Next, Run

-----------------------------------------------------------------------------
(* The theorems.                                                           *)

LEMMA UpgradeStutters == Upgrading /\ UNCHANGED vars => Upgrading'
<1> SUFFICES ASSUME Upgrading, UNCHANGED vars PROVE Upgrading'
  OBVIOUS
<1> USE DEF vars, sending, locals, server
<1>1. UpgradeTyped' /\ InTurn'
  BY DEF Upgrading, UpgradeTyped, InTurn
<1>2. RoomsMade'
  BY DEF Upgrading, RoomsMade, Attempt
<1>3. AliasesMoved'
  BY DEF Upgrading, AliasesMoved, AliasesMove, Current
<1> QED BY <1>1, <1>2, <1>3 DEF Upgrading

\* What _send knows of a call and what room_upgrade knows of the upgrade fit what
\* the server has done, in every reachable state.
THEOREM Invariant == Spec => [](Calling /\ Upgrading)
<1>1. Init => Calling /\ Upgrading
  <2> SUFFICES ASSUME Init PROVE Calling /\ Upgrading
    OBVIOUS
  <2> USE LimitsAssumption, AliasAssumption DEF Init
  <2>1. Calling
    BY CallsStart
  <2>2. UpgradeTyped
    <3>1. power \in Power
      BY DEF NoPower, Power, Levels
    <3>2. directory \in [Alias -> {"old", "new", "none"}]
      OBVIOUS
    <3>3. listed = [r \in {"old", "new"} |-> IF r = "old" THEN Alias ELSE {}]
      OBVIOUS
    <3>4. listed \in [{"old", "new"} -> SUBSET Alias]
      BY <3>3
    <3>5. step = "none" /\ upgraded = "none" /\ whoFailed \in BOOLEAN /\ failed \in BOOLEAN /\ todo = {}
      OBVIOUS
    <3> HIDE DEF Init
    <3> QED BY <3>1, <3>2, <3>4, <3>5 DEF UpgradeTyped
  <2>3. InTurn /\ RoomsMade /\ AliasesMoved
    BY StepsAre DEF InTurn, RoomsMade, AliasesMoved, AliasesMove, Before, After
  <2> QED BY <2>1, <2>2, <2>3 DEF Upgrading
<1>2. Calling /\ Upgrading /\ [Next]_vars => (Calling /\ Upgrading)'
  <2>1. ASSUME Calling, Upgrading, Next PROVE (Calling /\ Upgrading)'
    <3>1. Calling'
      BY <2>1, NextIsCall, CallsKept, CallsStutter
    <3>2. Upgrading'
      BY <2>1, UpgradeTypedKept, InTurnKept, RoomsMadeKept, AliasesMovedKept DEF Upgrading
    <3> QED BY <3>1, <3>2
  <2>2. ASSUME Calling, Upgrading, UNCHANGED vars PROVE (Calling /\ Upgrading)'
    BY <2>2, CallsStutter, UpgradeStutters DEF vars
  <2> QED BY <2>1, <2>2
<1> QED BY <1>1, <1>2, PTL DEF Spec

\* A call keeps to its limits, does not make the server act again, succeeds only
\* when the server acted or the call cannot tell, and raises for known reasons.
THEOREM CallsKeepPromises == Spec => []CallPromise
<1>1. Calling /\ Upgrading => CallPromise
  BY PromiseFollows
<1> QED BY <1>1, Invariant, PTL

\* A successful upload has stored the whole file, with the keys returned, however
\* often it was started over.
THEOREM UploadsAreWhole == Spec => []UploadedWhole
<1>1. Calling /\ Upgrading => UploadedWhole
  BY PromiseFollows
<1> QED BY <1>1, Invariant, PTL

\* Whatever fails on the way, the old room is closed only in favour of a room
\* that exists, and an upgrade none of whose requests failed moves all aliases.
THEOREM UpgradesAreSound == Spec => []UpgradeSound
<1>1. Calling /\ Upgrading => UpgradeSound
  <2> SUFFICES ASSUME Calling, Upgrading PROVE UpgradeSound
    OBVIOUS
  <2>1. SendingTypeOK
    BY PromiseFollows DEF CallPromise
  <2>2. TypeOK
    BY <2>1, LimitsAssumption DEF Upgrading, UpgradeTyped, RoomsMade, TypeOK
  <2>3. OldRoomHasSuccessor /\ AliasesMove
    BY LimitsAssumption DEF Upgrading, RoomsMade, AliasesMoved, OldRoomHasSuccessor
  <2> QED BY <2>2, <2>3 DEF UpgradeSound
<1> QED BY <1>1, Invariant, PTL
=============================================================================
