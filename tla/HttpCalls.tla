------------------------------ MODULE HttpCalls ------------------------------
(***************************************************************************)
(* The methods of HttpClient that make one request, in the terms of         *)
(* ClientCalls, and what HttpClient makes of an answer.  Every one of them  *)
(* needs a connection first.                                                *)
(***************************************************************************)
A == INSTANCE Api
R == INSTANCE Responses
C == INSTANCE ClientCalls

login_info          == C!Call(A!login_info, R!LoginInfoResponse)
login               == C!Call(A!login, R!LoginResponse)
login_raw           == C!Call(A!login_raw, R!LoginResponse)
logout              == C!LoggedIn(A!logout, R!LogoutResponse)
room_send           == C!LoggedInAbout(A!room_send, R!RoomSendResponse)
room_put_state      == C!LoggedInAbout(A!room_put_state, R!RoomPutStateResponse)
room_redact         == C!LoggedInAbout(A!room_redact, R!RoomRedactResponse)
room_kick           == C!LoggedIn(A!room_kick, R!RoomKickResponse)
room_invite         == C!LoggedIn(A!room_invite, R!RoomInviteResponse)
room_create         == C!LoggedIn(A!room_create, R!RoomCreateResponse)
join                == C!LoggedIn(A!join, R!JoinResponse)
room_leave          == C!LoggedIn(A!room_leave, R!RoomLeaveResponse)
room_forget         == C!LoggedInAbout(A!room_forget, R!RoomForgetResponse)
room_messages       == C!LoggedInAbout(A!room_messages, R!RoomMessagesResponse)
room_typing         == C!LoggedInAbout(A!room_typing, R!RoomTypingResponse)
room_read_markers   == C!LoggedInAbout(A!room_read_markers, R!RoomReadMarkersResponse)
download            == C!Call(A!download, R!DownloadResponse)
thumbnail           == C!Call(A!thumbnail, R!ThumbnailResponse)
keys_upload         == C!WithStore(A!keys_upload, R!KeysUploadResponse)
keys_query          == C!WithStore(A!keys_query, R!KeysQueryResponse)
keys_claim          == C!WithStoreAbout(A!keys_claim, R!KeysClaimResponse)
share_group_session == C!WithStoreAbout(A!to_device, R!ShareGroupSessionResponse)
devices             == C!LoggedIn(A!devices, R!DevicesResponse)
update_device       == C!LoggedIn(A!update_device, R!UpdateDeviceResponse)
delete_devices      == C!LoggedIn(A!delete_devices, R!DeleteDevicesResponse)
joined_members      == C!LoggedInAbout(A!joined_members, R!JoinedMembersResponse)
get_profile         == C!Call(A!profile_get, R!ProfileGetResponse)
get_displayname     == C!Call(A!profile_get_displayname, R!ProfileGetDisplayNameResponse)
set_displayname     == C!LoggedIn(A!profile_set_displayname, R!ProfileSetDisplayNameResponse)
get_avatar          == C!Call(A!profile_get_avatar, R!ProfileGetAvatarResponse)
set_avatar          == C!LoggedIn(A!profile_set_avatar, R!ProfileSetAvatarResponse)
request_room_key    == C!WithStoreAbout(A!to_device, R!RoomKeyRequestResponse)
to_device           == C!WithStoreAbout(A!to_device, R!ToDeviceResponse)
sync                == C!LoggedIn(A!sync, R!SyncResponse)

\* logout is not among them: it ends in a call of a method that is not there.
Calls == {
  login_info, login, login_raw, room_send, room_put_state, room_redact, room_kick,
  room_invite, room_create, join, room_leave, room_forget, room_messages, room_typing,
  room_read_markers, download, thumbnail, keys_upload, keys_query, keys_claim,
  share_group_session, devices, update_device, delete_devices, joined_members,
  get_profile, get_displayname, set_displayname, get_avatar, set_avatar,
  request_room_key, to_device, sync}

-----------------------------------------------------------------------------
(* _create_response.                                                       *)

\* typed says whether the headers of the answer are known under bytes: without
\* them a body has no type, and an image is no image.
FileOf(class, answer, typed) ==
  CASE class.page  -> IF typed /\ answer.body = R!ErrorBody THEN "error" ELSE "success"
    [] ~class.page -> IF ~typed THEN "raises"
                      ELSE IF answer.body = R!FullBody(class) THEN "success" ELSE "error"

\* The answer of DeleteDevicesAuthResponse is made and then overwritten.
CreateResponse(call, answer, typed) ==
  LET class == call.response
      auth  == class.name = "delete_devices" /\ answer.status = 401
  IN CASE class.file -> FileOf(class, answer, typed)
       [] ~class.file /\ auth /\ R!ParseDict(R!DeleteDevicesAuthResponse, answer, call.given) = "raises" -> "raises"
       [] OTHER -> R!ParseDict(class, answer, call.given)
=============================================================================
