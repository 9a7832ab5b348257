----------------------------- MODULE ClientCalls -----------------------------
(***************************************************************************)
(* The methods of AsyncClient that make one request: which one, what its    *)
(* answer is parsed as, whether response_data is passed along, and what the *)
(* decorators ask for before anything is sent.                              *)
(***************************************************************************)
A == INSTANCE Api
R == INSTANCE Responses

Call(request, response) ==
  [request |-> request, response |-> response, given |-> FALSE, login |-> FALSE, store |-> FALSE]
CallAbout(request, response) == [Call(request, response) EXCEPT !.given = TRUE]
\* logged_in_async
LoggedIn(request, response)      == [Call(request, response) EXCEPT !.login = TRUE]
LoggedInAbout(request, response) == [LoggedIn(request, response) EXCEPT !.given = TRUE]
\* logged_in_async and store_loaded
WithStore(request, response)      == [LoggedIn(request, response) EXCEPT !.store = TRUE]
WithStoreAbout(request, response) == [WithStore(request, response) EXCEPT !.given = TRUE]

login_raw                  == Call(A!login_raw, R!LoginResponse)
register_interactive       == Call(A!register, R!RegisterInteractiveResponse)
register                   == Call(A!register, R!RegisterResponse)
discovery_info             == Call(A!discovery_info, R!DiscoveryInfoResponse)
login_info                 == Call(A!login_info, R!LoginInfoResponse)
login                      == Call(A!login, R!LoginResponse)
logout                     == LoggedIn(A!logout, R!LogoutResponse)
sync                       == LoggedIn(A!sync, R!SyncResponse)
to_device                  == LoggedInAbout(A!to_device, R!ToDeviceResponse)
keys_upload                == WithStore(A!keys_upload, R!KeysUploadResponse)
keys_query                 == WithStore(A!keys_query, R!KeysQueryResponse)
devices                    == LoggedIn(A!devices, R!DevicesResponse)
update_device              == LoggedIn(A!update_device, R!UpdateDeviceResponse)
delete_devices             == LoggedIn(A!delete_devices, R!DeleteDevicesResponse)
space_get_hierarchy        == LoggedIn(A!space_get_hierarchy, R!SpaceGetHierarchyResponse)
joined_members             == LoggedInAbout(A!joined_members, R!JoinedMembersResponse)
joined_rooms               == LoggedIn(A!joined_rooms, R!JoinedRoomsResponse)
room_send                  == LoggedInAbout(A!room_send, R!RoomSendResponse)
list_direct_rooms          == LoggedIn(A!direct_room_list, R!DirectRoomsResponse)
room_get_event             == LoggedIn(A!room_get_event, R!RoomGetEventResponse)
room_get_event_relations   == LoggedInAbout(A!room_get_event_relations, R!RoomEventRelationsResponse)
room_get_threads           == LoggedInAbout(A!room_get_threads, R!RoomThreadsResponse)
room_put_state             == LoggedInAbout(A!room_put_state, R!RoomPutStateResponse)
room_get_state             == LoggedInAbout(A!room_get_state, R!RoomGetStateResponse)
room_get_state_event       == LoggedInAbout(A!room_get_state_event, R!RoomGetStateEventResponse)
room_redact                == LoggedInAbout(A!room_redact, R!RoomRedactResponse)
room_resolve_alias         == CallAbout(A!room_resolve_alias, R!RoomResolveAliasResponse)
room_delete_alias          == LoggedInAbout(A!room_delete_alias, R!RoomDeleteAliasResponse)
room_put_alias             == LoggedInAbout(A!room_put_alias, R!RoomPutAliasResponse)
room_get_visibility        == CallAbout(A!room_get_visibility, R!RoomGetVisibilityResponse)
keys_claim                 == WithStore(A!keys_claim, R!KeysClaimResponse)
share_group_session        == WithStoreAbout(A!to_device, R!ShareGroupSessionResponse)
request_room_key           == WithStoreAbout(A!to_device, R!RoomKeyRequestResponse)
room_create                == LoggedIn(A!room_create, R!RoomCreateResponse)
join                       == LoggedIn(A!join, R!JoinResponse)
room_knock                 == LoggedIn(A!room_knock, R!RoomKnockResponse)
room_invite                == LoggedIn(A!room_invite, R!RoomInviteResponse)
room_leave                 == LoggedIn(A!room_leave, R!RoomLeaveResponse)
room_forget                == LoggedInAbout(A!room_forget, R!RoomForgetResponse)
room_kick                  == LoggedIn(A!room_kick, R!RoomKickResponse)
room_ban                   == LoggedIn(A!room_ban, R!RoomBanResponse)
room_unban                 == LoggedIn(A!room_unban, R!RoomUnbanResponse)
room_context               == LoggedInAbout(A!room_context, R!RoomContextResponse)
room_messages              == LoggedInAbout(A!room_messages, R!RoomMessagesResponse)
room_typing                == LoggedInAbout(A!room_typing, R!RoomTypingResponse)
update_receipt_marker      == LoggedIn(A!update_receipt_marker, R!UpdateReceiptMarkerResponse)
room_read_markers          == LoggedInAbout(A!room_read_markers, R!RoomReadMarkersResponse)
content_repository_config  == LoggedIn(A!content_repository_config, R!ContentRepositoryConfigResponse)
upload                     == LoggedIn(A!upload, R!UploadResponse)
download                   == Call(A!download, R!DownloadResponse)
thumbnail                  == Call(A!thumbnail, R!ThumbnailResponse)
get_profile                == Call(A!profile_get, R!ProfileGetResponse)
get_presence               == CallAbout(A!get_presence, R!PresenceGetResponse)
set_presence               == Call(A!set_presence, R!PresenceSetResponse)
get_displayname            == Call(A!profile_get_displayname, R!ProfileGetDisplayNameResponse)
set_displayname            == LoggedIn(A!profile_set_displayname, R!ProfileSetDisplayNameResponse)
get_avatar                 == Call(A!profile_get_avatar, R!ProfileGetAvatarResponse)
set_avatar                 == LoggedIn(A!profile_set_avatar, R!ProfileSetAvatarResponse)
get_openid_token           == LoggedIn(A!get_openid_token, R!GetOpenIDTokenResponse)
upload_filter              == LoggedIn(A!upload_filter, R!UploadFilterResponse)
whoami                     == LoggedIn(A!whoami, R!WhoamiResponse)
list_public_rooms(f)       == Call(A!public_rooms(f), R!PublicRoomsResponse)
set_pushrule               == LoggedIn(A!set_pushrule, R!SetPushRuleResponse)
delete_pushrule            == LoggedIn(A!delete_pushrule, R!DeletePushRuleResponse)
enable_pushrule            == LoggedIn(A!enable_pushrule, R!EnablePushRuleResponse)
set_pushrule_actions       == LoggedIn(A!set_pushrule_actions, R!SetPushRuleActionsResponse)
room_enable_knocking       == room_put_state
update_room_topic          == room_put_state

Calls == {
  login_raw, register_interactive, register, discovery_info, login_info, login, logout, sync,
  to_device, keys_upload, keys_query, devices, update_device, delete_devices, space_get_hierarchy,
  joined_members, joined_rooms, room_send, list_direct_rooms, room_get_event,
  room_get_event_relations, room_get_threads, room_put_state, room_get_state, room_get_state_event,
  room_redact, room_resolve_alias, room_delete_alias, room_put_alias, room_get_visibility,
  keys_claim, share_group_session, request_room_key, room_create, join, room_knock, room_invite,
  room_leave, room_forget, room_kick, room_ban, room_unban, room_context, room_messages,
  room_typing, update_receipt_marker, room_read_markers, content_repository_config, upload,
  download, thumbnail, get_profile, get_presence, set_presence, get_displayname, set_displayname,
  get_avatar, set_avatar, get_openid_token, upload_filter, whoami,
  list_public_rooms(TRUE), list_public_rooms(FALSE), set_pushrule, delete_pushrule,
  enable_pushrule, set_pushrule_actions}
=============================================================================
