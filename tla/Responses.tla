----------------------------- MODULE Responses -----------------------------
(***************************************************************************)
(* The response classes: which bodies from_dict takes for a success, and    *)
(* what it makes of the others.  The HTTP status is not looked at, except   *)
(* by create_matrix_response as Parse says.                                 *)
(***************************************************************************)
EXTENDS Schemas

\* The error classes: whether from_dict needs an argument, and what ends up in
\* the attribute retry_after_ms.  ToDeviceError and ShareGroupSessionError give
\* their argument to the constructor in the place of it.
ErrorResponse          == [argument |-> FALSE, retry_after |-> "number"]
ErrorWithRoomId        == [argument |-> TRUE,  retry_after |-> "number"]
ToDeviceError          == [argument |-> TRUE,  retry_after |-> "argument"]
ShareGroupSessionError == [argument |-> TRUE,  retry_after |-> "argument"]

\* from_dict below the decorator verify, or validating by itself: the arguments
\* of the response are given to the error class or not; reads are fields that
\* are used without being asked for; page says whether a body that is no JSON
\* is the content asked for.
Verified(schema, errorClass, passArguments) ==
  [schema |-> schema, error |-> errorClass, passes |-> passArguments, reads |-> {},
   name |-> "any", file |-> FALSE, page |-> FALSE]
\* Every object is a success.
Unchecked               == Verified(Needs({}), ErrorResponse, FALSE)
EmptyResponse           == Verified(empty, ErrorResponse, FALSE)
EmptyResponseWithRoomId == Verified(empty, ErrorWithRoomId, TRUE)
FileResponse            == [Unchecked EXCEPT !.file = TRUE, !.page = TRUE]

-----------------------------------------------------------------------------
(* Accounts, devices, keys.                                               *)

DiscoveryInfoResponse           == Verified(discovery_info, ErrorResponse, TRUE)
RegisterResponse                == Verified(register, ErrorResponse, TRUE)
RegisterInteractiveResponse     == Verified(register_flows, ErrorResponse, TRUE)
LoginInfoResponse               == Verified(login_info, ErrorResponse, TRUE)
LoginResponse                   == Verified(login, ErrorResponse, TRUE)
LogoutResponse                  == Verified(empty, ErrorResponse, TRUE)
WhoamiResponse                  == Verified(whoami, ErrorResponse, TRUE)
GetOpenIDTokenResponse          == Verified(get_openid_token, ErrorResponse, TRUE)
DevicesResponse                 == Verified(devices, ErrorResponse, TRUE)
UpdateDeviceResponse            == EmptyResponse
DeleteDevicesResponse           == [EmptyResponse EXCEPT !.name = "delete_devices"]
DeleteDevicesAuthResponse       == [Verified(delete_devices, ErrorResponse, TRUE) EXCEPT !.reads = {"session", "flows", "params"}]
KeysUploadResponse              == Verified(keys_upload, ErrorResponse, TRUE)
KeysQueryResponse               == Verified(keys_query, ErrorResponse, TRUE)
KeysClaimResponse               == Verified(keys_claim, ErrorWithRoomId, TRUE)
ShareGroupSessionResponse       == Verified(empty, ShareGroupSessionError, TRUE)
RoomKeyRequestResponse          == Verified(empty, ErrorResponse, FALSE)
ToDeviceResponse                == Verified(empty, ToDeviceError, TRUE)
-----------------------------------------------------------------------------
(* Syncing and rooms.                                                     *)

SyncResponse                    == Verified(sync, ErrorResponse, FALSE)
UploadFilterResponse            == Verified(upload_filter, ErrorResponse, TRUE)
RoomEventIdResponse             == Verified(room_event_id, ErrorResponse, FALSE)
RoomSendResponse                == Verified(room_event_id, ErrorWithRoomId, TRUE)
RoomPutStateResponse            == Verified(room_event_id, ErrorWithRoomId, TRUE)
RoomRedactResponse              == Verified(room_event_id, ErrorWithRoomId, TRUE)
RoomGetEventResponse            == Verified(room_event, ErrorResponse, FALSE)
RoomEventRelationsResponse      == Verified(room_get_chunked_messages, ErrorResponse, FALSE)
RoomThreadsResponse             == Verified(room_get_chunked_messages, ErrorResponse, FALSE)
RoomGetStateResponse            == Verified(room_state, ErrorWithRoomId, TRUE)
RoomGetStateEventResponse       == [Unchecked EXCEPT !.name = "state_event"]
RoomMessagesResponse            == Verified(room_messages, ErrorWithRoomId, TRUE)
RoomContextResponse             == Verified(room_context, ErrorWithRoomId, TRUE)
RoomCreateResponse              == Verified(room_create_response, ErrorResponse, FALSE)
RoomIdResponse                  == Verified(room_id, ErrorResponse, FALSE)
JoinResponse                    == RoomIdResponse
RoomKnockResponse               == RoomIdResponse
RoomLeaveResponse               == EmptyResponse
RoomKickResponse                == EmptyResponse
RoomBanResponse                 == EmptyResponse
RoomUnbanResponse               == EmptyResponse
RoomInviteResponse              == EmptyResponse
UpdateReceiptMarkerResponse     == EmptyResponse
RoomForgetResponse              == EmptyResponseWithRoomId
RoomTypingResponse              == EmptyResponseWithRoomId
RoomReadMarkersResponse         == EmptyResponseWithRoomId
JoinedMembersResponse           == Verified(joined_members, ErrorWithRoomId, TRUE)
JoinedRoomsResponse             == Verified(joined_rooms, ErrorResponse, TRUE)
SpaceGetHierarchyResponse       == Verified(space_hierarchy, ErrorResponse, FALSE)
DirectRoomsResponse             == [Unchecked EXCEPT !.schema.without = {"errcode"}]
-----------------------------------------------------------------------------
(* Aliases and the room directory.                                        *)

RoomResolveAliasResponse        == Verified(room_resolve_alias, ErrorResponse, FALSE)
RoomDeleteAliasResponse         == Unchecked
RoomPutAliasResponse            == Unchecked
RoomGetVisibilityResponse       == Verified(room_get_visibility, ErrorResponse, FALSE)
PublicRoomsResponse             == Verified(public_rooms_response, ErrorResponse, TRUE)
-----------------------------------------------------------------------------
(* Profiles and presence.                                                 *)

ProfileGetResponse              == Verified(get_profile, ErrorResponse, TRUE)
ProfileGetDisplayNameResponse   == Verified(get_displayname, ErrorResponse, TRUE)
ProfileSetDisplayNameResponse   == EmptyResponse
ProfileGetAvatarResponse        == Verified(get_avatar, ErrorResponse, TRUE)
ProfileSetAvatarResponse        == EmptyResponse
PresenceGetResponse             == Verified(get_presence, ErrorResponse, FALSE)
PresenceSetResponse             == EmptyResponse
-----------------------------------------------------------------------------
(* Content and push rules.                                                *)

ContentRepositoryConfigResponse == Verified(content_repository_config, ErrorResponse, TRUE)
UploadResponse                  == Verified(upload, ErrorResponse, TRUE)
DownloadResponse                == FileResponse
ThumbnailResponse               == [FileResponse EXCEPT !.page = FALSE]
SetPushRuleResponse             == EmptyResponse
DeletePushRuleResponse          == EmptyResponse
EnablePushRuleResponse          == EmptyResponse
SetPushRuleActionsResponse      == EmptyResponse

-----------------------------------------------------------------------------
(* create_matrix_response.                                                 *)

Answer(status, body) == [status |-> status, body |-> body]
\* What the server answers to a request it has carried out.
FullBody(class) == IF class.file THEN Object({"file"}) ELSE Complete(class.schema)

\* from_dict: the class, its error class, or an exception of the parsing itself;
\* given says whether the caller passed response_data.
ParseDict(class, answer, given) ==
  CASE Valid(answer.body, class.schema) -> IF class.reads \subseteq answer.body.fields THEN "success" ELSE "raises"
    [] ~Valid(answer.body, class.schema) -> IF class.error.argument /\ ~(class.passes /\ given) THEN "raises" ELSE "error"

\* Files are taken as they are, unless they are JSON with an error status.
ParseFile(class, answer) ==
  CASE answer.body = NoBody    -> IF class.page THEN "success" ELSE "error"
    [] answer.body = ErrorBody -> "error"
    [] OTHER                   -> "success"

Parse(class, answer, given) ==
  CASE class.file -> ParseFile(class, answer)
    [] class.name = "state_event" /\ answer.status = 404 -> "error"
    [] class.name = "delete_devices" /\ answer.status = 401 -> ParseDict(DeleteDevicesAuthResponse, answer, given)
    [] OTHER -> ParseDict(class, answer, given)

\* What is in retry_after_ms afterwards: a number, nothing, or the argument.
RetryAfter(class, answer, given) ==
  IF answer.body = ErrorBody /\ Parse(class, answer, given) = "error" THEN class.error.retry_after ELSE "none"
=============================================================================
