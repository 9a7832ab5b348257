-------------------------------- MODULE Api --------------------------------
(***************************************************************************)
(* The requests of the client-server API.  Of a request its method is kept, *)
(* and whether its path names a transaction, by which the server knows a    *)
(* repetition.  Paths, parameters and bodies are left out.                  *)
(***************************************************************************)

Method(name) == [method |-> name, transaction |-> FALSE]
Get          == Method("GET")
Post         == Method("POST")
Put          == Method("PUT")
Delete       == Method("DELETE")
Transaction  == [method |-> "PUT", transaction |-> TRUE]

\* Repeating a request that reads, sets or removes something is the same as
\* making it once; a POST acts again each time.
Repeatable(request) == request.method # "POST"

-----------------------------------------------------------------------------
(* Accounts, devices, keys.                                               *)

discovery_info           == Get
login_info               == Get
register                 == Post
login                    == Post
login_raw                == Post
logout                   == Post
whoami                   == Get
get_openid_token         == Post
devices                  == Get
update_device            == Put
delete_devices           == Post
keys_upload              == Post
keys_query               == Post
keys_claim               == Post
to_device                == Transaction
-----------------------------------------------------------------------------
(* Syncing and rooms.                                                     *)

sync                     == Get
upload_filter            == Post
room_send                == Transaction
room_redact              == Transaction
room_put_state           == Put
room_get_event           == Get
room_get_event_relations == Get
room_get_threads         == Get
room_get_state           == Get
room_get_state_event     == Get
room_messages            == Get
room_context             == Get
room_create              == Post
join                     == Post
room_leave               == Post
room_forget              == Post
room_kick                == Post
room_ban                 == Post
room_unban               == Post
room_knock               == Post
room_invite              == Post
joined_members           == Get
joined_rooms             == Get
space_get_hierarchy      == Get
direct_room_list         == Get
room_typing              == Put
update_receipt_marker    == Post
room_read_markers        == Post
-----------------------------------------------------------------------------
(* Aliases and the room directory.                                        *)

room_resolve_alias       == Get
room_delete_alias        == Delete
room_put_alias           == Put
room_get_visibility      == Get
public_rooms(filtered)   == IF filtered THEN Post ELSE Get
-----------------------------------------------------------------------------
(* Profiles and presence.                                                 *)

profile_get              == Get
profile_get_displayname  == Get
profile_set_displayname  == Put
profile_get_avatar       == Get
profile_set_avatar       == Put
get_presence             == Get
set_presence             == Put
-----------------------------------------------------------------------------
(* Content and push rules.                                                *)

content_repository_config == Get
upload                   == Post
download                 == Get
thumbnail                == Get
set_pushrule             == Put
delete_pushrule          == Delete
enable_pushrule          == Put
set_pushrule_actions     == Put
=============================================================================
