------------------------------ MODULE Schemas ------------------------------
(***************************************************************************)
(* The schemas of the answers of a homeserver, as far as they tell one body *)
(* from another: a body is the set of its top-level fields, or an array.    *)
(***************************************************************************)

\* A schema asks for some fields, may forbid some, may forbid all others.
Needs(fields) == [required |-> fields, without |-> {}, closed |-> FALSE, array |-> FALSE]
Object(fields) == [fields |-> fields, array |-> FALSE]
Array          == [fields |-> {}, array |-> TRUE]

\* validate_json, with the validators of the keywords that are used.
Valid(body, schema) ==
  /\ body.array = schema.array
  /\ schema.required \subseteq body.fields
  /\ schema.without = {} \/ ~schema.without \subseteq body.fields
  /\ schema.closed => body.fields = {}

error                     == Needs({"error", "errcode"})
empty                     == [Needs({}) EXCEPT !.closed = TRUE]
register                  == Needs({"user_id", "device_id", "access_token"})
register_flows            == Needs({"flows", "params", "session"})
login                     == Needs({"user_id", "device_id", "access_token"})
login_info                == Needs({"flows"})
discovery_info            == Needs({"m.homeserver"})
whoami                    == Needs({"user_id"})
sync                      == Needs({"next_batch"})
joined_members            == Needs({"joined"})
joined_rooms              == Needs({"joined_rooms"})
content_repository_config == Needs({})
upload                    == Needs({"content_uri"})
room_event_id             == Needs({"event_id"})
room_id                   == Needs({"room_id"})
room_create_response      == Needs({"room_id"})
room_state                == [Needs({}) EXCEPT !.array = TRUE]
room_event                == Needs({"event_id", "sender", "type", "origin_server_ts"})
room_messages             == Needs({"chunk", "start"})
room_context              == Needs({"event"})
room_get_chunked_messages == Needs({"chunk"})
room_resolve_alias        == Needs({"room_id", "servers"})
room_get_visibility       == Needs({"visibility"})
space_hierarchy           == Needs({"rooms"})
public_rooms_response     == Needs({"chunk"})
get_openid_token          == Needs({"access_token", "expires_in", "matrix_server_name", "token_type"})
keys_upload               == Needs({"one_time_key_counts"})
keys_query                == Needs({"device_keys"})
keys_claim                == Needs({"one_time_keys"})
devices                   == Needs({"devices"})
delete_devices            == Needs({})
get_profile               == [Needs({}) EXCEPT !.without = {"errcode"}]
get_displayname           == Needs({"displayname"})
get_avatar                == Needs({"avatar_url"})
get_presence              == Needs({"presence"})
upload_filter             == Needs({"filter_id"})

\* A body that says all that a schema asks for, and the body of an error.
Complete(schema) == [fields |-> schema.required, array |-> schema.array]
ErrorBody        == Object(error.required)
\* What parse_body makes of a body that is not JSON.
NoBody           == Object({})
=============================================================================
