-------------------------- MODULE MCHttpConnection --------------------------
EXTENDS HttpConnection

CONSTANTS r1, r2

Pair(a, b) == r1 :> a @@ r2 :> b
MCRequests == {r1, r2}
\* An event that is sent twice under the same transaction, two bodies that the
\* windows cut, and a request without a body.
MCSetups == {
  [call |-> Pair(room_send, room_send),      size |-> Pair(2, 2), tx |-> Pair(1, 1)],
  [call |-> Pair(delete_devices, room_send), size |-> Pair(2, 2), tx |-> Pair(1, 2)],
  [call |-> Pair(thumbnail, room_send),      size |-> Pair(0, 3), tx |-> Pair(1, 2)]}
=============================================================================
