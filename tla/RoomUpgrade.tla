----------------------------- MODULE RoomUpgrade -----------------------------
(***************************************************************************)
(* AsyncClient.room_upgrade with what it is made of: has_event_permission,  *)
(* room_create, room_put_state and room_update_aliases for the old and for  *)
(* the new room, a dozen requests one after the other, each of which is a   *)
(* call of Sending and may be refused, repeated or fail; and single calls.  *)
(*                                                                          *)
(* Left out: the state that is copied to the new room.  External: the room  *)
(* directory and the state of both rooms, which the homeserver keeps.       *)
(*                                                                          *)
(* A definition headed "Slip" is a wrong version of the one after it, for   *)
(* mutation tests of the properties; nothing uses it.                       *)
(***************************************************************************)
EXTENDS Sending

CONSTANTS
  Alias,    \* aliases of the old room
  Canonical \* its main alias
ASSUME AliasAssumption == Canonical \in Alias

VARIABLES
  step,      \* the request of the upgrade that is due, "none" without an upgrade
  power,     \* what m.room.power_levels of the old room says of the user and of a tombstone
  whoFailed, \* whoami did not return a WhoamiResponse
  todo,      \* aliases still to delete or to put
  newRoom,   \* the room that room_create returned, 0 if none
  rooms,     \* rooms the server has made for the upgrade
  tombstone, \* the replacement the tombstone of the old room names
  directory, \* room of each alias
  listed,    \* aliases that m.room.canonical_alias of each room names
  failed,    \* history: a request about an alias was not carried out
  upgraded   \* how the upgrade ended

server  == <<rooms, tombstone, directory, listed>>
locals  == <<step, whoFailed, todo, newRoom, upgraded>>
vars    == <<sending, locals, power, server, failed>>

\* "user": the user has a level of its own; otherwise "event": the event has one;
\* otherwise the defaults are too "low", "high" enough, or one is "absent".
Levels  == {"user", "event", "low", "high", "absent"}
Power   == [level : Levels, suffices : BOOLEAN]
NoPower == [level |-> "absent", suffices |-> FALSE]

Init ==
  /\ SendingInit
  /\ step = "none" /\ whoFailed = FALSE /\ todo = {} /\ newRoom = 0 /\ upgraded = "none"
  /\ power = NoPower
  /\ rooms = 0 /\ tombstone = 0 /\ failed = FALSE
  /\ directory = [a \in Alias |-> "old"]
  /\ listed = [old |-> Alias, new |-> {}]

-----------------------------------------------------------------------------
(* Which call is due, and what it does on the server.                      *)

CallOf == [whoami |-> whoami, power |-> room_get_state_event, state |-> room_get_state,
           messages |-> room_messages, create |-> room_create, tombstone |-> room_put_state,
           alias |-> room_get_state_event,
           old_get |-> room_get_state_event, old_delete |-> room_delete_alias, old_event |-> room_put_state, old_clear |-> room_put_state,
           new_get |-> room_get_state_event, new_put |-> room_put_alias, new_event |-> room_put_state]
Steps == DOMAIN CallOf

\* The alias that the call is about.
Current == CHOOSE a \in Alias : a \in todo

\* Whether the server does what it is asked: the user may close the room, the
\* alias is free, the new room has no aliases yet.
Permits ==
  CASE step = "tombstone" -> power.suffices
    [] step = "new_put"   -> directory[Current] = "none"
    [] step = "new_get"   -> FALSE
    [] OTHER -> TRUE

ServerDoes ==
  /\ rooms'     = IF step = "create" THEN rooms + 1 ELSE rooms
  /\ tombstone' = IF step = "tombstone" THEN newRoom ELSE tombstone
  /\ directory' = CASE step = "old_delete" -> [directory EXCEPT ![Current] = "none"]
                    [] step = "new_put"    -> [directory EXCEPT ![Current] = "new"]
                    [] OTHER -> directory
  /\ listed'    = CASE step = "old_event" -> [listed EXCEPT !.old = Alias \ {Canonical}]
                    [] step = "old_clear" -> [listed EXCEPT !.old = {}]
                    [] step = "new_event" -> [listed EXCEPT !.new = Alias]
                    [] OTHER -> listed

\* A step of the call that is running.
Run ==
  /\ \/ Serve /\ Permits /\ ServerDoes
     \/ CallStep /\ (phase' = "served" => phase = "served") /\ UNCHANGED server
  /\ UNCHANGED <<locals, power, failed>>

-----------------------------------------------------------------------------
(* The upgrade.                                                            *)

Start ==
  /\ phase = "idle" /\ step = "none" /\ upgraded = "none" /\ step' = "whoami"
  /\ power' \in Power
  /\ UNCHANGED <<sending, whoFailed, todo, newRoom, upgraded, server, failed>>

\* A call by itself: anything but an upgrade.
Single(c) == step = "none" /\ upgraded = "none" /\ Begin(c) /\ UNCHANGED <<locals, power, server, failed>>
Due       == step \in Steps /\ Begin(CallOf[step]) /\ UNCHANGED <<locals, power, server, failed>>
SingleEnds == step = "none" /\ Return /\ UNCHANGED <<locals, power, server, failed>>

\* The call of a step has ended: the next step, or the end of the upgrade.
Next_(s)      == step' = s /\ UNCHANGED <<whoFailed, todo, newRoom, upgraded>>
Ends(outcome) == step' = "none" /\ upgraded' = outcome /\ UNCHANGED <<whoFailed, todo, newRoom>>

Raised == result \notin {"success", "error"}
\* The content of a state event is what the server has, not an error body or a
\* page that passes for it.
GotContent == result = "success" /\ answer.status = 200

\* has_event_permission: a level of its own for the user, or for the event, makes
\* an ErrorResponse, which is as good as true.
Allowed == power.level \in {"user", "event", "high"}

AfterPower ==
  IF ~GotContent \/ whoFailed \/ power.level = "absent" THEN Ends("raised")
  ELSE IF Allowed THEN Next_("state") ELSE Ends("not_allowed")

\* new_aliases of room_update_aliases for the new room.
NewAliases == Alias

\* Slip: an alias is asked for again until the server does it.
UntilDone   == IF served = {} THEN todo ELSE todo \ {Current}
AliasesLeft == todo \ {Current}
\* room_update_aliases goes from alias to alias; a response about an alias is
\* never an error, and the error it returns is not the one that is looked for.
AfterAlias(event) ==
  /\ todo' = AliasesLeft
  /\ step' = IF todo' = {} THEN event ELSE step
  /\ UNCHANGED <<whoFailed, newRoom, upgraded>>

\* Slip: the room is closed before the new one is made.
CloseFirst == [state |-> "messages", messages |-> "tombstone", create |-> "alias"]
Order      == [state |-> "messages", messages |-> "create", create |-> "tombstone"]

Continue ==
  /\ phase = "done" /\ step \in Steps /\ Forget
  /\ UNCHANGED <<power, server>>
  /\ failed' = (failed \/ (step \in {"old_get", "old_delete", "old_event", "old_clear", "new_put", "new_event"} /\ served = {}))
  /\ CASE Raised -> Ends("raised")
       [] ~Raised /\ step = "whoami" ->
            step' = "power" /\ whoFailed' = (result = "error") /\ UNCHANGED <<todo, newRoom, upgraded>>
       [] ~Raised /\ step = "power" -> AfterPower
       [] ~Raised /\ step \in {"state", "messages"} ->
            IF result = "error" THEN Ends("error") ELSE Next_(Order[step])
       [] ~Raised /\ step = "create" ->
            IF result = "error" THEN Ends("error")
            ELSE newRoom' = rooms /\ step' = Order[step] /\ UNCHANGED <<whoFailed, todo, upgraded>>
       [] ~Raised /\ step = "tombstone" ->
            IF result = "error" THEN Ends("error") ELSE Next_("alias")
       [] ~Raised /\ step = "alias" ->
            IF GotContent THEN Next_("old_get")
            ELSE IF result = "error" THEN Ends("success") ELSE Ends("raised")
       [] ~Raised /\ step = "old_get" ->
            IF GotContent THEN todo' = Alias /\ step' = "old_delete" /\ UNCHANGED <<whoFailed, newRoom, upgraded>>
            ELSE IF result = "error" THEN Next_("old_clear") ELSE Ends("raised")
       [] ~Raised /\ step = "old_delete" -> AfterAlias("old_event")
       [] ~Raised /\ step \in {"old_event", "old_clear"} -> Next_("new_get")
       [] ~Raised /\ step = "new_get" ->
            IF result = "error"
            THEN todo' = NewAliases /\ step' = "new_put" /\ UNCHANGED <<whoFailed, newRoom, upgraded>>
            ELSE Ends("raised")
       [] ~Raised /\ step = "new_put" -> AfterAlias("new_event")
       [] ~Raised /\ step = "new_event" -> Ends("success")

Next == Start \/ (\E c \in Calls : Single(c)) \/ Due \/ Run \/ SingleEnds \/ Continue
Spec == Init /\ [][Next]_vars

\* The client and the server go on; who pauses an upload need not resume it.
UserWaits == monitor'.cancel = monitor.cancel /\ monitor'.pause = monitor.pause
Fairness == WF_vars(Due) /\ WF_vars(Continue) /\ WF_vars(Run /\ UserWaits)
FairSpec == Spec /\ Fairness

-----------------------------------------------------------------------------
(* Properties.                                                             *)

TypeOK ==
  /\ SendingTypeOK
  /\ step \in Steps \cup {"none"} /\ power \in Power /\ todo \subseteq Alias
  /\ rooms \in 0..MaxFaults + 1 /\ newRoom \in 0..rooms /\ tombstone \in 0..rooms
  /\ directory \in [Alias -> {"old", "new", "none"}] /\ listed \in [{"old", "new"} -> SUBSET Alias]
  /\ {whoFailed, failed} \subseteq BOOLEAN
  /\ upgraded \in {"none", "success", "not_allowed", "error", "raised"}

\* The old room is closed only in favour of a room that exists, and an upgrade
\* that succeeds has closed it in favour of the room it returns.
OldRoomHasSuccessor ==
  /\ rooms = 0 => tombstone = 0
  /\ upgraded = "success" => tombstone = newRoom /\ newRoom # 0

\* An upgrade that succeeds, and none of whose requests about aliases failed,
\* has moved all of them.
AliasesMove == upgraded = "success" /\ ~failed /\ listed.new # {} =>
                 (\A a \in Alias : directory[a] = "new") /\ listed.new = Alias

\* What an upgrade leaves behind when some of its requests fail.
UpgradeSound == TypeOK /\ OldRoomHasSuccessor /\ AliasesMove

\* An upgrade ends, whatever the server refuses on the way; so does an upload that
\* is cancelled, where timeouts have a limit.
UpgradeEnds == (step # "none" ~> step = "none") /\ CancelEndsLimited
=============================================================================
