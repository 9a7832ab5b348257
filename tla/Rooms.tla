------------------------------- MODULE Rooms -------------------------------
(***************************************************************************)
(* MatrixRoom: the members of a room, their display names, the summary and  *)
(* the counts and the group name that are computed from it.                 *)
(*                                                                          *)
(* Left out: the own user, who is a member all the time; avatars, presence, *)
(* power levels, receipts and the other attributes that each are assigned   *)
(* from one event.                                                          *)
(*                                                                          *)
(* A definition headed "Slip" is a wrong version of the one after it, for   *)
(* mutation tests of the properties; nothing uses it.                       *)
(***************************************************************************)
EXTENDS Naturals, FiniteSets

CONSTANTS
  User,      \* the other users
  Name,      \* display names
  NoName,    \* a display name of None
  Unchanged  \* an event whose content has no display name

ASSUME NamesAssumption == {NoName, Unchanged} \cap (Name \cup User) = {} /\ NoName # Unchanged

\* What a summary may leave out is a set of at most one value.
Unknown  == {}
Given(x) == {x}
ValueOf(field) == CHOOSE x \in field : TRUE

\* Member events; only what the server has for a membership of its own.
MemberEvent(u, membership, name) == [type |-> "member", user |-> u, membership |-> membership, name |-> name]

\* users, invited_users, names: how often a name lists a user.
Label == Name \cup User
EmptyRoom(encrypted) ==
  [users |-> <<>>, invited_users |-> {}, names |-> [l \in Label |-> [u \in User |-> 0]],
   summary |-> [joined |-> Unknown, invited |-> Unknown, heroes |-> Unknown],
   members_synced |-> FALSE, encrypted |-> encrypted]

Members(room) == DOMAIN room.users
\* MatrixUser.name
NameOf(u, display_name) == IF display_name = NoName THEN u ELSE display_name
LabelOf(room, u) == NameOf(u, room.users[u].display_name)

\* list.append and list.remove; removing what is not there raises.
Listed(room, label, u)   == [room EXCEPT !.names[label][u] = @ + 1]
Unlisted(room, label, u) == [room EXCEPT !.names[label][u] = IF @ = 0 THEN 0 ELSE @ - 1]

With(users, u, user) == [v \in DOMAIN users \cup {u} |-> IF v = u THEN user ELSE users[v]]
Without(users, u)    == [v \in DOMAIN users \ {u} |-> users[v]]

\* Content without a display name has None for a new member.
AddMember(room, u, name, invited) ==
  LET display_name == IF name = Unchanged THEN NoName ELSE name
  IN IF u \in Members(room) THEN room
     ELSE Listed([room EXCEPT !.users = With(@, u, [display_name |-> display_name, invited |-> invited]),
                              !.invited_users = IF invited THEN @ \cup {u} ELSE @],
                 NameOf(u, display_name), u)

\* The name of an invited user is removed twice, if it can be.
RemoveMember(room, u) ==
  LET label == LabelOf(room, u)
      once  == Unlisted(room, label, u)
      twice == IF u \in room.invited_users THEN Unlisted(once, label, u) ELSE once
  IN IF u \notin Members(room) THEN [room EXCEPT !.invited_users = @ \ {u}]
     ELSE [twice EXCEPT !.users = Without(@, u), !.invited_users = @ \ {u}]

\* Slip: the old name keeps listing the user.
RenamedToo(room, u, name) == Listed([room EXCEPT !.users[u].display_name = name], NameOf(u, name), u)
Renamed(room, u, name) ==
  Listed([Unlisted(room, LabelOf(room, u), u) EXCEPT !.users[u].display_name = name], NameOf(u, name), u)

\* handle_membership: an invitation of somebody who is listed as joined changes
\* nothing, because add_member does not.
HandleMembership(room, e) ==
  LET u == e.user
      invited == e.membership = "invite"
      moved == [room EXCEPT !.users[u].invited = invited,
                            !.invited_users = IF invited THEN @ ELSE @ \ {u}]
  IN CASE e.membership = "leave" -> RemoveMember(room, u)
       [] e.membership # "leave" /\ (u \notin Members(room) \/ (invited /\ u \notin room.invited_users)) ->
            AddMember(room, u, e.name, invited)
       [] OTHER -> IF e.name = Unchanged THEN moved ELSE Renamed(moved, u, e.name)

\* Slip: the new summary takes the place of the old one.
ReplaceSummary(room, summary) == [room EXCEPT !.summary = summary]
\* update_summary; a first summary is kept as it is.
UpdateSummary(room, summary) ==
  [room EXCEPT !.summary = [f \in DOMAIN @ |-> IF summary[f] = Unknown THEN @[f] ELSE summary[f]]]

-----------------------------------------------------------------------------
(* The response to joined_members.                                         *)

\* The rooms after a set of members has been removed or added; the order does
\* not matter.
Removed(room, gone) ==
  LET Left(u) == u \in gone
  IN [room EXCEPT !.users = [u \in Members(room) \ gone |-> room.users[u]],
                  !.invited_users = @ \ gone,
                  !.names = [l \in Label |-> [u \in User |->
                     IF Left(u) /\ u \in Members(room) /\ l = LabelOf(room, u) /\ @[l][u] > 0
                     THEN @[l][u] - 1 ELSE @[l][u]]]]
Added(room, joined) ==
  LET new == DOMAIN joined \ Members(room)
  IN [room EXCEPT !.users = [u \in Members(room) \cup new |->
                     IF u \in new THEN [display_name |-> joined[u], invited |-> FALSE] ELSE room.users[u]],
                  !.names = [l \in Label |-> [u \in User |->
                     IF u \in new /\ l = NameOf(u, joined[u]) THEN @[l][u] + 1 ELSE @[l][u]]]]

\* _handle_joined_members: who is invited stays.
HandleJoinedMembers(room, joined) ==
  LET gone == {u \in Members(room) \ DOMAIN joined : ~room.users[u].invited}
  IN [Added(Removed(room, gone), joined) EXCEPT !.members_synced = TRUE]

-----------------------------------------------------------------------------
(* What is computed from it.                                               *)

\* _summary_details does not raise.
Usable(room) == room.summary.joined # Unknown /\ room.summary.invited # Unknown
MemberCount(room) ==
  IF Usable(room) THEN ValueOf(room.summary.joined) + ValueOf(room.summary.invited) ELSE Cardinality(Members(room))
\* How many others group_name_structure counts besides the users it lists; the
\* own user is neither.
Heroes(room) == IF room.summary.heroes = Unknown THEN {} ELSE ValueOf(room.summary.heroes)
Listable == 5
Others(room) ==
  LET listed == IF Usable(room) THEN Cardinality(Heroes(room)) ELSE Listable
  IN IF listed < MemberCount(room) THEN MemberCount(room) - listed ELSE 0

\* The three collections agree: who is called what is listed under that name,
\* once, and invited_users are those who are marked as invited.
Consistent(room) ==
  /\ \A l \in Label, u \in User :
       room.names[l][u] = IF u \in Members(room) /\ LabelOf(room, u) = l THEN 1 ELSE 0
  /\ room.invited_users = {u \in Members(room) : room.users[u].invited}
=============================================================================
