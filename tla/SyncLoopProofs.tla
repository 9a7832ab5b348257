--------------------------- MODULE SyncLoopProofs ---------------------------
(***************************************************************************)
(* Proofs about SyncLoop and the rooms it keeps.                            *)
(***************************************************************************)
EXTENDS SyncLoop, FiniteSetTheorems, SequenceTheorems, WellFoundedInduction, TLAPS

-----------------------------------------------------------------------------
(* Rooms: each operation keeps users, invited_users and names in agreement. *)

Person == [display_name : Name \cup {NoName}, invited : BOOLEAN]

RoomTyped(r) ==
  /\ r = [users |-> r.users, invited_users |-> r.invited_users, names |-> r.names, summary |-> r.summary,
          members_synced |-> r.members_synced, encrypted |-> r.encrypted]
  /\ DOMAIN r.users \subseteq User /\ r.users \in [DOMAIN r.users -> Person]
  /\ r.names \in [Label -> [User -> Nat]]
Good(r) == RoomTyped(r) /\ Consistent(r)

LEMMA LabelsOfUsers ==
  ASSUME NEW u \in User, NEW name \in Name \cup {NoName}
  PROVE  NameOf(u, name) \in Label
BY DEF NameOf, Label

LEMMA LabelInRoom ==
  ASSUME NEW r, RoomTyped(r), NEW u \in Members(r)
  PROVE  u \in User /\ LabelOf(r, u) \in Label /\ r.users[u].display_name \in Name \cup {NoName}
BY LabelsOfUsers DEF RoomTyped, Members, LabelOf, Person

\* What users, invitations and names leave alone.
SameRest(a, b) == a.encrypted = b.encrypted /\ a.summary = b.summary
USE DEF SameRest

LEMMA EmptyRoomIsGood == \A b : Good(EmptyRoom(b)) /\ EmptyRoom(b).encrypted = b
BY DEF EmptyRoom, Good, RoomTyped, Consistent, Members

LEMMA ListedSays ==
  ASSUME NEW r, RoomTyped(r), NEW l \in Label, NEW u \in User
  PROVE  /\ RoomTyped(Listed(r, l, u))
         /\ Listed(r, l, u).users = r.users /\ Listed(r, l, u).invited_users = r.invited_users
         /\ SameRest(Listed(r, l, u), r)
         /\ \A k \in Label, v \in User :
              Listed(r, l, u).names[k][v] = IF k = l /\ v = u THEN r.names[k][v] + 1 ELSE r.names[k][v]
<1> DEFINE new == [r.names EXCEPT ![l] = [r.names[l] EXCEPT ![u] = r.names[l][u] + 1]]
<1>1. Listed(r, l, u) = [users |-> r.users, invited_users |-> r.invited_users, names |-> new,
                         summary |-> r.summary, members_synced |-> r.members_synced, encrypted |-> r.encrypted]
  <2>1. Listed(r, l, u) = [r EXCEPT !.names = new]
    BY DEF Listed
  <2> HIDE DEF new
  <2>2. [r EXCEPT !.names = new] = [[users |-> r.users, invited_users |-> r.invited_users, names |-> r.names,
          summary |-> r.summary, members_synced |-> r.members_synced, encrypted |-> r.encrypted] EXCEPT !.names = new]
    BY Zenon DEF RoomTyped
  <2> QED BY <2>1, <2>2
<1>2. /\ new \in [Label -> [User -> Nat]]
      /\ \A k \in Label, v \in User : new[k][v] = IF k = l /\ v = u THEN r.names[k][v] + 1 ELSE r.names[k][v]
  BY DEF RoomTyped
<1> HIDE DEF new
<1> QED BY <1>1, <1>2 DEF RoomTyped

LEMMA UnlistedSays ==
  ASSUME NEW r, RoomTyped(r), NEW l \in Label, NEW u \in User
  PROVE  /\ RoomTyped(Unlisted(r, l, u))
         /\ Unlisted(r, l, u).users = r.users /\ Unlisted(r, l, u).invited_users = r.invited_users
         /\ SameRest(Unlisted(r, l, u), r)
         /\ \A k \in Label, v \in User :
              Unlisted(r, l, u).names[k][v] =
                IF k = l /\ v = u /\ r.names[k][v] # 0 THEN r.names[k][v] - 1 ELSE r.names[k][v]
<1> DEFINE new == [r.names EXCEPT ![l] = [r.names[l] EXCEPT ![u] = IF r.names[l][u] = 0 THEN 0 ELSE r.names[l][u] - 1]]
<1>1. Unlisted(r, l, u) = [users |-> r.users, invited_users |-> r.invited_users, names |-> new,
                           summary |-> r.summary, members_synced |-> r.members_synced, encrypted |-> r.encrypted]
  <2>1. Unlisted(r, l, u) = [r EXCEPT !.names = new]
    BY DEF Unlisted
  <2> HIDE DEF new
  <2>2. [r EXCEPT !.names = new] = [[users |-> r.users, invited_users |-> r.invited_users, names |-> r.names,
          summary |-> r.summary, members_synced |-> r.members_synced, encrypted |-> r.encrypted] EXCEPT !.names = new]
    BY Zenon DEF RoomTyped
  <2> QED BY <2>1, <2>2
<1>2. /\ new \in [Label -> [User -> Nat]]
      /\ \A k \in Label, v \in User :
           new[k][v] = IF k = l /\ v = u /\ r.names[k][v] # 0 THEN r.names[k][v] - 1 ELSE r.names[k][v]
  BY DEF RoomTyped
<1> HIDE DEF new
<1> QED BY <1>1, <1>2 DEF RoomTyped

WithUsers(r, us, iv) == [r EXCEPT !.users = us, !.invited_users = iv]

LEMMA UsersSet ==
  ASSUME NEW r, RoomTyped(r), NEW us, DOMAIN us \subseteq User, us \in [DOMAIN us -> Person], NEW iv
  PROVE  /\ RoomTyped(WithUsers(r, us, iv))
         /\ WithUsers(r, us, iv).users = us /\ WithUsers(r, us, iv).invited_users = iv
         /\ WithUsers(r, us, iv).names = r.names /\ SameRest(WithUsers(r, us, iv), r)
<1> DEFINE n == WithUsers(r, us, iv)
<1>1. n = [[users |-> r.users, invited_users |-> r.invited_users, names |-> r.names, summary |-> r.summary,
            members_synced |-> r.members_synced, encrypted |-> r.encrypted]
           EXCEPT !.users = us, !.invited_users = iv]
  BY Zenon DEF RoomTyped, WithUsers
<1>2. n = [users |-> us, invited_users |-> iv, names |-> r.names, summary |-> r.summary,
           members_synced |-> r.members_synced, encrypted |-> r.encrypted]
  BY <1>1
<1>3. RoomTyped(n) /\ n.users = us /\ n.invited_users = iv /\ n.names = r.names /\ SameRest(n, r)
  <2> HIDE DEF n
  <2> QED BY <1>2 DEF RoomTyped
<1> QED BY <1>3

\* Who is on the lists of the room is told by users alone.
LEMMA NamesTold ==
  ASSUME NEW r, Good(r), NEW l \in Label, NEW u \in User
  PROVE  /\ u \in Members(r) => r.names[l][u] = IF LabelOf(r, u) = l THEN 1 ELSE 0
         /\ u \notin Members(r) => r.names[l][u] = 0
         /\ u \in r.invited_users <=> (u \in Members(r) /\ r.users[u].invited)
BY DEF Good, Consistent

LEMMA AddMemberIsGood ==
  ASSUME NEW r, Good(r), NEW u \in User, NEW name \in Name \cup {NoName, Unchanged}, NEW invited \in BOOLEAN
  PROVE  /\ Good(AddMember(r, u, name, invited)) /\ SameRest(AddMember(r, u, name, invited), r)
         /\ Members(AddMember(r, u, name, invited)) = Members(r) \cup {u}
         /\ \A v \in User : v \in AddMember(r, u, name, invited).invited_users <=>
              v \in r.invited_users \/ (v = u /\ invited /\ u \notin Members(r))
<1>1. CASE u \in Members(r)
  BY <1>1 DEF AddMember
<1>2. CASE u \notin Members(r)
  <2> DEFINE called == IF name = Unchanged THEN NoName ELSE name
             us     == With(r.users, u, [display_name |-> called, invited |-> invited])
             iv     == IF invited THEN r.invited_users \cup {u} ELSE r.invited_users
             base   == WithUsers(r, us, iv)
             label  == NameOf(u, called)
             new    == Listed(base, label, u)
  <2>1. AddMember(r, u, name, invited) = new
    BY <1>2 DEF AddMember, WithUsers
  <2>2. called \in Name \cup {NoName} /\ label \in Label
    BY LabelsOfUsers
  <2>3. /\ DOMAIN us = Members(r) \cup {u} /\ DOMAIN us \subseteq User
        /\ us[u] = [display_name |-> called, invited |-> invited]
        /\ \A v \in Members(r) : us[v] = r.users[v]
    BY <1>2 DEF With, Members, Good, RoomTyped
  <2>4. us \in [DOMAIN us -> Person]
    <3>1. us[u] \in Person /\ \A v \in Members(r) : us[v] \in Person
      BY <2>2, <2>3 DEF Person, Good, RoomTyped, Members
    <3>2. us = [v \in DOMAIN us |-> us[v]]
      BY DEF With
    <3> HIDE DEF us
    <3> QED BY <3>1, <3>2, <2>3
  <2> HIDE DEF us, iv, label
  <2>5. /\ RoomTyped(base) /\ base.users = us /\ base.invited_users = iv /\ base.names = r.names
        /\ SameRest(base, r)
    BY <2>3, <2>4, UsersSet DEF Good
  <2> HIDE DEF base
  <2>6. /\ RoomTyped(new) /\ new.users = us /\ new.invited_users = iv /\ SameRest(new, r)
        /\ \A k \in Label, v \in User :
             new.names[k][v] = IF k = label /\ v = u THEN r.names[k][v] + 1 ELSE r.names[k][v]
    BY <2>2, <2>5, ListedSays
  <2> HIDE DEF new
  <2>7. LabelOf(new, u) = label /\ \A v \in Members(r) : LabelOf(new, v) = LabelOf(r, v)
    BY <1>2, <2>3, <2>6 DEF LabelOf, label
  <2>8. ASSUME NEW k \in Label, NEW v \in User
        PROVE  new.names[k][v] = IF v \in Members(new) /\ LabelOf(new, v) = k THEN 1 ELSE 0
    BY <1>2, <2>3, <2>6, <2>7, NamesTold DEF Members
  <2>9. new.invited_users = {v \in Members(new) : new.users[v].invited}
    BY <1>2, <2>3, <2>6 DEF Members, Good, Consistent, iv
  <2>10. Good(new)
    BY <2>6, <2>8, <2>9 DEF Good, Consistent
  <2> QED BY <1>2, <2>1, <2>3, <2>6, <2>10 DEF Members, iv
<1> QED BY <1>1, <1>2

LEMMA RemoveMemberIsGood ==
  ASSUME NEW r, Good(r), NEW u \in User
  PROVE  /\ Good(RemoveMember(r, u)) /\ SameRest(RemoveMember(r, u), r)
         /\ Members(RemoveMember(r, u)) = Members(r) \ {u}
         /\ RemoveMember(r, u).invited_users = r.invited_users \ {u}
<1>1. CASE u \notin Members(r)
  <2> DEFINE new == WithUsers(r, r.users, r.invited_users \ {u})
  <2>1. /\ RoomTyped(new) /\ new.users = r.users /\ new.names = r.names /\ SameRest(new, r)
        /\ new.invited_users = r.invited_users \ {u}
    <3>1. RoomTyped(r) /\ DOMAIN r.users \subseteq User /\ r.users \in [DOMAIN r.users -> Person]
      BY DEF Good, RoomTyped
    <3> QED BY <3>1, UsersSet
  <2>2. [r EXCEPT !.invited_users = r.invited_users \ {u}] = new
    <3>1. [r EXCEPT !.users = r.users] = r
      BY DEF Good, RoomTyped
    <3> QED BY <3>1 DEF WithUsers
  <2>3. RemoveMember(r, u) = new
    BY <1>1, <2>2 DEF RemoveMember
  <2> HIDE DEF new
  <2> QED BY <1>1, <2>1, <2>3 DEF Good, Consistent, Members, LabelOf
<1>2. CASE u \in Members(r)
  <2> DEFINE label == LabelOf(r, u)
             once  == Unlisted(r, label, u)
             twice == IF u \in r.invited_users THEN Unlisted(once, label, u) ELSE once
             us    == Without(r.users, u)
             new   == WithUsers(twice, us, r.invited_users \ {u})
  <2>1. label \in Label
    BY <1>2, LabelInRoom DEF Good
  <2> HIDE DEF label
  <2>2. /\ RoomTyped(once) /\ once.users = r.users /\ once.invited_users = r.invited_users
        /\ SameRest(once, r)
        /\ \A k \in Label, v \in User : once.names[k][v] = IF v = u THEN 0 ELSE r.names[k][v]
    <3>1. /\ RoomTyped(once) /\ once.users = r.users /\ once.invited_users = r.invited_users
          /\ SameRest(once, r)
          /\ \A k \in Label, v \in User : once.names[k][v] =
               IF k = label /\ v = u /\ r.names[k][v] # 0 THEN r.names[k][v] - 1 ELSE r.names[k][v]
      BY <2>1, UnlistedSays DEF Good
    <3> HIDE DEF once
    <3> QED BY <1>2, <3>1, NamesTold DEF label
  <2> HIDE DEF once
  <2>3. /\ RoomTyped(twice) /\ twice.users = r.users /\ twice.invited_users = r.invited_users
        /\ SameRest(twice, r)
        /\ \A k \in Label, v \in User : twice.names[k][v] = IF v = u THEN 0 ELSE r.names[k][v]
    BY <2>1, <2>2, UnlistedSays
  <2>4. RemoveMember(r, u) = new
    BY <1>2, <2>3 DEF RemoveMember, label, once, WithUsers
  <2> HIDE DEF twice
  <2>5. /\ DOMAIN us = Members(r) \ {u} /\ DOMAIN us \subseteq User /\ us \in [DOMAIN us -> Person]
        /\ \A v \in DOMAIN us : us[v] = r.users[v]
    BY DEF Without, Members, Good, RoomTyped
  <2> HIDE DEF us
  <2>6. /\ RoomTyped(new) /\ new.users = us /\ new.names = twice.names /\ SameRest(new, r)
        /\ new.invited_users = r.invited_users \ {u}
    BY <2>3, <2>5, UsersSet
  <2> HIDE DEF new
  <2>7. ASSUME NEW k \in Label, NEW v \in User
        PROVE  new.names[k][v] = IF v \in Members(new) /\ LabelOf(new, v) = k THEN 1 ELSE 0
    BY <2>3, <2>5, <2>6, NamesTold DEF Members, LabelOf
  <2>8. new.invited_users = {v \in Members(new) : new.users[v].invited}
    BY <2>5, <2>6 DEF Members, Good, Consistent
  <2>9. Good(new)
    BY <2>6, <2>7, <2>8 DEF Good, Consistent
  <2> QED BY <2>4, <2>5, <2>6, <2>9 DEF Members
<1> QED BY <1>1, <1>2

LEMMA EventHasType ==
  ASSUME NEW e \in MemberEvents
  PROVE  /\ e.type = "member" /\ e.user \in User /\ e.membership \in {"join", "invite", "leave"}
         /\ e.name \in Name \cup {Unchanged}
BY DEF MemberEvents, MemberEvent

LEMMA RenamedIsGood ==
  ASSUME NEW r, Good(r), NEW u \in Members(r), NEW name \in Name \cup {NoName}
  PROVE  /\ Good(Renamed(r, u, name)) /\ SameRest(Renamed(r, u, name), r)
         /\ Members(Renamed(r, u, name)) = Members(r) /\ Renamed(r, u, name).invited_users = r.invited_users
<1> DEFINE before == LabelOf(r, u)
           off    == Unlisted(r, before, u)
           us     == [r.users EXCEPT ![u].display_name = name]
           base   == WithUsers(off, us, r.invited_users)
           label  == NameOf(u, name)
           new    == Listed(base, label, u)
<1>1. u \in User /\ before \in Label /\ label \in Label
  BY LabelInRoom, LabelsOfUsers DEF Good
<1>r. Renamed(r, u, name) = Listed([off EXCEPT !.users[u].display_name = name], label, u)
  BY DEF Renamed
<1> HIDE DEF label, before
<1>2. /\ RoomTyped(off) /\ off.users = r.users /\ off.invited_users = r.invited_users /\ SameRest(off, r)
      /\ \A k \in Label, v \in User : off.names[k][v] =
           IF k = before /\ v = u /\ r.names[k][v] # 0 THEN r.names[k][v] - 1 ELSE r.names[k][v]
  BY <1>1, UnlistedSays DEF Good
<1> HIDE DEF off
<1>3. \A k \in Label, v \in User : off.names[k][v] = IF v = u THEN 0 ELSE r.names[k][v]
  BY <1>1, <1>2, NamesTold DEF before
<1>4. /\ DOMAIN us = Members(r) /\ us \in [DOMAIN us -> Person] /\ DOMAIN us \subseteq User
      /\ us[u].display_name = name /\ us[u].invited = r.users[u].invited
      /\ \A v \in Members(r) \ {u} : us[v] = r.users[v]
  BY DEF Person, Good, RoomTyped, Members
<1>5. Renamed(r, u, name) = new
  <2>1. [off EXCEPT !.users[u].display_name = name] = [off EXCEPT !.users = us]
    BY <1>2
  <2>2. [off EXCEPT !.users = us] = base
    <3> HIDE DEF us
    <3>1. off = [users |-> off.users, invited_users |-> off.invited_users, names |-> off.names,
                 summary |-> off.summary, members_synced |-> off.members_synced, encrypted |-> off.encrypted]
      BY <1>2 DEF RoomTyped
    <3> QED BY <1>2, <3>1 DEF WithUsers
  <2> QED BY <1>r, <2>1, <2>2
<1> HIDE DEF us
<1>6. /\ RoomTyped(base) /\ base.users = us /\ base.invited_users = r.invited_users /\ base.names = off.names
      /\ SameRest(base, r)
  BY <1>2, <1>4, UsersSet
<1> HIDE DEF base
<1>7. /\ RoomTyped(new) /\ new.users = us /\ new.invited_users = r.invited_users /\ SameRest(new, r)
      /\ \A k \in Label, v \in User :
           new.names[k][v] = IF k = label /\ v = u THEN off.names[k][v] + 1 ELSE off.names[k][v]
  <2>1. u \in User /\ label \in Label /\ RoomTyped(base)
    BY <1>1, <1>6
  <2>2. /\ RoomTyped(new) /\ new.users = base.users /\ new.invited_users = base.invited_users
        /\ SameRest(new, base)
        /\ \A k \in Label, v \in User :
             new.names[k][v] = IF k = label /\ v = u THEN base.names[k][v] + 1 ELSE base.names[k][v]
    BY <2>1, ListedSays
  <2> HIDE DEF new
  <2> QED BY <1>6, <2>2
<1> HIDE DEF new
<1>8. /\ Members(new) = Members(r) /\ LabelOf(new, u) = label
      /\ \A v \in Members(r) \ {u} : LabelOf(new, v) = LabelOf(r, v)
  BY <1>4, <1>7 DEF Members, LabelOf, label
<1>9. ASSUME NEW k \in Label, NEW v \in User
      PROVE  new.names[k][v] = IF v \in Members(new) /\ LabelOf(new, v) = k THEN 1 ELSE 0
  <2>1. CASE v = u
    BY <1>3, <1>7, <1>8, <2>1
  <2>2. CASE v # u
    BY <1>3, <1>7, <1>8, <2>2, NamesTold
  <2> QED BY <2>1, <2>2
<1>10. new.invited_users = {v \in Members(new) : new.users[v].invited}
  <2>1. r.invited_users = {v \in Members(r) : r.users[v].invited}
    BY DEF Good, Consistent
  <2>2. \A v \in Members(r) : us[v].invited = r.users[v].invited
    BY <1>4
  <2> QED BY <1>7, <1>8, <2>1, <2>2
<1>11. Good(new)
  BY <1>7, <1>9, <1>10 DEF Good, Consistent
<1> QED BY <1>5, <1>7, <1>8, <1>11

\* After a member event its user is in the room as the event says, but for an
\* invitation of somebody who is listed as joined; nobody else is concerned.
LEMMA MembershipIsGood ==
  ASSUME NEW r, Good(r), NEW e \in MemberEvents
  PROVE  /\ Good(HandleMembership(r, e)) /\ SameRest(HandleMembership(r, e), r)
         /\ e.user \in Members(HandleMembership(r, e)) <=> e.membership # "leave"
         /\ ~Reinvites(r, e) =>
              (e.user \in HandleMembership(r, e).invited_users <=> e.membership = "invite")
         /\ \A v \in User \ {e.user} :
              /\ v \in Members(HandleMembership(r, e)) <=> v \in Members(r)
              /\ v \in HandleMembership(r, e).invited_users <=> v \in r.invited_users
<1> DEFINE u       == e.user
           invited == e.membership = "invite"
           us      == [r.users EXCEPT ![u].invited = invited]
           iv      == IF invited THEN r.invited_users ELSE r.invited_users \ {u}
           moved   == WithUsers(r, us, iv)
<1>0. /\ u \in User /\ e.membership \in {"join", "invite", "leave"}
      /\ e.name \in Name \cup {Unchanged}
  BY EventHasType
<1>1. CASE e.membership = "leave"
  <2>1. HandleMembership(r, e) = RemoveMember(r, u)
    BY <1>1 DEF HandleMembership
  <2> QED BY <1>0, <1>1, <2>1, RemoveMemberIsGood
<1>2. CASE e.membership # "leave" /\ (u \notin Members(r) \/ (invited /\ u \notin r.invited_users))
  <2>1. HandleMembership(r, e) = AddMember(r, u, e.name, invited)
    BY <1>2 DEF HandleMembership
  <2>2. e.name \in Name \cup {NoName, Unchanged} /\ invited \in BOOLEAN
    BY <1>0
  <2>3. Reinvites(r, e) <=> invited /\ u \in Members(r) \ r.invited_users
    BY EventHasType DEF Reinvites
  <2>4. r.invited_users \subseteq Members(r)
    BY DEF Good, Consistent
  <2> HIDE DEF u, invited
  <2>5. /\ Good(HandleMembership(r, e)) /\ SameRest(HandleMembership(r, e), r)
        /\ Members(HandleMembership(r, e)) = Members(r) \cup {u}
        /\ \A v \in User : v \in HandleMembership(r, e).invited_users <=>
             v \in r.invited_users \/ (v = u /\ invited /\ u \notin Members(r))
    <3> DEFINE new == AddMember(r, u, e.name, invited)
    <3>1. /\ Good(new) /\ SameRest(new, r)
          /\ Members(new) = Members(r) \cup {u}
          /\ \A v \in User : v \in new.invited_users <=>
               v \in r.invited_users \/ (v = u /\ invited /\ u \notin Members(r))
      BY <1>0, <2>2, AddMemberIsGood
    <3> HIDE DEF new
    <3> QED BY <2>1, <3>1 DEF new
  <2>6. ~Reinvites(r, e) => (u \in HandleMembership(r, e).invited_users <=> invited)
    BY <1>0, <1>2, <2>3, <2>4, <2>5
  <2> QED BY <1>2, <2>5, <2>6 DEF u, invited
<1>3. CASE e.membership # "leave" /\ u \in Members(r) /\ (invited => u \in r.invited_users)
  <2>1. /\ DOMAIN us = Members(r) /\ DOMAIN us \subseteq User /\ us \in [DOMAIN us -> Person]
        /\ us[u].display_name = r.users[u].display_name /\ us[u].invited = invited
        /\ \A v \in Members(r) \ {u} : us[v] = r.users[v]
    BY <1>0, <1>3 DEF Members, Good, RoomTyped, Person
  <2>2. HandleMembership(r, e) = IF e.name = Unchanged THEN moved ELSE Renamed(moved, u, e.name)
    BY <1>3 DEF HandleMembership, WithUsers
  <2>3. u \in iv <=> invited
    BY <1>3, <2>1
  <2>4. \A v \in User \ {u} : v \in iv <=> v \in r.invited_users
    OBVIOUS
  <2>i. iv \subseteq User
    BY DEF Good, Consistent, RoomTyped, Members
  <2> HIDE DEF us, iv, invited
  <2>5. /\ RoomTyped(moved) /\ moved.users = us /\ moved.invited_users = iv /\ moved.names = r.names
        /\ SameRest(moved, r)
    BY <2>1, UsersSet DEF Good
  <2> HIDE DEF moved
  <2>6. /\ Members(moved) = Members(r)
        /\ \A v \in Members(r) : LabelOf(moved, v) = LabelOf(r, v)
    BY <2>1, <2>5 DEF Members, LabelOf
  <2>7. Good(moved)
    <3>1. ASSUME NEW k \in Label, NEW v \in User
          PROVE  moved.names[k][v] = IF v \in Members(moved) /\ LabelOf(moved, v) = k THEN 1 ELSE 0
      BY <2>5, <2>6, NamesTold
    <3>2. iv = {v \in Members(moved) : us[v].invited}
      <4>1. ASSUME NEW v \in User PROVE v \in iv <=> (v \in Members(r) /\ us[v].invited)
        <5>1. CASE v = u
          BY <1>3, <2>1, <2>3, <5>1
        <5>2. CASE v # u
          BY <2>1, <2>4, <5>2, NamesTold DEF Good, Consistent
        <5> QED BY <5>1, <5>2
      <4>2. Members(r) \subseteq User
        BY DEF Good, RoomTyped, Members
      <4> QED BY <4>1, <4>2, <2>6, <2>i
    <3> QED BY <2>5, <3>1, <3>2 DEF Good, Consistent
  <2>m. /\ \A v \in User \ {u} : v \in iv <=> v \in r.invited_users
        /\ u \in iv <=> e.membership = "invite"
    BY <2>3, <2>4 DEF invited
  <2>8. CASE e.name = Unchanged
    BY <1>3, <2>2, <2>5, <2>6, <2>7, <2>8, <2>m
  <2>9. CASE e.name # Unchanged
    <3>1. u \in Members(moved) /\ e.name \in Name \cup {NoName}
      BY <1>0, <1>3, <2>6, <2>9
    <3> HIDE DEF u
    <3>2. /\ Good(Renamed(moved, u, e.name)) /\ SameRest(Renamed(moved, u, e.name), moved)
          /\ Members(Renamed(moved, u, e.name)) = Members(moved)
          /\ Renamed(moved, u, e.name).invited_users = moved.invited_users
      BY <2>7, <3>1, RenamedIsGood
    <3> QED BY <1>3, <2>2, <2>5, <2>6, <2>9, <2>m, <3>2 DEF u
  <2> QED BY <2>8, <2>9
<1> QED BY <1>0, <1>1, <1>2, <1>3

Replaced(r, us, iv, ns) ==
  [users |-> us, invited_users |-> iv, names |-> ns, summary |-> r.summary, members_synced |-> r.members_synced,
   encrypted |-> r.encrypted]

LEMMA RemovedIsGood ==
  ASSUME NEW r, Good(r), NEW gone \in SUBSET Members(r)
  PROVE  /\ Good(Removed(r, gone)) /\ SameRest(Removed(r, gone), r)
         /\ Members(Removed(r, gone)) = Members(r) \ gone
         /\ Removed(r, gone).invited_users = r.invited_users \ gone
<1> DEFINE us == [u \in Members(r) \ gone |-> r.users[u]]
           iv == r.invited_users \ gone
           ns == [l \in Label |-> [u \in User |->
                    IF u \in gone /\ u \in Members(r) /\ l = LabelOf(r, u) /\ r.names[l][u] > 0
                    THEN r.names[l][u] - 1 ELSE r.names[l][u]]]
           new == Replaced(r, us, iv, ns)
<1>1. Removed(r, gone) = new
  <2>1. Removed(r, gone) = [r EXCEPT !.users = us, !.invited_users = iv, !.names = ns]
    BY DEF Removed
  <2> HIDE DEF us, iv, ns
  <2>2. r = [users |-> r.users, invited_users |-> r.invited_users, names |-> r.names, summary |-> r.summary,
             members_synced |-> r.members_synced, encrypted |-> r.encrypted]
    BY DEF Good, RoomTyped
  <2> QED BY <2>1, <2>2 DEF Replaced
<1>2. /\ DOMAIN us = Members(r) \ gone /\ DOMAIN us \subseteq User /\ us \in [DOMAIN us -> Person]
      /\ \A u \in Members(r) \ gone : us[u] = r.users[u]
  BY DEF Members, Good, RoomTyped
<1>3. \A l \in Label, u \in User :
        /\ r.names[l][u] \in Nat
        /\ ns[l][u] = IF u \in gone /\ l = LabelOf(r, u) /\ r.names[l][u] > 0
                      THEN r.names[l][u] - 1 ELSE r.names[l][u]
  BY DEF Good, RoomTyped
<1>4. ns \in [Label -> [User -> Nat]]
  BY <1>3
<1> HIDE DEF us, ns, iv
<1>5. new = [users |-> us, invited_users |-> iv, names |-> ns, summary |-> r.summary,
             members_synced |-> r.members_synced, encrypted |-> r.encrypted]
  BY DEF Replaced
<1> HIDE DEF new
<1>6. RoomTyped(new) /\ Members(new) = Members(r) \ gone
  BY <1>2, <1>4, <1>5 DEF RoomTyped, Members
<1>7. \A u \in Members(new) : LabelOf(new, u) = LabelOf(r, u)
  BY <1>2, <1>5, <1>6 DEF LabelOf
<1>8. ASSUME NEW l \in Label, NEW u \in User
      PROVE  new.names[l][u] = IF u \in Members(new) /\ LabelOf(new, u) = l THEN 1 ELSE 0
  <2>1. new.names[l][u] = ns[l][u]
    BY <1>5
  <2>2. CASE u \in gone
    BY <1>3, <1>6, <2>1, <2>2, NamesTold
  <2>3. CASE u \notin gone
    BY <1>3, <1>6, <1>7, <2>1, <2>3, NamesTold
  <2> QED BY <2>2, <2>3
<1>9. new.invited_users = {u \in Members(new) : new.users[u].invited}
  BY <1>2, <1>5, <1>6 DEF Good, Consistent, iv
<1>10. Good(new)
  BY <1>6, <1>8, <1>9 DEF Good, Consistent
<1> QED BY <1>1, <1>5, <1>6, <1>10 DEF iv

LEMMA AddedIsGood ==
  ASSUME NEW r, Good(r), NEW joined, DOMAIN joined \subseteq User,
         \A u \in DOMAIN joined : joined[u] \in Name \cup {NoName}
  PROVE  /\ Good(Added(r, joined)) /\ SameRest(Added(r, joined), r)
         /\ Members(Added(r, joined)) = Members(r) \cup DOMAIN joined
         /\ Added(r, joined).invited_users = r.invited_users
<1> DEFINE more == DOMAIN joined \ Members(r)
           us   == [u \in Members(r) \cup more |->
                      IF u \in more THEN [display_name |-> joined[u], invited |-> FALSE] ELSE r.users[u]]
           ns   == [l \in Label |-> [u \in User |->
                      IF u \in more /\ l = NameOf(u, joined[u]) THEN r.names[l][u] + 1 ELSE r.names[l][u]]]
           new  == Replaced(r, us, r.invited_users, ns)
<1>1. Added(r, joined) = new
  <2>1. Added(r, joined) = [r EXCEPT !.users = us, !.names = ns]
    BY DEF Added
  <2> HIDE DEF us, ns
  <2>2. r = [users |-> r.users, invited_users |-> r.invited_users, names |-> r.names, summary |-> r.summary,
             members_synced |-> r.members_synced, encrypted |-> r.encrypted]
    BY DEF Good, RoomTyped
  <2> QED BY <2>1, <2>2 DEF Replaced
<1>2. /\ DOMAIN us = Members(r) \cup more /\ DOMAIN us \subseteq User
      /\ \A u \in more : us[u] = [display_name |-> joined[u], invited |-> FALSE]
      /\ \A u \in Members(r) : us[u] = r.users[u]
  BY DEF Members, Good, RoomTyped
<1>3. us \in [DOMAIN us -> Person]
  <2>1. \A u \in DOMAIN us : us[u] \in Person
    BY <1>2 DEF Members, Good, RoomTyped, Person
  <2>2. us = [u \in DOMAIN us |-> us[u]]
    OBVIOUS
  <2> HIDE DEF us
  <2> QED BY <2>1, <2>2
<1>4. \A l \in Label, u \in User :
        /\ r.names[l][u] \in Nat
        /\ ns[l][u] = IF u \in more /\ l = NameOf(u, joined[u]) THEN r.names[l][u] + 1 ELSE r.names[l][u]
  BY DEF Good, RoomTyped
<1>5. ns \in [Label -> [User -> Nat]]
  BY <1>4
<1> HIDE DEF us, ns
<1>6. new = [users |-> us, invited_users |-> r.invited_users, names |-> ns, summary |-> r.summary,
             members_synced |-> r.members_synced, encrypted |-> r.encrypted]
  BY DEF Replaced
<1> HIDE DEF new
<1>7. RoomTyped(new) /\ Members(new) = Members(r) \cup more
  BY <1>2, <1>3, <1>5, <1>6 DEF RoomTyped, Members
<1>8. /\ \A u \in Members(r) : LabelOf(new, u) = LabelOf(r, u)
      /\ \A u \in more : LabelOf(new, u) = NameOf(u, joined[u])
  <2> HIDE DEF more
  <2>1. \A u \in more : new.users[u].display_name = joined[u]
    BY <1>2, <1>6
  <2>2. \A u \in Members(r) : new.users[u] = r.users[u]
    BY <1>2, <1>6
  <2> QED BY <2>1, <2>2 DEF LabelOf
<1>9. ASSUME NEW l \in Label, NEW u \in User
      PROVE  new.names[l][u] = IF u \in Members(new) /\ LabelOf(new, u) = l THEN 1 ELSE 0
  <2>1. new.names[l][u] = ns[l][u]
    BY <1>6
  <2>2. CASE u \in more
    BY <1>4, <1>7, <1>8, <2>1, <2>2, NamesTold
  <2>3. CASE u \notin more
    BY <1>4, <1>7, <1>8, <2>1, <2>3, NamesTold
  <2> QED BY <2>2, <2>3
<1>10. new.invited_users = {u \in Members(new) : new.users[u].invited}
  <2> HIDE DEF more
  <2>1. r.invited_users = {u \in Members(r) : r.users[u].invited}
    BY DEF Good, Consistent
  <2>2. \A u \in more : new.users[u].invited = FALSE
    BY <1>2, <1>6
  <2>3. \A u \in Members(r) : new.users[u] = r.users[u]
    BY <1>2, <1>6
  <2> QED BY <1>6, <1>7, <2>1, <2>2, <2>3
<1>11. Good(new)
  BY <1>7, <1>9, <1>10 DEF Good, Consistent
<1> QED BY <1>1, <1>6, <1>7, <1>11

\* A members response leaves those who are in it and those who are invited.
LEMMA JoinedMembersIsGood ==
  ASSUME NEW r, Good(r), NEW joined, DOMAIN joined \subseteq User,
         \A u \in DOMAIN joined : joined[u] \in Name \cup {NoName}
  PROVE  /\ Good(HandleJoinedMembers(r, joined)) /\ SameRest(HandleJoinedMembers(r, joined), r)
         /\ Members(HandleJoinedMembers(r, joined)) = DOMAIN joined \cup r.invited_users
         /\ HandleJoinedMembers(r, joined).invited_users = r.invited_users
<1> DEFINE gone == {u \in Members(r) \ DOMAIN joined : ~r.users[u].invited}
           left == Removed(r, gone)
           now  == Added(left, joined)
           new  == [now EXCEPT !.members_synced = TRUE]
<1>0. /\ r.invited_users = {u \in Members(r) : r.users[u].invited}
      /\ gone \in SUBSET Members(r) /\ r.invited_users \cap gone = {}
      /\ (Members(r) \ gone) \cup DOMAIN joined = DOMAIN joined \cup r.invited_users
  BY DEF Good, Consistent
<1>d. HandleJoinedMembers(r, joined) = new
  BY DEF HandleJoinedMembers
<1> HIDE DEF gone
<1>1. /\ Good(left) /\ SameRest(left, r)
      /\ Members(left) = Members(r) \ gone /\ left.invited_users = r.invited_users
  BY <1>0, RemovedIsGood
<1> HIDE DEF left
<1>2. /\ Good(now) /\ SameRest(now, r)
      /\ Members(now) = DOMAIN joined \cup r.invited_users /\ now.invited_users = r.invited_users
  BY <1>0, <1>1, AddedIsGood
<1> HIDE DEF now
<1>4. new = [users |-> now.users, invited_users |-> now.invited_users, names |-> now.names, summary |-> now.summary,
             members_synced |-> TRUE, encrypted |-> now.encrypted]
  <2>1. now = [users |-> now.users, invited_users |-> now.invited_users, names |-> now.names,
               summary |-> now.summary, members_synced |-> now.members_synced, encrypted |-> now.encrypted]
    BY <1>2 DEF Good, RoomTyped
  <2>2. new = [[users |-> now.users, invited_users |-> now.invited_users, names |-> now.names,
                summary |-> now.summary, members_synced |-> now.members_synced, encrypted |-> now.encrypted]
               EXCEPT !.members_synced = TRUE]
    BY <2>1, Zenon
  <2> HIDE DEF new
  <2> QED BY <2>2
<1> HIDE DEF new
<1>5. SameRest(new, r) /\ RoomTyped(new)
  BY <1>2, <1>4 DEF Good, RoomTyped
<1>6. Consistent(new) /\ Members(new) = DOMAIN joined \cup r.invited_users /\ new.invited_users = r.invited_users
  BY <1>2, <1>4 DEF Good, Consistent, Members, LabelOf
<1> QED BY <1>d, <1>5, <1>6 DEF Good

-----------------------------------------------------------------------------
(* Numbers.  What a recursive function computes is proved by looking at the *)
(* least number it fails for.                                              *)

LEMMA LeastNumber ==
  ASSUME NEW T \in SUBSET Nat, T # {}
  PROVE  \E m \in T : \A k \in T : m <= k
<1>1. \E m \in T : \A k \in T : <<k, m>> \notin OpToRel(<, Nat)
  BY WFMin, NatLessThanWellFounded, Zenon
<1>2. PICK m \in T : \A k \in T : <<k, m>> \notin {ss \in Nat \X Nat : ss[1] < ss[2]}
  BY <1>1, Zenon DEF OpToRel
<1>3. ASSUME NEW k \in T PROVE ~(k < m)
  <2>1. <<k, m>> \in Nat \X Nat => ~(<<k, m>>[1] < <<k, m>>[2])
    BY <1>2, Zenon
  <2> QED BY <2>1
<1> QED BY <1>3

LEMMA LargestPosition ==
  ASSUME NEW n \in Nat, NEW S \in SUBSET (1..n), S # {}
  PROVE  Max(S) \in S /\ \A i \in S : i <= Max(S)
<1> DEFINE T == {n - k : k \in S}
<1>1. T \in SUBSET Nat /\ T # {}
  <2>1. \A k \in S : n - k \in Nat
    OBVIOUS
  <2> QED BY <2>1
<1>2. PICK m \in T : \A k \in T : m <= k
  BY <1>1, LeastNumber
<1>3. PICK k \in S : m = n - k
  BY <1>2
<1>4. \A j \in S : n - k <= n - j
  BY <1>2, <1>3
<1>5. \A j \in S : k >= j
  BY <1>4
<1> QED BY <1>5 DEF Max

-----------------------------------------------------------------------------
(* The events of a batch, one after the other.                             *)

Count == {Cardinality(S) : S \in SUBSET User}
Summaries == [type : {"summary"}, summary : [{"joined", "invited", "heroes"} -> SUBSET ((SUBSET User) \cup Count)]]
Item == MemberEvents \cup {[type |-> "encryption"]} \cup Summaries

\* What an item says, and what there is to say of a user in a room.
Fields == {"joined", "invited", "heroes"}
Gives(e, f)    == e.type = "summary" /\ e.summary[f] # Unknown
Concerns(e, u) == e.type = "member" /\ e.user = u
Placed(r, u, e) ==
  /\ u \in Members(r) <=> e.membership # "leave"
  /\ u \in r.invited_users <=> e.membership = "invite"
SamePlace(a, b, u) ==
  /\ u \in Members(a) <=> u \in Members(b)
  /\ u \in a.invited_users <=> u \in b.invited_users

LEMMA HandleIsGood ==
  ASSUME NEW r, Good(r), NEW e \in Item
  PROVE  /\ Good(Handle(r, e))
         /\ r.encrypted => Handle(r, e).encrypted
         /\ e.type = "encryption" => Handle(r, e).encrypted
         /\ \A u \in User : IF Concerns(e, u) THEN ~Reinvites(r, e) => Placed(Handle(r, e), u, e)
                                              ELSE SamePlace(Handle(r, e), r, u)
         /\ DOMAIN r.summary = Fields => DOMAIN Handle(r, e).summary = Fields
         /\ DOMAIN r.summary = Fields => \A f \in Fields :
              Handle(r, e).summary[f] = IF Gives(e, f) THEN e.summary[f] ELSE r.summary[f]
<1>0. r = [users |-> r.users, invited_users |-> r.invited_users, names |-> r.names, summary |-> r.summary,
           members_synced |-> r.members_synced, encrypted |-> r.encrypted]
  BY DEF Good, RoomTyped
<1>1. CASE e \in MemberEvents
  <2>1. e.type = "member"
    BY <1>1 DEF MemberEvents, MemberEvent
  <2>2. Handle(r, e) = HandleMembership(r, e) /\ \A f : ~Gives(e, f)
    BY <2>1 DEF Handle, Gives
  <2>3. /\ Good(Handle(r, e)) /\ SameRest(Handle(r, e), r)
        /\ e.user \in Members(Handle(r, e)) <=> e.membership # "leave"
        /\ ~Reinvites(r, e) => (e.user \in Handle(r, e).invited_users <=> e.membership = "invite")
        /\ \A v \in User \ {e.user} :
              /\ v \in Members(Handle(r, e)) <=> v \in Members(r)
              /\ v \in Handle(r, e).invited_users <=> v \in r.invited_users
    BY <1>1, <2>2, MembershipIsGood
  <2>4. ASSUME NEW u \in User
        PROVE  IF Concerns(e, u) THEN ~Reinvites(r, e) => Placed(Handle(r, e), u, e)
                                 ELSE SamePlace(Handle(r, e), r, u)
    BY <2>1, <2>3 DEF Concerns, Placed, SamePlace
  <2> QED BY <2>1, <2>2, <2>3, <2>4
<1>2. CASE e = [type |-> "encryption"]
  <2> DEFINE new == [r EXCEPT !.encrypted = TRUE]
  <2>1. Handle(r, e) = new
    BY <1>2 DEF Handle
  <2>2. new = [[users |-> r.users, invited_users |-> r.invited_users, names |-> r.names, summary |-> r.summary,
                members_synced |-> r.members_synced, encrypted |-> r.encrypted] EXCEPT !.encrypted = TRUE]
    BY <1>0, Zenon
  <2> HIDE DEF new
  <2>3. new = [users |-> r.users, invited_users |-> r.invited_users, names |-> r.names, summary |-> r.summary,
               members_synced |-> r.members_synced, encrypted |-> TRUE]
    BY <2>2
  <2>4. RoomTyped(new)
    BY <2>3 DEF Good, RoomTyped
  <2>5. Consistent(new)
    BY <2>3 DEF Good, Consistent, Members, LabelOf
  <2>6. /\ \A u : ~Concerns(e, u) /\ SamePlace(new, r, u)
        /\ \A f : ~Gives(e, f)
    BY <1>2, <2>3 DEF Concerns, SamePlace, Members, Gives
  <2>7. new.summary = r.summary /\ new.encrypted /\ Good(new)
    BY <2>3, <2>4, <2>5 DEF Good
  <2> HIDE DEF new
  <2> QED BY <2>1, <2>6, <2>7
<1>3. CASE e \in Summaries
  <2> DEFINE told == [f \in DOMAIN r.summary |-> IF e.summary[f] = Unknown THEN r.summary[f] ELSE e.summary[f]]
             new  == [r EXCEPT !.summary = told]
  <2>1. Handle(r, e) = new /\ e.type # "encryption"
    BY <1>3 DEF Handle, UpdateSummary, Summaries
  <2>t. DOMAIN r.summary = Fields =>
          /\ DOMAIN told = Fields
          /\ \A f \in Fields : told[f] = IF Gives(e, f) THEN e.summary[f] ELSE r.summary[f]
    BY <1>3 DEF Gives, Summaries
  <2> HIDE DEF told
  <2>2. new = [[users |-> r.users, invited_users |-> r.invited_users, names |-> r.names, summary |-> r.summary,
                members_synced |-> r.members_synced, encrypted |-> r.encrypted] EXCEPT !.summary = told]
    BY <1>0, Zenon
  <2> HIDE DEF new
  <2>3. new = [users |-> r.users, invited_users |-> r.invited_users, names |-> r.names, summary |-> told,
               members_synced |-> r.members_synced, encrypted |-> r.encrypted]
    BY <2>2
  <2>4. RoomTyped(new)
    BY <2>3 DEF Good, RoomTyped
  <2>5. Consistent(new)
    BY <2>3 DEF Good, Consistent, Members, LabelOf
  <2>6. \A u : ~Concerns(e, u) /\ SamePlace(new, r, u)
    BY <1>3, <2>3 DEF Summaries, Concerns, SamePlace, Members
  <2> QED BY <2>1, <2>3, <2>4, <2>5, <2>6, <2>t DEF Good
<1> QED BY <1>1, <1>2, <1>3 DEF Item

\* f is the room after each of the first n items of a batch.
After(f, room, batch, n) == f = [i \in 0..n |-> IF i = 0 THEN room ELSE Handle(f[i - 1], batch[i])]

LEMMA HandledInTurn ==
  ASSUME NEW room, NEW batch, Len(batch) \in Nat
  PROVE  \E f : After(f, room, batch, Len(batch)) /\ HandleAll(room, batch) = f[Len(batch)]
<1> DEFINE T == {n \in Nat : ~\E f : After(f, room, batch, n)}
<1>1. T = {}
  <2> SUFFICES ASSUME T # {} PROVE FALSE
    OBVIOUS
  <2>1. T \in SUBSET Nat
    OBVIOUS
  <2> HIDE DEF T
  <2>2. PICK n \in T : \A k \in T : n <= k
    BY <2>1, LeastNumber
  <2>3. n \in Nat /\ ~\E f : After(f, room, batch, n)
    BY <2>2 DEF T
  <2>4. CASE n = 0
    <3> DEFINE g == [i \in 0..0 |-> room]
    <3>1. After(g, room, batch, 0)
      BY DEF After
    <3> QED BY <2>3, <2>4, <3>1
  <2>5. CASE n # 0
    <3>1. n - 1 \in Nat /\ n - 1 \notin T
      BY <2>2, <2>3, <2>5
    <3>2. PICK f : After(f, room, batch, n - 1)
      BY <3>1 DEF T
    <3> DEFINE g == [i \in 0..n |-> IF i = n THEN Handle(f[n - 1], batch[n]) ELSE f[i]]
    <3>3. \A i \in 0..(n - 1) : f[i] = IF i = 0 THEN room ELSE Handle(f[i - 1], batch[i])
      BY <3>2, Zenon DEF After
    <3>4. ASSUME NEW i \in 0..n PROVE g[i] = IF i = 0 THEN room ELSE Handle(g[i - 1], batch[i])
      <4>1. CASE i = n
        BY <2>3, <2>5, <4>1
      <4>2. CASE i # n /\ i = 0
        BY <2>3, <2>5, <3>1, <3>3, <4>2
      <4>3. CASE i # n /\ i # 0
        <5>1. i \in 0..(n - 1) /\ i - 1 \in 0..n /\ i - 1 # n
          BY <2>3, <2>5, <4>3
        <5> QED BY <3>3, <4>3, <5>1
      <4> QED BY <4>1, <4>2, <4>3
    <3>5. g = [i \in 0..n |-> g[i]]
      OBVIOUS
    <3> HIDE DEF g
    <3>6. g = [i \in 0..n |-> IF i = 0 THEN room ELSE Handle(g[i - 1], batch[i])]
      BY <3>4, <3>5
    <3> QED BY <2>3, <3>6 DEF After
  <2> QED BY <2>4, <2>5
<1>2. \E f : After(f, room, batch, Len(batch))
  BY <1>1
<1> DEFINE chosen == CHOOSE f : f = [i \in 0..Len(batch) |-> IF i = 0 THEN room ELSE Handle(f[i - 1], batch[i])]
<1>3. After(chosen, room, batch, Len(batch))
  BY <1>2, Zenon DEF After
<1>4. HandleAll(room, batch) = chosen[Len(batch)]
  BY Zenon DEF HandleAll
<1> QED BY <1>3, <1>4

LEMMA HandleAllIsGood ==
  ASSUME NEW room, Good(room), NEW batch \in Seq(Item)
  PROVE  /\ Good(HandleAll(room, batch))
         /\ room.encrypted => HandleAll(room, batch).encrypted
         /\ (\E j \in DOMAIN batch : batch[j].type = "encryption") => HandleAll(room, batch).encrypted
<1>1. PICK f : After(f, room, batch, Len(batch)) /\ HandleAll(room, batch) = f[Len(batch)]
  BY HandledInTurn
<1> DEFINE N == Len(batch)
           Fine(i) == /\ Good(f[i])
                      /\ room.encrypted => f[i].encrypted
                      /\ \A j \in 1..i : batch[j].type = "encryption" => f[i].encrypted
           T == {i \in 0..N : ~Fine(i)}
<1>2. N \in Nat /\ DOMAIN batch = 1..N /\ \A i \in 1..N : batch[i] \in Item
  OBVIOUS
<1>3. \A i \in 0..N : f[i] = IF i = 0 THEN room ELSE Handle(f[i - 1], batch[i])
  BY <1>1, Zenon DEF After
<1> HIDE DEF N
<1>4. T = {}
  <2> SUFFICES ASSUME T # {} PROVE FALSE
    OBVIOUS
  <2>1. T \in SUBSET Nat
    BY <1>2
  <2> HIDE DEF T
  <2>2. PICK n \in T : \A k \in T : n <= k
    BY <2>1, LeastNumber
  <2>3. n \in 0..N /\ ~Fine(n)
    BY <2>2 DEF T
  <2>4. CASE n = 0
    <3>1. f[0] = room
      BY <1>2, <1>3
    <3> QED BY <2>3, <2>4, <3>1
  <2>5. CASE n # 0
    <3>1. n - 1 \in 0..N /\ n - 1 \notin T /\ n \in 1..N
      BY <1>2, <2>2, <2>3, <2>5
    <3>2. Fine(n - 1)
      BY <3>1 DEF T
    <3>3. f[n] = Handle(f[n - 1], batch[n])
      BY <1>3, <2>3, <2>5
    <3>4. /\ Good(f[n])
          /\ f[n - 1].encrypted => f[n].encrypted
          /\ batch[n].type = "encryption" => f[n].encrypted
      BY <1>2, <3>1, <3>2, <3>3, HandleIsGood
    <3>5. ASSUME NEW j \in 1..n, batch[j].type = "encryption" PROVE f[n].encrypted
      <4>1. CASE j = n
        BY <3>4, <3>5, <4>1
      <4>2. CASE j # n
        <5>1. j \in 1..(n - 1)
          BY <1>2, <2>3, <4>2
        <5> QED BY <3>2, <3>4, <3>5, <5>1
      <4> QED BY <4>1, <4>2
    <3> QED BY <2>3, <3>2, <3>4, <3>5
  <2> QED BY <2>4, <2>5
<1>5. Fine(N)
  BY <1>2, <1>4
<1> QED BY <1>1, <1>2, <1>5 DEF N

Says(batch, u) == \E k \in DOMAIN batch : Concerns(batch[k], u)
Sums(batch, f) == \E k \in DOMAIN batch : Gives(batch[k], f)
AllSay(batch, u, e)  == \A k \in DOMAIN batch : Concerns(batch[k], u) => batch[k] = e
AllGive(batch, f, x) == \A k \in DOMAIN batch : Gives(batch[k], f) => batch[k].summary[f] = x

\* When the events of a batch say the same of a user, this is what the room says
\* afterwards; and a field of the summary is what the batch has for it.
LEMMA BatchSays ==
  ASSUME NEW room, Good(room), DOMAIN room.summary = Fields, NEW batch \in Seq(Item),
         NEW u, NEW e, NEW g \in Fields, NEW x, AllSay(batch, u, e), AllGive(batch, g, x), ~Reinvites(room, e)
  PROVE  LET new == HandleAll(room, batch) IN
         /\ DOMAIN new.summary = Fields
         /\ u \in User /\ Says(batch, u) => Placed(new, u, e)
         /\ u \in User /\ ~Says(batch, u) => SamePlace(new, room, u)
         /\ Sums(batch, g) => new.summary[g] = x
         /\ ~Sums(batch, g) => new.summary[g] = room.summary[g]
<1>1. PICK f : After(f, room, batch, Len(batch)) /\ HandleAll(room, batch) = f[Len(batch)]
  BY HandledInTurn
<1> DEFINE N == Len(batch)
           Seen(i) == \/ SamePlace(f[i], room, u) /\ \A k \in 1..i : ~Concerns(batch[k], u)
                      \/ Placed(f[i], u, e) /\ \E k \in 1..i : Concerns(batch[k], u)
           There(i) == u \in User => Seen(i)
           Summed(i) == \/ f[i].summary[g] = room.summary[g] /\ \A k \in 1..i : ~Gives(batch[k], g)
                        \/ f[i].summary[g] = x /\ \E k \in 1..i : Gives(batch[k], g)
           Fine(i) == Good(f[i]) /\ DOMAIN f[i].summary = Fields /\ There(i) /\ Summed(i)
           T == {i \in 0..N : ~Fine(i)}
<1>2. N \in Nat /\ DOMAIN batch = 1..N /\ \A i \in 1..N : batch[i] \in Item
  OBVIOUS
<1>s. /\ \A k \in DOMAIN batch : Concerns(batch[k], u) => batch[k] = e
      /\ \A k \in DOMAIN batch : Gives(batch[k], g) => batch[k].summary[g] = x
  BY DEF AllSay, AllGive
<1>3. \A i \in 0..N : f[i] = IF i = 0 THEN room ELSE Handle(f[i - 1], batch[i])
  BY <1>1, Zenon DEF After
<1> HIDE DEF N
<1>4. T = {}
  <2> SUFFICES ASSUME T # {} PROVE FALSE
    OBVIOUS
  <2>1. T \in SUBSET Nat
    BY <1>2
  <2> HIDE DEF T
  <2>2. PICK n \in T : \A k \in T : n <= k
    BY <2>1, LeastNumber
  <2>3. n \in 0..N /\ ~Fine(n)
    BY <2>2 DEF T
  <2>4. CASE n = 0
    <3>1. f[0] = room
      BY <1>2, <1>3
    <3>2. SamePlace(room, room, u)
      BY DEF SamePlace
    <3> QED BY <2>3, <2>4, <3>1, <3>2
  <2>5. CASE n # 0
    <3>1. n - 1 \in 0..N /\ n - 1 \notin T /\ n \in 1..N /\ 1..n = (1..(n - 1)) \cup {n}
      BY <1>2, <2>2, <2>3, <2>5
    <3>2. Fine(n - 1)
      BY <3>1 DEF T
    <3> DEFINE r == f[n - 1]
               i == batch[n]
    <3>3. f[n] = Handle(r, i) /\ i \in Item /\ n \in DOMAIN batch
      BY <1>2, <1>3, <2>3, <2>5, <3>1
    <3>4. Good(r) /\ DOMAIN r.summary = Fields
      BY <3>2
    <3> HIDE DEF r
    <3>5. /\ Good(f[n]) /\ DOMAIN f[n].summary = Fields
          /\ u \in User => IF Concerns(i, u) THEN ~Reinvites(r, i) => Placed(f[n], u, i) ELSE SamePlace(f[n], r, u)
          /\ f[n].summary[g] = IF Gives(i, g) THEN i.summary[g] ELSE r.summary[g]
      <4> HIDE DEF i
      <4> DEFINE h == Handle(r, i)
      <4>1. /\ Good(h) /\ DOMAIN h.summary = Fields
            /\ u \in User => IF Concerns(i, u) THEN ~Reinvites(r, i) => Placed(h, u, i) ELSE SamePlace(h, r, u)
            /\ h.summary[g] = IF Gives(i, g) THEN i.summary[g] ELSE r.summary[g]
        BY <3>3, <3>4, HandleIsGood
      <4> HIDE DEF h
      <4> QED BY <3>3, <4>1 DEF h
    <3>6. Summed(n)
      <4>1. CASE Gives(i, g)
        <5>1. f[n].summary[g] = x
          BY <1>s, <3>3, <3>5, <4>1
        <5> QED BY <3>1, <4>1, <5>1
      <4>2. CASE ~Gives(i, g)
        <5>1. f[n].summary[g] = f[n - 1].summary[g]
          BY <3>5, <4>2 DEF r
        <5>2. Summed(n - 1)
          BY <3>2
        <5> QED BY <3>1, <4>2, <5>1, <5>2
      <4> QED BY <4>1, <4>2
    <3>7. There(n)
      <4> SUFFICES ASSUME u \in User PROVE Seen(n)
        OBVIOUS
      <4>0. Seen(n - 1)
        BY <3>2
      <4>1. CASE Concerns(i, u)
        <5>1. i = e /\ e.user = u
          BY <1>s, <3>3, <4>1 DEF Concerns
        <5>2. ~Reinvites(r, e)
          <6>1. CASE SamePlace(r, room, u)
            BY <5>1, <6>1 DEF Reinvites, SamePlace
          <6>2. CASE Placed(r, u, e)
            BY <5>1, <6>2 DEF Reinvites, Placed
          <6> QED BY <4>0, <6>1, <6>2 DEF r
        <5> QED BY <3>1, <3>5, <4>1, <5>1, <5>2
      <4>2. CASE ~Concerns(i, u)
        <5>1. SamePlace(f[n], f[n - 1], u)
          BY <3>5, <4>2 DEF r
        <5>2. CASE SamePlace(f[n - 1], room, u) /\ \A k \in 1..(n - 1) : ~Concerns(batch[k], u)
          <6>1. SamePlace(f[n], room, u)
            BY <5>1, <5>2 DEF SamePlace
          <6> QED BY <3>1, <4>2, <5>2, <6>1
        <5>3. CASE Placed(f[n - 1], u, e) /\ \E k \in 1..(n - 1) : Concerns(batch[k], u)
          <6>1. Placed(f[n], u, e)
            BY <5>1, <5>3 DEF SamePlace, Placed
          <6> QED BY <3>1, <5>3, <6>1
        <5> QED BY <4>0, <5>2, <5>3
      <4> QED BY <4>1, <4>2
    <3> HIDE DEF There, Seen, Summed
    <3> QED BY <2>3, <3>5, <3>6, <3>7
  <2> QED BY <2>4, <2>5
<1>5. Fine(N)
  BY <1>2, <1>4
<1>6. There(N) /\ Summed(N) /\ DOMAIN f[N].summary = Fields /\ HandleAll(room, batch) = f[N]
  BY <1>1, <1>5 DEF N
<1> QED BY <1>2, <1>6 DEF Says, Sums

-----------------------------------------------------------------------------
(* The answers of the homeserver.                                          *)

Stream == stream \in Seq(Events) /\ Len(stream) <= MaxEvents

LEMMA EventsHaveTypes ==
  /\ \A e \in MemberEvents : e.type = "member" /\ e.name \in Name \cup {Unchanged} /\ e.user \in User
  /\ \A e \in Events : e.type # "key" => e \in Item
  /\ \A e \in Events : e.type = "member" => e \in MemberEvents
  /\ \A e \in Events : e.type = "encryption" => e = [type |-> "encryption"]
BY DEF MemberEvents, MemberEvent, Events, Item

LEMMA StateIsAnEvent ==
  ASSUME Stream, NEW n \in 0..Len(stream), NEW u \in User
  PROVE  /\ StateOf(u, n) \in MemberEvents
         /\ About(u, n) # {} => \E i \in 1..n : StateOf(u, n) = stream[i]
<1>1. CASE About(u, n) = {}
  BY <1>1 DEF StateOf, MemberEvents
<1>2. CASE About(u, n) # {}
  <2>1. Len(stream) \in Nat /\ n \in Nat /\ About(u, n) \in SUBSET (1..n)
    BY DEF Stream, About
  <2>2. Max(About(u, n)) \in About(u, n)
    BY <1>2, <2>1, LargestPosition
  <2>3. PICK i \in About(u, n) : StateOf(u, n) = stream[i]
    BY <1>2, <2>2 DEF StateOf
  <2>4. i \in 1..n /\ stream[i].type = "member"
    BY DEF About
  <2>5. stream[i] \in Events
    BY <2>1, <2>4 DEF Stream
  <2> QED BY <2>3, <2>4, <2>5, EventsHaveTypes
<1> QED BY <1>1, <1>2

LEMMA NamesAreNames ==
  ASSUME Stream, NEW n \in 0..Len(stream), NEW u \in User
  PROVE  NameAt(u, n) \in Name \cup {NoName}
BY StateIsAnEvent, EventsHaveTypes DEF NameAt

\* A finite set as a sequence: its elements and nothing else.
LEMMA SetToSeqSays ==
  ASSUME NEW S, IsFiniteSet(S)
  PROVE  /\ SetToSeq(S) \in Seq(S)
         /\ \A x \in S : \E i \in DOMAIN SetToSeq(S) : SetToSeq(S)[i] = x
<1> DEFINE n == Cardinality(S)
           s == SetToSeq(S)
<1>1. n \in Nat /\ ExistsBijection(1..n, S)
  BY FS_CardinalityType
<1>2. \E f \in [1..n -> S] : IsInjective(f)
  <2>1. PICK f \in Bijection(1..n, S) : TRUE
    BY <1>1, Zenon DEF ExistsBijection
  <2>2. f \in [1..n -> S] /\ \A a, b \in 1..n : f[a] = f[b] => a = b
    BY <2>1, Zenon DEF Bijection, Injection, IsInjective
  <2>3. IsInjective(f)
    BY <2>2 DEF IsInjective
  <2> QED BY <2>2, <2>3
<1>3. s \in [1..n -> S] /\ IsInjective(s)
  BY <1>2, Zenon DEF SetToSeq
<1>4. s \in Injection(1..n, S)
  BY <1>3, Zenon DEF Injection, IsInjective
<1>5. Cardinality(1..n) = n /\ IsFiniteSet(1..n)
  BY <1>1, FS_Interval
<1>6. s \in Surjection(1..n, S)
  BY <1>4, <1>5, FS_Injection, Zenon
<1>7. \A x \in S : \E i \in 1..n : s[i] = x
  BY <1>6, Zenon DEF Surjection
<1> HIDE DEF s, n
<1> QED
  <2>1. s \in Seq(S) /\ DOMAIN s = 1..n
    BY <1>1, <1>3
  <2> QED BY <1>7, <2>1 DEF s

RoomEvent == MemberEvents \cup {[type |-> "encryption"]}

\* f is what the timeline from a position has come to at each later one.
Upto(f, m, n) ==
  f = [i \in 0..n |-> IF i <= m THEN <<>>
                      ELSE IF stream[i].type = "key" THEN f[i - 1] ELSE Append(f[i - 1], stream[i])]

LEMMA TimelineGrows ==
  ASSUME NEW m \in Nat, NEW n \in Nat
  PROVE  \E f : Upto(f, m, n) /\ Timeline(m, n) = f[n]
<1> DEFINE T == {k \in Nat : ~\E f : Upto(f, m, k)}
<1>1. T = {}
  <2> SUFFICES ASSUME T # {} PROVE FALSE
    OBVIOUS
  <2>1. T \in SUBSET Nat
    OBVIOUS
  <2> HIDE DEF T
  <2>2. PICK k \in T : \A j \in T : k <= j
    BY <2>1, LeastNumber
  <2>3. k \in Nat /\ ~\E f : Upto(f, m, k)
    BY <2>2 DEF T
  <2>4. CASE k = 0
    <3> DEFINE g == [i \in 0..0 |-> <<>>]
    <3>1. Upto(g, m, 0)
      BY DEF Upto
    <3> QED BY <2>3, <2>4, <3>1
  <2>5. CASE k # 0
    <3>1. k - 1 \in Nat /\ k - 1 \notin T
      BY <2>2, <2>3, <2>5
    <3>2. PICK f : Upto(f, m, k - 1)
      BY <3>1 DEF T
    <3> DEFINE Then(h, i) == IF i <= m THEN <<>>
                             ELSE IF stream[i].type = "key" THEN h[i - 1] ELSE Append(h[i - 1], stream[i])
               g == [i \in 0..k |-> IF i = k THEN Then(f, k) ELSE f[i]]
    <3>3. \A i \in 0..(k - 1) : f[i] = Then(f, i)
      BY <3>2, Zenon DEF Upto
    <3>4. ASSUME NEW i \in 0..k PROVE g[i] = Then(g, i)
      <4>1. CASE i = 0
        <5>1. Then(g, i) = <<>>
          BY <4>1
        <5>2. i # k /\ i \in 0..(k - 1) /\ Then(f, i) = <<>>
          BY <2>3, <2>5, <4>1
        <5> QED BY <3>3, <5>1, <5>2
      <4>2. CASE i # 0
        <5>1. i - 1 \in 0..k /\ i - 1 # k
          BY <2>3, <2>5, <4>2
        <5>2. g[i - 1] = f[i - 1]
          BY <5>1
        <5>3. Then(g, i) = Then(f, i)
          <6> HIDE DEF g
          <6> QED BY <5>2
        <5>4. g[i] = Then(f, i)
          <6>1. CASE i = k
            <7> HIDE DEF Then
            <7> QED BY <2>3, <6>1
          <6>2. CASE i # k
            <7>1. i \in 0..(k - 1) /\ g[i] = f[i]
              BY <2>3, <6>2
            <7> QED BY <3>3, <7>1
          <6> QED BY <6>1, <6>2
        <5> QED BY <5>3, <5>4
      <4> QED BY <4>1, <4>2
    <3>5. g = [i \in 0..k |-> g[i]]
      OBVIOUS
    <3> HIDE DEF g
    <3>6. Upto(g, m, k)
      BY <3>4, <3>5 DEF Upto
    <3> QED BY <2>3, <3>6
  <2> QED BY <2>4, <2>5
<1>2. \E f : Upto(f, m, n)
  BY <1>1
<1> DEFINE chosen == CHOOSE f : f = [i \in 0..n |-> IF i <= m THEN <<>>
                                                    ELSE IF stream[i].type = "key" THEN f[i - 1] ELSE Append(f[i - 1], stream[i])]
<1>3. Upto(chosen, m, n)
  BY <1>2, Zenon DEF Upto
<1>4. Timeline(m, n) = chosen[n]
  BY DEF Timeline
<1> QED BY <1>3, <1>4

\* The timeline has every event of the room after the position, and only those.
LEMMA TimelineSays ==
  ASSUME Stream, NEW m \in Nat, NEW n \in 0..Len(stream)
  PROVE  /\ Timeline(m, n) \in Seq(RoomEvent)
         /\ \A i \in (m + 1)..n : stream[i].type # "key" =>
              \E j \in DOMAIN Timeline(m, n) : Timeline(m, n)[j] = stream[i]
<1>1. Len(stream) \in Nat /\ n \in Nat
  BY DEF Stream
<1>2. PICK f : Upto(f, m, n) /\ Timeline(m, n) = f[n]
  BY <1>1, TimelineGrows
<1>3. \A i \in 0..n : f[i] = IF i <= m THEN <<>>
                             ELSE IF stream[i].type = "key" THEN f[i - 1] ELSE Append(f[i - 1], stream[i])
  BY <1>2, Zenon DEF Upto
<1> DEFINE Fine(k) == /\ f[k] \in Seq(RoomEvent)
                      /\ \A i \in (m + 1)..k : stream[i].type # "key" =>
                           \E j \in DOMAIN f[k] : f[k][j] = stream[i]
           T == {k \in 0..n : ~Fine(k)}
<1>4. T = {}
  <2> SUFFICES ASSUME T # {} PROVE FALSE
    OBVIOUS
  <2>1. T \in SUBSET Nat
    BY <1>1
  <2> HIDE DEF T
  <2>2. PICK k \in T : \A j \in T : k <= j
    BY <2>1, LeastNumber
  <2>3. k \in 0..n /\ ~Fine(k)
    BY <2>2 DEF T
  <2>4. CASE k <= m
    <3>1. f[k] = <<>>
      BY <1>3, <2>3, <2>4
    <3> QED BY <1>1, <2>3, <2>4, <3>1
  <2>5. CASE k > m
    <3>1. k - 1 \in 0..n /\ k - 1 \notin T /\ k \in 1..Len(stream)
      BY <1>1, <2>2, <2>3, <2>5
    <3>2. Fine(k - 1)
      BY <3>1 DEF T
    <3>3. CASE stream[k].type = "key"
      <4>1. f[k] = f[k - 1]
        BY <1>1, <1>3, <2>3, <2>5, <3>3
      <4>2. \A i \in (m + 1)..k : stream[i].type # "key" => i \in (m + 1)..(k - 1)
        BY <1>1, <2>3, <3>3
      <4> QED BY <2>3, <3>2, <4>1, <4>2
    <3>4. CASE stream[k].type # "key"
      <4>1. f[k] = Append(f[k - 1], stream[k])
        <5>1. k \in 0..n /\ ~(k <= m)
          BY <1>1, <2>3, <2>5
        <5> QED BY <1>3, <2>5, <3>4, <5>1, Zenon
      <4>2. stream[k] \in RoomEvent
        BY <3>1, <3>4 DEF Stream, Events, RoomEvent
      <4> DEFINE s == f[k - 1]
                 e == stream[k]
      <4>3. s \in Seq(RoomEvent)
        BY <3>2
      <4>4. \A i \in (m + 1)..(k - 1) : stream[i].type # "key" => \E j \in DOMAIN s : s[j] = stream[i]
        BY <3>2
      <4>5. f[k] = Append(s, e) /\ e \in RoomEvent
        BY <4>1, <4>2
      <4> HIDE DEF s
      <4>6. /\ f[k] \in Seq(RoomEvent)
            /\ \A j \in DOMAIN s : j \in DOMAIN f[k] /\ f[k][j] = s[j]
            /\ Len(s) + 1 \in DOMAIN f[k] /\ f[k][Len(s) + 1] = e
        BY <4>3, <4>5
      <4>7. ASSUME NEW i \in (m + 1)..k, stream[i].type # "key"
            PROVE  \E j \in DOMAIN f[k] : f[k][j] = stream[i]
        <5>1. CASE i = k
          BY <4>6, <5>1
        <5>2. CASE i # k
          <6>1. i \in (m + 1)..(k - 1)
            BY <1>1, <2>3, <5>2
          <6>2. PICK j \in DOMAIN s : s[j] = stream[i]
            BY <4>4, <4>7, <6>1
          <6> QED BY <4>6, <6>2
        <5> QED BY <5>1, <5>2
      <4> QED BY <2>3, <4>6, <4>7
    <3> QED BY <3>3, <3>4
  <2> QED BY <1>1, <2>3, <2>4, <2>5
<1>5. Fine(n)
  BY <1>1, <1>4
<1> QED BY <1>2, <1>5

KeyBatch(i) == <<[type |-> "key", at |-> i]>>
KeyBatches  == {KeyBatch(i) : i \in 1..MaxEvents}
RoomBatches == Seq(Item) \ {<<>>}
Batches     == KeyBatches \cup RoomBatches
Tells(steps) == \E j \in DOMAIN steps : \E k \in DOMAIN steps[j] : steps[j][k].type = "encryption"

LEMMA ToDeviceSays ==
  ASSUME Stream, NEW m \in Nat, NEW n \in 0..Len(stream)
  PROVE  /\ ToDevice(m, n) \in Seq(KeyBatches)
         /\ \A i \in (m + 1)..n : stream[i].type = "key" =>
              \E j \in DOMAIN ToDevice(m, n) : ToDevice(m, n)[j] = KeyBatch(i)
<1> DEFINE keys == {i \in (m + 1)..n : stream[i].type = "key"}
           S    == {KeyBatch(i) : i \in keys}
<1>1. Len(stream) \in Nat /\ n \in Nat /\ n <= MaxEvents /\ MaxEvents \in Nat
  BY BoundsAssumption DEF Stream
<1>2. keys \in SUBSET (1..MaxEvents)
  BY <1>1
<1>3. IsFiniteSet(keys)
  <2>1. IsFiniteSet(1..MaxEvents)
    BY <1>1, FS_Interval
  <2> QED BY <1>2, <2>1, FS_Subset
<1> HIDE DEF keys
<1>4. IsFiniteSet(S)
  <2> DEFINE f == [i \in keys |-> KeyBatch(i)]
  <2>1. f \in [keys -> S] /\ \A x \in S : \E i \in keys : f[i] = x
    OBVIOUS
  <2>2. f \in Surjection(keys, S)
    BY <2>1, Zenon DEF Surjection
  <2> HIDE DEF f, S
  <2> QED BY <1>3, <2>2, FS_Surjection
<1>5. S \subseteq KeyBatches
  BY <1>2 DEF KeyBatches
<1>6. ToDevice(m, n) = SetToSeq(S)
  BY DEF ToDevice, keys, KeyBatch
<1> DEFINE s == ToDevice(m, n)
<1>7. s \in Seq(S) /\ \A x \in S : \E j \in DOMAIN s : s[j] = x
  <2> HIDE DEF S
  <2> QED BY <1>4, <1>6, SetToSeqSays
<1>8. \A i \in keys : KeyBatch(i) \in S
  OBVIOUS
<1> HIDE DEF S, s
<1>9. s \in Seq(KeyBatches)
  BY <1>5, <1>7
<1>10. \A i \in keys : \E j \in DOMAIN s : s[j] = KeyBatch(i)
  BY <1>7, <1>8
<1> QED BY <1>9, <1>10 DEF s, keys

LEMMA SummariesAreItems ==
  ASSUME NEW m, NEW n
  PROVE  Summary(m, n) \in Summaries
<1>1. JoinedAt(n) \in SUBSET User /\ InvitedAt(n) \in SUBSET User
  BY DEF JoinedAt, InvitedAt
<1>2. \A f \in {"joined", "invited", "heroes"} : SummaryAt(n)[f] \in (SUBSET User) \cup Count
  <2>1. Cardinality(JoinedAt(n)) \in Count /\ Cardinality(InvitedAt(n)) \in Count
    BY <1>1, Zenon DEF Count
  <2>2. /\ SummaryAt(n)["joined"] = Cardinality(JoinedAt(n)) /\ SummaryAt(n)["heroes"] = JoinedAt(n)
        /\ SummaryAt(n)["invited"] = Cardinality(InvitedAt(n))
    BY DEF SummaryAt
  <2> QED BY <1>1, <2>1, <2>2
<1>3. SummarySince(m, n) \in [{"joined", "invited", "heroes"} -> SUBSET ((SUBSET User) \cup Count)]
  BY <1>2 DEF SummarySince, Unknown, Given
<1> QED BY <1>3 DEF Summary, Summaries

LEMMA FullStateSays ==
  ASSUME Stream, NEW n \in 0..Len(stream)
  PROVE  /\ FullState(n) \in Seq(RoomEvent)
         /\ EncryptedAt(n) => \E j \in DOMAIN FullState(n) : FullState(n)[j].type = "encryption"
         /\ \A u \in User : About(u, n) # {} => \E j \in DOMAIN FullState(n) : FullState(n)[j] = StateOf(u, n)
         /\ \A j \in DOMAIN FullState(n) :
              \/ FullState(n)[j].type = "encryption"
              \/ \E u \in User : About(u, n) # {} /\ FullState(n)[j] = StateOf(u, n)
<1> DEFINE known == {v \in User : About(v, n) # {}}
           P == {StateOf(u, n) : u \in known}
           R == {stream[i] : i \in 1..n}
           E == IF EncryptedAt(n) THEN {[type |-> "encryption"]} ELSE {}
           S == P \cup E
<1>1. Len(stream) \in Nat /\ n \in Nat
  BY DEF Stream
<1>2. IsFiniteSet(R)
  <2> DEFINE f == [i \in 1..n |-> stream[i]]
  <2>1. f \in [1..n -> R] /\ \A x \in R : \E i \in 1..n : f[i] = x
    OBVIOUS
  <2>2. f \in Surjection(1..n, R)
    BY <2>1, Zenon DEF Surjection
  <2>3. IsFiniteSet(1..n)
    BY <1>1, FS_Interval
  <2> HIDE DEF f, R
  <2> QED BY <2>2, <2>3, FS_Surjection
<1>3. P \in SUBSET R /\ P \subseteq MemberEvents
  BY StateIsAnEvent
<1>4. IsFiniteSet(P)
  <2> HIDE DEF P, R
  <2> QED BY <1>2, <1>3, FS_Subset
<1>5. IsFiniteSet(S)
  <2> HIDE DEF P
  <2>1. CASE EncryptedAt(n)
    <3>1. S = P \cup {[type |-> "encryption"]}
      BY <2>1
    <3> HIDE DEF S
    <3> QED BY <1>4, <3>1, FS_AddElement
  <2>2. CASE ~EncryptedAt(n)
    <3>1. S = P
      BY <2>2
    <3> QED BY <1>4, <3>1
  <2> QED BY <2>1, <2>2
<1>6. S \subseteq RoomEvent
  BY <1>3 DEF RoomEvent
<1>7. FullState(n) = SetToSeq(S)
  BY DEF FullState
<1> DEFINE s == FullState(n)
<1>8. s \in Seq(S) /\ \A x \in S : \E j \in DOMAIN s : s[j] = x
  <2> HIDE DEF S
  <2> QED BY <1>5, <1>7, SetToSeqSays
<1>9. /\ EncryptedAt(n) => [type |-> "encryption"] \in S
      /\ \A u \in User : About(u, n) # {} => StateOf(u, n) \in S
      /\ \A x \in S : x.type = "encryption" \/ \E u \in User : About(u, n) # {} /\ x = StateOf(u, n)
  OBVIOUS
<1> HIDE DEF S, s
<1>10. s \in Seq(RoomEvent)
  BY <1>6, <1>8
<1>11. EncryptedAt(n) => \E j \in DOMAIN s : s[j] = [type |-> "encryption"]
  BY <1>8, <1>9
<1>12. \A u \in User : About(u, n) # {} => \E j \in DOMAIN s : s[j] = StateOf(u, n)
  BY <1>8, <1>9
<1>13. \A j \in DOMAIN s : s[j].type = "encryption" \/ \E u \in User : About(u, n) # {} /\ s[j] = StateOf(u, n)
  BY <1>8, <1>9
<1> QED BY <1>10, <1>11, <1>12, <1>13 DEF s

LEMMA RoomStepsSay ==
  ASSUME Stream, NEW m \in 0..Len(stream), NEW n \in 0..Len(stream), NEW full \in BOOLEAN
  PROVE  /\ RoomSteps(m, n, full) \in Seq(RoomBatches)
         /\ EncryptedAt(n) /\ ~EncryptedAt(m) => Tells(RoomSteps(m, n, full))
<1>1. Len(stream) \in Nat /\ n \in Nat /\ m \in Nat
  BY DEF Stream
<1>2. RoomEvent \subseteq Item
  BY DEF RoomEvent, Item
<1>3. CASE full
  <2> DEFINE state == FullState(n)
             told  == Summary(0, n)
             batch == state \o <<told>>
  <2>1. /\ state \in Seq(RoomEvent) /\ told \in Item
        /\ EncryptedAt(n) => \E j \in DOMAIN state : state[j].type = "encryption"
    BY FullStateSays, SummariesAreItems DEF Item
  <2>2. RoomSteps(m, n, full) = <<batch>>
    BY <1>3 DEF RoomSteps
  <2> HIDE DEF state, told
  <2>3. state \in Seq(Item)
    BY <1>2, <2>1
  <2>4. batch \in Seq(Item) /\ batch # <<>> /\ \A j \in DOMAIN state : j \in DOMAIN batch /\ batch[j] = state[j]
    BY <2>1, <2>3
  <2> HIDE DEF batch
  <2>5. <<batch>> \in Seq(RoomBatches)
    BY <2>4 DEF RoomBatches
  <2>6. EncryptedAt(n) => \E k \in DOMAIN batch : batch[k].type = "encryption"
    BY <2>1, <2>4
  <2>7. EncryptedAt(n) => Tells(<<batch>>)
    BY <2>6 DEF Tells
  <2> QED BY <2>2, <2>5, <2>7
<1>4. CASE ~full
  <2> DEFINE tl == Timeline(m, n)
  <2>1. /\ tl \in Seq(RoomEvent)
        /\ \A i \in (m + 1)..n : stream[i].type # "key" => \E j \in DOMAIN tl : tl[j] = stream[i]
    BY <1>1, TimelineSays
  <2>2. EncryptedAt(n) /\ ~EncryptedAt(m) => \E j \in DOMAIN tl : tl[j].type = "encryption"
    <3> SUFFICES ASSUME EncryptedAt(n), ~EncryptedAt(m) PROVE \E j \in DOMAIN tl : tl[j].type = "encryption"
      OBVIOUS
    <3>1. PICK i \in 1..n : stream[i].type = "encryption"
      BY DEF EncryptedAt
    <3>2. i \in (m + 1)..n
      BY <1>1, <3>1 DEF EncryptedAt
    <3> HIDE DEF tl
    <3> QED BY <2>1, <3>1, <3>2
  <2>3. CASE tl = <<>>
    <3>1. RoomSteps(m, n, full) = <<>>
      BY <1>4, <2>3 DEF RoomSteps
    <3> QED BY <2>2, <2>3, <3>1
  <2>4. CASE tl # <<>>
    <3> DEFINE told  == Summary(m, n)
               first == <<told, Head(tl)>>
               later == [i \in 1..(Len(tl) - 1) |-> <<tl[i + 1]>>]
    <3>1. RoomSteps(m, n, full) = <<first>> \o later
      BY <1>4, <2>4 DEF RoomSteps
    <3>2. told \in Item
      BY SummariesAreItems DEF Item
    <3> HIDE DEF tl, told
    <3>3. tl \in Seq(Item) /\ Len(tl) \in Nat \ {0}
      BY <1>2, <2>1, <2>4
    <3>4. /\ first \in RoomBatches /\ DOMAIN first = 1..2 /\ first[2] = tl[1]
      BY <3>2, <3>3 DEF RoomBatches
    <3>5. /\ later \in Seq(RoomBatches) /\ Len(later) = Len(tl) - 1
          /\ \A i \in 1..(Len(tl) - 1) : later[i] = <<tl[i + 1]>>
      <4>1. \A i \in 1..(Len(tl) - 1) : <<tl[i + 1]>> \in RoomBatches
        BY <3>3 DEF RoomBatches
      <4> QED BY <3>3, <4>1
    <3> HIDE DEF first, later
    <3> DEFINE all == <<first>> \o later
    <3>6. /\ all \in Seq(RoomBatches) /\ Len(all) = Len(tl)
          /\ all[1] = first /\ \A i \in 1..(Len(tl) - 1) : all[i + 1] = <<tl[i + 1]>>
      BY <3>3, <3>4, <3>5
    <3> HIDE DEF all
    <3>7. ASSUME NEW j \in DOMAIN tl, tl[j].type = "encryption" PROVE Tells(all)
      <4>1. j \in 1..Len(tl) /\ j \in DOMAIN all
        BY <3>3, <3>6
      <4>2. CASE j = 1
        <5>1. 2 \in DOMAIN all[1] /\ all[1][2].type = "encryption"
          BY <3>4, <3>6, <3>7, <4>2
        <5> QED BY <4>1, <4>2, <5>1 DEF Tells
      <4>3. CASE j # 1
        <5>1. j - 1 \in 1..(Len(tl) - 1) /\ (j - 1) + 1 = j
          BY <3>3, <4>1, <4>3
        <5>2. all[j] = <<tl[j]>>
          BY <3>6, <5>1
        <5>3. 1 \in DOMAIN all[j] /\ all[j][1].type = "encryption"
          BY <3>7, <5>2
        <5> QED BY <4>1, <5>3 DEF Tells
      <4> QED BY <4>2, <4>3
    <3> QED BY <2>2, <3>1, <3>6, <3>7 DEF all
  <2> QED BY <2>3, <2>4
<1> QED BY <1>3, <1>4

LEMMA AnswersAreTyped ==
  ASSUME Stream, NEW t \in Task, syncs[t].since \in 0..Len(stream), syncs[t].full \in BOOLEAN
  PROVE  HandleSync(t) \in Seq(Batches)
<1>1. /\ Len(stream) \in 0..Len(stream) /\ syncs[t].since \in Nat
  BY DEF Stream
<1>2. /\ ToDevice(syncs[t].since, Len(stream)) \in Seq(KeyBatches)
      /\ RoomSteps(syncs[t].since, Len(stream), syncs[t].full) \in Seq(RoomBatches)
  BY <1>1, ToDeviceSays, RoomStepsSay
<1>3. \A a \in Seq(KeyBatches), b \in Seq(RoomBatches) : a \o b \in Seq(Batches)
  <2> TAKE a \in Seq(KeyBatches), b \in Seq(RoomBatches)
  <2>1. a \in Seq(Batches) /\ b \in Seq(Batches)
    BY DEF Batches
  <2> QED BY <2>1
<1> QED BY <1>2, <1>3 DEF HandleSync

-----------------------------------------------------------------------------
(* The types of the variables, and the room is a good one.                 *)

SyncStates == {"none", "flight", "answered", "handling", "done"}
SyncRecord == [state : SyncStates, since : Positions, full : BOOLEAN, upto : Positions, steps : Seq(Batches),
               encrypted : BOOLEAN]
Behind(n)  == n \in Positions /\ n <= Len(stream)

StoreTyped ==
  /\ Stream
  /\ Behind(sync_token) /\ stored_encrypted \in BOOLEAN /\ stored_keys \subseteq Positions
SyncsTyped ==
  /\ loop \in {"idle", "first", "gather"} /\ stop \in BOOLEAN
  /\ syncs \in [Task -> SyncRecord]
  /\ \A t \in Task : syncs[t].since <= Len(stream) /\ syncs[t].upto <= Len(stream)
  /\ loop = "idle" => ~Syncing("main")
MemoryTyped ==
  /\ Behind(next_batch) /\ Behind(loaded_sync_token) /\ encrypted_rooms = stored_encrypted
  /\ members \in [state : {"none", "flight", "answered"}, at : Positions] /\ members.at <= Len(stream)
PastTyped ==
  /\ interrupted \in BOOLEAN /\ overlapped \in BOOLEAN /\ reinvited \in BOOLEAN /\ stale \in BOOLEAN
  /\ complete \in BOOLEAN /\ ahead \in Positions
LoopTyped == StoreTyped /\ SyncsTyped /\ MemoryTyped /\ PastTyped
RoomGood == rooms = {} \/ \E r : rooms = {r} /\ Good(r)

SyncOf(state, since, full, upto, steps, encrypted) ==
  [state |-> state, since |-> since, full |-> full, upto |-> upto, steps |-> steps, encrypted |-> encrypted]

LEMMA SyncRecords ==
  /\ NoSync \in SyncRecord /\ [NoSync EXCEPT !.state = "done"] \in SyncRecord
  /\ NoSync.state = "none" /\ NoSync.since = 0 /\ NoSync.upto = 0
  /\ [NoSync EXCEPT !.state = "done"].state = "done" /\ [NoSync EXCEPT !.state = "done"].since = 0
  /\ [NoSync EXCEPT !.state = "done"].upto = 0
  /\ ~NoSync.encrypted /\ ~[NoSync EXCEPT !.state = "done"].encrypted
<1>1. 0 \in Positions /\ <<>> \in Seq(Batches) /\ FALSE \in BOOLEAN
  BY BoundsAssumption DEF Positions
<1>n. NoSync = SyncOf("none", 0, FALSE, 0, <<>>, FALSE)
  BY DEF NoSync, SyncOf
<1> DEFINE d == [NoSync EXCEPT !.state = "done"]
<1>2. d = [NoSync EXCEPT !.state = "done"]
  OBVIOUS
<1> HIDE DEF d
<1>3. d = SyncOf("done", 0, FALSE, 0, <<>>, FALSE)
  BY <1>n, <1>2 DEF SyncOf
<1>4. d \in SyncRecord /\ d.state = "done" /\ d.since = 0 /\ d.upto = 0 /\ d.encrypted = FALSE
  BY <1>1, <1>3 DEF SyncOf, SyncRecord, SyncStates
<1>5. NoSync \in SyncRecord /\ NoSync.state = "none" /\ NoSync.since = 0 /\ NoSync.upto = 0
      /\ NoSync.encrypted = FALSE
  BY <1>1 DEF NoSync, SyncRecord, SyncStates
<1> QED BY <1>4, <1>5 DEF d

\* The token a sync is asked with.
From == IF next_batch # 0 THEN next_batch ELSE loaded_sync_token

LEMMA RequestsAreTyped ==
  ASSUME LoopTyped, NEW full \in BOOLEAN
  PROVE  /\ Request(full) \in SyncRecord /\ Request(full).state = "flight" /\ Request(full).full = full
         /\ Request(full).since <= Len(stream) /\ Request(full).upto = 0
         /\ Request(full).since = From
         /\ ~Request(full).encrypted
<1> DEFINE since == From
<1>n. NoSync = SyncOf("none", 0, FALSE, 0, <<>>, FALSE)
  BY DEF NoSync, SyncOf
<1>1. Request(full) = SyncOf("flight", since, full, 0, <<>>, FALSE)
  <2> DEFINE r == Request(full)
  <2>1. r = [NoSync EXCEPT !.state = "flight", !.full = full, !.since = since]
    BY DEF Request, From
  <2> HIDE DEF r, since
  <2>2. r = SyncOf("flight", since, full, 0, <<>>, FALSE)
    BY <1>n, <2>1 DEF SyncOf
  <2> QED BY <2>2 DEF r
<1>2. since \in Positions /\ since <= Len(stream)
  BY DEF LoopTyped, MemoryTyped, Behind, From
<1>3. 0 \in Positions /\ <<>> \in Seq(Batches) /\ FALSE \in BOOLEAN /\ since = From
  BY BoundsAssumption DEF Positions
<1> HIDE DEF since
<1> QED BY <1>1, <1>2, <1>3 DEF SyncOf, SyncRecord, SyncStates

LEMMA LoopTypedInit == Init => LoopTyped /\ RoomGood
<1> SUFFICES ASSUME Init PROVE LoopTyped /\ RoomGood
  OBVIOUS
<1>1. stream \in Seq(Events) /\ Len(stream) = 0 /\ 0 \in Positions /\ FALSE \in BOOLEAN
  BY BoundsAssumption DEF Init, Positions
<1>2. StoreTyped
  <2>1. Stream /\ Behind(0)
    BY <1>1, BoundsAssumption DEF Stream, Behind
  <2> QED BY <1>1, <2>1 DEF Init, StoreTyped
<1>3. SyncsTyped
  <2>1. syncs \in [Task -> SyncRecord] /\ \A t \in Task : syncs[t] = NoSync
    BY SyncRecords DEF Init
  <2>2. ~Syncing("main")
    <3>1. syncs["main"].state = "none"
      BY <2>1, SyncRecords DEF Task
    <3> QED BY <3>1 DEF Syncing
  <2>3. \A t \in Task : syncs[t].since <= Len(stream) /\ syncs[t].upto <= Len(stream)
    BY <1>1, <2>1, SyncRecords
  <2>4. loop = "idle" /\ stop = FALSE
    BY DEF Init
  <2> QED BY <1>1, <2>1, <2>2, <2>3, <2>4 DEF SyncsTyped
<1>4. MemoryTyped
  <2>1. members = [state |-> "none", at |-> 0] /\ Behind(0)
    BY <1>1 DEF Init, NoMembers, Behind
  <2>2. members \in [state : {"none", "flight", "answered"}, at : Positions] /\ members.at <= Len(stream)
    BY <1>1, <2>1
  <2>3. next_batch = 0 /\ loaded_sync_token = 0 /\ encrypted_rooms = stored_encrypted
    BY DEF Init
  <2> QED BY <2>1, <2>2, <2>3 DEF MemoryTyped
<1>5. PastTyped
  BY <1>1 DEF Init, PastTyped
<1> QED BY <1>2, <1>3, <1>4, <1>5 DEF LoopTyped, RoomGood, Init

LEMMA RoomIsGood ==
  ASSUME RoomGood
  PROVE  /\ Good(Room)
         /\ rooms = {} => Room.encrypted = encrypted_rooms
         /\ \A r \in rooms : r = Room
<1>1. CASE rooms = {}
  BY <1>1, EmptyRoomIsGood DEF Room
<1>2. CASE rooms # {}
  <2>1. PICK r : rooms = {r} /\ Good(r)
    BY <1>2 DEF RoomGood
  <2>2. Room = r
    BY <2>1 DEF Room
  <2> QED BY <2>1, <2>2
<1> QED BY <1>1, <1>2

\* What a step of a response does, for a room key and for the room.
LEMMA StepSays ==
  ASSUME LoopTyped, RoomGood, NEW t \in Task, Step(t), NEW batch, batch = Head(syncs[t].steps)
  PROVE  /\ batch \in Batches /\ syncs[t].steps # <<>>
         /\ \/ /\ \E i \in 1..MaxEvents : batch = KeyBatch(i) /\ stored_keys' = stored_keys \cup {i}
               /\ rooms' = rooms
               /\ ~\E i \in DOMAIN batch : batch[i].type = "encryption"
            \/ /\ batch \in RoomBatches /\ stored_keys' = stored_keys
               /\ \E r : /\ rooms' = {r} /\ Good(r)
                         /\ Room.encrypted => r.encrypted
                         /\ (\E i \in DOMAIN batch : batch[i].type = "encryption") => r.encrypted
<1>1. syncs[t].steps \in Seq(Batches) /\ syncs[t].steps # <<>>
  BY DEF Step, LoopTyped, SyncsTyped, SyncRecord
<1>2. batch \in Batches
  BY <1>1
<1>3. CASE batch \in KeyBatches
  <2>1. PICK i \in 1..MaxEvents : batch = KeyBatch(i)
    BY <1>3 DEF KeyBatches
  <2>2. /\ Head(batch).type = "key" /\ Head(batch).at = i
        /\ \A j \in DOMAIN batch : batch[j].type = "key"
    BY <2>1 DEF KeyBatch
  <2>3. stored_keys' = stored_keys \cup {i} /\ rooms' = rooms
    BY <2>2 DEF Step
  <2> QED BY <1>1, <1>2, <2>1, <2>2, <2>3
<1>4. CASE batch \in RoomBatches
  <2>1. batch \in Seq(Item) /\ Head(batch) \in Item
    BY <1>4 DEF RoomBatches
  <2>2. \A e \in Item : e.type # "key"
    BY EventsHaveTypes DEF Item, Summaries
  <2>3. stored_keys' = stored_keys /\ rooms' = {HandleAll(Room, batch)}
    BY <2>1, <2>2 DEF Step
  <2> QED BY <1>1, <1>2, <1>4, <2>1, <2>3, RoomIsGood, HandleAllIsGood
<1> QED BY <1>2, <1>3, <1>4 DEF Batches

-----------------------------------------------------------------------------
(* What each action does to the syncs.                                     *)

OnlyThis(t) == \A u \in Task \ {t} : syncs'[u] = syncs[u]
Becomes(t, s) == syncs' \in [Task -> SyncRecord] /\ OnlyThis(t) /\ syncs'[t] = s

LEMMA SyncsAreRecords ==
  ASSUME LoopTyped, NEW t \in Task
  PROVE  /\ syncs[t] \in SyncRecord /\ syncs[t].since <= Len(stream) /\ syncs[t].upto <= Len(stream)
         /\ syncs[t] = SyncOf(syncs[t].state, syncs[t].since, syncs[t].full, syncs[t].upto, syncs[t].steps,
                              syncs[t].encrypted)
BY DEF LoopTyped, SyncsTyped, SyncRecord, SyncOf

LEMMA OneSyncChanges ==
  ASSUME LoopTyped, NEW t \in Task, NEW s \in SyncRecord, syncs' = [syncs EXCEPT ![t] = s]
  PROVE  Becomes(t, s)
BY DEF LoopTyped, SyncsTyped, Becomes, OnlyThis

LEMMA ServeSays ==
  ASSUME LoopTyped, NEW t \in Task, Serve(t)
  PROVE  /\ syncs[t].state = "flight"
         /\ Becomes(t, SyncOf("answered", syncs[t].since, syncs[t].full, Len(stream), HandleSync(t),
                              syncs[t].encrypted))
<1> DEFINE r   == syncs[t]
           new == [r EXCEPT !.state = "answered", !.upto = Len(stream), !.steps = HandleSync(t)]
           s   == SyncOf("answered", r.since, r.full, Len(stream), HandleSync(t), r.encrypted)
<1>1. syncs' = [syncs EXCEPT ![t] = new]
  BY DEF Serve
<1>2. r \in SyncRecord /\ r.since <= Len(stream)
      /\ r = SyncOf(r.state, r.since, r.full, r.upto, r.steps, r.encrypted)
  BY SyncsAreRecords
<1>3. HandleSync(t) \in Seq(Batches) /\ Len(stream) \in Positions
  <2>1. Stream
    BY DEF LoopTyped, StoreTyped
  <2>2. r.since \in 0..Len(stream) /\ r.full \in BOOLEAN /\ Len(stream) \in Positions
    BY <1>2, <2>1, BoundsAssumption DEF SyncRecord, Positions, Stream
  <2> QED BY <2>1, <2>2, AnswersAreTyped
<1>4. new = s
  <2> HIDE DEF r
  <2>1. new = [r EXCEPT !.state = "answered", !.upto = Len(stream), !.steps = HandleSync(t)]
    OBVIOUS
  <2> HIDE DEF new
  <2> QED BY <1>2, <2>1 DEF SyncOf
<1>5. s \in SyncRecord
  <2> HIDE DEF r
  <2> QED BY <1>2, <1>3 DEF SyncOf, SyncRecord, SyncStates
<1> HIDE DEF new, s
<1>6. Becomes(t, s)
  BY <1>1, <1>4, <1>5, OneSyncChanges
<1> QED BY <1>6 DEF s, Serve

LEMMA DoneSays ==
  ASSUME LoopTyped, NEW t \in Task, Done(t)
  PROVE  Becomes(t, IF t = "main" THEN [NoSync EXCEPT !.state = "done"] ELSE NoSync)
<1> DEFINE s == IF t = "main" THEN [NoSync EXCEPT !.state = "done"] ELSE NoSync
<1>1. s \in SyncRecord
  BY SyncRecords, Zenon
<1>2. syncs' = [syncs EXCEPT ![t] = s]
  BY DEF Done
<1> HIDE DEF s
<1>3. Becomes(t, s)
  BY <1>1, <1>2, OneSyncChanges
<1> QED BY <1>3 DEF s

LEMMA ReceiveSays ==
  ASSUME LoopTyped, NEW t \in Task, Receive(t)
  PROVE  /\ syncs[t].state = "answered"
         /\ \/ syncs[t].upto = next_batch /\ Done(t)
            \/ Becomes(t, SyncOf("handling", 0, FALSE, syncs[t].upto, syncs[t].steps, syncs[t].encrypted))
               /\ next_batch' = syncs[t].upto /\ sync_token' = syncs[t].upto /\ interrupted' = interrupted
<1>1. CASE syncs[t].upto = next_batch
  BY <1>1 DEF Receive
<1>2. CASE syncs[t].upto # next_batch
  <2> DEFINE r   == syncs[t]
             new == [r EXCEPT !.state = "handling", !.full = FALSE, !.since = 0]
             s   == SyncOf("handling", 0, FALSE, r.upto, r.steps, r.encrypted)
  <2>1. syncs' = [syncs EXCEPT ![t] = new]
    BY <1>2 DEF Receive
  <2>2. r \in SyncRecord /\ r = SyncOf(r.state, r.since, r.full, r.upto, r.steps, r.encrypted)
    BY SyncsAreRecords
  <2>3. 0 \in Positions /\ FALSE \in BOOLEAN
    BY BoundsAssumption DEF Positions
  <2>4. new = s
    <3> HIDE DEF r
    <3>1. new = [r EXCEPT !.state = "handling", !.full = FALSE, !.since = 0]
      OBVIOUS
    <3> HIDE DEF new
    <3> QED BY <2>2, <3>1 DEF SyncOf
  <2>5. s \in SyncRecord
    <3> HIDE DEF r
    <3> QED BY <2>2, <2>3 DEF SyncOf, SyncRecord, SyncStates
  <2> HIDE DEF new, s
  <2>6. Becomes(t, s)
    BY <2>1, <2>4, <2>5, OneSyncChanges
  <2> QED BY <1>2, <2>6 DEF s, Receive
<1> QED BY <1>1, <1>2

LEMMA StepsSay ==
  ASSUME LoopTyped, NEW t \in Task, Step(t)
  PROVE  LET r == syncs[t] IN
         Becomes(t, SyncOf(r.state, r.since, r.full, r.upto, Tail(r.steps),
           r.encrypted \/ \E i \in DOMAIN Head(r.steps) : Head(r.steps)[i].type = "encryption"))
<1> DEFINE r   == syncs[t]
           en  == r.encrypted \/ \E i \in DOMAIN Head(r.steps) : Head(r.steps)[i].type = "encryption"
           new == [r EXCEPT !.steps = Tail(r.steps), !.encrypted = en]
           s   == SyncOf(r.state, r.since, r.full, r.upto, Tail(r.steps), en)
<1>1. syncs' = [syncs EXCEPT ![t] = new]
  BY DEF Step
<1>2. r \in SyncRecord /\ r = SyncOf(r.state, r.since, r.full, r.upto, r.steps, r.encrypted)
  BY SyncsAreRecords
<1>3. r.steps \in Seq(Batches) /\ r.steps # <<>>
  BY <1>2 DEF SyncRecord, Step
<1>4. Tail(r.steps) \in Seq(Batches)
  BY <1>3
<1>5. en \in BOOLEAN
  BY Zenon
<1> HIDE DEF r, en
<1>6. new = s
  <2>1. new = [r EXCEPT !.steps = Tail(r.steps), !.encrypted = en]
    OBVIOUS
  <2> HIDE DEF new
  <2> QED BY <1>2, <2>1 DEF SyncOf
<1>7. s \in SyncRecord
  BY <1>2, <1>4, <1>5 DEF SyncOf, SyncRecord
<1> HIDE DEF new, s
<1>8. Becomes(t, s)
  BY <1>1, <1>6, <1>7, OneSyncChanges
<1> QED BY <1>8 DEF s, en, r

LEMMA LeaveSays ==
  ASSUME LoopTyped, NEW left \in SyncRecord, Leave(left)
  PROVE  syncs' \in [Task -> SyncRecord] /\ syncs'["main"] = NoSync /\ syncs'["orphan"] = left
<1>1. syncs' = [main |-> NoSync, orphan |-> left]
  BY DEF Leave
<1>2. syncs'["main"] = NoSync /\ syncs'["orphan"] = left /\ syncs' = [u \in Task |-> IF u = "main" THEN NoSync ELSE left]
  BY <1>1 DEF Task
<1>3. NoSync \in SyncRecord
  BY SyncRecords
<1> QED BY <1>2, <1>3

-----------------------------------------------------------------------------
(* Every step keeps the types and the room good.                           *)

LEMMA SyncsStayTyped ==
  ASSUME LoopTyped, NEW t \in Task, NEW s, Becomes(t, s), s.since <= Len(stream), s.upto <= Len(stream),
         Syncing(t), stream' = stream, loop' = loop, stop' = stop
  PROVE  SyncsTyped'
<1>1. SyncsTyped
  BY DEF LoopTyped
<1>2. \A u \in Task : syncs'[u].since <= Len(stream') /\ syncs'[u].upto <= Len(stream')
  BY <1>1 DEF Becomes, OnlyThis, SyncsTyped
<1>3. loop' = "idle" => ~(Syncing("main"))'
  <2>1. loop' = "idle" => t # "main"
    BY <1>1 DEF SyncsTyped
  <2>2. t # "main" => syncs'["main"] = syncs["main"]
    BY DEF Becomes, OnlyThis, Task
  <2> QED BY <1>1, <2>1, <2>2 DEF SyncsTyped, Syncing
<1> QED BY <1>1, <1>2, <1>3 DEF SyncsTyped, Becomes

LEMMA LeavingIsTyped ==
  ASSUME LoopTyped, NEW left \in SyncRecord, left.since <= Len(stream), left.upto <= Len(stream), Leave(left),
         stream' = stream
  PROVE  SyncsTyped'
<1>1. syncs' \in [Task -> SyncRecord] /\ syncs'["main"] = NoSync /\ syncs'["orphan"] = left
  BY LeaveSays
<1>2. loop' = "idle" /\ stop' = FALSE
  BY DEF Leave
<1>3. Len(stream) \in Nat /\ NoSync.since = 0 /\ NoSync.upto = 0 /\ NoSync.state = "none"
  BY SyncRecords DEF LoopTyped, StoreTyped, Stream
<1>4. \A u \in Task : syncs'[u].since <= Len(stream') /\ syncs'[u].upto <= Len(stream')
  BY <1>1, <1>3 DEF Task
<1>5. ~(Syncing("main"))'
  BY <1>1, <1>3 DEF Syncing
<1> QED BY <1>1, <1>2, <1>4, <1>5 DEF SyncsTyped

LEMMA SyncStepsAreTyped ==
  ASSUME LoopTyped, RoomGood, NEW t \in Task, SyncStep(t)
  PROVE  LoopTyped' /\ RoomGood'
<1>0. /\ StoreTyped /\ SyncsTyped /\ MemoryTyped /\ PastTyped
      /\ syncs[t].since \in Positions /\ syncs[t].upto \in Positions /\ Len(stream) \in Nat /\ 0 \in Positions
      /\ syncs[t].since <= Len(stream) /\ syncs[t].upto <= Len(stream)
  BY SyncsAreRecords, BoundsAssumption DEF LoopTyped, SyncRecord, Positions, StoreTyped, Stream
<1>1. CASE Serve(t)
  <2> DEFINE s == SyncOf("answered", syncs[t].since, syncs[t].full, Len(stream), HandleSync(t), syncs[t].encrypted)
  <2>1. syncs[t].state = "flight" /\ Becomes(t, s)
    BY <1>1, ServeSays
  <2>2. s.since = syncs[t].since /\ s.upto = Len(stream)
    BY DEF SyncOf
  <2> HIDE DEF s
  <2>3. UNCHANGED <<stream, loop, stop, members, sync_token, stored_encrypted, stored_keys, next_batch, rooms, encrypted_rooms, loaded_sync_token,
                    interrupted, overlapped, reinvited, stale, ahead, complete>>
    BY <1>1 DEF Serve, store, memory, past
  <2>4. SyncsTyped'
    BY <1>0, <2>1, <2>2, <2>3, SyncsStayTyped DEF Syncing
  <2>5. StoreTyped' /\ MemoryTyped' /\ PastTyped' /\ RoomGood'
    BY <1>0, <2>3 DEF StoreTyped, Stream, MemoryTyped, PastTyped, Behind, RoomGood
  <2> QED BY <2>4, <2>5 DEF LoopTyped
<1>2. CASE Receive(t)
  <2>1. UNCHANGED <<stream, loop, stop, members, stored_encrypted, stored_keys, rooms, encrypted_rooms,
                    loaded_sync_token, overlapped, reinvited, stale, ahead>>
    BY <1>2 DEF Receive
  <2>2. SyncsTyped'
    <3>1. CASE Done(t)
      <4> DEFINE s == IF t = "main" THEN [NoSync EXCEPT !.state = "done"] ELSE NoSync
      <4>1. Becomes(t, s)
        BY <3>1, DoneSays
      <4>2. s.since = 0 /\ s.upto = 0
        BY SyncRecords
      <4> HIDE DEF s
      <4>3. syncs[t].state = "answered"
        BY <1>2 DEF Receive
      <4> QED BY <1>0, <2>1, <4>1, <4>2, <4>3, SyncsStayTyped DEF Syncing
    <3>2. CASE Becomes(t, SyncOf("handling", 0, FALSE, syncs[t].upto, syncs[t].steps, syncs[t].encrypted))
      <4> DEFINE s == SyncOf("handling", 0, FALSE, syncs[t].upto, syncs[t].steps, syncs[t].encrypted)
      <4>1. s.since = 0 /\ s.upto = syncs[t].upto
        BY DEF SyncOf
      <4>2. syncs[t].state = "answered" /\ Becomes(t, s)
        BY <1>2, <3>2 DEF Receive
      <4> HIDE DEF s
      <4> QED BY <1>0, <2>1, <4>1, <4>2, SyncsStayTyped DEF Syncing
    <3> QED BY <1>2, <3>1, <3>2, ReceiveSays
  <2>3. Behind(next_batch)' /\ Behind(sync_token)'
    <3>1. next_batch' \in {next_batch, syncs[t].upto} /\ sync_token' \in {sync_token, syncs[t].upto}
      BY <1>2 DEF Receive
    <3> QED BY <1>0, <2>1, <3>1 DEF Behind, StoreTyped, MemoryTyped
  <2>4. interrupted' \in BOOLEAN /\ complete' \in BOOLEAN
    <3>1. CASE syncs[t].upto = next_batch
      BY <1>0, <1>2, <3>1 DEF Receive, PastTyped
    <3>2. CASE syncs[t].upto # next_batch
      <4>1. interrupted' = interrupted /\ complete' = (complete \/ syncs[t].full \/ syncs[t].since = 0)
        BY <1>2, <3>2 DEF Receive
      <4>2. (complete \/ syncs[t].full \/ syncs[t].since = 0) \in BOOLEAN
        BY Zenon
      <4> QED BY <1>0, <4>1, <4>2 DEF PastTyped
    <3> QED BY <3>1, <3>2
  <2>5. StoreTyped' /\ MemoryTyped' /\ PastTyped' /\ RoomGood'
    BY <1>0, <2>1, <2>3, <2>4 DEF StoreTyped, Stream, MemoryTyped, PastTyped, Behind, RoomGood
  <2> QED BY <2>2, <2>5 DEF LoopTyped
<1>3. CASE Step(t)
  <2> DEFINE r == syncs[t]
             s == SyncOf(r.state, r.since, r.full, r.upto, Tail(r.steps),
                    r.encrypted \/ \E i \in DOMAIN Head(r.steps) : Head(r.steps)[i].type = "encryption")
  <2>1. Becomes(t, s)
    BY <1>3, StepsSay
  <2>2. s.since = syncs[t].since /\ s.upto = syncs[t].upto
    BY DEF SyncOf
  <2> HIDE DEF s
  <2>3. /\ Syncing(t)
        /\ UNCHANGED <<stream, loop, stop, members, sync_token, stored_encrypted, next_batch, encrypted_rooms,
                       loaded_sync_token, interrupted, overlapped, stale, ahead, complete>>
    BY <1>3 DEF Step, Handling, Syncing
  <2>4. SyncsTyped'
    BY <1>0, <2>1, <2>2, <2>3, SyncsStayTyped
  <2>5. RoomGood' /\ stored_keys' \subseteq Positions
    <3> DEFINE batch == Head(syncs[t].steps)
    <3>1. \/ /\ \E i \in 1..MaxEvents : stored_keys' = stored_keys \cup {i}
             /\ rooms' = rooms
          \/ /\ stored_keys' = stored_keys
             /\ \E room : rooms' = {room} /\ Good(room)
      BY <1>3, StepSays
    <3>2. 1..MaxEvents \subseteq Positions
      BY BoundsAssumption DEF Positions
    <3> QED BY <1>0, <3>1, <3>2 DEF RoomGood, StoreTyped
  <2>6. reinvited' \in BOOLEAN
    <3> DEFINE now == reinvited \/ \E i \in DOMAIN Head(syncs[t].steps) : Reinvites(Room, Head(syncs[t].steps)[i])
    <3>1. reinvited' = now
      BY <1>3, Zenon DEF Step
    <3>2. now \in BOOLEAN
      BY Zenon
    <3> QED BY <3>1, <3>2
  <2>7. StoreTyped' /\ MemoryTyped' /\ PastTyped'
    BY <1>0, <2>3, <2>5, <2>6 DEF StoreTyped, Stream, MemoryTyped, PastTyped, Behind
  <2> QED BY <2>4, <2>5, <2>7 DEF LoopTyped
<1>4. CASE Finish(t)
  <2> DEFINE s == IF t = "main" THEN [NoSync EXCEPT !.state = "done"] ELSE NoSync
  <2>1. Becomes(t, s)
    BY <1>4, DoneSays DEF Finish
  <2>2. s.since = 0 /\ s.upto = 0
    BY SyncRecords
  <2> HIDE DEF s
  <2>3. /\ Syncing(t)
        /\ UNCHANGED <<stream, loop, stop, members, sync_token, stored_keys, next_batch, rooms,
                       loaded_sync_token, interrupted, overlapped, reinvited, stale, ahead, complete>>
    BY <1>4 DEF Finish, Handling, Syncing, past
  <2>4. SyncsTyped'
    BY <1>0, <2>1, <2>2, <2>3, SyncsStayTyped
  <2>5. encrypted_rooms' = stored_encrypted' /\ stored_encrypted' \in BOOLEAN
    <3>1. /\ encrypted_rooms' = (encrypted_rooms \/ syncs[t].encrypted)
          /\ stored_encrypted' = (stored_encrypted \/ syncs[t].encrypted)
      BY <1>4 DEF Finish, StoredEncrypted
    <3>2. (stored_encrypted \/ syncs[t].encrypted) \in BOOLEAN
      BY Zenon
    <3> QED BY <1>0, <3>1, <3>2 DEF MemoryTyped
  <2>6. StoreTyped' /\ MemoryTyped' /\ PastTyped' /\ RoomGood'
    BY <1>0, <2>3, <2>5 DEF StoreTyped, Stream, MemoryTyped, PastTyped, Behind, RoomGood
  <2> QED BY <2>4, <2>6 DEF LoopTyped
<1> QED BY <1>1, <1>2, <1>3, <1>4 DEF SyncStep

\* The loop and its syncs are all that has changed.
Untouched ==
  /\ UNCHANGED <<stream, members, sync_token, stored_encrypted, stored_keys, next_batch, rooms, encrypted_rooms,
                 loaded_sync_token, reinvited, stale, ahead, complete>>
  /\ interrupted' \in BOOLEAN /\ overlapped' \in BOOLEAN

LEMMA UntouchedIsTyped ==
  ASSUME LoopTyped, RoomGood, Untouched, SyncsTyped'
  PROVE  LoopTyped' /\ RoomGood'
BY DEF Untouched, LoopTyped, StoreTyped, Stream, MemoryTyped, PastTyped, Behind, RoomGood

LEMMA LoopStepsAreTyped ==
  ASSUME LoopTyped, RoomGood,
         \/ \E t \in Task : Refuse(t) \/ SyncRaises(t)
         \/ \E full \in BOOLEAN : Start(full)
         \/ FirstDone \/ Iterate \/ OthersRaise \/ Cancel \/ StopSyncForever
  PROVE  LoopTyped' /\ RoomGood'
<1>0. /\ StoreTyped /\ SyncsTyped /\ MemoryTyped /\ PastTyped /\ Len(stream) \in Nat /\ 0 \in Positions
      /\ \A t \in Task : syncs[t] \in SyncRecord /\ syncs[t].since <= Len(stream) /\ syncs[t].upto <= Len(stream)
      /\ interrupted \in BOOLEAN /\ overlapped \in BOOLEAN
  BY SyncsAreRecords, BoundsAssumption DEF LoopTyped, Positions, StoreTyped, Stream, PastTyped
<1>t. "main" \in Task /\ "orphan" \in Task
  BY DEF Task
<1>i. \A t \in Task : (interrupted \/ Handling(t)) \in BOOLEAN
  BY Zenon
<1>1. ASSUME NEW t \in Task, Refuse(t) PROVE Untouched /\ SyncsTyped'
  <2> DEFINE s == IF t = "main" THEN [NoSync EXCEPT !.state = "done"] ELSE NoSync
  <2>1. Becomes(t, s)
    BY <1>1, DoneSays DEF Refuse
  <2>2. s.since = 0 /\ s.upto = 0
    BY SyncRecords
  <2> HIDE DEF s
  <2>3. Syncing(t) /\ loop' = loop /\ stop' = stop /\ Untouched
    BY <1>0, <1>1 DEF Refuse, Syncing, store, memory, past, Untouched
  <2>4. stream' = stream
    BY <2>3 DEF Untouched
  <2> QED BY <1>0, <2>1, <2>2, <2>3, <2>4, SyncsStayTyped
<1>2. ASSUME NEW t \in Task, SyncRaises(t) PROVE Untouched /\ SyncsTyped'
  <2>1. Syncing(t) /\ interrupted' = (interrupted \/ Handling(t))
    BY <1>2 DEF SyncRaises, Syncing
  <2>2. Untouched
    BY <1>0, <1>2, <1>i, <2>1 DEF SyncRaises, store, memory, Untouched
  <2>3. stream' = stream
    BY <2>2 DEF Untouched
  <2>4. CASE t = "main"
    <3>1. Leave(syncs["orphan"])
      BY <1>2, <2>4 DEF SyncRaises
    <3> QED BY <1>0, <1>t, <2>2, <2>3, <3>1, LeavingIsTyped
  <2>5. CASE t # "main"
    <3>1. syncs' = [syncs EXCEPT ![t] = NoSync] /\ loop' = loop /\ stop' = stop
      BY <1>2, <2>5 DEF SyncRaises
    <3>2. Becomes(t, NoSync)
      BY <3>1, OneSyncChanges, SyncRecords
    <3>3. NoSync.since <= Len(stream) /\ NoSync.upto <= Len(stream)
      BY <1>0, SyncRecords
    <3> QED BY <2>1, <2>2, <2>3, <3>1, <3>2, <3>3, SyncsStayTyped
  <2> QED BY <2>4, <2>5
<1>3. ASSUME NEW full \in BOOLEAN, Start(full) PROVE Untouched /\ SyncsTyped'
  <2>1. CASE stop
    <3>1. stop' = FALSE /\ loop' = loop /\ syncs' = syncs /\ Untouched
      BY <1>0, <1>3, <2>1 DEF Start, store, memory, Untouched
    <3> QED BY <1>0, <3>1 DEF SyncsTyped, Syncing, Untouched
  <2>2. CASE ~stop
    <3> DEFINE over == overlapped \/ Syncing("orphan")
               s    == Request(full)
    <3>1. over \in BOOLEAN
      BY Zenon
    <3>2. overlapped' = over
      BY <1>3, <2>2 DEF Start
    <3> HIDE DEF over
    <3>3. Untouched
      BY <1>0, <1>3, <3>1, <3>2 DEF Start, store, memory, Untouched
    <3>4. loop' = "first" /\ stop' = stop /\ syncs' = [syncs EXCEPT !["main"] = s] /\ stream' = stream
      BY <1>3, <2>2 DEF Start
    <3>5. s \in SyncRecord /\ s.since <= Len(stream) /\ s.upto = 0
      BY RequestsAreTyped
    <3> HIDE DEF s
    <3>6. Becomes("main", s)
      BY <1>t, <3>4, <3>5, OneSyncChanges
    <3> QED BY <1>0, <3>3, <3>4, <3>5, <3>6 DEF SyncsTyped, Becomes, OnlyThis
  <2> QED BY <2>1, <2>2
<1>4. ASSUME FirstDone \/ StopSyncForever PROVE Untouched /\ SyncsTyped'
  <2>1. Untouched /\ syncs' = syncs /\ stop' \in BOOLEAN
    BY <1>0, <1>4 DEF FirstDone, StopSyncForever, store, memory, past, Untouched, SyncsTyped
  <2>2. loop' \in {loop, "gather"}
    BY <1>4 DEF FirstDone, StopSyncForever
  <2> QED BY <1>0, <2>1, <2>2 DEF SyncsTyped, Syncing, Untouched
<1>5. ASSUME Iterate PROVE Untouched /\ SyncsTyped'
  <2>1. Untouched /\ stop' = FALSE /\ stream' = stream
    BY <1>0, <1>5 DEF Iterate, store, memory, past, Untouched
  <2>2. CASE Stops
    <3>1. loop' = "idle" /\ syncs' = [syncs EXCEPT !["main"] = NoSync]
      BY <1>5, <2>2 DEF Iterate
    <3>2. Becomes("main", NoSync)
      BY <1>t, <3>1, OneSyncChanges, SyncRecords
    <3>3. NoSync.since = 0 /\ NoSync.upto = 0 /\ NoSync.state = "none"
      BY SyncRecords
    <3>4. ~(Syncing("main"))'
      BY <3>2, <3>3 DEF Becomes, Syncing
    <3>5. \A u \in Task : syncs'[u].since <= Len(stream') /\ syncs'[u].upto <= Len(stream')
      BY <1>0, <2>1, <3>2, <3>3 DEF Becomes, OnlyThis
    <3> QED BY <2>1, <3>1, <3>2, <3>4, <3>5 DEF SyncsTyped, Becomes
  <2>3. CASE ~Stops
    <3> DEFINE s == Request(FALSE)
    <3>1. loop' = "gather" /\ syncs' = [syncs EXCEPT !["main"] = s]
      BY <1>5, <2>3 DEF Iterate
    <3>2. s \in SyncRecord /\ s.since <= Len(stream) /\ s.upto = 0
      <4>1. FALSE \in BOOLEAN
        OBVIOUS
      <4> QED BY <4>1, RequestsAreTyped
    <3> HIDE DEF s
    <3>3. Becomes("main", s)
      BY <1>t, <3>1, <3>2, OneSyncChanges
    <3>4. \A u \in Task : syncs'[u].since <= Len(stream') /\ syncs'[u].upto <= Len(stream')
      BY <1>0, <2>1, <3>2, <3>3 DEF Becomes, OnlyThis
    <3> QED BY <2>1, <3>1, <3>3, <3>4 DEF SyncsTyped, Becomes
  <2> QED BY <2>1, <2>2, <2>3
<1>6. ASSUME OthersRaise PROVE Untouched /\ SyncsTyped'
  <2> DEFINE left == IF Syncing("main") THEN syncs["main"] ELSE syncs["orphan"]
  <2>1. Leave(left) /\ Untouched /\ stream' = stream
    BY <1>0, <1>6 DEF OthersRaise, store, memory, past, Untouched
  <2>2. left \in SyncRecord /\ left.since <= Len(stream) /\ left.upto <= Len(stream)
    BY <1>0, <1>t
  <2> HIDE DEF left
  <2> QED BY <2>1, <2>2, LeavingIsTyped
<1>7. ASSUME Cancel PROVE Untouched /\ SyncsTyped'
  <2>1. interrupted' = (interrupted \/ Handling("main"))
    BY <1>7 DEF Cancel
  <2>2. Leave(syncs["orphan"]) /\ Untouched /\ stream' = stream
    BY <1>0, <1>7, <1>i, <1>t, <2>1 DEF Cancel, store, memory, Untouched
  <2> QED BY <1>0, <1>t, <2>2, LeavingIsTyped
<1> QED BY <1>1, <1>2, <1>3, <1>4, <1>5, <1>6, <1>7, UntouchedIsTyped

LEMMA EventsAreTyped ==
  ASSUME LoopTyped, RoomGood, NEW e \in Events, Happens(e)
  PROVE  LoopTyped' /\ RoomGood'
<1>1. /\ StoreTyped /\ SyncsTyped /\ MemoryTyped /\ PastTyped
  BY DEF LoopTyped
<1>2. stream' \in Seq(Events) /\ Len(stream') <= MaxEvents /\ Len(stream') = Len(stream) + 1 /\ Len(stream) \in Nat
  BY <1>1, BoundsAssumption DEF Happens, StoreTyped, Stream
<1>3. UNCHANGED <<loop, stop, syncs, members, sync_token, stored_encrypted, stored_keys, next_batch, rooms,
                  encrypted_rooms, loaded_sync_token, interrupted, overlapped, reinvited, stale, ahead, complete>>
  BY DEF Happens, store, memory, past
<1>4. \A n : Behind(n) => n \in Positions /\ n <= Len(stream')
  BY <1>2 DEF Behind, Positions
<1>5. StoreTyped' /\ MemoryTyped'
  <2>1. members.at <= Len(stream')
    BY <1>1, <1>2 DEF MemoryTyped, Positions
  <2> QED BY <1>1, <1>2, <1>3, <1>4, <2>1 DEF StoreTyped, Stream, MemoryTyped, Behind
<1>6. SyncsTyped'
  <2>1. \A t \in Task : syncs[t].since \in Positions /\ syncs[t].upto \in Positions
    BY <1>1 DEF SyncsTyped, SyncRecord
  <2>2. \A t \in Task : syncs[t].since <= Len(stream') /\ syncs[t].upto <= Len(stream')
    BY <1>1, <1>2, <2>1 DEF SyncsTyped, Positions
  <2> QED BY <1>1, <1>3, <2>2 DEF SyncsTyped, Syncing
<1>7. PastTyped' /\ RoomGood'
  BY <1>1, <1>3 DEF PastTyped, RoomGood
<1> QED BY <1>5, <1>6, <1>7 DEF LoopTyped

LEMMA MembersStepsAreTyped ==
  ASSUME LoopTyped, RoomGood, JoinedMembers \/ ServeMembers \/ ReceiveMembers
  PROVE  LoopTyped' /\ RoomGood'
<1>1. /\ StoreTyped /\ SyncsTyped /\ MemoryTyped /\ PastTyped /\ 0 \in Positions /\ Len(stream) \in Positions
      /\ Len(stream) \in Nat
  BY BoundsAssumption DEF LoopTyped, Positions, StoreTyped, Stream
<1>2. UNCHANGED <<stream, loop, stop, syncs, sync_token, stored_encrypted, stored_keys, next_batch,
                  encrypted_rooms, loaded_sync_token, interrupted, overlapped, reinvited, complete>>
  BY DEF JoinedMembers, ServeMembers, ReceiveMembers, store, memory, past
<1>3. members' \in [state : {"none", "flight", "answered"}, at : Positions] /\ members'.at <= Len(stream)
  <2>1. CASE JoinedMembers
    <3>1. members' = [members EXCEPT !.state = "flight"]
      BY <2>1 DEF JoinedMembers
    <3> QED BY <1>1, <3>1 DEF MemoryTyped
  <2>2. CASE ServeMembers
    BY <1>1, <2>2 DEF ServeMembers
  <2>3. CASE ReceiveMembers
    BY <1>1, <2>3 DEF ReceiveMembers, NoMembers
  <2> QED BY <2>1, <2>2, <2>3
<1>4. RoomGood' /\ stale' \in BOOLEAN /\ ahead' \in Positions
  <2>1. CASE UNCHANGED <<rooms, stale, ahead>>
    BY <1>1, <2>1 DEF RoomGood, PastTyped
  <2>2. CASE ~UNCHANGED <<rooms, stale, ahead>>
    <3> DEFINE n      == members.at
               joined == [u \in JoinedAt(n) |-> NameAt(u, n)]
    <3>1. ReceiveMembers /\ rooms # {}
      BY <2>2 DEF JoinedMembers, ServeMembers, ReceiveMembers, memory, past
    <3>2. rooms' = {HandleJoinedMembers(Room, joined)} /\ ahead' = (IF n > ahead THEN n ELSE ahead)
      BY <3>1 DEF ReceiveMembers
    <3>3. n \in 0..Len(stream) /\ n \in Positions
      BY <1>1 DEF MemoryTyped, Positions
    <3> HIDE DEF n
    <3>4. DOMAIN joined \subseteq User /\ \A u \in DOMAIN joined : joined[u] \in Name \cup {NoName}
      BY <1>1, <3>3, NamesAreNames DEF JoinedAt, StoreTyped
    <3> HIDE DEF joined
    <3>5. Good(HandleJoinedMembers(Room, joined))
      BY <3>4, RoomIsGood, JoinedMembersIsGood
    <3>6. stale' \in BOOLEAN
      <4> DEFINE late == stale \/ (members.at < next_batch /\ JoinedAt(members.at) # JoinedAt(next_batch))
      <4>1. stale' = late
        BY <3>1 DEF ReceiveMembers
      <4>2. late \in BOOLEAN
        BY Zenon
      <4> QED BY <4>1, <4>2
    <3> QED BY <1>1, <3>2, <3>3, <3>5, <3>6 DEF RoomGood, PastTyped
  <2> QED BY <2>1, <2>2
<1>5. StoreTyped' /\ SyncsTyped' /\ MemoryTyped' /\ PastTyped'
  BY <1>1, <1>2, <1>3, <1>4 DEF StoreTyped, Stream, SyncsTyped, Syncing, MemoryTyped, PastTyped, Behind
<1> QED BY <1>4, <1>5 DEF LoopTyped

LEMMA CrashIsTyped ==
  ASSUME LoopTyped, RoomGood, Crash
  PROVE  LoopTyped' /\ RoomGood'
<1>1. /\ StoreTyped /\ PastTyped /\ 0 \in Positions /\ Len(stream) \in Nat
  BY BoundsAssumption DEF LoopTyped, Positions, StoreTyped, Stream
<1>2. UNCHANGED <<stream, sync_token, stored_encrypted, stored_keys, overlapped>>
  BY DEF Crash, store
<1>3. StoreTyped'
  BY <1>1, <1>2 DEF StoreTyped, Stream, Behind
<1>4. SyncsTyped'
  <2>1. syncs' \in [Task -> SyncRecord] /\ \A t \in Task : syncs'[t] = NoSync
    BY SyncRecords DEF Crash
  <2>2. NoSync.since = 0 /\ NoSync.upto = 0 /\ NoSync.state = "none"
    BY SyncRecords
  <2>3. \A t \in Task : syncs'[t].since <= Len(stream') /\ syncs'[t].upto <= Len(stream')
    BY <1>1, <1>2, <2>1, <2>2
  <2>4. ~(Syncing("main"))'
    <3>1. syncs'["main"].state = "none"
      BY <2>1, <2>2 DEF Task
    <3> QED BY <3>1 DEF Syncing
  <2>5. loop' = "idle" /\ stop' = FALSE
    BY DEF Crash
  <2> QED BY <2>1, <2>3, <2>4, <2>5 DEF SyncsTyped
<1>5. MemoryTyped'
  <2>1. members' = [state |-> "none", at |-> 0] /\ next_batch' = 0 /\ loaded_sync_token' = sync_token
        /\ encrypted_rooms' = stored_encrypted
    BY DEF Crash, NoMembers
  <2>2. members' \in [state : {"none", "flight", "answered"}, at : Positions] /\ members'.at <= Len(stream)
    BY <1>1, <2>1
  <2> QED BY <1>1, <1>2, <2>1, <2>2 DEF MemoryTyped, StoreTyped, Behind
<1>6. PastTyped'
  <2> DEFINE i == interrupted \/ \E t \in Task : Handling(t)
  <2>1. i \in BOOLEAN
    BY Zenon
  <2>2. interrupted' = i
    BY DEF Crash
  <2> HIDE DEF i
  <2>3. reinvited' = FALSE /\ stale' = FALSE /\ ahead' = 0 /\ complete' = FALSE /\ overlapped' = overlapped
    BY DEF Crash
  <2> QED BY <1>1, <2>1, <2>2, <2>3 DEF PastTyped
<1>7. RoomGood'
  BY DEF Crash, RoomGood
<1> QED BY <1>3, <1>4, <1>5, <1>6, <1>7 DEF LoopTyped

LEMMA LoopTypedNext == LoopTyped /\ RoomGood /\ [Next]_vars => LoopTyped' /\ RoomGood'
<1> SUFFICES ASSUME LoopTyped, RoomGood, [Next]_vars PROVE LoopTyped' /\ RoomGood'
  OBVIOUS
<1>1. CASE UNCHANGED vars
  <2>1. UNCHANGED <<stream, loop, stop, syncs, members, sync_token, stored_encrypted, stored_keys, next_batch, rooms,
                    encrypted_rooms, loaded_sync_token, interrupted, overlapped, reinvited, stale, ahead, complete>>
    BY <1>1 DEF vars, store, memory, past
  <2>2. StoreTyped /\ SyncsTyped /\ MemoryTyped /\ PastTyped
    BY DEF LoopTyped
  <2>3. StoreTyped' /\ SyncsTyped' /\ MemoryTyped'
    BY <2>1, <2>2 DEF StoreTyped, Stream, SyncsTyped, Syncing, MemoryTyped, Behind
  <2>4. PastTyped' /\ RoomGood'
    BY <2>1, <2>2 DEF PastTyped, RoomGood
  <2> QED BY <2>3, <2>4 DEF LoopTyped
<1>2. CASE \E e \in Events : Happens(e)
  BY <1>2, EventsAreTyped
<1>3. CASE \E t \in Task : SyncStep(t)
  BY <1>3, SyncStepsAreTyped
<1>4. CASE \/ \E t \in Task : Refuse(t) \/ SyncRaises(t)
           \/ \E full \in BOOLEAN : Start(full)
           \/ FirstDone \/ Iterate \/ OthersRaise \/ Cancel \/ StopSyncForever
  BY <1>4, LoopStepsAreTyped
<1>5. CASE JoinedMembers \/ ServeMembers \/ ReceiveMembers
  BY <1>5, MembersStepsAreTyped
<1>6. CASE Crash
  BY <1>6, CrashIsTyped
<1> QED BY <1>1, <1>2, <1>3, <1>4, <1>5, <1>6 DEF Next

LEMMA RoomsFollow == LoopTyped /\ RoomGood => RoomsConsistent
<1> SUFFICES ASSUME LoopTyped, RoomGood PROVE RoomsConsistent
  OBVIOUS
<1>1. \A r \in rooms : Good(r)
  BY RoomIsGood
<1>2. Cardinality(rooms) \in {0, 1}
  <2>1. CASE rooms = {}
    BY <2>1, FS_EmptySet
  <2>2. CASE rooms # {}
    BY <2>2, FS_Singleton DEF RoomGood
  <2> QED BY <2>1, <2>2
<1>3. \A r \in rooms : r.invited_users \subseteq User /\ \A l \in Label, u \in User : r.names[l][u] \in {0, 1}
  <2> SUFFICES ASSUME NEW r \in rooms
               PROVE  r.invited_users \subseteq User /\ \A l \in Label, u \in User : r.names[l][u] \in {0, 1}
    OBVIOUS
  <2>1. Consistent(r) /\ DOMAIN r.users \subseteq User
    BY <1>1 DEF Good, RoomTyped
  <2> QED BY <2>1 DEF Consistent, Members
<1>4. {stop, encrypted_rooms, stored_encrypted, interrupted, overlapped, reinvited, stale, complete} \subseteq BOOLEAN
  <2>1. stop \in BOOLEAN /\ encrypted_rooms \in BOOLEAN /\ stored_encrypted \in BOOLEAN
    BY DEF LoopTyped, SyncsTyped, MemoryTyped, StoreTyped
  <2>2. interrupted \in BOOLEAN /\ overlapped \in BOOLEAN /\ reinvited \in BOOLEAN /\ stale \in BOOLEAN
        /\ complete \in BOOLEAN
    BY DEF LoopTyped, PastTyped
  <2> QED BY <2>1, <2>2, Zenon
<1>5. {next_batch, sync_token, loaded_sync_token, ahead, members.at} \subseteq Positions
  BY DEF LoopTyped, StoreTyped, MemoryTyped, PastTyped, Behind
<1>6. /\ Len(stream) \in Positions /\ loop \in {"idle", "first", "gather"}
      /\ \A t \in Task : syncs[t].since \in Positions /\ syncs[t].upto \in Positions
      /\ stored_keys \subseteq Positions
      /\ loop = "idle" => ~Syncing("main")
  BY BoundsAssumption DEF LoopTyped, StoreTyped, Stream, SyncsTyped, SyncRecord, Positions
<1> QED BY <1>1, <1>2, <1>3, <1>4, <1>5, <1>6 DEF RoomsConsistent, TypeOK, Good

-----------------------------------------------------------------------------
(* Nothing that is told only once is lost.                                 *)

\* A room key of the stream is in the store, or a response that is being handled
\* will still store it; the same for the encryption of the room.
KeyKnown(i) ==
  \/ i \in stored_keys
  \/ \E t \in Task : Handling(t) /\ \E j \in DOMAIN syncs[t].steps : syncs[t].steps[j] = KeyBatch(i)
EncryptionKnown ==
  \/ stored_encrypted
  \/ \E t \in Task : Handling(t) /\ (syncs[t].encrypted \/ Tells(syncs[t].steps))
Known(n) ==
  /\ \A i \in 1..n : stream[i].type = "key" => KeyKnown(i)
  /\ EncryptedAt(n) => EncryptionKnown

\* The tokens the client has, or has asked with.
Asking == {t \in Task : syncs[t].state \in {"flight", "answered"}}
Held   == {next_batch, sync_token, loaded_sync_token} \cup {syncs[t].since : t \in Asking}
AllKnown == ~interrupted => \A n \in Held : Known(n)

\* An answer has all that has happened since the token it was asked with.
Whole(s) ==
  /\ \A i \in (s.since + 1)..s.upto :
       stream[i].type = "key" => \E j \in DOMAIN s.steps : s.steps[j] = KeyBatch(i)
  /\ EncryptedAt(s.upto) /\ ~EncryptedAt(s.since) => Tells(s.steps)
AnswersWhole == \A t \in Task : syncs[t].state = "answered" => Whole(syncs[t])

\* What is known of the encryption is true of the room in memory.
RoomEncrypted ==
  /\ stored_encrypted => \A r \in rooms : r.encrypted
  /\ \A t \in Task : syncs[t].encrypted =>
       Handling(t) /\ rooms # {} /\ \A r \in rooms : r.encrypted
Keeping == AllKnown /\ AnswersWhole /\ RoomEncrypted

\* Where the sync of a task comes from.
Origin(u) ==
  \/ \E t \in Task : syncs'[u] = syncs[t]
  \/ syncs'[u].state \in {"none", "done"} /\ ~syncs'[u].encrypted
  \/ syncs'[u].state = "flight" /\ syncs'[u].since = From /\ ~syncs'[u].encrypted
  \/ Serve(u)
  \/ Receive(u) /\ syncs'[u].state = "handling" /\ syncs'[u].encrypted = syncs[u].encrypted
  \/ Step(u)

LEMMA OthersHaveOrigins ==
  ASSUME LoopTyped, NEW t \in Task, NEW s, Becomes(t, s), NEW u \in Task, u # t
  PROVE  Origin(u)
BY DEF Becomes, OnlyThis, Origin

LEMMA SyncsHaveOrigins ==
  ASSUME LoopTyped, RoomGood, [Next]_vars, NEW u \in Task
  PROVE  Origin(u)
<1>t. "main" \in Task /\ "orphan" \in Task /\ \A t \in Task : t = "main" \/ t = "orphan"
  BY DEF Task
<1>n. /\ NoSync.state = "none" /\ ~NoSync.encrypted
      /\ [NoSync EXCEPT !.state = "done"].state = "done" /\ ~[NoSync EXCEPT !.state = "done"].encrypted
      /\ NoSync \in SyncRecord
  BY SyncRecords
<1>s. \A t \in Task : syncs[t] \in SyncRecord
  BY SyncsAreRecords
<1>d. ASSUME NEW t \in Task, Done(t) PROVE Origin(u)
  <2>1. PICK s : Becomes(t, s) /\ s.state \in {"none", "done"} /\ ~s.encrypted
    <3> DEFINE s == IF t = "main" THEN [NoSync EXCEPT !.state = "done"] ELSE NoSync
    <3>1. Becomes(t, s)
      BY <1>d, DoneSays
    <3>2. s.state \in {"none", "done"} /\ ~s.encrypted
      BY <1>n
    <3> QED BY <3>1, <3>2
  <2>2. CASE u = t
    BY <2>1, <2>2 DEF Becomes, Origin
  <2>3. CASE u # t
    BY <2>1, <2>3, OthersHaveOrigins
  <2> QED BY <2>2, <2>3
<1>l. ASSUME NEW left \in Task, Leave(syncs[left]) PROVE Origin(u)
  <2>1. syncs'["main"] = NoSync /\ syncs'["orphan"] = syncs[left]
    BY <1>l, <1>s, LeaveSays
  <2> QED BY <1>n, <1>t, <2>1 DEF Origin
<1>0. CASE syncs' = syncs
  BY <1>0 DEF Origin
<1>1. CASE UNCHANGED vars
  BY <1>0, <1>1 DEF vars
<1>2. CASE \E e \in Events : Happens(e)
  BY <1>0, <1>2 DEF Happens
<1>3. ASSUME NEW t \in Task, SyncStep(t) PROVE Origin(u)
  <2>1. CASE Serve(t)
    BY <2>1, ServeSays, OthersHaveOrigins DEF Origin
  <2>2. CASE Receive(t)
    <3>1. CASE Done(t)
      BY <1>d, <3>1
    <3>2. CASE Becomes(t, SyncOf("handling", 0, FALSE, syncs[t].upto, syncs[t].steps, syncs[t].encrypted))
      <4>1. CASE u = t
        BY <2>2, <3>2, <4>1 DEF Becomes, SyncOf, Origin
      <4>2. CASE u # t
        BY <3>2, <4>2, OthersHaveOrigins
      <4> QED BY <4>1, <4>2
    <3> QED BY <2>2, <3>1, <3>2, ReceiveSays
  <2>3. CASE Step(t)
    BY <2>3, StepsSay, OthersHaveOrigins DEF Origin
  <2>4. CASE Finish(t)
    BY <1>d, <2>4 DEF Finish
  <2> QED BY <1>3, <2>1, <2>2, <2>3, <2>4 DEF SyncStep
<1>4. ASSUME NEW t \in Task, Refuse(t) PROVE Origin(u)
  BY <1>4, <1>d DEF Refuse
<1>5. ASSUME NEW t \in Task, SyncRaises(t) PROVE Origin(u)
  <2>1. CASE t = "main"
    BY <1>5, <1>l, <1>t, <2>1 DEF SyncRaises
  <2>2. CASE t # "main"
    <3>1. Becomes(t, NoSync)
      BY <1>5, <1>n, <2>2, OneSyncChanges DEF SyncRaises
    <3>2. CASE u = t
      BY <1>n, <3>1, <3>2 DEF Becomes, Origin
    <3>3. CASE u # t
      BY <3>1, <3>3, OthersHaveOrigins
    <3> QED BY <3>2, <3>3
  <2> QED BY <2>1, <2>2
<1>r. ASSUME NEW full \in BOOLEAN, syncs' = [syncs EXCEPT !["main"] = Request(full)] PROVE Origin(u)
  <2> DEFINE s == Request(full)
  <2>1. /\ s \in SyncRecord /\ s.state = "flight" /\ s.since = From /\ ~s.encrypted
    BY RequestsAreTyped
  <2> HIDE DEF s
  <2>2. Becomes("main", s)
    BY <1>r, <1>t, <2>1, OneSyncChanges DEF s
  <2>3. CASE u = "main"
    BY <2>1, <2>2, <2>3 DEF Becomes, Origin
  <2>4. CASE u # "main"
    BY <1>t, <2>2, <2>4, OthersHaveOrigins
  <2> QED BY <2>3, <2>4
<1>6. ASSUME NEW full \in BOOLEAN, Start(full) PROVE Origin(u)
  BY <1>0, <1>6, <1>r DEF Start
<1>7. CASE FirstDone \/ StopSyncForever \/ JoinedMembers \/ ServeMembers \/ ReceiveMembers
  BY <1>0, <1>7 DEF FirstDone, StopSyncForever, JoinedMembers, ServeMembers, ReceiveMembers
<1>8. CASE Iterate
  <2>1. CASE Stops
    <3>1. Becomes("main", NoSync)
      BY <1>8, <1>n, <1>t, <2>1, OneSyncChanges DEF Iterate
    <3>2. CASE u = "main"
      BY <1>n, <3>1, <3>2 DEF Becomes, Origin
    <3>3. CASE u # "main"
      BY <1>t, <3>1, <3>3, OthersHaveOrigins
    <3> QED BY <3>2, <3>3
  <2>2. CASE ~Stops
    <3>1. syncs' = [syncs EXCEPT !["main"] = Request(FALSE)]
      BY <1>8, <2>2 DEF Iterate
    <3>2. FALSE \in BOOLEAN
      OBVIOUS
    <3> QED BY <1>r, <3>1, <3>2
  <2> QED BY <2>1, <2>2
<1>9. CASE OthersRaise
  <2>1. \E left \in Task : Leave(syncs[left])
    <3>1. CASE Syncing("main")
      BY <1>9, <1>t, <3>1 DEF OthersRaise
    <3>2. CASE ~Syncing("main")
      BY <1>9, <1>t, <3>2 DEF OthersRaise
    <3> QED BY <3>1, <3>2
  <2> QED BY <1>l, <2>1
<1>10. CASE Cancel
  BY <1>10, <1>l, <1>t DEF Cancel
<1>11. CASE Crash
  <2>1. syncs'[u] = NoSync
    BY <1>11 DEF Crash
  <2> QED BY <1>n, <2>1 DEF Origin
<1> QED BY <1>1, <1>2, <1>3, <1>4, <1>5, <1>6, <1>7, <1>8, <1>9, <1>10, <1>11 DEF Next

LEMMA StreamGrows ==
  ASSUME LoopTyped, [Next]_vars
  PROVE  /\ Len(stream) \in Nat /\ Len(stream') \in Nat /\ Len(stream) <= Len(stream')
         /\ \A i \in 1..Len(stream) : stream'[i] = stream[i]
         /\ \A n \in 0..Len(stream) : EncryptedAt(n)' <=> EncryptedAt(n)
<1>0. stream \in Seq(Events) /\ Len(stream) \in Nat
  BY DEF LoopTyped, StoreTyped, Stream
<1>1. \/ stream' = stream
      \/ \E e \in Events : stream' = Append(stream, e)
  BY DEF Next, vars, SyncStep, Happens, Serve, Receive, Step, Finish, Refuse, SyncRaises, Start, FirstDone, Iterate,
     OthersRaise, Cancel, StopSyncForever, JoinedMembers, ServeMembers, ReceiveMembers, Crash
<1>2. /\ Len(stream') \in Nat /\ Len(stream) <= Len(stream')
      /\ \A i \in 1..Len(stream) : stream'[i] = stream[i]
  BY <1>0, <1>1
<1>3. ASSUME NEW n \in 0..Len(stream) PROVE EncryptedAt(n)' <=> EncryptedAt(n)
  <2>1. \A i \in 1..n : stream'[i] = stream[i]
    BY <1>0, <1>2
  <2> QED BY <2>1 DEF EncryptedAt
<1> QED BY <1>0, <1>2, <1>3

LEMMA ServedIsWhole ==
  ASSUME LoopTyped, NEW t \in Task, Serve(t)
  PROVE  Whole(syncs[t])'
<1> DEFINE r  == syncs[t]
           n  == Len(stream)
           td == ToDevice(r.since, n)
           rs == RoomSteps(r.since, n, r.full)
<1>1. Stream /\ n \in 0..Len(stream) /\ r.since \in 0..Len(stream) /\ r.since \in Nat /\ r.full \in BOOLEAN
  <2>1. r \in SyncRecord /\ r.since <= n
    BY SyncsAreRecords
  <2>2. Stream
    BY DEF LoopTyped, StoreTyped
  <2> QED BY <2>1, <2>2 DEF Stream, SyncRecord, Positions
<1>2. /\ td \in Seq(KeyBatches)
      /\ \A i \in (r.since + 1)..n : stream[i].type = "key" => \E j \in DOMAIN td : td[j] = KeyBatch(i)
  BY <1>1, ToDeviceSays
<1>3. rs \in Seq(RoomBatches) /\ (EncryptedAt(n) /\ ~EncryptedAt(r.since) => Tells(rs))
  BY <1>1, RoomStepsSay
<1>4. syncs'[t] = SyncOf("answered", r.since, r.full, n, td \o rs, r.encrypted) /\ stream' = stream
  BY ServeSays DEF Becomes, HandleSync, Serve
<1>5. syncs'[t].since = r.since /\ syncs'[t].upto = n /\ syncs'[t].steps = td \o rs
  BY <1>4 DEF SyncOf
<1> HIDE DEF td, rs, r
<1> DEFINE all == td \o rs
<1>6. /\ \A j \in DOMAIN td : j \in DOMAIN all /\ all[j] = td[j]
      /\ \A j \in DOMAIN rs : Len(td) + j \in DOMAIN all /\ all[Len(td) + j] = rs[j]
  BY <1>2, <1>3
<1> HIDE DEF all
<1>7. \A i \in (r.since + 1)..n : stream[i].type = "key" => \E j \in DOMAIN all : all[j] = KeyBatch(i)
  <2> SUFFICES ASSUME NEW i \in (r.since + 1)..n, stream[i].type = "key"
               PROVE  \E j \in DOMAIN all : all[j] = KeyBatch(i)
    OBVIOUS
  <2>1. PICK j \in DOMAIN td : td[j] = KeyBatch(i)
    BY <1>2
  <2> QED BY <1>6, <2>1
<1>8. Tells(rs) => Tells(all)
  <2> SUFFICES ASSUME Tells(rs) PROVE Tells(all)
    OBVIOUS
  <2>1. PICK j \in DOMAIN rs : \E k \in DOMAIN rs[j] : rs[j][k].type = "encryption"
    BY DEF Tells
  <2>2. Len(td) + j \in DOMAIN all /\ all[Len(td) + j] = rs[j]
    BY <1>6
  <2> QED BY <2>1, <2>2 DEF Tells
<1>9. EncryptedAt(n)' <=> EncryptedAt(n)
  BY <1>4 DEF EncryptedAt
<1>10. EncryptedAt(syncs[t].upto)' => EncryptedAt(n)
  BY <1>4, <1>5 DEF EncryptedAt
<1>11. EncryptedAt(r.since) => EncryptedAt(syncs[t].since)'
  BY <1>4, <1>5 DEF EncryptedAt
<1>12. Tells(all) => Tells(syncs[t].steps)'
  BY <1>5 DEF Tells, all
<1>13. (EncryptedAt(syncs[t].upto) /\ ~EncryptedAt(syncs[t].since))' => Tells(syncs[t].steps)'
  BY <1>3, <1>8, <1>10, <1>11, <1>12
<1>14. \A i \in (syncs'[t].since + 1)..syncs'[t].upto : stream'[i].type = "key" =>
         \E j \in DOMAIN syncs'[t].steps : syncs'[t].steps[j] = KeyBatch(i)
  BY <1>4, <1>5, <1>7 DEF all
<1> QED BY <1>13, <1>14 DEF Whole

LEMMA AnswersStayWhole ==
  ASSUME LoopTyped, RoomGood, AnswersWhole, [Next]_vars
  PROVE  AnswersWhole'
<1> SUFFICES ASSUME NEW u \in Task, syncs'[u].state = "answered" PROVE Whole(syncs[u])'
  BY DEF AnswersWhole
<1>1. CASE Serve(u)
  BY <1>1, ServedIsWhole
<1>2. CASE \E t \in Task : syncs'[u] = syncs[t]
  <2>1. PICK t \in Task : syncs'[u] = syncs[t]
    BY <1>2
  <2> DEFINE r == syncs[t]
  <2>2. Whole(r) /\ r \in SyncRecord /\ r.since <= Len(stream) /\ r.upto <= Len(stream)
    BY <2>1, SyncsAreRecords DEF AnswersWhole
  <2> HIDE DEF r
  <2>3. r.since \in 0..Len(stream) /\ r.upto \in 0..Len(stream) /\ r.since \in Nat /\ r.upto \in Nat
    BY <2>2, StreamGrows DEF SyncRecord, Positions
  <2>4. \A i \in (r.since + 1)..r.upto : stream'[i] = stream[i]
    BY <2>3, StreamGrows
  <2>5. /\ (\E i \in 1..r.since : stream'[i].type = "encryption") <=> EncryptedAt(r.since)
        /\ (\E i \in 1..r.upto : stream'[i].type = "encryption") <=> EncryptedAt(r.upto)
    <3>1. \A n \in 0..Len(stream) : (\E i \in 1..n : stream'[i].type = "encryption") <=> EncryptedAt(n)
      BY StreamGrows DEF EncryptedAt
    <3> QED BY <2>3, <3>1
  <2>6. syncs'[u] = r
    BY <2>1 DEF r
  <2>7. \A i \in (syncs'[u].since + 1)..syncs'[u].upto : stream'[i].type = "key" =>
          \E j \in DOMAIN syncs'[u].steps : syncs'[u].steps[j] = KeyBatch(i)
    BY <2>2, <2>4, <2>6 DEF Whole
  <2>8. (EncryptedAt(syncs[u].upto) /\ ~EncryptedAt(syncs[u].since))' => Tells(syncs[u].steps)'
    <3>1. EncryptedAt(syncs[u].upto)' => EncryptedAt(r.upto)
      BY <2>5, <2>6 DEF EncryptedAt
    <3>2. EncryptedAt(r.since) => EncryptedAt(syncs[u].since)'
      BY <2>5, <2>6 DEF EncryptedAt
    <3>3. Tells(r.steps) => Tells(syncs[u].steps)'
      BY <2>6 DEF Tells
    <3> QED BY <2>2, <3>1, <3>2, <3>3 DEF Whole
  <2> QED BY <2>7, <2>8 DEF Whole
<1>3. CASE ~Serve(u) /\ ~\E t \in Task : syncs'[u] = syncs[t]
  <2>1. syncs'[u].state \in {"none", "done", "flight", "handling"} \/ Step(u)
    BY <1>3, SyncsHaveOrigins DEF Origin
  <2>2. CASE Step(u)
    <3>1. syncs'[u].state = syncs[u].state
      <4> DEFINE r == syncs[u]
                 s == SyncOf(r.state, r.since, r.full, r.upto, Tail(r.steps),
                        r.encrypted \/ \E i \in DOMAIN Head(r.steps) : Head(r.steps)[i].type = "encryption")
      <4>1. syncs'[u] = s
        BY <2>2, StepsSay DEF Becomes
      <4>2. s.state = syncs[u].state
        BY DEF SyncOf
      <4> QED BY <4>1, <4>2, Zenon
    <3> QED BY <2>2, <3>1 DEF Step, Handling
  <2> QED BY <2>1, <2>2
<1> QED BY <1>1, <1>2, <1>3

\* A response that is being handled goes on being handled, by the same task or by
\* one that nobody waits for.
Carried ==
  \A t \in Task : Handling(t) =>
    \E u \in Task : /\ syncs'[u].state = "handling" /\ syncs'[u].steps = syncs[t].steps
                    /\ syncs'[u].encrypted = syncs[t].encrypted

LEMMA CarryingKeeps ==
  ASSUME Carried, stored_keys' = stored_keys, stored_encrypted' = stored_encrypted
  PROVE  /\ \A i : KeyKnown(i) => KeyKnown(i)'
         /\ EncryptionKnown => EncryptionKnown'
<1>1. ASSUME NEW i, KeyKnown(i) PROVE KeyKnown(i)'
  <2>1. CASE i \in stored_keys
    BY <2>1 DEF KeyKnown
  <2>2. CASE \E t \in Task : Handling(t) /\ \E j \in DOMAIN syncs[t].steps : syncs[t].steps[j] = KeyBatch(i)
    <3>1. PICK t \in Task : Handling(t) /\ \E j \in DOMAIN syncs[t].steps : syncs[t].steps[j] = KeyBatch(i)
      BY <2>2
    <3>2. PICK u \in Task : syncs'[u].state = "handling" /\ syncs'[u].steps = syncs[t].steps
      BY <3>1 DEF Carried
    <3> QED BY <3>1, <3>2 DEF KeyKnown, Handling, KeyBatch
  <2> QED BY <1>1, <2>1, <2>2 DEF KeyKnown
<1>2. ASSUME EncryptionKnown PROVE EncryptionKnown'
  <2>1. CASE stored_encrypted
    BY <2>1 DEF EncryptionKnown
  <2>2. CASE \E t \in Task : Handling(t) /\ (syncs[t].encrypted \/ Tells(syncs[t].steps))
    <3>1. PICK t \in Task : Handling(t) /\ (syncs[t].encrypted \/ Tells(syncs[t].steps))
      BY <2>2
    <3>2. PICK u \in Task : /\ syncs'[u].state = "handling" /\ syncs'[u].steps = syncs[t].steps
                            /\ syncs'[u].encrypted = syncs[t].encrypted
      BY <3>1 DEF Carried
    <3>3. syncs'[u].encrypted \/ Tells(syncs[u].steps)'
      BY <3>1, <3>2 DEF Tells
    <3> QED BY <3>2, <3>3 DEF EncryptionKnown, Handling
  <2> QED BY <1>2, <2>1, <2>2 DEF EncryptionKnown
<1> QED BY <1>1, <1>2

LEMMA OthersAreCarried ==
  ASSUME LoopTyped, NEW t \in Task, NEW s, Becomes(t, s), ~Handling(t)
  PROVE  Carried
BY DEF Becomes, OnlyThis, Carried, Handling

HasEncryption(batch) == \E i \in DOMAIN batch : batch[i].type = "encryption"

\* A step does what its batch asks for and leaves the other batches.
LEMMA StepLeaves ==
  ASSUME LoopTyped, NEW t \in Task, Step(t)
  PROVE  /\ OnlyThis(t) /\ Handling(t) /\ syncs'[t].state = "handling"
         /\ syncs'[t].encrypted <=> (syncs[t].encrypted \/ HasEncryption(Head(syncs[t].steps)))
         /\ \A j \in DOMAIN syncs[t].steps :
              \/ syncs[t].steps[j] = Head(syncs[t].steps)
              \/ \E k \in DOMAIN syncs'[t].steps : syncs'[t].steps[k] = syncs[t].steps[j]
<1> DEFINE r  == syncs[t]
           en == r.encrypted \/ \E i \in DOMAIN Head(r.steps) : Head(r.steps)[i].type = "encryption"
           s  == SyncOf(r.state, r.since, r.full, r.upto, Tail(r.steps), en)
<1>1. syncs'[t] = s /\ OnlyThis(t)
  BY StepsSay DEF Becomes
<1>2. s.state = r.state /\ s.steps = Tail(r.steps) /\ s.encrypted = en
  <2> HIDE DEF r, en
  <2> QED BY DEF SyncOf
<1>3. Handling(t) /\ r.state = "handling" /\ r.steps # <<>>
  BY DEF Step, Handling
<1>4. r.steps \in Seq(Batches)
  BY DEF LoopTyped, SyncsTyped, SyncRecord
<1>5. ASSUME NEW j \in DOMAIN r.steps
      PROVE  r.steps[j] = Head(r.steps) \/ \E k \in DOMAIN Tail(r.steps) : Tail(r.steps)[k] = r.steps[j]
  <2> HIDE DEF r
  <2>1. CASE j = 1
    BY <1>3, <1>4, <2>1
  <2>2. CASE j # 1
    <3>1. j - 1 \in DOMAIN Tail(r.steps) /\ Tail(r.steps)[j - 1] = r.steps[j]
      BY <1>3, <1>4, <2>2
    <3> QED BY <3>1
  <2> QED BY <2>1, <2>2
<1> HIDE DEF s
<1>6. syncs'[t].encrypted <=> (syncs[t].encrypted \/ HasEncryption(Head(syncs[t].steps)))
  BY <1>1, <1>2, Zenon DEF HasEncryption
<1>7. syncs'[t].state = "handling"
  BY <1>1, <1>2, <1>3
<1>8. syncs'[t].steps = Tail(r.steps)
  BY <1>1, <1>2
<1> QED BY <1>1, <1>3, <1>5, <1>6, <1>7, <1>8

\* What is known stays known: what a step takes out of a response it stores, and
\* what is lost with a response shows in interrupted.
LEMMA KnowledgeStays ==
  ASSUME LoopTyped, RoomGood, [Next]_vars, ~interrupted'
  PROVE  /\ ~interrupted
         /\ \A i : KeyKnown(i) => KeyKnown(i)'
         /\ EncryptionKnown => EncryptionKnown'
<1> DEFINE Grown == /\ ~interrupted
                    /\ \A i : KeyKnown(i) => KeyKnown(i)'
                    /\ EncryptionKnown => EncryptionKnown'
<1> SUFFICES Grown
  OBVIOUS
<1>t. "main" \in Task /\ "orphan" \in Task /\ \A t \in Task : t = "main" \/ t = "orphan"
  BY DEF Task
<1>s. \A t \in Task : syncs[t] \in SyncRecord
  BY SyncsAreRecords
<1>c. ASSUME Carried, stored_keys' = stored_keys, stored_encrypted' = stored_encrypted, interrupted' = interrupted
      PROVE  Grown
  BY <1>c, CarryingKeeps
<1>k. ASSUME syncs' = syncs, stored_keys' = stored_keys, stored_encrypted' = stored_encrypted, interrupted' = interrupted
      PROVE  Grown
  <2>1. Carried
    BY <1>k DEF Carried, Handling
  <2> QED BY <1>c, <1>k, <2>1
<1>d. ASSUME NEW t \in Task, Done(t), ~Handling(t) PROVE Carried
  BY <1>d, DoneSays, OthersAreCarried
<1>l. ASSUME NEW left \in Task, Leave(syncs[left]), \A t \in Task : Handling(t) => t = left PROVE Carried
  <2>1. syncs'["orphan"] = syncs[left]
    BY <1>l, <1>s, LeaveSays
  <2> QED BY <1>l, <1>t, <2>1 DEF Carried, Handling
<1>0. CASE UNCHANGED vars
  BY <1>0, <1>k DEF vars, store, past
<1>1. CASE \/ \E e \in Events : Happens(e)
           \/ FirstDone \/ StopSyncForever \/ JoinedMembers \/ ServeMembers \/ ReceiveMembers
  BY <1>1, <1>k DEF Happens, FirstDone, StopSyncForever, JoinedMembers, ServeMembers, ReceiveMembers, store, past
<1>2. ASSUME NEW t \in Task, Serve(t) PROVE Grown
  <2>1. Carried
    BY <1>2, ServeSays, OthersAreCarried DEF Handling
  <2> QED BY <1>2, <1>c, <2>1 DEF Serve, store, past
<1>3. ASSUME NEW t \in Task, Receive(t) PROVE Grown
  <2>1. ~Handling(t) /\ stored_keys' = stored_keys /\ stored_encrypted' = stored_encrypted
    BY <1>3 DEF Receive, Handling
  <2>2. interrupted' = interrupted
    BY <1>3 DEF Receive
  <2>3. Carried
    BY <1>3, <1>d, <2>1, ReceiveSays, OthersAreCarried
  <2> QED BY <1>c, <2>1, <2>2, <2>3
<1>4. ASSUME NEW t \in Task, Step(t) PROVE Grown
  <2> DEFINE steps == syncs[t].steps
             batch == Head(steps)
  <2>1. /\ \A u \in Task \ {t} : syncs'[u] = syncs[u]
        /\ Handling(t) /\ syncs'[t].state = "handling"
        /\ syncs'[t].encrypted <=> (syncs[t].encrypted \/ HasEncryption(batch))
        /\ \A j \in DOMAIN steps :
             steps[j] = batch \/ \E k \in DOMAIN syncs'[t].steps : syncs'[t].steps[k] = steps[j]
    BY <1>4, StepLeaves DEF OnlyThis
  <2>2. stored_encrypted' = stored_encrypted /\ interrupted' = interrupted
    BY <1>4 DEF Step
  <2>3. \/ \E i \in 1..MaxEvents : batch = KeyBatch(i) /\ stored_keys' = stored_keys \cup {i}
        \/ batch \in RoomBatches /\ stored_keys' = stored_keys
    BY <1>4, StepSays
  <2>4. ASSUME NEW i, batch = KeyBatch(i) PROVE i \in stored_keys'
    <3>1. batch \notin RoomBatches
      <4>1. batch[1].type = "key" /\ DOMAIN batch = 1..1
        BY <2>4 DEF KeyBatch
      <4>2. batch \in RoomBatches => batch[1] \in Item
        BY <4>1 DEF RoomBatches
      <4>3. \A e \in Item : e.type # "key"
        BY EventsHaveTypes DEF Item, Summaries
      <4> QED BY <4>1, <4>2, <4>3
    <3>2. PICK k \in 1..MaxEvents : batch = KeyBatch(k) /\ stored_keys' = stored_keys \cup {k}
      BY <2>3, <3>1
    <3>3. KeyBatch(i)[1].at = i /\ KeyBatch(k)[1].at = k
      BY DEF KeyBatch
    <3> QED BY <2>4, <3>2, <3>3
  <2>5. stored_keys \subseteq stored_keys'
    BY <2>3
  <2>6. ASSUME NEW i, KeyKnown(i) PROVE KeyKnown(i)'
    <3>1. CASE i \in stored_keys
      BY <2>5, <3>1 DEF KeyKnown
    <3>2. CASE \E u \in Task : Handling(u) /\ \E j \in DOMAIN syncs[u].steps : syncs[u].steps[j] = KeyBatch(i)
      <4>1. PICK u \in Task : Handling(u) /\ \E j \in DOMAIN syncs[u].steps : syncs[u].steps[j] = KeyBatch(i)
        BY <3>2
      <4>2. CASE u = t
        <5>1. PICK j \in DOMAIN steps : steps[j] = KeyBatch(i)
          BY <4>1, <4>2
        <5>2. CASE steps[j] = batch
          BY <2>4, <5>1, <5>2 DEF KeyKnown
        <5>3. CASE \E k \in DOMAIN syncs'[t].steps : syncs'[t].steps[k] = steps[j]
          BY <2>1, <5>1, <5>3 DEF KeyKnown, Handling, KeyBatch
        <5> QED BY <2>1, <5>2, <5>3
      <4>3. CASE u # t
        <5>1. syncs'[u] = syncs[u]
          BY <2>1, <4>3
        <5> QED BY <4>1, <5>1 DEF KeyKnown, Handling, KeyBatch
      <4> QED BY <4>2, <4>3
    <3> QED BY <2>6, <3>1, <3>2 DEF KeyKnown
  <2>7. ASSUME EncryptionKnown PROVE EncryptionKnown'
    <3>1. CASE stored_encrypted
      BY <2>2, <3>1 DEF EncryptionKnown
    <3>2. CASE \E u \in Task : Handling(u) /\ (syncs[u].encrypted \/ Tells(syncs[u].steps))
      <4>1. PICK u \in Task : Handling(u) /\ (syncs[u].encrypted \/ Tells(syncs[u].steps))
        BY <3>2
      <4>2. CASE u = t
        <5>1. syncs'[t].encrypted \/ Tells(syncs[t].steps)'
          <6>1. CASE syncs[u].encrypted
            BY <2>1, <4>2, <6>1
          <6>2. CASE Tells(steps)
            <7>1. PICK j \in DOMAIN steps : \E k \in DOMAIN steps[j] : steps[j][k].type = "encryption"
              BY <6>2 DEF Tells
            <7>2. CASE steps[j] = batch
              <8>1. HasEncryption(batch)
                <9> HIDE DEF batch
                <9> QED BY <7>1, <7>2 DEF HasEncryption
              <8> QED BY <2>1, <8>1
            <7>3. CASE \E k \in DOMAIN syncs'[t].steps : syncs'[t].steps[k] = steps[j]
              BY <7>1, <7>3 DEF Tells
            <7> QED BY <2>1, <7>2, <7>3
          <6> QED BY <4>1, <4>2, <6>1, <6>2
        <5> QED BY <2>1, <5>1 DEF EncryptionKnown, Handling
      <4>3. CASE u # t
        <5>1. syncs'[u] = syncs[u]
          BY <2>1, <4>3
        <5>2. (syncs[u].encrypted \/ Tells(syncs[u].steps))' /\ Handling(u)'
          BY <4>1, <5>1 DEF Tells, Handling
        <5> QED BY <5>2 DEF EncryptionKnown
      <4> QED BY <4>2, <4>3
    <3> QED BY <2>7, <3>1, <3>2 DEF EncryptionKnown
  <2> QED BY <2>2, <2>6, <2>7
<1>5. ASSUME NEW t \in Task, Finish(t) PROVE Grown
  <2>1. /\ syncs[t].steps = <<>> /\ stored_keys' = stored_keys /\ interrupted' = interrupted /\ Done(t)
        /\ stored_encrypted' = (stored_encrypted \/ syncs[t].encrypted)
    BY <1>5 DEF Finish, StoredEncrypted, past
  <2>2. \A u \in Task \ {t} : syncs'[u] = syncs[u]
    BY <2>1, DoneSays DEF Becomes, OnlyThis
  <2>3. ASSUME NEW i, KeyKnown(i) PROVE KeyKnown(i)'
    <3>1. CASE i \in stored_keys
      BY <2>1, <3>1 DEF KeyKnown
    <3>2. CASE \E u \in Task : Handling(u) /\ \E j \in DOMAIN syncs[u].steps : syncs[u].steps[j] = KeyBatch(i)
      <4>1. PICK u \in Task : Handling(u) /\ \E j \in DOMAIN syncs[u].steps : syncs[u].steps[j] = KeyBatch(i)
        BY <3>2
      <4>2. u # t
        BY <2>1, <4>1
      <4>3. syncs'[u] = syncs[u]
        BY <2>2, <4>2
      <4> QED BY <4>1, <4>3 DEF KeyKnown, Handling, KeyBatch
    <3> QED BY <2>3, <3>1, <3>2 DEF KeyKnown
  <2>4. ASSUME EncryptionKnown PROVE EncryptionKnown'
    <3>1. CASE stored_encrypted
      BY <2>1, <3>1 DEF EncryptionKnown
    <3>2. CASE \E u \in Task : Handling(u) /\ (syncs[u].encrypted \/ Tells(syncs[u].steps))
      <4>1. PICK u \in Task : Handling(u) /\ (syncs[u].encrypted \/ Tells(syncs[u].steps))
        BY <3>2
      <4>2. CASE u = t
        <5>1. ~Tells(syncs[t].steps)
          BY <2>1 DEF Tells
        <5> QED BY <2>1, <4>1, <4>2, <5>1 DEF EncryptionKnown
      <4>3. CASE u # t
        <5>1. syncs'[u] = syncs[u]
          BY <2>2, <4>3
        <5>2. (syncs[u].encrypted \/ Tells(syncs[u].steps))' /\ Handling(u)'
          BY <4>1, <5>1 DEF Tells, Handling
        <5> QED BY <5>2 DEF EncryptionKnown
      <4> QED BY <4>2, <4>3
    <3> QED BY <2>4, <3>1, <3>2 DEF EncryptionKnown
  <2> QED BY <2>1, <2>3, <2>4
<1>6. ASSUME NEW t \in Task, Refuse(t) PROVE Grown
  <2>1. Carried
    BY <1>6, <1>d DEF Refuse, Handling
  <2> QED BY <1>6, <1>c, <2>1 DEF Refuse, store, past
<1>7. ASSUME NEW t \in Task, SyncRaises(t) PROVE Grown
  <2>1. interrupted' = (interrupted \/ Handling(t)) /\ stored_keys' = stored_keys /\ stored_encrypted' = stored_encrypted
    BY <1>7 DEF SyncRaises, store
  <2>2. ~Handling(t) /\ ~interrupted
    BY <2>1
  <2>3. Carried
    <3>1. CASE t = "main"
      <4>1. Leave(syncs["orphan"])
        BY <1>7, <3>1 DEF SyncRaises
      <4> QED BY <1>l, <1>t, <2>2, <3>1, <4>1
    <3>2. CASE t # "main"
      <4>1. Becomes(t, NoSync)
        BY <1>7, <3>2, OneSyncChanges, SyncRecords DEF SyncRaises
      <4> QED BY <2>2, <4>1, OthersAreCarried
    <3> QED BY <3>1, <3>2
  <2> QED BY <2>1, <2>2, <2>3, CarryingKeeps
<1>8. ASSUME NEW full \in BOOLEAN, Start(full) PROVE Grown
  <2>1. stored_keys' = stored_keys /\ stored_encrypted' = stored_encrypted /\ interrupted' = interrupted
    BY <1>8 DEF Start, store
  <2>2. CASE stop
    BY <1>8, <1>k, <2>1, <2>2 DEF Start
  <2>3. CASE ~stop
    <3>1. loop = "idle" /\ syncs' = [syncs EXCEPT !["main"] = Request(full)]
      BY <1>8, <2>3 DEF Start
    <3>2. ~Handling("main")
      BY <3>1 DEF LoopTyped, SyncsTyped, Syncing, Handling
    <3>3. Becomes("main", Request(full))
      BY <1>t, <3>1, RequestsAreTyped, OneSyncChanges
    <3> QED BY <1>c, <1>t, <2>1, <3>2, <3>3, OthersAreCarried
  <2> QED BY <2>2, <2>3
<1>9. CASE Iterate
  <2>1. stored_keys' = stored_keys /\ stored_encrypted' = stored_encrypted /\ interrupted' = interrupted
    BY <1>9 DEF Iterate, store, past
  <2>2. ~Handling("main")
    BY <1>9 DEF Iterate, Handling
  <2>3. \E s : Becomes("main", s)
    <3>1. CASE Stops
      BY <1>9, <1>t, <3>1, OneSyncChanges, SyncRecords DEF Iterate
    <3>2. CASE ~Stops
      <4>1. FALSE \in BOOLEAN /\ syncs' = [syncs EXCEPT !["main"] = Request(FALSE)]
        BY <1>9, <3>2 DEF Iterate
      <4>2. Request(FALSE) \in SyncRecord
        BY <4>1, RequestsAreTyped
      <4> QED BY <1>t, <4>1, <4>2, OneSyncChanges
    <3> QED BY <3>1, <3>2
  <2> QED BY <1>c, <1>t, <2>1, <2>2, <2>3, OthersAreCarried
<1>10. CASE OthersRaise
  <2>1. stored_keys' = stored_keys /\ stored_encrypted' = stored_encrypted /\ interrupted' = interrupted
    BY <1>10 DEF OthersRaise, store, past
  <2>2. Carried
    <3>1. CASE Syncing("main")
      <4>1. Leave(syncs["main"]) /\ ~Syncing("orphan")
        BY <1>10, <3>1 DEF OthersRaise
      <4>2. \A t \in Task : Handling(t) => t = "main"
        BY <1>t, <4>1 DEF Handling, Syncing
      <4> QED BY <1>l, <1>t, <4>1, <4>2
    <3>2. CASE ~Syncing("main")
      <4>1. Leave(syncs["orphan"])
        BY <1>10, <3>2 DEF OthersRaise
      <4>2. \A t \in Task : Handling(t) => t = "orphan"
        BY <1>t, <3>2 DEF Handling, Syncing
      <4> QED BY <1>l, <1>t, <4>1, <4>2
    <3> QED BY <3>1, <3>2
  <2> QED BY <1>c, <2>1, <2>2
<1>11. CASE Cancel
  <2>1. interrupted' = (interrupted \/ Handling("main")) /\ stored_keys' = stored_keys
        /\ stored_encrypted' = stored_encrypted /\ Leave(syncs["orphan"])
    BY <1>11 DEF Cancel, store
  <2>2. \A t \in Task : Handling(t) => t = "orphan"
    BY <1>t, <2>1
  <2>3. Carried
    BY <1>l, <1>t, <2>1, <2>2
  <2> QED BY <2>1, <2>3, CarryingKeeps
<1>12. CASE Crash
  <2>1. interrupted' = (interrupted \/ \E t \in Task : Handling(t)) /\ stored_keys' = stored_keys
        /\ stored_encrypted' = stored_encrypted
    BY <1>12 DEF Crash, store
  <2>2. Carried
    BY <2>1 DEF Carried
  <2> QED BY <2>1, <2>2, CarryingKeeps
<1> QED
  <2> HIDE DEF Grown
  <2>1. ASSUME NEW t \in Task, SyncStep(t) \/ Refuse(t) \/ SyncRaises(t) PROVE Grown
    BY <1>2, <1>3, <1>4, <1>5, <1>6, <1>7, <2>1 DEF SyncStep
  <2>2. ASSUME Next PROVE Grown
    <3>1. \/ \E t \in Task : SyncStep(t) \/ Refuse(t) \/ SyncRaises(t)
          \/ \E full \in BOOLEAN : Start(full)
          \/ (\E e \in Events : Happens(e)) \/ FirstDone \/ StopSyncForever \/ JoinedMembers
             \/ ServeMembers \/ ReceiveMembers
          \/ Iterate \/ OthersRaise \/ Cancel \/ Crash
      BY <2>2, Zenon DEF Next
    <3> QED BY <1>1, <1>8, <1>9, <1>10, <1>11, <1>12, <2>1, <3>1
  <2> QED BY <1>0, <2>2

LEMMA ServeLeaves ==
  ASSUME LoopTyped, NEW t \in Task, Serve(t)
  PROVE  syncs[t].state = "flight" /\ syncs'[t].since = syncs[t].since /\ syncs'[t].encrypted = syncs[t].encrypted
<1>1. syncs[t].state = "flight"
      /\ syncs'[t] = SyncOf("answered", syncs[t].since, syncs[t].full, Len(stream), HandleSync(t), syncs[t].encrypted)
  BY ServeSays DEF Becomes
<1> QED BY <1>1 DEF SyncOf

LEMMA RoomStaysEncrypted ==
  ASSUME LoopTyped, RoomGood, RoomEncrypted, [Next]_vars
  PROVE  RoomEncrypted'
<1>e. \A t \in Task : ~Handling(t) => ~syncs[t].encrypted
  BY DEF RoomEncrypted
<1>k. ASSUME rooms' = rooms, stored_encrypted' = stored_encrypted, \A u \in Task : ~Step(u)
      PROVE  RoomEncrypted'
  <2> SUFFICES ASSUME NEW u \in Task, syncs'[u].encrypted
               PROVE  syncs'[u].state = "handling" /\ \E t \in Task : syncs[t].encrypted
    BY <1>k DEF RoomEncrypted, Handling
  <2>1. CASE \E t \in Task : syncs'[u] = syncs[t]
    BY <2>1 DEF RoomEncrypted, Handling
  <2>2. CASE Serve(u)
    <3>1. syncs'[u].encrypted = syncs[u].encrypted /\ syncs[u].state = "flight"
      BY <2>2, ServeLeaves
    <3> QED BY <1>e, <3>1 DEF Handling
  <2>3. CASE Receive(u) /\ syncs'[u].state = "handling" /\ syncs'[u].encrypted = syncs[u].encrypted
    BY <1>e, <2>3 DEF Receive, Handling
  <2> QED BY <1>k, <2>1, <2>2, <2>3, SyncsHaveOrigins DEF Origin
<1>1. ASSUME NEW t \in Task, Step(t) PROVE RoomEncrypted'
  <2> DEFINE batch == Head(syncs[t].steps)
  <2>1. /\ \A u \in Task \ {t} : syncs'[u] = syncs[u]
        /\ Handling(t) /\ syncs'[t].state = "handling"
        /\ syncs'[t].encrypted <=> (syncs[t].encrypted \/ HasEncryption(batch))
    BY <1>1, StepLeaves DEF OnlyThis
  <2>2. stored_encrypted' = stored_encrypted
    BY <1>1 DEF Step
  <2>3. \/ rooms' = rooms /\ ~HasEncryption(batch)
        \/ \E r : /\ rooms' = {r} /\ (Room.encrypted => r.encrypted)
                  /\ HasEncryption(batch) => r.encrypted
    BY <1>1, StepSays DEF HasEncryption
  <2> HIDE DEF batch
  <2>4. \A u \in Task : syncs'[u].encrypted =>
          syncs'[u].state = "handling" /\ (syncs[u].encrypted \/ HasEncryption(batch))
    BY <2>1 DEF RoomEncrypted, Handling
  <2>5. CASE rooms' = rooms /\ ~HasEncryption(batch)
    BY <2>2, <2>4, <2>5 DEF RoomEncrypted, Handling
  <2>6. CASE ~(rooms' = rooms /\ ~HasEncryption(batch))
    <3>1. PICK r : rooms' = {r} /\ (Room.encrypted => r.encrypted) /\ (HasEncryption(batch) => r.encrypted)
      BY <2>3, <2>6
    <3>2. stored_encrypted => Room.encrypted
      BY RoomIsGood DEF RoomEncrypted, LoopTyped, MemoryTyped
    <3>3. \A u \in Task : syncs[u].encrypted => Room.encrypted
      BY RoomIsGood DEF RoomEncrypted
    <3> QED BY <2>2, <2>4, <3>1, <3>2, <3>3 DEF RoomEncrypted, Handling
  <2> QED BY <2>5, <2>6
<1>2. ASSUME NEW t \in Task, Finish(t) PROVE RoomEncrypted'
  <2>1. rooms' = rooms /\ stored_encrypted' = (stored_encrypted \/ syncs[t].encrypted)
    BY <1>2 DEF Finish, StoredEncrypted
  <2>2. \A u \in Task : syncs'[u].encrypted => syncs[u].encrypted /\ syncs'[u].state = "handling"
    <3>1. Becomes(t, IF t = "main" THEN [NoSync EXCEPT !.state = "done"] ELSE NoSync)
      BY <1>2, DoneSays DEF Finish
    <3>2. ~syncs'[t].encrypted
      BY <3>1, SyncRecords DEF Becomes
    <3>3. \A u \in Task \ {t} : syncs'[u] = syncs[u]
      BY <3>1 DEF Becomes, OnlyThis
    <3> QED BY <3>2, <3>3 DEF RoomEncrypted, Handling
  <2> QED BY <2>1, <2>2 DEF RoomEncrypted, Handling
<1>3. CASE ReceiveMembers
  <2>1. stored_encrypted' = stored_encrypted /\ syncs' = syncs
    BY <1>3 DEF ReceiveMembers, store
  <2>2. CASE rooms = {}
    BY <1>3, <2>1, <2>2 DEF ReceiveMembers, RoomEncrypted, Handling
  <2>3. CASE rooms # {}
    <3> DEFINE joined == [u \in JoinedAt(members.at) |-> NameAt(u, members.at)]
               new    == HandleJoinedMembers(Room, joined)
    <3>1. rooms' = {new}
      BY <1>3, <2>3 DEF ReceiveMembers
    <3>2. DOMAIN joined \subseteq User /\ \A u \in DOMAIN joined : joined[u] \in Name \cup {NoName}
      <4>1. Stream /\ members.at \in 0..Len(stream)
        BY DEF LoopTyped, StoreTyped, MemoryTyped, Positions, Stream
      <4> QED BY <4>1, NamesAreNames DEF JoinedAt
    <3> HIDE DEF joined
    <3>3. new.encrypted = Room.encrypted
      BY <3>2, RoomIsGood, JoinedMembersIsGood
    <3> HIDE DEF new
    <3>4. stored_encrypted => Room.encrypted
      BY <2>3, RoomIsGood DEF RoomEncrypted
    <3>5. \A u \in Task : syncs[u].encrypted => Handling(u) /\ Room.encrypted
      BY RoomIsGood DEF RoomEncrypted
    <3> QED BY <2>1, <3>1, <3>3, <3>4, <3>5 DEF RoomEncrypted, Handling
  <2> QED BY <2>2, <2>3
<1>4. CASE Crash
  <2>1. rooms' = {} /\ \A u \in Task : syncs'[u] = NoSync
    BY <1>4 DEF Crash
  <2> QED BY <2>1, SyncRecords DEF RoomEncrypted
<1>5. CASE ~(\E t \in Task : Step(t) \/ Finish(t)) /\ ~ReceiveMembers /\ ~Crash
  <2>1. rooms' = rooms /\ stored_encrypted' = stored_encrypted
    BY <1>5 DEF Next, vars, store, memory, SyncStep, Happens, Serve, Receive, Refuse, SyncRaises, Start, FirstDone,
       Iterate, OthersRaise, Cancel, StopSyncForever, JoinedMembers, ServeMembers
  <2> QED BY <1>5, <1>k, <2>1
<1> QED BY <1>1, <1>2, <1>3, <1>4, <1>5

\* What a received answer says is known once it is being handled.
LEMMA AnswersAreKnown ==
  ASSUME LoopTyped, RoomGood, Keeping, [Next]_vars, ~interrupted', NEW t \in Task, syncs[t].state = "answered",
         syncs'[t].state = "handling", syncs'[t].steps = syncs[t].steps, stream' = stream
  PROVE  \A n : n = syncs[t].upto => Known(n)'
<1> SUFFICES ASSUME NEW n, n = syncs[t].upto PROVE Known(n)'
  OBVIOUS
<1>1. /\ ~interrupted /\ (\A i : KeyKnown(i) => KeyKnown(i)') /\ (EncryptionKnown => EncryptionKnown')
  BY KnowledgeStays
<1>2. Known(syncs[t].since) /\ Whole(syncs[t])
  BY <1>1 DEF Keeping, AllKnown, Held, Asking, AnswersWhole
<1>3. syncs[t].since \in Nat /\ n \in Nat
  BY SyncsAreRecords DEF SyncRecord, Positions
<1>4. ASSUME NEW i \in 1..n, stream[i].type = "key" PROVE KeyKnown(i)'
  <2>1. CASE i \in 1..syncs[t].since
    BY <1>1, <1>2, <1>4, <2>1 DEF Known
  <2>2. CASE i \in (syncs[t].since + 1)..n
    <3>1. \E j \in DOMAIN syncs[t].steps : syncs[t].steps[j] = KeyBatch(i)
      BY <1>2, <1>4, <2>2 DEF Whole
    <3> QED BY <3>1 DEF KeyKnown, Handling, KeyBatch
  <2> QED BY <1>3, <2>1, <2>2
<1>5. EncryptedAt(n) => EncryptionKnown'
  <2>1. CASE EncryptedAt(syncs[t].since)
    BY <1>1, <1>2, <2>1 DEF Known
  <2>2. CASE EncryptedAt(n) /\ ~EncryptedAt(syncs[t].since)
    <3>1. Tells(syncs[t].steps)
      BY <1>2, <2>2 DEF Whole
    <3>2. Tells(syncs[t].steps)' /\ Handling(t)'
      BY <3>1 DEF Tells, Handling
    <3> QED BY <3>2 DEF EncryptionKnown
  <2> QED BY <2>1, <2>2
<1>6. EncryptedAt(n)' => EncryptedAt(n)
  BY DEF EncryptedAt
<1> QED BY <1>4, <1>5, <1>6 DEF Known

LEMMA AllStaysKnown ==
  ASSUME LoopTyped, RoomGood, Keeping, [Next]_vars
  PROVE  AllKnown'
<1> SUFFICES ASSUME ~interrupted', NEW n \in Held' PROVE Known(n)'
  BY DEF AllKnown
<1>1. /\ ~interrupted /\ (\A i : KeyKnown(i) => KeyKnown(i)') /\ (EncryptionKnown => EncryptionKnown')
  BY KnowledgeStays
<1>2. \A k \in Held : Known(k) /\ k \in 0..Len(stream)
  <2>1. \A k \in Held : k \in 0..Len(stream)
    BY SyncsAreRecords DEF Held, LoopTyped, StoreTyped, MemoryTyped, Behind, Positions, SyncRecord, Asking, Stream
  <2> QED BY <1>1, <2>1 DEF Keeping, AllKnown
<1>3. CASE n \in Held
  <2>1. Known(n) /\ n \in 0..Len(stream)
    BY <1>2, <1>3
  <2>2. \A i \in 1..n : stream'[i] = stream[i]
    BY <2>1, StreamGrows
  <2>3. EncryptedAt(n)' => EncryptedAt(n)
    BY <2>1, StreamGrows
  <2> QED BY <1>1, <2>1, <2>2, <2>3 DEF Known
<1>4. CASE n = 0
  BY <1>4 DEF Known, EncryptedAt
<1>5. CASE \E t \in Task : /\ n = syncs[t].upto /\ syncs[t].state = "answered" /\ syncs'[t].state = "handling"
                           /\ syncs'[t].steps = syncs[t].steps /\ stream' = stream
  BY <1>5, AnswersAreKnown
<1>6. \/ n \in Held \/ n = 0
      \/ \E t \in Task : /\ n = syncs[t].upto /\ syncs[t].state = "answered" /\ syncs'[t].state = "handling"
                         /\ syncs'[t].steps = syncs[t].steps /\ stream' = stream
  <2>1. CASE n \in {next_batch', sync_token', loaded_sync_token'}
    <3>1. CASE \E t \in Task : Receive(t)
      <4>1. PICK t \in Task : Receive(t)
        BY <3>1
      <4>2. CASE syncs[t].upto = next_batch
        BY <2>1, <4>1, <4>2 DEF Receive, Held
      <4>3. CASE syncs[t].upto # next_batch
        <5>1. next_batch' = syncs[t].upto /\ sync_token' = syncs[t].upto /\ loaded_sync_token' = loaded_sync_token
              /\ stream' = stream
          BY <4>1, <4>3 DEF Receive
        <5>2. syncs[t].state = "answered" /\ syncs'[t].state = "handling" /\ syncs'[t].steps = syncs[t].steps
          <6>1. syncs[t].state = "answered"
                /\ syncs'[t] = SyncOf("handling", 0, FALSE, syncs[t].upto, syncs[t].steps, syncs[t].encrypted)
            BY <4>1, <4>3, ReceiveSays DEF Becomes
          <6> QED BY <6>1 DEF SyncOf
        <5> QED BY <2>1, <5>1, <5>2 DEF Held
      <4> QED BY <4>2, <4>3
    <3>2. CASE ~\E t \in Task : Receive(t)
      <4>1. next_batch' \in {next_batch, 0} /\ sync_token' = sync_token
            /\ loaded_sync_token' \in {loaded_sync_token, sync_token}
        BY <3>2 DEF Next, vars, store, memory, SyncStep, Happens, Serve, Step, Finish, Refuse, SyncRaises, Start,
           FirstDone, Iterate, OthersRaise, Cancel, StopSyncForever, JoinedMembers, ServeMembers, ReceiveMembers, Crash
      <4> QED BY <2>1, <4>1 DEF Held
    <3> QED BY <3>1, <3>2
  <2>2. CASE \E u \in Task : n = syncs'[u].since /\ syncs'[u].state \in {"flight", "answered"}
    <3>1. PICK u \in Task : n = syncs'[u].since /\ syncs'[u].state \in {"flight", "answered"}
      BY <2>2
    <3>2. CASE \E t \in Task : syncs'[u] = syncs[t]
      BY <3>1, <3>2 DEF Held, Asking
    <3>3. CASE syncs'[u].since = From
      BY <3>1, <3>3 DEF Held, From
    <3>4. CASE Serve(u)
      <4>1. syncs'[u].since = syncs[u].since /\ syncs[u].state = "flight"
        BY <3>4, ServeLeaves
      <4> QED BY <3>1, <4>1 DEF Held, Asking
    <3>5. CASE Step(u)
      <4>1. syncs'[u].state = "handling"
        BY <3>5, StepLeaves
      <4> QED BY <3>1, <4>1
    <3> QED BY <3>1, <3>2, <3>3, <3>4, <3>5, SyncsHaveOrigins DEF Origin
  <2> QED BY <2>1, <2>2 DEF Held, Asking
<1> QED BY <1>3, <1>4, <1>5, <1>6

LEMMA NothingIsForgotten == LoopTyped /\ Keeping => NothingLost
<1> SUFFICES ASSUME LoopTyped, Keeping, Quiet, ~interrupted
             PROVE  /\ \A r \in rooms : EncryptedAt(next_batch) => r.encrypted
                    /\ \A i \in 1..sync_token : stream[i].type = "key" => i \in stored_keys
  BY DEF NothingLost, EncryptionKept, KeysNotLost
<1>1. Known(next_batch) /\ Known(sync_token)
  BY DEF Keeping, AllKnown, Held
<1>2. EncryptedAt(next_batch) => stored_encrypted
  BY <1>1 DEF Known, EncryptionKnown, Quiet
<1>3. \A i \in 1..sync_token : stream[i].type = "key" => i \in stored_keys
  BY <1>1 DEF Known, KeyKnown, Quiet
<1> QED BY <1>2, <1>3 DEF Keeping, RoomEncrypted

LEMMA KeepingInit == Init => Keeping
<1> SUFFICES ASSUME Init PROVE Keeping
  OBVIOUS
<1>1. \A t \in Task : syncs[t] = NoSync
  BY DEF Init
<1>2. \A t \in Task : syncs[t].state = "none" /\ ~syncs[t].encrypted
  BY <1>1, SyncRecords
<1>3. Asking = {} /\ next_batch = 0 /\ sync_token = 0 /\ loaded_sync_token = 0
  BY <1>2 DEF Asking, Init
<1>4. Held = {0}
  BY <1>3 DEF Held
<1>5. Known(0)
  BY DEF Known, EncryptedAt
<1>6. AllKnown
  BY <1>4, <1>5 DEF AllKnown
<1>7. AnswersWhole
  BY <1>2 DEF AnswersWhole
<1>8. RoomEncrypted
  BY <1>2 DEF RoomEncrypted, Init
<1> QED BY <1>6, <1>7, <1>8 DEF Keeping

LEMMA KeepingNext == LoopTyped /\ RoomGood /\ Keeping /\ [Next]_vars => Keeping'
BY AllStaysKnown, AnswersStayWhole, RoomStaysEncrypted DEF Keeping

-----------------------------------------------------------------------------
(* Between responses members and counts are what the server has said.  What *)
(* the stream says at two positions differs by the events between them.     *)

\* What a stream says of a user, and in all, at a position; the server's is one.
AboutIn(s, u, n) == {i \in 1..n : Concerns(s[i], u)}
StateIn(s, u, n) ==
  IF AboutIn(s, u, n) = {} THEN MemberEvent(u, "leave", Unchanged) ELSE s[Max(AboutIn(s, u, n))]
ThoseIn(s, membership, n) == {u \in User : StateIn(s, u, n).membership = membership}
SummaryIn(s, n) ==
  [joined |-> Cardinality(ThoseIn(s, "join", n)), invited |-> Cardinality(ThoseIn(s, "invite", n)),
   heroes |-> ThoseIn(s, "join", n)]
ToldIn(s, n)      == \E i \in 1..n : s[i].type # "key"
Event(s, u, m, n) == \E i \in (m + 1)..n : Concerns(s[i], u)

LEMMA InStream ==
  /\ \A u, n : AboutIn(stream, u, n) = About(u, n) /\ StateIn(stream, u, n) = StateOf(u, n)
  /\ \A n : /\ ThoseIn(stream, "join", n) = JoinedAt(n) /\ ThoseIn(stream, "invite", n) = InvitedAt(n)
            /\ SummaryIn(stream, n) = SummaryAt(n) /\ (ToldIn(stream, n) <=> Told(n))
<1>1. \A u, n : AboutIn(stream, u, n) = About(u, n)
  BY DEF AboutIn, About, Concerns
<1>2. \A u, n : StateIn(stream, u, n) = StateOf(u, n)
  BY <1>1 DEF StateIn, StateOf
<1>3. \A n : ThoseIn(stream, "join", n) = JoinedAt(n) /\ ThoseIn(stream, "invite", n) = InvitedAt(n)
  BY <1>2 DEF ThoseIn, JoinedAt, InvitedAt
<1>4. \A n : SummaryIn(stream, n) = SummaryAt(n) /\ (ToldIn(stream, n) <=> Told(n))
  BY <1>3 DEF SummaryIn, SummaryAt, ToldIn, Told
<1> QED BY <1>1, <1>2, <1>3, <1>4

\* It says the same when it goes on.
LEMMA SaysTheSame ==
  ASSUME NEW s, NEW z, NEW l \in Nat, \A i \in 1..l : z[i] = s[i]
  PROVE  /\ \A n \in 0..l : /\ \A u : AboutIn(z, u, n) = AboutIn(s, u, n) /\ StateIn(z, u, n) = StateIn(s, u, n)
                            /\ SummaryIn(z, n) = SummaryIn(s, n) /\ (ToldIn(z, n) <=> ToldIn(s, n))
         /\ \A m \in Nat, n \in 0..l : \A u : Event(z, u, m, n) <=> Event(s, u, m, n)
<1>0. \A n \in 0..l : \A i \in 1..n : i \in 1..l /\ z[i] = s[i]
  OBVIOUS
<1>1. \A n \in 0..l : \A u : AboutIn(z, u, n) = AboutIn(s, u, n)
  BY <1>0 DEF AboutIn
<1>2. ASSUME NEW n \in 0..l, NEW u PROVE StateIn(z, u, n) = StateIn(s, u, n)
  <2>1. CASE AboutIn(s, u, n) = {}
    BY <1>1, <2>1 DEF StateIn
  <2>2. CASE AboutIn(s, u, n) # {}
    <3>1. AboutIn(s, u, n) \in SUBSET (1..n) /\ n \in Nat
      BY DEF AboutIn
    <3>2. Max(AboutIn(s, u, n)) \in 1..n
      BY <2>2, <3>1, LargestPosition
    <3> QED BY <1>0, <1>1, <2>2, <3>2 DEF StateIn
  <2> QED BY <2>1, <2>2
<1>3. \A n \in 0..l : ThoseIn(z, "join", n) = ThoseIn(s, "join", n) /\ ThoseIn(z, "invite", n) = ThoseIn(s, "invite", n)
  BY <1>2 DEF ThoseIn
<1>4. \A n \in 0..l : SummaryIn(z, n) = SummaryIn(s, n)
  BY <1>3 DEF SummaryIn
<1>5. \A n \in 0..l : ToldIn(z, n) <=> ToldIn(s, n)
  BY <1>0 DEF ToldIn
<1>6. ASSUME NEW m \in Nat, NEW n \in 0..l, NEW u PROVE Event(z, u, m, n) <=> Event(s, u, m, n)
  <2>1. \A i \in (m + 1)..n : i \in 1..l
    OBVIOUS
  <2> QED BY <2>1 DEF Event
<1> QED BY <1>1, <1>2, <1>4, <1>5, <1>6

LEMMA Unmoved ==
  ASSUME Stream, NEW m \in 0..Len(stream), NEW n \in m..Len(stream), NEW u \in User, ~Event(stream, u, m, n)
  PROVE  About(u, n) = About(u, m) /\ StateOf(u, n) = StateOf(u, m)
<1>1. Len(stream) \in Nat /\ m \in Nat /\ n \in Nat /\ m <= n
  BY DEF Stream
<1>2. \A i \in 1..n : i \in 1..m \/ i \in (m + 1)..n
  BY <1>1
<1>3. \A i \in 1..m : i \in 1..n
  BY <1>1
<1>4. About(u, n) = About(u, m)
  BY <1>2, <1>3 DEF About, Event, Concerns
<1> QED BY <1>4 DEF StateOf

LEMMA LatestEvent ==
  ASSUME Stream, NEW k \in 1..Len(stream), NEW u \in User, Concerns(stream[k], u)
  PROVE  About(u, k) # {} /\ StateOf(u, k) = stream[k]
<1>1. Len(stream) \in Nat /\ k \in Nat /\ k \in About(u, k) /\ About(u, k) \in SUBSET (1..k)
  BY DEF Stream, About, Concerns
<1>2. Max(About(u, k)) \in About(u, k) /\ \A i \in About(u, k) : i <= Max(About(u, k))
  BY <1>1, LargestPosition
<1>3. Max(About(u, k)) = k
  BY <1>1, <1>2
<1> QED BY <1>1, <1>3 DEF StateOf

LEMMA EventsAreAbout ==
  ASSUME Stream, NEW m \in 0..Len(stream), NEW n \in 0..Len(stream), NEW u \in User
  PROVE  /\ Event(stream, u, m, n) => About(u, n) # {}
         /\ About(u, n) # {} /\ About(u, m) = {} => Event(stream, u, m, n)
         /\ About(u, 0) = {}
<1>1. Len(stream) \in Nat /\ m \in Nat /\ n \in Nat
  BY DEF Stream
<1>2. \A i \in (m + 1)..n : i \in 1..n
  BY <1>1
<1>3. \A i \in 1..n : i \in 1..m \/ i \in (m + 1)..n
  BY <1>1
<1> QED BY <1>2, <1>3 DEF Event, About, Concerns

\* Who is in the room is told by the newest event about each.
LEMMA StateTells ==
  ASSUME Stream, NEW n \in 0..Len(stream), NEW u \in User
  PROVE  /\ StateOf(u, n).type = "member" /\ StateOf(u, n).user = u
         /\ StateOf(u, n).membership \in {"join", "invite", "leave"}
         /\ u \in JoinedAt(n) <=> StateOf(u, n).membership = "join"
         /\ u \in InvitedAt(n) <=> StateOf(u, n).membership = "invite"
         /\ u \in JoinedAt(n) \cup InvitedAt(n) => About(u, n) # {}
<1>1. StateOf(u, n) \in MemberEvents
  BY StateIsAnEvent
<1>2. CASE About(u, n) = {}
  <2>1. StateOf(u, n) = MemberEvent(u, "leave", Unchanged)
    BY <1>2 DEF StateOf
  <2> QED BY <2>1 DEF MemberEvent, JoinedAt, InvitedAt
<1>3. CASE About(u, n) # {}
  <2>1. Len(stream) \in Nat /\ n \in Nat /\ About(u, n) \in SUBSET (1..n)
    BY DEF Stream, About
  <2>2. Max(About(u, n)) \in About(u, n)
    BY <1>3, <2>1, LargestPosition
  <2>3. StateOf(u, n).user = u
    BY <1>3, <2>2 DEF StateOf, About
  <2> QED BY <1>1, <1>3, <2>3, EventHasType DEF JoinedAt, InvitedAt
<1> QED BY <1>2, <1>3

LEMMA SameSummary ==
  ASSUME NEW m, NEW n, \A u \in User : StateOf(u, n) = StateOf(u, m)
  PROVE  JoinedAt(n) = JoinedAt(m) /\ InvitedAt(n) = InvitedAt(m) /\ SummaryAt(n) = SummaryAt(m)
<1>1. JoinedAt(n) = JoinedAt(m) /\ InvitedAt(n) = InvitedAt(m)
  BY DEF JoinedAt, InvitedAt
<1> QED BY <1>1 DEF SummaryAt

\* Room keys change nothing in the room.
LEMMA KeysTellNothing ==
  ASSUME Stream, NEW m \in 0..Len(stream), NEW n \in m..Len(stream),
         \A i \in (m + 1)..n : stream[i].type = "key"
  PROVE  /\ \A u \in User : ~Event(stream, u, m, n)
         /\ SummaryAt(n) = SummaryAt(m)
         /\ Told(n) <=> Told(m)
<1>1. Len(stream) \in Nat /\ m \in Nat /\ n \in Nat /\ m <= n
  BY DEF Stream
<1>2. \A u \in User : ~Event(stream, u, m, n)
  BY DEF Event, Concerns
<1>3. SummaryAt(n) = SummaryAt(m)
  BY <1>2, Unmoved, SameSummary
<1>4. \A i \in 1..n : i \in 1..m \/ i \in (m + 1)..n
  BY <1>1
<1>5. \A i \in 1..m : i \in 1..n
  BY <1>1
<1> QED BY <1>2, <1>3, <1>4, <1>5 DEF Told

-----------------------------------------------------------------------------
(* What is left of a response is true as of its token.                     *)

Mentioned(steps, u) == \E j \in DOMAIN steps : Says(steps[j], u)
Later(steps, j, u)  == \E i \in DOMAIN steps : i > j /\ Says(steps[i], u)
Summarised(steps, f) == \E j \in DOMAIN steps : Sums(steps[j], f)
KeysOnly(steps)      == \A j \in DOMAIN steps : steps[j] \in KeyBatches

\* A summary says what is the case at the token; so does an event of a member,
\* unless a later batch is about the same user.
TrueSummary(s, e, n) == \A f \in Fields : Gives(e, f) => e.summary[f] = Given(SummaryIn(s, n)[f])
Truthful(s, steps, n) ==
  \A j \in DOMAIN steps : \A k \in DOMAIN steps[j] :
    /\ TrueSummary(s, steps[j][k], n)
    /\ \A u \in User : Concerns(steps[j][k], u) =>
         AboutIn(s, u, n) # {} /\ (steps[j][k] = StateIn(s, u, n) \/ Later(steps, j, u))

LEMMA TimelineIsTrue ==
  ASSUME Stream, NEW m \in Nat, NEW n \in 0..Len(stream), NEW u \in User,
         NEW j \in DOMAIN Timeline(m, n), Concerns(Timeline(m, n)[j], u)
  PROVE  /\ About(u, n) # {}
         /\ \/ Timeline(m, n)[j] = StateOf(u, n)
            \/ \E i \in DOMAIN Timeline(m, n) : i > j /\ Concerns(Timeline(m, n)[i], u)
<1>1. Len(stream) \in Nat /\ n \in Nat
  BY DEF Stream
<1>2. PICK f : Upto(f, m, n) /\ Timeline(m, n) = f[n]
  BY <1>1, TimelineGrows
<1>3. \A i \in 0..n : f[i] = IF i <= m THEN <<>>
                             ELSE IF stream[i].type = "key" THEN f[i - 1] ELSE Append(f[i - 1], stream[i])
  BY <1>2, Zenon DEF Upto
<1> DEFINE Fine(k) == /\ f[k] \in Seq(Events)
                      /\ \A p \in DOMAIN f[k] : Concerns(f[k][p], u) =>
                           /\ About(u, k) # {}
                           /\ \/ f[k][p] = StateOf(u, k)
                              \/ \E i \in DOMAIN f[k] : i > p /\ Concerns(f[k][i], u)
           T == {k \in 0..n : ~Fine(k)}
<1>4. T = {}
  <2> SUFFICES ASSUME T # {} PROVE FALSE
    OBVIOUS
  <2>1. T \in SUBSET Nat
    BY <1>1
  <2> HIDE DEF T
  <2>2. PICK k \in T : \A i \in T : k <= i
    BY <2>1, LeastNumber
  <2>3. k \in 0..n /\ ~Fine(k)
    BY <2>2 DEF T
  <2>4. CASE k <= m
    <3>1. f[k] = <<>>
      BY <1>3, <2>3, <2>4
    <3> QED BY <2>3, <3>1
  <2>5. CASE k > m
    <3>1. k - 1 \in 0..n /\ k - 1 \notin T /\ k \in 1..Len(stream)
      BY <1>1, <2>2, <2>3, <2>5
    <3>2. Fine(k - 1)
      BY <3>1 DEF T
    <3>3. k - 1 \in 0..Len(stream) /\ k \in (k - 1)..Len(stream) /\ ((k - 1) + 1)..k = {k}
      BY <1>1, <3>1
    <3>4. ~Concerns(stream[k], u) => About(u, k) = About(u, k - 1) /\ StateOf(u, k) = StateOf(u, k - 1)
      <4>1. ~Concerns(stream[k], u) => ~Event(stream, u, k - 1, k)
        BY <3>3 DEF Event
      <4> QED BY <3>3, <4>1, Unmoved
    <3>5. CASE stream[k].type = "key"
      <4>1. f[k] = f[k - 1]
        BY <1>1, <1>3, <2>3, <2>5, <3>5
      <4>2. ~Concerns(stream[k], u)
        BY <3>5 DEF Concerns
      <4> QED BY <2>3, <3>2, <3>4, <4>1, <4>2
    <3>6. CASE stream[k].type # "key"
      <4> DEFINE s == f[k - 1]
                 e == stream[k]
      <4>1. f[k] = Append(s, e)
        <5>1. k \in 0..n /\ ~(k <= m)
          BY <1>1, <2>3, <2>5
        <5> QED BY <1>3, <2>5, <3>6, <5>1, Zenon
      <4>2. e \in Events
        BY <3>1 DEF Stream
      <4>3. s \in Seq(Events)
        BY <3>2
      <4>4. \A p \in DOMAIN s : Concerns(s[p], u) =>
              /\ About(u, k - 1) # {}
              /\ \/ s[p] = StateOf(u, k - 1)
                 \/ \E i \in DOMAIN s : i > p /\ Concerns(s[i], u)
        BY <3>2
      <4>5. Concerns(e, u) => About(u, k) # {} /\ StateOf(u, k) = e
        BY <3>1, LatestEvent
      <4>6. ~Concerns(e, u) => About(u, k) = About(u, k - 1) /\ StateOf(u, k) = StateOf(u, k - 1)
        BY <3>4
      <4> HIDE DEF s, e
      <4>7. /\ f[k] \in Seq(Events) /\ DOMAIN f[k] = (DOMAIN s) \cup {Len(s) + 1}
            /\ \A p \in DOMAIN s : f[k][p] = s[p] /\ Len(s) + 1 > p
            /\ f[k][Len(s) + 1] = e
        BY <4>1, <4>2, <4>3
      <4>8. ASSUME NEW p \in DOMAIN f[k], Concerns(f[k][p], u)
            PROVE  /\ About(u, k) # {}
                   /\ \/ f[k][p] = StateOf(u, k)
                      \/ \E i \in DOMAIN f[k] : i > p /\ Concerns(f[k][i], u)
        <5>1. CASE Concerns(e, u)
          <6>1. CASE p = Len(s) + 1
            BY <4>5, <4>7, <5>1, <6>1
          <6>2. CASE p # Len(s) + 1
            BY <4>5, <4>7, <5>1, <6>2
          <6> QED BY <6>1, <6>2
        <5>2. CASE ~Concerns(e, u)
          <6>1. p \in DOMAIN s /\ Concerns(s[p], u)
            BY <4>7, <4>8, <5>2
          <6> QED BY <4>4, <4>6, <4>7, <5>2, <6>1
        <5> QED BY <5>1, <5>2
      <4> QED BY <2>3, <4>7, <4>8
    <3> QED BY <3>5, <3>6
  <2> QED BY <1>1, <2>3, <2>4, <2>5
<1>5. Fine(n)
  BY <1>1, <1>4
<1> QED BY <1>2, <1>5

LEMMA SummaryTells ==
  ASSUME NEW m, NEW n
  PROVE  /\ Summary(m, n).type = "summary" /\ \A u : ~Concerns(Summary(m, n), u)
         /\ TrueSummary(stream, Summary(m, n), n)
         /\ \A f \in Fields : Gives(Summary(m, n), f) \/ (Told(m) /\ SummaryAt(m)[f] = SummaryAt(n)[f])
<1>1. Summary(m, n).type = "summary" /\ Summary(m, n).summary = SummarySince(m, n)
  BY DEF Summary
<1>2. \A f \in Fields : SummarySince(m, n)[f] = IF Told(m) /\ SummaryAt(m)[f] = SummaryAt(n)[f] THEN Unknown
                                                ELSE Given(SummaryAt(n)[f])
  BY DEF SummarySince, Fields
<1>3. \A x : Given(x) # Unknown
  BY DEF Given, Unknown
<1> QED BY <1>1, <1>2, <1>3, InStream DEF Gives, TrueSummary, Concerns

\* The batches of an answer that is not the full state.
LEMMA LaterSteps ==
  ASSUME Stream, NEW m \in Nat, NEW n \in 0..Len(stream), Timeline(m, n) # <<>>
  PROVE  LET tl == Timeline(m, n)
             rs == RoomSteps(m, n, FALSE)
         IN /\ DOMAIN rs = DOMAIN tl /\ 1 \in DOMAIN rs /\ tl \in Seq(RoomEvent) /\ DOMAIN tl \subseteq Nat
            /\ rs[1] = <<Summary(m, n), tl[1]>>
            /\ \A j \in DOMAIN tl \ {1} : rs[j] = <<tl[j]>>
<1> DEFINE tl    == Timeline(m, n)
           first == <<Summary(m, n), Head(tl)>>
           later == [i \in 1..(Len(tl) - 1) |-> <<tl[i + 1]>>]
           rs    == RoomSteps(m, n, FALSE)
<1>1. rs = <<first>> \o later
  BY DEF RoomSteps
<1>2. tl \in Seq(RoomEvent) /\ tl # <<>>
  BY TimelineSays
<1> HIDE DEF tl, rs
<1>3. Len(tl) \in Nat \ {0} /\ DOMAIN tl = 1..Len(tl) /\ first = <<Summary(m, n), tl[1]>>
  BY <1>2
<1>4. Len(later) = Len(tl) - 1 /\ \A i \in 1..(Len(tl) - 1) : later[i] = <<tl[i + 1]>>
  BY <1>3
<1> DEFINE X == {first} \cup {<<tl[i]>> : i \in 1..Len(tl)}
<1>5. later \in Seq(X) /\ <<first>> \in Seq(X)
  BY <1>3
<1> HIDE DEF first, later, X
<1>6. /\ DOMAIN rs = 1..Len(tl) /\ rs[1] = first
      /\ \A j \in 2..Len(tl) : rs[j] = later[j - 1]
  <2> DEFINE one == <<first>>
  <2>1. one \in Seq(X) /\ Len(one) = 1 /\ one[1] = first /\ rs = one \o later
    BY <1>1, <1>5
  <2> HIDE DEF one
  <2>c. /\ rs \in Seq(X) /\ Len(rs) = Len(one) + Len(later)
        /\ \A i \in 1..(Len(one) + Len(later)) : rs[i] = IF i <= Len(one) THEN one[i] ELSE later[i - Len(one)]
    BY <1>5, <2>1, ConcatProperties, Zenon
  <2>2. Len(rs) = Len(tl) /\ rs \in Seq(X) /\ rs[1] = first
    BY <1>3, <1>4, <2>1, <2>c
  <2>3. ASSUME NEW j \in 2..Len(tl) PROVE rs[j] = later[j - 1]
    <3>1. j \in 1..(Len(one) + Len(later)) /\ ~(j <= Len(one)) /\ j - Len(one) = j - 1
      BY <1>3, <1>4, <2>1
    <3> QED BY <2>c, <3>1
  <2> QED BY <1>3, <2>2, <2>3
<1>7. \A j \in 2..Len(tl) : rs[j] = <<tl[j]>>
  <2> TAKE j \in 2..Len(tl)
  <2>1. j - 1 \in 1..(Len(tl) - 1) /\ (j - 1) + 1 = j
    BY <1>3
  <2> QED BY <1>4, <1>6, <2>1
<1>8. \A j \in DOMAIN tl \ {1} : j \in 2..Len(tl)
  BY <1>3
<1>9. DOMAIN rs = DOMAIN tl /\ 1 \in DOMAIN rs /\ DOMAIN tl \subseteq Nat
  BY <1>3, <1>6
<1>10. rs[1] = <<Summary(m, n), tl[1]>> /\ \A j \in DOMAIN tl \ {1} : rs[j] = <<tl[j]>>
  BY <1>3, <1>6, <1>7, <1>8
<1> QED BY <1>2, <1>9, <1>10 DEF tl, rs

LEMMA RoomStepsAreTrue ==
  ASSUME Stream, NEW m \in 0..Len(stream), NEW n \in m..Len(stream), NEW full \in BOOLEAN
  PROVE  Truthful(stream, RoomSteps(m, n, full), n)
<1>1. Len(stream) \in Nat /\ m \in Nat /\ n \in 0..Len(stream)
  BY DEF Stream
<1>2. CASE full
  <2> DEFINE state == FullState(n)
             told  == Summary(0, n)
             batch == state \o <<told>>
  <2>1. RoomSteps(m, n, full) = <<batch>>
    BY <1>2 DEF RoomSteps
  <2>2. /\ state \in Seq(RoomEvent) /\ told \in Item
        /\ \A j \in DOMAIN state :
             state[j].type = "encryption" \/ \E u \in User : About(u, n) # {} /\ state[j] = StateOf(u, n)
    BY <1>1, FullStateSays, SummariesAreItems DEF Item
  <2>3. TrueSummary(stream, told, n) /\ \A u : ~Concerns(told, u)
    BY SummaryTells
  <2> HIDE DEF state, told
  <2>4. /\ batch \in Seq(Item \cup RoomEvent) /\ DOMAIN batch = DOMAIN state \cup {Len(state) + 1}
        /\ batch[Len(state) + 1] = told /\ \A j \in DOMAIN state : batch[j] = state[j]
    BY <2>2
  <2> HIDE DEF batch
  <2>5. ASSUME NEW k \in DOMAIN batch
        PROVE  /\ TrueSummary(stream, batch[k], n)
               /\ \A u \in User : Concerns(batch[k], u) => About(u, n) # {} /\ batch[k] = StateOf(u, n)
    <3>1. CASE k = Len(state) + 1
      BY <2>3, <2>4, <3>1
    <3>2. CASE k \in DOMAIN state /\ state[k].type = "encryption"
      BY <2>4, <3>2, InStream DEF TrueSummary, Gives, Concerns
    <3>3. CASE k \in DOMAIN state /\ \E u \in User : About(u, n) # {} /\ state[k] = StateOf(u, n)
      <4>1. PICK u \in User : About(u, n) # {} /\ state[k] = StateOf(u, n)
        BY <3>3
      <4>2. batch[k].type = "member" /\ batch[k].user = u /\ batch[k] = StateOf(u, n)
        BY <1>1, <2>4, <3>3, <4>1, StateTells
      <4> QED BY <4>1, <4>2, InStream DEF TrueSummary, Gives, Concerns
    <3> QED BY <2>2, <2>4, <3>1, <3>2, <3>3
  <2>6. Truthful(stream, <<batch>>, n)
    BY <2>5, InStream DEF Truthful
  <2> QED BY <2>1, <2>6
<1>3. CASE ~full /\ Timeline(m, n) = <<>>
  <2>1. RoomSteps(m, n, full) = <<>>
    BY <1>3 DEF RoomSteps
  <2> QED BY <2>1, InStream DEF Truthful
<1>4. CASE ~full /\ Timeline(m, n) # <<>>
  <2> DEFINE tl == Timeline(m, n)
             rs == RoomSteps(m, n, full)
  <2>0. full = FALSE
    BY <1>4
  <2>1. /\ DOMAIN rs = DOMAIN tl /\ tl \in Seq(RoomEvent) /\ DOMAIN tl \subseteq Nat
        /\ rs[1] = <<Summary(m, n), tl[1]>>
        /\ \A j \in DOMAIN tl \ {1} : rs[j] = <<tl[j]>>
    BY <1>1, <1>4, <2>0, LaterSteps
  <2>2. \A j \in DOMAIN tl, u \in User : Concerns(tl[j], u) =>
          /\ About(u, n) # {}
          /\ tl[j] = StateOf(u, n) \/ \E i \in DOMAIN tl : i > j /\ Concerns(tl[i], u)
    BY <1>1, TimelineIsTrue
  <2> HIDE DEF tl, rs
  <2>3. \A j \in DOMAIN tl : \E k \in DOMAIN rs[j] : rs[j][k] = tl[j]
    <3> TAKE j \in DOMAIN tl
    <3>1. CASE j = 1
      <4>1. 2 \in DOMAIN rs[j] /\ rs[j][2] = tl[j]
        BY <2>1, <3>1
      <4> QED BY <4>1
    <3>2. CASE j # 1
      <4>1. 1 \in DOMAIN rs[j] /\ rs[j][1] = tl[j]
        BY <2>1, <3>2
      <4> QED BY <4>1
    <3> QED BY <3>1, <3>2
  <2>4. \A j \in DOMAIN rs : \A k \in DOMAIN rs[j] : rs[j][k] \in {tl[j], Summary(m, n)}
    <3> TAKE j \in DOMAIN rs
    <3>1. CASE j = 1
      BY <2>1, <3>1
    <3>2. CASE j # 1
      BY <2>1, <3>2
    <3> QED BY <3>1, <3>2
  <2>5. \A j \in DOMAIN tl : TrueSummary(stream, tl[j], n)
    <3> TAKE j \in DOMAIN tl
    <3>1. tl[j].type # "summary"
      BY <2>1, EventHasType DEF RoomEvent
    <3> QED BY <3>1, InStream DEF TrueSummary, Gives
  <2>6. TrueSummary(stream, Summary(m, n), n) /\ \A u : ~Concerns(Summary(m, n), u)
    BY SummaryTells
  <2>7. ASSUME NEW j \in DOMAIN rs, NEW k \in DOMAIN rs[j]
        PROVE  /\ TrueSummary(stream, rs[j][k], n)
               /\ \A u \in User : Concerns(rs[j][k], u) =>
                    About(u, n) # {} /\ (rs[j][k] = StateOf(u, n) \/ Later(rs, j, u))
    <3>1. CASE rs[j][k] = Summary(m, n)
      BY <2>6, <3>1
    <3>2. CASE rs[j][k] = tl[j]
      <4> SUFFICES ASSUME NEW u \in User, Concerns(tl[j], u), tl[j] # StateOf(u, n)
                   PROVE  About(u, n) # {} /\ Later(rs, j, u)
        BY <2>1, <2>2, <2>5, <3>2
      <4>1. About(u, n) # {} /\ \E i \in DOMAIN tl : i > j /\ Concerns(tl[i], u)
        BY <2>1, <2>2
      <4>2. PICK i \in DOMAIN tl : i > j /\ Concerns(tl[i], u)
        BY <4>1
      <4>3. Says(rs[i], u) /\ i \in DOMAIN rs
        BY <2>1, <2>3, <4>2 DEF Says
      <4> QED BY <4>1, <4>2, <4>3 DEF Later
    <3> QED BY <2>4, <3>1, <3>2
  <2>8. Truthful(stream, rs, n)
    BY <2>7, InStream DEF Truthful
  <2> QED BY <2>8 DEF rs
<1> QED BY <1>2, <1>3, <1>4

\* An answer says all that has changed since the token it was asked with.
Covers(s, r) ==
  /\ r.since <= r.upto
  /\ \A f \in Fields :
       \/ Summarised(r.steps, f)
       \/ /\ ~r.full /\ SummaryIn(s, r.since)[f] = SummaryIn(s, r.upto)[f]
          /\ ToldIn(s, r.since) \/ (~ToldIn(s, r.upto) /\ KeysOnly(r.steps))
  /\ \A u \in User :
       Event(s, u, r.since, r.upto) \/ (r.full /\ AboutIn(s, u, r.upto) # {}) => Mentioned(r.steps, u)

LEMMA RoomStepsCover ==
  ASSUME Stream, NEW m \in 0..Len(stream), NEW n \in m..Len(stream), NEW full \in BOOLEAN
  PROVE  LET rs == RoomSteps(m, n, full) IN
         /\ \A f \in Fields :
              \/ Summarised(rs, f)
              \/ /\ ~full /\ SummaryAt(m)[f] = SummaryAt(n)[f]
                 /\ Told(m) \/ (~Told(n) /\ rs = <<>>)
         /\ \A u \in User : Event(stream, u, m, n) \/ (full /\ About(u, n) # {}) => Mentioned(rs, u)
<1> DEFINE rs == RoomSteps(m, n, full)
<1>1. Len(stream) \in Nat /\ m \in Nat /\ n \in 0..Len(stream) /\ n \in Nat /\ m <= n
  BY DEF Stream
<1>2. CASE full
  <2> DEFINE state == FullState(n)
             told  == Summary(0, n)
             batch == state \o <<told>>
  <2>1. rs = <<batch>>
    BY <1>2 DEF RoomSteps
  <2>2. /\ state \in Seq(RoomEvent) /\ told \in Item
        /\ \A u \in User : About(u, n) # {} => \E j \in DOMAIN state : state[j] = StateOf(u, n)
    BY <1>1, FullStateSays, SummariesAreItems DEF Item
  <2>3. \A f \in Fields : Gives(told, f)
    <3>1. ~Told(0)
      BY DEF Told
    <3> QED BY <3>1, SummaryTells
  <2> HIDE DEF state, told
  <2>4. /\ DOMAIN batch = DOMAIN state \cup {Len(state) + 1}
        /\ batch[Len(state) + 1] = told /\ \A j \in DOMAIN state : batch[j] = state[j]
    BY <2>2
  <2> HIDE DEF batch, rs
  <2>5. 1 \in DOMAIN rs /\ rs[1] = batch
    BY <2>1
  <2>6. \A f \in Fields : Summarised(rs, f)
    BY <2>3, <2>4, <2>5 DEF Sums, Summarised
  <2>7. ASSUME NEW u \in User, About(u, n) # {} PROVE Mentioned(rs, u)
    <3>1. PICK j \in DOMAIN state : state[j] = StateOf(u, n)
      BY <2>2, <2>7
    <3>2. j \in DOMAIN batch /\ Concerns(batch[j], u)
      BY <1>1, <2>4, <3>1, StateTells DEF Concerns
    <3> QED BY <2>5, <3>2 DEF Mentioned, Says
  <2>8. \A u \in User : Event(stream, u, m, n) => About(u, n) # {}
    BY <1>1, EventsAreAbout
  <2> QED BY <2>6, <2>7, <2>8 DEF rs
<1>3. CASE ~full /\ Timeline(m, n) = <<>>
  <2>1. rs = <<>>
    BY <1>3 DEF RoomSteps
  <2>2. \A i \in (m + 1)..n : stream[i].type = "key"
    <3> SUFFICES ASSUME NEW i \in (m + 1)..n, stream[i].type # "key" PROVE FALSE
      OBVIOUS
    <3>1. \E j \in DOMAIN Timeline(m, n) : Timeline(m, n)[j] = stream[i]
      BY <1>1, TimelineSays
    <3> QED BY <1>3, <3>1
  <2>3. /\ \A u \in User : ~Event(stream, u, m, n)
        /\ SummaryAt(n) = SummaryAt(m) /\ (Told(n) <=> Told(m))
    BY <2>2, KeysTellNothing
  <2> HIDE DEF rs
  <2> QED BY <1>3, <2>1, <2>3 DEF rs
<1>4. CASE ~full /\ Timeline(m, n) # <<>>
  <2> DEFINE tl == Timeline(m, n)
  <2>0. full = FALSE
    BY <1>4
  <2>1. /\ DOMAIN rs = DOMAIN tl /\ 1 \in DOMAIN rs
        /\ rs[1] = <<Summary(m, n), tl[1]>>
        /\ \A j \in DOMAIN tl \ {1} : rs[j] = <<tl[j]>>
    BY <1>1, <1>4, <2>0, LaterSteps
  <2>2. \A i \in (m + 1)..n : stream[i].type # "key" => \E j \in DOMAIN tl : tl[j] = stream[i]
    BY <1>1, TimelineSays
  <2>3. \A f \in Fields : Gives(Summary(m, n), f) \/ (Told(m) /\ SummaryAt(m)[f] = SummaryAt(n)[f])
    BY SummaryTells
  <2> HIDE DEF tl, rs
  <2>4. 1 \in DOMAIN rs[1] /\ rs[1][1] = Summary(m, n)
    BY <2>1
  <2>5. \A f \in Fields : Summarised(rs, f) \/ (Told(m) /\ SummaryAt(m)[f] = SummaryAt(n)[f])
    BY <2>1, <2>3, <2>4 DEF Sums, Summarised
  <2>6. ASSUME NEW u \in User, Event(stream, u, m, n) PROVE Mentioned(rs, u)
    <3>1. PICK i \in (m + 1)..n : Concerns(stream[i], u)
      BY <2>6 DEF Event
    <3>2. PICK j \in DOMAIN tl : tl[j] = stream[i]
      BY <2>2, <3>1 DEF Concerns
    <3>3. \E k \in DOMAIN rs[j] : rs[j][k] = tl[j]
      <4>1. CASE j = 1
        <5>1. 2 \in DOMAIN rs[j] /\ rs[j][2] = tl[j]
          BY <2>1, <4>1
        <5> QED BY <5>1
      <4>2. CASE j # 1
        <5>1. 1 \in DOMAIN rs[j] /\ rs[j][1] = tl[j]
          BY <2>1, <4>2
        <5> QED BY <5>1
      <4> QED BY <4>1, <4>2
    <3> QED BY <2>1, <3>1, <3>2, <3>3 DEF Mentioned, Says
  <2> QED BY <1>4, <2>5, <2>6 DEF rs
<1> QED BY <1>2, <1>3, <1>4

\* Room keys come first, and say nothing of the room.
LEMMA KeysComeFirst ==
  ASSUME NEW a \in Seq(KeyBatches), NEW b \in Seq(RoomBatches), NEW n
  PROVE  /\ Truthful(stream, b, n) => Truthful(stream, a \o b, n)
         /\ \A u : Mentioned(b, u) => Mentioned(a \o b, u)
         /\ \A f : Summarised(b, f) => Summarised(a \o b, f)
         /\ b = <<>> => KeysOnly(a \o b)
<1> DEFINE s == a \o b
<1>1. a \in Seq(Batches) /\ b \in Seq(Batches)
  BY DEF Batches
<1>2. Len(a) \in Nat /\ Len(b) \in Nat /\ DOMAIN a = 1..Len(a) /\ DOMAIN b = 1..Len(b)
  OBVIOUS
<1>3. /\ s \in Seq(Batches) /\ Len(s) = Len(a) + Len(b)
      /\ \A i \in 1..(Len(a) + Len(b)) : s[i] = IF i <= Len(a) THEN a[i] ELSE b[i - Len(a)]
  BY <1>1, ConcatProperties, Zenon
<1> HIDE DEF s
<1>4. /\ DOMAIN s = 1..(Len(a) + Len(b))
      /\ \A i \in DOMAIN a : i \in DOMAIN s /\ s[i] = a[i]
      /\ \A i \in DOMAIN b : Len(a) + i \in DOMAIN s /\ s[Len(a) + i] = b[i]
      /\ \A i \in DOMAIN s : i \in DOMAIN a \/ (i - Len(a) \in DOMAIN b /\ s[i] = b[i - Len(a)])
  BY <1>2, <1>3
<1>5. \A i \in DOMAIN a : \A k \in DOMAIN a[i] : a[i][k].type = "key"
  <2> TAKE i \in DOMAIN a
  <2>1. a[i] \in KeyBatches
    OBVIOUS
  <2> QED BY <2>1 DEF KeyBatches, KeyBatch
<1>6. \A u : Mentioned(b, u) => Mentioned(s, u)
  BY <1>4 DEF Mentioned
<1>7. \A f : Summarised(b, f) => Summarised(s, f)
  BY <1>4 DEF Summarised
<1>8. ASSUME Truthful(stream, b, n) PROVE Truthful(stream, s, n)
  <2> SUFFICES ASSUME NEW j \in DOMAIN s, NEW k \in DOMAIN s[j]
               PROVE  /\ TrueSummary(stream, s[j][k], n)
                      /\ \A u \in User : Concerns(s[j][k], u) =>
                           About(u, n) # {} /\ (s[j][k] = StateOf(u, n) \/ Later(s, j, u))
    BY InStream DEF Truthful
  <2>1. CASE j \in DOMAIN a
    <3>1. s[j][k].type = "key"
      BY <1>4, <1>5, <2>1
    <3> QED BY <3>1, InStream DEF TrueSummary, Gives, Concerns
  <2>2. CASE j - Len(a) \in DOMAIN b /\ s[j] = b[j - Len(a)]
    <3> DEFINE p == j - Len(a)
    <3>1. p \in DOMAIN b /\ k \in DOMAIN b[p] /\ s[j] = b[p]
      BY <2>2
    <3>2. /\ TrueSummary(stream, b[p][k], n)
          /\ \A u \in User : Concerns(b[p][k], u) =>
               About(u, n) # {} /\ (b[p][k] = StateOf(u, n) \/ Later(b, p, u))
      BY <1>8, <3>1, InStream DEF Truthful
    <3>3. \A u : Later(b, p, u) => Later(s, j, u)
      <4> SUFFICES ASSUME NEW u, NEW i \in DOMAIN b, i > p, Says(b[i], u) PROVE Later(s, j, u)
        BY DEF Later
      <4>1. Len(a) + i \in DOMAIN s /\ s[Len(a) + i] = b[i]
        BY <1>4
      <4>2. Len(a) + i > j
        BY <1>2, <1>4
      <4> QED BY <4>1, <4>2 DEF Later
    <3> HIDE DEF p
    <3> QED BY <3>1, <3>2, <3>3
  <2> QED BY <1>4, <2>1, <2>2
<1>9. ASSUME b = <<>> PROVE KeysOnly(s)
  BY <1>2, <1>4, <1>9 DEF KeysOnly
<1> QED BY <1>6, <1>7, <1>8, <1>9 DEF s

LEMMA AnswersSay ==
  ASSUME Stream, NEW t \in Task, syncs[t].since \in 0..Len(stream), syncs[t].full \in BOOLEAN
  PROVE  /\ Truthful(stream, HandleSync(t), Len(stream))
         /\ \A encrypted : Covers(stream, SyncOf("answered", syncs[t].since, syncs[t].full, Len(stream), HandleSync(t), encrypted))
<1> DEFINE m    == syncs[t].since
           n    == Len(stream)
           full == syncs[t].full
           a    == ToDevice(m, n)
           b    == RoomSteps(m, n, full)
<1>1. m \in Nat /\ n \in Nat /\ m <= n /\ n \in 0..Len(stream) /\ n \in m..Len(stream) /\ m \in 0..Len(stream)
      /\ full \in BOOLEAN
  BY DEF Stream
<1>2. HandleSync(t) = a \o b
  BY DEF HandleSync
<1> HIDE DEF m, n, full
<1>3. a \in Seq(KeyBatches) /\ b \in Seq(RoomBatches)
  BY <1>1, ToDeviceSays, RoomStepsSay
<1>4. Truthful(stream, b, n)
  BY <1>1, RoomStepsAreTrue
<1>5. /\ \A f \in Fields :
           \/ Summarised(b, f)
           \/ /\ ~full /\ SummaryAt(m)[f] = SummaryAt(n)[f]
              /\ Told(m) \/ (~Told(n) /\ b = <<>>)
      /\ \A u \in User : Event(stream, u, m, n) \/ (full /\ About(u, n) # {}) => Mentioned(b, u)
  BY <1>1, RoomStepsCover
<1> HIDE DEF a, b
<1> DEFINE s == a \o b
<1>6. /\ Truthful(stream, s, n)
      /\ \A u : Mentioned(b, u) => Mentioned(s, u)
      /\ \A f : Summarised(b, f) => Summarised(s, f)
      /\ b = <<>> => KeysOnly(s)
  BY <1>3, <1>4, KeysComeFirst
<1> HIDE DEF s
<1>7. /\ \A f \in Fields :
           \/ Summarised(s, f)
           \/ /\ ~full /\ SummaryAt(m)[f] = SummaryAt(n)[f]
              /\ Told(m) \/ (~Told(n) /\ KeysOnly(s))
      /\ \A u \in User : Event(stream, u, m, n) \/ (full /\ About(u, n) # {}) => Mentioned(s, u)
  BY <1>5, <1>6
<1>8. ASSUME NEW encrypted PROVE Covers(stream, SyncOf("answered", m, full, n, s, encrypted))
  BY <1>1, <1>7, InStream DEF Covers, SyncOf
<1> QED BY <1>2, <1>6, <1>8 DEF m, n, full, s

-----------------------------------------------------------------------------
(* One sync at a time, and what is left of its response.                   *)

\* Unless two have met, there is one sync at most, and while the loop runs it is
\* that of the loop.
OneSync ==
  ~overlapped => /\ ~(Syncing("main") /\ Syncing("orphan"))
                 /\ Syncing("orphan") => loop = "idle"

\* The batches that are still to be handled.
Left == {syncs[t].steps : t \in {v \in Task : Handling(v)}}

LEMMA OneSyncStays ==
  ASSUME LoopTyped, RoomGood, OneSync, [Next]_vars
  PROVE  OneSync' /\ (overlapped => overlapped')
<1>t. "main" \in Task /\ "orphan" \in Task /\ \A t \in Task : t = "main" \/ t = "orphan"
  BY DEF Task
<1>n. /\ NoSync.state = "none" /\ [NoSync EXCEPT !.state = "done"].state = "done" /\ NoSync \in SyncRecord
  BY SyncRecords
<1>s. \A t \in Task : syncs[t] \in SyncRecord
  BY SyncsAreRecords
<1>i. loop = "idle" => ~Syncing("main")
  BY DEF LoopTyped, SyncsTyped
<1> DEFINE Fine == OneSync' /\ (overlapped => overlapped')
<1> SUFFICES Fine
  OBVIOUS
\* Who was not syncing is not, and the loop is where it was.
<1>k. ASSUME \A t \in Task : Syncing(t)' => Syncing(t), overlapped' = overlapped, loop' = loop
      PROVE  Fine
  BY <1>k, <1>t, Zenon DEF OneSync
<1>b. ASSUME NEW t \in Task, NEW s, Becomes(t, s), s.state \in {"flight", "answered", "handling"} => Syncing(t)
      PROVE  \A v \in Task : Syncing(v)' => Syncing(v)
  BY <1>b DEF Becomes, OnlyThis, Syncing
<1>d. ASSUME NEW t \in Task, Done(t) PROVE \A v \in Task : Syncing(v)' => Syncing(v)
  <2> DEFINE s == IF t = "main" THEN [NoSync EXCEPT !.state = "done"] ELSE NoSync
  <2>1. Becomes(t, s)
    BY <1>d, DoneSays
  <2>2. s.state \notin {"flight", "answered", "handling"}
    BY <1>n
  <2> HIDE DEF s
  <2> QED BY <1>b, <2>1, <2>2
\* The loop is left, and one sync at most goes on.
<1>l. ASSUME NEW left \in Task, Leave(syncs[left]), overlapped' = overlapped PROVE Fine
  <2>1. syncs'["main"] = NoSync /\ loop' = "idle"
    BY <1>l, <1>s, LeaveSays DEF Leave
  <2> QED BY <1>l, <1>n, <2>1 DEF OneSync, Syncing
<1>0. CASE UNCHANGED <<syncs, overlapped, loop>>
  <2>1. \A t \in Task : Syncing(t)' => Syncing(t)
    BY <1>0 DEF Syncing
  <2> QED BY <1>0, <1>k, <2>1
<1>1. CASE \/ UNCHANGED vars
           \/ \E e \in Events : Happens(e)
           \/ StopSyncForever \/ JoinedMembers \/ ServeMembers \/ ReceiveMembers
  BY <1>0, <1>1 DEF Happens, StopSyncForever, JoinedMembers, ServeMembers, ReceiveMembers, past, vars
<1>2. ASSUME NEW t \in Task, SyncStep(t) PROVE Fine
  <2>1. overlapped' = overlapped /\ loop' = loop
    BY <1>2 DEF SyncStep, Serve, Receive, Step, Finish, past
  <2>2. \A v \in Task : Syncing(v)' => Syncing(v)
    <3>1. CASE Serve(t)
      BY <1>b, <3>1, ServeSays DEF Syncing
    <3>2. CASE Receive(t)
      <4>1. CASE Done(t)
        BY <1>d, <4>1
      <4>2. CASE Becomes(t, SyncOf("handling", 0, FALSE, syncs[t].upto, syncs[t].steps, syncs[t].encrypted))
        <5>1. Syncing(t)
          BY <3>2 DEF Receive, Syncing
        <5> QED BY <1>b, <4>2, <5>1
      <4> QED BY <3>2, <4>1, <4>2, ReceiveSays
    <3>3. CASE Step(t)
      <4>1. Syncing(t)
        BY <3>3 DEF Step, Syncing, Handling
      <4> QED BY <1>b, <3>3, <4>1, StepsSay
    <3>4. CASE Finish(t)
      BY <1>d, <3>4 DEF Finish
    <3> QED BY <1>2, <3>1, <3>2, <3>3, <3>4 DEF SyncStep
  <2> HIDE DEF Fine
  <2> QED BY <1>k, <2>1, <2>2
<1>3. ASSUME NEW t \in Task, Refuse(t) PROVE Fine
  <2>1. overlapped' = overlapped /\ loop' = loop /\ Done(t)
    BY <1>3 DEF Refuse, past
  <2> HIDE DEF Fine
  <2> QED BY <1>d, <1>k, <2>1
<1>4. ASSUME NEW t \in Task, SyncRaises(t) PROVE Fine
  <2>1. overlapped' = overlapped
    BY <1>4 DEF SyncRaises
  <2>2. CASE t = "main"
    <3>1. Leave(syncs["orphan"])
      BY <1>4, <2>2 DEF SyncRaises
    <3> QED BY <1>l, <1>t, <2>1, <3>1
  <2>3. CASE t # "main"
    <3>1. Becomes(t, NoSync) /\ loop' = loop
      BY <1>4, <1>n, <2>3, OneSyncChanges DEF SyncRaises
    <3>2. \A v \in Task : Syncing(v)' => Syncing(v)
      BY <1>b, <1>n, <3>1
    <3> HIDE DEF Fine
    <3> QED BY <1>k, <2>1, <3>1, <3>2
  <2> QED BY <2>2, <2>3
<1>5. ASSUME NEW full \in BOOLEAN, Start(full) PROVE Fine
  <2>1. CASE stop
    BY <1>0, <1>5, <2>1 DEF Start
  <2>2. CASE ~stop
    <3>1. overlapped' = (overlapped \/ Syncing("orphan")) /\ syncs' = [syncs EXCEPT !["main"] = Request(full)]
      BY <1>5, <2>2 DEF Start
    <3>2. syncs'["orphan"] = syncs["orphan"]
      BY <3>1
    <3> QED BY <3>1, <3>2 DEF OneSync, Syncing
  <2> QED BY <2>1, <2>2
<1>6. CASE FirstDone
  <2>1. loop = "first" /\ syncs' = syncs /\ overlapped' = overlapped
    BY <1>6 DEF FirstDone, past
  <2> QED BY <2>1 DEF OneSync, Syncing
<1>7. CASE Iterate
  <2>1. loop = "gather" /\ overlapped' = overlapped
    BY <1>7 DEF Iterate, past
  <2>2. syncs'["orphan"] = syncs["orphan"]
    <3>1. \E s : syncs' = [syncs EXCEPT !["main"] = s]
      BY <1>7 DEF Iterate
    <3> QED BY <3>1
  <2> QED BY <2>1, <2>2 DEF OneSync, Syncing
<1>8. CASE OthersRaise
  <2>1. overlapped' = overlapped
    BY <1>8 DEF OthersRaise, past
  <2>2. \E left \in Task : Leave(syncs[left])
    <3>1. CASE Syncing("main")
      BY <1>8, <1>t, <3>1 DEF OthersRaise
    <3>2. CASE ~Syncing("main")
      BY <1>8, <1>t, <3>2 DEF OthersRaise
    <3> QED BY <3>1, <3>2
  <2> QED BY <1>l, <2>1, <2>2
<1>9. CASE Cancel
  <2>1. overlapped' = overlapped /\ Leave(syncs["orphan"])
    BY <1>9 DEF Cancel
  <2> QED BY <1>l, <1>t, <2>1
<1>10. CASE Crash
  <2>1. overlapped' = overlapped /\ syncs'["main"] = NoSync /\ syncs'["orphan"] = NoSync
    BY <1>10, <1>t DEF Crash
  <2> QED BY <1>n, <2>1 DEF OneSync, Syncing
<1> HIDE DEF Fine
<1> QED BY <1>1, <1>2, <1>3, <1>4, <1>5, <1>6, <1>7, <1>8, <1>9, <1>10 DEF Next

\* Neither the room nor what the client goes by has changed, and the responses
\* that are left are the same, but for one that is at its end or was cut off.
Kept ==
  /\ UNCHANGED <<stream, next_batch, rooms, loaded_sync_token, reinvited, stale, ahead, complete>>
  /\ interrupted => interrupted'
  /\ \A t \in Task : Handling(t)' => \E v \in Task : Handling(v) /\ syncs'[t] = syncs[v]
  /\ interrupted' \/ \A t \in Task : Handling(t) =>
       syncs[t].steps = <<>> \/ \E v \in Task : Handling(v)' /\ syncs'[v] = syncs[t]
Receives(t) == Receive(t) /\ syncs[t].upto # next_batch

LEMMA WhatChanges ==
  ASSUME LoopTyped, RoomGood, [Next]_vars
  PROVE  \/ Kept \/ (\E e \in Events : Happens(e)) \/ (\E t \in Task : Receives(t)) \/ (\E t \in Task : Step(t))
         \/ ReceiveMembers \/ Crash
<1>t. "main" \in Task /\ "orphan" \in Task /\ \A t \in Task : t = "main" \/ t = "orphan"
  BY DEF Task
<1>n. /\ NoSync.state = "none" /\ [NoSync EXCEPT !.state = "done"].state = "done" /\ NoSync \in SyncRecord
  BY SyncRecords
<1>s. \A t \in Task : syncs[t] \in SyncRecord
  BY SyncsAreRecords
<1> DEFINE Same  == UNCHANGED <<stream, next_batch, rooms, loaded_sync_token, reinvited, stale, ahead, complete>>
                    /\ (interrupted => interrupted')
           Owned == \A t \in Task : Handling(t)' => \E v \in Task : Handling(v) /\ syncs'[t] = syncs[v]
           Goes  == \A t \in Task : Handling(t) =>
                      syncs[t].steps = <<>> \/ \E v \in Task : Handling(v)' /\ syncs'[v] = syncs[t]
<1>k. ASSUME Same, Owned, interrupted' \/ Goes PROVE Kept
  BY <1>k DEF Kept
<1>0. ASSUME syncs' = syncs PROVE Owned /\ Goes
  BY <1>0 DEF Handling
\* The sync of a task is another one, which is not a response that is handled.
<1>b. ASSUME NEW t \in Task, NEW s, Becomes(t, s), s.state # "handling"
      PROVE  Owned /\ (~Handling(t) \/ syncs[t].steps = <<>> => Goes)
  <2>1. syncs'[t] = s /\ \A u \in Task \ {t} : syncs'[u] = syncs[u]
    BY <1>b DEF Becomes, OnlyThis
  <2>2. Owned
    BY <1>b, <2>1 DEF Handling
  <2>3. ~Handling(t) \/ syncs[t].steps = <<>> => Goes
    BY <2>1 DEF Handling
  <2> QED BY <2>2, <2>3
<1>d. ASSUME NEW t \in Task, Done(t) PROVE Owned /\ (~Handling(t) \/ syncs[t].steps = <<>> => Goes)
  <2> DEFINE s == IF t = "main" THEN [NoSync EXCEPT !.state = "done"] ELSE NoSync
  <2>1. Becomes(t, s)
    BY <1>d, DoneSays
  <2>2. s.state # "handling"
    BY <1>n
  <2> HIDE DEF s, Owned, Goes
  <2> QED BY <1>b, <2>1, <2>2
\* The loop is left, and the sync of one task goes on by itself.
<1>l. ASSUME NEW left \in Task, Leave(syncs[left])
      PROVE  Owned /\ ((\A t \in Task : Handling(t) => t = left) => Goes)
  <2>1. syncs'["main"] = NoSync /\ syncs'["orphan"] = syncs[left]
    BY <1>l, <1>s, LeaveSays
  <2>2. Owned
    BY <1>n, <1>t, <2>1 DEF Handling
  <2>3. (\A t \in Task : Handling(t) => t = left) => Goes
    BY <1>t, <2>1 DEF Handling
  <2> QED BY <2>2, <2>3
<1> HIDE DEF Owned, Goes
<1>1. CASE UNCHANGED vars \/ FirstDone \/ StopSyncForever \/ JoinedMembers \/ ServeMembers
  <2>1. Same /\ syncs' = syncs
    BY <1>1 DEF FirstDone, StopSyncForever, JoinedMembers, ServeMembers, vars, memory, past
  <2> QED BY <1>0, <1>k, <2>1
<1>2. ASSUME NEW t \in Task, Serve(t) PROVE Kept
  <2>1. Same
    BY <1>2 DEF Serve, memory, past
  <2> DEFINE s == SyncOf("answered", syncs[t].since, syncs[t].full, Len(stream), HandleSync(t), syncs[t].encrypted)
  <2>2. syncs[t].state = "flight" /\ Becomes(t, s) /\ s.state = "answered"
    BY <1>2, ServeSays DEF SyncOf
  <2> HIDE DEF s, Same
  <2>3. ~Handling(t)
    BY <2>2 DEF Handling
  <2> QED BY <1>b, <1>k, <2>1, <2>2, <2>3
<1>3. ASSUME NEW t \in Task, Receive(t) PROVE Kept \/ Receives(t)
  <2>1. CASE syncs[t].upto = next_batch
    <3>1. Same /\ Done(t) /\ ~Handling(t)
      BY <1>3, <2>1 DEF Receive, Handling
    <3> HIDE DEF Same
    <3> QED BY <1>d, <1>k, <3>1
  <2>2. CASE syncs[t].upto # next_batch
    BY <1>3, <2>2 DEF Receives
  <2> QED BY <2>1, <2>2
<1>4. ASSUME NEW t \in Task, Finish(t) PROVE Kept
  <2>1. Same /\ Done(t) /\ syncs[t].steps = <<>>
    BY <1>4 DEF Finish, past
  <2> HIDE DEF Same
  <2> QED BY <1>d, <1>k, <2>1
<1>5. ASSUME NEW t \in Task, Refuse(t) PROVE Kept
  <2>1. Same /\ Done(t) /\ ~Handling(t)
    BY <1>5 DEF Refuse, Handling, memory, past
  <2> HIDE DEF Same
  <2> QED BY <1>d, <1>k, <2>1
<1>6. ASSUME NEW t \in Task, SyncRaises(t) PROVE Kept
  <2>1. Same /\ interrupted' = (interrupted \/ Handling(t))
    BY <1>6 DEF SyncRaises, memory
  <2> HIDE DEF Same
  <2>2. CASE t = "main"
    <3>1. Leave(syncs["orphan"])
      BY <1>6, <2>2 DEF SyncRaises
    <3>2. interrupted' \/ \A v \in Task : Handling(v) => v = "orphan"
      BY <1>t, <2>1, <2>2
    <3> QED BY <1>k, <1>l, <1>t, <2>1, <3>1, <3>2
  <2>3. CASE t # "main"
    <3>1. Becomes(t, NoSync)
      BY <1>6, <1>n, <2>3, OneSyncChanges DEF SyncRaises
    <3>2. Owned /\ (~Handling(t) => Goes)
      BY <1>b, <1>n, <3>1
    <3> QED BY <1>k, <2>1, <3>2
  <2> QED BY <2>2, <2>3
<1>r. ASSUME NEW full \in BOOLEAN, syncs' = [syncs EXCEPT !["main"] = Request(full)], ~Handling("main")
      PROVE  Owned /\ Goes
  <2> DEFINE s == Request(full)
  <2>1. s \in SyncRecord /\ s.state = "flight"
    BY RequestsAreTyped
  <2> HIDE DEF s
  <2>2. Becomes("main", s)
    BY <1>r, <1>t, <2>1, OneSyncChanges DEF s
  <2> QED BY <1>b, <1>r, <1>t, <2>1, <2>2
<1>7. ASSUME NEW full \in BOOLEAN, Start(full) PROVE Kept
  <2>1. Same /\ ~Handling("main")
    BY <1>7 DEF Start, memory, LoopTyped, SyncsTyped, Syncing, Handling
  <2> HIDE DEF Same
  <2>2. CASE stop
    <3>1. syncs' = syncs
      BY <1>7, <2>2 DEF Start
    <3> QED BY <1>0, <1>k, <2>1, <3>1
  <2>3. CASE ~stop
    <3>1. syncs' = [syncs EXCEPT !["main"] = Request(full)]
      BY <1>7, <2>3 DEF Start
    <3> QED BY <1>k, <1>r, <2>1, <3>1
  <2> QED BY <2>2, <2>3
<1>8. CASE Iterate
  <2>1. Same /\ ~Handling("main")
    BY <1>8 DEF Iterate, memory, past, Handling
  <2> HIDE DEF Same
  <2>2. CASE Stops
    <3>1. Becomes("main", NoSync)
      BY <1>8, <1>n, <1>t, <2>2, OneSyncChanges DEF Iterate
    <3>2. Owned /\ Goes
      BY <1>b, <1>n, <1>t, <2>1, <3>1
    <3> QED BY <1>k, <2>1, <3>2
  <2>3. CASE ~Stops
    <3>1. syncs' = [syncs EXCEPT !["main"] = Request(FALSE)] /\ FALSE \in BOOLEAN
      BY <1>8, <2>3 DEF Iterate
    <3> QED BY <1>k, <1>r, <2>1, <3>1
  <2> QED BY <2>2, <2>3
<1>9. CASE OthersRaise
  <2>1. Same
    BY <1>9 DEF OthersRaise, memory, past
  <2> HIDE DEF Same
  <2>2. \E left \in Task : Leave(syncs[left]) /\ \A t \in Task : Handling(t) => t = left
    <3>1. CASE Syncing("main")
      <4>1. Leave(syncs["main"]) /\ ~Syncing("orphan")
        BY <1>9, <3>1 DEF OthersRaise
      <4>2. \A t \in Task : Handling(t) => t = "main"
        BY <1>t, <4>1 DEF Handling, Syncing
      <4> QED BY <1>t, <4>1, <4>2
    <3>2. CASE ~Syncing("main")
      <4>1. Leave(syncs["orphan"])
        BY <1>9, <3>2 DEF OthersRaise
      <4>2. \A t \in Task : Handling(t) => t = "orphan"
        BY <1>t, <3>2 DEF Handling, Syncing
      <4> QED BY <1>t, <4>1, <4>2
    <3> QED BY <3>1, <3>2
  <2> QED BY <1>k, <1>l, <2>1, <2>2
<1>10. CASE Cancel
  <2>1. Same /\ interrupted' = (interrupted \/ Handling("main")) /\ Leave(syncs["orphan"])
    BY <1>10 DEF Cancel, memory
  <2> HIDE DEF Same
  <2>2. interrupted' \/ \A v \in Task : Handling(v) => v = "orphan"
    BY <1>t, <2>1
  <2> QED BY <1>k, <1>l, <1>t, <2>1, <2>2
<1> HIDE DEF Same
<1> QED
  <2>1. ASSUME NEW t \in Task, SyncStep(t) PROVE Kept \/ Receives(t) \/ Step(t)
    BY <1>2, <1>3, <1>4, <2>1 DEF SyncStep
  <2>2. ASSUME Next
        PROVE  \/ (\E t \in Task : SyncStep(t) \/ Refuse(t) \/ SyncRaises(t))
               \/ (\E full \in BOOLEAN : Start(full))
               \/ (\E e \in Events : Happens(e)) \/ FirstDone \/ StopSyncForever \/ JoinedMembers
                  \/ ServeMembers \/ ReceiveMembers
               \/ Iterate \/ OthersRaise \/ Cancel \/ Crash
    BY <2>2, Zenon DEF Next
  <2> QED BY <1>1, <1>5, <1>6, <1>7, <1>8, <1>9, <1>10, <2>1, <2>2

LEMMA Alone ==
  ASSUME LoopTyped, OneSync, ~overlapped, NEW t \in Task, Syncing(t)
  PROVE  \A v \in Task : Syncing(v) => v = t
BY DEF OneSync, Task

LEMMA HandlingIsSyncing ==
  /\ \A t \in Task : Handling(t) \/ syncs[t].state = "answered" \/ t \in Asking => Syncing(t)
  /\ \A t \in Task : ~(Handling(t) /\ syncs[t].state = "answered")
BY DEF Handling, Syncing, Asking

LEMMA WhatReceiveChanges ==
  ASSUME LoopTyped, OneSync, ~overlapped, NEW t \in Task, Receives(t)
  PROVE  /\ syncs[t].state = "answered" /\ t \in Asking /\ next_batch' = syncs[t].upto
         /\ UNCHANGED <<stream, rooms, loaded_sync_token, interrupted, overlapped, reinvited, stale, ahead>>
         /\ complete' = (complete \/ syncs[t].full \/ syncs[t].since = 0)
         /\ Left = {} /\ Left' = {syncs[t].steps}
         /\ Handling(t)' /\ syncs'[t].upto = syncs[t].upto
         /\ \A v \in Task \ {t} : ~Syncing(v)'
<1>1. syncs[t].state = "answered" /\ next_batch' = syncs[t].upto /\ complete' = (complete \/ syncs[t].full \/ syncs[t].since = 0)
  BY DEF Receives, Receive
<1>2. UNCHANGED <<stream, rooms, loaded_sync_token, interrupted, overlapped, reinvited, stale, ahead>>
  BY DEF Receives, Receive
<1>3. \A v \in Task \ {t} : ~Syncing(v)
  BY <1>1, Alone DEF Syncing
<1>4. /\ \A v \in Task \ {t} : syncs'[v] = syncs[v]
      /\ syncs'[t] = SyncOf("handling", 0, FALSE, syncs[t].upto, syncs[t].steps, syncs[t].encrypted)
  <2>1. syncs[t].upto # next_batch
    BY DEF Receives
  <2> QED BY <2>1, ReceiveSays DEF Receives, Becomes, OnlyThis
<1>5. syncs'[t].state = "handling" /\ syncs'[t].upto = syncs[t].upto /\ syncs'[t].steps = syncs[t].steps
  BY <1>4 DEF SyncOf
<1>6. \A v \in Task \ {t} : ~Syncing(v)'
  BY <1>3, <1>4 DEF Syncing
<1>7. \A v \in Task : ~Handling(v)
  BY <1>1, <1>3 DEF Handling, Syncing
<1>8. Left = {}
  BY <1>7 DEF Left
<1>9. \A v \in Task : Handling(v)' <=> v = t
  BY <1>5, <1>6 DEF Handling, Syncing
<1>10. Left' = {syncs[t].steps}
  BY <1>5, <1>9 DEF Left
<1> QED BY <1>1, <1>2, <1>5, <1>6, <1>8, <1>9, <1>10 DEF Asking

LEMMA WhatStepHandles ==
  ASSUME LoopTyped, RoomGood, NEW t \in Task, Step(t), NEW batch, batch = Head(syncs[t].steps)
  PROVE  /\ Handling(t) /\ syncs[t].steps \in Seq(Batches) \ {<<>>}
         /\ UNCHANGED <<stream, loaded_sync_token, next_batch, interrupted, overlapped, stale, ahead, complete>>
         /\ \/ batch \in KeyBatches /\ rooms' = rooms
            \/ batch \in RoomBatches /\ rooms' = {HandleAll(Room, batch)}
<1>1. Handling(t) /\ syncs[t].steps # <<>> /\ syncs[t].steps \in Seq(Batches)
  BY SyncsAreRecords DEF Step, SyncRecord
<1>2. UNCHANGED <<stream, loaded_sync_token, next_batch, interrupted, overlapped, stale, ahead, complete>>
  BY DEF Step
<1>3. batch \in KeyBatches \/ batch \in RoomBatches
  BY <1>1 DEF Batches
<1>4. CASE batch \in KeyBatches
  <2>1. Head(batch).type = "key"
    BY <1>4 DEF KeyBatches, KeyBatch
  <2> QED BY <1>1, <1>2, <1>4, <2>1 DEF Step
<1>5. CASE batch \in RoomBatches
  <2>1. Head(batch) \in Item
    BY <1>5 DEF RoomBatches
  <2>2. Head(batch).type # "key"
    BY <2>1, EventsHaveTypes DEF Item, Summaries
  <2> QED BY <1>1, <1>2, <1>5, <2>2 DEF Step
<1> QED BY <1>3, <1>4, <1>5

LEMMA WhatStepChanges ==
  ASSUME LoopTyped, RoomGood, OneSync, ~overlapped, NEW t \in Task, Step(t), NEW batch, batch = Head(syncs[t].steps)
  PROVE  /\ Handling(t) /\ syncs[t].steps \in Seq(Batches) \ {<<>>}
         /\ UNCHANGED <<stream, loaded_sync_token, next_batch, interrupted, overlapped, stale, ahead, complete>>
         /\ \/ batch \in KeyBatches /\ rooms' = rooms
            \/ batch \in RoomBatches /\ rooms' = {HandleAll(Room, batch)}
         /\ reinvited' = (reinvited \/ \E i \in DOMAIN batch : Reinvites(Room, batch[i]))
         /\ Left = {syncs[t].steps} /\ Left' = {Tail(syncs[t].steps)}
         /\ Handling(t)' /\ syncs'[t].upto = syncs[t].upto
         /\ \A v \in Task \ {t} : ~Syncing(v)'
<1>1. Handling(t) /\ syncs[t].steps \in Seq(Batches) \ {<<>>}
  BY WhatStepHandles
<1>2. UNCHANGED <<stream, loaded_sync_token, next_batch, interrupted, overlapped, stale, ahead, complete>>
  BY DEF Step
<1>3. reinvited' = (reinvited \/ \E i \in DOMAIN batch : Reinvites(Room, batch[i]))
  BY DEF Step
<1>4. \/ batch \in KeyBatches /\ rooms' = rooms
      \/ batch \in RoomBatches /\ rooms' = {HandleAll(Room, batch)}
  BY WhatStepHandles
<1>5. \A v \in Task \ {t} : ~Syncing(v)
  BY <1>1, Alone DEF Handling, Syncing
<1>6. /\ \A v \in Task \ {t} : syncs'[v] = syncs[v]
      /\ syncs'[t].state = "handling" /\ syncs'[t].upto = syncs[t].upto /\ syncs'[t].steps = Tail(syncs[t].steps)
  <2>1. Becomes(t, SyncOf(syncs[t].state, syncs[t].since, syncs[t].full, syncs[t].upto, Tail(syncs[t].steps),
            syncs[t].encrypted \/ \E i \in DOMAIN Head(syncs[t].steps) : Head(syncs[t].steps)[i].type = "encryption"))
    BY StepsSay
  <2> QED BY <1>1, <2>1 DEF Becomes, OnlyThis, SyncOf, Handling
<1>7. \A v \in Task \ {t} : ~Syncing(v)'
  BY <1>5, <1>6 DEF Syncing
<1>8. \A v \in Task : Handling(v) <=> v = t
  BY <1>1, <1>5 DEF Handling, Syncing
<1>9. Left = {syncs[t].steps}
  BY <1>8 DEF Left
<1>10. \A v \in Task : Handling(v)' <=> v = t
  BY <1>6, <1>7 DEF Handling, Syncing
<1>11. Left' = {Tail(syncs[t].steps)}
  BY <1>6, <1>10 DEF Left
<1> QED BY <1>1, <1>2, <1>3, <1>4, <1>7, <1>9, <1>10, <1>11, <1>6

\* What is left after steps that change none of it.
LEMMA WhatKeptLeaves ==
  ASSUME Kept
  PROVE  Left' \subseteq Left /\ (interrupted' \/ \A steps \in Left : steps = <<>> \/ steps \in Left')
<1>1. \A t \in Task : Handling(t)' => \E v \in Task : Handling(v) /\ syncs'[t] = syncs[v]
  BY DEF Kept
<1>2. Left' \subseteq Left
  BY <1>1 DEF Left
<1>3. interrupted' \/ \A t \in Task : Handling(t) => syncs[t].steps = <<>> \/ \E v \in Task : Handling(v)' /\ syncs'[v] = syncs[t]
  BY DEF Kept
<1> QED BY <1>2, <1>3 DEF Left

\* The room is the same, but for what the list of encrypted rooms says of one that
\* is not known yet.
LEMMA SameRoom ==
  ASSUME rooms' = rooms
  PROVE  /\ Room'.summary = Room.summary
         /\ \A u : SamePlace(Room', Room, u)
         /\ Members(Room)' = Members(Room)
<1>1. CASE rooms = {}
  BY <1>1 DEF Room, EmptyRoom, SamePlace, Members
<1>2. CASE rooms # {}
  <2>1. Room' = Room
    BY <1>2 DEF Room
  <2> QED BY <2>1 DEF SamePlace, Members
<1> QED BY <1>1, <1>2

-----------------------------------------------------------------------------
(* Where a sync starts and ends, and what its answer says.                 *)

\* A sync is asked for with the token of the client, and the response that is
\* being handled is the one the token is of.
Tokens ==
  ~overlapped =>
    /\ \A t \in Asking : syncs[t].since = From
    /\ \A t \in Task : Handling(t) => syncs[t].upto = next_batch
    /\ rooms # {} \/ complete \/ Left # {} => next_batch # 0
\* Answers are true, and say all that has changed.
AnswersTruthful ==
  \A t \in Task : syncs[t].state \in {"answered", "handling"} => Truthful(stream, syncs[t].steps, syncs[t].upto)
AnswersCover == \A t \in Task : syncs[t].state = "answered" => Covers(stream, syncs[t])

LEMMA TruthStays ==
  ASSUME NEW s, NEW z, NEW l \in Nat, \A i \in 1..l : z[i] = s[i]
  PROVE  /\ \A n \in 0..l : \A steps : Truthful(s, steps, n) => Truthful(z, steps, n)
         /\ \A r : r.since \in 0..l /\ r.upto \in 0..l /\ Covers(s, r) => Covers(z, r)
<1>1. /\ \A n \in 0..l : /\ \A u : AboutIn(z, u, n) = AboutIn(s, u, n) /\ StateIn(z, u, n) = StateIn(s, u, n)
                         /\ SummaryIn(z, n) = SummaryIn(s, n) /\ (ToldIn(z, n) <=> ToldIn(s, n))
      /\ \A m \in Nat, n \in 0..l : \A u : Event(z, u, m, n) <=> Event(s, u, m, n)
  BY SaysTheSame
<1>2. ASSUME NEW n \in 0..l, NEW steps, Truthful(s, steps, n) PROVE Truthful(z, steps, n)
  BY <1>1, <1>2 DEF Truthful, TrueSummary
<1>3. ASSUME NEW r, r.since \in 0..l, r.upto \in 0..l, Covers(s, r) PROVE Covers(z, r)
  <2>1. r.since \in Nat
    BY <1>3
  <2> QED BY <1>1, <1>3, <2>1 DEF Covers
<1> QED BY <1>2, <1>3

\* What is left of a response that is handled in part is true.
LEMMA TailIsTrue ==
  ASSUME NEW s, NEW steps \in Seq(Batches) \ {<<>>}, NEW n, Truthful(s, steps, n)
  PROVE  Truthful(s, Tail(steps), n)
<1> DEFINE tail == Tail(steps)
<1>1. /\ \A j \in DOMAIN tail : j \in Nat /\ j + 1 \in DOMAIN steps /\ tail[j] = steps[j + 1]
      /\ \A i \in DOMAIN steps : i \in Nat /\ (i > 1 => i - 1 \in DOMAIN tail /\ tail[i - 1] = steps[i])
  OBVIOUS
<1> HIDE DEF tail
<1>2. \A j \in DOMAIN tail : \A u : Later(steps, j + 1, u) => Later(tail, j, u)
  <2> SUFFICES ASSUME NEW j \in DOMAIN tail, NEW u, NEW i \in DOMAIN steps, i > j + 1, Says(steps[i], u)
               PROVE  Later(tail, j, u)
    BY DEF Later
  <2>1. i - 1 \in DOMAIN tail /\ tail[i - 1] = steps[i] /\ i - 1 > j
    BY <1>1
  <2> QED BY <2>1 DEF Later
<1>3. Truthful(s, tail, n)
  <2> SUFFICES ASSUME NEW j \in DOMAIN tail, NEW k \in DOMAIN tail[j]
               PROVE  /\ TrueSummary(s, tail[j][k], n)
                      /\ \A u \in User : Concerns(tail[j][k], u) =>
                           AboutIn(s, u, n) # {} /\ (tail[j][k] = StateIn(s, u, n) \/ Later(tail, j, u))
    BY DEF Truthful
  <2>1. j + 1 \in DOMAIN steps /\ k \in DOMAIN steps[j + 1] /\ tail[j] = steps[j + 1]
    BY <1>1
  <2>2. /\ TrueSummary(s, steps[j + 1][k], n)
        /\ \A u \in User : Concerns(steps[j + 1][k], u) =>
             AboutIn(s, u, n) # {} /\ (steps[j + 1][k] = StateIn(s, u, n) \/ Later(steps, j + 1, u))
    BY <2>1 DEF Truthful
  <2> QED BY <1>2, <2>1, <2>2
<1> QED BY <1>3 DEF tail

LEMMA AnswersStayTrue ==
  ASSUME LoopTyped, RoomGood, AnswersTruthful, AnswersCover, [Next]_vars
  PROVE  AnswersTruthful' /\ AnswersCover'
<1>1. Len(stream) \in Nat /\ Len(stream') \in Nat /\ \A i \in 1..Len(stream) : stream'[i] = stream[i]
  BY StreamGrows
<1>2. /\ \A n \in 0..Len(stream) : \A steps : Truthful(stream, steps, n) => Truthful(stream', steps, n)
      /\ \A r : r.since \in 0..Len(stream) /\ r.upto \in 0..Len(stream) /\ Covers(stream, r) => Covers(stream', r)
  <2> DEFINE l == Len(stream)
             z == stream'
  <2>1. l \in Nat /\ \A i \in 1..l : z[i] = stream[i]
    BY <1>1
  <2> HIDE DEF l, z
  <2>2. /\ \A n \in 0..l : \A steps : Truthful(stream, steps, n) => Truthful(z, steps, n)
        /\ \A r : r.since \in 0..l /\ r.upto \in 0..l /\ Covers(stream, r) => Covers(z, r)
    BY <2>1, TruthStays
  <2> QED BY <2>2 DEF l, z
<1>3. \A t \in Task : /\ syncs[t].since \in 0..Len(stream) /\ syncs[t].upto \in 0..Len(stream)
                      /\ syncs[t].full \in BOOLEAN /\ syncs[t].steps \in Seq(Batches)
  <2> SUFFICES ASSUME NEW t \in Task
               PROVE  /\ syncs[t].since \in 0..Len(stream) /\ syncs[t].upto \in 0..Len(stream)
                      /\ syncs[t].full \in BOOLEAN /\ syncs[t].steps \in Seq(Batches)
    OBVIOUS
  <2>1. syncs[t] \in SyncRecord /\ syncs[t].since <= Len(stream) /\ syncs[t].upto <= Len(stream)
    BY SyncsAreRecords
  <2> QED BY <1>1, <2>1, BoundsAssumption DEF SyncRecord, Positions
<1>4. ASSUME NEW u \in Task
      PROVE  /\ syncs'[u].state \in {"answered", "handling"} => Truthful(stream', syncs'[u].steps, syncs'[u].upto)
             /\ syncs'[u].state = "answered" => Covers(stream', syncs'[u])
  <2>1. CASE \E t \in Task : syncs'[u] = syncs[t]
    BY <1>2, <1>3, <2>1 DEF AnswersTruthful, AnswersCover
  <2>2. CASE Serve(u)
    <3> DEFINE s == SyncOf("answered", syncs[u].since, syncs[u].full, Len(stream), HandleSync(u), syncs[u].encrypted)
    <3>1. syncs'[u] = s /\ stream' = stream
      BY <2>2, ServeSays DEF Becomes, Serve
    <3>2. s.state = "answered" /\ s.steps = HandleSync(u) /\ s.upto = Len(stream)
      BY DEF SyncOf
    <3>3. Truthful(stream, s.steps, s.upto) /\ Covers(stream, s)
      <4>1. Stream
        BY DEF LoopTyped, StoreTyped
      <4>2. Truthful(stream, HandleSync(u), Len(stream)) /\ Covers(stream, s)
        BY <1>3, <4>1, AnswersSay
      <4> HIDE DEF s
      <4> QED BY <3>2, <4>2
    <3> HIDE DEF s
    <3> QED BY <3>1, <3>2, <3>3
  <2>3. CASE Receive(u) /\ syncs'[u].state = "handling"
    <3> DEFINE s == SyncOf("handling", 0, FALSE, syncs[u].upto, syncs[u].steps, syncs[u].encrypted)
    <3>1. syncs[u].state = "answered" /\ stream' = stream
      BY <2>3 DEF Receive
    <3>2. syncs'[u].steps = syncs[u].steps /\ syncs'[u].upto = syncs[u].upto
      <4>1. CASE Done(u)
        <5>1. syncs'[u].state # "handling"
          BY <4>1, DoneSays, SyncRecords DEF Becomes
        <5> QED BY <2>3, <5>1
      <4>2. CASE Becomes(u, s)
        BY <4>2 DEF Becomes, SyncOf
      <4> QED BY <2>3, <4>1, <4>2, ReceiveSays
    <3> QED BY <2>3, <3>1, <3>2 DEF AnswersTruthful
  <2>4. CASE Step(u)
    <3>1. /\ syncs'[u].state = syncs[u].state /\ syncs'[u].upto = syncs[u].upto
          /\ syncs'[u].steps = Tail(syncs[u].steps)
      <4>1. Becomes(u, SyncOf(syncs[u].state, syncs[u].since, syncs[u].full, syncs[u].upto, Tail(syncs[u].steps),
              syncs[u].encrypted \/ \E i \in DOMAIN Head(syncs[u].steps) : Head(syncs[u].steps)[i].type = "encryption"))
        BY <2>4, StepsSay
      <4> QED BY <4>1 DEF Becomes, SyncOf
    <3>2. syncs[u].state = "handling" /\ stream' = stream /\ syncs[u].steps \in Seq(Batches) \ {<<>>}
      BY <1>3, <2>4 DEF Step, Handling
    <3>3. Truthful(stream, syncs[u].steps, syncs[u].upto)
      BY <3>2 DEF AnswersTruthful
    <3>4. Truthful(stream, Tail(syncs[u].steps), syncs[u].upto)
      BY <3>2, <3>3, TailIsTrue
    <3> QED BY <3>1, <3>2, <3>4
  <2> QED BY <2>1, <2>2, <2>3, <2>4, SyncsHaveOrigins DEF Origin
<1> QED BY <1>4 DEF AnswersTruthful, AnswersCover

\* The token of an answer is not older than the one the client has.
LEMMA AnswersAreNewer ==
  ASSUME LoopTyped, OneSync, Tokens, AnswersCover, ~overlapped, NEW t \in Task, Receives(t)
  PROVE  /\ syncs[t].since = From /\ syncs[t].since \in Nat /\ syncs[t].upto \in Nat /\ next_batch \in Nat
         /\ Covers(stream, syncs[t]) /\ syncs[t].since <= syncs[t].upto /\ syncs[t].upto <= Len(stream)
         /\ next_batch <= syncs[t].upto /\ syncs[t].upto # 0
         /\ next_batch # 0 => syncs[t].since = next_batch
<1>1. syncs[t].state = "answered" /\ t \in Asking /\ syncs[t].upto # next_batch
  BY WhatReceiveChanges DEF Receives
<1>2. syncs[t].since = From /\ Covers(stream, syncs[t])
  BY <1>1 DEF Tokens, AnswersCover
<1>3. syncs[t].since \in Nat /\ syncs[t].upto \in Nat /\ next_batch \in Nat /\ syncs[t].upto <= Len(stream)
  BY SyncsAreRecords, BoundsAssumption DEF SyncRecord, Positions, LoopTyped, MemoryTyped, Behind
<1>4. syncs[t].since <= syncs[t].upto
  BY <1>2 DEF Covers
<1> QED BY <1>1, <1>2, <1>3, <1>4 DEF From

LEMMA TokensStay ==
  ASSUME LoopTyped, RoomGood, OneSync, Tokens, AnswersCover, [Next]_vars
  PROVE  Tokens'
<1> SUFFICES ASSUME ~overlapped'
             PROVE  /\ \A t \in Asking' : syncs'[t].since = From'
                    /\ \A t \in Task : Handling(t)' => syncs'[t].upto = next_batch'
                    /\ rooms' # {} \/ complete' \/ Left' # {} => next_batch' # 0
  BY DEF Tokens
<1> DEFINE Asked   == \A t \in Asking' : syncs'[t].since = From'
           Heading == \A t \in Task : Handling(t)' => syncs'[t].upto = next_batch'
           Begun   == rooms' # {} \/ complete' \/ Left' # {} => next_batch' # 0
<1>1. ~overlapped
  BY OneSyncStays
<1>2. /\ \A t \in Asking : syncs[t].since = From
      /\ \A t \in Task : Handling(t) => syncs[t].upto = next_batch
      /\ rooms # {} \/ complete \/ Left # {} => next_batch # 0
  BY <1>1 DEF Tokens
<1>3. \A t \in Asking' : syncs'[t].since = From
  <2> SUFFICES ASSUME NEW t \in Task, syncs'[t].state \in {"flight", "answered"} PROVE syncs'[t].since = From
    BY DEF Asking
  <2>1. CASE Serve(t)
    <3>1. syncs'[t].since = syncs[t].since /\ syncs[t].state = "flight"
      BY <2>1, ServeLeaves
    <3> QED BY <1>2, <3>1 DEF Asking
  <2>2. CASE Step(t)
    <3>1. syncs'[t].state = "handling"
      BY <2>2, StepLeaves
    <3> QED BY <3>1
  <2>3. CASE \E v \in Task : syncs'[t] = syncs[v]
    BY <1>2, <2>3 DEF Asking
  <2> QED BY <2>1, <2>2, <2>3, SyncsHaveOrigins DEF Origin
<1>4. CASE \/ \E e \in Events : Happens(e)
           \/ ReceiveMembers
  <2>1. /\ UNCHANGED <<syncs, next_batch, loaded_sync_token, complete>> /\ (rooms' # {} => rooms # {})
    BY <1>4 DEF Happens, ReceiveMembers, memory, past
  <2>2. From' = From /\ Left' = Left /\ \A t \in Task : Handling(t)' => Handling(t)
    BY <2>1 DEF From, Left, Handling
  <2> QED BY <1>2, <1>3, <2>1, <2>2
<1>5. CASE Kept
  <2>1. From' = From
    BY <1>5 DEF From, Kept
  <2>2. Left' \subseteq Left
    BY <1>5, WhatKeptLeaves
  <2>3. Heading
    BY <1>2, <1>5 DEF Kept
  <2> QED BY <1>2, <1>3, <1>5, <2>1, <2>2, <2>3 DEF Kept
<1>6. ASSUME NEW t \in Task, Receives(t) PROVE Asked /\ Heading /\ Begun
  <2>1. /\ next_batch' = syncs[t].upto /\ syncs[t].upto # 0
        /\ Handling(t)' /\ syncs'[t].upto = syncs[t].upto /\ \A v \in Task \ {t} : ~Syncing(v)'
    BY <1>1, <1>6, WhatReceiveChanges, AnswersAreNewer
  <2>2. \A v \in Task : v \in Asking' \/ Handling(v)' => v = t
    BY <2>1 DEF Asking, Handling, Syncing
  <2>3. Asking' = {}
    BY <2>1, <2>2 DEF Asking, Handling
  <2> QED BY <2>1, <2>2, <2>3
<1>7. ASSUME NEW t \in Task, Step(t) PROVE Asked /\ Heading /\ Begun
  <2>1. /\ Handling(t) /\ syncs'[t].upto = syncs[t].upto /\ \A v \in Task \ {t} : ~Syncing(v)'
        /\ next_batch' = next_batch /\ loaded_sync_token' = loaded_sync_token /\ Left = {syncs[t].steps}
    BY <1>1, <1>7, WhatStepChanges
  <2>2. \A v \in Task : Handling(v)' => v = t
    BY <2>1 DEF Handling, Syncing
  <2>3. From' = From
    BY <2>1 DEF From
  <2> QED BY <1>2, <1>3, <2>1, <2>2, <2>3
<1>8. CASE Crash
  <2>1. rooms' = {} /\ complete' = FALSE /\ \A t \in Task : syncs'[t].state = "none"
    BY <1>8, SyncRecords DEF Crash
  <2>2. Asking' = {} /\ Left' = {} /\ \A t \in Task : ~Handling(t)'
    BY <2>1 DEF Asking, Left, Handling
  <2> QED BY <2>1, <2>2
<1> HIDE DEF Asked, Heading, Begun
<1>9. Asked /\ Heading /\ Begun
  BY <1>4, <1>5, <1>6, <1>7, <1>8, WhatChanges DEF Asked, Heading, Begun
<1> QED BY <1>9 DEF Asked, Heading, Begun

-----------------------------------------------------------------------------
(* What the room says, and what the rest of a response will still say.     *)

\* No response was cut off and no two syncs have met.
Smooth == ~interrupted /\ ~overlapped

\* Each field of the summary is that of the server as of the token, or is in what
\* is left of the response; or the server has told nothing of the room yet.
SummaryKept ==
  /\ DOMAIN Room.summary = Fields
  /\ complete /\ Smooth =>
       \A f \in Fields :
         \/ Room.summary[f] = Given(SummaryIn(stream, next_batch)[f])
         \/ \E steps \in Left : Summarised(steps, f)
         \/ rooms = {} /\ ~ToldIn(stream, next_batch) /\ \A steps \in Left : KeysOnly(steps)
\* Each user is in the room as the server has it as of the token, or is in what is
\* left of the response, or has an event that a members response was ahead with.
MembersKept ==
  complete /\ Smooth /\ ~stale /\ ~reinvited =>
    \A u \in User :
      \/ Placed(Room, u, StateIn(stream, u, next_batch))
      \/ \E steps \in Left : Mentioned(steps, u)
      \/ Event(stream, u, next_batch, ahead)
\* Nobody is listed whom the server has never told of.
MembersHeard ==
  /\ ~overlapped => \A u \in Members(Room) : AboutIn(stream, u, next_batch) # {} \/ AboutIn(stream, u, ahead) # {}
  /\ rooms = {} => ahead = 0
  /\ ahead <= Len(stream)
RoomKept == SummaryKept /\ MembersKept /\ MembersHeard

\* What a stream says of a user is not taken back.
LEMMA AboutGrows ==
  ASSUME NEW s, NEW u, NEW m \in Nat, NEW n \in Nat, m <= n
  PROVE  AboutIn(s, u, m) \subseteq AboutIn(s, u, n)
BY DEF AboutIn

LEMMA HeadAndTail ==
  ASSUME NEW steps \in Seq(Batches) \ {<<>>}
  PROVE  /\ 1 \in DOMAIN steps /\ steps[1] = Head(steps)
         /\ \A u : Mentioned(steps, u) => Says(Head(steps), u) \/ Mentioned(Tail(steps), u)
         /\ \A u : Later(steps, 1, u) => Mentioned(Tail(steps), u)
         /\ \A f : Summarised(steps, f) => Sums(Head(steps), f) \/ Summarised(Tail(steps), f)
         /\ KeysOnly(steps) => Head(steps) \in KeyBatches /\ KeysOnly(Tail(steps))
<1> DEFINE head == Head(steps)
           tail == Tail(steps)
<1>1. /\ 1 \in DOMAIN steps /\ steps[1] = head
      /\ \A i \in DOMAIN steps : i = 1 \/ (i > 1 /\ i - 1 \in DOMAIN tail /\ tail[i - 1] = steps[i])
      /\ \A j \in DOMAIN tail : j + 1 \in DOMAIN steps /\ tail[j] = steps[j + 1]
  OBVIOUS
<1> HIDE DEF head, tail
<1>2. \A u : Mentioned(steps, u) => Says(head, u) \/ Mentioned(tail, u)
  BY <1>1 DEF Mentioned
<1>3. \A u : Later(steps, 1, u) => Mentioned(tail, u)
  BY <1>1 DEF Later, Mentioned
<1>4. \A f : Summarised(steps, f) => Sums(head, f) \/ Summarised(tail, f)
  BY <1>1 DEF Summarised
<1>5. KeysOnly(steps) => head \in KeyBatches /\ KeysOnly(tail)
  BY <1>1 DEF KeysOnly
<1> QED BY <1>1, <1>2, <1>3, <1>4, <1>5 DEF head, tail

\* A batch of a room key is about nobody and gives nothing.
LEMMA KeysSayNothing ==
  ASSUME NEW batch \in KeyBatches
  PROVE  (\A u : ~Says(batch, u)) /\ (\A f : ~Sums(batch, f))
<1>1. \A k \in DOMAIN batch : batch[k].type = "key"
  BY DEF KeyBatches, KeyBatch
<1> QED BY <1>1 DEF Says, Sums, Concerns, Gives

\* What a batch of the room does, when it is true and comes before the rest.
LEMMA BatchIsTrue ==
  ASSUME NEW room, Good(room), DOMAIN room.summary = Fields, NEW steps \in Seq(Batches) \ {<<>>},
         NEW batch \in RoomBatches, batch = Head(steps), NEW s, NEW n, Truthful(s, steps, n)
  PROVE  LET new == HandleAll(room, batch) IN
         /\ DOMAIN new.summary = Fields
         /\ \A f \in Fields : new.summary[f] = IF Sums(batch, f) THEN Given(SummaryIn(s, n)[f]) ELSE room.summary[f]
         /\ \A u \in User : ~Says(batch, u) => SamePlace(new, room, u)
         /\ \A u \in User : Says(batch, u) => AboutIn(s, u, n) # {}
         /\ \A u \in User : /\ Says(batch, u) /\ ~Mentioned(Tail(steps), u)
                            /\ ~\E i \in DOMAIN batch : Reinvites(room, batch[i])
                            => Placed(new, u, StateIn(s, u, n))
<1> DEFINE new  == HandleAll(room, batch)
           tail == Tail(steps)
           none == [type |-> "none"]
<1>1. /\ 1 \in DOMAIN steps /\ steps[1] = batch /\ batch \in Seq(Item)
      /\ \A u : Later(steps, 1, u) => Mentioned(tail, u)
  BY HeadAndTail DEF RoomBatches
<1> HIDE DEF tail
<1>2. \A k \in DOMAIN batch :
        /\ TrueSummary(s, batch[k], n)
        /\ \A u \in User : Concerns(batch[k], u) =>
             AboutIn(s, u, n) # {} /\ (batch[k] = StateIn(s, u, n) \/ Mentioned(tail, u))
  BY <1>1 DEF Truthful
<1>3. \A g \in Fields : \A k \in DOMAIN batch : Gives(batch[k], g) => batch[k].summary[g] = Given(SummaryIn(s, n)[g])
  BY <1>2 DEF TrueSummary
<1>4. ASSUME NEW u, NEW e, NEW g \in Fields, AllSay(batch, u, e), ~Reinvites(room, e)
      PROVE  /\ DOMAIN new.summary = Fields
             /\ u \in User /\ Says(batch, u) => Placed(new, u, e)
             /\ u \in User /\ ~Says(batch, u) => SamePlace(new, room, u)
             /\ Sums(batch, g) => new.summary[g] = Given(SummaryIn(s, n)[g])
             /\ ~Sums(batch, g) => new.summary[g] = room.summary[g]
  <2> DEFINE x == Given(SummaryIn(s, n)[g])
  <2>1. AllGive(batch, g, x)
    BY <1>3 DEF AllGive
  <2> HIDE DEF x
  <2>2. /\ DOMAIN new.summary = Fields
        /\ u \in User /\ Says(batch, u) => Placed(new, u, e)
        /\ u \in User /\ ~Says(batch, u) => SamePlace(new, room, u)
        /\ Sums(batch, g) => new.summary[g] = x
        /\ ~Sums(batch, g) => new.summary[g] = room.summary[g]
    BY <1>1, <1>4, <2>1, BatchSays
  <2> HIDE DEF new
  <2> QED BY <2>2 DEF x
<1> HIDE DEF new
<1>5. ~Reinvites(room, none)
  BY DEF Reinvites
<1>6. /\ DOMAIN new.summary = Fields
      /\ \A f \in Fields : new.summary[f] = IF Sums(batch, f) THEN Given(SummaryIn(s, n)[f]) ELSE room.summary[f]
  <2> DEFINE nobody == CHOOSE u : u \notin {batch[k].user : k \in DOMAIN batch}
  <2>1. \E u : u \notin {batch[k].user : k \in DOMAIN batch}
    BY NoSetContainsEverything
  <2>2. AllSay(batch, nobody, none)
    BY <2>1 DEF Concerns, AllSay
  <2> HIDE DEF nobody, none
  <2>3. "joined" \in Fields
    BY DEF Fields
  <2> QED BY <1>4, <1>5, <2>2, <2>3
<1>7. ASSUME NEW u \in User, ~Says(batch, u) PROVE SamePlace(new, room, u)
  <2>1. AllSay(batch, u, none)
    BY <1>7 DEF Says, AllSay
  <2>2. "joined" \in Fields
    BY DEF Fields
  <2> HIDE DEF none
  <2> QED BY <1>4, <1>5, <1>7, <2>1, <2>2
<1>8. ASSUME NEW u \in User, Says(batch, u) PROVE AboutIn(s, u, n) # {}
  BY <1>2, <1>8 DEF Says
<1>9. ASSUME NEW u \in User, Says(batch, u), ~Mentioned(tail, u), ~\E i \in DOMAIN batch : Reinvites(room, batch[i])
      PROVE  Placed(new, u, StateIn(s, u, n))
  <2> DEFINE e == StateIn(s, u, n)
  <2>1. AllSay(batch, u, e)
    BY <1>2, <1>9 DEF AllSay
  <2>2. ~Reinvites(room, e)
    BY <1>9, <2>1 DEF Says, AllSay
  <2>3. "joined" \in Fields
    BY DEF Fields
  <2> HIDE DEF e
  <2>4. Placed(new, u, e)
    BY <1>4, <1>9, <2>1, <2>2, <2>3
  <2> QED BY <2>4 DEF e
<1> QED BY <1>6, <1>7, <1>8, <1>9 DEF new, tail

-----------------------------------------------------------------------------
(* Every step keeps what the room says.                                    *)

LEMMA StepKeepsRoom ==
  ASSUME LoopTyped, RoomGood, OneSync, Tokens, AnswersTruthful, RoomKept, ~overlapped, NEW t \in Task, Step(t)
  PROVE  RoomKept'
<1> DEFINE steps == syncs[t].steps
           batch == Head(steps)
           tail  == Tail(steps)
           n     == next_batch
           s     == stream
<1>1. /\ Handling(t) /\ steps \in Seq(Batches) \ {<<>>}
      /\ stream' = s /\ next_batch' = n /\ UNCHANGED <<interrupted, overlapped, stale, ahead, complete>>
      /\ \/ batch \in KeyBatches /\ rooms' = rooms
         \/ batch \in RoomBatches /\ rooms' = {HandleAll(Room, batch)}
      /\ reinvited' = (reinvited \/ \E i \in DOMAIN batch : Reinvites(Room, batch[i]))
      /\ Left = {steps} /\ Left' = {tail}
  BY WhatStepChanges
<1>2. Truthful(s, steps, n)
  BY <1>1 DEF AnswersTruthful, Tokens, Handling
<1>3. /\ \A u : Mentioned(steps, u) => Says(batch, u) \/ Mentioned(tail, u)
      /\ \A f : Summarised(steps, f) => Sums(batch, f) \/ Summarised(tail, f)
      /\ KeysOnly(steps) => batch \in KeyBatches /\ KeysOnly(tail)
  BY <1>1, HeadAndTail
<1>4. Good(Room) /\ DOMAIN Room.summary = Fields
  BY RoomIsGood DEF RoomKept, SummaryKept
<1>5. /\ complete /\ Smooth => \A f \in Fields :
           \/ Room.summary[f] = Given(SummaryIn(s, n)[f]) \/ Summarised(steps, f)
           \/ rooms = {} /\ ~ToldIn(s, n) /\ KeysOnly(steps)
      /\ complete /\ Smooth /\ ~stale /\ ~reinvited => \A u \in User :
           Placed(Room, u, StateIn(s, u, n)) \/ Mentioned(steps, u) \/ Event(s, u, n, ahead)
      /\ \A u \in Members(Room) : AboutIn(s, u, n) # {} \/ AboutIn(s, u, ahead) # {}
      /\ rooms = {} => ahead = 0
      /\ ahead <= Len(s)
  BY <1>1 DEF RoomKept, SummaryKept, MembersKept, MembersHeard
<1> HIDE DEF steps, batch, tail, n, s
\* The room after the batch.
<1>6. /\ DOMAIN Room'.summary = Fields
      /\ \A f \in Fields : /\ Sums(batch, f) => Room'.summary[f] = Given(SummaryIn(s, n)[f])
                           /\ ~Sums(batch, f) => Room'.summary[f] = Room.summary[f]
      /\ \A u \in User : ~Says(batch, u) => SamePlace(Room', Room, u)
      /\ \A u \in User : Says(batch, u) => AboutIn(s, u, n) # {}
      /\ \A u \in User : Says(batch, u) /\ ~Mentioned(tail, u) /\ ~(\E i \in DOMAIN batch : Reinvites(Room, batch[i]))
                         => Placed(Room', u, StateIn(s, u, n))
      /\ batch \notin KeyBatches => rooms' # {}
      /\ batch \in KeyBatches => (rooms' = rooms \/ rooms' # {})
      /\ Members(Room)' \subseteq User
  <2>1. CASE batch \in KeyBatches /\ rooms' = rooms
    <3>1. (\A u : ~Says(batch, u)) /\ (\A f : ~Sums(batch, f))
      BY <2>1, KeysSayNothing
    <3>2. /\ Room'.summary = Room.summary /\ (\A u : SamePlace(Room', Room, u)) /\ Members(Room)' = Members(Room)
      BY <2>1, SameRoom
    <3>3. Members(Room) \subseteq User
      BY <1>4 DEF Good, RoomTyped, Members
    <3> QED BY <1>4, <2>1, <3>1, <3>2, <3>3
  <2>2. CASE batch \in RoomBatches /\ rooms' = {HandleAll(Room, batch)}
    <3> DEFINE room == Room
               new  == HandleAll(room, batch)
    <3>1. Room' = new /\ rooms' # {}
      BY <2>2 DEF Room
    <3>2. /\ Good(room) /\ DOMAIN room.summary = Fields /\ steps \in Seq(Batches) \ {<<>>}
          /\ batch \in RoomBatches /\ batch = Head(steps) /\ Truthful(s, steps, n) /\ tail = Tail(steps)
          /\ batch \in Seq(Item)
      BY <1>1, <1>2, <1>4, <2>2 DEF batch, tail, RoomBatches
    <3> HIDE DEF room
    <3>3. /\ DOMAIN new.summary = Fields
          /\ \A f \in Fields : new.summary[f] = IF Sums(batch, f) THEN Given(SummaryIn(s, n)[f]) ELSE room.summary[f]
          /\ \A u \in User : ~Says(batch, u) => SamePlace(new, room, u)
          /\ \A u \in User : Says(batch, u) => AboutIn(s, u, n) # {}
          /\ \A u \in User : /\ Says(batch, u) /\ ~Mentioned(Tail(steps), u)
                             /\ ~\E i \in DOMAIN batch : Reinvites(room, batch[i])
                             => Placed(new, u, StateIn(s, u, n))
      BY <3>2, BatchIsTrue
    <3>4. Good(new)
      BY <3>2, HandleAllIsGood
    <3> HIDE DEF new
    <3>5. Members(Room)' \subseteq User
      BY <3>1, <3>4 DEF Good, RoomTyped, Members
    <3> QED BY <2>2, <3>1, <3>2, <3>3, <3>5 DEF room
  <2> QED BY <1>1, <2>1, <2>2
<1>7. SummaryKept'
  <2> SUFFICES ASSUME complete', Smooth', NEW f \in Fields
               PROVE  \/ Room'.summary[f] = Given(SummaryIn(s, n)[f]) \/ Summarised(tail, f)
                      \/ rooms' = {} /\ ~ToldIn(s, n) /\ KeysOnly(tail)
    BY <1>1, <1>6 DEF SummaryKept
  <2>1. complete /\ Smooth
    BY <1>1 DEF Smooth
  <2>2. \/ Room.summary[f] = Given(SummaryIn(s, n)[f]) \/ Summarised(steps, f)
        \/ rooms = {} /\ ~ToldIn(s, n) /\ KeysOnly(steps)
    BY <1>5, <2>1
  <2>3. CASE Sums(batch, f)
    BY <1>6, <2>3
  <2>4. CASE ~Sums(batch, f)
    <3>1. CASE KeysOnly(steps) /\ rooms = {} /\ ~ToldIn(s, n)
      <4>1. batch \in KeyBatches /\ KeysOnly(tail)
        BY <1>3, <3>1
      <4>2. rooms' = {}
        <5>1. batch \notin RoomBatches
          <6>1. batch[1].type = "key" /\ 1 \in DOMAIN batch
            BY <4>1 DEF KeyBatches, KeyBatch
          <6>2. batch \in RoomBatches => batch[1] \in Item
            BY <6>1 DEF RoomBatches
          <6> QED BY <6>1, <6>2, EventsHaveTypes DEF Item, Summaries
        <5> QED BY <1>1, <3>1, <5>1
      <4> QED BY <3>1, <4>1, <4>2
    <3> QED BY <1>3, <1>6, <2>2, <2>4, <3>1
  <2> QED BY <2>3, <2>4
<1>8. MembersKept'
  <2> SUFFICES ASSUME complete', Smooth', ~stale', ~reinvited', NEW u \in User
               PROVE  Placed(Room', u, StateIn(s, u, n)) \/ Mentioned(tail, u) \/ Event(s, u, n, ahead)
    BY <1>1 DEF MembersKept
  <2>1. complete /\ Smooth /\ ~stale /\ ~reinvited /\ ~\E i \in DOMAIN batch : Reinvites(Room, batch[i])
    BY <1>1 DEF Smooth
  <2>2. Placed(Room, u, StateIn(s, u, n)) \/ Mentioned(steps, u) \/ Event(s, u, n, ahead)
    BY <1>5, <2>1
  <2>3. CASE Says(batch, u)
    BY <1>6, <2>1, <2>3
  <2>4. CASE ~Says(batch, u)
    <3>1. SamePlace(Room', Room, u)
      BY <1>6, <2>4
    <3>2. Placed(Room, u, StateIn(s, u, n)) => Placed(Room', u, StateIn(s, u, n))
      BY <3>1 DEF Placed, SamePlace
    <3> QED BY <1>3, <2>2, <2>4, <3>2
  <2> QED BY <2>3, <2>4
<1>9. MembersHeard'
  <2>1. ASSUME NEW u \in Members(Room)' PROVE AboutIn(s, u, n) # {} \/ AboutIn(s, u, ahead) # {}
    <3>1. u \in User
      BY <1>6
    <3>2. CASE Says(batch, u)
      BY <1>6, <3>1, <3>2
    <3>3. CASE ~Says(batch, u)
      <4>1. u \in Members(Room)
        BY <1>6, <3>1, <3>3 DEF SamePlace
      <4> QED BY <1>5, <4>1
    <3> QED BY <3>2, <3>3
  <2>2. rooms' = {} => ahead = 0
    BY <1>1, <1>5
  <2> QED BY <1>1, <1>5, <2>1, <2>2 DEF MembersHeard
<1> QED BY <1>7, <1>8, <1>9 DEF RoomKept

LEMMA KeptKeepsRoom ==
  ASSUME LoopTyped, RoomGood, RoomKept, Kept, overlapped => overlapped'
  PROVE  RoomKept'
<1>1. /\ UNCHANGED <<stream, next_batch, rooms, reinvited, stale, ahead, complete>> /\ (interrupted => interrupted')
  BY DEF Kept
<1>2. Left' \subseteq Left /\ (interrupted' \/ \A steps \in Left : steps = <<>> \/ steps \in Left')
  BY WhatKeptLeaves
<1>3. /\ Room'.summary = Room.summary /\ (\A u : SamePlace(Room', Room, u)) /\ Members(Room)' = Members(Room)
  BY <1>1, SameRoom
<1>4. Smooth' => Smooth /\ \A steps \in Left : steps = <<>> \/ steps \in Left'
  BY <1>1, <1>2 DEF Smooth
<1>5. (\A u : ~Mentioned(<<>>, u)) /\ (\A f : ~Summarised(<<>>, f))
  BY DEF Mentioned, Summarised
<1>6. SummaryKept'
  BY <1>1, <1>2, <1>3, <1>4, <1>5 DEF RoomKept, SummaryKept
<1>7. MembersKept'
  <2> SUFFICES ASSUME complete', Smooth', ~stale', ~reinvited', NEW u \in User
               PROVE  \/ Placed(Room', u, StateIn(stream, u, next_batch)) \/ (\E steps \in Left' : Mentioned(steps, u))
                      \/ Event(stream, u, next_batch, ahead)
    BY <1>1 DEF MembersKept
  <2>1. \/ Placed(Room, u, StateIn(stream, u, next_batch)) \/ (\E steps \in Left : Mentioned(steps, u))
        \/ Event(stream, u, next_batch, ahead)
    BY <1>1, <1>4 DEF RoomKept, MembersKept
  <2>2. Placed(Room, u, StateIn(stream, u, next_batch)) => Placed(Room', u, StateIn(stream, u, next_batch))
    BY <1>3 DEF Placed, SamePlace
  <2> QED BY <1>4, <1>5, <2>1, <2>2
<1>8. MembersHeard'
  BY <1>1, <1>3 DEF RoomKept, MembersHeard
<1> QED BY <1>6, <1>7, <1>8 DEF RoomKept

LEMMA EventsKeepRoom ==
  ASSUME LoopTyped, RoomGood, RoomKept, NEW e \in Events, Happens(e)
  PROVE  RoomKept'
<1> DEFINE s == stream
           z == stream'
           n == next_batch
<1>1. UNCHANGED <<syncs, next_batch, rooms, encrypted_rooms, interrupted, overlapped, reinvited, stale, ahead, complete>>
  BY DEF Happens, memory, past
<1>2. Room' = Room /\ Left' = Left /\ (Smooth' <=> Smooth)
  BY <1>1 DEF Room, Left, Handling, Smooth
<1>3. Len(s) \in Nat /\ Len(z) \in Nat /\ Len(s) <= Len(z) /\ \A i \in 1..Len(s) : z[i] = s[i]
  BY StreamGrows DEF Next
<1>4. n \in 0..Len(s)
  BY <1>3, BoundsAssumption DEF LoopTyped, MemoryTyped, Behind, Positions
<1>5. ahead \in 0..Len(s)
  BY <1>3, BoundsAssumption DEF LoopTyped, PastTyped, Positions, RoomKept, MembersHeard
<1> HIDE DEF s, z, n
<1>6. /\ \A k \in 0..Len(s) : /\ \A u : AboutIn(z, u, k) = AboutIn(s, u, k) /\ StateIn(z, u, k) = StateIn(s, u, k)
                              /\ SummaryIn(z, k) = SummaryIn(s, k) /\ (ToldIn(z, k) <=> ToldIn(s, k))
      /\ \A m \in Nat, k \in 0..Len(s) : \A u : Event(z, u, m, k) <=> Event(s, u, m, k)
  <2> DEFINE l == Len(s)
  <2>1. l \in Nat /\ \A i \in 1..l : z[i] = s[i]
    BY <1>3
  <2> HIDE DEF l
  <2>2. /\ \A k \in 0..l : /\ \A u : AboutIn(z, u, k) = AboutIn(s, u, k) /\ StateIn(z, u, k) = StateIn(s, u, k)
                           /\ SummaryIn(z, k) = SummaryIn(s, k) /\ (ToldIn(z, k) <=> ToldIn(s, k))
        /\ \A m \in Nat, k \in 0..l : \A u : Event(z, u, m, k) <=> Event(s, u, m, k)
    BY <2>1, SaysTheSame
  <2> QED BY <2>2 DEF l
<1>7. /\ \A u : /\ AboutIn(z, u, n) = AboutIn(s, u, n) /\ AboutIn(z, u, ahead) = AboutIn(s, u, ahead)
                /\ StateIn(z, u, n) = StateIn(s, u, n) /\ (Event(z, u, n, ahead) <=> Event(s, u, n, ahead))
      /\ SummaryIn(z, n) = SummaryIn(s, n) /\ (ToldIn(z, n) <=> ToldIn(s, n))
  BY <1>4, <1>5, <1>6
<1>8. SummaryKept'
  <2> SUFFICES /\ DOMAIN Room.summary = Fields
               /\ complete /\ Smooth => \A f \in Fields :
                    \/ Room.summary[f] = Given(SummaryIn(z, n)[f]) \/ (\E steps \in Left : Summarised(steps, f))
                    \/ rooms = {} /\ ~ToldIn(z, n) /\ \A steps \in Left : KeysOnly(steps)
    BY <1>1, <1>2 DEF SummaryKept, z, n
  <2> QED BY <1>7 DEF RoomKept, SummaryKept, s, n
<1>9. MembersKept'
  <2> SUFFICES ASSUME complete, Smooth, ~stale, ~reinvited, NEW u \in User
               PROVE  \/ Placed(Room, u, StateIn(z, u, n)) \/ (\E steps \in Left : Mentioned(steps, u))
                      \/ Event(z, u, n, ahead)
    BY <1>1, <1>2 DEF MembersKept, z, n
  <2> QED BY <1>7 DEF RoomKept, MembersKept, s, n
<1>10. MembersHeard'
  <2> SUFFICES /\ ~overlapped => \A u \in Members(Room) : AboutIn(z, u, n) # {} \/ AboutIn(z, u, ahead) # {}
               /\ rooms = {} => ahead = 0
               /\ ahead <= Len(z)
    BY <1>1, <1>2 DEF MembersHeard, z, n
  <2> QED BY <1>3, <1>5, <1>7 DEF RoomKept, MembersHeard, s, n
<1> QED BY <1>8, <1>9, <1>10 DEF RoomKept

LEMMA EmptyRoomSays ==
  ASSUME NEW b
  PROVE  DOMAIN EmptyRoom(b).summary = Fields /\ Members(EmptyRoom(b)) = {} /\ EmptyRoom(b).invited_users = {}
BY DEF EmptyRoom, Fields, Members

LEMMA CrashKeepsRoom ==
  ASSUME LoopTyped, Crash
  PROVE  RoomKept'
<1>1. rooms' = {} /\ complete' = FALSE /\ ahead' = 0 /\ stream' = stream
  BY DEF Crash
<1>2. DOMAIN Room'.summary = Fields /\ Members(Room)' = {}
  BY <1>1, EmptyRoomSays DEF Room
<1>3. Len(stream) \in Nat
  BY DEF LoopTyped, StoreTyped, Stream
<1> QED BY <1>1, <1>2, <1>3 DEF RoomKept, SummaryKept, MembersKept, MembersHeard

LEMMA RoomKeptInit == Init => RoomKept /\ OneSync /\ Tokens /\ AnswersTruthful /\ AnswersCover
<1> SUFFICES ASSUME Init PROVE RoomKept /\ OneSync /\ Tokens /\ AnswersTruthful /\ AnswersCover
  OBVIOUS
<1>1. rooms = {} /\ complete = FALSE /\ ahead = 0 /\ stream = <<>> /\ next_batch = 0
      /\ \A t \in Task : syncs[t].state = "none"
  BY SyncRecords DEF Init
<1>2. DOMAIN Room.summary = Fields /\ Members(Room) = {}
  BY <1>1, EmptyRoomSays DEF Room
<1>3. Asking = {} /\ Left = {} /\ \A t \in Task : ~Handling(t) /\ ~Syncing(t)
  BY <1>1 DEF Asking, Left, Handling, Syncing
<1>4. RoomKept
  BY <1>1, <1>2 DEF RoomKept, SummaryKept, MembersKept, MembersHeard
<1>5. OneSync
  BY <1>3 DEF OneSync, Task
<1> QED BY <1>1, <1>3, <1>4, <1>5 DEF Tokens, AnswersTruthful, AnswersCover

\* Who is not listed is not invited either.
LEMMA NotListed ==
  ASSUME NEW r, Good(r), NEW s, NEW n, NEW u \in User, u \notin Members(r), AboutIn(s, u, n) = {}
  PROVE  Placed(r, u, StateIn(s, u, n))
<1>1. u \notin r.invited_users
  BY DEF Good, Consistent
<1>2. StateIn(s, u, n).membership = "leave"
  BY DEF StateIn, MemberEvent
<1> QED BY <1>1, <1>2 DEF Placed

LEMMA ReceiveKeepsRoom ==
  ASSUME LoopTyped, RoomGood, OneSync, Tokens, AnswersCover, RoomKept, ~overlapped, NEW t \in Task, Receives(t)
  PROVE  RoomKept'
<1> DEFINE steps == syncs[t].steps
           m     == syncs[t].since
           n     == syncs[t].upto
           full  == syncs[t].full
           s     == stream
           k     == next_batch
<1>1. /\ next_batch' = n /\ stream' = s
      /\ UNCHANGED <<rooms, interrupted, overlapped, reinvited, stale, ahead>>
      /\ complete' = (complete \/ full \/ m = 0) /\ Left = {} /\ Left' = {steps}
  BY WhatReceiveChanges
<1>2. /\ m = From /\ m \in Nat /\ n \in Nat /\ k \in Nat /\ Covers(s, syncs[t]) /\ m <= n /\ n <= Len(s)
      /\ k <= n /\ n # 0 /\ (k # 0 => m = k)
  BY AnswersAreNewer
<1>3. /\ \A f \in Fields :
           \/ Summarised(steps, f)
           \/ /\ ~full /\ SummaryIn(s, m)[f] = SummaryIn(s, n)[f]
              /\ ToldIn(s, m) \/ (~ToldIn(s, n) /\ KeysOnly(steps))
      /\ \A u \in User : Event(s, u, m, n) \/ (full /\ AboutIn(s, u, n) # {}) => Mentioned(steps, u)
  BY <1>2 DEF Covers
<1>4. m = 0 => k = 0
  BY <1>2 DEF From
<1>5. k = 0 => rooms = {} /\ ~complete
  BY DEF Tokens
<1>6. /\ DOMAIN Room.summary = Fields
      /\ complete /\ Smooth => \A f \in Fields :
           Room.summary[f] = Given(SummaryIn(s, k)[f]) \/ (rooms = {} /\ ~ToldIn(s, k))
      /\ complete /\ Smooth /\ ~stale /\ ~reinvited => \A u \in User :
           Placed(Room, u, StateIn(s, u, k)) \/ Event(s, u, k, ahead)
      /\ \A u \in Members(Room) : AboutIn(s, u, k) # {} \/ AboutIn(s, u, ahead) # {}
      /\ rooms = {} => ahead = 0
      /\ ahead <= Len(s)
  BY <1>1 DEF RoomKept, SummaryKept, MembersKept, MembersHeard
<1>7. /\ Room'.summary = Room.summary /\ (\A u : SamePlace(Room', Room, u)) /\ Members(Room)' = Members(Room)
  BY <1>1, SameRoom
<1>8. Good(Room) /\ Members(Room) \subseteq User /\ ahead \in Nat /\ Len(s) \in Nat /\ Stream
  <2>1. Good(Room)
    BY RoomIsGood
  <2>2. Members(Room) \subseteq User
    BY <2>1 DEF Good, RoomTyped, Members
  <2> QED BY <2>1, <2>2, BoundsAssumption DEF LoopTyped, PastTyped, Positions, StoreTyped, Stream
\* What the stream says of a user before and after.
<1>9. ASSUME NEW u \in User
      PROVE  /\ ~Event(s, u, m, n) => StateIn(s, u, n) = StateIn(s, u, m)
             /\ AboutIn(s, u, 0) = {}
             /\ m = 0 /\ ~Event(s, u, m, n) => AboutIn(s, u, n) = {}
             /\ AboutIn(s, u, k) \subseteq AboutIn(s, u, n)
             /\ AboutIn(s, u, ahead) # {} /\ AboutIn(s, u, n) = {} => Event(s, u, n, ahead)
  <2>1. /\ m \in 0..Len(stream) /\ n \in m..Len(stream) /\ n \in 0..Len(stream) /\ ahead \in 0..Len(stream)
        /\ 0 \in 0..Len(stream)
    BY <1>2, <1>6, <1>8
  <2> HIDE DEF m, n, k
  <2>2. ~Event(s, u, m, n) => StateIn(s, u, n) = StateIn(s, u, m)
    BY <1>8, <2>1, Unmoved, InStream
  <2>3. AboutIn(s, u, 0) = {}
    BY DEF AboutIn
  <2>4. m = 0 /\ ~Event(s, u, m, n) => AboutIn(s, u, n) = {}
    BY <1>8, <2>1, <2>3, EventsAreAbout, InStream
  <2>5. AboutIn(s, u, ahead) # {} /\ AboutIn(s, u, n) = {} => Event(s, u, n, ahead)
    BY <1>8, <2>1, EventsAreAbout, InStream
  <2>6. AboutIn(s, u, k) \subseteq AboutIn(s, u, n)
    BY <1>2, AboutGrows
  <2> QED BY <2>2, <2>3, <2>4, <2>5, <2>6
<1> HIDE DEF steps, m, n, full, s, k
<1>10. SummaryKept'
  <2> SUFFICES ASSUME complete', Smooth', NEW f \in Fields, ~Summarised(steps, f)
               PROVE  \/ Room.summary[f] = Given(SummaryIn(s, n)[f])
                      \/ rooms = {} /\ ~ToldIn(s, n) /\ KeysOnly(steps)
    BY <1>1, <1>6, <1>7 DEF SummaryKept
  <2>1. /\ ~full /\ SummaryIn(s, m)[f] = SummaryIn(s, n)[f]
        /\ ToldIn(s, m) \/ (~ToldIn(s, n) /\ KeysOnly(steps))
    BY <1>3
  <2>2. CASE complete
    <3>1. k # 0 /\ m = k /\ Smooth
      BY <1>1, <1>2, <1>5, <2>2 DEF Smooth
    <3> QED BY <1>6, <2>1, <2>2, <3>1
  <2>3. CASE ~complete
    <3>1. m = 0 /\ rooms = {}
      BY <1>1, <1>4, <1>5, <2>1, <2>3
    <3>2. ~ToldIn(s, 0)
      BY DEF ToldIn
    <3> QED BY <2>1, <3>1, <3>2
  <2> QED BY <2>2, <2>3
<1>11. MembersKept'
  <2> SUFFICES ASSUME complete', Smooth', ~stale', ~reinvited', NEW u \in User, ~Mentioned(steps, u)
               PROVE  Placed(Room', u, StateIn(s, u, n)) \/ Event(s, u, n, ahead)
    BY <1>1 DEF MembersKept
  <2>1. ~Event(s, u, m, n) /\ (full => AboutIn(s, u, n) = {})
    BY <1>3
  <2>2. Placed(Room, u, StateIn(s, u, n)) => Placed(Room', u, StateIn(s, u, n))
    BY <1>7 DEF Placed, SamePlace
  <2>3. CASE complete
    <3>1. m = k /\ Smooth /\ ~stale /\ ~reinvited
      BY <1>1, <1>2, <1>5, <2>3 DEF Smooth
    <3>2. Placed(Room, u, StateIn(s, u, k)) \/ Event(s, u, k, ahead)
      BY <1>6, <2>3, <3>1
    <3>3. StateIn(s, u, n) = StateIn(s, u, k)
      BY <1>9, <2>1, <3>1
    <3>4. Event(s, u, k, ahead) => Event(s, u, n, ahead)
      <4> SUFFICES ASSUME NEW i \in (k + 1)..ahead, Concerns(s[i], u) PROVE Event(s, u, n, ahead)
        BY DEF Event
      <4>1. i \notin (m + 1)..n
        BY <2>1 DEF Event
      <4>2. i \in (n + 1)..ahead
        BY <1>2, <1>8, <3>1, <4>1
      <4> QED BY <4>2 DEF Event
    <3> QED BY <2>2, <3>2, <3>3, <3>4
  <2>4. CASE ~complete
    <3>1. AboutIn(s, u, n) = {}
      BY <1>1, <1>9, <2>1, <2>4
    <3>2. CASE u \in Members(Room)
      <4>1. AboutIn(s, u, ahead) # {}
        BY <1>6, <1>9, <3>1, <3>2
      <4> QED BY <1>9, <3>1, <4>1
    <3>3. CASE u \notin Members(Room)
      BY <1>8, <2>2, <3>1, <3>3, NotListed
    <3> QED BY <3>2, <3>3
  <2> QED BY <2>3, <2>4
<1>12. MembersHeard'
  <2>1. ASSUME NEW u \in Members(Room)' PROVE AboutIn(s, u, n) # {} \/ AboutIn(s, u, ahead) # {}
    BY <1>6, <1>7, <1>8, <1>9
  <2> QED BY <1>1, <1>6, <2>1 DEF MembersHeard
<1> QED BY <1>10, <1>11, <1>12 DEF RoomKept

LEMMA MembersKeepRoom ==
  ASSUME LoopTyped, RoomGood, RoomKept, ReceiveMembers
  PROVE  RoomKept'
<1> DEFINE at     == members.at
           joined == [u \in JoinedAt(at) |-> NameAt(u, at)]
           room   == Room
           new    == HandleJoinedMembers(room, joined)
           s      == stream
           k      == next_batch
<1>1. UNCHANGED <<stream, syncs, next_batch, encrypted_rooms, interrupted, overlapped, reinvited, complete>>
  BY DEF ReceiveMembers
<1>2. Left' = Left /\ (Smooth' <=> Smooth)
  BY <1>1 DEF Left, Handling, Smooth
<1>3. CASE rooms = {}
  <2>1. UNCHANGED <<rooms, stale, ahead>>
    BY <1>3 DEF ReceiveMembers
  <2>2. Room' = Room
    BY <1>1, <2>1 DEF Room
  <2> QED BY <1>1, <1>2, <2>1, <2>2 DEF RoomKept, SummaryKept, MembersKept, MembersHeard
<1>4. CASE rooms # {}
  <2>1. /\ rooms' = {new}
        /\ stale' = (stale \/ (at < k /\ JoinedAt(at) # JoinedAt(k)))
        /\ ahead' = IF at > ahead THEN at ELSE ahead
    BY <1>4 DEF ReceiveMembers
  <2>2. Room' = new
    BY <2>1 DEF Room
  <2>3. /\ Stream /\ Len(s) \in Nat /\ k \in 0..Len(s) /\ at \in 0..Len(s) /\ ahead \in 0..Len(s)
    BY BoundsAssumption DEF LoopTyped, StoreTyped, MemoryTyped, PastTyped, Behind, Positions, Stream, RoomKept,
       MembersHeard
  <2>4. /\ Good(room) /\ DOMAIN joined \subseteq User /\ \A u \in DOMAIN joined : joined[u] \in Name \cup {NoName}
        /\ DOMAIN joined = JoinedAt(at)
    BY <2>3, RoomIsGood, NamesAreNames DEF JoinedAt
  <2> HIDE DEF room, joined, at
  <2>5. /\ Good(new) /\ SameRest(new, room) /\ Members(new) = DOMAIN joined \cup room.invited_users
        /\ new.invited_users = room.invited_users
    BY <2>4, JoinedMembersIsGood
  <2> HIDE DEF new
  <2>6. ahead' \in 0..Len(s) /\ ahead <= ahead' /\ at <= ahead'
    BY <2>1, <2>3
  <2> DEFINE e(u) == StateIn(s, u, k)
  <2>7. SummaryKept'
    <3>1. Room'.summary = room.summary
      BY <2>2, <2>5
    <3>2. /\ DOMAIN room.summary = Fields
          /\ complete /\ Smooth => \A f \in Fields :
               room.summary[f] = Given(SummaryIn(s, k)[f]) \/ \E steps \in Left : Summarised(steps, f)
      BY <1>4 DEF RoomKept, SummaryKept, room
    <3> QED BY <1>1, <1>2, <3>1, <3>2 DEF SummaryKept
  <2>8. MembersKept'
    <3> SUFFICES ASSUME complete, Smooth, ~stale', ~reinvited, NEW u \in User
                 PROVE  \/ Placed(new, u, e(u)) \/ (\E steps \in Left : Mentioned(steps, u))
                        \/ Event(s, u, k, ahead')
      BY <1>1, <1>2, <2>2 DEF MembersKept
    <3>1. \/ Placed(room, u, e(u)) \/ (\E steps \in Left : Mentioned(steps, u))
          \/ Event(s, u, k, ahead)
      BY <2>1 DEF RoomKept, MembersKept, room
    <3>2. Event(s, u, k, ahead) \/ Event(s, u, k, at) => Event(s, u, k, ahead')
      <4>1. \A i \in Nat : i \in (k + 1)..ahead \/ i \in (k + 1)..at => i \in (k + 1)..ahead'
        BY <2>3, <2>6
      <4> QED BY <2>3, <4>1 DEF Event
    <3>3. CASE Placed(room, u, e(u)) /\ ~Event(s, u, k, at)
      <4>1. u \in JoinedAt(at) <=> u \in JoinedAt(k)
        <5>1. CASE JoinedAt(at) = JoinedAt(k)
          BY <5>1
        <5>2. CASE JoinedAt(at) # JoinedAt(k)
          <6>0. ~(at < k)
            BY <2>1, <5>2, Zenon
          <6>1. k \in 0..Len(stream) /\ at \in k..Len(stream)
            BY <2>3, <6>0
          <6>2. StateOf(u, at) = StateOf(u, k)
            BY <2>3, <3>3, <6>1, Unmoved
          <6> QED BY <6>2 DEF JoinedAt
        <5> QED BY <5>1, <5>2
      <4>2. /\ u \in JoinedAt(k) <=> e(u).membership = "join"
            /\ e(u).membership \in {"join", "invite", "leave"}
        BY <2>3, StateTells, InStream
      <4>3. u \in room.invited_users <=> e(u).membership = "invite"
        BY <3>3 DEF Placed
      <4> HIDE DEF e
      <4>4. Placed(new, u, e(u))
        BY <2>4, <2>5, <4>1, <4>2, <4>3 DEF Placed
      <4> QED BY <4>4
    <3> QED BY <3>1, <3>2, <3>3
  <2>9. MembersHeard'
    <3>1. ASSUME NEW u \in Members(new), ~overlapped PROVE AboutIn(s, u, k) # {} \/ AboutIn(s, u, ahead') # {}
      <4>1. AboutIn(s, u, ahead) \subseteq AboutIn(s, u, ahead') /\ AboutIn(s, u, at) \subseteq AboutIn(s, u, ahead')
        BY <2>3, <2>6, AboutGrows
      <4>2. CASE u \in JoinedAt(at)
        <5>1. u \in User
          BY <4>2 DEF JoinedAt
        <5>2. AboutIn(s, u, at) # {}
          BY <2>3, <4>2, <5>1, StateTells, InStream
        <5> QED BY <4>1, <5>2
      <4>3. CASE u \in room.invited_users
        <5>1. u \in Members(room)
          BY <2>4, <4>3 DEF Good, Consistent
        <5> QED BY <3>1, <4>1, <5>1 DEF RoomKept, MembersHeard, room
      <4> QED BY <2>4, <2>5, <3>1, <4>2, <4>3
    <3>2. rooms' # {} /\ Members(Room)' = Members(new)
      BY <2>1, <2>2 DEF Members
    <3> QED BY <1>1, <2>6, <3>1, <3>2 DEF MembersHeard
  <2> QED BY <2>7, <2>8, <2>9 DEF RoomKept
<1> QED BY <1>3, <1>4

\* When two syncs have met little is said of the room, and that stays true.
LEMMA OverlapKeepsRoom ==
  ASSUME LoopTyped, RoomGood, AnswersTruthful, RoomKept, overlapped, NEW t \in Task, Receives(t) \/ Step(t)
  PROVE  RoomKept'
<1>1. overlapped' /\ stream' = stream /\ ahead' = ahead
  BY DEF Receives, Receive, Step
<1>2. DOMAIN Room'.summary = Fields /\ (rooms' = {} => rooms = {})
  <2>0. DOMAIN Room.summary = Fields
    BY DEF RoomKept, SummaryKept
  <2>1. CASE rooms' = rooms
    BY <2>0, <2>1, SameRoom
  <2>2. CASE rooms' # rooms
    <3> DEFINE room  == Room
               steps == syncs[t].steps
               batch == Head(steps)
               new   == HandleAll(room, batch)
               n     == syncs[t].upto
               s     == stream
    <3>1. Step(t)
      BY <2>2 DEF Receives, Receive
    <3>2. /\ Handling(t) /\ steps \in Seq(Batches) \ {<<>>} /\ batch \in RoomBatches /\ rooms' = {new}
      BY <2>2, <3>1, WhatStepHandles
    <3>3. Good(room) /\ DOMAIN room.summary = Fields /\ Truthful(s, steps, n) /\ Room' = new
      BY <2>0, <3>2, RoomIsGood DEF AnswersTruthful, Handling, Room
    <3>4. batch = Head(steps)
      OBVIOUS
    <3> HIDE DEF room, steps, n, s, batch
    <3>5. DOMAIN new.summary = Fields
      BY <3>2, <3>3, <3>4, BatchIsTrue
    <3> QED BY <3>2, <3>3, <3>5
  <2> QED BY <2>1, <2>2
<1>3. SummaryKept'
  BY <1>1, <1>2 DEF SummaryKept, Smooth
<1>4. MembersKept'
  BY <1>1 DEF MembersKept, Smooth
<1>5. MembersHeard'
  BY <1>1, <1>2 DEF RoomKept, MembersHeard
<1> QED BY <1>3, <1>4, <1>5 DEF RoomKept

\* One sync at a time, its answer, and what the room says.
RoomFollows == OneSync /\ Tokens /\ AnswersTruthful /\ AnswersCover /\ RoomKept

LEMMA RoomFollowsNext == LoopTyped /\ RoomGood /\ RoomFollows /\ [Next]_vars => RoomFollows'
<1> SUFFICES ASSUME LoopTyped, RoomGood, RoomFollows, [Next]_vars PROVE RoomFollows'
  OBVIOUS
<1>0. OneSync /\ Tokens /\ AnswersTruthful /\ AnswersCover /\ RoomKept
  BY DEF RoomFollows
<1>1. OneSync' /\ (overlapped => overlapped')
  BY <1>0, OneSyncStays
<1>2. Tokens'
  BY <1>0, TokensStay
<1>3. AnswersTruthful' /\ AnswersCover'
  BY <1>0, AnswersStayTrue
<1>4. RoomKept'
  <2>1. CASE Kept
    BY <1>0, <1>1, <2>1, KeptKeepsRoom
  <2>2. CASE \E e \in Events : Happens(e)
    BY <1>0, <2>2, EventsKeepRoom
  <2>3. CASE \E t \in Task : Receives(t) \/ Step(t)
    <3>1. CASE overlapped
      BY <1>0, <2>3, <3>1, OverlapKeepsRoom
    <3>2. CASE ~overlapped
      BY <1>0, <2>3, <3>2, ReceiveKeepsRoom, StepKeepsRoom
    <3> QED BY <3>1, <3>2
  <2>4. CASE ReceiveMembers
    BY <1>0, <2>4, MembersKeepRoom
  <2>5. CASE Crash
    BY <2>5, CrashKeepsRoom
  <2> QED BY <2>1, <2>2, <2>3, <2>4, <2>5, WhatChanges
<1> QED BY <1>1, <1>2, <1>3, <1>4 DEF RoomFollows

-----------------------------------------------------------------------------
(* Between responses the room is that of the server.                       *)

LEMMA WhoIsInIsFinite ==
  ASSUME Stream, NEW n \in 0..Len(stream)
  PROVE  /\ Cardinality(JoinedAt(n)) \in Nat /\ Cardinality(InvitedAt(n)) \in Nat
<1> DEFINE S == {stream[i].user : i \in 1..n}
<1>1. n \in Nat /\ IsFiniteSet(1..n)
  BY FS_Interval DEF Stream
<1>2. IsFiniteSet(S)
  <2> DEFINE f == [i \in 1..n |-> stream[i].user]
  <2>1. f \in Surjection(1..n, S)
    BY DEF Surjection
  <2> QED BY <1>1, <2>1, FS_Surjection
<1>3. ASSUME NEW u \in User, About(u, n) # {} PROVE u \in S
  BY <1>3 DEF About
<1>4. JoinedAt(n) \subseteq S /\ InvitedAt(n) \subseteq S
  BY <1>3, StateTells DEF JoinedAt, InvitedAt
<1> HIDE DEF S
<1> QED BY <1>2, <1>4, FS_Subset, FS_CardinalityType

\* The group name counts whom it does not list: those who are invited.
LEMMA CountsFollow ==
  ASSUME NEW r, NEW J, NEW i \in Nat, Cardinality(J) \in Nat,
         r.summary["joined"] = Given(Cardinality(J)), r.summary["invited"] = Given(i), r.summary["heroes"] = Given(J)
  PROVE  MemberCount(r) = Cardinality(J) + i /\ Others(r) = i
<1>1. \A x : Given(x) # Unknown /\ ValueOf(Given(x)) = x
  BY DEF Given, Unknown, ValueOf
<1>2. Usable(r) /\ Heroes(r) = J
  BY <1>1 DEF Usable, Heroes
<1>3. MemberCount(r) = Cardinality(J) + i
  BY <1>1, <1>2 DEF MemberCount
<1> QED BY <1>2, <1>3 DEF Others

LEMMA RoomCurrentFollows == LoopTyped /\ RoomGood /\ RoomFollows => RoomCurrent
<1> SUFFICES ASSUME LoopTyped, RoomGood, RoomFollows, Quiet, complete, ~interrupted, ~overlapped,
                    NEW r \in rooms
             PROVE  /\ ~stale /\ ~reinvited /\ ahead <= next_batch =>
                         Members(r) = JoinedAt(next_batch) \cup InvitedAt(next_batch)
                    /\ MemberCount(r) = Cardinality(JoinedAt(next_batch)) + Cardinality(InvitedAt(next_batch))
                    /\ Others(r) = Cardinality(InvitedAt(next_batch))
  BY DEF RoomCurrent, MembersCurrent, CountsCurrent
<1> DEFINE n == next_batch
<1>1. Left = {} /\ r = Room /\ rooms # {} /\ Smooth
  BY RoomIsGood DEF Left, Quiet, Smooth
<1>2. /\ Stream /\ n \in 0..Len(stream) /\ n \in Nat /\ ahead \in Nat
  BY BoundsAssumption DEF LoopTyped, StoreTyped, MemoryTyped, PastTyped, Behind, Positions, Stream
<1>3. Good(r) /\ Members(r) \subseteq User
  BY DEF RoomGood, Good, RoomTyped, Members
<1>4. \A f \in Fields : r.summary[f] = Given(SummaryAt(n)[f])
  BY <1>1, InStream DEF RoomFollows, RoomKept, SummaryKept
<1>5. ASSUME ~stale, ~reinvited, ahead <= n PROVE Members(r) = JoinedAt(n) \cup InvitedAt(n)
  <2>1. \A u \in User : ~Event(stream, u, n, ahead)
    <3>1. (n + 1)..ahead = {}
      BY <1>2, <1>5
    <3> QED BY <3>1 DEF Event
  <2>2. \A u \in User : Placed(r, u, StateOf(u, n))
    BY <1>1, <1>5, <2>1, InStream DEF RoomFollows, RoomKept, MembersKept
  <2>3. \A u \in User : u \in Members(r) <=> u \in JoinedAt(n) \cup InvitedAt(n)
    BY <1>2, <2>2, StateTells DEF Placed
  <2>4. JoinedAt(n) \cup InvitedAt(n) \subseteq User
    BY DEF JoinedAt, InvitedAt
  <2> QED BY <1>3, <2>3, <2>4
<1>6. /\ MemberCount(r) = Cardinality(JoinedAt(n)) + Cardinality(InvitedAt(n))
      /\ Others(r) = Cardinality(InvitedAt(n))
  <2> DEFINE J == JoinedAt(n)
             i == Cardinality(InvitedAt(n))
  <2>1. i \in Nat /\ Cardinality(J) \in Nat
    BY <1>2, WhoIsInIsFinite
  <2>2. /\ SummaryAt(n)["joined"] = Cardinality(J) /\ SummaryAt(n)["invited"] = i /\ SummaryAt(n)["heroes"] = J
    BY DEF SummaryAt
  <2>3. /\ r.summary["joined"] = Given(Cardinality(J)) /\ r.summary["invited"] = Given(i)
        /\ r.summary["heroes"] = Given(J)
    BY <1>4, <2>2 DEF Fields
  <2> HIDE DEF J, i
  <2>4. MemberCount(r) = Cardinality(J) + i /\ Others(r) = i
    BY <2>1, <2>3, CountsFollow
  <2> QED BY <2>4 DEF J, i
<1> QED BY <1>5, <1>6

-----------------------------------------------------------------------------
(* Theorems.                                                               *)

\* The inductive invariant: the types; the room in memory is one whose
\* collections agree; what is told only once is stored, or is in a response that
\* is being handled, as of every token the client holds or has asked with; and,
\* unless a response was cut off or two syncs have met, what the room says, with
\* what is left of the response, is what the server says as of the token.
THEOREM Invariant == Spec => [](LoopTyped /\ RoomGood /\ Keeping /\ RoomFollows)
<1> DEFINE Inv == LoopTyped /\ RoomGood /\ Keeping /\ RoomFollows
<1>1. Init => Inv
  BY LoopTypedInit, KeepingInit, RoomKeptInit DEF RoomFollows
<1>2. Inv /\ [Next]_vars => Inv'
  <2>1. Inv /\ [Next]_vars => LoopTyped' /\ RoomGood'
    BY LoopTypedNext
  <2>2. Inv /\ [Next]_vars => Keeping'
    BY KeepingNext
  <2>3. Inv /\ [Next]_vars => RoomFollows'
    BY RoomFollowsNext
  <2> QED BY <2>1, <2>2, <2>3
<1> HIDE DEF Inv
<1>3. Spec => []Inv
  BY <1>1, <1>2, PTL DEF Spec
<1> QED BY <1>3 DEF Inv

\* Whatever is handled in whatever order, by two syncs and a joined_members
\* response, users, invited_users and names of MatrixRoom agree.
THEOREM RoomsAreConsistent == Spec => []RoomsConsistent
BY Invariant, RoomsFollow, PTL

\* A room key, or that the room is encrypted, is in the store as of the saved
\* token, over crashes and restarts, unless a response was interrupted.
THEOREM ToldOnceIsKept == Spec => []NothingLost
BY Invariant, NothingIsForgotten, PTL

\* Between responses the client lists who is in the room as of its token, and
\* counts them, although a summary names only what has changed and an answer only
\* what has happened since: over restarts, errors and joined_members calls, but for
\* the histories the property names.
THEOREM RoomIsCurrent == Spec => []RoomCurrent
BY Invariant, RoomCurrentFollows, PTL

\* Once stop_sync_forever was called, no step of any coroutine sends another sync
\* for the loop, until the loop or the next call of sync_forever has taken note.
THEOREM StopIsHeeded == Spec => NoSyncAfterStop
<1> DEFINE Heeded == stop /\ syncs["main"].state # "flight" => syncs'["main"].state # "flight"
<1>1. LoopTyped /\ RoomGood /\ Keeping /\ [Next]_vars => [Heeded]_vars
  <2> SUFFICES ASSUME LoopTyped, Next, stop, syncs["main"].state # "flight"
               PROVE  syncs'["main"].state # "flight"
    OBVIOUS
  <2>t. "main" \in Task /\ "orphan" \in Task
    BY DEF Task
  <2>s. \A t \in Task : syncs[t] \in SyncRecord
    BY SyncsAreRecords
  <2>n. NoSync.state = "none" /\ [NoSync EXCEPT !.state = "done"].state = "done"
    BY SyncRecords
  <2>b. ASSUME NEW t \in Task, NEW s, Becomes(t, s), s.state # "flight" PROVE syncs'["main"].state # "flight"
    BY <2>b, <2>t DEF Becomes, OnlyThis
  <2>d. ASSUME NEW t \in Task, Done(t) PROVE syncs'["main"].state # "flight"
    <3>1. PICK s : Becomes(t, s) /\ s.state # "flight"
      <4> DEFINE s == IF t = "main" THEN [NoSync EXCEPT !.state = "done"] ELSE NoSync
      <4>1. Becomes(t, s)
        BY <2>d, DoneSays
      <4>2. s.state # "flight"
        BY <2>n
      <4> QED BY <4>1, <4>2
    <3> QED BY <2>b, <3>1
  <2>l. ASSUME NEW t \in Task, Leave(syncs[t]) PROVE syncs'["main"].state # "flight"
    BY <2>l, <2>n, <2>s, LeaveSays
  <2>1. CASE syncs' = syncs
    BY <2>1
  <2>2. ASSUME NEW t \in Task, SyncStep(t) PROVE syncs'["main"].state # "flight"
    <3>1. CASE Serve(t)
      <4>1. syncs'[t].state = "answered" /\ OnlyThis(t)
        <5>1. Becomes(t, SyncOf("answered", syncs[t].since, syncs[t].full, Len(stream), HandleSync(t),
                                syncs[t].encrypted))
          BY <3>1, ServeSays
        <5> QED BY <5>1 DEF Becomes, SyncOf
      <4> QED BY <2>t, <4>1 DEF OnlyThis
    <3>2. CASE Receive(t)
      <4>1. CASE Done(t)
        BY <2>d, <4>1
      <4>2. CASE Becomes(t, SyncOf("handling", 0, FALSE, syncs[t].upto, syncs[t].steps, syncs[t].encrypted))
        <5>1. SyncOf("handling", 0, FALSE, syncs[t].upto, syncs[t].steps, syncs[t].encrypted).state = "handling"
          BY DEF SyncOf
        <5> QED BY <2>b, <4>2, <5>1
      <4> QED BY <3>2, <4>1, <4>2, ReceiveSays
    <3>3. CASE Step(t)
      BY <2>t, <3>3, StepLeaves DEF OnlyThis
    <3>4. CASE Finish(t)
      BY <2>d, <3>4 DEF Finish
    <3> QED BY <2>2, <3>1, <3>2, <3>3, <3>4 DEF SyncStep
  <2>3. ASSUME NEW t \in Task, Refuse(t) PROVE syncs'["main"].state # "flight"
    BY <2>3, <2>d DEF Refuse
  <2>4. ASSUME NEW t \in Task, SyncRaises(t) PROVE syncs'["main"].state # "flight"
    <3>1. CASE t = "main"
      BY <2>4, <2>l, <2>t, <3>1 DEF SyncRaises
    <3>2. CASE t # "main"
      BY <2>4, <2>t, <3>2 DEF SyncRaises, LoopTyped, SyncsTyped
    <3> QED BY <3>1, <3>2
  <2>5. ASSUME NEW full \in BOOLEAN, Start(full) PROVE syncs'["main"].state # "flight"
    BY <2>5 DEF Start
  <2>6. CASE Iterate
    <3>1. syncs' = [syncs EXCEPT !["main"] = NoSync]
      BY <2>6 DEF Iterate, Stops
    <3> QED BY <2>n, <2>t, <3>1 DEF LoopTyped, SyncsTyped
  <2>7. CASE OthersRaise
    <3>1. CASE Syncing("main")
      BY <2>7, <2>l, <2>t, <3>1 DEF OthersRaise
    <3>2. CASE ~Syncing("main")
      BY <2>7, <2>l, <2>t, <3>2 DEF OthersRaise
    <3> QED BY <3>1, <3>2
  <2>8. CASE Cancel
    BY <2>8, <2>l, <2>t DEF Cancel
  <2>9. CASE Crash
    BY <2>9, <2>n, <2>t DEF Crash
  <2>10. CASE \/ \E e \in Events : Happens(e)
              \/ FirstDone \/ StopSyncForever \/ JoinedMembers \/ ServeMembers \/ ReceiveMembers
    BY <2>1, <2>10 DEF Happens, FirstDone, StopSyncForever, JoinedMembers, ServeMembers, ReceiveMembers
  <2> QED BY <2>2, <2>3, <2>4, <2>5, <2>6, <2>7, <2>8, <2>9, <2>10 DEF Next
<1> QED BY <1>1, Invariant, PTL DEF Spec, NoSyncAfterStop
=============================================================================
