-------------------------------- MODULE Chat --------------------------------
(***************************************************************************)
(* The chat daemon, src/bbs.chatd/station.c: one process, one thread, two  *)
(* tables (users, rooms) that every command of every client works on.  A   *)
(* step is one line of one client, or the end of his connection.           *)
(*                                                                         *)
(* Slots count from 1: slot 1 is users[0].  Rooms count from 0, the main   *)
(* room, as in the code.  What a room is called and who may see it         *)
(* (ROOM_SECRET), may act in it (ROOM_NOEMOTE) and what it talks about     *)
(* changes nobody's place or rights, and is left out.                      *)
(***************************************************************************)
EXTENDS Integers, FiniteSets

CONSTANTS NSlots,      \* MAXACTIVE
          NRooms,      \* MAXROOM
          Names,       \* of rooms, as they are typed
          Stored,      \* a name as struct chatroom keeps it, cut to IDLEN - 1
          Main,        \* the name of room 0
          Userids,     \* as they are typed
          Chatids,
          StoredId,    \* a userid as struct chatuser keeps it, cut to IDLEN + 1
          StoredChat,  \* a chatid as it is kept, cut to CHAT_IDLEN - 1
          Levels,      \* userid -> the sets of permissions a line may say he has
          Exempt       \* SYSOP, whom chat_get_op passes over

Slots == 1 .. NSlots
Rooms == 0 .. NRooms - 1
NoRoom == -1
NoId == "none"            \* an empty userid or chatid

\* Permissions: "sysop", "chatop" (PERM_NOZAP), "seecloak", "chat"
\* (PERM_CHATROOM, which makes an operator in here) and "other".
Perms == {"sysop", "chatop", "seecloak", "other"}

ASSUME ChatAssumption ==
  /\ NSlots \in Nat \ {0} /\ NRooms \in Nat \ {0}
  /\ Stored \in [Names -> Names]
  /\ Main \in Names /\ Stored[Main] = Main
  /\ NoId \notin Userids \cup Chatids
  /\ StoredId \in [Userids -> Userids] /\ StoredChat \in [Chatids -> Chatids]
  /\ Levels \in [Userids -> SUBSET SUBSET (Perms \cup {"chat"})]

VARIABLES users,      \* users[MAXACTIVE]
          rooms,      \* rooms[MAXROOM]
          asked,      \* history: the connections an operator asked into a room since it
                      \* was opened, and that have not come
          appointed,  \* history: rooms given an operator by one who was none there
          blind,      \* history: a chatid was accepted although slot 1, through whose
                      \* eyes chatids are compared, did not see a cloaked user
          shortened   \* history: userids and chatids that a login kept of longer ones

vars == <<users, rooms, asked, appointed, blind, shortened>>

\* conn: sockfd # -1.  op: PERM_CHATROOM in flags; perms: the rest of flags.
Nobody == [conn |-> FALSE, room |-> NoRoom, userid |-> NoId, chatid |-> NoId,
           perms |-> {}, op |-> FALSE, cloak |-> FALSE]

EmptyRoom(name) == [name |-> name, occupants |-> 0, locked |-> FALSE, invites |-> {}]

\* A slot that was never used has room 0 in the code, and a room that was never
\* opened no name: neither is looked at before it is written.
Init ==
  /\ users = [u \in Slots |-> Nobody]
  /\ rooms = [r \in Rooms |-> EmptyRoom(Main)]
  /\ asked = [r \in Rooms |-> {}]
  /\ appointed = {}
  /\ blind = FALSE
  /\ shortened = {}

-----------------------------------------------------------------------------
(* Looking things up. *)

First(S) == {s \in S : \A t \in S : s <= t}

Sysop(u) == "sysop" \in users[u].perms
Chatop(u) == "chatop" \in users[u].perms
Roomop(u) == users[u].op
Master(u) == Sysop(u) \/ Chatop(u)
Restricted(u) == users[u].perms = {} /\ ~Roomop(u)

\* chatid_to_indx: who has SEECLOAK does not find those who are cloaked.
ChatidToIndx(viewer, cid) ==
  First({s \in Slots : /\ users[s].conn /\ users[s].chatid = cid
                       /\ ~users[s].cloak \/ "seecloak" \notin users[viewer].perms})

\* roomid_to_indx compares the name as typed with the names as stored.
RoomidToIndx(rs, name) ==
  First({r \in Rooms : (r = 0 \/ rs[r].occupants # 0) /\ rs[r].name = name})

\* The room that a name leads to: an open one, else the first empty one.
Door(rs, name) ==
  IF RoomidToIndx(rs, name) # {} THEN RoomidToIndx(rs, name)
  ELSE First({r \in Rooms \ {0} : rs[r].occupants = 0})

-----------------------------------------------------------------------------
(* Moving. *)

\* Mutant of LeftUsers: who leaves a room stays an operator.
LeftUsersOp(us, u) == [us EXCEPT ![u].room = NoRoom]

\* exit_room: nobody stays an operator without a room.
LeftUsers(us, u) == [us EXCEPT ![u].room = NoRoom, ![u].op = FALSE]

\* Mutant of LeftRooms: room 0 is taken for no room.
LeftRoomsMain(us, rs, u) ==
  IF us[u].room <= 0 THEN rs ELSE [rs EXCEPT ![us[u].room].occupants = @ - 1]

LeftRooms(us, rs, u) ==
  IF us[u].room = NoRoom THEN rs ELSE [rs EXCEPT ![us[u].room].occupants = @ - 1]

\* enter_room, for user u as he is in us.  Who opens a room is its operator;
\* an invitation is good for one visit.
EnterRoom(us, rs, u, name) ==
  LET opened(r) == RoomidToIndx(rs, name) = {}
      made(r)   == IF opened(r) THEN [rs EXCEPT ![r] = EmptyRoom(Stored[name])] ELSE rs
      admits(r) == \/ us[u].perms \cap {"sysop", "chatop"} # {}
                   \/ ~made(r)[r].locked \/ u \in rs[r].invites
      inside    == {r \in Door(rs, name) : admits(r)}
  IN  \/ inside = {} /\ users' = us /\ rooms' = rs /\ UNCHANGED <<asked, appointed>>
      \/ \E r \in inside :
           /\ users' = [LeftUsers(us, u) EXCEPT ![u].room = r, ![u].op = @ \/ opened(r)]
           /\ rooms' = [LeftRooms(us, made(r), u) EXCEPT ![r].occupants = @ + 1,
                                                         ![r].invites = @ \ {u}]
           /\ asked' = [asked EXCEPT ![r] = IF opened(r) THEN {} ELSE @ \ {u}]
           /\ appointed' = IF opened(r) THEN appointed \ {r} ELSE appointed

\* Mutant of Logout: invitations stay with the slot.
LogoutInvited(us, rs, u) ==
  /\ users' = [us EXCEPT ![u] = Nobody]
  /\ rooms' = rs
  /\ asked' = [r \in Rooms |-> asked[r] \ {u}]
  /\ UNCHANGED appointed

\* logout_user: the slot is empty and nobody's invitation is left to the next.
Logout(us, rs, u) ==
  /\ users' = [us EXCEPT ![u] = Nobody]
  /\ rooms' = [r \in Rooms |-> [rs[r] EXCEPT !.invites = @ \ {u}]]
  /\ asked' = [r \in Rooms |-> asked[r] \ {u}]
  /\ UNCHANGED appointed

-----------------------------------------------------------------------------
(* Connections. *)

\* main: a new socket gets the first free slot.
Connect ==
  /\ \E u \in First({s \in Slots : ~users[s].conn}) :
       users' = [users EXCEPT ![u].conn = TRUE, ![u].room = NoRoom]
  /\ UNCHANGED <<rooms, asked, appointed, blind, shortened>>

\* process_chat_command: the connection is gone.
Disconnect(u) ==
  /\ users[u].conn
  /\ Logout(LeftUsers(users, u), LeftRooms(users, rooms, u), u)
  /\ UNCHANGED <<blind, shortened>>

\* command_execute: without a room every line but "/!" ends the connection.
WrongLine(u) ==
  /\ users[u].conn /\ users[u].room = NoRoom
  /\ Logout(users, rooms, u)
  /\ UNCHANGED <<blind, shortened>>

\* A chatid that is compared through slot 1 while it overlooks somebody.
Overlooks(u) ==
  "seecloak" \in users[1].perms /\ \E s \in Slots \ {u} : users[s].conn /\ users[s].cloak

\* login_user: "/! utent level userid chatid cloak".  Userid and chatid are
\* compared as they were typed and kept cut; who is on already, also with this
\* connection, loses it.
Login(u, id, cid) ==
  /\ users[u].conn /\ users[u].room = NoRoom
  /\ \/ /\ \E s \in Slots : users[s].conn /\ users[s].userid = id
        /\ Logout(users, rooms, u)
        /\ UNCHANGED <<blind, shortened>>
     \/ /\ \A s \in Slots : users[s].conn => users[s].userid # id
        /\ ChatidToIndx(1, cid) = {}
        /\ \E level \in Levels[id], cloak \in BOOLEAN :
             LET us == [users EXCEPT ![u].userid = StoredId[id], ![u].chatid = StoredChat[cid],
                                     ![u].cloak = cloak, ![u].perms = level \ {"chat"},
                                     ![u].op = "chat" \in level]
             IN  EnterRoom(us, rooms, u, Main)
        /\ blind' = (blind \/ Overlooks(u))
        /\ shortened' = shortened \cup ({StoredId[id]} \ {id}) \cup ({StoredChat[cid]} \ {cid})

-----------------------------------------------------------------------------
(* Commands, for a client who is in a room. *)

InRoom(u) == users[u].conn /\ users[u].room # NoRoom

\* chat_goodbye leaves the room and keeps the connection.
Goodbye(u) ==
  /\ InRoom(u)
  /\ users' = LeftUsers(users, u)
  /\ rooms' = LeftRooms(users, rooms, u)
  /\ UNCHANGED <<asked, appointed, blind, shortened>>

\* chat_join
Join(u, name) ==
  /\ InRoom(u) /\ ~Restricted(u)
  /\ EnterRoom(users, rooms, u, name)
  /\ UNCHANGED <<blind, shortened>>

\* chat_setroom, for the flag 'l'.
SetRoom(u, lock) ==
  /\ InRoom(u) /\ (Roomop(u) \/ Master(u))
  /\ rooms' = [rooms EXCEPT ![users[u].room].locked = lock]
  /\ UNCHANGED <<users, asked, appointed, blind, shortened>>

\* Mutant of Nick: the chatid is not looked up.
NickTaken(u, cid) ==
  /\ InRoom(u)
  /\ users' = [users EXCEPT ![u].chatid = StoredChat[cid]]
  /\ blind' = (blind \/ Overlooks(u))
  /\ UNCHANGED <<rooms, asked, appointed, shortened>>

\* chat_nick cuts the chatid before it compares it.
Nick(u, cid) ==
  /\ InRoom(u)
  /\ ChatidToIndx(1, StoredChat[cid]) \subseteq {u}
  /\ users' = [users EXCEPT ![u].chatid = StoredChat[cid]]
  /\ blind' = (blind \/ Overlooks(u))
  /\ UNCHANGED <<rooms, asked, appointed, shortened>>

\* chat_cloak
Cloak(u) ==
  /\ InRoom(u) /\ "seecloak" \in users[u].perms
  /\ users' = [users EXCEPT ![u].cloak = ~@]
  /\ UNCHANGED <<rooms, asked, appointed, blind, shortened>>

\* chat_kick: out of the main room means out of the house.  Whom a locked main
\* room does not admit is left without a room.
Kick(u, cid) ==
  /\ InRoom(u) /\ (Roomop(u) \/ Master(u))
  /\ \E v \in ChatidToIndx(u, cid) :
       LET us == LeftUsers(users, v)
           rs == LeftRooms(users, rooms, v)
       IN  /\ users[v].room = users[u].room
           /\ IF users[u].room = 0 THEN Logout(us, rs, v) ELSE EnterRoom(us, rs, v, Main)
  /\ UNCHANGED <<blind, shortened>>

\* chat_makeop: the giver is an operator no longer, if he was one.
MakeOp(u, cid) ==
  /\ InRoom(u) /\ (Roomop(u) \/ Master(u))
  /\ \E v \in ChatidToIndx(u, cid) \ {u} :
       /\ users[v].room = users[u].room
       /\ users' = [users EXCEPT ![u].op = FALSE, ![v].op = TRUE]
       /\ appointed' = appointed \cup {r \in {users[u].room} : ~Roomop(u)}
  /\ UNCHANGED <<rooms, asked, blind, shortened>>

\* chat_clear_ops
ClearOps(u) ==
  /\ InRoom(u) /\ Sysop(u)
  /\ users' = [s \in Slots |->
                 IF users[s].conn /\ users[s].room = users[u].room /\ users[s].userid \notin Exempt
                   THEN [users[s] EXCEPT !.op = FALSE] ELSE users[s]]
  /\ UNCHANGED <<rooms, asked, appointed, blind, shortened>>

\* chat_clear_op
ClearOp(u, cid) ==
  /\ InRoom(u) /\ Master(u)
  /\ \E v \in ChatidToIndx(u, cid) \ {u} :
       /\ users[v].room = users[u].room
       /\ users' = [users EXCEPT ![v].op = FALSE]
  /\ UNCHANGED <<rooms, asked, appointed, blind, shortened>>

\* chat_invite.  Without an argument it finds who has no chatid yet.
Invite(u, cid) ==
  /\ InRoom(u) /\ (Roomop(u) \/ Sysop(u))
  /\ \E v \in ChatidToIndx(u, cid) :
       /\ v \notin rooms[users[u].room].invites
       /\ rooms' = [rooms EXCEPT ![users[u].room].invites = @ \cup {v}]
       /\ asked' = [asked EXCEPT ![users[u].room] = @ \cup {v}]
  /\ UNCHANGED <<users, appointed, blind, shortened>>

Command(u) ==
  \/ Goodbye(u) \/ Cloak(u) \/ ClearOps(u)
  \/ \E name \in Names : Join(u, name)
  \/ \E lock \in BOOLEAN : SetRoom(u, lock)
  \/ \E cid \in Chatids : \/ Nick(u, cid) \/ Kick(u, cid) \/ MakeOp(u, cid) \/ ClearOp(u, cid)
  \/ \E cid \in Chatids \cup {NoId} : Invite(u, cid)

Next ==
  \/ Connect
  \/ \E u \in Slots : \/ Disconnect(u) \/ WrongLine(u) \/ Command(u)
                      \/ \E id \in Userids, cid \in Chatids : Login(u, id, cid)

Spec == Init /\ [][Next]_vars

-----------------------------------------------------------------------------
(* Properties. *)

Occupants(r) == {u \in Slots : users[u].conn /\ users[u].room = r}

TypeOK ==
  /\ users \in [Slots -> [conn: BOOLEAN, room: Rooms \cup {NoRoom}, userid: Userids \cup {NoId},
                          chatid: Chatids \cup {NoId}, perms: SUBSET Perms, op: BOOLEAN,
                          cloak: BOOLEAN]]
  /\ rooms \in [Rooms -> [name: {Stored[n] : n \in Names}, occupants: 0 .. NSlots,
                          locked: BOOLEAN, invites: SUBSET Slots]]
  /\ asked \in [Rooms -> SUBSET Slots]
  /\ appointed \subseteq Rooms
  /\ blind \in BOOLEAN
  /\ shortened \subseteq Userids \cup Chatids

\* The two tables agree: a room counts the clients that are in it (its count is
\* what keeps it open, exit_room), a free slot has no place, right or
\* invitation left for who connects next, and a userid is in once, unless a
\* login was given a longer one: that is compared whole (login_user) with what
\* is kept cut, and found in nobody.
TablesAgree ==
  /\ TypeOK
  /\ \A r \in Rooms : rooms[r].occupants = Cardinality(Occupants(r))
  /\ \A u \in Slots : ~users[u].conn => /\ users[u] = Nobody
                                        /\ \A r \in Rooms : u \notin rooms[r].invites
  /\ \A u, v \in Slots : 
       users[u].userid = users[v].userid => u = v \/ users[u].userid \in {NoId} \cup shortened

\* Who comes into a locked room that stays open may.
Admission ==
  \A u \in Slots, r \in Rooms :
    LET came == users'[u].room = r /\ users[u].room # r
        open == r = 0 \/ rooms[r].occupants # 0
    IN  came /\ open /\ rooms[r].locked =>
          \/ users'[u].perms \cap {"sysop", "chatop"} # {}
          \/ u \in asked[r]

\* A locked room (chat_setroom) that stays open is entered by masters and by
\* clients an operator asked in while they were connected, once each.  An
\* invitation, kept in the room by slot, goes neither to the next client in the
\* slot nor to the room that is opened under the same number.
LockHolds == [][Admission]_vars

\* One operator per room, and none in the main room, until a sysop or chatop
\* appoints one without being it: the right is left behind with the room
\* (exit_room), also by a second login, a kick or a rejoin.
OneOp ==
  \A r \in Rooms \ appointed :
    Cardinality({u \in Occupants(r) : users[u].op}) <= (IF r = 0 THEN 0 ELSE 1)

\* Two clients have the same chatid only after one was accepted while slot 1,
\* whose eyes chatid_to_indx(0, ...) uses, overlooked a cloaked user, or if a
\* login was given a longer one that is cut to it (login_user compares first
\* and cuts then; chat_nick cuts first).
ChatidsUnique ==
  \A u, v \in Slots :
    users[u].chatid = users[v].chatid =>
      u = v \/ users[u].chatid \in {NoId} \cup shortened \/ blind

=============================================================================
