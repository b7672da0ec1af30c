----------------------------- MODULE ChatProofs -----------------------------
(***************************************************************************)
(* For any number of slots, rooms, users and names, the tables of the chat *)
(* daemon agree, locks hold, rights end with the room, and a userid or     *)
(* chatid has one client up to the names that a login cuts and, for        *)
(* chatids, until slot 1 was blind.                                        *)
(***************************************************************************)
EXTENDS Chat, FiniteSetTheorems, WellFoundedInduction, TLAPS

Clients == [conn: BOOLEAN, room: Rooms \cup {NoRoom}, userid: Userids \cup {NoId},
            chatid: Chatids \cup {NoId}, perms: SUBSET Perms, op: BOOLEAN, cloak: BOOLEAN]
ChatRooms == [name: {Stored[n] : n \in Names}, occupants: Int, locked: BOOLEAN,
              invites: SUBSET Slots]

\* The parts of the invariant, for the tables us and rs, which may be those
\* between two calls of one action.
In(us, r) == {s \in Slots : us[s].conn /\ us[s].room = r}

Counted(us, rs) == \A r \in Rooms : rs[r].occupants = Cardinality(In(us, r))

FreeSlots(us, rs) ==
  \A s \in Slots : ~us[s].conn => us[s] = Nobody /\ \A r \in Rooms : s \notin rs[r].invites

\* An invitation is in the book of those who were asked.
Invited(rs, ask) == \A r \in Rooms : rs[r].invites \subseteq ask[r]

Ruled(us, app) ==
  \A r \in Rooms \ app, s, t \in Slots :
    s \in In(us, r) /\ t \in In(us, r) /\ us[s].op /\ us[t].op => r # 0 /\ s = t

\* us and vs differ only in where u is and whether he is an operator.
Moved(us, vs, u) ==
  /\ \A s \in Slots \ {u} : vs[s] = us[s]
  /\ vs[u].conn = us[u].conn /\ vs[u].userid = us[u].userid /\ vs[u].chatid = us[u].chatid
  /\ vs[u].perms = us[u].perms /\ vs[u].cloak = us[u].cloak

\* u may come into room r.
Admitted(us, rs, ask, u, r) ==
  (r = 0 \/ rs[r].occupants # 0) /\ rs[r].locked =>
    us[u].perms \cap {"sysop", "chatop"} # {} \/ u \in ask[r]

\* A userid and a chatid have one client, but for those in S, which a login cut.
Apart(us, S) ==
  \A s, t \in Slots : us[s].userid = us[t].userid => s = t \/ us[s].userid \in {NoId} \cup S
Named(us, S) ==
  \A s, t \in Slots : us[s].chatid = us[t].chatid => s = t \/ us[s].chatid \in {NoId} \cup S

Distinct(us, b, S) == Apart(us, S) /\ (b \/ Named(us, S))

Books == [Rooms -> SUBSET Slots]

Good(us, rs, ask, app) ==
  /\ us \in [Slots -> Clients] /\ rs \in [Rooms -> ChatRooms] /\ ask \in Books /\ app \subseteq Rooms
  /\ Counted(us, rs) /\ FreeSlots(us, rs) /\ Invited(rs, ask) /\ Ruled(us, app)

IInv ==
  /\ Good(users, rooms, asked, appointed)
  /\ blind \in BOOLEAN /\ shortened \subseteq Userids \cup Chatids
  /\ Distinct(users, blind, shortened)

-----------------------------------------------------------------------------
LEMMA Constants ==
  /\ Slots = 1 .. NSlots /\ NSlots \in Nat /\ 1 \in Slots /\ IsFiniteSet(Slots)
  /\ Rooms \subseteq Nat /\ 0 \in Rooms /\ NoRoom \notin Rooms /\ NoRoom = -1
  /\ NoId \notin Userids /\ NoId \notin Chatids
  BY ChatAssumption, FS_Interval DEF Slots, Rooms, NoRoom, NoId

\* A non-empty set of slots has a first.
LEMMA FirstIn ==
  ASSUME NEW S \in SUBSET Slots, S # {}
  PROVE  First(S) # {}
  <1> DEFINE R == {ss \in Nat \X Nat : ss[1] < ss[2]}
  <1>0. S \in SUBSET Nat
    BY Constants
  <1>1. IsWellFoundedOn(R, Nat)
    BY NatLessThanWellFounded DEF OpToRel
  <1>2. PICK n \in S : \A m \in S : ~ (<<m, n>> \in R)
    <2> HIDE DEF R
    <2> QED BY <1>0, <1>1, WFMin
  <1>3. SUFFICES ASSUME NEW m \in S PROVE n <= m
    BY DEF First
  <1>4. m < n => <<m, n>> \in R
    BY <1>0
  <1> QED BY <1>0, <1>2, <1>4

\* Rooms and slots of other clients are not in the way of u.
LEMMA InFinite == ASSUME NEW us, NEW r PROVE IsFiniteSet(In(us, r)) /\ Cardinality(In(us, r)) \in 0 .. NSlots
  <1>1. In(us, r) \in SUBSET Slots
    BY DEF In
  <1>2. Cardinality(Slots) = NSlots
    BY FS_Interval, Constants
  <1> QED BY <1>1, <1>2, Constants, FS_Subset, FS_CardinalityType

\* A client who has left his room, and a room with another count and other guests.
LEMMA Leaving ==
  ASSUME NEW c \in Clients, NEW d, d = [c EXCEPT !.room = NoRoom, !.op = FALSE]
  PROVE  /\ d \in Clients /\ d.room = NoRoom /\ d.op = FALSE
         /\ d.conn = c.conn /\ d.userid = c.userid /\ d.chatid = c.chatid
         /\ d.perms = c.perms /\ d.cloak = c.cloak
  BY DEF Clients

LEMMA Recount ==
  ASSUME NEW c \in ChatRooms, NEW n \in Int, NEW d, d = [c EXCEPT !.occupants = n]
  PROVE  /\ d \in ChatRooms /\ d.occupants = n /\ d.invites = c.invites
         /\ d.locked = c.locked /\ d.name = c.name
  BY DEF ChatRooms

LEMMA LeftGood ==
  ASSUME NEW us, NEW rs, NEW ask, NEW app, Good(us, rs, ask, app),
         NEW u \in Slots, us[u].conn
  PROVE  /\ Good(LeftUsers(us, u), LeftRooms(us, rs, u), ask, app)
         /\ \A r \in Rooms : u \notin In(LeftUsers(us, u), r)
         /\ Moved(us, LeftUsers(us, u), u) /\ LeftUsers(us, u)[u].room = NoRoom
         /\ \A r \in Rooms \ {us[u].room} : LeftRooms(us, rs, u)[r] = rs[r]
  <1> DEFINE vs == LeftUsers(us, u)
             qs == LeftRooms(us, rs, u)
  <1> USE Constants
  <1>0. us \in [Slots -> Clients] /\ us[u] \in Clients /\ rs \in [Rooms -> ChatRooms]
    BY DEF Good
  <1>1. /\ vs \in [Slots -> Clients]
        /\ \A s \in Slots \ {u} : vs[s] = us[s]
        /\ vs[u] = [us[u] EXCEPT !.room = NoRoom, !.op = FALSE]
    <2>1. vs = [us EXCEPT ![u] = [us[u] EXCEPT !.room = NoRoom, !.op = FALSE]]
      BY <1>0 DEF LeftUsers
    <2> QED BY <1>0, <2>1, Leaving
  <1>2. /\ vs[u].conn = us[u].conn /\ vs[u].room = NoRoom /\ ~vs[u].op
        /\ vs[u].userid = us[u].userid
    BY <1>0, <1>1, Leaving
  <1>3. /\ qs \in [Rooms -> ChatRooms]
        /\ \A r \in Rooms : /\ qs[r].occupants = IF r = us[u].room THEN rs[r].occupants - 1
                                                                   ELSE rs[r].occupants
                            /\ qs[r].invites = rs[r].invites
        /\ \A r \in Rooms \ {us[u].room} : qs[r] = rs[r]
    <2>1. CASE us[u].room = NoRoom
      BY <1>0, <2>1 DEF LeftRooms
    <2>2. CASE us[u].room # NoRoom
      <3>1. us[u].room \in Rooms
        BY <1>0, <2>2 DEF Clients
      <3>2. qs = [rs EXCEPT ![us[u].room] = [rs[us[u].room] EXCEPT !.occupants = rs[us[u].room].occupants - 1]]
        BY <2>2 DEF LeftRooms
      <3>x. rs[us[u].room] \in ChatRooms
        BY <1>0, <3>1
      <3>3. rs[us[u].room].occupants - 1 \in Int
        BY <3>x DEF ChatRooms
      <3>4. /\ qs[us[u].room] \in ChatRooms
            /\ qs[us[u].room].occupants = rs[us[u].room].occupants - 1
            /\ qs[us[u].room].invites = rs[us[u].room].invites
        BY <1>0, <3>1, <3>2, <3>x, <3>3, Recount
      <3>5. \A r \in Rooms \ {us[u].room} : qs[r] = rs[r]
        BY <1>0, <3>2
      <3>6. qs \in [Rooms -> ChatRooms]
        BY <1>0, <3>1, <3>2, <3>4
      <3> QED BY <3>4, <3>5, <3>6
    <2> QED BY <2>1, <2>2
  <1>4. \A s \in Slots : vs[s].conn = us[s].conn /\ (s # u => vs[s].room = us[s].room)
    BY <1>1, <1>2
  <1>5. \A r \in Rooms : In(vs, r) = In(us, r) \ {u}
    BY <1>2, <1>4 DEF In
  <1>6. Counted(vs, qs)
    <2> SUFFICES ASSUME NEW r \in Rooms PROVE qs[r].occupants = Cardinality(In(vs, r))
      BY DEF Counted
    <2>1. Cardinality(In(us, r) \ {u}) = IF u \in In(us, r) THEN Cardinality(In(us, r)) - 1
                                                              ELSE Cardinality(In(us, r))
      BY InFinite, FS_RemoveElement
    <2>2. u \in In(us, r) <=> r = us[u].room
      BY DEF In
    <2>3. rs[r].occupants = Cardinality(In(us, r))
      BY DEF Good, Counted
    <2> QED BY <2>1, <2>2, <2>3, <1>3, <1>5
  <1>7. FreeSlots(vs, qs)
    BY <1>1, <1>2, <1>3 DEF Good, FreeSlots
  <1>9. Invited(qs, ask)
    BY <1>3 DEF Good, Invited
  <1>8. Ruled(vs, app)
    BY <1>1, <1>5 DEF Good, Ruled
  <1>10. Good(vs, qs, ask, app)
    BY <1>1, <1>3, <1>6, <1>7, <1>8, <1>9 DEF Good
  <1>11. Moved(us, vs, u)
    BY <1>0, <1>1, Leaving DEF Moved
  <1>12. \A r \in Rooms : u \notin In(vs, r)
    BY <1>5
  <1> HIDE DEF vs, qs
  <1>13. vs[u].room = NoRoom /\ \A r \in Rooms \ {us[u].room} : qs[r] = rs[r]
    BY <1>2, <1>3
  <1> QED BY <1>10, <1>11, <1>12, <1>13 DEF vs, qs

\* An empty room may be opened: nobody is in it, and who was asked is forgotten.
LEMMA OpenGood ==
  ASSUME NEW us, NEW rs, NEW ask, NEW app, Good(us, rs, ask, app),
         NEW r \in Rooms \ {0}, rs[r].occupants = 0, NEW name \in Names
  PROVE  /\ Good(us, [rs EXCEPT ![r] = EmptyRoom(Stored[name])], [ask EXCEPT ![r] = {}], app \ {r})
         /\ In(us, r) = {}
  <1> DEFINE qs == [rs EXCEPT ![r] = EmptyRoom(Stored[name])]
             bs == [ask EXCEPT ![r] = {}]
  <1>1. In(us, r) = {}
    <2>1. Cardinality(In(us, r)) = 0
      BY DEF Good, Counted
    <2> QED BY <2>1, InFinite, FS_EmptySet
  <1>2. EmptyRoom(Stored[name]) \in ChatRooms
    BY DEF EmptyRoom, ChatRooms
  <1>3. /\ qs \in [Rooms -> ChatRooms] /\ bs \in Books
        /\ \A q \in Rooms \ {r} : qs[q] = rs[q] /\ bs[q] = ask[q]
        /\ qs[r].occupants = 0 /\ qs[r].invites = {} /\ bs[r] = {}
    BY <1>2 DEF Good, Books, EmptyRoom
  <1>4. Counted(us, qs)
    BY <1>1, <1>3, FS_EmptySet DEF Good, Counted
  <1>5. FreeSlots(us, qs) /\ Invited(qs, bs)
    BY <1>3 DEF Good, FreeSlots, Invited
  <1>6. Ruled(us, app \ {r})
    BY <1>1 DEF Good, Ruled
  <1> HIDE DEF qs, bs
  <1>7. Good(us, qs, bs, app \ {r})
    BY <1>3, <1>4, <1>5, <1>6 DEF Good
  <1> QED BY <1>1, <1>7 DEF qs, bs

\* Who is in no room may sit down in one, as its operator if it is empty.
LEMMA SitGood ==
  ASSUME NEW us, NEW rs, NEW ask, NEW app, Good(us, rs, ask, app),
         NEW u \in Slots, us[u].conn, us[u].room = NoRoom, NEW r \in Rooms,
         NEW op \in BOOLEAN, op => r # 0 /\ In(us, r) = {},
         NEW vs, NEW qs, NEW bs,
         vs = [us EXCEPT ![u] = [us[u] EXCEPT !.room = r, !.op = op]],
         qs = [rs EXCEPT ![r] = [rs[r] EXCEPT !.occupants = rs[r].occupants + 1,
                                              !.invites = rs[r].invites \ {u}]],
         bs = [ask EXCEPT ![r] = ask[r] \ {u}]
  PROVE  Good(vs, qs, bs, app)
  <1> USE Constants
  <1>1. /\ us \in [Slots -> Clients] /\ rs \in [Rooms -> ChatRooms] /\ ask \in Books
        /\ us[u] \in Clients /\ rs[r] \in ChatRooms
    BY DEF Good
  <1>2. /\ vs[u] \in Clients /\ vs[u].room = r /\ vs[u].op = op
        /\ vs[u].conn /\ vs[u].userid = us[u].userid
    <2>1. vs[u] = [us[u] EXCEPT !.room = r, !.op = op]
      BY <1>1
    <2> QED BY <1>1, <2>1 DEF Clients
  <1>3. vs \in [Slots -> Clients] /\ \A s \in Slots \ {u} : vs[s] = us[s]
    BY <1>1, <1>2
  <1>4. /\ qs[r] \in ChatRooms /\ qs[r].occupants = rs[r].occupants + 1
        /\ qs[r].invites = rs[r].invites \ {u}
    <2> DEFINE c == rs[r]
               n == rs[r].occupants + 1
               I == rs[r].invites \ {u}
    <2>1. c \in ChatRooms /\ qs[r] = [c EXCEPT !.occupants = n, !.invites = I]
      BY <1>1
    <2>2. n \in Int /\ I \in SUBSET Slots
      BY <1>1 DEF ChatRooms
    <2> HIDE DEF c, n, I
    <2>3. qs[r] \in ChatRooms /\ qs[r].occupants = n /\ qs[r].invites = I
      BY ONLY <2>1, <2>2 DEF ChatRooms
    <2> QED BY <2>3 DEF n, I
  <1>5. qs \in [Rooms -> ChatRooms] /\ \A q \in Rooms \ {r} : qs[q] = rs[q]
    BY <1>1, <1>4
  <1>6. bs \in Books /\ \A q \in Rooms \ {r} : bs[q] = ask[q]
    BY <1>1 DEF Books
  <1>7. In(vs, r) = In(us, r) \cup {u} /\ u \notin In(us, r)
    BY <1>2, <1>3 DEF In
  <1>8. \A q \in Rooms \ {r} : In(vs, q) = In(us, q)
    BY <1>2, <1>3 DEF In
  <1>9. Counted(vs, qs)
    <2>1. Cardinality(In(vs, r)) = Cardinality(In(us, r)) + 1
      BY <1>7, InFinite, FS_AddElement
    <2> QED BY <2>1, <1>4, <1>5, <1>8 DEF Good, Counted
  <1>10. FreeSlots(vs, qs)
    BY <1>2, <1>3, <1>4, <1>5 DEF Good, FreeSlots
  <1>13. Invited(qs, bs)
    <2> SUFFICES ASSUME NEW q \in Rooms PROVE qs[q].invites \subseteq bs[q]
      BY DEF Invited
    <2>1. rs[q].invites \subseteq ask[q]
      BY DEF Good, Invited
    <2>2. bs[r] = ask[r] \ {u}
      BY <1>1 DEF Books
    <2> QED BY <2>1, <2>2, <1>4, <1>5, <1>6
  <1>14. Ruled(vs, app)
    <2> SUFFICES ASSUME NEW q \in Rooms \ app, NEW s \in Slots, NEW t \in Slots,
                        s \in In(vs, q), t \in In(vs, q), vs[s].op, vs[t].op
                 PROVE  q # 0 /\ s = t
      BY Zenon DEF Ruled
    <2>1. CASE q # r
      <3>1. s \in In(us, q) /\ t \in In(us, q)
        BY <2>1, <1>8
      <3>2. s # u /\ t # u
        BY <2>1, <1>2 DEF In
      <3> QED BY <3>1, <3>2, <1>3 DEF Good, Ruled
    <2>2. CASE q = r /\ op
      <3>1. r # 0 /\ In(us, r) = {}
        BY <2>2, Zenon
      <3>2. s = u /\ t = u
        BY <2>2, <3>1, <1>7
      <3> QED BY <2>2, <3>1, <3>2
    <2>3. CASE q = r /\ ~op
      <3>1. s # u /\ t # u
        BY <2>3, <1>2
      <3>2. s \in In(us, r) /\ t \in In(us, r)
        BY <2>3, <3>1, <1>7
      <3> QED BY <2>3, <3>1, <3>2, <1>3 DEF Good, Ruled
    <2> QED BY <2>1, <2>2, <2>3
  <1>16. app \subseteq Rooms
    BY DEF Good
  <1> QED BY <1>3, <1>5, <1>6, <1>9, <1>10, <1>13, <1>14, <1>16 DEF Good

\* enter_room: the tables stay good, only u moves, and the lock holds.
LEMMA EnterGood ==
  ASSUME NEW us, NEW rs, Good(us, rs, asked, appointed),
         NEW u \in Slots, us[u].conn, NEW name \in Names,
         EnterRoom(us, rs, u, name)
  PROVE  /\ Good(users', rooms', asked', appointed')
         /\ Moved(us, users', u)
         /\ \A r \in Rooms : Admitted(us, rs, asked, u, r) \/ users'[u].room # r \/ us[u].room = r
  <1> USE Constants
  <1> DEFINE opened == RoomidToIndx(rs, name) = {}
             made(r) == IF opened THEN [rs EXCEPT ![r] = EmptyRoom(Stored[name])] ELSE rs
             asks(r) == IF opened THEN [asked EXCEPT ![r] = {}] ELSE asked
             apps(r) == IF opened THEN appointed \ {r} ELSE appointed
             vs == LeftUsers(us, u)
             admits(r) == \/ us[u].perms \cap {"sysop", "chatop"} # {}
                          \/ ~made(r)[r].locked \/ u \in rs[r].invites
  <1>0. us \in [Slots -> Clients] /\ rs \in [Rooms -> ChatRooms] /\ asked \in Books
    BY DEF Good
  <1>1. CASE users' = us /\ rooms' = rs /\ UNCHANGED <<asked, appointed>>
    BY <1>1 DEF Moved
  <1>2. CASE \E r \in Door(rs, name) : 
               /\ admits(r)
               /\ users' = [vs EXCEPT ![u].room = r, ![u].op = @ \/ opened]
               /\ rooms' = [LeftRooms(us, made(r), u) EXCEPT ![r].occupants = @ + 1,
                                                             ![r].invites = @ \ {u}]
               /\ asked' = [asked EXCEPT ![r] = IF opened THEN {} ELSE @ \ {u}]
               /\ appointed' = IF opened THEN appointed \ {r} ELSE appointed
    <2>1. PICK r \in Door(rs, name) : 
               /\ admits(r)
               /\ users' = [vs EXCEPT ![u].room = r, ![u].op = @ \/ opened]
               /\ rooms' = [LeftRooms(us, made(r), u) EXCEPT ![r].occupants = @ + 1,
                                                             ![r].invites = @ \ {u}]
               /\ asked' = [asked EXCEPT ![r] = IF opened THEN {} ELSE @ \ {u}]
               /\ appointed' = IF opened THEN appointed \ {r} ELSE appointed
      BY <1>2
    <2>2. /\ r \in Rooms
          /\ opened => r # 0 /\ rs[r].occupants = 0
      BY DEF Door, RoomidToIndx, First
    <2>3. Good(us, made(r), asks(r), apps(r)) /\ (opened => In(us, r) = {})
      BY <2>2, OpenGood
    <2> DEFINE qs == LeftRooms(us, made(r), u)
    <2>4. Good(vs, qs, asks(r), apps(r)) /\ \A q \in Rooms : u \notin In(vs, q)
      BY <2>3, LeftGood
    <2>5. /\ \A s \in Slots \ {u} : vs[s] = us[s]
          /\ vs \in [Slots -> Clients] /\ vs[u].room = NoRoom /\ vs[u].op = FALSE
          /\ vs[u].conn = us[u].conn /\ vs[u].userid = us[u].userid
          /\ vs[u].chatid = us[u].chatid /\ vs[u].perms = us[u].perms /\ vs[u].cloak = us[u].cloak
      <3>1. vs = [us EXCEPT ![u] = [us[u] EXCEPT !.room = NoRoom, !.op = FALSE]]
        BY <1>0 DEF LeftUsers
      <3>2. vs \in [Slots -> Clients] /\ \A s \in Slots \ {u} : vs[s] = us[s]
        BY <2>4, <3>1 DEF Good
      <3>3. us[u] \in Clients /\ vs[u] = [us[u] EXCEPT !.room = NoRoom, !.op = FALSE]
        BY <1>0, <3>1
      <3> HIDE DEF vs
      <3> QED BY <3>2, <3>3, Leaving
    <2> HIDE DEF vs, qs, opened, made, asks, apps
    <2>6. In(us, r) = {} => In(vs, r) = {}
      <3> SUFFICES ASSUME NEW s \in In(vs, r) PROVE s \in In(us, r)
        OBVIOUS
      <3>1. s \in Slots \ {u}
        BY <2>2, <2>4 DEF In
      <3> QED BY <3>1, <2>5 DEF In
    <2>7. users' = [vs EXCEPT ![u] = [vs[u] EXCEPT !.room = r, !.op = opened]]
      <3>1. users' = [vs EXCEPT ![u].room = r, ![u].op = @ \/ opened]
        BY <2>1
      <3>2. vs \in [Slots -> Clients]
        BY <2>5
      <3>3. users' = [vs EXCEPT ![u] = [vs[u] EXCEPT !.room = r, !.op = vs[u].op \/ opened]]
        BY ONLY <3>1, <3>2, u \in Slots DEF Clients
      <3>4. (vs[u].op \/ opened) = opened
        BY <2>5 DEF opened
      <3> QED BY <3>3, <3>4
    <2>8. rooms' = [qs EXCEPT ![r] = [qs[r] EXCEPT !.occupants = qs[r].occupants + 1,
                                                   !.invites = qs[r].invites \ {u}]]
      BY <2>1, <2>2, <2>4 DEF qs, Good
    <2>9. asked' = [asks(r) EXCEPT ![r] = asks(r)[r] \ {u}]
      BY <2>1, <2>2, <2>5, <1>0 DEF asks, Books
    <2>10. Good(users', rooms', asked', appointed')
      <3>1. appointed' = apps(r)
        BY <2>1 DEF apps
      <3>2. opened \in BOOLEAN /\ (opened => r # 0 /\ In(vs, r) = {})
        BY <2>2, <2>3, <2>6 DEF opened
      <3>3. vs[u].conn /\ vs[u].room = NoRoom
        BY <2>5
      <3> QED BY ONLY <2>2, <2>4, <2>7, <2>8, <2>9, <3>1, <3>2, <3>3, SitGood, u \in Slots
    <2>11. Moved(us, users', u)
      BY <2>5, <2>7 DEF Moved, Clients
    <2>12. \A q \in Rooms : Admitted(us, rs, asked, u, q) \/ users'[u].room # q
      <3> SUFFICES ASSUME r = 0 \/ rs[r].occupants # 0, rs[r].locked
                   PROVE  Admitted(us, rs, asked, u, r)
        BY <2>5, <2>7 DEF Admitted, Clients
      <3>1. ~opened
        BY <2>2
      <3>2. us[u].perms \cap {"sysop", "chatop"} # {} \/ u \in rs[r].invites
        BY <2>1, <3>1 DEF made
      <3> QED BY <2>2, <3>2 DEF Good, Invited, Admitted
    <2> QED BY <2>10, <2>11, <2>12
  <1> QED BY <1>1, <1>2 DEF EnterRoom

\* logout_user: the tables stay good, and only u goes.
LEMMA LogoutGood ==
  ASSUME NEW us, NEW rs, Good(us, rs, asked, appointed),
         NEW u \in Slots, us[u].room = NoRoom, Logout(us, rs, u)
  PROVE  /\ Good(users', rooms', asked', appointed')
         /\ users'[u] = Nobody /\ \A s \in Slots \ {u} : users'[s] = us[s]
  <1> USE Constants
  <1>0. us \in [Slots -> Clients] /\ rs \in [Rooms -> ChatRooms] /\ asked \in Books
    BY DEF Good
  <1>1. /\ users' \in [Slots -> Clients]
        /\ users'[u] = Nobody /\ \A s \in Slots \ {u} : users'[s] = us[s]
    <2>1. Nobody \in Clients
      BY DEF Nobody, Clients
    <2> QED BY <1>0, <2>1 DEF Logout
  <1>2. Nobody.room = NoRoom /\ Nobody.conn = FALSE /\ Nobody.userid = NoId
    BY DEF Nobody
  <1>3. rooms' \in [Rooms -> ChatRooms] /\ \A r \in Rooms : /\ rooms'[r].occupants = rs[r].occupants
                                                        /\ rooms'[r].invites = rs[r].invites \ {u}
    <2>1. ASSUME NEW r \in Rooms
          PROVE  /\ rooms'[r] \in ChatRooms /\ rooms'[r].occupants = rs[r].occupants
                 /\ rooms'[r].invites = rs[r].invites \ {u}
      <3> DEFINE c == rs[r]
                 I == rs[r].invites \ {u}
      <3>1. c \in ChatRooms /\ rooms'[r] = [c EXCEPT !.invites = I]
        BY <1>0 DEF Logout
      <3>2. I \in SUBSET Slots
        BY <1>0 DEF ChatRooms
      <3> HIDE DEF c, I
      <3>3. rooms'[r] \in ChatRooms /\ rooms'[r].occupants = c.occupants /\ rooms'[r].invites = I
        BY ONLY <3>1, <3>2 DEF ChatRooms
      <3> QED BY <3>3 DEF c, I
    <2>2. rooms' = [r \in Rooms |-> rooms'[r]]
      BY DEF Logout
    <2>3. rooms' \in [Rooms -> ChatRooms]
      BY <2>1, <2>2
    <2> QED BY <2>1, <2>3
  <1>4. asked' \in Books /\ \A r \in Rooms : asked'[r] = asked[r] \ {u}
    BY <1>0 DEF Logout, Books
  <1>5. Counted(users', rooms')
    <2>1. \A r \in Rooms : In(users', r) = In(us, r)
      BY <1>1, <1>2 DEF In
    <2> QED BY <2>1, <1>3 DEF Good, Counted
  <1>6. FreeSlots(users', rooms')
    BY <1>1, <1>2, <1>3 DEF Good, FreeSlots
  <1>8. Invited(rooms', asked')
    BY <1>3, <1>4 DEF Good, Invited
  <1>9. Ruled(users', appointed')
    <2>1. \A r \in Rooms, s \in Slots : s \in In(users', r) => s # u /\ s \in In(us, r)
      BY <1>1, <1>2 DEF In
    <2> QED BY <2>1, <1>1 DEF Logout, Good, Ruled
  <1> QED BY <1>1, <1>3, <1>4, <1>5, <1>6, <1>8, <1>9 DEF Good, Logout

\* A step that changes nobody's connection or room, and the rights of nobody
\* who is away.
LEMMA StayGood ==
  ASSUME NEW us, NEW rs, NEW ask, NEW app, Good(us, rs, ask, app),
         NEW vs \in [Slots -> Clients], NEW apps \in SUBSET Rooms,
         \A s \in Slots : /\ vs[s].conn = us[s].conn /\ vs[s].room = us[s].room
                         /\ (~us[s].conn => vs[s] = us[s]),
         Ruled(vs, apps)
  PROVE  Good(vs, rs, ask, apps)
  <1>1. \A r \in Rooms : In(vs, r) = In(us, r)
    BY DEF In
  <1>2. Counted(vs, rs)
    BY <1>1 DEF Good, Counted
  <1>3. FreeSlots(vs, rs)
    BY DEF Good, FreeSlots
  <1> QED BY <1>2, <1>3 DEF Good

LEMMA DistinctMoved ==
  ASSUME NEW us, NEW vs, NEW u \in Slots, NEW b, NEW S, Distinct(us, b, S), Moved(us, vs, u)
  PROVE  Distinct(vs, b, S)
  <1>1. \A s \in Slots : vs[s].chatid = us[s].chatid /\ vs[s].userid = us[s].userid
    BY DEF Moved
  <1> QED BY <1>1 DEF Distinct, Apart, Named

LEMMA DistinctLogout ==
  ASSUME NEW us, NEW vs, NEW u \in Slots, NEW b, NEW S, Distinct(us, b, S), vs[u] = Nobody,
         \A s \in Slots \ {u} : vs[s] = us[s]
  PROVE  Distinct(vs, b, S)
  <1>1. vs[u].chatid = NoId /\ vs[u].userid = NoId
    BY DEF Nobody
  <1> QED BY <1>1 DEF Distinct, Apart, Named

\* Nobody comes into a room.
LEMMA NoneCame ==
  ASSUME \A s \in Slots : users'[s].room \in {users[s].room, NoRoom}
  PROVE  Admission
  BY Constants DEF Admission

-----------------------------------------------------------------------------
LEMMA ConnectSafe ==
  ASSUME IInv, Connect
  PROVE  IInv' /\ Admission
  <1> USE Constants
  <1>0. users \in [Slots -> Clients] /\ rooms \in [Rooms -> ChatRooms] /\ asked \in Books
    BY DEF IInv, Good
  <1>1. PICK u \in First({s \in Slots : ~users[s].conn}) :
               users' = [users EXCEPT ![u].conn = TRUE, ![u].room = NoRoom]
    BY DEF Connect
  <1>2. u \in Slots /\ ~users[u].conn
    BY DEF First
  <1>3. users[u] = Nobody /\ \A r \in Rooms : u \notin rooms[r].invites
    BY <1>2 DEF IInv, Good, FreeSlots
  <1>4. users' = [users EXCEPT ![u] = [users[u] EXCEPT !.conn = TRUE, !.room = NoRoom]]
    BY ONLY <1>0, <1>1, <1>2 DEF Clients
  <1>5. users' \in [Slots -> Clients] /\ \A s \in Slots \ {u} : users'[s] = users[s]
    <2>1. [users[u] EXCEPT !.conn = TRUE, !.room = NoRoom] \in Clients
      <3> DEFINE c == users[u]
      <3>1. c \in Clients
        BY <1>0, <1>2
      <3> HIDE DEF c
      <3>2. [c EXCEPT !.conn = TRUE, !.room = NoRoom] \in Clients
        BY ONLY <3>1 DEF Clients
      <3> QED BY <3>2 DEF c
    <2> QED BY <1>0, <1>2, <1>4, <2>1
  <1>6. /\ users'[u].conn /\ users'[u].room = NoRoom /\ users'[u].op = users[u].op
        /\ users'[u].userid = users[u].userid /\ users'[u].chatid = users[u].chatid
    BY <1>0, <1>2, <1>4 DEF Clients
  <1>7. users[u].room = NoRoom
    BY <1>3 DEF Nobody
  <1>8. \A r \in Rooms : In(users', r) = In(users, r)
    BY <1>2, <1>5, <1>6, <1>7 DEF In
  <1>9. UNCHANGED <<rooms, asked, appointed, blind, shortened>>
    BY DEF Connect
  <1>10. Counted(users', rooms')
    BY <1>8, <1>9 DEF IInv, Good, Counted
  <1>11. FreeSlots(users', rooms')
    BY <1>5, <1>6, <1>9 DEF IInv, Good, FreeSlots
  <1>12. \A s \in Slots : users'[s].userid = users[s].userid /\ users'[s].chatid = users[s].chatid
    BY <1>5, <1>6
  <1>13. Distinct(users', blind', shortened')
    BY <1>9, <1>12 DEF IInv, Distinct, Apart, Named
  <1>14. Ruled(users', appointed')
    <2>1. \A r \in Rooms, s \in Slots : s \in In(users', r) => s # u
      BY <1>6 DEF In
    <2> QED BY <2>1, <1>5, <1>8, <1>9 DEF IInv, Good, Ruled
  <1>16. IInv'
    BY <1>0, <1>5, <1>9, <1>10, <1>11, <1>13, <1>14 DEF IInv, Good
  <1>17. Admission
    BY <1>5, <1>6, NoneCame
  <1> QED BY <1>16, <1>17

LEMMA GoodbyeSafe ==
  ASSUME IInv, NEW u \in Slots, Goodbye(u)
  PROVE  IInv' /\ Admission
  <1>1. /\ users[u].conn /\ users' = LeftUsers(users, u) /\ rooms' = LeftRooms(users, rooms, u)
        /\ UNCHANGED <<asked, appointed, blind, shortened>>
    BY DEF Goodbye, InRoom
  <1>2. Good(users', rooms', asked', appointed') /\ Moved(users, users', u) /\ users'[u].room = NoRoom
    BY <1>1, LeftGood DEF IInv
  <1>3. IInv'
    BY <1>1, <1>2, DistinctMoved DEF IInv
  <1>4. Admission
    BY <1>2, NoneCame DEF Moved
  <1> QED BY <1>3, <1>4

LEMMA DisconnectSafe ==
  ASSUME IInv, NEW u \in Slots, Disconnect(u)
  PROVE  IInv' /\ Admission
  <1> DEFINE us == LeftUsers(users, u)
             rs == LeftRooms(users, rooms, u)
  <1>1. users[u].conn /\ Logout(us, rs, u) /\ UNCHANGED <<blind, shortened>>
    BY DEF Disconnect
  <1>2. Good(us, rs, asked, appointed) /\ Moved(users, us, u) /\ us[u].room = NoRoom
    BY <1>1, LeftGood DEF IInv
  <1> HIDE DEF us, rs
  <1>3. /\ Good(users', rooms', asked', appointed')
        /\ users'[u] = Nobody /\ \A s \in Slots \ {u} : users'[s] = us[s]
    BY <1>1, <1>2, LogoutGood
  <1>4. IInv'
    BY <1>1, <1>2, <1>3, DistinctMoved, DistinctLogout DEF IInv
  <1>5. Nobody.room = NoRoom /\ \A s \in Slots \ {u} : users'[s] = users[s]
    BY <1>2, <1>3 DEF Nobody, Moved
  <1>6. Admission
    BY <1>3, <1>5, NoneCame
  <1> QED BY <1>4, <1>6

LEMMA LogoutSafe ==
  ASSUME IInv, NEW u \in Slots, users[u].room = NoRoom, Logout(users, rooms, u), UNCHANGED <<blind, shortened>>
  PROVE  IInv' /\ Admission
  <1>1. /\ Good(users', rooms', asked', appointed')
        /\ users'[u] = Nobody /\ \A s \in Slots \ {u} : users'[s] = users[s]
    BY LogoutGood DEF IInv
  <1>2. IInv'
    BY <1>1, DistinctLogout DEF IInv
  <1>3. Nobody.room = NoRoom
    BY DEF Nobody
  <1>4. Admission
    BY <1>1, <1>3, NoneCame
  <1> QED BY <1>2, <1>4

LEMMA JoinSafe ==
  ASSUME IInv, NEW u \in Slots, NEW name \in Names, Join(u, name)
  PROVE  IInv' /\ Admission
  <1>1. users[u].conn /\ UNCHANGED <<blind, shortened>>
    BY DEF Join, InRoom
  <1>2. /\ Good(users', rooms', asked', appointed') /\ Moved(users, users', u)
        /\ \A r \in Rooms : \/ Admitted(users, rooms, asked, u, r)
                            \/ users'[u].room # r \/ users[u].room = r
    BY <1>1, EnterGood DEF Join, IInv
  <1>3. IInv'
    BY <1>1, <1>2, DistinctMoved DEF IInv
  <1>4. Admission
    BY <1>2 DEF Moved, Admitted, Admission
  <1> QED BY <1>3, <1>4

LEMMA KickSafe ==
  ASSUME IInv, NEW u \in Slots, NEW cid, Kick(u, cid)
  PROVE  IInv' /\ Admission
  <1>1. PICK v \in ChatidToIndx(u, cid) :
          LET us == LeftUsers(users, v)
              rs == LeftRooms(users, rooms, v)
          IN  /\ users[v].room = users[u].room
              /\ IF users[u].room = 0 THEN Logout(us, rs, v) ELSE EnterRoom(us, rs, v, Main)
    BY DEF Kick
  <1> DEFINE us == LeftUsers(users, v)
             rs == LeftRooms(users, rooms, v)
  <1>2. v \in Slots /\ users[v].conn /\ users[v].room # NoRoom /\ UNCHANGED <<blind, shortened>>
    BY <1>1 DEF ChatidToIndx, First, Kick, InRoom
  <1>3. Logout(us, rs, v) \/ EnterRoom(us, rs, v, Main)
    BY <1>1
  <1>4. /\ Good(us, rs, asked, appointed) /\ Moved(users, us, v) /\ us[v].room = NoRoom
        /\ \A r \in Rooms \ {users[v].room} : rs[r] = rooms[r]
    BY <1>2, LeftGood DEF IInv
  <1>5. us[v].conn /\ Main \in Names
    BY <1>2, <1>4, ChatAssumption DEF Moved
  <1> HIDE DEF us, rs
  <1>6. CASE Logout(us, rs, v)
    <2>1. /\ Good(users', rooms', asked', appointed')
          /\ users'[v] = Nobody /\ \A s \in Slots \ {v} : users'[s] = us[s]
      BY <1>2, <1>4, <1>6, LogoutGood
    <2>2. IInv'
      BY <1>2, <1>4, <2>1, DistinctMoved, DistinctLogout DEF IInv
    <2>3. Nobody.room = NoRoom /\ \A s \in Slots \ {v} : users'[s] = users[s]
      BY <1>4, <2>1 DEF Nobody, Moved
    <2>4. Admission
      BY <2>1, <2>3, NoneCame
    <2> QED BY <2>2, <2>4
  <1>7. CASE EnterRoom(us, rs, v, Main)
    <2>1. /\ Good(users', rooms', asked', appointed') /\ Moved(us, users', v)
          /\ \A r \in Rooms : \/ Admitted(us, rs, asked, v, r)
                              \/ users'[v].room # r \/ us[v].room = r
      BY <1>2, <1>4, <1>5, <1>7, EnterGood
    <2>2. IInv'
      BY <1>2, <1>4, <2>1, DistinctMoved DEF IInv
    <2>3. Admission
      BY <1>2, <1>4, <2>1, Constants DEF Moved, Admitted, Admission
    <2> QED BY <2>2, <2>3
  <1> QED BY <1>3, <1>6, <1>7

LEMMA SetRoomSafe ==
  ASSUME IInv, NEW u \in Slots, NEW lock \in BOOLEAN, SetRoom(u, lock)
  PROVE  IInv' /\ Admission
  <1>0. users \in [Slots -> Clients] /\ rooms \in [Rooms -> ChatRooms]
    BY DEF IInv, Good
  <1>1. users[u].room \in Rooms /\ UNCHANGED <<users, asked, appointed, blind, shortened>>
    BY <1>0 DEF SetRoom, InRoom, Clients
  <1> DEFINE q == users[u].room
             c == rooms[q]
  <1>2. rooms' = [rooms EXCEPT ![q] = [c EXCEPT !.locked = lock]] /\ c \in ChatRooms
    BY <1>0, <1>1 DEF SetRoom
  <1>3. q \in Rooms
    BY <1>1
  <1> HIDE DEF q
  <1>4. /\ rooms'[q] \in ChatRooms /\ rooms'[q].occupants = c.occupants
        /\ rooms'[q].invites = c.invites
    <2> DEFINE d == rooms'[q]
    <2>1. d = [c EXCEPT !.locked = lock]
      BY <1>0, <1>2, <1>3
    <2> HIDE DEF c, d
    <2>2. d \in ChatRooms /\ d.occupants = c.occupants /\ d.invites = c.invites
      BY ONLY <1>2, <2>1, lock \in BOOLEAN DEF ChatRooms
    <2> QED BY <2>2 DEF d
  <1>5. \A r \in Rooms \ {q} : rooms'[r] = rooms[r]
    BY <1>0, <1>2, <1>3
  <1>6. rooms' \in [Rooms -> ChatRooms]
    BY <1>0, <1>2, <1>3, <1>4
  <1>7. \A r \in Rooms : /\ rooms'[r].occupants = rooms[r].occupants
                        /\ rooms'[r].invites = rooms[r].invites
    BY <1>4, <1>5
  <1>8. Counted(users', rooms') /\ FreeSlots(users', rooms') /\ Invited(rooms', asked')
    BY <1>1, <1>7 DEF IInv, Good, Counted, FreeSlots, Invited
  <1>9. IInv'
    BY <1>1, <1>6, <1>8 DEF IInv, Good
  <1>10. Admission
    BY <1>1, NoneCame
  <1> QED BY <1>9, <1>10

\* The commands that change a client's chatid, cloak or rights.
LEMMA StaySafe ==
  ASSUME IInv, UNCHANGED <<rooms, asked>>, users' \in [Slots -> Clients],
         appointed' \in SUBSET Rooms, blind' \in BOOLEAN, blind' \/ Named(users', shortened),
         UNCHANGED shortened,
         \A s \in Slots : /\ users'[s].conn = users[s].conn /\ users'[s].room = users[s].room
                         /\ users'[s].userid = users[s].userid
                         /\ (~users[s].conn => users'[s] = users[s]),
         Ruled(users', appointed')
  PROVE  IInv' /\ Admission
  <1>1. Good(users', rooms, asked, appointed')
    BY StayGood DEF IInv
  <1>2. Apart(users', shortened)
    BY DEF IInv, Distinct, Apart
  <1>3. IInv'
    BY <1>1, <1>2 DEF IInv, Distinct
  <1>4. Admission
    BY NoneCame
  <1> QED BY <1>3, <1>4

LEMMA NickSafe ==
  ASSUME IInv, NEW u \in Slots, NEW long \in Chatids, Nick(u, long)
  PROVE  IInv' /\ Admission
  <1> DEFINE cid == StoredChat[long]
  <1>a. cid \in Chatids
    BY ChatAssumption
  <1>b. First({s \in Slots : /\ users[s].conn /\ users[s].chatid = cid
                             /\ ~users[s].cloak \/ "seecloak" \notin users[1].perms}) \subseteq {u}
    BY DEF Nick, ChatidToIndx
  <1> USE Constants
  <1>0. users \in [Slots -> Clients] /\ users[u] \in Clients
    BY DEF IInv, Good
  <1>1. /\ users' = [users EXCEPT ![u] = [users[u] EXCEPT !.chatid = cid]]
        /\ UNCHANGED <<rooms, asked, appointed, shortened>> /\ blind' = (blind \/ Overlooks(u))
        /\ users[u].conn
    BY <1>0 DEF Nick, InRoom
  <1> HIDE DEF cid
  <1>2. /\ users' \in [Slots -> Clients] /\ \A s \in Slots \ {u} : users'[s] = users[s]
        /\ users'[u] = [users[u] EXCEPT !.chatid = cid]
    <2>1. [users[u] EXCEPT !.chatid = cid] \in Clients
      BY <1>0, <1>a DEF Clients
    <2> QED BY <1>0, <1>1, <2>1
  <1>3. /\ users'[u].conn = users[u].conn /\ users'[u].room = users[u].room
        /\ users'[u].userid = users[u].userid /\ users'[u].op = users[u].op
        /\ users'[u].chatid = cid
    BY <1>0, <1>2 DEF Clients
  <1>4. Ruled(users', appointed')
    BY <1>1, <1>2, <1>3 DEF IInv, Good, Ruled, In
  <1>5. blind' \in BOOLEAN /\ appointed' \in SUBSET Rooms
    BY <1>1 DEF IInv, Good
  <1>6. blind' \/ Named(users', shortened)
    <2> SUFFICES ASSUME ~blind, ~Overlooks(u)
                 PROVE  Named(users', shortened)
      BY <1>1
    <2> DEFINE S == {s \in Slots : /\ users[s].conn /\ users[s].chatid = cid
                                   /\ ~users[s].cloak \/ "seecloak" \notin users[1].perms}
    <2>1. First(S) \subseteq {u}
      BY <1>b
    <2>2. ASSUME NEW s \in Slots, users[s].chatid = cid PROVE s = u \/ cid \in shortened
      <3> SUFFICES ASSUME s # u, cid \notin shortened PROVE FALSE
        OBVIOUS
      <3>1. users[s].conn
        BY <1>a, <2>2 DEF IInv, Good, FreeSlots, Nobody
      <3>2. s \in S
        BY <2>2, <3>1 DEF Overlooks
      <3>3. First(S) # {}
        BY <3>2, FirstIn
      <3>4. users[u].chatid = cid
        BY <2>1, <3>3 DEF First
      <3> QED BY <1>a, <2>2, <3>4 DEF IInv, Distinct, Named
    <2>3. Named(users, shortened)
      BY DEF IInv, Distinct
    <2> HIDE DEF S
    <2> SUFFICES ASSUME NEW s \in Slots, NEW t \in Slots, users'[s].chatid = users'[t].chatid,
                        users'[s].chatid \notin {NoId} \cup shortened
                 PROVE  s = t
      BY DEF Named
    <2>4. CASE s = u \/ t = u
      BY <1>2, <1>3, <2>2, <2>4
    <2>5. CASE s # u /\ t # u
      BY <1>2, <2>3, <2>5 DEF Named
    <2> QED BY <2>4, <2>5
  <1>7. \A s \in Slots : /\ users'[s].conn = users[s].conn /\ users'[s].room = users[s].room
                        /\ users'[s].userid = users[s].userid
                        /\ (~users[s].conn => users'[s] = users[s])
    BY <1>1, <1>2, <1>3
  <1> QED BY <1>1, <1>2, <1>4, <1>5, <1>6, <1>7, StaySafe

LEMMA CloakSafe ==
  ASSUME IInv, NEW u \in Slots, Cloak(u)
  PROVE  IInv' /\ Admission
  <1>0. users \in [Slots -> Clients] /\ users[u] \in Clients
    BY DEF IInv, Good
  <1>1. /\ users' = [users EXCEPT ![u] = [users[u] EXCEPT !.cloak = ~users[u].cloak]]
        /\ UNCHANGED <<rooms, asked, appointed, blind, shortened>> /\ users[u].conn
    BY <1>0 DEF Cloak, InRoom
  <1>2. /\ users' \in [Slots -> Clients] /\ \A s \in Slots \ {u} : users'[s] = users[s]
        /\ users'[u] = [users[u] EXCEPT !.cloak = ~users[u].cloak]
    <2>1. [users[u] EXCEPT !.cloak = ~users[u].cloak] \in Clients
      BY <1>0 DEF Clients
    <2> QED BY <1>0, <1>1, <2>1
  <1>3. /\ users'[u].conn = users[u].conn /\ users'[u].room = users[u].room
        /\ users'[u].userid = users[u].userid /\ users'[u].op = users[u].op
        /\ users'[u].chatid = users[u].chatid
    BY <1>0, <1>2 DEF Clients
  <1>4. Ruled(users', appointed')
    BY <1>1, <1>2, <1>3 DEF IInv, Good, Ruled, In
  <1>5. blind' \in BOOLEAN /\ appointed' \in SUBSET Rooms
    BY <1>1 DEF IInv, Good
  <1>6. blind' \/ Named(users', shortened)
    BY <1>1, <1>2, <1>3 DEF IInv, Distinct, Named
  <1> QED BY <1>1, <1>2, <1>3, <1>4, <1>5, <1>6, StaySafe

LEMMA MakeOpSafe ==
  ASSUME IInv, NEW u \in Slots, NEW cid, MakeOp(u, cid)
  PROVE  IInv' /\ Admission
  <1> USE Constants
  <1>0. users \in [Slots -> Clients]
    BY DEF IInv, Good
  <1>1. PICK v \in ChatidToIndx(u, cid) \ {u} :
          /\ users[v].room = users[u].room
          /\ users' = [users EXCEPT ![u].op = FALSE, ![v].op = TRUE]
          /\ appointed' = appointed \cup {r \in {users[u].room} : ~Roomop(u)}
    BY DEF MakeOp
  <1>2. v \in Slots /\ users[v].conn /\ users[u].conn /\ v # u
        /\ users[u].room \in Rooms /\ UNCHANGED <<rooms, asked, blind, shortened>>
    BY <1>0, <1>1 DEF MakeOp, InRoom, ChatidToIndx, First, Clients
  <1>3. /\ users' \in [Slots -> Clients] /\ \A s \in Slots \ {u, v} : users'[s] = users[s]
        /\ users'[u] = [users[u] EXCEPT !.op = FALSE]
        /\ users'[v] = [users[v] EXCEPT !.op = TRUE]
    <2>1. [users[u] EXCEPT !.op = FALSE] \in Clients /\ [users[v] EXCEPT !.op = TRUE] \in Clients
      BY <1>0, <1>2 DEF Clients
    <2>2. users' = [[users EXCEPT ![u] = [users[u] EXCEPT !.op = FALSE]]
                      EXCEPT ![v] = [users[v] EXCEPT !.op = TRUE]]
      BY ONLY <1>0, <1>1, <1>2, u \in Slots DEF Clients
    <2> QED BY <1>0, <1>2, <2>1, <2>2
  <1>4. /\ users'[u].conn = users[u].conn /\ users'[u].room = users[u].room
        /\ users'[u].userid = users[u].userid /\ users'[u].chatid = users[u].chatid
        /\ users'[u].op = FALSE
        /\ users'[v].conn = users[v].conn /\ users'[v].room = users[v].room
        /\ users'[v].userid = users[v].userid /\ users'[v].chatid = users[v].chatid
    <2> DEFINE c == users[u]
               d == users[v]
    <2>1. c \in Clients /\ d \in Clients
      BY <1>0, <1>2
    <2>2. users'[u] = [c EXCEPT !.op = FALSE] /\ users'[v] = [d EXCEPT !.op = TRUE]
      BY <1>3
    <2> HIDE DEF c, d
    <2>3. /\ users'[u].conn = c.conn /\ users'[u].room = c.room /\ users'[u].userid = c.userid
          /\ users'[u].chatid = c.chatid /\ users'[u].op = FALSE
      BY ONLY <2>1, <2>2 DEF Clients
    <2>4. /\ users'[v].conn = d.conn /\ users'[v].room = d.room /\ users'[v].userid = d.userid
          /\ users'[v].chatid = d.chatid
      BY ONLY <2>1, <2>2 DEF Clients
    <2> QED BY <2>3, <2>4 DEF c, d
  <1>5. \A s \in Slots : /\ users'[s].conn = users[s].conn /\ users'[s].room = users[s].room
                        /\ users'[s].userid = users[s].userid /\ users'[s].chatid = users[s].chatid
                        /\ (~users[s].conn => users'[s] = users[s])
    BY <1>2, <1>3, <1>4
  <1>6. appointed' \in SUBSET Rooms /\ blind' \in BOOLEAN
    BY <1>1, <1>2 DEF IInv, Good
  <1>7. blind' \/ Named(users', shortened)
    BY <1>2, <1>5 DEF IInv, Distinct, Named
  <1>8. Ruled(users', appointed')
    <2> SUFFICES ASSUME NEW r \in Rooms \ appointed', NEW s \in Slots, NEW t \in Slots,
                        s \in In(users', r), t \in In(users', r), users'[s].op, users'[t].op
                 PROVE  r # 0 /\ s = t
      BY Zenon DEF Ruled
    <2>1. r \in Rooms \ appointed /\ s \in In(users, r) /\ t \in In(users, r) /\ s # u /\ t # u
      BY <1>1, <1>4, <1>5 DEF In
    <2>2. CASE r # users[u].room
      <3>1. s # v /\ t # v
        BY <1>1, <2>1, <2>2 DEF In
      <3> QED BY <1>3, <2>1, <3>1 DEF IInv, Good, Ruled
    <2>3. CASE r = users[u].room
      <3>1. users[u].op /\ u \in In(users, r)
        BY <1>1, <1>2, <2>3 DEF Roomop, In
      <3>2. r # 0 /\ \A w \in Slots : w \in In(users, r) /\ users[w].op => w = u
        BY <2>1, <3>1 DEF IInv, Good, Ruled
      <3> QED BY <1>3, <2>1, <3>2
    <2> QED BY <2>2, <2>3
  <1> QED BY <1>2, <1>3, <1>5, <1>6, <1>7, <1>8, StaySafe

\* Who loses his right in ClearOp and ClearOps: those in S.
LEMMA ClearSafe ==
  ASSUME IInv, NEW S \in SUBSET Slots, \A s \in S : users[s].conn,
         users' = [s \in Slots |-> IF s \in S THEN [users[s] EXCEPT !.op = FALSE] ELSE users[s]],
         UNCHANGED <<rooms, asked, appointed, blind, shortened>>
  PROVE  IInv' /\ Admission
  <1>0. users \in [Slots -> Clients]
    BY DEF IInv, Good
  <1>1. ASSUME NEW s \in Slots
        PROVE  /\ users'[s] \in Clients
               /\ users'[s].conn = users[s].conn /\ users'[s].room = users[s].room
               /\ users'[s].userid = users[s].userid /\ users'[s].chatid = users[s].chatid
               /\ (users'[s] = users[s] \/ users'[s].op = FALSE)
               /\ (~users[s].conn => users'[s] = users[s])
    <2>1. CASE s \in S
      <3> DEFINE c == users[s]
                 d == users'[s]
      <3>1. c \in Clients /\ d = [c EXCEPT !.op = FALSE] /\ c.conn
        BY <1>0, <2>1
      <3> HIDE DEF c, d
      <3>2. /\ d \in Clients /\ d.conn = c.conn /\ d.room = c.room /\ d.userid = c.userid
            /\ d.chatid = c.chatid /\ d.op = FALSE
        BY ONLY <3>1 DEF Clients
      <3> QED BY <3>1, <3>2 DEF c, d
    <2>2. CASE s \notin S
      BY <1>0, <2>2
    <2> QED BY <2>1, <2>2
  <1>2. users' \in [Slots -> Clients]
    BY <1>1
  <1>3. blind' \in BOOLEAN /\ appointed' \in SUBSET Rooms
    BY DEF IInv, Good
  <1>4. blind' \/ Named(users', shortened)
    BY <1>1 DEF IInv, Distinct, Named
  <1>5. Ruled(users', appointed')
    <2> SUFFICES ASSUME NEW r \in Rooms \ appointed', NEW s \in Slots, NEW t \in Slots,
                        s \in In(users', r), t \in In(users', r), users'[s].op, users'[t].op
                 PROVE  r # 0 /\ s = t
      BY Zenon DEF Ruled
    <2>1. users'[s] = users[s] /\ users'[t] = users[t]
      BY <1>1
    <2> QED BY <2>1 DEF In, IInv, Good, Ruled
  <1> QED BY <1>1, <1>2, <1>3, <1>4, <1>5, StaySafe

LEMMA ClearOpsSafe ==
  ASSUME IInv, NEW u \in Slots, ClearOps(u)
  PROVE  IInv' /\ Admission
  <1> DEFINE S == {s \in Slots : /\ users[s].conn /\ users[s].room = users[u].room
                                 /\ users[s].userid \notin Exempt}
  <1>1. /\ users' = [s \in Slots |-> IF s \in S THEN [users[s] EXCEPT !.op = FALSE] ELSE users[s]]
        /\ UNCHANGED <<rooms, asked, appointed, blind, shortened>>
    BY DEF ClearOps
  <1>2. S \in SUBSET Slots /\ \A s \in S : users[s].conn
    OBVIOUS
  <1> HIDE DEF S
  <1> QED BY <1>1, <1>2, ClearSafe

LEMMA ClearOpSafe ==
  ASSUME IInv, NEW u \in Slots, NEW cid, ClearOp(u, cid)
  PROVE  IInv' /\ Admission
  <1>1. PICK v \in ChatidToIndx(u, cid) \ {u} : users' = [users EXCEPT ![v].op = FALSE]
    BY DEF ClearOp
  <1>2. v \in Slots /\ users[v].conn /\ UNCHANGED <<rooms, asked, appointed, blind, shortened>>
    BY <1>1 DEF ChatidToIndx, First, ClearOp
  <1>3. users \in [Slots -> Clients]
    BY DEF IInv, Good
  <1> DEFINE S == {v}
  <1>4. users' = [s \in Slots |-> IF s \in S THEN [users[s] EXCEPT !.op = FALSE] ELSE users[s]]
    <2>1. users' = [users EXCEPT ![v] = [users[v] EXCEPT !.op = FALSE]]
      BY <1>1
    <2> QED BY <1>3, <2>1
  <1>5. S \in SUBSET Slots /\ \A s \in S : users[s].conn
    BY <1>2
  <1> HIDE DEF S
  <1> QED BY <1>2, <1>4, <1>5, ClearSafe

LEMMA InviteSafe ==
  ASSUME IInv, NEW u \in Slots, NEW cid, Invite(u, cid)
  PROVE  IInv' /\ Admission
  <1>0. users \in [Slots -> Clients] /\ rooms \in [Rooms -> ChatRooms] /\ asked \in Books
    BY DEF IInv, Good
  <1> DEFINE q == users[u].room
             c == rooms[q]
  <1>1. PICK v \in ChatidToIndx(u, cid) :
          /\ rooms' = [rooms EXCEPT ![q].invites = @ \cup {v}]
          /\ asked' = [asked EXCEPT ![q] = @ \cup {v}]
    BY DEF Invite
  <1>2. v \in Slots /\ users[v].conn /\ UNCHANGED <<users, appointed, blind, shortened>> /\ q \in Rooms
    BY <1>0, <1>1 DEF ChatidToIndx, First, Invite, InRoom, Clients
  <1>3. rooms' = [rooms EXCEPT ![q] = [c EXCEPT !.invites = c.invites \cup {v}]] /\ c \in ChatRooms
    BY <1>0, <1>1, <1>2
  <1> HIDE DEF q
  <1>4. /\ rooms'[q] \in ChatRooms /\ rooms'[q].occupants = c.occupants
        /\ rooms'[q].invites = c.invites \cup {v}
    <2> DEFINE d == rooms'[q]
               I == c.invites \cup {v}
    <2>1. d = [c EXCEPT !.invites = I]
      BY <1>0, <1>2, <1>3
    <2>2. I \in SUBSET Slots
      BY <1>2, <1>3 DEF ChatRooms
    <2> HIDE DEF c, d, I
    <2>3. d \in ChatRooms /\ d.occupants = c.occupants /\ d.invites = I
      BY ONLY <1>3, <2>1, <2>2 DEF ChatRooms
    <2> QED BY <2>3 DEF d, I
  <1>5. \A r \in Rooms \ {q} : rooms'[r] = rooms[r]
    BY <1>0, <1>2, <1>3
  <1>6. rooms' \in [Rooms -> ChatRooms]
    BY <1>0, <1>2, <1>3, <1>4
  <1>7. /\ asked' \in Books /\ asked'[q] = asked[q] \cup {v}
        /\ \A r \in Rooms \ {q} : asked'[r] = asked[r]
    BY <1>0, <1>1, <1>2 DEF Books
  <1>8. Counted(users', rooms')
    BY <1>2, <1>4, <1>5 DEF IInv, Good, Counted
  <1>9. FreeSlots(users', rooms')
    BY <1>2, <1>4, <1>5 DEF IInv, Good, FreeSlots
  <1>10. Invited(rooms', asked')
    <2> SUFFICES ASSUME NEW r \in Rooms PROVE rooms'[r].invites \subseteq asked'[r]
      BY DEF Invited
    <2>1. rooms[r].invites \subseteq asked[r]
      BY DEF IInv, Good, Invited
    <2>2. CASE r # q
      BY <1>5, <1>7, <2>1, <2>2
    <2>3. CASE r = q
      BY <1>4, <1>7, <2>1, <2>3
    <2> QED BY <2>2, <2>3
  <1>11. IInv'
    BY <1>2, <1>6, <1>7, <1>8, <1>9, <1>10 DEF IInv, Good
  <1>12. Admission
    BY <1>2, NoneCame
  <1> QED BY <1>11, <1>12

LEMMA LoginSafe ==
  ASSUME IInv, NEW u \in Slots, NEW id \in Userids, NEW cid \in Chatids, Login(u, id, cid)
  PROVE  IInv' /\ Admission
  <1> USE Constants
  <1>0. /\ users \in [Slots -> Clients] /\ rooms \in [Rooms -> ChatRooms] /\ asked \in Books
        /\ users[u].conn /\ users[u].room = NoRoom /\ Main \in Names
    BY ChatAssumption DEF IInv, Good, Login
  <1>1. CASE Logout(users, rooms, u) /\ UNCHANGED <<blind, shortened>>
    BY <1>0, <1>1, LogoutSafe
  <1> DEFINE uid == StoredId[id]
             kept == StoredChat[cid]
             them(level, cloak) ==
               [users EXCEPT ![u].userid = uid, ![u].chatid = kept, ![u].cloak = cloak,
                             ![u].perms = level \ {"chat"}, ![u].op = "chat" \in level]
  <1>2. CASE /\ \A s \in Slots : users[s].conn => users[s].userid # id
             /\ ChatidToIndx(1, cid) = {}
             /\ \E level \in Levels[id], cloak \in BOOLEAN :
                  EnterRoom(them(level, cloak), rooms, u, Main)
             /\ blind' = (blind \/ Overlooks(u))
             /\ shortened' = shortened \cup ({uid} \ {id}) \cup ({kept} \ {cid})
    <2>1. PICK level \in Levels[id] : \E cloak \in BOOLEAN : EnterRoom(them(level, cloak), rooms, u, Main)
      BY <1>2
    <2>2. PICK cloak \in BOOLEAN : EnterRoom(them(level, cloak), rooms, u, Main)
      BY <2>1
    <2> DEFINE P == level \ {"chat"}
               o == "chat" \in level
               us == them(level, cloak)
    <2>3. P \in SUBSET Perms /\ o \in BOOLEAN /\ uid \in Userids /\ kept \in Chatids
      BY ChatAssumption
    <2>4. EnterRoom(us, rooms, u, Main)
      BY <2>2
    <2>5. /\ us \in [Slots -> Clients] /\ (\A s \in Slots \ {u} : us[s] = users[s])
          /\ us[u].conn /\ us[u].room = NoRoom /\ us[u].userid = uid /\ us[u].chatid = kept
      <3> DEFINE c == users[u]
                 d == [c EXCEPT !.userid = uid, !.chatid = kept, !.cloak = cloak, !.perms = P, !.op = o]
      <3>1. c \in Clients /\ c.conn /\ c.room = NoRoom
        BY <1>0
      <3> HIDE DEF P, o, c, uid, kept
      <3>2. us = [users EXCEPT ![u] = d]
        BY ONLY <1>0, u \in Slots DEF c, Clients, P, o
      <3>3. /\ d \in Clients /\ d.conn = c.conn /\ d.room = c.room /\ d.userid = uid /\ d.chatid = kept
        BY ONLY <2>3, <3>1, cloak \in BOOLEAN DEF Clients
      <3> HIDE DEF d, us
      <3> QED BY <1>0, <3>1, <3>2, <3>3
    <2> HIDE DEF us, P, o, them
    <2>6. Good(us, rooms, asked, appointed)
      <3>1. \A r \in Rooms : In(us, r) = In(users, r) /\ u \notin In(us, r)
        BY <1>0, <2>5 DEF In
      <3>2. Counted(us, rooms) /\ FreeSlots(us, rooms)
        BY <2>5, <3>1 DEF IInv, Good, Counted, FreeSlots
      <3>3. Ruled(us, appointed)
        BY <2>5, <3>1 DEF IInv, Good, Ruled
      <3> QED BY <2>5, <3>2, <3>3 DEF IInv, Good
    <2>7. /\ Good(users', rooms', asked', appointed') /\ Moved(us, users', u)
          /\ \A r \in Rooms : \/ Admitted(us, rooms, asked, u, r)
                              \/ users'[u].room # r \/ us[u].room = r
      BY <1>0, <2>4, <2>5, <2>6, EnterGood
    <2>8. /\ shortened \subseteq shortened' /\ shortened' \subseteq Userids \cup Chatids
          /\ (uid # id => uid \in shortened') /\ (kept # cid => kept \in shortened')
      BY <1>2, <2>3 DEF IInv
    <2> HIDE DEF uid, kept
    <2>9. Apart(us, shortened')
      <3>1. ASSUME NEW s \in Slots \ {u}, users[s].userid = uid PROVE uid \in shortened'
        <4>1. users[s].conn
          BY <2>3, <3>1 DEF IInv, Good, FreeSlots, Nobody
        <4> QED BY <1>2, <2>8, <3>1, <4>1
      <3>2. Apart(users, shortened)
        BY DEF IInv, Distinct
      <3> QED BY <2>5, <2>8, <3>1, <3>2 DEF Apart
    <2>10. blind' \/ Named(us, shortened')
      <3> SUFFICES ASSUME ~blind, ~Overlooks(u)
                   PROVE  Named(us, shortened')
        BY <1>2
      <3> DEFINE S == {s \in Slots : /\ users[s].conn /\ users[s].chatid = cid
                                     /\ ~users[s].cloak \/ "seecloak" \notin users[1].perms}
      <3>1. First(S) = {}
        BY <1>2 DEF ChatidToIndx
      <3>2. ASSUME NEW s \in Slots \ {u}, users[s].chatid = kept PROVE kept \in shortened'
        <4> SUFFICES ASSUME kept = cid PROVE FALSE
          BY <2>8
        <4>1. users[s].conn
          BY <2>3, <3>2 DEF IInv, Good, FreeSlots, Nobody
        <4>2. s \in S
          BY <3>2, <4>1 DEF Overlooks
        <4> QED BY <3>1, <4>2, FirstIn
      <3>3. Named(users, shortened)
        BY DEF IInv, Distinct
      <3> HIDE DEF S
      <3> QED BY <2>5, <2>8, <3>2, <3>3 DEF Named
    <2>11. IInv'
      <3>1. blind' \in BOOLEAN
        BY <1>2 DEF IInv
      <3>2. Distinct(us, blind', shortened')
        BY <2>9, <2>10 DEF Distinct
      <3>3. Distinct(users', blind', shortened')
        BY <2>7, <3>2, DistinctMoved
      <3> QED BY <2>7, <2>8, <3>1, <3>3 DEF IInv
    <2>12. Admission
      <3> SUFFICES ASSUME NEW s \in Slots, NEW r \in Rooms,
                          users'[s].room = r, users[s].room # r,
                          r = 0 \/ rooms[r].occupants # 0, rooms[r].locked
                   PROVE  users'[s].perms \cap {"sysop", "chatop"} # {} \/ s \in asked[r]
        BY DEF Admission
      <3>1. s = u
        BY <2>5, <2>7 DEF Moved
      <3>2. us[u].perms \cap {"sysop", "chatop"} # {} \/ u \in asked[r]
        BY <2>5, <2>7, <3>1 DEF Admitted
      <3>3. users'[u].perms = us[u].perms
        BY <2>7 DEF Moved
      <3> QED BY <3>1, <3>2, <3>3
    <2> QED BY <2>11, <2>12
  <1> QED BY <1>1, <1>2 DEF Login

-----------------------------------------------------------------------------
LEMMA InitIInv == Init => IInv
  <1> SUFFICES ASSUME Init PROVE IInv
    OBVIOUS
  <1> USE Constants
  <1>1. Nobody \in Clients /\ EmptyRoom(Main) \in ChatRooms
    BY ChatAssumption DEF Nobody, Clients, EmptyRoom, ChatRooms
  <1>2. \A s \in Slots : users[s] = Nobody /\ ~users[s].conn
    BY DEF Init, Nobody
  <1>3. \A r \in Rooms : In(users, r) = {} /\ rooms[r].occupants = 0 /\ rooms[r].invites = {}
    BY <1>2 DEF In, Init, EmptyRoom
  <1>4. Counted(users, rooms) /\ Ruled(users, appointed)
    BY <1>3, FS_EmptySet DEF Counted, Ruled
  <1>5. FreeSlots(users, rooms) /\ Invited(rooms, asked)
    BY <1>2, <1>3 DEF FreeSlots, Invited
  <1>6. Distinct(users, blind, shortened)
    BY <1>2 DEF Distinct, Apart, Named, Nobody
  <1>7. users \in [Slots -> Clients] /\ rooms \in [Rooms -> ChatRooms] /\ asked \in Books
        /\ appointed \subseteq Rooms /\ blind \in BOOLEAN
        /\ shortened = {}
    BY <1>1 DEF Init, Books
  <1> QED BY <1>4, <1>5, <1>6, <1>7 DEF IInv, Good

LEMMA CommandSafe ==
  ASSUME IInv, NEW u \in Slots, Command(u)
  PROVE  IInv' /\ Admission
  <1>1. CASE Goodbye(u)
    BY <1>1, GoodbyeSafe
  <1>2. CASE Cloak(u)
    BY <1>2, CloakSafe
  <1>3. CASE ClearOps(u)
    BY <1>3, ClearOpsSafe
  <1>4. CASE \E name \in Names : Join(u, name)
    BY <1>4, JoinSafe
  <1>5. CASE \E lock \in BOOLEAN : SetRoom(u, lock)
    BY <1>5, SetRoomSafe
  <1>6. CASE \E cid \in Chatids : Nick(u, cid)
    BY <1>6, NickSafe
  <1>7. CASE \E cid \in Chatids : Kick(u, cid)
    BY <1>7, KickSafe
  <1>8. CASE \E cid \in Chatids : MakeOp(u, cid)
    BY <1>8, MakeOpSafe
  <1>9. CASE \E cid \in Chatids : ClearOp(u, cid)
    BY <1>9, ClearOpSafe
  <1>10. CASE \E cid \in Chatids \cup {NoId} : Invite(u, cid)
    BY <1>10, InviteSafe
  <1> QED BY <1>1, <1>2, <1>3, <1>4, <1>5, <1>6, <1>7, <1>8, <1>9, <1>10 DEF Command

LEMMA NextSafe == IInv /\ Next => IInv' /\ Admission
  <1> SUFFICES ASSUME IInv, Next PROVE IInv' /\ Admission
    OBVIOUS
  <1>1. CASE Connect
    BY <1>1, ConnectSafe
  <1>2. ASSUME NEW u \in Slots, Disconnect(u) PROVE IInv' /\ Admission
    BY <1>2, DisconnectSafe
  <1>3. ASSUME NEW u \in Slots, WrongLine(u) PROVE IInv' /\ Admission
    BY <1>3, LogoutSafe DEF WrongLine
  <1>4. ASSUME NEW u \in Slots, Command(u) PROVE IInv' /\ Admission
    BY <1>4, CommandSafe
  <1>5. ASSUME NEW u \in Slots, NEW id \in Userids, NEW cid \in Chatids, Login(u, id, cid)
        PROVE  IInv' /\ Admission
    BY <1>5, LoginSafe
  <1> QED BY <1>1, <1>2, <1>3, <1>4, <1>5 DEF Next

LEMMA StutterSafe == IInv /\ UNCHANGED vars => IInv' /\ Admission
  BY DEF vars, IInv, Admission

LEMMA Invariance == Spec => []IInv
  <1>1. IInv /\ [Next]_vars => IInv'
    BY NextSafe, StutterSafe
  <1> QED BY InitIInv, <1>1, PTL DEF Spec

LEMMA IInvTables == IInv => TablesAgree
  <1> SUFFICES ASSUME IInv PROVE TablesAgree
    OBVIOUS
  <1> USE Constants
  <1>1. \A r \in Rooms : rooms[r].occupants = Cardinality(Occupants(r))
    BY DEF IInv, Good, Counted, In, Occupants
  <1>2. \A r \in Rooms : rooms[r].occupants \in 0 .. NSlots
    BY InFinite DEF IInv, Good, Counted
  <1>3. rooms \in [Rooms -> [name: {Stored[n] : n \in Names}, occupants: 0 .. NSlots,
                          locked: BOOLEAN, invites: SUBSET Slots]]
    <2>1. ASSUME NEW r \in Rooms
          PROVE  rooms[r] \in [name: {Stored[n] : n \in Names}, occupants: 0 .. NSlots,
                               locked: BOOLEAN, invites: SUBSET Slots]
      <3>1. rooms[r] \in ChatRooms
        BY DEF IInv, Good
      <3> QED BY <1>2, <3>1 DEF ChatRooms
    <2> QED BY <2>1 DEF IInv, Good
  <1>4. TypeOK
    BY <1>3 DEF TypeOK, IInv, Good, Clients, Books
  <1>5. \A u \in Slots : ~users[u].conn => /\ users[u] = Nobody
                                          /\ \A r \in Rooms : u \notin rooms[r].invites
    BY DEF IInv, Good, FreeSlots
  <1>6. \A u, v \in Slots : users[u].userid = users[v].userid =>
                             u = v \/ users[u].userid \in {NoId} \cup shortened
    BY DEF IInv, Distinct, Apart
  <1> QED BY <1>1, <1>4, <1>5, <1>6 DEF TablesAgree

LEMMA IInvOneOp == IInv => OneOp
  <1> SUFFICES ASSUME IInv, NEW r \in Rooms \ appointed
               PROVE  Cardinality({u \in Occupants(r) : users[u].op}) <= (IF r = 0 THEN 0 ELSE 1)
    BY DEF OneOp
  <1> DEFINE S == {u \in Occupants(r) : users[u].op}
  <1>1. \A s, t \in S : r # 0 /\ s = t
    BY DEF IInv, Good, Ruled, In, Occupants
  <1>2. CASE S = {}
    <2>1. Cardinality(S) = 0
      BY <1>2, FS_EmptySet
    <2> QED BY <2>1
  <1>3. CASE S # {}
    <2>1. PICK s : s \in S
      BY <1>3
    <2>2. S = {s} /\ r # 0
      BY <1>1, <2>1
    <2>3. Cardinality(S) = 1
      BY <2>2, FS_Singleton
    <2> QED BY <2>2, <2>3
  <1> QED BY <1>2, <1>3

LEMMA IInvChatids == IInv => ChatidsUnique
  BY DEF IInv, Distinct, Named, ChatidsUnique

-----------------------------------------------------------------------------
(* The theorems. *)

\* The two tables of the daemon agree after every line: the count that keeps a
\* room open is the number of those in it, a free slot keeps nothing, and a
\* userid is in once if no login was given a longer one that is cut to it.
THEOREM TablesAlwaysAgree == Spec => []TablesAgree
  BY Invariance, IInvTables, PTL

\* A room has at most one operator, and the main room none, unless a sysop or
\* chatop appointed one.
THEOREM OneOpAlways == Spec => []OneOp
  BY Invariance, IInvOneOp, PTL

\* Two clients have one chatid only if slot 1 overlooked a cloaked user or a
\* login cut a longer one to it.
THEOREM ChatidsStayUnique == Spec => []ChatidsUnique
  BY Invariance, IInvChatids, PTL

\* Only masters and connections that were asked in come into a locked room.
THEOREM LocksHold == Spec => LockHolds
  <1>1. IInv /\ [Next]_vars => [Admission]_vars
    BY NextSafe
  <1> QED BY Invariance, <1>1, PTL DEF Spec, LockHolds
=============================================================================
