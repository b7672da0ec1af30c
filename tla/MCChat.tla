------------------------------- MODULE MCChat -------------------------------
(* Chat on a few slots: a sysop who may cloak himself, a member who comes with
   the permission that means operator in here, and one without any.  "along", "bobb" and
   "xx" are names that are cut when they are stored. *)
EXTENDS Chat, TLC

MCLevels == "boss" :> {{"sysop", "seecloak", "chat"}}
              @@ "bob" :> {{"chat", "other"}} @@ "bobb" :> {{}}
MCUserids == DOMAIN MCLevels
MCStored == "main" :> "main" @@ "alon" :> "alon" @@ "along" :> "alon"
MCStoredId == [id \in MCUserids |-> IF id = "bobb" THEN "bob" ELSE id]
MCStoredChat == "x" :> "x" @@ "y" :> "y" @@ "xx" :> "x"
MCChatids == DOMAIN MCStoredChat

\* What a closed room was called, who was asked into it and how it was locked
\* is overwritten when it is opened again; once blind, nothing is asked of
\* chatids any more.
Closed(r) == r # 0 /\ rooms[r].occupants = 0
RoomsInUse ==
  <<users, [r \in Rooms |-> IF Closed(r) THEN EmptyRoom(Main) ELSE rooms[r]],
    [r \in Rooms |-> IF Closed(r) THEN {} ELSE asked[r]], appointed \ {r \in Rooms : Closed(r)},
    blind, IF blind THEN shortened \ Chatids ELSE shortened>>
=============================================================================
