--------------------------- MODULE MCNameLists ---------------------------
(* Three users, the id of one ending in the id of another, and two clubs   *)
(* whose numbers do so too.                                                *)
EXTENDS NameLists

MCUsers == {"amy", "bob", "xbob"}
MCSpelling == [u \in MCUsers |-> IF u = "xbob" THEN <<"x", "bob">> ELSE <<u>>]
MCStarts == {<<"bob">>, <<"bob", "amy">>, <<"xbob", "amy", "bob">>}
MCClub == <<"1">>
MCOther == <<"2", "1">>
MCPaths == {"deny_users", "club_users"} \cup MCUsers
MCProcs == Managers \cup Sessions
MCMaxJobs == [club |-> 2, deny |-> 2]
MCMaxTime == [club |-> 2, deny |-> 3]
==========================================================================
