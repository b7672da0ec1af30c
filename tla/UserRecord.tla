----------------------------- MODULE UserRecord -----------------------------
(***************************************************************************)
(* The record of one user in PASSFILE (struct userec).  It is always read  *)
(* and written whole, with no lock from the one to the other.  A window, a *)
(* bbs process of the user on telnet, keeps a copy for as long as it       *)
(* lives, reloads a few fields of it before most of its saves              *)
(* (set_safe_record) and saves all of it.  The others, a CGI, a worker of  *)
(* the API or a manager's process, read the record, work and write it.     *)
(*                                                                         *)
(* Four fields stand for the kinds there are.  passwd: what only the owner *)
(* or a manager edits in a dialogue, the names and addresses included;     *)
(* define: userdefine; level: userlevel, which managers change and windows *)
(* reload; posts: numposts, which everybody counts.  The other fields that *)
(* windows reload (stay, numlogins, lastlogin) are counted like posts, and *)
(* a login or a logout writes the whole record for their sake.             *)
(***************************************************************************)
EXTENDS Integers

CONSTANTS Windows,     \* bbs processes of the user
          Others,      \* web and API requests, and bbs processes of managers
          Perms,       \* bits of userlevel
          Options,     \* bits of userdefine
          InitPosts,   \* numposts to begin with
          MaxOps       \* bound on operations and logins

ASSUME UserRecordAssumption ==
  /\ Windows \cap Others = {}
  /\ InitPosts \in Nat /\ MaxOps \in Nat

VARIABLES
  rec,       \* the record in PASSFILE
  cur,       \* cur[w]: currentuser, the copy of a window
  stage,     \* stage[w]: where a window is between login and exit
  polite,    \* polite[w]: it leaves by Q_Goodbye, not by abort_bbs
  saving,    \* saving[p]: what a process is about to save
  ops,       \* operations begun
  chosen,    \* history: the last password set
  alone,     \* history: nobody else had a copy when it was set
  spoilt     \* history: <<f, k>>, save k put an old value back into field f

recordVars == <<rec, cur, stage, polite, saving, ops, chosen, alone, spoilt>>

Procs  == Windows \cup Others
Fields == {"passwd", "define", "level", "posts"}
Stages == {"out", "entering", "in", "flags", "logout", "bye"}

\* The saves of a window's copy after set_safe_record, those of its copy as it
\* is, and those of a record that was read from the file.
Guarded == {"enter", "post", "delete", "announce", "flags", "bye"}
Bare    == {"cloak", "info"}
Fresh   == {"login", "logout", "define", "webpost", "webdel", "password",
            "parm", "level", "reset", "purge"}
Kinds   == Guarded \cup Bare \cup Fresh

Record == [passwd : Nat, define : SUBSET Options, level : SUBSET Perms, posts : Nat]
NewRecord == [passwd |-> 0, define |-> Options, level |-> Perms, posts |-> InitPosts]
NoSave == [kind |-> "none", copy |-> NewRecord, raced |-> FALSE]

RecordInit ==
  /\ rec = NewRecord
  /\ cur = [w \in Windows |-> NewRecord]
  /\ stage = [w \in Windows |-> "out"]
  /\ polite = [w \in Windows |-> FALSE]
  /\ saving = [p \in Procs |-> NoSave]
  /\ ops = 0 /\ chosen = 0 /\ alone = TRUE
  /\ spoilt = {}

-----------------------------------------------------------------------------
(* What the saves change *)

More(r)      == [r EXCEPT !.posts = @ + 1]
Fewer(r)     == [r EXCEPT !.posts = IF @ > 0 THEN @ - 1 ELSE 0]
Repass(r)    == [r EXCEPT !.passwd = chosen + 1]
Flip(r, b)   == [r EXCEPT !.level = (@ \ {b}) \cup ({b} \ @)]
Switch(r, o) == [r EXCEPT !.define = (@ \ {o}) \cup ({o} \ @)]

\* Mutant of SafeRecord: userlevel is not among the fields that are reloaded.
SafeRecordNoLevel(c) == [c EXCEPT !.posts = rec.posts]

\* set_safe_record: the fields that come from the file; the rest is kept.
SafeRecord(c) == [c EXCEPT !.level = rec.level, !.posts = rec.posts]

Idle(p) == saving[p].kind = "none"
At(w, s) == stage[w] = s

Begin(p, k, c) ==
  /\ Idle(p)
  /\ saving' = [saving EXCEPT ![p] = [kind |-> k, copy |-> c, raced |-> FALSE]]

Count == ops < MaxOps /\ ops' = ops + 1

\* The file gets new; want is what the same change of the record that is there
\* now would give.
Put(k, new, want) ==
  /\ rec' = new
  /\ spoilt' = spoilt \cup {<<f, k>> : f \in {g \in Fields : new[g] # want[g]}}

Raced(p) == IF saving[p].raced THEN "race" ELSE saving[p].kind

\* substitute_record(PASSFILE, ...) at the end of p's job k.  Whoever holds a
\* record he is about to save now holds an old one.
Save(p, k, new, want) ==
  /\ saving[p].kind = k
  /\ Put(Raced(p), new, want)
  /\ saving' = [q \in Procs |->
               IF q = p THEN NoSave
               ELSE [saving[q] EXCEPT !.raced = @ \/ (saving[q].kind # "none" /\ new # rec)]]

\* A new password: is there anybody else with a copy of the record?
SetPassword(p) ==
  /\ chosen' = chosen + 1
  /\ alone' = \A q \in Procs \ {p} : Idle(q) /\ (q \in Windows => At(q, "out"))

KeepPassword == UNCHANGED <<chosen, alone>>

\* A window's set_safe_record, and the save that follows it.
Reload(w, k) ==
  /\ Begin(w, k, SafeRecord(cur[w]))
  /\ cur' = [cur EXCEPT ![w] = SafeRecord(@)]
  /\ UNCHANGED <<rec, spoilt>>

Rewrite(w, k, new, want) ==
  /\ Save(w, k, new, want)
  /\ cur' = [cur EXCEPT ![w] = new]

-----------------------------------------------------------------------------
(* A window from login to exit *)

GoTo(w, s) == stage' = [stage EXCEPT ![w] = s]

\* ythtbbs_user_login reads the record, checks it, and writes it with the
\* time of this login; login_query takes it as currentuser.
Login(w) ==
  /\ At(w, "out")
  /\ \/ Begin(w, "login", rec) /\ Count /\ UNCHANGED <<rec, cur, stage, spoilt>>
     \/ /\ Rewrite(w, "login", saving[w].copy, rec)
        /\ GoTo(w, "entering") /\ UNCHANGED ops
  /\ KeepPassword /\ UNCHANGED polite

\* user_login: greetings, then the record is saved once more.
Enter(w) ==
  /\ At(w, "entering")
  /\ \/ Reload(w, "enter") /\ UNCHANGED stage
     \/ Rewrite(w, "enter", saving[w].copy, rec) /\ GoTo(w, "in")
  /\ KeepPassword /\ UNCHANGED <<polite, ops>>

\* multi_user_check: one window too many, logged out before it has entered.
TurnAway(w) ==
  /\ At(w, "entering") /\ Idle(w)
  /\ GoTo(w, "logout") /\ polite' = [polite EXCEPT ![w] = FALSE]
  /\ KeepPassword /\ UNCHANGED <<rec, cur, saving, ops, spoilt>>

\* u_exit first saves the pager and cloak flags if they have changed.
Leave(w, nice) ==
  /\ \/ GoTo(w, "flags")
     \/ GoTo(w, "logout")
  /\ polite' = [polite EXCEPT ![w] = nice]
  /\ KeepPassword /\ UNCHANGED <<rec, cur, ops, spoilt>>

\* Q_Goodbye
Quit(w) == At(w, "in") /\ Idle(w) /\ Leave(w, TRUE) /\ UNCHANGED saving

\* abort_bbs on a lost connection, wherever the window was.
Abort(w) ==
  /\ stage[w] \in {"entering", "in"}
  /\ Leave(w, FALSE) /\ saving' = [saving EXCEPT ![w] = NoSave]

Flags(w) ==
  /\ At(w, "flags")
  /\ \/ Reload(w, "flags") /\ UNCHANGED stage
     \/ Rewrite(w, "flags", saving[w].copy, rec) /\ GoTo(w, "logout")
  /\ KeepPassword /\ UNCHANGED <<polite, ops>>

\* ythtbbs_user_logout adds to stay in the record it has read.
Logout(w) ==
  /\ At(w, "logout")
  /\ \/ Begin(w, "logout", rec) /\ UNCHANGED <<rec, stage, spoilt>>
     \/ /\ Save(w, "logout", saving[w].copy, rec)
        /\ GoTo(w, IF polite[w] THEN "bye" ELSE "out")
  /\ KeepPassword /\ UNCHANGED <<cur, polite, ops>>

\* Q_Goodbye saves the copy of the window for the last time.
Bye(w) ==
  /\ At(w, "bye")
  /\ \/ Reload(w, "bye") /\ UNCHANGED stage
     \/ Rewrite(w, "bye", saving[w].copy, rec) /\ GoTo(w, "out")
  /\ KeepPassword /\ UNCHANGED <<polite, ops>>

\* kill -9, by a second window of the user too (multi_user_check).
Kill(w) ==
  /\ stage[w] # "out"
  /\ GoTo(w, "out") /\ saving' = [saving EXCEPT ![w] = NoSave]
  /\ KeepPassword /\ UNCHANGED <<rec, cur, polite, ops, spoilt>>

-----------------------------------------------------------------------------
(* What a window does *)

\* post_article
Post(w) ==
  /\ \/ Reload(w, "post") /\ Count
     \/ Rewrite(w, "post", More(saving[w].copy), More(rec)) /\ UNCHANGED ops
  /\ KeepPassword

\* del_post of an own post; nothing is saved when the count is 0.
Delete(w) ==
  /\ \/ rec.posts > 0 /\ Reload(w, "delete") /\ Count
     \/ /\ rec.posts = 0 /\ Idle(w) /\ Count
        /\ cur' = [cur EXCEPT ![w] = SafeRecord(@)]
        /\ UNCHANGED <<rec, saving, spoilt>>
     \/ /\ Rewrite(w, "delete", Fewer(saving[w].copy), Fewer(rec))
        /\ UNCHANGED ops
  /\ KeepPassword

\* Read (boards.c): "never ask me again" clears a bit of userdefine.
Announce(w) ==
  /\ \E o \in Options :
       \/ o \in cur[w].define /\ Reload(w, "announce") /\ Count
       \/ /\ Rewrite(w, "announce", [saving[w].copy EXCEPT !.define = @ \ {o}],
                     [rec EXCEPT !.define = @ \ {o}])
          /\ UNCHANGED ops
  /\ KeepPassword

\* x_cloak saves the copy of the window as it is.
Cloak(w) ==
  /\ Idle(w) /\ Count
  /\ Put("cloak", cur[w], rec)
  /\ saving' = [q \in Procs |->
               [saving[q] EXCEPT !.raced = @ \/ (saving[q].kind # "none" /\ cur[w] # rec)]]
  /\ KeepPassword /\ UNCHANGED cur

\* Mutant of Edited: the window keeps what it had before the dialogue.
EditedNot(w) == SafeRecord(cur[w])

\* The edited copy becomes currentuser, some fields of which are reloaded.
Edited(w) == SafeRecord(Repass(saving[w].copy))

\* x_info: a copy of currentuser is edited, becomes currentuser, and is saved;
\* set_safe_record comes in between and reloads currentuser only.
Info(w) ==
  \/ Begin(w, "info", cur[w]) /\ Count /\ KeepPassword /\ UNCHANGED <<rec, cur, spoilt>>
  \/ /\ Save(w, "info", Repass(saving[w].copy), Repass(rec))
     /\ cur' = [cur EXCEPT ![w] = Edited(w)]
     /\ SetPassword(w) /\ UNCHANGED ops

\* x_userdefine edits and saves what getuser has read before the dialogue.
UserDefine(w) ==
  /\ \/ Begin(w, "define", rec) /\ Count /\ UNCHANGED <<rec, cur, spoilt>>
     \/ \E o \in Options :
          /\ Save(w, "define", Switch(saving[w].copy, o), Switch(rec, o))
          /\ cur' = [cur EXCEPT ![w].define = Switch(saving[w].copy, o).define]
          /\ UNCHANGED ops
  /\ KeepPassword

\* A dialogue that ends without a change.
Cancel(w) ==
  /\ saving[w].kind \in {"info", "define"}
  /\ saving' = [saving EXCEPT ![w] = NoSave]
  /\ KeepPassword /\ UNCHANGED <<rec, cur, ops, spoilt>>

InSession(w) ==
  /\ At(w, "in") /\ UNCHANGED <<stage, polite>>
  /\ \/ Post(w) \/ Delete(w) \/ Announce(w) \/ Cloak(w)
     \/ Info(w) \/ UserDefine(w) \/ Cancel(w)

-----------------------------------------------------------------------------
(* The others: read, work, write *)

Read(p, k) == Begin(p, k, rec) /\ Count /\ KeepPassword /\ UNCHANGED <<rec, spoilt>>

Write(p, k, new, want) == Save(p, k, new, want) /\ KeepPassword /\ UNCHANGED ops

\* A login or logout on the web or through the API.
WebLogin(p)  == Read(p, "login") \/ Write(p, "login", saving[p].copy, rec)
WebLogout(p) == Read(p, "logout") \/ Write(p, "logout", saving[p].copy, rec)

\* bbssnd and api_article_post; the record is read when the request begins.
WebPost(p) ==
  Read(p, "webpost") \/ Write(p, "webpost", More(saving[p].copy), More(rec))

\* bbsdel reads the record anew when the post is gone.
WebDelete(p) ==
  \/ rec.posts > 0 /\ Read(p, "webdel")
  \/ Write(p, "webdel", Fewer(saving[p].copy), Fewer(rec))

\* bbspwd and bbsresetpass
ChangePassword(p) ==
  \/ Read(p, "password")
  \/ Save(p, "password", Repass(saving[p].copy), Repass(rec)) /\ SetPassword(p) /\ UNCHANGED ops

\* bbsparm: the form has a box for every bit.
Parm(p) ==
  \/ Read(p, "parm")
  \/ \E d \in SUBSET Options :
       Write(p, "parm", [saving[p].copy EXCEPT !.define = d], [rec EXCEPT !.define = d])

\* x_level and x_denylevel change what getuser read before the dialogue.
ModifyLevel(p) ==
  \/ Read(p, "level")
  \/ \E b \in Perms : Write(p, "level", Flip(saving[p].copy, b), Flip(rec, b))

\* A manager sets the password of the user (uinfo_query with real = 1).
ResetPassword(p) ==
  \/ Read(p, "reset")
  \/ Save(p, "reset", Repass(saving[p].copy), Repass(rec)) /\ SetPassword(p) /\ UNCHANGED ops

\* delete_range takes a post from the count of its author, and saves in any case.
Purge(p) ==
  \/ Read(p, "purge")
  \/ Write(p, "purge", Fewer(saving[p].copy), Fewer(rec))

\* An error, a dialogue that is cancelled, a kill.
GiveUp(p) ==
  /\ ~Idle(p) /\ saving' = [saving EXCEPT ![p] = NoSave]
  /\ KeepPassword /\ UNCHANGED <<rec, ops, spoilt>>

Serve(p) ==
  /\ UNCHANGED <<cur, stage, polite>>
  /\ \/ WebLogin(p) \/ WebLogout(p) \/ WebPost(p) \/ WebDelete(p) \/ ChangePassword(p)
     \/ Parm(p) \/ ModifyLevel(p) \/ ResetPassword(p) \/ Purge(p) \/ GiveUp(p)

\* MaxOps is spent and everybody has gone.
Rest ==
  /\ ops = MaxOps /\ \A p \in Procs : Idle(p)
  /\ \A w \in Windows : At(w, "out")
  /\ UNCHANGED recordVars

RecordNext ==
  \/ \E w \in Windows :
       \/ Login(w) \/ Enter(w) \/ TurnAway(w) \/ InSession(w) \/ Quit(w) \/ Abort(w)
       \/ Flags(w) \/ Logout(w) \/ Bye(w) \/ Kill(w)
  \/ \E p \in Others : Serve(p)
  \/ Rest

RecordSpec == RecordInit /\ [][RecordNext]_recordVars
-----------------------------------------------------------------------------
(* Properties *)

Causes == Kinds \cup {"race"}

RecordTypeOK ==
  /\ rec \in Record
  /\ cur \in [Windows -> Record]
  /\ stage \in [Windows -> Stages] /\ polite \in [Windows -> BOOLEAN]
  /\ saving \in [Procs -> [kind : Kinds \cup {"none"}, copy : Record, raced : BOOLEAN]]
  /\ ops \in 0..MaxOps /\ chosen \in Nat /\ alone \in BOOLEAN
  /\ spoilt \subseteq Fields \X Causes

\* OnlyStaleSavesUndo: a permission that a manager changed and a post that was
\* counted are undone only by x_cloak, by x_info, whose set_safe_record reloads
\* the wrong copy, and by a save that another one came before; a password and
\* an option only by the saves of a window's copy, not by logins, logouts,
\* requests and dialogues that nobody came before.
OnlyStaleSavesUndo ==
  /\ RecordTypeOK
  /\ \A e \in spoilt :
       /\ e[1] \in {"level", "posts"} => e[2] \in Bare \cup {"race"}
       /\ e[1] \in {"passwd", "define"} => e[2] \in Guarded \cup Bare \cup {"race"}

\* PasswordSticks: a password that was set while nobody else had a copy of the
\* record, no window of the user and no request, stays: no later save brings an
\* old one back, and every window that is open knows it.
PasswordSticks ==
  alone =>
    /\ rec.passwd = chosen
    /\ \A w \in Windows : ~At(w, "out") => cur[w].passwd = chosen
=============================================================================
