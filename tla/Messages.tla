------------------------------ MODULE Messages ------------------------------
(***************************************************************************)
(* Instant messages to one user (libythtbbs/msg.c and its callers in       *)
(* src/bbs/sendmsg.c, src/bbs/io.c and nju09/www).  In the user's home,    *)
(* msgindex2 lists the incoming messages after a counter of those already  *)
(* handed out, and msgcontent holds their texts.  Senders append to both   *)
(* and then signal a telnet session of the user; sessions take messages    *)
(* from msgindex2 one by one, and clear_msg unlinks the files while all    *)
(* this goes on.  A web session polls: its user_info.unreadmsg, which      *)
(* senders raise without a lock and a login sets to the number of a        *)
(* message, is left out, so that it may look for a message at any time;    *)
(* to NoSession is to a web session, or to nobody any more.                *)
(* A text is the message it belongs to, and a place in msgcontent counts   *)
(* texts.  Opening a file in the user's home always succeeds.  The log     *)
(* msgindex, which is only read to be displayed or mailed, is left out;    *)
(* the user's own messages, which go to the log and to msgcontent, leave   *)
(* the texts that a sender that dies before it posts leaves here.          *)
(***************************************************************************)
EXTENDS Integers, Sequences, FiniteSets

CONSTANTS Telnet, Web,   \* the user's sessions: processes, and entries of utmp
          Senders,       \* processes that send messages, one at a time
          NoSession,
          MAXMESSAGE,    \* unread messages beyond which a sender gives up
          MaxMsgs, MaxClears, MaxLogins     \* bounds

Sessions == Telnet \cup Web
Msgs == 1 .. MaxMsgs

ASSUME MessagesAssumption ==
  /\ Telnet \cap Web = {} /\ NoSession \notin Sessions
  /\ IsFiniteSet(Senders)
  /\ MAXMESSAGE \in Nat
  /\ MaxMsgs \in Nat /\ MaxClears \in Nat /\ MaxLogins \in Nat

VARIABLES inbox, content, \* msgindex2 and msgcontent
          snd,            \* the senders
          ses,            \* the sessions: what each does next and its local variables
          tty,            \* the telnet sessions' flags and signal state
          used,           \* messages, clears and logins so far
          hist            \* history: what has happened to the messages

vars == <<inbox, content, snd, ses, tty, used, hist>>

\* struct msghead, as far as it matters, and the garbage of one never read.
Heads == [msg : Msgs, pos : Nat]
Garbage == [msg |-> 0, pos |-> 0]
NoFile == [gen |-> 0, state |-> "none", ack |-> 0, heads |-> <<>>]
NoSend == [pc |-> "idle", msg |-> 0, pos |-> 0, to |-> NoSession]
Offline == [pc |-> "off", goal |-> "none", fd |-> 0, idx |-> -1, cur |-> Garbage]
NewTty == [blocked |-> FALSE, have |-> FALSE, old |-> FALSE, editing |-> FALSE, handler |-> "r_msg",
           masked |-> FALSE, pending |-> FALSE, stuck |-> FALSE]

\* gen counts the files of that name that were unlinked; a file is "empty"
\* between its creation and the write of its counter.
Files == [gen : 0 .. MaxClears, state : {"none", "empty", "ready"}, ack : Nat, heads : Seq(Heads)]
SendSteps == {"idle", "post", "notify"}
SessionSteps == {"off", "idle", "enter", "count", "read", "write", "head", "text", "done",
                 "browse", "clear2", "clear3"}
Goals == {"none", "login", "r_msg", "bbsgetmsg", "clear", "exit"}

\* TypeOK: files, processes and counters stay within their types; the number of
\* a message in hand is never past the end of the files' numbering.
TypeOK ==
  /\ inbox \in Files
  /\ content \in Seq(Msgs)
  /\ snd \in [Senders -> [pc : SendSteps, msg : 0 .. MaxMsgs, pos : Nat,
                          to : Telnet \cup {NoSession}]]
  /\ ses \in [Sessions -> [pc : SessionSteps, goal : Goals, fd : 0 .. MaxClears,
                           idx : -1 .. MaxMsgs, cur : Heads \cup {Garbage}]]
  /\ tty \in [Telnet -> [blocked : BOOLEAN, have : BOOLEAN, old : BOOLEAN, editing : BOOLEAN,
                         handler : {"r_msg", "ignore"}, masked : BOOLEAN,
                         pending : BOOLEAN, stuck : BOOLEAN]]
  /\ used \in [msgs : 0 .. MaxMsgs, clears : 0 .. MaxClears, logins : 0 .. MaxLogins]
  /\ hist \in [taken : SUBSET Msgs, twice : BOOLEAN, overlap : BOOLEAN,
               seen : SUBSET Msgs, torn : SUBSET Msgs,
               raced : SUBSET Sessions, told : SUBSET (Msgs \X Telnet)]

Init ==
  /\ inbox = NoFile /\ content = <<>>
  /\ snd = [p \in Senders |-> NoSend]
  /\ ses = [s \in Sessions |-> Offline]
  /\ tty = [t \in Telnet |-> NewTty]
  /\ used = [msgs |-> 0, clears |-> 0, logins |-> 0]
  /\ hist = [taken |-> {}, twice |-> FALSE, overlap |-> FALSE, seen |-> {}, torn |-> {},
             raced |-> {}, told |-> {}]

Unread == Len(inbox.heads) - inbox.ack                    \* get_unreadcount
TextAt(h) == IF h.pos < Len(content) THEN content[h.pos + 1] ELSE 0      \* load_msgtext
Waiting == {inbox.heads[i].msg : i \in DOMAIN inbox.heads} \ hist.taken
Created(f) == IF f.state = "none" THEN [f EXCEPT !.state = "empty"] ELSE f
Appended(f, h) == [f EXCEPT !.state = "ready", !.heads = Append(@, h)]

At(s, step) == ses[s].pc = step
Goto(s, step) == ses' = [ses EXCEPT ![s].pc = step]
Rest == [Offline EXCEPT !.pc = "idle"]
Online(s) == ~At(s, "off") /\ ses[s].goal # "login"     \* has an entry in utmp
Clearing == \E s \in Sessions : ses[s].pc \in {"clear2", "clear3"}
Sending == {snd[p].msg : p \in {q \in Senders : snd[q].pc = "post"}}

-----------------------------------------------------------------------------
(* A sender: sendmsgfunc, and send_msg of the web                          *)

\* Where the text goes in msgcontent; mutants: off by one either way.
TextEndLast == Len(content) - 1
TextEndNext == Len(content) + 1
TextEnd == Len(content)

\* The first half of save_msgtext: the text, under the lock on msgindex.
AddText(p, to) ==
  /\ snd[p].pc = "idle" /\ used.msgs < MaxMsgs
  /\ snd' = [snd EXCEPT ![p] = [pc |-> "post", msg |-> used.msgs + 1, pos |-> TextEnd, to |-> to]]
  /\ content' = Append(content, used.msgs + 1)
  /\ used' = [used EXCEPT !.msgs = @ + 1]
  /\ UNCHANGED <<inbox, ses, tty>>

\* The recipient's session was looked up and the unread messages are counted,
\* but not for the sysop's broadcast, mode 0.
Send(p, mode, to) ==
  /\ mode # 0 => Unread <= MAXMESSAGE
  /\ AddText(p, to)
  /\ UNCHANGED hist

\* The second half, under the lock on msgindex2.
Post(p) ==
  /\ snd[p].pc = "post"
  /\ inbox' = Appended(inbox, [msg |-> snd[p].msg, pos |-> snd[p].pos])
  /\ snd' = [snd EXCEPT ![p] = IF @.to = NoSession THEN NoSend ELSE [@ EXCEPT !.pc = "notify"]]
  /\ hist' = [hist EXCEPT !.torn = IF Clearing THEN @ \cup {snd[p].msg} ELSE @]
  /\ UNCHANGED <<content, ses, tty, used>>

\* kill(pid, SIGUSR2).  A signal that is ignored is discarded unless it is
\* masked; one more of a pending signal changes nothing.  Only a signal
\* discarded after the last get_unreadcount of r_msg is not made up for.
Kill(p) ==
  LET t == snd[p].to
      ignored == tty[t].handler = "ignore" /\ ~tty[t].masked
  IN  /\ snd[p].pc = "notify"
      /\ tty' = [tty EXCEPT ![t].pending = @ \/ (Online(t) /\ ~ignored)]
      /\ hist' = [hist EXCEPT !.told = @ \cup (({snd[p].msg} \cap Waiting) \X
                                {r \in {t} : Online(t) /\ ~(ignored /\ At(t, "done"))})]
      /\ snd' = [snd EXCEPT ![p] = NoSend]
      /\ UNCHANGED <<inbox, content, ses, used>>

SenderDies(p) ==
  /\ snd[p].pc # "idle"
  /\ snd' = [snd EXCEPT ![p] = NoSend]
  /\ UNCHANGED <<inbox, content, ses, tty, used, hist>>

-----------------------------------------------------------------------------
(* get_unreadmsg, called by r_msg, by bbsgetmsg and by every login         *)

Login(s) ==
  /\ At(s, "off") /\ used.logins < MaxLogins
  /\ ses' = [ses EXCEPT ![s].pc = "read", ![s].goal = "login"]
  /\ used' = [used EXCEPT !.logins = @ + 1]
  /\ UNCHANGED <<inbox, content, snd, tty, hist>>

\* What a session does with the number i it took: a login drops the message,
\* and bbsgetmsg takes number 0 for none.
Shown(s, i) == ses[s].goal = "r_msg" \/ (ses[s].goal = "bbsgetmsg" /\ i \notin {-1, 0})
AfterTake(s, i) ==
  IF Shown(s, i) THEN [ses[s] EXCEPT !.pc = "head", !.idx = i, !.fd = 0]
  ELSE IF s \in Telnet THEN [Rest EXCEPT !.pc = "enter"] ELSE Rest

\* The lock is a read lock, so that two sessions may be between the read of
\* the counter and the write.
TakeRead(s) ==
  /\ At(s, "read")
  /\ inbox' = Created(inbox)
  /\ hist' = [hist EXCEPT !.overlap = @ \/ \E r \in Sessions : At(r, "write")]
  /\ ses' = [ses EXCEPT ![s] = IF Unread = 0 THEN AfterTake(s, -1)
                                ELSE [@ EXCEPT !.pc = "write", !.idx = inbox.ack, !.fd = inbox.gen]]
  /\ UNCHANGED <<content, snd, tty, used>>

\* The new value of the counter; mutants: not raised, and everything is read.
AckedNone(i) == i
AckedAll(i) == Len(inbox.heads)
Acked(i) == i + 1

\* Sessions of r_msg that counted before this write may find nothing to take.
TakeWrite(s) ==
  LET i == ses[s].idx
      live == ses[s].fd = inbox.gen
      took == IF live THEN {inbox.heads[i + 1].msg} ELSE {}
  IN  /\ At(s, "write")
      /\ inbox' = IF live THEN [inbox EXCEPT !.ack = Acked(i)] ELSE inbox
      /\ hist' = [hist EXCEPT !.taken = @ \cup took, !.twice = @ \/ took \cap hist.taken # {},
                              !.seen = IF Shown(s, i) THEN @ ELSE @ \cup took,
                              !.told = {x \in @ : x[1] \notin took},
                              !.raced = @ \cup {r \in Sessions \ {s} : At(r, "read")}]
      /\ ses' = [ses EXCEPT ![s] = AfterTake(s, i)]
      /\ UNCHANGED <<content, snd, tty, used>>

\* load_msghead(1, ...): a number out of range leaves the caller's head as it was.
\* Mutant: the numbers start at 1.
LoadHeadFromOne(s) ==
  /\ At(s, "head")
  /\ ses' = [ses EXCEPT ![s].pc = "text",
               ![s].cur = IF ses[s].idx \in DOMAIN inbox.heads THEN inbox.heads[ses[s].idx] ELSE @]
  /\ UNCHANGED <<inbox, content, snd, tty, used, hist>>
LoadHead(s) ==
  /\ At(s, "head")
  /\ ses' = [ses EXCEPT ![s].pc = "text",
               ![s].cur = IF ses[s].idx + 1 \in DOMAIN inbox.heads
                            THEN inbox.heads[ses[s].idx + 1] ELSE @]
  /\ UNCHANGED <<inbox, content, snd, tty, used, hist>>

\* load_msgtext, and the message is on the screen.  Mutant: r_msg shows only one.
LoadTextOnce(s) ==
  /\ At(s, "text")
  /\ hist' = [hist EXCEPT !.seen = @ \cup ({ses[s].cur.msg} \ {0})]
  /\ ses' = [ses EXCEPT ![s] = IF s \in Telnet THEN [@ EXCEPT !.pc = "done"] ELSE Rest]
  /\ UNCHANGED <<inbox, content, snd, tty, used>>
LoadText(s) ==
  /\ At(s, "text")
  /\ hist' = [hist EXCEPT !.seen = @ \cup ({ses[s].cur.msg} \ {0})]
  /\ ses' = [ses EXCEPT ![s] = IF s \in Telnet THEN [@ EXCEPT !.pc = "count"] ELSE Rest]
  /\ UNCHANGED <<inbox, content, snd, tty, used>>

-----------------------------------------------------------------------------
(* A telnet session: r_msg, entered from the main line or as the handler   *)
(* of SIGUSR2                                                              *)

\* SIGUSR2 is ignored until r_msg is done, which also discards one pending.
\* flags says which flags the caller set.
StartLoop(t, flags) ==
  /\ ses' = [ses EXCEPT ![t].pc = "count", ![t].goal = "r_msg", ![t].cur = Garbage]
  /\ tty' = [tty EXCEPT ![t] = [flags EXCEPT !.handler = "ignore", !.pending = FALSE]]

FromMain(t) == [tty[t] EXCEPT !.masked = FALSE, !.blocked = FALSE, !.old = FALSE]

\* At the end of the login.
EnterLoop(t) ==
  /\ At(t, "enter")
  /\ StartLoop(t, FromMain(t))
  /\ UNCHANGED <<inbox, content, snd, used, hist>>

\* The handler was installed by a former r_msg, and masks the signal while it
\* runs.  Of what a session does, a signal interrupts waiting for a key; during
\* anything shorter it is taken as coming after.
HandleSignal(t) ==
  /\ ses[t].pc \in {"idle", "browse"} /\ tty[t].pending
  /\ IF tty[t].blocked
       THEN /\ tty' = [tty EXCEPT ![t].have = TRUE, ![t].pending = FALSE]
            /\ UNCHANGED ses
       ELSE StartLoop(t, [tty[t] EXCEPT !.masked = TRUE, !.old = FALSE])
  /\ UNCHANGED <<inbox, content, snd, used, hist>>

Count(t) ==
  /\ At(t, "count")
  /\ Goto(t, IF Unread = 0 THEN "done" ELSE "read")
  /\ hist' = [hist EXCEPT !.raced = @ \ {t}]
  /\ UNCHANGED <<inbox, content, snd, tty, used>>

\* Mutant: have_msg_unread stays set.
DoneUnread(t) ==
  /\ At(t, "done")
  /\ ses' = [ses EXCEPT ![t] = Rest]
  /\ tty' = [tty EXCEPT ![t] = [@ EXCEPT !.handler = "r_msg", !.blocked = tty[t].old, !.masked = FALSE]]
  /\ UNCHANGED <<inbox, content, snd, used, hist>>
Done(t) ==
  /\ At(t, "done")
  /\ ses' = [ses EXCEPT ![t] = Rest]
  /\ tty' = [tty EXCEPT ![t] = [@ EXCEPT !.handler = "r_msg", !.have = FALSE, !.blocked = tty[t].old,
                                          !.masked = FALSE]]
  /\ UNCHANGED <<inbox, content, snd, used, hist>>

\* vedit between block_msg and unblock_msg.
BeginEdit(t) ==
  /\ At(t, "idle") /\ t \in Telnet /\ ~tty[t].editing
  /\ tty' = [tty EXCEPT ![t].blocked = TRUE, ![t].editing = TRUE]
  /\ UNCHANGED <<inbox, content, snd, ses, used, hist>>

EndEdit(t) ==
  /\ At(t, "idle") /\ t \in Telnet /\ tty[t].editing
  /\ StartLoop(t, [FromMain(t) EXCEPT !.editing = FALSE, !.stuck = FALSE])
  /\ UNCHANGED <<inbox, content, snd, used, hist>>

\* Ctrl-Z in igetkey: r_msg if a message is waiting, else r_msg2, which blocks
\* and returns at once if there never was a message.  An empty msgindex2
\* counts as 1717986918 messages: (0 - 4) / sizeof (struct msghead) is unsigned.
CtrlZ(t) ==
  /\ At(t, "idle") /\ t \in Telnet
  /\ IF tty[t].have
       THEN StartLoop(t, [FromMain(t) EXCEPT !.old = tty[t].blocked])
       ELSE /\ tty' = [tty EXCEPT ![t].blocked = TRUE, ![t].stuck = inbox.state = "none"]
            /\ Goto(t, IF inbox.state = "none" THEN "idle" ELSE "browse")
  /\ UNCHANGED <<inbox, content, snd, used, hist>>

\* r_msg2 ends with unblock_msg.
EndBrowse(t) ==
  /\ At(t, "browse")
  /\ StartLoop(t, FromMain(t))
  /\ UNCHANGED <<inbox, content, snd, used, hist>>

-----------------------------------------------------------------------------
(* A web session, and what both kinds of session do with the files         *)

GetMsg(w) ==
  /\ At(w, "idle") /\ w \in Web
  /\ ses' = [ses EXCEPT ![w].pc = "read", ![w].goal = "bbsgetmsg", ![w].cur = Garbage]
  /\ hist' = [hist EXCEPT !.raced = @ \ {w}]
  /\ UNCHANGED <<inbox, content, snd, tty, used>>

\* clear_msg, the first unlink included; mail_msg ends with it too.  A telnet
\* session also clears the files when it says goodbye, if it is the last one.
Clear1(s, goal) ==
  /\ At(s, "idle") /\ used.clears < MaxClears
  /\ goal = "exit" => s \in Telnet /\ \A r \in Sessions \ {s} : At(r, "off")
  /\ ses' = [ses EXCEPT ![s].pc = "clear2", ![s].goal = goal]
  /\ used' = [used EXCEPT !.clears = @ + 1]
  /\ hist' = [hist EXCEPT !.torn = @ \cup Sending]
  /\ UNCHANGED <<inbox, content, snd, tty>>

\* Messages being sent and sessions reading them that an unlink runs into.
Disturbed(s) ==
  [hist EXCEPT
    !.torn = @ \cup Sending,
    !.raced = @ \cup {r \in Sessions \ {s} : ses[r].pc \in {"read", "write", "head", "text"}}]

Clear2(s) ==
  /\ At(s, "clear2")
  /\ inbox' = [NoFile EXCEPT !.gen = inbox.gen + 1]
  /\ hist' = [Disturbed(s) EXCEPT !.taken = {}, !.twice = FALSE, !.overlap = FALSE, !.seen = {},
                                  !.told = {}]
  /\ Goto(s, "clear3")
  /\ UNCHANGED <<content, snd, tty, used>>

Clear3(s) ==
  /\ At(s, "clear3")
  /\ content' = <<>>
  /\ hist' = [Disturbed(s) EXCEPT !.told = IF ses[s].goal = "exit" THEN {x \in @ : x[2] # s} ELSE @]
  /\ ses' = [ses EXCEPT ![s] = IF @.goal = "exit" THEN Offline ELSE Rest]
  /\ tty' = IF ses[s].goal = "exit" THEN [tty EXCEPT ![s] = NewTty] ELSE tty
  /\ UNCHANGED <<inbox, snd, used>>

\* A telnet session hangs up, a web session logs out or its process dies; a
\* message it had taken and not shown is gone.
Leave(s) ==
  /\ ~At(s, "off")
  /\ ses' = [ses EXCEPT ![s] = Offline]
  /\ tty' = IF s \in Telnet THEN [tty EXCEPT ![s] = NewTty] ELSE tty
  /\ hist' = [hist EXCEPT !.told = {x \in @ : x[2] # s}, !.seen = @ \cup
                {inbox.heads[i].msg : i \in IF ses[s].pc \in {"head", "text"}
                                              THEN {ses[s].idx + 1} \cap DOMAIN inbox.heads ELSE {}}]
  /\ UNCHANGED <<inbox, content, snd, used>>

-----------------------------------------------------------------------------
SendStep(p) ==
  \/ \E mode \in {0, 2}, to \in {NoSession} \cup {t \in Telnet : Online(t)} : Send(p, mode, to)
  \/ Post(p) \/ Kill(p) \/ SenderDies(p)

Take(s) == TakeRead(s) \/ TakeWrite(s) \/ LoadHead(s) \/ LoadText(s)
Loop(t) == EnterLoop(t) \/ HandleSignal(t) \/ Count(t) \/ Done(t)
Clear(s) == Clear2(s) \/ Clear3(s)

Next ==
  \/ \E p \in Senders : SendStep(p)
  \/ \E s \in Sessions : Login(s) \/ Take(s) \/ Clear(s) \/ Leave(s)
  \/ \E s \in Sessions, goal \in {"clear", "exit"} : Clear1(s, goal)
  \/ \E t \in Telnet : Loop(t) \/ BeginEdit(t) \/ EndEdit(t) \/ CtrlZ(t) \/ EndBrowse(t)
  \/ \E w \in Web : GetMsg(w)

\* A process that does not wait for its user goes on, and r_msg waits for no
\* more than a return; nothing is assumed of senders.
Fairness ==
  /\ \A s \in Sessions : WF_vars(Take(s)) /\ WF_vars(Clear(s))
  /\ \A t \in Telnet : WF_vars(Loop(t))

Spec == Init /\ [][Next]_vars /\ Fairness

-----------------------------------------------------------------------------
(* Properties                                                              *)

\* RightText: a head that a session has loaded, or will load, leads to its own
\* text, although texts are read without a lock.  What breaks this is clear_msg
\* in the middle of a send, or between the head and its text.
RightText ==
  /\ TypeOK
  /\ \A i \in DOMAIN inbox.heads :
       LET h == inbox.heads[i]
       IN  h.msg \in hist.torn \/ TextAt(h) = h.msg
  /\ \A s \in Sessions \ hist.raced :
       At(s, "text") => ses[s].cur.msg \in hist.torn \/ TextAt(ses[s].cur) = ses[s].cur.msg

\* FreshHead: what a session shows is the message whose number it took, and not
\* the previous one or garbage, unless a session of the same user took the
\* message between its get_unreadcount and its get_unreadmsg, or cleared the files.
FreshHead == \A s \in Sessions \ hist.raced :
  At(s, "text") => /\ ses[s].idx + 1 \in DOMAIN inbox.heads
                   /\ ses[s].cur = inbox.heads[ses[s].idx + 1]

\* NoneSkipped: a message the counter of msgindex2 has passed was shown by a
\* session, or is about to be; the ones that were not are the message each login
\* takes (user.c), number 0 when bbsgetmsg took it, and one a dying session held.
NoneSkipped == \A i \in 1 .. inbox.ack :
  \/ inbox.heads[i].msg \in hist.seen
  \/ \E s \in Sessions : ses[s].pc \in {"head", "text"} /\ ses[s].idx = i - 1

\* OnceUnlessOverlap: get_unreadmsg hands a message out a second time only if two
\* of its calls overlapped, which the read lock it writes under allows.
OnceUnlessOverlap == ~hist.twice \/ hist.overlap

\* BlockedHasCause: between commands, messages are blocked only in the editor or
\* after Ctrl-Z when no message had ever come: r_msg2 then returns without
\* unblocking.
BlockedHasCause == \A t \in Telnet :
  /\ At(t, "idle") /\ tty[t].blocked => tty[t].editing \/ tty[t].stuck
  /\ At(t, "idle") /\ tty[t].have => tty[t].blocked

\* Prompt: a message is taken, or deleted, or announced by have_msg_unread, once
\* SIGUSR2 was sent for it to a session, unless the session ends; a signal that is
\* discarded while r_msg runs is made up for by its loop, except at its very end.
Prompt == \A m \in Msgs, t \in Telnet :
  <<m, t>> \in hist.told ~>
    <<m, t>> \notin hist.told \/ tty[t].have
=============================================================================
