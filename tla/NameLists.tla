----------------------------- MODULE NameLists -----------------------------
(***************************************************************************)
(* Who may post on a board: its club_users with the clubrights of every    *)
(* member, and its deny_users. Board managers change them from telnet      *)
(* (src/bbs/bm.c) and from web pages (nju09/www/bbsdenyadd.c and           *)
(* bbsdenydel.c), cron lifts the denials that are over                     *)
(* (local_utl/autoundeny), and a member's own telnet session compares its  *)
(* rights with the list when it enters the board (clubsync of bcache.c).   *)
(*                                                                         *)
(* Telnet goes through the calls of ListFile, one step at a time; the web  *)
(* loads the whole list, empties the file and writes the list back; cron   *)
(* rewrites the file in place.                                             *)
(***************************************************************************)
EXTENDS ListFile, SequencesExt

CONSTANTS
    Managers,     \* telnet processes of board managers
    Web,          \* web requests of board managers
    Users,        \* the users they are about
    Targets,      \* those of them whom managers deal with
    Sessions,     \* those of them who are on telnet themselves
    Subjects,     \* which of the lists are looked at: "club", "deny" or both
    Spelling,     \* user -> the id as a word
    Club, Other,  \* the numbers of this board's club and another's, as words
    Starts,       \* lists of members to start with, as sequences of users
    LoadMax,      \* loaddenyuser reads at most this many denials (100)
    DenyLimit,    \* bbsdenyadd refuses when the list is longer (40)
    Days,         \* lengths of denials
    MaxJobs,      \* subject -> bound on the requests of managers and repairs
    MaxTime       \* subject -> bound on the clock

ASSUME NameListsAssumption ==
    /\ Paths = {"deny_users", "club_users"} \cup Users
    /\ IsFiniteSet(Users) /\ Users \cap {"deny_users", "club_users"} = {}
    /\ Procs = Managers \cup Sessions /\ Managers \cap Sessions = {}
    /\ Sessions \subseteq Users /\ Targets \subseteq Users
    /\ "cron" \notin Web
    /\ Subjects \subseteq {"club", "deny"}
    /\ Spelling \in [Users -> Seq(STRING) \ {<<>>}]
    /\ \A u, v \in Users : Spelling[u] = Spelling[v] => u = v
    /\ Club \in Seq(STRING) \ {<<>>} /\ Other \in Seq(STRING) \ {<<>>}
    /\ Club # Other
    /\ LoadMax \in Nat /\ DenyLimit \in Nat
    /\ MaxJobs \in [Subjects -> Nat] /\ MaxTime \in [Subjects -> Nat]
    /\ \A start \in Starts : start \in Seq(Users)
    /\ Days \subseteq Nat \ {0}

VARIABLES
    subject,      \* the list this behaviour is about
    job,          \* manager -> what it is asked to do
    web,          \* web request -> the list it loaded and how far it is
    cron,         \* autoundeny
    mem,          \* session -> its right to the club and club_rights_time
    jobs,         \* requests so far
    suspect,      \* history: users whose two entries may disagree
    blur,         \* history: rights rewritten in the second they were read
    missed        \* history: denials added since web or cron read the file

history == <<suspect, blur, missed>>
vars == <<files, calls, now, subject, job, web, cron, mem, jobs, history>>

NoJob  == [kind |-> "none", who |-> "none", until |-> Bare, run |-> FALSE]
NoWeb  == [at |-> "out", op |-> "none", who |-> "none", until |-> Bare, table |-> <<>>]
NoCron == [at |-> "out", nowtime |-> 0, size |-> 0, fd |-> NoFile, keep |-> <<>>]

Denials  == ToSet(Content("deny_users").lines)
Denied(u) == Seek("deny_users", Spelling[u])
Member(u) == Seek("club_users", Spelling[u])
HasRight(u) == Seek(u, Club)

Dates == {Manual} \cup {now + d : d \in Days}

----------------------------------------------------------------------------
(* Telnet managers.                                                        *)

\* addclubmember and delclubmember write the rights of the user first and the
\* list of the board second; addtodeny removes the old line when it changes
\* one.
\* Mutant: delclubmember forgets the rights of the user.
CallsListOnly(j) ==
    IF j.kind = "expel" THEN <<Call("del", "club_users", Spelling[j.who], Bare)>>
    ELSE <<Call("add", j.who, Club, Bare), Call("add", "club_users", Spelling[j.who], Bare)>>
Calls(j) ==
    LET id == Spelling[j.who] IN
    CASE j.kind = "join"   -> <<Call("add", j.who, Club, Bare), Call("add", "club_users", id, Bare)>>
      [] j.kind = "expel"  -> <<Call("del", j.who, Club, Bare), Call("del", "club_users", id, Bare)>>
      [] j.kind = "deny"   -> <<Call("add", "deny_users", id, j.until)>>
      [] j.kind = "redeny" -> <<Call("del", "deny_users", id, Bare), Call("add", "deny_users", id, j.until)>>
      [] j.kind \in {"undeny", "article"} -> <<Call("del", "deny_users", id, Bare)>>

\* What is checked before the manager is asked for a reason, a number of days
\* and a confirmation; nothing is checked again afterwards.
Asked(j) ==
    CASE j.kind = "join"   -> ~Member(j.who)
      [] j.kind = "expel"  -> Member(j.who)
      [] j.kind = "deny"   -> ~Denied(j.who)
      [] j.kind \in {"redeny", "undeny", "article"} -> Denied(j.who)

Jobs ==
    IF subject = "club"
    THEN [kind : {"join", "expel"}, who : Targets, until : {Bare}, run : {FALSE}]
    ELSE [kind : {"undeny", "article"}, who : Targets, until : {Bare}, run : {FALSE}]
         \cup [kind : {"deny", "redeny"}, who : Targets, until : Dates, run : {FALSE}]

Ask(p) ==
    /\ job[p] = NoJob /\ jobs < MaxJobs[subject]
    /\ \E j \in Jobs :
          /\ Asked(j)
          /\ job' = [job EXCEPT ![p] = j]
    /\ jobs' = jobs + 1
    /\ UNCHANGED <<files, calls, now, subject, web, cron, mem, history>>

Decline(p) ==
    /\ job[p] # NoJob /\ ~job[p].run
    /\ job' = [job EXCEPT ![p] = NoJob]
    /\ UNCHANGED <<files, calls, now, subject, web, cron, mem, jobs, history>>

\* History: two of the processes at work on one user.
Handled(u) == {p \in Managers : job[p].run /\ job[p].who = u /\ job[p].kind \in {"join", "expel"}}

Repairing(u) == u \in Sessions /\ todo[u] # <<>>

Confirm(p) ==
    /\ job[p] # NoJob /\ ~job[p].run
    /\ job' = [job EXCEPT ![p].run = TRUE]
    /\ todo' = [todo EXCEPT ![p] = Calls(job[p])]
    /\ rc' = [rc EXCEPT ![p] = 0]
    /\ suspect' = IF Handled(job[p].who) # {} \/ Repairing(job[p].who)
                  THEN suspect \cup {job[p].who} ELSE suspect
    /\ UNCHANGED <<subject, files, hand, now, web, cron, mem, jobs, blur, missed>>

\* All calls made: the notices are posted and mailed, the menu comes back.
Finish(p) ==
    /\ job[p].run /\ todo[p] = <<>>
    /\ job' = [job EXCEPT ![p] = NoJob]
    /\ rc' = [rc EXCEPT ![p] = 0]
    /\ UNCHANGED <<files, todo, hand, now, subject, web, cron, mem, jobs, history>>

\* The line drops or the process is killed between two steps.
Hang(p) ==
    /\ job[p] # NoJob
    /\ job' = [job EXCEPT ![p] = NoJob]
    /\ todo' = [todo EXCEPT ![p] = <<>>]
    /\ hand' = [hand EXCEPT ![p] = NoHand]
    /\ rc' = [rc EXCEPT ![p] = 0]
    /\ suspect' = IF job[p].run THEN suspect \cup {job[p].who} ELSE suspect
    /\ UNCHANGED <<subject, files, now, web, cron, mem, jobs, blur, missed>>

----------------------------------------------------------------------------
(* The calls, and what the history keeps of them.                          *)

Who(p) == IF p \in Sessions THEN p ELSE job[p].who

\* Users other than the one handled whose membership the step changes.
Bystanders(p) == {u \in Users \ {Who(p)} : Member(u) # Member(u)'}

\* The call ends without having done to the handled user what it was for: the
\* word is still there after a deletion, or not there after an addition.
Amiss(p) ==
    \/ Head(todo[p]).op = "del" /\ todo'[p] # todo[p] /\ rc'[p] # 1
    \/ hand[p].at = "copied" /\ \E c \in {Head(todo[p])} : Seek(c.file, c.word)'
    \/ hand[p].at = "buffered" /\ \E c \in {Head(todo[p])} : ~Seek(c.file, c.word)'

Added(p) ==
    IF hand[p].at = "buffered" THEN {Line(Head(todo[p]).word, Head(todo[p]).tail)} ELSE {}

Misses(lines) ==
    \E new \in {lines} : missed' = [a \in DOMAIN missed |-> missed[a] \cup new]

Step(p) ==
    /\ CallStep(p)
    /\ suspect' = suspect \cup Bystanders(p)
                  \cup (IF Head(todo[p]).file # "deny_users" /\ Amiss(p) THEN {Who(p)} ELSE {})
    /\ blur' = blur \cup {u \in Sessions : /\ Content(u)' # Content(u)
                                          /\ stamp'[path'[u]] = mem[u].rtime}
    /\ Misses(Added(p))
    /\ UNCHANGED <<subject, now, job, web, cron, mem, jobs>>

----------------------------------------------------------------------------
(* A member's telnet session.                                              *)

\* Mutant: a file is read once and never again.
NewerOnce(f, t) == path[f] # NoFile /\ t = 0
Newer(f, t) == path[f] # NoFile /\ t < stamp[path[f]]

\* A new bbs process reads clubrights at login (main.c); club_rights_time is
\* a static variable of the process.
Login(u) ==
    /\ subject = "club"
    /\ todo[u] = <<>>
    /\ mem' = [mem EXCEPT ![u] = [right |-> HasRight(u), rtime |-> 0]]
    /\ blur' = blur \ {u}
    /\ UNCHANGED <<subject, files, calls, now, job, web, cron, jobs, suspect, missed>>

\* clubsync: the rights file when it is newer than the last reading of it, then
\* the list of the board when that is newer still.
Reread(u) ==
    CASE path[u] = NoFile        -> [mem[u] EXCEPT !.right = FALSE]
      [] Newer(u, mem[u].rtime)  -> [right |-> HasRight(u), rtime |-> stamp[path[u]]]
      [] OTHER                   -> mem[u]

Visited(u) ==
    LET m == Reread(u) IN
    IF Newer("club_users", m.rtime) THEN [m EXCEPT !.right = Member(u)] ELSE m

\* The list overrules the file: the file is repaired.
Repair(u) ==
    CASE Reread(u).right = Visited(u).right -> <<>>
      [] Visited(u).right   -> <<Call("add", u, Club, Bare)>>
      [] OTHER              -> <<Call("del", u, Club, Bare)>>

Visit(u) ==
    /\ subject = "club"
    /\ todo[u] = <<>>
    /\ mem' = [mem EXCEPT ![u] = Visited(u)]
    /\ todo' = [todo EXCEPT ![u] = Repair(u)]
    /\ blur' = IF path[u] = NoFile \/ Newer(u, mem[u].rtime) THEN blur \ {u} ELSE blur
    /\ IF Repair(u) = <<>>
       THEN UNCHANGED <<jobs, suspect>>
       ELSE /\ jobs < MaxJobs[subject]
            /\ jobs' = jobs + 1
            /\ suspect' = suspect \cup {u}
    /\ UNCHANGED <<subject, files, hand, rc, now, job, web, cron, missed>>

----------------------------------------------------------------------------
(* Web managers.                                                           *)

Timed(line) == line.tail # Manual

\* A loop over the lines that keeps the wanted ones.
Picked(lines, wanted) ==
    LET got[n \in 0 .. Len(lines)] ==
            IF n = 0 THEN <<>>
            ELSE IF lines[n] \in wanted THEN Append(got[n - 1], lines[n]) ELSE got[n - 1]
    IN  got[Len(lines)]

\* loaddenyuser: lines without a date are not understood and skipped.
Loaded ==
    LET lines == Content("deny_users").lines
        table == Picked(lines, {line \in ToSet(lines) : Timed(line)})
    IN  SubSeq(table, 1, IF Len(table) < LoadMax THEN Len(table) ELSE LoadMax)

Listed(table, u) == {i \in DOMAIN table : table[i].word = Spelling[u]}

\* bbsdenydel blanks the first line of the user, savedenyuser skips it.
Unlisted(table, u) ==
    RemoveAt(table, CHOOSE i \in Listed(table, u) : \A k \in Listed(table, u) : i <= k)

WebLoad(w) ==
    /\ subject = "deny"
    /\ web[w].at = "out" /\ jobs < MaxJobs[subject]
    /\ \E u \in Targets :
          \/ /\ ~Denied(u) /\ Len(Loaded) <= DenyLimit
             /\ \E t \in Dates \ {Manual} :
                   web' = [web EXCEPT ![w] = [at |-> "loaded", op |-> "deny", who |-> u, until |-> t,
                             table |-> Append(Loaded, Line(Spelling[u], t))]]
          \/ /\ Listed(Loaded, u) # {}
             /\ web' = [web EXCEPT ![w] = [at |-> "loaded", op |-> "undeny", who |-> u, until |-> Bare,
                             table |-> Unlisted(Loaded, u)]]
    /\ jobs' = jobs + 1
    /\ missed' = [missed EXCEPT ![w] = {}]
    /\ UNCHANGED <<subject, files, calls, now, job, cron, mem, suspect, blur>>

\* fopen(path, "w"): nobody is denied until the list is written back.
WebEmpty(w) ==
    /\ web[w].at = "loaded"
    /\ web' = [web EXCEPT ![w].at = "emptied"]
    /\ \/ /\ path["deny_users"] = NoFile
          /\ NewInode("deny_users", Text(<<>>), now)
       \/ /\ path["deny_users"] # NoFile
          /\ text' = [text EXCEPT ![path["deny_users"]] = Text(<<>>)]
          /\ stamp' = [stamp EXCEPT ![path["deny_users"]] = now]
          /\ UNCHANGED <<path, lock>>
    /\ UNCHANGED <<subject, calls, now, job, cron, mem, jobs, history>>

\* fclose writes from the start of the file, over what was appended meanwhile.
Overlaid(lines, table) ==
    table \o SubSeq(lines, Len(table) + 1, Len(lines))

WebWrite(w) ==
    LET fd == path["deny_users"] IN
    /\ web[w].at = "emptied"
    /\ text' = [text EXCEPT ![fd].lines = Overlaid(@, web[w].table)]
    /\ stamp' = [stamp EXCEPT ![fd] = now]
    /\ web' = [web EXCEPT ![w] = NoWeb]
    /\ UNCHANGED <<subject, path, lock, calls, now, job, cron, mem, jobs, suspect, blur>>
    /\ Misses(Denials')

WebKilled(w) ==
    /\ web[w].at # "out"
    /\ web' = [web EXCEPT ![w] = NoWeb]
    /\ UNCHANGED <<subject, files, calls, now, job, cron, mem, jobs, history>>

----------------------------------------------------------------------------
(* autoundeny, run by cron.                                                *)

\* canundeny: nowtime > the date after the escape; a line without one stays.
\* Mutant: the date is looked for at the wrong place and never found.
LapsedNever(line, t) == FALSE
Lapsed(line, t) == Timed(line) /\ t > line.tail

\* The loop that copies the lines that stay. Mutant: it stops one line early.
KeptShort(lines, t) ==
    LET read == SubSeq(lines, 1, Len(lines) - 1)
    IN  Picked(read, {line \in ToSet(read) : ~Lapsed(line, t)})
Kept(lines, t) == Picked(lines, {line \in ToSet(lines) : ~Lapsed(line, t)})

CronStat ==
    LET size == Len(Content("deny_users").lines) IN
    /\ cron.at = "out"
    /\ size > 0
    /\ cron' = [NoCron EXCEPT !.at = "stat", !.nowtime = now, !.size = size, !.fd = path["deny_users"]]
    /\ missed' = [missed EXCEPT !["cron"] = {}]
    /\ UNCHANGED <<subject, files, calls, now, job, web, mem, jobs, suspect, blur>>

\* open, flock, and a read of as many bytes as stat counted; fewer, and the
\* file is left alone.
CronRead ==
    LET fd   == cron.fd
        full == Len(text[fd].lines) >= cron.size
    IN
    /\ cron.at = "stat"
    /\ lock[fd] = NoProc
    /\ \/ /\ full
          /\ cron' = [cron EXCEPT !.at = "read",
                         !.keep = Kept(SubSeq(text[fd].lines, 1, cron.size), cron.nowtime)]
          /\ lock' = [lock EXCEPT ![fd] = "cron"]
       \/ /\ ~full
          /\ cron' = NoCron
          /\ UNCHANGED lock
    /\ UNCHANGED <<subject, path, text, stamp, calls, now, job, web, mem, jobs, history>>

\* write from the start, ftruncate to what was written, LOCK_UN.
CronWrite ==
    /\ cron.at = "read"
    /\ text' = [text EXCEPT ![cron.fd] = Text(cron.keep)]
    /\ stamp' = [stamp EXCEPT ![cron.fd] = now]
    /\ lock' = [lock EXCEPT ![cron.fd] = NoProc]
    /\ cron' = NoCron
    /\ UNCHANGED <<subject, path, calls, now, job, web, mem, jobs, suspect, blur>>
    /\ Misses(Denials')

----------------------------------------------------------------------------
Tick ==
    /\ now < MaxTime[subject]
    /\ now' = now + 1
    /\ UNCHANGED <<subject, files, calls, job, web, cron, mem, jobs, history>>

\* A list as board managers left it: members have the right to the club, and
\* some users have rights to the other one.
Bares(words) == [i \in DOMAIN words |-> Line(words[i], Bare)]

Init ==
    /\ now = 1
    /\ subject \in Subjects
    /\ \E start \in (IF subject = "club" THEN Starts ELSE {<<>>}),
          both \in (IF subject = "club" THEN BOOLEAN ELSE {FALSE}) :
          LET seats == SetToSeq(Users)
              rights(u) == (IF both \/ u \notin ToSet(start) THEN <<Other>> ELSE <<>>)
                           \o (IF u \in ToSet(start) THEN <<Club>> ELSE <<>>)
          IN  /\ text = <<Text(Bares([i \in DOMAIN start |-> Spelling[start[i]]]))>>
                        \o [i \in DOMAIN seats |-> Text(Bares(rights(seats[i])))]
              /\ path = [f \in Paths |->
                    CASE f = "deny_users" -> NoFile
                      [] f = "club_users" -> 1
                      [] OTHER -> 1 + CHOOSE i \in DOMAIN seats : seats[i] = f]
    /\ stamp = [i \in DOMAIN text |-> 1]
    /\ lock = [i \in DOMAIN text |-> NoProc]
    /\ todo = [p \in Procs |-> <<>>]
    /\ hand = [p \in Procs |-> NoHand]
    /\ rc = [p \in Procs |-> 0]
    /\ job = [p \in Managers |-> NoJob]
    /\ web = [w \in Web |-> NoWeb]
    /\ cron = NoCron
    /\ mem = [u \in Sessions |-> [right |-> HasRight(u), rtime |-> 0]]
    /\ jobs = 0
    /\ suspect = {}
    /\ blur = {}
    /\ missed = [a \in Web \cup {"cron"} |-> {}]

Cron == CronStat \/ CronRead \/ CronWrite

Next ==
    \/ \E p \in Managers : Ask(p) \/ Decline(p) \/ Confirm(p) \/ Finish(p) \/ Hang(p)
    \/ \E p \in Procs : Step(p)
    \/ \E u \in Sessions : Login(u) \/ Visit(u)
    \/ \E w \in Web : WebLoad(w) \/ WebEmpty(w) \/ WebWrite(w) \/ WebKilled(w)
    \/ Cron
    \/ Tick

\* cron starts autoundeny every two hours, and it waits for nothing but a flock
\* that is held for the length of a copy.
Spec == Init /\ [][Next]_vars /\ WF_vars(Cron)

----------------------------------------------------------------------------
(* Properties.                                                             *)

\* A denial of d days is dated d after the time it was made.
Tails(t) == {Bare, Manual} \cup {made + d : made \in 1..t, d \in Days}

\* Paths lead to inodes that exist, no line is empty, a flock is held by cron
\* between its read and its write and by nobody else between steps, and a
\* process holds an inode only inside a call.
TypeOK ==
    /\ path \in [Paths -> 0..Len(text)]
    /\ \A i \in DOMAIN text :
          /\ DOMAIN text[i].lines = 1..Len(text[i].lines)
          /\ \A k \in DOMAIN text[i].lines :
                /\ text[i].lines[k].word # <<>>
                /\ text[i].lines[k].tail \in Tails(now)
    /\ DOMAIN stamp = DOMAIN text /\ DOMAIN lock = DOMAIN text
    /\ \A i \in DOMAIN text : stamp[i] \in 1..now
    /\ \A i \in DOMAIN text : lock[i] = (IF cron.at = "read" /\ cron.fd = i THEN "cron" ELSE NoProc)
    /\ \A p \in Procs : hand[p].fd \in 0..Len(text) /\ (hand[p].at # "out" => todo[p] # <<>>)

Settled(u) ==
    /\ Handled(u) = {}
    /\ ~Repairing(u)

\* club_users and the clubrights of a user are two files written one after the
\* other, without a lock around both (addclubmember, delclubmember). They agree
\* on every user whom nobody is handling, unless one of the calls failed or was
\* cut short, two processes handled that user at once, a session repaired his
\* file from a stale reading, or a deletion on behalf of another user reached
\* his line (BystandersKept says when it can).
ListsAgree ==
    /\ TypeOK
    /\ \A u \in Users : Settled(u) /\ u \notin suspect => (Member(u) <=> HasRight(u))

\* What stood before the removed id on its line is glued to the next line.
Glued(p) == Stub(hand[p].src, Head(todo[p]).word) # <<>>

\* The file changed, or the path leads elsewhere, since it was copied.
Overtaken(p) ==
    \/ path[Head(todo[p]).file] # hand[p].fd
    \/ text[hand[p].fd] # hand[p].src

\* Adding or removing one user changes the membership of others only when the
\* removed id is the end of a longer line, which is then cut and glued to the
\* next (ytht_del_from_file looks for "id\n" anywhere), when the file lost its
\* last newline that way, or when the copy that is renamed over the list is
\* older than the list.
BystandersKept ==
    [][\A p \in Managers :
         /\ todo[p] # <<>>
         /\ Bystanders(p) # {} /\ hand'[p] # hand[p]
         => \/ hand[p].at = "copied" /\ (Glued(p) \/ Overtaken(p))
            \/ hand[p].at = "buffered" /\ text[hand[p].fd].rest # <<>>]_vars

\* Whenever a member's telnet session would enter the board, clubsync lets it
\* in exactly if club_users has it, although it rereads files only when their
\* mtime is newer: the exceptions are the users of ListsAgree and those whose
\* rights were rewritten in the very second in which the session had read them.
VisitHonoursList ==
    \A u \in Sessions :
        Settled(u) /\ u \notin suspect \cup blur => (Visited(u).right <=> Member(u))

\* The request read as many denials as it can: there may be more.
Brimful(w) == Len(web[w].table) = IF web[w].op = "deny" THEN LoadMax + 1 ELSE LoadMax - 1

\* A denial leaves deny_users only because its date has passed when autoundeny
\* runs, because a web manager lifts that user, or through the ways the code
\* really has of losing one: the web skips lines without a date and those past
\* the LoadMax it reads, and web and cron write back a list from before the denial was added.
\* From WebEmpty to WebWrite the denials are only in the memory of the program.
DenialEndsByRight ==
    [][\A line \in Denials \ Denials' :
         \/ /\ cron.at = "read" /\ cron'.at = "out"
            /\ Lapsed(line, cron.nowtime) \/ line \in missed["cron"]
         \/ \E w \in Web :
               /\ web'[w] # web[w] /\ web[w].at # "out"
               /\ \/ line \in ToSet(web[w].table)
                  \/ line \in missed[w]
                  \/ line.tail = Manual
                  \/ web[w].op = "undeny" /\ line.word = Spelling[web[w].who]
                  \/ Brimful(w)]_vars

\* A denial whose date has passed is off the list some time later, whoever
\* appends or rewrites meanwhile, as long as cron keeps starting autoundeny.
ExpiredLifted ==
    \A u \in Targets : \A t \in 1..MaxTime["deny"] :
        (Line(Spelling[u], t) \in Denials /\ t < now) ~> Line(Spelling[u], t) \notin Denials
=============================================================================
