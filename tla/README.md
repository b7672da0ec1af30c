# Verification of bmybbs

bmybbs is the software of a bulletin board system: users log in with telnet or
ssh, with a browser, or through an HTTP API, and read and write boards, mail and
messages.  It has no database server of its own.  Dozens of processes, most of
them short-lived, share System V memory segments and plain files, each guarded by
whatever lock its author chose.  What can go wrong here is almost never in
one function; it is in what a second process does between two lines of the first.
This directory holds TLA+ models of the shared structures, the TLC runs that
check them on small instances, and TLAPS proofs of the central invariants.

Run anything from this directory: `tlc -config SessionCache.cfg MCSessionCache`
checks a run, `tlapm SessionCacheProofs.tla` checks proofs.  `PROJECT.json` lists
the components, the runs with their properties, a mutant of the code for each
property, the source lines of every definition, the hazards and the findings.

## 1. Inventory

### Processes

| program | source | what it is |
|---|---|---|
| `bbs` | `src/bbs` | one process per telnet or ssh user, alive for the whole session |
| nju09 | `src/nju09` | the web site: FastCGI/CGI processes, each serves one request at a time |
| API | `src/api` | one multi-threaded server, requests are served in parallel |
| `chatd` | `src/bbs.chatd/station.c` | the chat daemon, one thread |
| `local_utl`, `minibmy`, ... | | jobs run from cron, statistics, feeds |

All of them link `libythtbbs` (the shared structures), `libbmy` (captcha, 2FA,
cookies, conversions) and `libytht` (files, strings, shared memory).

### Components and their state

| component | state | operations | who shares it | status |
|---|---|---|---|---|
| session cache (`libythtbbs/cache/utmp.c`, `session.c`) | `shm_utmp->uinfo[USHM_SIZE]`, keys `BMY:Session:*` in Redis | insert (probe, sweep), remove, get/set session, update, kick | every process | modelled, proved |
| user table rows (`cache/user.c`) | `utmp_indices[8]` per user | `add_utmp_idx` (evicts), `remove_utmp_idx`, `usertable_count` | every process | modelled, proved |
| login, logout (`user.c`, callers) | `lastlogin` in PASSFILE, a process's `utmpent`, a browser's cookie | `ythtbbs_user_login`, `_logout`, `u_exit`, `bbslogout`, `api_user_logout` | | modelled as far as they touch the cache and the record |
| user records (`record.c`, `bbs/bbs.c`, `xyz.c`, `userinfo.c`, nju09, API) | one `struct userec` of PASSFILE, `currentuser` in each `bbs` process | read, `set_safe_record`, change, write whole | a user's windows, web requests, managers | modelled, proved |
| user registry (`user.c`, `cache/user.c`, `register.c`, `bbsreg.c`) | PASSFILE, `.PASSFLUSH`, user table, id hash table | form, clean-up, create, reload, look up | `bbs`, nju09, API | registration modelled, proved |
| record files (`libythtbbs/record.c`, `bbs/record.c`, `bbs/mail.c`, nju09 `bbsdelmail.c`) | `.DIR`, `.tmpfile`, `.DIR.tmp` | append, substitute, delete in place, tombstone, rewrite | every process that posts, mails, marks or deletes | modelled, proved |
| board cache | `shm_bcache`, `.BOARDS` | reload by mtime, counters | every process | not modelled |
| articles, mail | text files, `.DIR`, thread ids | post, edit, delete, reply, deliver | every process | their `.DIR` entries only |
| messages (`libythtbbs/msg.c`, `bbs/sendmsg.c`) | `msgindex2`, `msgcontent`, SIGUSR2 and the flags of a `bbs` process | send, signal, take, show, block, clear | `bbs`, nju09 | modelled, proved |
| member and denial lists (`libytht/fileop.c`, `bbs/bm.c`, nju09, `autoundeny`) | `club_users`, `clubrights`, `deny_users` | add, delete, load and save, lift, compare with rights in memory | managers on telnet and the web, cron, each member's process | modelled, proved |
| money centre (`bbs/moneycenter.c`) | a file of numbers per user, `salary_list` | come in, pay, save, borrow, repay, salary, arrest, bail | every `bbs` process | bank and police modelled, proved |
| read marks (`libythtbbs/boardrc.c`, callers) | a file per user on a tmpfs, its copy in the home directory, the marks of one board in each process or session | load, mark, clear, save, move | a user's `bbs` processes and web requests, API, cron | modelled, proved |
| chat daemon (`bbs.chatd/station.c`) | `users[MAXACTIVE]`, `rooms[MAXROOM]` in one process | connect, log in, move, lock, invite, kick, rename, appoint, lose the connection | the lines of all clients, one at a time | modelled, proved |
| captcha, 2FA | files, Redis keys with a life time | request, verify, expire | nju09, API, `bbs` | not modelled |
| votes, overrides | files rewritten whole | | `bbs`, nju09 | not modelled |
| terminal UI, page rendering, games, vendored ssh server | none shared | | | not modelled |

`PROJECT.json` has one entry per component with its sources and status.

### How they interact

A login is the widest interaction.  `ythtbbs_user_login` resolves the id through
the hash table, reads and writes the PASSFILE record, and calls `utmp_insert`.
That takes `.CACHE.utmp.lock`, finds a slot, copies the entry, puts its index
into the user's row (which may evict another session of the user), publishes a
Redis key for cookies, and, once a minute, sweeps everybody's dead sessions.  Every
later request of a browser comes back through the Redis key; a `bbs` process keeps
a pointer to its slot and copies its private struct over it now and then.  Nothing
but insertion takes the lock.

Registration reads the cached user table, writes PASSFILE under a lock, touches
`.PASSFLUSH` after unlocking and relies on its mtime, in whole seconds, to make
everyone reload.

A post or mail is appended to `.DIR` under an fcntl lock; deletions in place use
`flock`, which does not exclude it; deletions of a range copy the file and rename
the copy, with no lock but the exclusive creation of `.tmpfile`; the web deletes mails in the
same way through a `.DIR.tmp` that nothing guards.

### What is hard here

`hazards` in `PROJECT.json` lists each at its line.  By kind: two locks that
do not exclude each other, or one side that takes none (`utmp_remove`,
`append_record` against `delete_file`, `saveValue`, the appends of
messages and lists); values checked, then used after they may have
changed hands (`ythtbbs_user_logout`, `substitute_record`, registration); caches
made stale by coarse mtimes; processes killed between two steps; Redis calls that
fail silently; a full array, a full probe window, a full row; locks and marker files
that must not be left behind.

### What makes each part correct

- Session cache: rows and array agree exactly, each web session can be found,
  counted and evicted; a session id names one session and its key leads there; a living
  process's slot is never taken from it; a login costs at most one session of
  the same user; an ended session stays ended; the quota holds; a lock is always released.
- Registry: no number past MAXUSERS, no gap in PASSFILE; the cache lags by a
  bounded amount; a registered user can log in; nobody's record is overwritten.
- User records: a change is undone only by a save that came from a stale copy; a new password stays.
- Record files: no appended entry is lost, no deleted one comes back, order and
  flags are kept; one rewriter at a time; locks are released on every path.
- Messages: what is shown is what was sent; none is skipped, none shown twice, none
  waits for ever; the quota holds.
- Lists: the two entries of a member agree; nobody else's entry changes; a denial
  ends when it is lifted or over, and not before; the memory of a process follows.
- Money: what all have comes to what was given out; who owes has a day of payment; a
  term is served or bought; a salary is paid once.
- Chat: a room counts who is in it; a locked door opens for those who were asked in and not for
  who has their slot; one operator, and his rights end with the room; one name, one client.
- Read marks: what a user has not read is not taken for read, what he has read stays so, and
  his file can always be read.

## 2. The modules

| module | models | lines of code behind it |
|---|---|---|
| `SessionTable` | the pure part of the session cache: probe, landing position, eviction, sweep predicate, Redis keys, as operators on values | `cache/utmp.c`, `cache/user.c`, `session.c` |
| `SessionState` | the variables all processes share, of which `SessionCache` and `SessionSteps` both tell what becomes | `cache/utmp.c`, `cache/user.c`, `session.c` |
| `SessionCache` | every operation of the session cache as one atomic step, with processes, cookies, the clock, crashes and a failing Redis | these, `user.c`, `bbs/main.c`, `bbs/bcache.c`, nju09 `BBSLIB.c`, `bbskick.c`, API `apilib.c`, `api_user.c` |
| `Sessions` | the abstract promise: a set of open sessions, login, refusal, end, ageing | refined by `SessionCache` (its `ServesSessions`) |
| `SessionSteps` | the web side again, with `utmp_insert`, `ythtbbs_user_logout` and `utmp_remove` broken into the steps other processes can see | `cache/utmp.c`, `user.c` |
| `SessionCacheProofs` | theorems about `SessionCache`: types, rows, whose a slot and a key are, and that it implements `Sessions`; and about `SessionSteps`: its two invariants and its lock | |
| `UserRegistry` | registration by telnet and web, clean-up, reload, hash table | `user.c`, `cache/user.c`, `bbs/register.c`, nju09 `bbsreg.c` |
| `UserRecord` | one PASSFILE record and the copies of it that windows, requests and managers save | `bbs/bbs.c`, `bbs/main.c`, `bbs/xyz.c`, `bbs/userinfo.c`, `user.c`, nju09 `bbspwd.c`, `bbsparm.c`, `bbssnd.c`, `bbsdel.c` |
| `UserProofs` | theorems about `UserRegistry` and `UserRecord`: all their properties | |
| `RecordFile` | all ways of changing a `.DIR`, system call by system call | `libythtbbs/record.c`, `bbs/record.c`, `bbs/mail.c`, nju09 `bbsdel.c`, `bbsdelmail.c` |
| `RecordFileProofs` | theorems about `RecordFile`: types, rewriters, locks, entries, their order and their flags | |
| `Messages` | sending, taking, showing, blocking and clearing messages on telnet and the web | `libythtbbs/msg.c`, `bbs/sendmsg.c`, `bbs/io.c`, `bbs/edit.c`, `bbs/bbs.c`, nju09 `bbsgetmsg.c` |
| `MessagesProofs` | theorems about `Messages`: all its safety properties | |
| `ListFile` | a list as text with `ytht_add_to_file` and `ytht_del_from_file`, step by step | `libytht/fileop.c` |
| `NameLists` | members and denials of one board; extends `ListFile` | `bbs/bm.c`, `bbs/bcache.c`, nju09 `deny_users.c`, `bbsdenyadd.c`, `bbsdenydel.c`, `autoundeny.c` |
| `NameListsProofs` | theorems about `NameLists`: all its safety properties | |
| `MoneyBank` | who comes into the money centre, its bank and its police | `bbs/moneycenter.c` |
| `MoneyBankProofs` | theorems about `MoneyBank`: all its properties | |
| `ReadMarks` | the marks of a board, the file of all boards, and who loads and saves it | `libythtbbs/boardrc.c`, `bbs/boards.c`, nju09 `boardrc.c`, API `api_article.c`, `save_brc` |
| `ReadMarksProofs` | theorems about `ReadMarks`: its two invariants and its action property | |
| `Chat` | the tables of the chat daemon under every sequence of lines and lost connections | `bbs.chatd/station.c` |
| `ChatProofs` | theorems about `Chat`: all its properties | |
| `MC*` | constants and symmetry for TLC | |

`SessionCache` and `SessionSteps` both extend `SessionState`, and it `SessionTable`, so that the two views
use one translation of each loop.

### SessionTable and SessionCache

`utmp[i]` is `shm_utmp->uinfo[i - 1]`: only the fields the cache decides on (active,
uid, pid, userid, session id, last use, start, the kicked mark).  Slots count from 1 as
`utmp_indices` does.  `rows[u]` is `utmp_indices`, with the segments of positions
that each login type may use; `keys` is the set of `BMY:Session` hashes; `proc[p]` is
what `bbs` process `p` remembers of its login; `cookies` are those handed to
browsers and never taken back.  `broken` is a history variable: it records that a full table
was overrun or that a stale cookie ended somebody else's session, the two ways in
which the code damages its own cache (see *Findings*), so that the properties can say
exactly when they are promised.

| action | code |
|---|---|
| `Login` (`Claims`, `Landing`, `Place`, `Evicted`, `Sweep`, `Answer`) | `ythtbbs_user_login`, `ythtbbs_cache_utmp_insert`, `add_utmp_idx`, `session_set` |
| `Touch` | nju09 `user_init`, the refresh of `lasttime` |
| `WwwLogout`, `ApiLogout`, `TelnetExit` | `bbslogout`, `api_user_logout`, `u_exit`, with `ythtbbs_user_logout` and `utmp_remove` |
| `TelnetCrash` | SIGKILL of a process, by `multi_user_check` or otherwise |
| `TelnetUpdate` | `update_utmp` |
| `Kick` | `bbskick` |
| `Count` | `usertable_count`, which also repairs a row |
| `KeyExpires`, `Tick` | Redis EXPIRE, the clock |

A `Redis` command may fail in any action (`up`); as in the code, nobody notices.
Process numbers are reused, so a dead session may be taken for a living one.

### SessionSteps

Workers are CGI processes or API threads; `pc` names the part of the function they
are about to run, `lock` is the holder of `.CACHE.utmp.lock`.  There is no clock: an
entry's age is its session number, and `Index` and `SweepAll` are
nondeterministic in what is old enough, which covers every clock.  A worker may be killed
between any two steps; the kernel then drops its lock.

### UserRegistry

`file` is PASSFILE, `flush` the mtime of `.PASSFLUSH`, `cache` the user table
with its load time and the hash table of ids.  The hash function is the constant
`Home`, a probe looks at `Window` items (five blocks in the code).  `Allocate` and
`Clean` are one step each because the code holds the lock on PASSFILE over them;
everything else of a registration (`CheckId`, `Touch`, `Resolve`, `SetUserId`,
`Verify`) is a step of its own, and the worker may disappear between any two.  A
web registration skips `Clean` and `SetUserId`, and its check of the id only asks the
hash table, as the code does.  `expired` and `broken` are history variables.

### UserRecord

`rec` is the record of one user, of which four fields stand for the kinds there are: `passwd` for
what is edited in a dialogue and never reloaded, `define` for the options, `level` and `posts`
for what `set_safe_record` reloads.  `cur[w]` is `currentuser` in window `w`, `stage[w]` where the window is
between login and exit, `saving[p]` the record a process has in hand between its read (or its
`set_safe_record`) and its write.  A save writes the whole record.  What the same change would
have made of the record that is there at that moment is computed beside it: each field that
differs goes into the history `spoilt` with the kind of the save, or with "race" if
somebody else saved between the read and the write.  `chosen` and `alone` remember the
last password and whether anybody else had a copy when it was set.

| action | code |
|---|---|
| `Login`, `Enter`, `TurnAway` | `ythtbbs_user_login`, `user_login`, `multi_user_check` |
| `Quit`, `Abort`, `Flags`, `Logout`, `Bye`, `Kill` | `Q_Goodbye`, `abort_bbs`, `u_exit`, `ythtbbs_user_logout`, a kill |
| `Post`, `Delete`, `Announce`, `Cloak`, `Info`, `UserDefine`, `Cancel` | `post_article`, `del_post`, `Read`, `x_cloak`, `x_info`, `x_userdefine` |
| `WebLogin`, `WebLogout`, `WebPost`, `WebDelete`, `ChangePassword`, `Parm` | nju09 and API with `getuser` and `save_user_data` |
| `ModifyLevel`, `ResetPassword`, `Purge` | a manager in `x_level`, `x_denylevel`, `m_info`, `delete_range` |
| `GiveUp` | any of the others that ends without saving |

### RecordFile

`files` are the inodes, `name` what `.DIR`, `.tmpfile` and `.DIR.tmp` (`web`) point to: a process
keeps writing to the inode it opened when another one renames a new file over it.  An
entry is a filetime (`key`) and its flags.  `job[w]` holds the arguments and
locals of the call worker `w` is in, including `look`, what the caller saw of the file
before the call, which is what positions and `substitute_record`'s contents come from.

| steps | code |
|---|---|
| `BeginAppend`, `Open`, `Write` | `trycreatefile`, then `append_record` |
| `BeginChange`, `Stat`, `Open`, `Store` | `substitute_record` |
| `Open`, `Flock`, `Scan`, `Shift`, `Truncate` | `delete_file` with a filecheck, and without one (nju09 `del_record`) |
| `Open`, `Flock`, `Read`, `Put` | `update_file` with `cpyfilename` |
| `Open`, `Excl`, `Copy`, `CopyFails`, `Retire`, `Promote` | `delete_record` (called in a loop by `m_new`), `delete_range` |
| `Open`, `Wipe`, `Load`, `Sift`, `Flush`, `Swap` | `bbsdelmail` of nju09, through stdio: read at the first `fread`, written at `fclose` |
| `Crash` | a kill; the kernel drops the flock, `.tmpfile` stays |

`harm` records which of seven things has happened: an operation on a file that was
already replaced (`orphaned`), one while a copy of the file is made or waits to replace it
(`overtaken`), an append or a store during an in-place deletion (`truncated`), a position or
content that was out of date (`stale`), a kill in the middle of a deletion (`crashed`), a
`.DIR.tmp` that is opened anew while another request writes it (`mingled`), a full disk that
`bbsdelmail` did not notice (`short`).  `IndexKeepsPosts` and `FlagsKept` then say that *these
seven, and nothing else*, lose or revive an entry.  This is the useful half of the truth about
this code: the races are inherent in its four ways of changing the file, and the models name them.

### Messages

`inbox` is `msgindex2`: a counter of the messages handed out and their heads, and the
number of files of that name unlinked so far; `content` is `msgcontent`, a text being the
message it belongs to.  `snd` and `ses` hold the step and the locals of senders and of
sessions, `tty` the flags of a telnet process: blocked, `have_msg_unread`, which
handler SIGUSR2 has, a signal that is pending.

| steps | code |
|---|---|
| `Send`, `Post`, `Kill`, `SenderDies` | `sendmsgfunc`, `save_msgtext` with its two locks, the signal |
| `HandleSignal`, `StartLoop`, `Count`, `TakeRead`, `TakeWrite`, `LoadHead`, `LoadText`, `Done` | `r_msg`, `get_unreadmsg` (a read lock, a read, a write), `load_msghead`, `load_msgtext` |
| `BeginEdit`, `EndEdit`, `CtrlZ`, `EndBrowse`, `FromMain` | the editor, `r_msg2`, `unblock_msg` |
| `GetMsg`, `Login` | `bbsgetmsg`, the message each login takes |
| `Clear1`, `Clear2`, `Clear3` | `clear_msg`, which unlinks without a lock |

`hist` remembers what was shown, what overlapped and which sends a clearing tore apart.

### ListFile and NameLists

A list is lines and an unterminated rest; a line is a word, spelt in syllables, and a
tail that tells a denial's date.  Words are spelt because the deletion looks for
"id\n" and finds it at the end of a longer id as well.  A path leads to an inode; the
deletion writes a new one and renames it, the addition writes its buffer after it has
dropped its lock.  `NameLists` runs these calls for the telnet managers, has the web load
a whole list and write it back, and cron rewrite the file in place.  A behaviour is about
one list, `subject`; the two share no state but the code of the calls.

| steps | code |
|---|---|
| `Calls` run through `AddOpen`, `AddLock`, `AddWrite`, `DelOpen`, `DelCopy`, `DelRename` | `addclubmember`, `delclubmember`, `addtodeny`, `deldeny` |
| `WebLoad`, `WebEmpty`, `WebWrite`, `WebKilled` | `bbsdenyadd`, `bbsdenydel`, `savedenyuser` |
| `CronStat`, `CronRead`, `CronWrite` | `autoundeny` |
| `Login` and the visits of a session | `clubsync` and the rights it repairs |

### MoneyBank

`val[u]` holds the numbers that the code keeps in one file each.  `win[w]` is a telnet
process: where it waits (`at`), what it was asked, and the `saveValue` calls it has still
to make (`todo`).  Each call is two steps: `Load` reads the number into `reg`, `Store` writes the
sum.  The check that comes before (`money < total_num`) reads the same file on its own, in the step that
takes the order, so other processes may store between the check and the load, and between
the load and the store.  What the check found (`had`) is kept for the history: a second
window that spends the money in between leaves the payer with nothing less than
zero, the payee with all of it, and the bank short.  The police look at their money before they ask for a suspect
(`Suspect`) and pay after that dialogue (`Accuse`), without a second look.  Integers wrap at `IntMax` as the int
parameter of `limitValue` does: the sum of two dates is negative and counts as nothing.
Interest is zero, and the number of robberies that a term is counted by is not kept: a
term has any length of `Days`, and any suspect may be guilty.

| action | code |
|---|---|
| `Knock`, `Bail`, `Debt`, `Due`, `Leave`, `Gone` | `check_allow_in` with its waits, `moneycenter`, `moneycenter_byebye`, a lost connection |
| `Transfer`, `Deposit`, `Withdraw` | choices 2 and 3 of `money_bank` |
| `ViewLoans`, `TakeLoan`, `ChooseRepay`, `AskRepay`, `Repay` | choice 4 |
| `AskSalary`, `TakeSalary`, `List`, `PayDay`, `AskSpecialLoan`, `SpecialLoan` | salaries and the manager of the bank |
| `Suspect`, `Accuse`, `Catch`, `Surrender` | `money_cop` |
| `Load`, `Store` | `saveValue` |

`ledger` says what all the money should come to.  `amiss`, `muddled`, `seized` and `slipped`
record the ways in which the code goes wrong, and the properties say that there are no
others: `amiss`, saves that overlapped or were cut off, and payments whose money was spent
between their check and their load; `muddled`, loans granted at a time,
and "repay" chosen without a loan or long after the date, which adds tomorrow to a date
that was not erased (`moneycenter.c:1116`); `seized`, a second arrest, whose date is added to
the first (7574) and frees the prisoner; `slipped`, a second window that looked at `multex`
before the first had set it.

### ReadMarks

The marks of a board are a descending list of post times; what is older than the last is
read.  A file is a sequence of cells, one for the head of a board's record and one for each
mark, so that it has a size, and writing a short file over a long one leaves cells behind.
`brc` holds the marks of one board: `brc.telnet` in a `bbs` process, `brc.web` in the session
entry that all requests of a web session share.  `kept` are the records of all boards that a
telnet process keeps (`allbrc`), `hand[p]` what a process is about to save and the file
it has open, `cron` where `save_brc` is.  `Crews` are the sets of processes that are there.

| action | code |
|---|---|
| `Enter`, `Look`, `ClearTo`, `Update`, `List`, `EndList` | telnet: `brc_initial`, `SETREAD`, `clear_new_flag_quick`, `brc_update`, the lists of boards |
| `Request`, `Show`, `Clear`, `EndRequest` | nju09: `brc_initial`, `brc_add_read`, `brc_clear`, `brc_update` |
| `Fetch`, `FetchWild` | `api_article_get_content`; the second with the field `cur`, which nobody has set, below zero |
| `Open`, `Write`, `Rename` | `brc_fini` |
| `Copy`, `Unlink`, `Sweep`; `Kill` | `save_brc`; a process killed anywhere |

The loading of a file and `brc_putboard` are one step with what comes before: they change
nothing that others see.  `hist` says what the user has read or cleared (`seen`), what a
full list pushed out (`aged`), and the ways in which the code spoils marks: two saves in one
`.tmp` (`mixed`), the API's uninitialised field (`wild`, `wrecked`), and two requests that mark posts in
one list (`crossed`).

With a negative `cur`, `brc_locate` goes up through the memory before `list`, and where it stops
`brc_insert` moves everything from there to the end of the list one place up and stores the time there.  So the
OLD marks stay, with something foreign in front (`Junk`): a list that need not descend.  Further down
the place where the time goes is the name of the board (`Garbled`: the record is then filed under
another name, which is assumed not to be that of a second board), and below that `cur` and `num`: with
a wrong length `compress_brc` reads and `brc_putboard` writes over the bounds of their arrays, and what
is in the file then is anything (`Wrecks`, `wrecked`); nothing is claimed after that.  The same goes for foreign bytes
so far below zero that their difference to a mark does not fit an int (`Junk` stands for the
others): the difference wraps, and the list may come back from the file as it was, going up.  Any other list that goes up at
its first step does not stay so: `compress_brc` stores differences of which it
keeps the lowest byte (`Coded`, with the constant `Byte` for 256), so that `uncompress_brc` yields a
descending list again, of other marks.  That is what `FileWhole` says of such files, and not by the shape of the
model; `ReadHasCause` and `LostHasCause` have to except the boards of `wild`.  Equal marks may stand next to each
other, since a post may be as old as what lies before the list.

### Chat

The daemon is one thread: a step is one line of one client, with all it changes.  `users` and
`rooms` are its two arrays; a slot keeps the number that invitations are filed under.
Permissions are the few bits that the commands ask for; `op` is PERM_CHATROOM, which is
PERM_CHAT in the level that a client sends and is taken away when he first enters.  A
chatid is looked up with the eyes of the slot it is asked for, in `login_user` and `chat_nick` with
those of slot 1 (`chatid_to_indx(0, ...)`).  What is typed too long is cut when it is stored: a
room's name (`Stored`), at login a userid (`StoredId`, 13 characters) and a chatid (`StoredChat`, 8),
and these three are *compared* uncut (`roomid_to_indx`, `station.c:669`, `683`), while `chat_nick`
cuts first.  `is_valid_chatid` looks at the characters only, and a login line need not be the one
that the client makes: `/e` leaves the room and keeps the connection, and a line that is typed
then, `/! 1 0 x abcdefghi 0` for one, is sent as it is.  So level and cloak are whatever the line
says (`Levels`).

| action | code |
|---|---|
| `Connect`, `Disconnect`, `WrongLine`, `Login` | `main`, `process_chat_command`, `command_execute`, `login_user`, `logout_user` |
| `EnterRoom`, `LeftUsers`, `LeftRooms` | `enter_room`, `exit_room`, parts of the actions that call them |
| `Goodbye`, `Join`, `SetRoom`, `Nick`, `Cloak`, `Kick`, `MakeOp`, `ClearOps`, `ClearOp`, `Invite` | the commands of `chatcmdlist` that change a table |

Four variables are history: `asked`, the connections that an operator asked into a room and that
have not come yet (a connection is its slot until it ends); `appointed`, the rooms
where a sysop made an operator without being one; `blind`, whether a chatid was accepted while
slot 1 overlooked a cloaked client; `shortened`, the userids and chatids that a login kept of
longer ones.

## 3. The runs

| run | question | result |
|---|---|---|
| `session` (`SessionCache.cfg`) | do rows, array, keys and processes agree under logins, evictions, sweeps, crashes and a failing Redis?  does the cache implement `Sessions`? | holds |
| `session_steps` (`SessionSteps.cfg`) | what survives when the steps of insert and remove interleave and workers are killed? does every call end? | holds |
| `registry` (`UserRegistry.cfg`) | how stale may the user table be, and what does that cost? | holds |
| `records` (`RecordFile.cfg`) | what loses entries of `.DIR`? | six named races and a full disk only |
| `session_full` | does a login into a full array fail cleanly? | violated |
| `session_logout` | does a logout end the caller's own session? | violated |
| `messages` (`Messages.cfg`) | is each message shown once, as sent, and in the end? | holds, but for the named overlaps |
| `lists` (`NameLists.cfg`) | which changes of members and denials are lost? | the named races only |
| `money` (`MoneyBank.cfg`) | when do books, loans, terms and salaries come out right? | unless saves overlap, in the named ways |
| `marks` (`ReadMarks.cfg`) | when are read marks lost, or posts marked that nobody has read? | in the named ways only |
| `chat` (`Chat.cfg`) | do the tables of the chat daemon agree, and do rights, locks and names hold? | holds, names up to those that a login cuts and, for chatids, while slot 1 sees all |
| `user_record` (`UserRecord.cfg`) | which saves of the PASSFILE record put old values back? | stale copies only |

### Properties

*Session cache.*  `IndexExact`: every index in a row names an active entry of that
user, none twice, and every web session and every session a living process holds is
indexed.  `KeyPointsHome`: an active session's id is unique and its key leads
to it.  `ProcessKeepsEntry`: the slot a living process remembers is its own, so
`update_utmp` and `u_exit` never hit somebody else.
`ServesSessions`: the refinement of `Sessions`, by which a login costs at most one web session
of its user, nobody holds more than his quota, and a session that has ended stays ended.
*Steps.*  `UnindexedInHand`: an active session outside its row is in the hands
of a worker, or of one killed there.  `InsertExclusive`: nobody else inserts into
a claimed slot.  `EveryCallReturns`: liveness.
*Registry.*  `NoHole`: the cache never counts more records than PASSFILE has.
`CacheLag`: it misses records of one second at most.  `OverwriteOnlyInWindow`: a
record is overwritten only if it is that young.  `RegisteredCanLogIn`: the hash
table finds every other user.
*User records.*  `OnlyStaleSavesUndo`: a permission or a count is undone only by the saves that
`set_safe_record` does not protect or that were overtaken.  `PasswordSticks`: a password that was set
while nobody else had a copy of the record is never replaced by an older one.
*Records.*  `IndexKeepsPosts`, `FlagsKept` as above; `OneRewriter`: two processes never
copy into one `.tmpfile`, and `.DIR` is missing only between the two renames of one;
`LocksReleased`: no path leaves the flock behind.
*Messages.*  `RightText`: a head leads to its own text.  `FreshHead`: a session shows the
message it took.  `NoneSkipped`, `OnceUnlessOverlap`: handed out once, and shown.
`BlockedHasCause`, `Prompt`: nothing blocks messages for ever, and a signalled message is taken.
*Lists.*  `ListsAgree`: clubrights and club_users agree on everybody whom no race has
touched.  `VisitHonoursList`: after a visit a session has the right the list gives.
`BystandersKept`: a change of one user leaves the others, but for ids that end alike.
`DenialEndsByRight`: a denial goes by a deletion or its date, or by a race that `missed`
names.  `ExpiredLifted`: a denial that is over is lifted in the end.
*Money.*  `BooksBalance`, `LoanFallsDue`, `TermServed`, `SalaryOnce`, up to what the history
variables name.
*Read marks.*  `ReadHasCause`: a post that counts as read was read, cleared or older than what a
full list has room for, and the quick test of four marks errs on that side only.
`LostHasCause`: a post becomes unread again only by a save that was out of date or that renamed
another's `.tmp`, for want of room, or when `save_brc` unlinks what it has not copied.  `FileWhole`: the file can be
read to its end unless two saves went into one `.tmp`, and its lists descend whatever the API had before its own.
All three except what the API's wild calls explain.
*Chat.*  `TablesAgree`: a room's count is its clients, a free slot has nothing left, a userid is in
once unless a login was given a longer one.  `LockHolds`: who enters a locked room was asked in on
this connection, since the room was opened and since he last came, or is a
master.  `OneOp`: one operator a room, none in the main room, unless one was appointed.
`ChatidsUnique`: two clients have one name only after slot 1 was blind or after a login was given
a longer one.

The type invariant of `SessionCache` is a property of its own; elsewhere types are the first part of
another (`RegisteredCanLogIn`, `IndexKeepsPosts`, `OnlyStaleSavesUndo`, `RightText`, `ListsAgree`,
`BooksBalance`, `FileWhole`, `TablesAgree`);
`SessionSteps` types what `SessionCache` does.  Every property has a mutant, an operator
next to the one it changes (`IndexKeepsLock`, `SweptRowKept`, `ExclTruncates`, ...): a
plausible bug in the code, under which TLC finds the property violated.

### Bounds, and why they are enough

- `SessionCache`: 2 users, 2 slots, one position for telnet and one for the web in each
  row, one process number, time up to 3, 3 logins; 685,000 states.  Two slots are the smallest
  array that can be full, wrap and be reused while another session lives; one web position makes
  the second web login of a user evict; three logins are enough for "A logs in, B takes
  over, A's cookie comes back".  All periods are 1 or 0, so that every timeout can
  pass or not within the bound.
- `SessionSteps`: 2 workers, 2 slots, 3 sessions.  Races here are between one inserter
  and one remover or two inserters; a third session makes slots change hands.
- `UserRegistry`: 3 ids, 2 records, 2 hash items with all ids colliding, 2 workers, time
  up to 4 starting at 2.  The table fills up, records are freed and reused, and two
  registrations fall into one second or not.
- `RecordFile`: 2 workers, 2 initial entries, 3 calls of any kind, 2 flags; 2.2 million
  states.  A race needs two calls, a stale position a third in between; two flags
  tell a lost flag from a kept one.
- `UserRecord`: two windows, a request and a manager, one bit of each kind, four operations or logins; 1.4
  million states.  Two windows are enough for one to be told of what the other saved; with
  two others a window can be overtaken by a save that was itself overtaken; four operations
  are a login of each window, a new password and a save that comes after it.
- `Messages`: one telnet and one web session, one sender, two messages, one clearing, two
  logins; 390,000 states.  Two sessions are enough to take one message twice, two messages
  to skip one, and the quota is 0 so that it is reached.
- `NameLists`: three users, of whom `xbob` ends in `bob`, two clubs with numbers like that,
  two managers on telnet and two on the web, two requests, lists of one to three, at most
  two denials loaded and one more refused; 201,000 states.  Every race takes two
  requests.
- `MoneyBank`: a customer with two windows, or with one beside the manager and
  policeman, or with one alone; a loan or a term that ends today; two requests, one day,
  sums of 1, money up to 4; 1.4 million states.  One connection is lost where she is alone, and
  where she has two windows and neither a loan nor a term at the start; the other setups of
  `MCSetups` start with `gone` at its bound, as a lost connection multiplies their states by four to nine.  Two
  requests are two loans, a loan and its repayment, two arrests or two salaries.  `Epoch`
  16 and `IntMax` 24 keep the one relation of dates to ints that matters: two dates
  do not fit, a date and a term do.
- `ReadMarks`: two boards, lists of two marks, three times of which two are neighbours
  (`shorter_brc` looks for these), a file with room for two short lists or a long one and a short one; telnet
  with the API, telnet with a request, or two requests; four things the user does, one kill,
  one move by cron; one name that is no board's, foreign bytes older than all marks, one
  file with a list that goes up, and 2 for the byte that differences are cut to; 1.0 million
  states.  Two boards are needed to lose one while saving the other, three times to push a mark
  out of a list of two, and every race is between two processes.
- `Chat`: two slots, the main room and one more, a sysop who may cloak himself, a member,
  and one without any permission whose userid is the member's when it is cut, two chatids and one
  that is cut to the first, room names of which one is cut; 518,000 states.  Two slots are enough for an
  invitation whose slot changes hands, a second login, a kick, a cloaked client before one
  with his name, an operator who comes back; with one room the daemon is soon full.  Nothing but the
  number of states keeps this from three slots, and the theorems are about any number.  `VIEW`
  leaves out what a closed room remembers, which is overwritten when it opens, and which chatids were
  cut once slot 1 was blind, when nothing is said of chatids any more.

Symmetry is used on workers, ids, a user's windows, his requests and the others who save his record only, in safety runs only, and these
are interchangeable in every definition (`Home` maps all ids to one item).

Deadlock is checked for the session cache, the registry, the user record and the record files: `Quiet` in
`SessionSteps` and `RecordFile`, `Rest` in `UserRecord`, is the state in which all calls are made and have returned;
any other halt is an error.  In `Chat` somebody can always connect
or leave.  `Messages`, `NameLists`, `MoneyBank` and `ReadMarks` bound what is asked for,
and stop when all that was asked for is done; no action of theirs waits for another
process but for the locks of `ListFile`, which are held over one step.

### Fairness

`SessionSteps` states weak fairness of each worker's own steps, since processes and threads
are scheduled.  Nothing says that anyone logs in, logs out or
crashes.  `TakeLock` is a step like the others, and weak fairness is enough for
it because at most `MaxSid` logins are ever started, so the lock cannot be fought over
for ever; in the code the kernel queues those who wait.

`Messages` has weak fairness of the steps of a session that is taking or clearing messages
and of the loop of a telnet process, which is signalled or looks by itself; nobody has to
read, edit or clear anything.  `NameLists` has weak fairness of cron, because the crontab runs
`autoundeny` every two hours (`doc/System_Maintenance/BMYBBS权威安装文档.txt:87`).
`RecordFile`, `UserRecord`, `UserRegistry`, `MoneyBank`, `ReadMarks` and `Chat` state none.

## 4. Findings

`findings` in `PROJECT.json` quotes the sentence of the repository each contradicts.

1. `utmp_insert` notices a full array only if it probes from slot 0 (`cache/utmp.c:78`);
   otherwise it overwrites the last slot examined and publishes the next.
2. `ythtbbs_user_logout` may clear a session that is not the caller's (`user.c:818`).

Found on the way and excepted by name in the properties that pass: `x_cloak` and `x_info` bring back
permissions that were taken (`xyz.c:688`, `userinfo.c:462`), and every save of a window an old
password and old options (`OnlyStaleSavesUndo`); two registrations
between reloads overwrite each other (`user.c:1049`, `OverwriteOnlyInWindow` says when); an id
registered again keeps its old number in the hash table (`cache/user.c:634`,
`RegisteredCanLogIn`); removing the only text of a list fails (`fileop.c:469`) and leaves it, while
the managers' notices announce that it was done (`bm.c:470`); `deldeny` never lifts a
denial, because a denial has its reason behind the id and the call looks for "id\n" (`bm.c:218`,
proved as `TelnetLiftsNothing`), a changed one is on the list twice, and the notice goes out (`bm.c:305`); two sessions take one message (`msg.c:375`); a deletion cuts the end of a
longer id (`fileop.c:452`); a second arrest frees the prisoner, and a loan after an idle
"repay" never falls due (`moneycenter.c:7574`, `1116`); an eviction leaves the Redis key
(`cache/user.c:185`), whose cookie then leads to whoever has the slot; marks of read posts are
lost or mixed in the ways that `hist` of `ReadMarks` names, and nothing sets `cur` for
the API, which puts foreign bytes among them (`api_article.c:920`); money is checked in one read and
paid with another, so that two windows pay with the same money (`moneycenter.c:849`, `861`, and 7450, 7496
with a dialogue between); a chat login compares names whole and stores them cut, so that two
clients get one userid or chatid (`station.c:669`, `683`, `710`).

Found by reading and not run: `.DIR` need not be sorted by filetime, since `append_record` comes
after the filetime is reserved (`record.c:112`), though `Search_Bin` (`article.c:424`) halves it;
`bbsdelmail` unlinks the texts of sent mails in the
directory of received ones (`bbsdelmail.c:60`);
`ythtbbs_user_login` sets `lastlogin` before it compares days, so that `numdays` never
grows there (`user.c:663`), and a telnet login counts `numlogins` and `stay` twice.

## 5. Proofs

TLAPS proves the following for every value of the constants that satisfies the named
assumptions (`TableAssumption`, `CacheAssumption`, `StepsAssumption`, `RecordAssumption`, `RegistryAssumption`,
`UserRecordAssumption`, `MessagesAssumption`, `MoneyAssumption`, `ChatAssumption`, `HomesAssumption`,
`NameListsAssumption`: sizes are
natural numbers, home slots are slots, a row has finitely many positions, no user has uid 0,
no process pid 1, ...).

**`SessionCacheProofs`: `TypeCorrect`, `IndexAlwaysExact`.**  For any number of users, slots,
positions, types and processes.  The inductive invariant is

    IInv == TypeOK /\ Owned /\ Exact while nothing was overrun

`IndexExact` alone is not inductive: a logout works on `rows[utmp[i].uid]`, so an active
entry must have an owner, and a slot counts as free when it is inactive *or has pid 0*,
so an active entry must have a pid, or the probe would claim a slot that is still in a
row.  `Owned` says both.  The argument goes operator by operator: `SweepExact`, `RemoveExact` and
`PlaceExact` say that the sweep, `utmp_remove` and the placing of a new index take exact
tables to exact tables; each action is then one of them or leaves the index alone.
`FreeUnindexed` is the heart of it: a slot that the probe finds free is in no row,
which is why placing the new index there makes no duplicate.

**There too: `SessionKeysHome`, `ProcessesKeepEntries`.**  On top of the first,

    OInv == TypeOK /\ (broken = {} => Mine /\ OneEntry /\ KeysHome /\ CookiesWeb /\ Drawn)

`Mine` is `ProcessKeepsEntry`, `OneEntry` and `KeysHome` make up `KeyPointsHome`.  They need
each other and two facts more: a cookie names a web session (`CookiesWeb`), or a logout by
cookie could end a process's session; and an id in use has been drawn (`Drawn`), or a
new one could meet it.  An eviction takes web sessions only and the sweep asks whether
the process lives, so a living process keeps its slot: `FewerOurs`, `InsertOurs` and
`SweepSpares` say what a step that frees slots, fills one, or sweeps does to all five parts.

**There too: `CacheServesSessions`, the refinement.**  The cache implements `Sessions` for any
number of users, slots and positions, with all its failures:

    RInv == IInv /\ OInv /\ (Home(utmp, rows) while nothing was overrun)

`InitPromise` maps the initial state, `NextPromise` every step of an undamaged cache to a step of
`Sessions` or a stutter (a damaged one takes the step `Void`), and each action is one of four:
`Aged`, `Refused`, `Closed`, `Opened`.  The login is the one that costs work.  `OpensTable` says
what it did to the table (one slot new, at most one web session *of the same user* put out, those
due cleared); since no two active entries have one id (`OneEntry`), the sets of sessions differ
by just these.  `QuotaKept` is the bound on web sessions: every web session has a position in its
user's row (`Complete`), and that position is one of the web's (`Home`, which is the new invariant:
a telnet segment never comes to hold a web session), so they inject into `WebPositions`.

**There too: `StepsExclusive`, `StepsUnindexed`, `StepsLock`.**  They are about `SessionSteps`, for any
number of workers, slots and session numbers.

    StepsInv == StepsTypeOK /\ LockHeld /\ ClaimOwned
                /\ InsertExclusive /\ UnindexedInHand

`LockHeld`: `.CACHE.utmp.lock` is held by whoever lives and is between its `fcntl` and its
unlock.  `InsertExclusive` follows from it while insertions meet insertions; `UnindexedInHand`
needs `ClaimOwned` as well, that between the claim and `add_utmp_idx` the slot still has the uid of
the login, or the index would go into a row where nobody looks for it.  What makes these steps
worth a proof is that `utmp_remove` and the second half of a logout take no lock: each
of their steps may fall between any two of an insertion.

**`MessagesProofs`: `MessagesText`, `MessagesFresh`, `MessagesShown`, `MessagesOnce`,
`MessagesBlocked`.**  For any number of sessions, senders and messages.

    IInv == Structure /\ Texts /\ AllFresh /\ AllCovered /\ InTurn /\ Flags

`Structure` are types, what a session at each step has in hand, that each message is listed or
being sent once, and that each call of `clear_msg` is counted, so that the names of files do
not come back.  `Texts` is `RightText` with the sends under way: once a clearing stands between its
two `unlink`s, no head is left that would miss its text.  `AllCovered` is `NoneSkipped` with the writes of
the counter that are still to come.  `InTurn` says why nothing is handed out twice until two calls of
`get_unreadmsg` overlap: the counter is where the last call put it, and every message taken is
below it.  `AllFresh` says it for what a session loads; `Flags` is `BlockedHasCause` inside `r_msg` and
`r_msg2`, where the old state of `block_msg` is a local variable.

**`RecordFileProofs`: `RecordTypes`, `RewritersExclude`, `NoLockLeft`.**  For any number of
workers, calls, entries and flags.

    IInv == TypeOK /\ LockHeld /\ LockExclusive /\ InHand /\ OneRewriter /\ Apart

`LockHeld` says who holds the flock at which step and gives `LocksReleased`.  `InHand` says that
the positions and files in a job exist.  `LockExclusive` (two holders of the flock have
different files) is needed even for types: `ftruncate` to the size read minus one would
*extend* the file if another in-place deletion had shortened it in between.  `Apart` says that the
`.DIR.tmp` of `bbsdelmail`, which each of its calls truncates, has never been `.DIR`, so that
nobody is shifting entries in it.
`AfterOthers`, `LocksKept`, `HandKept` and `RewritersKept` say once what a step of one worker does
to the parts of the invariant that speak of the others; each action has one lemma
`<Action>Keeps`.

**There too: `RecordKeepsPosts`, `RecordKeepsFlags`.**  On top of it,

    Sound == TmpApart /\ AllIntent /\ (harm = {} => Calm)
    Calm  == HistoryOK /\ NewKeys /\ DirGood /\ OneWeb /\ \A w : Facts(w)

`Good(s, d, log, fl)` says that `s` is what `.DIR` should be after the appends in `log`, the
deletions in `d` and the flags in `fl`; `IndexKeepsPosts` and `FlagsKept` together say it of `.DIR`.
It is not inductive, since each of the four ways of changing the file relies on something it read
before, and `Facts` says for every call under way what that is:

- `Saw`: the positions a caller was given still have the entries he saw, unless he was told
  (`stale`) that the file has changed;
- `ToShift`, `ToCut`: between the copy that `delete_file` makes, the move and the `ftruncate`, the
  file is the copy, then the copy with one entry squeezed out; nobody copies it meanwhile;
- `ToPut`: the position of the tombstone is there, with the entry that was read;
- `Copying`, `Replaced`: `.tmpfile` is what a rewriter has made of the part it has passed, and at
  the end what `.DIR` should be once its deletions count.  `m_new` calls `delete_record` for one
  position after another, the last one first: `Aligned` says why the next position is still right;
- `OnWeb`: `.DIR.tmp` and the buffer of `bbsdelmail`, which it has for itself.

The proof divides the steps.  Most leave `.DIR` and what others have in hand as they were
(`Undisturbed`): `QuietStep` and `StepAlone` settle what they do to everybody else, and only `Facts` of
the one who moves is left.  The others (an append, a flag, a shift, a cut, a tombstone, a rename) either
meet one of the races `harm` names or find no one who would be disturbed: `LoudStep`,
`ChangedInPlace` and `Exchanged`.  What each does to the sequence itself is proved of any
sequence: `GoodAppend`, `GoodStore`, `GoodTombstone`, `GoodWithout`, `CopyStart`, `CopyDrop`, `CopyKeep`,
`CopyEnd`.  So the seven races are not only the ones TLC met on one small file: there is no eighth.

**`UserProofs`: `RegistryNoHole`, `RegistryCacheLag`, `RegistryOverwrite`, `RegistryLogIn`.**
For any number of ids, records, workers and any hash function.

    IInv == FileOK /\ ClockOK /\ Tables(cache) /\ JobsOK
            /\ Lag(cache) and Held until a registration was overwritten
    HInv == types /\ ItemsOK(cache.items)
            /\ Single, Owned and Reached until one was overwritten or an id doubled

`NoHole` is not inductive: a registration enters its id into the table some steps after it
chose the record.  `Tables` says that the table is not
ahead of PASSFILE or of the clock; `Lag` is `CacheLag`, stated for any table; `Held` says that the record a
registration was given exists and has its id until one is overwritten, which
is what `SetUserId` and `Resolve` need.  `AllocateKeeps` does the work: `searchnewuser`
returns a record that the table takes for free or the one after its last, and by `Lag` a
registered user can only have it if he is younger than the table.

`HInv` is what `RegisteredCanLogIn` needs of the hash table.  `Owned`: an item of an id that never
expired points to the record that has this id.  `Single`: no id has two records.  `Reached`: the
probe for a settled user finds an item of his, or no item that is free.  An insertion may
take over an item that was of the same record; by `Owned` the one who loses it has expired
(`InsertSpares`), so whoever was reached stays so.  `Rehash` is a recursive function, hence a
CHOOSE: `TurnsExist` shows that there is a function of that shape, and `RehashReaches` that after `n`
turns the first `n` records are reached, both by way of the least number for which it is
false.

**There too, about `UserRecord`: `OnlyStale`, `PasswordStays`.**  For any number of windows, others,
permissions, options and operations.

    RecordInv == RecordTypeOK /\ Current /\ Blamed(spoilt) /\ Sticks

`Current` says what a process is about to save: as long as nobody has saved since it began, the
record of the file, or the fields of it that `set_safe_record` reloads.  `Sticks` strengthens
`PasswordSticks`: not only the file and the open windows but every job in hand has the new
password.  It starts to hold when somebody who is alone sets one, because then there is no other
copy, and every later copy is made from the file or from one of these.  A step begins a job,
ends it with a save (`SaveStep`, `PasswordStep`) or drops it (`DropStep`), and each action is one of
these or, in `CloakStep`, a save at once.

**`ChatProofs`: `TablesAlwaysAgree`, `LocksHold`, `OneOpAlways`, `ChatidsStayUnique`.**  For any
number of slots, rooms, users, names and chatids, and any way of cutting names.

    IInv == Good(users, rooms, asked, appointed) /\ types of the history
                                                 /\ Distinct(users, blind, shortened)
    Good == types /\ Counted /\ FreeSlots /\ Invited /\ Ruled

A handler calls `exit_room`, `enter_room` and `logout_user` one after the other on the two
tables, so every part is an operator of tables, and `LeftGood`, `OpenGood`, `SitGood`,
`EnterGood` and `LogoutGood` say what one call does to good ones, those between two calls
of one command included.  `Invited` is the heart of the lock: each invitation in a room is in
the book of those who were asked, from which the end of a connection strikes it.  `Distinct` is
about names: at login the userid that is found in nobody is the one that is stored, or the stored
one is entered in `shortened`, which only grows.  `FirstIn`, that a non-empty set
of slots has a first, is what turns "no such chatid was found" into "there is none".

**`MoneyBankProofs`: `BooksHold`, `LoanHolds`, `TermHolds`, `SalaryHolds`.**  For any number of
users, windows, sums and days.  `MoneyAssumption` says of the numbers what the code has: sums
twice over fit an int, two dates do not (since 2004), a date and a term do; terms and loans end
within `Far`, beyond which the code takes a date for a mistake (terms come to 50 days at most, the
mistake begins there, `moneycenter.c:540`; loans run 3 to 30 days, 5000 hours are a mistake).

    Base  == Typed /\ \A w : Fits(win[w])
    Books == Base /\ (\A w : Sane(win[w]))
             /\ (~amiss => (\A w : Covered(win[w])) /\ Total(val) + Sum(Tallies) = ledger)

`Base` says where a window is and which saves its operation may still make: a mark and an
entry of the salary list are the user's own, a term comes last, and what is loaded fits the save.  Every
action keeps it, and each of four invariants is about what is still ahead of the windows:

- `Books`: what is stored and what is still to be stored make the ledger.  Only the first two
  saves of a script are about money, the second gives, and the first takes no more than its check
  found (`Sane`).  What it loads may be less, which is `amiss`; unless it is, what is loaded is enough
  (`Covered`) and no save stores less than nothing.  Without the check of the fee the first
  save takes more than was found: the mutant `TransferFree`.  `Total` is a
  fold; `SumExists`, `SumsDiffer`, `SumStep` say that it is a sum, by way of a smallest
  subset for which it would not be.
- `SalaryInv`: one window of a user is inside (`OneInside`), the mark of another keeps it
  alone (`MarkSet`), whoever was paid is listed or about to be (`PaidOnce`).
- `TermFine`: one arrest at a time, of somebody free; what is added to the date is a term.
- `LoanFine`: one script about a loan of a user at a time (`LoanPlan`), and the four numbers
  are those of its place in it (`LoanState`), sound before and after.

**`ReadMarksProofs`: `RecordsWhole`, `MarksHaveCause`, `MarksLostForCause`.**  For any number of boards, times, marks, requests
and crews.  `HomesAssumption` says that the user's file is at first one that `brc_fini` wrote: it fits,
can be read to its end, and has one record of each board.

    IInv == HistOK /\ Page of every file and copy /\ MarkOK of both lists in memory
            /\ \A p : HandOK(hand[p])       \* with SaveOK from Saving to Rename
    Page(c) == Sheet(c) /\ Len(c) <= MaxSize /\ each head in c is Just
               /\ (hist.mixed \/ Whole(c) and Distinct(Records(c)))
    Safe == IInv \/ Wrecked

`Wrecked` is the state after an API call has written over its own list, or put foreign bytes there that
make it go up, and has saved that: `StepInv` leads `IInv` to `IInv` but for that step, and `WreckStays`
keeps it on record.  Every other wild `cur` is inside `IInv`: `JunkFine` takes the bytes put in front of a list
through `shorter_brc` and through the compressed form of the file.  There the difference of the first two
marks is cut to a byte or to what the form can hold, so `CodedFalls` says that a list that descends from
its second mark on is read back as one that descends from its first, and `CodedFine` that a
list that descends anyway is read back as it was.

Neither property is inductive: they speak of the file that is visible, but a copy that telnet or
a save under way has may become that file much later, and a save into a `.tmp` with longer
contents leaves cells of two files in a row.  So `Page` speaks of *every* cell that is a head, also of
those that no reader reaches now (`Sheet`): what a later overwriting or a shorter record brings to light is
a well-formed list, each of whose read posts has a cause (`Just`).  `OverPage` is
the write over a longer file, `PutFile` the rebuilding of the file around one board, `AppendParsed` and
`ParsedGood` say what reading a file from its start yields; `InsertFine`, `ClearedFine` and
`ShorterFine` that the three operations on one list keep it descending and what each adds to the posts
that count as read.  `Parsed` and `Put` are recursive functions, hence CHOOSEs, and are shown to exist by
induction on the length.  `Grown` says that `hist` only grows, so what was just stays just.

TLC checked this invariant on the run `marks` before it was proved.  The proof asked for one
change of the model: a request that shows a post marks it in the list its session has *now*, while
the user saw it on the board he asked for; `Crossing` had recorded only the former.

`LostHasCause` speaks of one step, and asks of the file that is renamed what holds when a save is
put together: the list in memory still has what was read when it was got (`Covers` in `MarkOK`;
`InsertFine`, `ClearedFine` and `ShorterFine` say that the operations lose nothing), and so does the file about
to be written, of the board if its marks were based on the records it is put among (`SaveOK`), and of the
others unless they were dropped (`PutMarks`, from `Made`: each record of the new file is the board's
or one of the old).  `SaveKeeps` carries that to the rename, where nothing is excused only if the file is
still the one that was read.  The attempt showed that the property was false as it stood, for *three*
processes: one renames the `.tmp` that a second has open, the outdated save of a third brings the visible
file back to what the second one had read, another `.tmp` is opened, and the second renames that, empty.
Its own copy is not out of date by then, so `Excused` names this cause apart (`Foreign`); TLC followed that
behaviour with three processes, the run `marks` has two at a time and does not meet it.

**`NameListsProofs`: `ListsAgreeHolds`, `VisitHonoursListHolds`, `BystandersKeptHolds`,
`DenialEndsByRightHolds`, `TelnetLiftsNothingHolds`.**  For any users, managers, sessions, web requests, spellings,
lengths of denials and sizes of tables.  `NameListsAssumption` says of the ids that no two users
are spelt alike and none has the empty spelling; that one id may end another stays possible.

    Base == FilesOK /\ CallsOK /\ RestOK /\ LocksOK /\ JobsOK /\ HandsOK
            /\ CronOK /\ Apart /\ Seated /\ WebOK
    ListsInv, VisitInv, DenialsInv == DenyInv /\ WebInv /\ CronInv

`Base` has the types (a tail is the date of a denial made by now, so its sets grow with the
clock), how much of a job is left (`JobsOK`), and what a call has in hand (`HandsOK`).  `Apart` is what makes lists
separate at all: an inode that a path leads to, that a call has open, or that cron holds is held for one
path only, also when another process has renamed a new one over that path meanwhile.  With it
`StepContent` tells what one step of a call does to the lists as others see them: nothing
(`GoesOn`), nothing and the call is over (`Fails`), a line more (`Appends`), or the file is now the copy
without the word (`Renames`), which may be older than what it replaces.

- `ListsInv` follows the one process that handles a user from call to call: before the first
  one his two entries agree, between them his rights are as they shall be, after the second both are.  A
  step for someone else that reaches his line puts him among the suspects, a second handler too.
- `VisitInv`: what a session remembers is no newer than the file of its rights, and equal to it if
  as old, unless the file was rewritten in that second (`blur`); a deletion keeps the mtime of its copy,
  so a copy under way must not be older than what the session has read.
- `BystandersKept` is an action property and needs only `Base`: `HasAppended` and `HasWithout` say
  of any text which words an appended line and a cut line change.
- `DenialsInv`: every list of denials that anybody holds is whole lines with something behind the id
  (`DenyInv`); each denial is in the table of a web request, or it is excused by one of the
  reasons in the property (`WebInv`); what autoundeny will cut off was added since its `stat`, what it
  will write is what it read but for what has lapsed (`CronInv`).

TLC checked `ListsInv`, `VisitInv` and the three parts of `DenialsInv` on the run `lists` before they were proved.
`ListsAgree` as it stood was not provable: a deletion that returns without having
removed the word (it stands on the list twice, or a line glued together ends in it), and an addition whose word is not there
afterwards (glued to a rest), leave the entries apart like a call that failed; `Amiss` now
says so, and `Brimful` counts the table of the request itself.

`TelnetLiftsNothing` is a consequence that nobody asked for: `DenyInv` says that no line of `deny_users` is
only an id, so `deldeny`, which looks for the id and a newline, never finds one.

What is only model-checked: liveness (`EveryCallReturns`) is out of the prover's reach;
so are `Prompt` and `ExpiredLifted`.  Every invariant and action property that a passing run
checks is also proved.
No module that has theorems declares a RECURSIVE operator; recursion over data is a
fold or a recursive function there, and induction is by a least counterexample.

## 6. What is left out

- Payload of an entry that nothing decides on: modes, idle text, addresses, friend
  lists, the key/value pairs of a session; titles and owners of `.DIR` entries.
- Bans, the checks of passwords, login counters and log files in login and logout; a failed
  insertion whose caller goes on with index -1 (`uinfo[-1]`).
- User records: `dietime` and the prison, the level that SYSOP gets at every login, the saves of
  a registration, of `identify.c` and of `maintain.c` other than `m_info`; logins that are refused.
  The save of `direct_login` (`main.c:649`, `667`), which an automatic login takes in place of `user_login`,
  is one with `Enter`: both save what `set_safe_record` has just left in the copy.
- `SessionSteps` leaves a full table to `SessionCache`, and leaves telnet processes out.
- `delete_range` without an upper end and on digests, a failing rename; in `bbsdelmail` a mailbox
  that is longer than a block of stdio, which is read and written block by block.
- Messages: the log `msgindex` and its viewers, replies, the count that the web keeps in
  utmp, permission to send.
- Lists: lines are equally long, so that cron's rewriting in place cuts whole lines; an
  empty line it may leave counts for nothing; a rename that fails is an outcome and not a
  full disk; `clubrights` as the web reads it at login; the same calls on other lists.  Among
  those is the list of who may not post anonymously: `autoundeny.c:242` reads `.BOARDS` to its end for
  `deny_users` and does not go back to its start for `deny_anony`, so `ExpiredLifted` says
  nothing of that one.
- Money: interest, the sale of articles, the lists of special loans, prisoners and
  criminals (nothing modelled reads them), and all games, robberies, stock, shop, lottery and
  marriages.
- Read marks: the time of the board notes beside them, guests, calls that list what is
  unread and change nothing, a user without any file (a telnet process then reads the size of a
  block that it has not set), boards whose names agree in 14 characters, a
  restart of the machine, which empties the tmpfs.
- Chat: speech, emotes, lists, topics, knocking, secret and silent rooms; `ibuf` and packets of
  several lines, of which the second is read from the answer to the first
  (`station.c:1891`); the cloak that login could set and the client never asks for.
- Renaming and deleting users by hand (`maintain.c`), and with them the two calls that empty a row of
  the user table, `ythtbbs_cache_UserTable_setuserid` and `fill_v` (`cache/user.c:265`, `587`).
- Every component marked *not modelled* in section 1.

## 7. Done, and next

1. Session cache: modules, refinement, first theorems (done).
2. Registry (done); record files (done).
3. Messages, member and denial lists, the bank and the police, read marks, the chat daemon (done).
4. User record, with theorems (done).
5. Captcha and two-factor codes: request, expiry, one use; an abstract one-time token
   implemented by both.
6. Board cache: reload and counters; votes.
7. Theorems: every safety property of the runs (done); the liveness properties stay
   with TLC.
