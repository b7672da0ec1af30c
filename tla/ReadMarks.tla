----------------------------- MODULE ReadMarks -----------------------------
(***************************************************************************)
(* Which posts a user has read (libythtbbs/boardrc.c), as his telnet       *)
(* process, the nju09 CGIs of his web session and the API keep it.         *)
(*                                                                         *)
(* The marks of a board are the times of posts he has read, newest first;  *)
(* whatever is older than the last of them counts as read.  The records of *)
(* all boards are one file per user on a tmpfs, loaded and written back as *)
(* a whole through one .tmp file, which nobody locks or truncates; a cron  *)
(* job moves it to the user's home.  Only the API takes userlock, so that  *)
(* its calls are one process here.  A process takes its next step where it *)
(* opens, writes or renames a file, or touches the marks in the shared     *)
(* entry of the session.                                                   *)
(***************************************************************************)
EXTENDS Integers, FiniteSets, SequencesExt

CONSTANTS Boards, NoBoard,
          Times,        \* times of posts
          MaxNum,       \* BRC_MAXNUM
          QuickNum,     \* 4
          MaxSize,      \* BRC_MAXSIZE, in cells
          Byte,         \* 256, how many differences fit into a byte
          Garbled,      \* names of no board that a board's name may be changed to
          Junk,         \* what may be in memory before a list of marks
          Wrecks,       \* what a file may be after undefined behaviour
          Homes,        \* what may be in the home directory at first
          Requests,     \* CGI processes of one web session
          Crews,        \* the sets of processes that may be there
          MaxAsks,      \* bound on what the user does
          MaxKills, MaxMoves

Procs == {"telnet", "api"} \cup Requests

\* What a record may be of.
Names == Boards \cup Garbled

ASSUME MarksAssumption ==
  /\ NoBoard \notin Names /\ Garbled \cap Boards = {}
  /\ Byte \in Nat \ {0} /\ Junk \subseteq Int
  /\ Times \subseteq Nat \ {0, 1} /\ Times # {} /\ IsFiniteSet(Times)
  /\ MaxNum \in Nat \ {0} /\ QuickNum \in Nat \ {0} /\ MaxSize \in Nat /\ MaxSize > MaxNum
  /\ {"telnet", "api"} \cap Requests = {} /\ Crews \subseteq SUBSET Procs
  /\ MaxAsks \in Nat /\ MaxKills \in Nat /\ MaxMoves \in Nat

VARIABLES disk,     \* contents of the files
          there,    \* those of the two tmpfs files that exist
          brc,      \* the marks of one board: telnet's, the web session's, the API's
          kept,     \* telnet: the records of all boards, if it keeps them
          hand,     \* what each process is about
          cron,     \* save_brc between copying and unlinking
          asks, kills, moves,
          hist      \* history, see Init

vars == <<disk, there, brc, kept, hand, cron, asks, kills, moves, hist>>

----------------------------------------------------------------------------
(* The marks of a board                                                    *)

\* What brc_insert and brc_set keep, and brc_locate relies on.
Descending(marks) == \A i \in 1 .. Len(marks) - 1 : marks[i] >= marks[i + 1]
Fine(marks) == marks \in Seq(Int) /\ Len(marks) \in 1 .. MaxNum /\ Descending(marks)

Newer(marks, t) == Cardinality({i \in DOMAIN marks : marks[i] > t})

\* brc_unreadt: brc_locate stops where the marks are no longer newer, wherever
\* it starts.
Unread(marks, t) ==
  /\ \A i \in DOMAIN marks : marks[i] # t
  /\ Newer(marks, t) < Len(marks)

\* brc_c_unreadt looks at the first marks only.
Quick(marks, t) ==
  Unread(SubSeq(marks, 1, IF Len(marks) > QuickNum THEN QuickNum ELSE Len(marks)), t)

\* brc_addlistt; the last mark falls out of a full list.  Mutant: one too early.
InsertShort(marks, t) ==
  IF ~Unread(marks, t) THEN marks
  ELSE LET more == InsertAt(marks, Newer(marks, t) + 1, t)
       IN  IF Len(more) >= MaxNum THEN SubSeq(more, 1, Len(more) - 1) ELSE more
Insert(marks, t) ==
  IF ~Unread(marks, t) THEN marks
  ELSE LET more == InsertAt(marks, Newer(marks, t) + 1, t)
       IN  IF Len(more) > MaxNum THEN SubSeq(more, 1, MaxNum) ELSE more

\* brc_clearto: what is up to t is read, what is newer stays as it is.  Mutant:
\* brc_set starts at the first mark, not where brc_locate has stopped.
ClearedFirst(marks, t) == IF Newer(marks, t) = Len(marks) THEN marks ELSE <<t>>
Cleared(marks, t) ==
  LET n == Newer(marks, t)
  IN  IF n = Len(marks) THEN marks ELSE Append(SubSeq(marks, 1, n), t)

\* shorter_brc drops the last mark while the one before it is one second
\* newer.  Its rule on the marks 2 and 1 says the same.
Shorter(marks) ==
  LET ends == {n \in DOMAIN marks : n = 1 \/ marks[n - 1] - marks[n] # 1}
  IN  SubSeq(marks, 1, CHOOSE n \in ends : \A k \in ends : k <= n)

\* What compress_brc and uncompress_brc make of a list that descends from its
\* second mark on. They keep differences: one below zero is cut to its lowest
\* byte, and all marks behind it come down with the second.
Coded(marks) ==
  LET diff == marks[1] - marks[2]
  IN  IF Len(marks) = 1 \/ diff >= 0 THEN marks
      ELSE [i \in 1 .. Len(marks) |->
              IF i = 1 THEN marks[1] ELSE marks[i] + diff - (diff % Byte)]

----------------------------------------------------------------------------
(* The records of all boards                                               *)

\* A file is a sequence of cells.  A record takes one cell for its head and one
\* for each mark; Part is a cell that is not the head of a record.
Part == [board |-> NoBoard, marks |-> <<>>]
Size(r) == 1 + Len(r.marks)
Cells(r) == <<r>> \o [i \in 1 .. Len(r.marks) |-> Part]

\* Where the parsing of a file ends, and the records before: at its end, or at
\* bytes that are not the head of a record or lead out of it.
Parsed(cells) ==
  LET from[i \in 1 .. Len(cells) + 1] ==
        IF \/ i > Len(cells) \/ cells[i].board = NoBoard
           \/ i + Size(cells[i]) - 1 > Len(cells)
          THEN [recs |-> <<>>, end |-> i - 1]
          ELSE LET more == from[i + Size(cells[i])]
               IN  [more EXCEPT !.recs = <<cells[i]>> \o @]
  IN  from[1]
Records(cells) == Parsed(cells).recs
Whole(cells) == Parsed(cells).end = Len(cells)

\* brc_getboard: the first record of the board.
MarksOf(cells, b) ==
  LET recs == Records(cells)
      mine == {i \in DOMAIN recs : recs[i].board = b}
  IN  IF mine = {} THEN <<1>> ELSE recs[Min(mine)].marks

\* A file in the home directory is one that brc_fini wrote and save_brc moved.
ASSUME HomesAssumption ==
  \A h \in Homes :
    /\ h \in Seq([board : Names \cup {NoBoard}, marks : Seq(Int)])
    /\ Len(h) <= MaxSize /\ Whole(h)
    /\ \A i \in DOMAIN h :
         h[i].board # NoBoard => Fine(h[i].marks) /\ MarksOf(h, h[i].board) = h[i].marks
    /\ \A i, k \in DOMAIN Records(h) : Records(h)[i].board = Records(h)[k].board => i = k

ASSUME WrecksAssumption ==
  \A out \in Wrecks : out \in Seq([board : Names \cup {NoBoard}, marks : Seq(Int)])

Got(cells, b) ==
  [board |-> b, marks |-> MarksOf(cells, b), changed |-> FALSE, base |-> MarksOf(cells, b)]

\* What r adds to the records that were copied so far.
Copied(b, to, r) ==
  IF to.full \/ Len(to.cells) + Size(r) > MaxSize THEN [to EXCEPT !.full = TRUE]
  ELSE IF r.board = b THEN to ELSE [to EXCEPT !.cells = @ \o Cells(r)]

\* brc_putboard: the board comes first, the others follow as far as there is
\* room.
Put(cells, b, marks) ==
  LET recs == Records(cells)
      to[n \in 0 .. Len(recs)] ==
        IF n = 0 THEN [cells |-> Cells([board |-> b, marks |-> Coded(Shorter(marks))]), full |-> FALSE]
        ELSE Copied(b, to[n - 1], recs[n])
  IN  to[Len(recs)].cells

----------------------------------------------------------------------------
(* Loading and saving                                                      *)

\* brc_init: the file on the tmpfs, else the one in the home directory.
Visible == IF "file" \in there THEN disk.file ELSE disk.home

Idle == [at |-> "idle", board |-> NoBoard, has |-> FALSE, read |-> <<>>, out |-> <<>>,
         stale |-> FALSE, fd |-> "none", next |-> NoBoard, keep |-> FALSE]
NoMarks == [board |-> NoBoard, marks |-> <<>>, changed |-> FALSE, base |-> <<>>]

\* What a save will write, of the records that were read, and for the history
\* whether the marks that it puts among them were got from such a file.
Saving(cells, m, next, keep) ==
  [at |-> "open", board |-> m.board, has |-> TRUE, read |-> cells,
   out |-> Put(cells, m.board, m.marks), stale |-> m.base # MarksOf(cells, m.board),
   fd |-> "none", next |-> next, keep |-> keep]

\* brc_putboard shortens the marks in memory too.
Saved(m) ==
  LET marks == Shorter(m.marks)
  IN  [board |-> m.board, marks |-> marks, changed |-> FALSE, base |-> marks]

Goes(p, h) == hand' = [hand EXCEPT ![p] = h]
Asks == asks < MaxAsks /\ asks' = asks + 1

Open(p) ==
  /\ hand[p].at = "open"
  /\ there' = there \cup {"tmp"}
  /\ Goes(p, [hand[p] EXCEPT !.at = "write", !.fd = "tmp"])
  /\ UNCHANGED <<disk, brc, kept, cron, asks, kills, moves, hist>>

\* What was in the file beyond the end of what is written stays.
Over(new, old) == new \o SubSeq(old, Len(new) + 1, Len(old))

\* Mutant of Write: the buffer is written as a whole, not the size that is used.
WriteAll(p) ==
  LET fd == hand[p].fd IN
  /\ hand[p].at = "write"
  /\ disk' = IF fd = "none" THEN disk ELSE [disk EXCEPT ![fd] = hand[p].out \o <<Part>>]
  /\ Goes(p, [hand[p] EXCEPT !.at = "rename", !.fd = "none"])
  /\ UNCHANGED <<there, brc, kept, cron, asks, kills, moves, hist>>
Write(p) ==
  LET fd == hand[p].fd IN
  /\ hand[p].at = "write"
  /\ Goes(p, [hand[p] EXCEPT !.at = "rename", !.fd = "none"])
  /\ IF fd = "none" THEN UNCHANGED <<disk, hist>>
     ELSE /\ disk' = [disk EXCEPT ![fd] = Over(hand[p].out, @)]
          /\ hist' = [hist EXCEPT !.mixed = @ \/ disk[fd] # <<>>]
  /\ UNCHANGED <<there, brc, kept, cron, asks, kills, moves>>

\* Whoever has the file open keeps it open under its new name, and those who
\* had the old one open write to a file that is gone.
Renamed(h) == IF h.fd = "tmp" THEN "file" ELSE "none"

\* The rename of whatever .tmp is there; it fails if there is none.  A telnet
\* process then goes on with the board it is entering.
Rename(p) ==
  LET h == hand[p]
  IN
  /\ h.at = "rename"
  /\ IF "tmp" \in there
       THEN /\ disk' = [disk EXCEPT !.file = disk.tmp, !.tmp = <<>>]
            /\ there' = {"file"}
            /\ hand' = [q \in Procs |->
                          IF q = p THEN Idle ELSE [hand[q] EXCEPT !.fd = Renamed(hand[q])]]
       ELSE /\ Goes(p, Idle)
            /\ UNCHANGED <<disk, there>>
  /\ IF p = "telnet"
       THEN /\ brc' = IF h.next = NoBoard THEN brc
                      ELSE [brc EXCEPT !.telnet = Got(h.out, h.next)]
            /\ kept' = IF h.keep THEN [has |-> TRUE, cells |-> h.out]
                       ELSE [has |-> FALSE, cells |-> <<>>]
       ELSE UNCHANGED <<brc, kept>>
  /\ UNCHANGED <<cron, asks, kills, moves, hist>>

----------------------------------------------------------------------------
(* History of reading                                                      *)

\* A post was read; if its mark pushed another one out, what is older than
\* the last one left counts as read.
Saw(marks, b, t) ==
  LET after == Insert(marks, t)
      full  == Unread(marks, t) /\ Len(marks) = MaxNum
  IN  [hist EXCEPT !.seen = @ \cup {<<b, t>>},
                   !.aged[b] = IF full /\ Last(after) > @ THEN Last(after) ELSE @]
SawTo(b, t) == [hist EXCEPT !.seen = @ \cup {<<b, s>> : s \in {s \in Times : s <= t}}]

\* SETREAD and brc_clearto on marks in memory.
Marked(m, t) == [m EXCEPT !.marks = Insert(m.marks, t), !.changed = @ \/ Unread(m.marks, t)]
Wiped(m, t) ==
  [m EXCEPT !.marks = Cleared(m.marks, t), !.changed = @ \/ Newer(m.marks, t) < Len(m.marks)]

----------------------------------------------------------------------------
(* Telnet                                                                  *)

\* brc_initial.  Marks that have changed are saved before those of the next
\* board are got; with keep, the records of all boards stay in memory.
Enter(b, keep) ==
  LET m     == brc.telnet
      saves == m.board # b /\ m.changed
      cells == IF kept.has THEN kept.cells ELSE Visible
  IN
  /\ hand["telnet"].at = "idle" /\ Asks
  /\ IF saves
       THEN /\ Goes("telnet", Saving(Visible, m, b, keep))
            /\ brc' = [brc EXCEPT !.telnet = Saved(m)]
            /\ UNCHANGED kept
       ELSE /\ brc' = IF m.board = b THEN brc ELSE [brc EXCEPT !.telnet = Got(cells, b)]
            /\ kept' = CASE ~keep -> [has |-> FALSE, cells |-> <<>>]
                         [] keep /\ m.board # b -> [has |-> TRUE, cells |-> cells]
                         [] OTHER -> kept
            /\ UNCHANGED hand
  /\ UNCHANGED <<disk, there, cron, kills, moves, hist>>

\* SETREAD, for a post that is read or written.
Look(t) ==
  LET m == brc.telnet IN
  /\ hand["telnet"].at = "idle" /\ m.board # NoBoard /\ Asks
  /\ brc' = [brc EXCEPT !.telnet = Marked(m, t)]
  /\ hist' = Saw(m.marks, m.board, t)
  /\ UNCHANGED <<disk, there, kept, hand, cron, kills, moves>>

\* clear_new_flag_quick, also for each board of clear_all_new_flag.
ClearTo(t) ==
  LET m == brc.telnet IN
  /\ hand["telnet"].at = "idle" /\ m.board # NoBoard /\ Asks
  /\ brc' = [brc EXCEPT !.telnet = Wiped(m, t)]
  /\ hist' = SawTo(m.board, t)
  /\ UNCHANGED <<disk, there, kept, hand, cron, kills, moves>>

\* brc_update, when a board is left.
Update ==
  LET m == brc.telnet IN
  /\ hand["telnet"].at = "idle" /\ m.changed
  /\ Goes("telnet", Saving(Visible, m, NoBoard, kept.has))
  /\ brc' = [brc EXCEPT !.telnet = Saved(m)]
  /\ UNCHANGED <<disk, there, kept, cron, asks, kills, moves, hist>>

\* A list of boards shows brc_unreadt_quick of each.
List ==
  LET m == brc.telnet IN
  /\ hand["telnet"].at = "idle" /\ ~kept.has /\ Asks
  /\ IF m.changed
       THEN /\ Goes("telnet", Saving(Visible, m, NoBoard, TRUE))
            /\ brc' = [brc EXCEPT !.telnet = Saved(m)]
            /\ UNCHANGED kept
       ELSE /\ kept' = [has |-> TRUE, cells |-> Visible]
            /\ UNCHANGED <<hand, brc>>
  /\ UNCHANGED <<disk, there, cron, kills, moves, hist>>

EndList ==
  /\ hand["telnet"].at = "idle" /\ kept.has
  /\ kept' = [has |-> FALSE, cells |-> <<>>]
  /\ UNCHANGED <<disk, there, brc, hand, cron, asks, kills, moves, hist>>

----------------------------------------------------------------------------
(* The web: a CGI process per request, the marks in the entry of the        *)
(* session                                                                 *)

\* brc_initial of nju09: nothing is loaded if the marks are those of the board;
\* else the records are there until the request ends.
Request(w, b) ==
  LET h == [Idle EXCEPT !.at = "marking", !.board = b] IN
  /\ hand[w].at = "idle" /\ Asks
  /\ IF brc.web.board = b
       THEN Goes(w, h) /\ UNCHANGED brc
       ELSE /\ Goes(w, [h EXCEPT !.has = TRUE, !.read = Visible])
            /\ brc' = [brc EXCEPT !.web = Got(Visible, b)]
  /\ UNCHANGED <<disk, there, kept, cron, kills, moves, hist>>

\* The board whose marks these are by now need not be that of the request, whose
\* posts the user sees.
Crossing(w, h, ts) ==
  [h EXCEPT !.seen = hist.seen \cup {<<hand[w].board, t>> : t \in ts},
            !.crossed = IF brc.web.board = hand[w].board THEN @ ELSE @ \cup {brc.web.board}]

\* brc_add_read, for each post that is shown.
Show(w, t) ==
  LET m == brc.web IN
  /\ hand[w].at = "marking" /\ Asks
  /\ brc' = [brc EXCEPT !.web = Marked(m, t)]
  /\ hist' = Crossing(w, Saw(m.marks, m.board, t), {t})
  /\ UNCHANGED <<disk, there, kept, hand, cron, kills, moves>>

\* brc_clear, up to now.
Clear(w) ==
  LET m   == brc.web
      t   == CHOOSE s \in Times : \A u \in Times : u <= s
  IN
  /\ hand[w].at = "marking" /\ Asks
  /\ brc' = [brc EXCEPT !.web = Wiped(m, t)]
  /\ hist' = Crossing(w, hist, {s \in Times : s <= t})
  /\ UNCHANGED <<disk, there, kept, hand, cron, kills, moves>>

\* brc_update of nju09 saves whatever marks the entry holds; it does not load
\* the records again.
EndRequest(w) ==
  LET cells == IF hand[w].has THEN hand[w].read ELSE Visible IN
  /\ hand[w].at = "marking"
  /\ IF brc.web.changed
       THEN /\ Goes(w, Saving(cells, brc.web, NoBoard, FALSE))
            /\ brc' = [brc EXCEPT !.web = Saved(brc.web)]
       ELSE Goes(w, Idle) /\ UNCHANGED brc
  /\ UNCHANGED <<disk, there, kept, cron, asks, kills, moves, hist>>

----------------------------------------------------------------------------
(* The API                                                                 *)

\* The call that returns a post marks it as read, under userlock.
Fetch(b, t) ==
  LET m == Got(Visible, b) IN
  /\ hand["api"].at = "idle" /\ Asks
  /\ hist' = Saw(m.marks, b, t)
  /\ IF Unread(m.marks, t)
       THEN Goes("api", Saving(Visible, [m EXCEPT !.marks = Insert(m.marks, t)], NoBoard, FALSE))
       ELSE UNCHANGED hand
  /\ UNCHANGED <<disk, there, brc, kept, cron, kills, moves>>

\* Its onebrc is not initialised, and brc_getboard sets cur only if there is no
\* record of the board.  brc_locate goes up from a negative cur, through whatever
\* is before the list, until that is older than the post.  It may find the post's
\* own place (Fetch) or its very time, or the process crashes: nothing changes.
\* Where it stops before the list, brc_insert moves what lies from there to the
\* list one place up, and the marks with it, and puts the time where it was: with
\* luck into the unused end of the board's name, else over the name, and further
\* down over cur and num, after which anything may come to be in the file. The
\* same is said where the difference between what was moved and the marks does
\* not fit into an int.
FetchWild(b) ==
  /\ hand["api"].at = "idle" /\ Asks
  /\ \E r \in ToSet(Records(Visible)) : r.board = b
  /\ \/ UNCHANGED <<hand, hist>>
     \/ \E junk \in Junk, name \in {b} \cup Garbled :
          LET more  == <<junk>> \o MarksOf(Visible, b)
              marks == IF Len(more) > MaxNum THEN SubSeq(more, 1, MaxNum) ELSE more IN
          /\ Goes("api", Saving(Visible, [Got(Visible, name) EXCEPT !.marks = marks], NoBoard, FALSE))
          /\ hist' = [hist EXCEPT !.wild = @ \cup {name}]
     \/ \E out \in Wrecks :
          /\ Goes("api", [Saving(Visible, Got(Visible, b), NoBoard, FALSE) EXCEPT !.out = out])
          /\ hist' = [hist EXCEPT !.wrecked = TRUE]
  /\ UNCHANGED <<disk, there, brc, kept, cron, kills, moves>>

----------------------------------------------------------------------------
(* The cron job, and processes that are killed                             *)

\* save_brc copies a file that has not been read for two hours, so that nobody
\* is about to save, and unlinks it.
Copy ==
  /\ cron = "idle" /\ moves < MaxMoves /\ moves' = moves + 1
  /\ "file" \in there /\ disk.file # <<>>
  /\ \A p \in Procs : hand[p].at \in {"unused", "idle", "marking"}
  /\ disk' = [disk EXCEPT !.home = disk.file]
  /\ cron' = "copied"
  /\ UNCHANGED <<there, brc, kept, hand, asks, kills, hist>>

Unlink ==
  /\ cron = "copied"
  /\ cron' = "idle"
  /\ there' = there \ {"file"}
  /\ disk' = [disk EXCEPT !.file = <<>>]
  /\ hand' = [p \in Procs |-> IF hand[p].fd = "file" THEN [hand[p] EXCEPT !.fd = "none"]
                              ELSE hand[p]]
  /\ UNCHANGED <<brc, kept, asks, kills, moves, hist>>

\* It removes a .tmp that is an hour old.
Sweep ==
  /\ "tmp" \in there /\ \A p \in Procs : hand[p].at \notin {"write", "rename"}
  /\ there' = there \ {"tmp"}
  /\ disk' = [disk EXCEPT !.tmp = <<>>]
  /\ UNCHANGED <<brc, kept, hand, cron, asks, kills, moves, hist>>

\* A telnet process takes its marks along, a CGI leaves them in the entry.
Kill(p) ==
  /\ p # "api" /\ kills < MaxKills /\ kills' = kills + 1
  /\ hand[p].at \notin {"unused", "idle"} \/ (p = "telnet" /\ brc.telnet # NoMarks)
  /\ Goes(p, Idle)
  /\ IF p = "telnet"
       THEN /\ brc' = [brc EXCEPT !.telnet = NoMarks]
            /\ kept' = [has |-> FALSE, cells |-> <<>>]
       ELSE UNCHANGED <<brc, kept>>
  /\ UNCHANGED <<disk, there, cron, asks, moves, hist>>

----------------------------------------------------------------------------
Init ==
  /\ \E h \in Homes : disk = [file |-> <<>>, tmp |-> <<>>, home |-> h]
  /\ there = {}
  /\ brc = [telnet |-> NoMarks, web |-> NoMarks]
  /\ kept = [has |-> FALSE, cells |-> <<>>]
  /\ \E crew \in Crews :
       hand = [p \in Procs |-> IF p \in crew THEN Idle ELSE [Idle EXCEPT !.at = "unused"]]
  /\ cron = "idle"
  /\ asks = 0 /\ kills = 0 /\ moves = 0
  /\ hist =
       [seen    |-> {bt \in Boards \X Times : ~Unread(MarksOf(disk.home, bt[1]), bt[2])},
        aged    |-> [b \in Boards |-> 0],  \* times before which posts count as read
        mixed   |-> FALSE,                 \* a save wrote over what another had written
        wild    |-> {},                    \* names with junk among their marks
        wrecked |-> FALSE,                 \* a file was written that may be anything
        crossed |-> {}]                    \* boards marked by requests for another

Next ==
  \/ \E p \in Procs : Open(p) \/ Write(p) \/ Rename(p) \/ Kill(p)
  \/ \E b \in Boards, keep \in BOOLEAN : Enter(b, keep)
  \/ \E t \in Times : Look(t) \/ ClearTo(t)
  \/ Update \/ List \/ EndList
  \/ \E w \in Requests :
       \/ \E b \in Boards : Request(w, b)
       \/ \E t \in Times : Show(w, t)
       \/ Clear(w) \/ EndRequest(w)
  \/ \E b \in Boards : FetchWild(b) \/ \E t \in Times : Fetch(b, t)
  \/ Copy \/ Unlink \/ Sweep

Spec == Init /\ [][Next]_vars

----------------------------------------------------------------------------
(* Correctness                                                             *)

\* TypeOK: no list of marks ever goes up, nor is it empty or longer than
\* BRC_MAXNUM, no file is longer than BRC_MAXSIZE, and but for mixed files each
\* has one record of a name at most (brc_insert, brc_set, brc_putboard).
TypeOK ==
  /\ there \subseteq {"file", "tmp"} /\ cron \in {"idle", "copied"}
  /\ \A f \in {"file", "tmp", "home"} :
       LET recs == Records(disk[f]) IN
       /\ Len(disk[f]) <= MaxSize
       /\ \A i \in DOMAIN recs :
            /\ recs[i].board \in Names
            /\ Fine(recs[i].marks)
            /\ hist.mixed \/ \A j \in DOMAIN recs : recs[i].board = recs[j].board => i = j
  /\ \A m \in {brc.telnet, brc.web} :
       m.board # NoBoard => Fine(m.marks)
  /\ \A p \in Procs :
       /\ hand[p].at \in {"unused", "idle", "marking", "open", "write", "rename"}
       /\ hand[p].fd # "none" => hand[p].at = "write" /\ hand[p].fd \in there

\* FileWhole: the file of a user can always be read to its end, although two
\* processes may write into the same .tmp, and one that is killed leaves its
\* .tmp for the next: only a save that found another's bytes there, which it does
\* not cut off, may leave half a record behind its own (brc_fini). And no list in
\* it goes up, which brc_locate relies on: a call of the API may put foreign
\* bytes before the marks, but compress_brc writes no difference below zero.
\* Nothing holds after a call that wrote over the length of its list, or whose
\* differences left the range of an int.
FileWhole == hist.wrecked \/ (TypeOK /\ (hist.mixed \/ Whole(Visible)))

\* ReadHasCause: a post that counts as read was read or cleared, or is older than
\* a mark that a full list had no room for: packing, shortening, moving and
\* overwriting marks never make a post read. The quick test, which looks at the
\* first marks only, takes none for unread that is not, and for read only those
\* older than all of these. Excepted are boards whose marks a call of the API
\* moved behind foreign bytes, or into which two requests at a time mixed marks
\* of another, and all boards once a call has written a wreck (FetchWild).
ReadHasCause ==
  \A b \in Boards : LET marks == MarksOf(Visible, b) IN \A t \in Times :
    hist.wrecked \/
    /\ ~Unread(marks, t) =>
         <<b, t>> \in hist.seen \/ t < hist.aged[b] \/ b \in hist.wild \cup hist.crossed
    /\ Quick(marks, t) => Unread(marks, t)
    /\ Unread(marks, t) /\ ~Quick(marks, t) =>
         Len(marks) > QuickNum /\ t < marks[QuickNum]

\* A save of p for which nobody else's came too late: the file was saved by
\* another since p read it, or the marks of this board since p got them.
Outdated(p, b) == hand[p].read # Visible \/ (b = hand[p].board /\ hand[p].stale)
\* There was no room for the board.
Dropped(p, b) ==
  /\ b # hand[p].board
  /\ \E r \in ToSet(Records(hand[p].read)) : r.board = b
  /\ \A r \in ToSet(Records(hand[p].out)) : r.board # b
\* The .tmp that p renames is not what it wrote: another process renamed p's, and
\* a third one has a new .tmp open.
Foreign(p) == disk.tmp # hand[p].out

\* A step after which a post of b that was read counts as unread.
Forgets(b) ==
  \E t \in Times : ~Unread(MarksOf(Visible, b), t) /\ Unread(MarksOf(Visible', b), t)
\* What nothing prevents from losing marks of b.
Excused(b) ==
  \/ hist'.mixed \/ hist.wrecked
  \/ b \in hist.wild
  \/ (cron = "copied" /\ cron' = "idle" /\ disk.file # disk.home)
  \/ \E p \in Procs : /\ hand[p].at = "rename" /\ hand'[p].at # "rename"
                      /\ Outdated(p, b) \/ Dropped(p, b) \/ Foreign(p)

\* LostHasCause: a post that counted as read becomes unread again only by a
\* save whose copy of the file or of the board was outdated, for want of room,
\* by a call of the API that spoiled the marks or the file, by writes into one
\* .tmp, by the rename of another's .tmp, or when save_brc unlinks a file that is
\* newer than its copy.
LostHasCause ==
  [][\A b \in Boards : Forgets(b) => Excused(b)]_vars
============================================================================
