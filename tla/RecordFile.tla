----------------------------- MODULE RecordFile -----------------------------
(***************************************************************************)
(* The index file .DIR of a board or a mailbox (libythtbbs/record.c and    *)
(* the parts of src/bbs/record.c that rewrite it), used by any number of   *)
(* processes.  Four ways of changing it live side by side:                 *)
(*   - delete_file and update_file change the file in place, under flock;  *)
(*   - append_record and substitute_record write to it under an fcntl      *)
(*     lock, which flock does not exclude;                                 *)
(*   - delete_record and delete_range copy it to .tmpfile, created with    *)
(*     O_EXCL, and rename that over it;                                    *)
(*   - bbsdelmail of nju09 copies it to .DIR.tmp, which it takes as it is, *)
(*     checks no write, and renames that over it.                          *)
(* A process that changes or deletes an entry looked at the file earlier;  *)
(* it passes the position it saw and, to some calls, the entry's filetime. *)
(***************************************************************************)
EXTENDS Integers, Sequences

CONSTANTS Workers,
          Flags,      \* FH_READ, FH_REPLIED, FH_MARKED ...
          Marked,     \* FH_MARKED, spared by delete_range
          Initial,    \* entries in the file at first
          MaxCalls    \* bound on the calls made

ASSUME RecordAssumption ==
  /\ Marked \in Flags
  /\ Initial \in Nat /\ MaxCalls \in Nat

VARIABLES files,     \* contents of the inodes
          name,      \* inodes of .DIR, .tmpfile and .DIR.tmp, 0 if there is none
          pc, job,
          locked,    \* workers that hold the flock on the file they opened
          dead,
          calls,     \* calls made
          created,   \* filetimes given out
          sent,      \* history: keys in the order they were appended
          done,      \* history: keys whose deletion was asked for and succeeded
          flagged,   \* history: <<key, flag>> that were set
          harm       \* history: the races that have happened

vars == <<files, name, pc, job, locked, dead, calls, created, sent, done, flagged, harm>>

\* struct fileheader: its filetime, 0 for a tombstone, and its flags.
Entries == [key : 0 .. created, flags : SUBSET Flags]
Tombstone(e) == [e EXCEPT !.key = 0]
Hole == [key |-> 0, flags |-> {}]
Keys(s) == {s[p].key : p \in DOMAIN s} \ {0}

Ops == {"none", "append", "substitute", "delete_file", "del_record", "update_file",
        "m_new", "delete_range", "bbsdelmail"}
Steps == {"idle", "open", "write", "stat", "store", "flock", "scan", "shift", "truncate",
          "read", "put", "excl", "copy", "retire", "promote", "wipe", "load", "sift", "flush",
          "swap"}
Races == {"orphaned", "overtaken", "truncated", "stale", "crashed", "mingled", "short"}

\* A call: what its caller saw, the positions and the key it was given, the
\* file it opened and the one it writes, the position it found and what it read.
Jobs == [op : Ops, look : Seq(Entries), ids : SUBSET (Nat \ {0}), key : 0 .. created,
         flag : Flags, file : 0 .. Len(files), out : 0 .. Len(files), pos : Nat, buf : Seq(Entries),
         gone : SUBSET (0 .. created), stale : BOOLEAN]
NoJob == [op |-> "none", look |-> <<>>, ids |-> {}, key |-> 0, flag |-> Marked,
          file |-> 0, out |-> 0, pos |-> 0, buf |-> <<>>, gone |-> {}, stale |-> FALSE]

\* TypeOK: inodes, positions and filetimes stay within their types: none is
\* used that was not given out.
TypeOK ==
  /\ files \in Seq(Seq(Entries))
  /\ name \in [dir : 0 .. Len(files), tmp : 0 .. Len(files), web : 0 .. Len(files)]
  /\ pc \in [Workers -> Steps]
  /\ job \in [Workers -> Jobs]
  /\ locked \subseteq Workers /\ dead \subseteq Workers
  /\ calls \in 0 .. MaxCalls /\ created \in Nat
  /\ sent \in Seq(1 .. created) /\ done \subseteq 1 .. created
  /\ flagged \subseteq (1 .. created) \X Flags
  /\ harm \subseteq Races

Init ==
  /\ files = << [p \in 1 .. Initial |-> [key |-> p, flags |-> {}]] >>
  /\ name = [dir |-> 1, tmp |-> 0, web |-> 0]
  /\ pc = [w \in Workers |-> "idle"]
  /\ job = [w \in Workers |-> NoJob]
  /\ locked = {}
  /\ dead = {}
  /\ calls = 0
  /\ created = Initial
  /\ sent = [p \in 1 .. Initial |-> p]
  /\ done = {}
  /\ flagged = {}
  /\ harm = {}

-----------------------------------------------------------------------------
At(w, step) == w \notin dead /\ pc[w] = step
Goto(w, step) == pc' = [pc EXCEPT ![w] = step]
Content(w) == files[job[w].file]
Least(S) == CHOOSE p \in S : \A q \in S : p <= q
Greatest(S) == CHOOSE p \in S : \A q \in S : q <= p

\* close drops the flock.
Finish(w) ==
  /\ Goto(w, "idle")
  /\ job' = [job EXCEPT ![w] = NoJob]
  /\ locked' = locked \ {w}

\* What the others have seen of the file is no longer what it is.
Outdated(w) == [v \in Workers |-> IF v = w THEN NoJob
                                  ELSE [job[v] EXCEPT !.stale = job[v].op # "none"]]
FinishChange(w) ==
  /\ Goto(w, "idle")
  /\ job' = Outdated(w)
  /\ locked' = locked \ {w}

(* The races a change by w may run into, for the histories.                *)
Rewriting(v) == v \notin dead /\ pc[v] \in {"copy", "retire", "promote"}
Replacing(v) == Rewriting(v) \/ (v \notin dead /\ pc[v] \in {"sift", "flush", "swap"})
Shifting(v)  == v \notin dead /\ pc[v] \in {"shift", "truncate"}
Exposed(w) ==
  {r \in {"orphaned", "overtaken"} :
     \/ r = "orphaned" /\ job[w].file # name.dir
     \/ r = "overtaken" /\ \E v \in Workers \ {w} : Replacing(v)}
Truncated(w) ==
  {r \in {"truncated"} :
     \E v \in Workers \ {w} : Shifting(v) /\ job[v].file = job[w].file}
Copied(w) ==
  {r \in {"orphaned", "overtaken"} :
     \/ r = "orphaned" /\ job[w].file # name.dir
     \/ r = "overtaken" /\ \E v \in Workers : Shifting(v) /\ job[v].file = job[w].file}
Overtaken(w) == {r \in {"overtaken"} : \E v \in Workers \ {w} : Replacing(v)}
Mingled(w) ==
  {r \in {"mingled"} : name.web # 0 /\ \E v \in Workers \ {w} : job[v].out = name.web}
Mistaken(w, wrong) == IF wrong /\ job[w].stale THEN {"stale"} ELSE {}

-----------------------------------------------------------------------------
(* A call begins with what its caller saw of the file.                     *)

Begin(w, op, ids, key, flag) ==
  /\ At(w, "idle") /\ calls < MaxCalls
  /\ calls' = calls + 1
  /\ job' = [job EXCEPT ![w] =
               [NoJob EXCEPT !.op = op, !.ids = ids, !.key = key, !.flag = flag,
                             !.look = IF name.dir = 0 THEN <<>> ELSE files[name.dir]]]
  /\ Goto(w, IF op = "substitute" THEN "stat" ELSE "open")
  /\ UNCHANGED <<files, name, locked, dead, sent, done, flagged, harm>>

\* trycreatefile reserves the filetime; append_record comes later.
BeginAppend(w) ==
  /\ created' = created + 1
  /\ Begin(w, "append", {}, created + 1, Marked)

\* Positions of entries that were seen and are no tombstones.
Seen == IF name.dir = 0 THEN {} ELSE {p \in DOMAIN files[name.dir] : files[name.dir][p].key # 0}

BeginChange(w) ==
  /\ UNCHANGED created
  /\ \/ \E p \in Seen, op \in {"delete_file", "del_record", "update_file"} :
          Begin(w, op, {p}, files[name.dir][p].key, Marked)
     \/ \E p \in Seen, f \in Flags :
          Begin(w, "substitute", {p}, files[name.dir][p].key, f)
     \/ \E ids \in SUBSET Seen, op \in {"m_new", "bbsdelmail"} :
          ids # {} /\ Begin(w, op, ids, 0, Marked)
     \/ \E p, q \in Seen :
          p <= q /\ Begin(w, "delete_range", p .. q, 0, Marked)

\* Mutant of Current: m_new deletes in the order the mails were read.
CurrentAscending(w) == Least(job[w].ids)

\* while (delcnt--) delete_record(..., delmsgs[delcnt])
Current(w) == Greatest(job[w].ids)

\* What job[w] is once m_new is through with an entry.
Continued(w) == [NoJob EXCEPT !.op = "m_new", !.look = job[w].look,
                              !.ids = job[w].ids \ {Current(w)}, !.stale = job[w].stale]

\* A call returns, with or without success; m_new goes on to its next one.
EndRewrite(w, others) ==
  IF job[w].op = "m_new" /\ job[w].ids # {Current(w)}
    THEN Goto(w, "open") /\ job' = [others EXCEPT ![w] = Continued(w)] /\ UNCHANGED locked
    ELSE Goto(w, "idle") /\ job' = [others EXCEPT ![w] = NoJob] /\ UNCHANGED locked

FirstStep(op) ==
  CASE op = "append" -> "write"
    [] op = "substitute" -> "store"
    [] op \in {"delete_file", "del_record", "update_file"} -> "flock"
    [] op = "bbsdelmail" -> "wipe"
    [] OTHER -> "excl"

\* open; append_record and substitute_record pass O_CREAT, and between the
\* renames of a rewriter that gives them a new, empty .DIR.
Open(w) ==
  /\ At(w, "open")
  /\ \/ /\ name.dir # 0
        /\ job' = [job EXCEPT ![w].file = name.dir]
        /\ Goto(w, FirstStep(job[w].op))
        /\ UNCHANGED <<files, name, locked, harm>>
     \/ /\ name.dir = 0 /\ job[w].op \in {"append", "substitute"}
        /\ files' = Append(files, <<>>)
        /\ name' = [name EXCEPT !.dir = Len(files) + 1]
        /\ job' = [job EXCEPT ![w].file = Len(files) + 1]
        /\ harm' = harm \cup {"overtaken"}
        /\ Goto(w, FirstStep(job[w].op))
        /\ UNCHANGED locked
     \/ /\ name.dir = 0 /\ job[w].op \notin {"append", "substitute"}
        /\ IF job[w].op = "m_new" THEN EndRewrite(w, job) ELSE Finish(w)
        /\ UNCHANGED <<files, name, harm>>
  /\ UNCHANGED <<dead, calls, created, sent, done, flagged>>

-----------------------------------------------------------------------------
(* append_record and substitute_record                                     *)

\* O_APPEND: one write, at the end the file has by then.
Write(w) ==
  /\ At(w, "write")
  /\ files' = [files EXCEPT ![job[w].file] = Append(@, [key |-> job[w].key, flags |-> {}])]
  /\ sent' = Append(sent, job[w].key)
  /\ harm' = harm \cup Exposed(w) \cup Truncated(w)
  /\ Finish(w)
  /\ UNCHANGED <<name, dead, calls, created, done, flagged>>

\* The size of the file is checked before it is opened.
Stat(w) ==
  /\ At(w, "stat")
  /\ IF name.dir # 0 /\ job[w].ids \subseteq DOMAIN files[name.dir]
       THEN Goto(w, "open") /\ UNCHANGED <<job, locked>>
       ELSE Finish(w)
  /\ UNCHANGED <<files, name, dead, calls, created, sent, done, flagged, harm>>

\* Writing behind the end leaves a hole of zeroed entries.
Stored(s, p, e) ==
  [q \in 1 .. (IF p > Len(s) THEN p ELSE Len(s)) |->
     IF q = p THEN e ELSE IF q <= Len(s) THEN s[q] ELSE Hole]

\* Mutant of Store: the flags that were set already are not kept.
StoreFlagOnly(w) ==
  /\ At(w, "store")
  /\ LET p    == Least(job[w].ids)
         seen == job[w].look[p]
     IN  /\ files' = [files EXCEPT ![job[w].file] =
                        Stored(@, p, [seen EXCEPT !.flags = {job[w].flag}])]
         /\ flagged' = flagged \cup {<<seen.key, job[w].flag>>}
         /\ harm' = harm \cup Exposed(w) \cup Truncated(w)
                      \cup Mistaken(w, p > Len(Content(w)) \/ Content(w)[p] # seen)
  /\ FinishChange(w)
  /\ UNCHANGED <<name, dead, calls, created, sent, done>>

\* The whole entry, as it was seen, is written back with a flag added.
Store(w) ==
  /\ At(w, "store")
  /\ LET p    == Least(job[w].ids)
         seen == job[w].look[p]
     IN  /\ files' = [files EXCEPT ![job[w].file] =
                        Stored(@, p, [seen EXCEPT !.flags = @ \cup {job[w].flag}])]
         /\ flagged' = flagged \cup {<<seen.key, job[w].flag>>}
         /\ harm' = harm \cup Exposed(w) \cup Truncated(w)
                      \cup Mistaken(w, p > Len(Content(w)) \/ Content(w)[p] # seen)
  /\ FinishChange(w)
  /\ UNCHANGED <<name, dead, calls, created, sent, done>>

-----------------------------------------------------------------------------
(* delete_file and update_file                                             *)

\* Mutant of Flock: the lock is asked for but not waited for.
FlockNoWait(w) ==
  /\ At(w, "flock")
  /\ locked' = locked \cup {w}
  /\ Goto(w, IF job[w].op = "update_file" THEN "read" ELSE "scan")
  /\ UNCHANGED <<files, name, job, dead, calls, created, sent, done, flagged, harm>>

Flock(w) ==
  /\ At(w, "flock")
  /\ \A v \in locked : job[v].file # job[w].file
  /\ locked' = locked \cup {w}
  /\ Goto(w, IF job[w].op = "update_file" THEN "read" ELSE "scan")
  /\ UNCHANGED <<files, name, job, dead, calls, created, sent, done, flagged, harm>>

\* Positions delete_file may settle for: with a filecheck the first one from
\* ent on that passes it, without one (nju09's del_record) ent itself.
Candidates(w) ==
  LET ent == Least(job[w].ids)
  IN  IF job[w].op = "del_record" THEN {ent} \cap DOMAIN Content(w)
      ELSE {p \in DOMAIN Content(w) : p >= ent /\ Content(w)[p].key = job[w].key}

\* Mutant of Scan: an early return that leaves the file open and locked.
ScanKeepsLock(w) ==
  /\ At(w, "scan")
  /\ IF Candidates(w) = {}
       THEN Goto(w, "idle") /\ UNCHANGED job
       ELSE /\ job' = [job EXCEPT ![w].pos = Least(Candidates(w)), ![w].buf = Content(w)]
            /\ Goto(w, "shift")
  /\ UNCHANGED <<files, name, locked, dead, calls, created, sent, done, flagged, harm>>

\* fstat, the search in the mapped file and the copy of it (tmp_dup).
Scan(w) ==
  /\ At(w, "scan")
  /\ IF Candidates(w) = {}
       THEN Finish(w) /\ UNCHANGED harm
       ELSE LET p == Least(Candidates(w))
            IN  /\ job' = [job EXCEPT ![w].pos = p, ![w].buf = Content(w),
                                      ![w].gone = {job[w].key}]
                /\ harm' = harm \cup Mistaken(w, Content(w)[p].key # job[w].key)
                /\ Goto(w, "shift")
                /\ UNCHANGED locked
  /\ UNCHANGED <<files, name, dead, calls, created, sent, done, flagged>>

\* The entries behind pos move one down; those appended since are not moved.
Shift(w) ==
  /\ At(w, "shift")
  /\ LET dup == job[w].buf
     IN  files' = [files EXCEPT ![job[w].file] =
                     [p \in DOMAIN @ |-> IF p >= job[w].pos /\ p < Len(dup) THEN dup[p + 1]
                                         ELSE @[p]]]
  /\ harm' = harm \cup Exposed(w)
  /\ job' = [Outdated(w) EXCEPT ![w] = job[w]]
  /\ Goto(w, "truncate")
  /\ UNCHANGED <<name, locked, dead, calls, created, sent, done, flagged>>

\* ftruncate to the size that was read, less one entry.
Truncate(w) ==
  /\ At(w, "truncate")
  /\ files' = [files EXCEPT ![job[w].file] = SubSeq(@, 1, Len(job[w].buf) - 1)]
  /\ done' = done \cup (job[w].gone \ {0})
  /\ harm' = harm \cup Exposed(w)
  /\ FinishChange(w)
  /\ UNCHANGED <<name, dead, calls, created, sent, flagged>>

\* update_file looks at ent first, then through the whole file.
Read(w) ==
  /\ At(w, "read")
  /\ LET hits == {p \in DOMAIN Content(w) : Content(w)[p].key = job[w].key}
         p    == IF job[w].ids \subseteq hits THEN Least(job[w].ids) ELSE Least(hits)
     IN  IF hits = {} THEN Finish(w)
         ELSE /\ job' = [job EXCEPT ![w].pos = p, ![w].buf = <<Content(w)[p]>>,
                                    ![w].gone = {Content(w)[p].key}]
              /\ Goto(w, "put")
              /\ UNCHANGED locked
  /\ UNCHANGED <<files, name, dead, calls, created, sent, done, flagged, harm>>

\* KEEP_DELETED_HEADER: the entry becomes a tombstone (cpyfilename).
Put(w) ==
  /\ At(w, "put")
  /\ files' = [files EXCEPT ![job[w].file][job[w].pos] = Tombstone(job[w].buf[1])]
  /\ done' = done \cup job[w].gone
  /\ harm' = harm \cup Exposed(w) \cup Mistaken(w, Content(w)[job[w].pos] # job[w].buf[1])
  /\ FinishChange(w)
  /\ UNCHANGED <<name, dead, calls, created, sent, flagged>>

-----------------------------------------------------------------------------
(* delete_record, which m_new calls for one entry after the other, and     *)
(* delete_range                                                            *)

\* Mutant of Excl: .tmpfile is opened without O_EXCL.
ExclTruncates(w) ==
  /\ At(w, "excl")
  /\ files' = IF name.tmp = 0 THEN Append(files, <<>>) ELSE [files EXCEPT ![name.tmp] = <<>>]
  /\ name' = IF name.tmp = 0 THEN [name EXCEPT !.tmp = Len(files) + 1] ELSE name
  /\ job' = [job EXCEPT ![w].pos = 1]
  /\ Goto(w, "copy")
  /\ UNCHANGED <<locked, dead, calls, created, sent, done, flagged, harm>>

Excl(w) ==
  /\ At(w, "excl")
  /\ \/ /\ name.tmp # 0
        /\ EndRewrite(w, job)
        /\ UNCHANGED <<files, name, harm>>
     \/ /\ name.tmp = 0
        /\ files' = Append(files, <<>>)
        /\ name' = [name EXCEPT !.tmp = Len(files) + 1]
        /\ job' = [job EXCEPT ![w].pos = 1]
        /\ harm' = harm \cup Copied(w)
        /\ Goto(w, "copy")
        /\ UNCHANGED locked
  /\ UNCHANGED <<dead, calls, created, sent, done, flagged>>

Dropped(w, p, e) ==
  IF job[w].op = "m_new" THEN p = Current(w)
  ELSE e.key = 0 \/ (p \in job[w].ids /\ Marked \notin e.flags)

\* The key that the caller saw where entry e is dropped now.
Hit(w, p, e) ==
  IF e.key = 0 THEN {}
  ELSE {job[w].look[q].key : q \in {p} \cap DOMAIN job[w].look} \ {0}

\* One turn of the loop that reads an entry and writes it to .tmpfile.
Copy(w) ==
  /\ At(w, "copy")
  /\ LET p == job[w].pos
     IN  IF p > Len(Content(w))
           THEN Goto(w, "retire") /\ UNCHANGED <<files, job, harm>>
           ELSE LET e == Content(w)[p]
                IN  /\ IF Dropped(w, p, e)
                         THEN /\ job' = [job EXCEPT ![w].pos = p + 1,
                                                    ![w].gone = @ \cup Hit(w, p, e)]
                              /\ harm' = harm \cup Mistaken(w, Hit(w, p, e) # {e.key} \ {0})
                              /\ UNCHANGED files
                         ELSE /\ job' = [job EXCEPT ![w].pos = p + 1]
                              /\ files' = [files EXCEPT ![name.tmp] = Append(@, e)]
                              /\ UNCHANGED harm
                    /\ UNCHANGED pc
  /\ UNCHANGED <<name, locked, dead, calls, created, sent, done, flagged>>

\* safewrite fails, for want of disk space say.
CopyFails(w) ==
  /\ At(w, "copy") /\ job[w].pos <= Len(Content(w))
  /\ name' = [name EXCEPT !.tmp = 0]
  /\ EndRewrite(w, job)
  /\ UNCHANGED <<files, dead, calls, created, sent, done, flagged, harm>>

\* rename(filename, deleted): for a moment there is no .DIR.
Retire(w) ==
  /\ At(w, "retire") /\ name.dir # 0
  /\ name' = [name EXCEPT !.dir = 0]
  /\ Goto(w, "promote")
  /\ UNCHANGED <<files, job, locked, dead, calls, created, sent, done, flagged, harm>>

\* rename(tmpfile, filename)
Promote(w) ==
  /\ At(w, "promote")
  /\ name' = [name EXCEPT !.dir = name.tmp, !.tmp = 0]
  /\ done' = done \cup job[w].gone
  /\ harm' = harm \cup Overtaken(w)
  /\ EndRewrite(w, Outdated(w))
  /\ UNCHANGED <<files, dead, calls, created, sent, flagged>>

-----------------------------------------------------------------------------
(* bbsdelmail: the mails are named, not numbered.  A mailbox is within one *)
(* buffer of stdio, which is filled at the first fread and written at      *)
(* fclose.                                                                 *)

\* fopen(tmppath, "w"): what another one has written there is cut off.
Wipe(w) ==
  /\ At(w, "wipe")
  /\ IF name.web = 0
       THEN /\ files' = Append(files, <<>>)
            /\ name' = [name EXCEPT !.web = Len(files) + 1]
            /\ job' = [job EXCEPT ![w].out = Len(files) + 1]
       ELSE /\ files' = [files EXCEPT ![name.web] = <<>>]
            /\ job' = [job EXCEPT ![w].out = name.web]
            /\ UNCHANGED name
  /\ harm' = harm \cup Mingled(w)
  /\ Goto(w, "load")
  /\ UNCHANGED <<locked, dead, calls, created, sent, done, flagged>>

Asked(w) == {job[w].look[p].key : p \in job[w].ids} \ {0}

\* The first fread.
Load(w) ==
  /\ At(w, "load")
  /\ job' = [job EXCEPT ![w].buf = Content(w), ![w].pos = 1]
  /\ harm' = harm \cup Copied(w)
  /\ Goto(w, "sift")
  /\ UNCHANGED <<files, name, locked, dead, calls, created, sent, done, flagged>>

Without(s, p) == SubSeq(s, 1, p - 1) \o SubSeq(s, p + 1, Len(s))

\* One turn of the loop: an entry that was asked for is not written.
Sift(w) ==
  /\ At(w, "sift")
  /\ LET p == job[w].pos
     IN  IF p > Len(job[w].buf)
           THEN Goto(w, "flush") /\ UNCHANGED job
           ELSE LET k == job[w].buf[p].key
                IN  /\ job' = IF k \in Asked(w)
                                THEN [job EXCEPT ![w].buf = Without(@, p), ![w].gone = @ \cup {k}]
                                ELSE [job EXCEPT ![w].pos = p + 1]
                    /\ UNCHANGED pc
  /\ UNCHANGED <<files, name, locked, dead, calls, created, sent, done, flagged, harm>>

\* s with the first n entries of t written over its beginning.
Overwritten(s, t, n) ==
  [q \in 1 .. (IF n > Len(s) THEN n ELSE Len(s)) |-> IF q <= n THEN t[q] ELSE s[q]]

\* fclose; nobody asks whether the disk had room for all of it.
Flush(w) ==
  /\ At(w, "flush")
  /\ \E n \in 0 .. Len(job[w].buf) :
       /\ files' = [files EXCEPT ![job[w].out] = Overwritten(@, job[w].buf, n)]
       /\ harm' = harm \cup (IF n < Len(job[w].buf) THEN {"short"} ELSE {})
  /\ Goto(w, "swap")
  /\ UNCHANGED <<name, job, locked, dead, calls, created, sent, done, flagged>>

\* rename(tmppath, path), which fails when another one has done it.
Swap(w) ==
  /\ At(w, "swap")
  /\ name' = IF name.web = 0 THEN name ELSE [name EXCEPT !.dir = name.web, !.web = 0]
  /\ done' = done \cup job[w].gone
  /\ harm' = harm \cup Overtaken(w)
  /\ FinishChange(w)
  /\ UNCHANGED <<files, dead, calls, created, sent, flagged>>

-----------------------------------------------------------------------------
\* A process is killed; the kernel drops its flock, its .tmpfile stays.
Crash(w) ==
  /\ w \notin dead /\ pc[w] # "idle"
  /\ dead' = dead \cup {w}
  /\ locked' = locked \ {w}
  /\ job' = [job EXCEPT ![w] = NoJob]
  /\ harm' = harm \cup (IF pc[w] \in {"truncate", "promote"} THEN {"crashed"} ELSE {})
  /\ UNCHANGED <<files, name, pc, calls, created, sent, done, flagged>>

Step(w) ==
  \/ Open(w) \/ Write(w) \/ Stat(w) \/ Store(w)
  \/ Flock(w) \/ Scan(w) \/ Shift(w) \/ Truncate(w) \/ Read(w) \/ Put(w)
  \/ Excl(w) \/ Copy(w) \/ CopyFails(w) \/ Retire(w) \/ Promote(w)
  \/ Wipe(w) \/ Load(w) \/ Sift(w) \/ Flush(w) \/ Swap(w)

Quiet == /\ calls = MaxCalls \/ dead = Workers
         /\ \A w \in Workers : w \in dead \/ pc[w] = "idle"
         /\ UNCHANGED vars

Next ==
  \/ \E w \in Workers : Step(w) \/ Crash(w) \/ BeginAppend(w) \/ BeginChange(w)
  \/ Quiet

Spec == Init /\ [][Next]_vars
-----------------------------------------------------------------------------
(* Properties *)

Busy(w) == w \notin dead /\ pc[w] # "idle"
Pending == UNION {job[w].gone \cup {job[w].look[p].key : p \in job[w].ids} :
                    w \in {v \in Workers : Busy(v)}}
Rank(k) == CHOOSE i \in DOMAIN sent : sent[i] = k

\* IndexKeepsPosts: as long as none of the seven harms has happened, an entry
\* that was appended is in .DIR unless somebody asks for its deletion, one
\* whose deletion succeeded is gone for good, and entries keep the order they
\* were appended in.
IndexKeepsPosts ==
  /\ TypeOK
  /\ harm = {} /\ name.dir # 0 =>
       LET dir == files[name.dir]
       IN  /\ {sent[i] : i \in DOMAIN sent} \ (done \cup Pending) \subseteq Keys(dir)
           /\ Keys(dir) \cap done = {}
           /\ (\A w \in Workers : ~At(w, "truncate")) =>
                \A p, q \in DOMAIN dir :
                  p < q /\ dir[p].key # 0 /\ dir[q].key # 0 => Rank(dir[p].key) < Rank(dir[q].key)

\* FlagsKept: without a race, an entry has the flags that were set on it.
FlagsKept ==
  harm = {} /\ name.dir # 0 =>
    \A p \in DOMAIN files[name.dir] :
      LET e == files[name.dir][p]
      IN  e.key # 0 => e.flags = {f \in Flags : <<e.key, f>> \in flagged}

\* OneRewriter: two processes never write to the same .tmpfile, and .DIR is
\* missing only while its rewriter is, or died, between the two renames.
OneRewriter ==
  /\ \A v, w \in Workers : Rewriting(v) /\ Rewriting(w) => v = w
  /\ \A w \in Workers : Rewriting(w) => name.tmp # 0
  /\ name.dir = 0 => \E w \in Workers : pc[w] = "promote"

\* LocksReleased: a call that has returned, by whatever path, and a process
\* that was killed hold no flock, so that nobody waits for them.
LocksReleased == \A w \in locked : Busy(w) /\ pc[w] \notin {"open", "flock"}
=============================================================================
