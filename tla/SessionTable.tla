---------------------------- MODULE SessionTable ----------------------------
(***************************************************************************)
(* The data of the session cache and the pure part of its operations:      *)
(* the utmp array (libythtbbs/cache/utmp.c), the utmp_indices rows of the  *)
(* user table (libythtbbs/cache/user.c) and the Redis session keys         *)
(* (libythtbbs/session.c).                                                 *)
(*                                                                         *)
(* Slots are numbered from 1, as utmp_indices stores them (index + 1), so  *)
(* that 0 is the empty position of a row.  Operators that pick "the first  *)
(* such that" return the set of the possible picks: a singleton, or the    *)
(* empty set where the code finds none.                                    *)
(***************************************************************************)
EXTENDS Integers

CONSTANTS Users,         \* uids
          NSlots,        \* USHM_SIZE
          Homes,         \* slots where the probe of utmp_insert may start
          Types,         \* login types
          ProcTypes,     \* those whose session belongs to a process
          Segment,       \* positions of a row that a login type may use
          Pids,          \* process numbers, all above 1
          MaxIdle,       \* MAX_IDEL_TIME
          MaxSess,       \* MAX_SESS_TIME
          Grace,         \* 120 s before a silent process is probed
          SweepPeriod    \* 60 s between two sweeps

Slots == 1 .. NSlots
Positions == UNION {Segment[t] : t \in Types}
NoUser == 0
WebPid == 1              \* pid of every www, api and oauth session

ASSUME TableAssumption ==
  /\ Users \subseteq Nat \ {0}
  /\ NSlots \in Nat \ {0}
  /\ Homes \subseteq Slots
  /\ ProcTypes \subseteq Types
  /\ Segment \in [Types -> SUBSET Nat]
  /\ Pids \subseteq Nat \ {0, WebPid}
  /\ MaxIdle \in Nat /\ MaxSess \in Nat /\ Grace \in Nat
  /\ SweepPeriod \in Nat

\* struct user_info, the fields the cache decides on.
Entries == [active : BOOLEAN, uid : Users \cup {NoUser},
            pid : Pids \cup {0, WebPid}, name : Users \cup {NoUser},
            sid : Nat, last : Nat, start : Nat, kicked : BOOLEAN]

\* memset(entry, 0, sizeof entry)
Zero == [active |-> FALSE, uid |-> NoUser, pid |-> 0, name |-> NoUser,
         sid |-> 0, last |-> 0, start |-> 0, kicked |-> FALSE]

\* Mutant of NewEntry: the session id is the user's, not a fresh one.
NewEntryOfUser(u, pid, sid, time) ==
  [active |-> TRUE, uid |-> u, pid |-> pid, name |-> u, sid |-> u,
   last |-> time, start |-> time, kicked |-> FALSE]

NewEntry(u, pid, sid, time) ==
  [active |-> TRUE, uid |-> u, pid |-> pid, name |-> u, sid |-> sid,
   last |-> time, start |-> IF pid = WebPid THEN time ELSE 0, kicked |-> FALSE]

-----------------------------------------------------------------------------
(* The probe of ythtbbs_cache_utmp_insert.                                 *)

Free(utmp) == {i \in Slots : ~utmp[i].active \/ utmp[i].pid = 0}

\* Steps from slot h to slot i when the probe wraps at the end of the array.
Distance(h, i) == IF i >= h THEN i - h ELSE i - h + NSlots

FirstFree(utmp, h) ==
  {i \in Free(utmp) : \A k \in Free(utmp) : Distance(h, i) <= Distance(h, k)}

\* Mutant of Claims: the probe never wraps to the start of the array.
ClaimsUnwrapped(utmp, h) ==
  LET ahead == {i \in Free(utmp) : i >= h}
  IN  IF ahead # {}
        THEN {[entry |-> i, index |-> i] : i \in {k \in ahead : \A l \in ahead : k <= l}}
        ELSE {[entry |-> NSlots, index |-> NSlots + 1]}

\* Where the entry is written and which index is recorded for it.  When no
\* slot is free the loop leaves the entry pointer on the last slot examined
\* and j one further; only a probe that started at slot 1 notices.
Claims(utmp, h) ==
  IF Free(utmp) # {}
    THEN {[entry |-> i, index |-> i] : i \in FirstFree(utmp, h)}
    ELSE IF h = 1 THEN {} ELSE {[entry |-> h - 1, index |-> h]}

-----------------------------------------------------------------------------
(* ythtbbs_cache_UserTable_add_utmp_idx and _remove_utmp_idx on a row.     *)

\* Position p of u's row holds nothing that still belongs to u.
Vacant(utmp, row, u, p) ==
  row[p] = 0 \/ ~utmp[row[p]].active \/ utmp[row[p]].uid # u

\* The position the new index goes to: one that already holds it, else the
\* first vacant one, else that of the web session used longest ago (strictly
\* before now; the first of them on a tie).  Process sessions are skipped.
Landing(utmp, row, u, j, seg, now) ==
  LET present   == {p \in seg : row[p] = j}
      vacant    == {p \in seg : Vacant(utmp, row, u, p)}
      age(p)    == utmp[row[p]].last
      evictable == {p \in seg : utmp[row[p]].pid <= WebPid /\ age(p) < now}
  IN  IF present # {} THEN present
      ELSE IF vacant # {} THEN {p \in vacant : \A q \in vacant : p <= q}
      ELSE {p \in evictable : \A q \in evictable :
              age(p) < age(q) \/ (age(p) = age(q) /\ p <= q)}

\* Mutant of Evicted: the replaced session stays active.
EvictedNone(utmp, row, u, j, p) == 0

\* The slot whose session loses its place to the new index, 0 for none.
Evicted(utmp, row, u, j, p) ==
  IF row[p] = j \/ Vacant(utmp, row, u, p) THEN 0 ELSE row[p]

\* Mutant of Unindex: the whole row is cleared.
UnindexAll(row, i) == [p \in Positions |-> 0]

\* remove_utmp_idx clears the first position that holds slot i.
Unindex(row, i) ==
  [p \in Positions |-> IF row[p] = i /\ \A q \in Positions : q < p => row[q] # i
                         THEN 0 ELSE row[p]]

-----------------------------------------------------------------------------
(* The sweep at the end of utmp_insert.                                    *)

\* Mutant of Doomed: silent processes are not probed with kill(pid, 0).
DoomedUnprobed(e, now, running) ==
  /\ e.active
  /\ IF e.pid = WebPid
       THEN now - e.last > MaxIdle \/ now - e.start > MaxSess \/ e.kicked
       ELSE now - e.last >= Grace

Doomed(e, now, running) ==
  /\ e.active
  /\ IF e.pid = WebPid
       THEN now - e.last > MaxIdle \/ now - e.start > MaxSess \/ e.kicked
       ELSE now - e.last >= Grace /\ e.pid \notin running

\* Mutant of SweptRow: the sweep forgets remove_utmp_idx.
SweptRowKept(row, u, utmp, doomed) == row

\* The sweep drops from every row the doomed slots of that row's user.
SweptRow(row, u, utmp, doomed) ==
  [p \in Positions |->
     IF /\ row[p] \in doomed /\ utmp[row[p]].uid = u
        /\ \A q \in Positions : q < p => row[q] # row[p]
       THEN 0 ELSE row[p]]

SweptTable(utmp, doomed) ==
  [i \in Slots |-> IF i \in doomed THEN Zero ELSE utmp[i]]

-----------------------------------------------------------------------------
(* BMY:Session:<sid> -> [userid, utmp_idx] in Redis.                       *)

Key(sid, u, i, time) == [sid |-> sid, user |-> u, slot |-> i, born |-> time]

\* session_del for each of the session ids sids.
WithoutKeys(keys, sids) == {k \in keys : k.sid \notin sids}

\* session_get_utmp_idx: the key of the session id, if its user matches.
Lookup(keys, c) == {k.slot : k \in {x \in keys : x.sid = c.sid /\ x.user = c.user}}
=============================================================================
