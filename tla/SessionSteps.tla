---------------------------- MODULE SessionSteps ----------------------------
(***************************************************************************)
(* The web side of the session cache with its operations taken apart: the  *)
(* parts of utmp_insert run under the lock .CACHE.utmp.lock, those of      *)
(* ythtbbs_user_logout and utmp_remove run under none.  A worker is a CGI  *)
(* process or an API thread.  The clock is left out: an entry's age is its *)
(* session number, and any web session may be due when a sweep looks.      *)
(***************************************************************************)
EXTENDS SessionState

CONSTANTS Workers, NoWorker

ASSUME StepsAssumption == NoWorker \notin Workers

VARIABLES lock,   \* holder of .CACHE.utmp.lock
          pc,     \* what each worker does next
          job,    \* its arguments and local variables
          dead    \* workers killed in the middle

stepVars == <<utmp, rows, keys, lock, pc, job, dead, nsid>>

NoJob == [user |-> NoUser, type |-> "", slot |-> 0, sid |-> 0]

StepsInit ==
  /\ utmp = [i \in Slots |-> Zero]
  /\ rows = [u \in Users |-> [p \in Positions |-> 0]]
  /\ keys = {}
  /\ lock = NoWorker
  /\ pc = [w \in Workers |-> "idle"]
  /\ job = [w \in Workers |-> NoJob]
  /\ dead = {}
  /\ nsid = 0

At(w, step) == w \notin dead /\ pc[w] = step
Goto(w, step) == pc' = [pc EXCEPT ![w] = step]
Finish(w) == Goto(w, "idle") /\ job' = [job EXCEPT ![w] = NoJob]

-----------------------------------------------------------------------------
(* ythtbbs_user_login and ythtbbs_cache_utmp_insert                        *)

StartLogin(w, u, t) ==
  /\ At(w, "idle") /\ nsid < MaxSid
  /\ nsid' = nsid + 1
  /\ job' = [job EXCEPT ![w] = [user |-> u, type |-> t, slot |-> 0, sid |-> nsid + 1]]
  /\ Goto(w, "lock")
  /\ UNCHANGED <<utmp, rows, keys, lock, dead>>

\* Mutant of TakeLock: the lock does not exclude anyone.
TakeLockShared(w) ==
  /\ At(w, "lock")
  /\ lock' = w
  /\ Goto(w, "claim")
  /\ UNCHANGED <<utmp, rows, keys, job, dead, nsid>>

TakeLock(w) ==
  /\ At(w, "lock") /\ lock = NoWorker
  /\ lock' = w
  /\ Goto(w, "claim")
  /\ UNCHANGED <<utmp, rows, keys, job, dead, nsid>>

Unlock == lock' = NoWorker

\* The probe and the memcpy.  A full table is left to SessionCache.
Claim(w, h) ==
  /\ At(w, "claim")
  /\ IF Free(utmp) = {}
       THEN Unlock /\ Finish(w) /\ UNCHANGED utmp
       ELSE \E i \in FirstFree(utmp, h) :
              /\ utmp' = [utmp EXCEPT ![i] =
                            NewEntry(job[w].user, WebPid, job[w].sid, job[w].sid)]
              /\ job' = [job EXCEPT ![w].slot = i]
              /\ Goto(w, "index")
              /\ UNCHANGED lock
  /\ UNCHANGED <<rows, keys, dead, nsid>>

\* Mutant of Index: the failure path returns without releasing the lock.
IndexKeepsLock(w) ==
  /\ At(w, "index")
  /\ \/ /\ utmp' = [utmp EXCEPT ![job[w].slot] = Zero]
        /\ Finish(w)
        /\ UNCHANGED rows
     \/ \E p \in Segment[job[w].type] :
          /\ rows' = [rows EXCEPT ![job[w].user][p] = job[w].slot]
          /\ Goto(w, "publish")
          /\ UNCHANGED <<utmp, job>>
  /\ UNCHANGED <<keys, lock, dead, nsid>>

\* add_utmp_idx; on failure the entry is cleared and the lock released.  The
\* sessions numbered from time on were used in this very second.
Index(w) ==
  /\ At(w, "index")
  /\ LET u == job[w].user
         i == job[w].slot
         spots(time) == Landing(utmp, rows[u], u, i, Segment[job[w].type], time)
     IN  \E time \in 1 .. nsid + 1 :
           \/ /\ spots(time) = {}
              /\ utmp' = [utmp EXCEPT ![i] = Zero]
              /\ Unlock /\ Finish(w)
              /\ UNCHANGED rows
           \/ \E p \in spots(time) :
                /\ LET out == Evicted(utmp, rows[u], u, i, p)
                   IN  utmp' = IF out = 0 THEN utmp ELSE [utmp EXCEPT ![out].active = FALSE]
                /\ rows' = [rows EXCEPT ![u][p] = i]
                /\ Goto(w, "publish")
                /\ UNCHANGED <<lock, job>>
  /\ UNCHANGED <<keys, dead, nsid>>

\* session_set reads session id and user from the entry, which a logout may
\* have cleared meanwhile (HSET BMY:Session: with an empty id is harmless).
Publish(w) ==
  /\ At(w, "publish")
  /\ LET e == utmp[job[w].slot]
     IN  keys' = IF e.sid = 0 THEN keys
                 ELSE keys \cup {Key(e.sid, e.name, job[w].slot, 0)}
  /\ \/ Goto(w, "sweep") /\ UNCHANGED <<lock, job>>
     \/ Unlock /\ Finish(w)             \* swept less than a minute ago
  /\ UNCHANGED <<utmp, rows, dead, nsid>>

SweepAll(w) ==
  /\ At(w, "sweep")
  /\ \E due \in SUBSET {i \in Slots : utmp[i].active /\ utmp[i].pid = WebPid} :
       /\ utmp' = SweptTable(utmp, due)
       /\ rows' = [u \in Users |-> SweptRow(rows[u], u, utmp, due)]
       /\ keys' = WithoutKeys(keys, {utmp[i].sid : i \in due})
  /\ Unlock /\ Finish(w)
  /\ UNCHANGED <<dead, nsid>>

-----------------------------------------------------------------------------
(* bbslogout, ythtbbs_user_logout and ythtbbs_cache_utmp_remove            *)

\* user_init found the session of the cookie: id, user and activity agree.
StartLogout(w, k) ==
  /\ At(w, "idle")
  /\ utmp[k.slot].active /\ utmp[k.slot].sid = k.sid /\ utmp[k.slot].name = k.user
  /\ job' = [job EXCEPT ![w] = [user |-> k.user, type |-> "", slot |-> k.slot, sid |-> k.sid]]
  /\ Goto(w, "check")
  /\ UNCHANGED <<utmp, rows, keys, lock, dead, nsid>>

\* strcmp(userid, ptr_info->userid); PASSFILE is read after this.
CheckOwner(w) ==
  /\ At(w, "check")
  /\ IF utmp[job[w].slot].name = job[w].user
       THEN Goto(w, "remove") /\ UNCHANGED job
       ELSE Finish(w)
  /\ UNCHANGED <<utmp, rows, keys, lock, dead, nsid>>

Remove(w) ==
  /\ At(w, "remove")
  /\ LET i == job[w].slot
         u == utmp[i].uid
     IN  IF utmp[i].active
           THEN /\ rows' = [rows EXCEPT ![u] = Unindex(rows[u], i)]
                /\ Goto(w, "unkey") /\ UNCHANGED job
           ELSE Finish(w) /\ UNCHANGED rows
  /\ UNCHANGED <<utmp, keys, lock, dead, nsid>>

Unkey(w) ==
  /\ At(w, "unkey")
  /\ keys' = WithoutKeys(keys, {utmp[job[w].slot].sid})
  /\ Goto(w, "wipe")
  /\ UNCHANGED <<utmp, rows, lock, job, dead, nsid>>

Wipe(w) ==
  /\ At(w, "wipe")
  /\ utmp' = [utmp EXCEPT ![job[w].slot] = Zero]
  /\ Finish(w)
  /\ UNCHANGED <<rows, keys, lock, dead, nsid>>

-----------------------------------------------------------------------------
\* A worker is killed; the kernel drops its lock.
Crash(w) ==
  /\ w \notin dead /\ pc[w] # "idle"
  /\ dead' = dead \cup {w}
  /\ lock' = IF lock = w THEN NoWorker ELSE lock
  /\ UNCHANGED <<utmp, rows, keys, pc, job, nsid>>

Step(w) ==
  \/ TakeLock(w) \/ (\E h \in Homes : Claim(w, h)) \/ Index(w) \/ Publish(w) \/ SweepAll(w)
  \/ CheckOwner(w) \/ Remove(w) \/ Unkey(w) \/ Wipe(w)

Quiet == /\ \A w \in Workers : w \in dead \/ pc[w] = "idle"
         /\ UNCHANGED stepVars

StepsNext ==
  \/ \E w \in Workers : Step(w) \/ Crash(w)
  \/ \E w \in Workers, u \in Users, t \in Types : StartLogin(w, u, t)
  \/ \E w \in Workers, k \in keys : StartLogout(w, k)
  \/ Quiet

\* Workers run their code; nothing else is owed.
StepsSpec == StepsInit /\ [][StepsNext]_stepVars /\ \A w \in Workers : WF_stepVars(Step(w))

-----------------------------------------------------------------------------
(* Properties *)

\* UnindexedInHand: an active session that is in no row of its user, so that
\* it cannot be counted or evicted, is being inserted or logged out at this
\* moment, or the worker that did so was killed half way.
InHand(i) ==
  \E w \in Workers : job[w].slot = i /\ pc[w] \in {"index", "unkey", "wipe"}
UnindexedInHand ==
  \A i \in Slots :
    utmp[i].active /\ ~InHand(i) => \E p \in Positions : rows[utmp[i].uid][p] = i

\* InsertExclusive: until utmp_insert returns, the slot it claimed holds its
\* session or has been cleared: the lock keeps other insertions out of it.
InsertExclusive ==
  \A w \in Workers :
    w \notin dead /\ pc[w] \in {"index", "publish", "sweep"}
      => utmp[job[w].slot].sid \in {0, job[w].sid}

\* EveryCallReturns: a login or logout that is not killed ends: every path
\* through utmp_insert releases the lock, and a killed holder does not keep it.
EveryCallReturns ==
  \A w \in Workers : pc[w] # "idle" ~> pc[w] = "idle" \/ w \in dead

\* LogoutEndsOwn (user.c: "ptr_info belongs to this user"): the session that
\* a logout clears belongs to the user who logs out.
LogoutEndsOwn ==
  [][\A w \in Workers : Wipe(w) =>
       LET e == utmp[job[w].slot] IN e.active => e.uid = job[w].user]_stepVars
=============================================================================
