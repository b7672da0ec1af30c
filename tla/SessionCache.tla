---------------------------- MODULE SessionCache ----------------------------
(***************************************************************************)
(* The session cache shared by the telnet/ssh processes, the nju09 CGIs    *)
(* and the API server: logins, logouts, evictions, the sweep, the Redis    *)
(* keys that cookies are resolved with, and the processes behind telnet    *)
(* sessions.  Each operation is one step here; SessionSteps interleaves    *)
(* their parts.                                                            *)
(***************************************************************************)
EXTENDS SessionState, FiniteSets

CONSTANTS MaxActive,      \* bbskick looks at the slots 1 .. MaxActive
          LoginInterval,  \* seconds between two logins of a user
          RedisUp,        \* subset of BOOLEAN: may a Redis command fail?
          MaxTime         \* bound on the clock

ASSUME CacheAssumption ==
  /\ MaxActive \in Nat
  /\ LoginInterval \in Nat \ {0}
  /\ RedisUp \subseteq BOOLEAN
  /\ MaxTime \in Nat
  /\ IsFiniteSet(Positions)   \* utmp_indices is an array

VARIABLES uptime,     \* shm_utmp->uptime, time of the last sweep
          lastlogin,  \* userec.lastlogin in PASSFILE
          proc,       \* what each bbs process knows of its session
          cookies,    \* cookies handed to browsers
          now,        \* time(NULL)
          broken      \* history: how the cache has been damaged so far

vars == <<utmp, rows, keys, uptime, lastlogin, proc, cookies, now, nsid, broken>>

NoProc == [uid |-> NoUser, slot |-> 0, sid |-> 0]
Running == {p \in Pids : proc[p] # NoProc}

\* TypeOK: the shared arrays, the Redis keys and the processes' memory hold
\* values of their types; in particular every stored index is one of a slot.
TypeOK ==
  /\ utmp \in [Slots -> Entries]
  /\ rows \in [Users -> [Positions -> Slots \cup {0}]]
  /\ keys \subseteq [sid : Nat, user : Users, slot : Slots, born : Nat]
  /\ uptime \in Nat
  /\ lastlogin \in [Users -> Nat]
  /\ proc \in [Pids -> [uid : Users \cup {NoUser}, slot : Slots \cup {0}, sid : Nat]]
  /\ cookies \subseteq [sid : Nat, user : Users]
  /\ now \in Nat
  /\ nsid \in Nat
  /\ broken \subseteq {"overrun", "misdirected"}

Init ==
  /\ utmp = [i \in Slots |-> Zero]
  /\ rows = [u \in Users |-> [p \in Positions |-> 0]]
  /\ keys = {}
  /\ uptime = 0
  /\ lastlogin = [u \in Users |-> 0]
  /\ proc = [p \in Pids |-> NoProc]
  /\ cookies = {}
  /\ now = LoginInterval
  /\ nsid = 0
  /\ broken = {}

-----------------------------------------------------------------------------
\* The end of utmp_insert: at most once per SweepPeriod, clear what is due.
\* Only web sessions lose their key.  alive: the pids kill(pid, 0) finds.
Sweep(ut, rw, ks, up, alive) ==
  IF now > uptime + SweepPeriod
    THEN LET due == {i \in Slots : Doomed(ut[i], now, alive)}
             web == {ut[i].sid : i \in {j \in due : ut[j].pid = WebPid}}
         IN  /\ utmp' = SweptTable(ut, due)
             /\ rows' = [u \in Users |-> SweptRow(rw[u], u, ut, due)]
             /\ keys' = IF up THEN WithoutKeys(ks, web) ELSE ks
             /\ uptime' = now
    ELSE utmp' = ut /\ rows' = rw /\ keys' = ks /\ UNCHANGED uptime

\* add_utmp_idx found position p: store the index, evict, publish the key.
Place(u, c, sid, ut, p, up, alive) ==
  LET out    == Evicted(ut, rows[u], u, c.index, p)
      parted == IF out = 0 THEN ut ELSE [ut EXCEPT ![out].active = FALSE]
  IN  Sweep(parted, [rows EXCEPT ![u][p] = c.index],
            IF up THEN keys \cup {Key(sid, u, c.index, now)} ELSE keys, up, alive)

\* What the caller keeps of its login: a process the slot, a browser the
\* cookie.  No caller looks at a failed insertion.
Answer(u, pid, sid, slot) ==
  IF pid = WebPid
    THEN /\ cookies' = IF sid = 0 THEN cookies
                                  ELSE cookies \cup {[sid |-> sid, user |-> u]}
         /\ UNCHANGED proc
    ELSE /\ proc' = [proc EXCEPT ![pid] = [uid |-> u, slot |-> slot, sid |-> sid]]
         /\ UNCHANGED cookies

\* ythtbbs_user_login with ythtbbs_cache_utmp_insert under its lock.
Login(u, t, pid, h, up) ==
  /\ nsid < MaxSid
  /\ now - lastlogin[u] >= LoginInterval
  /\ IF t \in ProcTypes THEN pid \in Pids \ Running ELSE pid = WebPid
  /\ lastlogin' = [lastlogin EXCEPT ![u] = now]
  /\ \/ /\ Claims(utmp, h) = {}
        /\ Answer(u, pid, 0, 0)
        /\ UNCHANGED <<utmp, rows, keys, uptime, nsid, broken>>
     \/ \E c \in Claims(utmp, h) :
          LET sid    == nsid + 1
              copied == [utmp EXCEPT ![c.entry] = NewEntry(u, pid, sid, now)]
              spots  == Landing(copied, rows[u], u, c.index, Segment[t], now)
          IN  /\ nsid' = sid
              /\ broken' = broken \cup (IF c.entry = c.index THEN {} ELSE {"overrun"})
              /\ \/ /\ spots = {}
                    /\ utmp' = [utmp EXCEPT ![c.entry] = Zero]
                    /\ Answer(u, pid, sid, 0)
                    /\ UNCHANGED <<rows, keys, uptime>>
                 \/ \E p \in spots :
                      /\ Place(u, c, sid, copied, p, up, Running \cup {pid})
                      /\ Answer(u, pid, sid, c.index)
  /\ UNCHANGED now

-----------------------------------------------------------------------------
\* ythtbbs_cache_utmp_remove
UtmpRemove(i, up) ==
  /\ utmp[i].active
  /\ rows' = [rows EXCEPT ![utmp[i].uid] = Unindex(@, i)]
  /\ keys' = IF up THEN WithoutKeys(keys, {utmp[i].sid}) ELSE keys
  /\ utmp' = [utmp EXCEPT ![i] = Zero]

\* The check of nju09's user_init on the entry a cookie leads to.
Matches(c, i) == utmp[i].active /\ utmp[i].sid = c.sid /\ utmp[i].name = c.user

\* A page view through nju09 refreshes the session.
Touch(c) ==
  /\ \E i \in Lookup(keys, c) :
       Matches(c, i) /\ utmp' = [utmp EXCEPT ![i].last = now]
  /\ UNCHANGED <<rows, keys, uptime, lastlogin, proc, cookies, now, nsid, broken>>

\* bbslogout
WwwLogout(c, up) ==
  /\ \E i \in Lookup(keys, c) : Matches(c, i) /\ UtmpRemove(i, up)
  /\ UNCHANGED <<uptime, lastlogin, proc, cookies, now, nsid, broken>>

\* api_user_logout: api_check_session does not look at the entry, and the
\* user id handed to ythtbbs_user_logout is the entry's own.
ApiLogout(c, up) ==
  /\ \E i \in Lookup(keys, c) :
       /\ utmp[i].name # NoUser
       /\ UtmpRemove(i, up)
       /\ broken' = broken \cup (IF utmp[i].sid = c.sid THEN {} ELSE {"misdirected"})
  /\ UNCHANGED <<uptime, lastlogin, proc, cookies, now, nsid>>

\* u_exit of a bbs process, whose session may be gone.
TelnetExit(p, up) ==
  /\ p \in Running
  /\ proc' = [proc EXCEPT ![p] = NoProc]
  /\ LET s == proc[p].slot
     IN  IF s # 0 /\ utmp[s].name = proc[p].uid /\ utmp[s].active
           THEN UtmpRemove(s, up)
           ELSE UNCHANGED <<utmp, rows, keys>>
  /\ UNCHANGED <<uptime, lastlogin, cookies, now, nsid, broken>>

\* A bbs process dies without u_exit: SIGKILL by multi_user_check, a fault.
TelnetCrash(p) ==
  /\ p \in Running
  /\ proc' = [proc EXCEPT ![p] = NoProc]
  /\ UNCHANGED <<utmp, rows, keys, uptime, lastlogin, cookies, now, nsid, broken>>

\* update_utmp copies the tail of the process's own struct over the entry.
TelnetUpdate(p) ==
  /\ p \in Running /\ proc[p].slot # 0
  /\ utmp' = [utmp EXCEPT ![proc[p].slot] =
                [@ EXCEPT !.last = now, !.sid = proc[p].sid, !.name = proc[p].uid,
                          !.start = 0, !.kicked = FALSE]]
  /\ UNCHANGED <<rows, keys, uptime, lastlogin, proc, cookies, now, nsid, broken>>

\* bbskick
Kick(i) ==
  /\ i <= MaxActive
  /\ utmp[i].active /\ utmp[i].pid = WebPid
  /\ utmp' = [utmp EXCEPT ![i].kicked = TRUE]
  /\ UNCHANGED <<rows, keys, uptime, lastlogin, proc, cookies, now, nsid, broken>>

\* usertable_count drops from a row the sessions of dead processes.
Count(u) ==
  /\ rows' = [rows EXCEPT ![u] = [p \in Positions |->
                LET i == rows[u][p]
                IN  IF /\ i # 0 /\ utmp[i].active /\ utmp[i].uid = u
                       /\ utmp[i].pid > WebPid /\ utmp[i].pid \notin Running
                      THEN 0 ELSE i]]
  /\ UNCHANGED <<utmp, keys, uptime, lastlogin, proc, cookies, now, nsid, broken>>

\* EXPIRE BMY:Session:<sid> MAX_SESS_TIME
KeyExpires(k) ==
  /\ now - k.born >= MaxSess
  /\ keys' = keys \ {k}
  /\ UNCHANGED <<utmp, rows, uptime, lastlogin, proc, cookies, now, nsid, broken>>

Tick ==
  /\ now < MaxTime
  /\ now' = now + 1
  /\ UNCHANGED <<utmp, rows, keys, uptime, lastlogin, proc, cookies, nsid, broken>>

Next ==
  \/ \E u \in Users, t \in Types, pid \in Pids \cup {WebPid}, h \in Homes, up \in RedisUp :
       Login(u, t, pid, h, up)
  \/ \E c \in cookies : Touch(c)
  \/ \E c \in cookies, up \in RedisUp : WwwLogout(c, up) \/ ApiLogout(c, up)
  \/ \E p \in Pids, up \in RedisUp : TelnetExit(p, up)
  \/ \E p \in Pids : TelnetCrash(p) \/ TelnetUpdate(p)
  \/ \E i \in Slots : Kick(i)
  \/ \E u \in Users : Count(u)
  \/ \E k \in keys : KeyExpires(k)
  \/ Tick

Spec == Init /\ [][Next]_vars
-----------------------------------------------------------------------------
(* Properties *)

\* IndexExact: unless a login has overrun a full table, every index in a row
\* names an active entry of that row's user, no entry is indexed twice, and
\* every web session, and every session some running process holds, is
\* indexed, so that it can be found, counted and evicted.
IndexSound ==
  \A u \in Users, p \in Positions :
    rows[u][p] # 0 => utmp[rows[u][p]].active /\ utmp[rows[u][p]].uid = u

IndexUnique ==
  \A u \in Users, p, q \in Positions :
    rows[u][p] # 0 /\ rows[u][p] = rows[u][q] => p = q

Held(i) == \E p \in Pids : utmp[i].pid = p /\ proc[p].slot = i

IndexComplete ==
  \A i \in Slots :
    utmp[i].active /\ (utmp[i].pid = WebPid \/ Held(i))
      => \E p \in Positions : rows[utmp[i].uid][p] = i

IndexExact ==
  "overrun" \notin broken => IndexSound /\ IndexUnique /\ IndexComplete

\* KeyPointsHome: while the cache is undamaged, a session id names at most
\* one active session, and a Redis key for the id of an active session leads
\* to that session's slot and user.
KeyPointsHome ==
  broken = {} =>
    \A i \in Slots : utmp[i].active =>
      /\ \A j \in Slots : utmp[j].active /\ utmp[j].sid = utmp[i].sid => j = i
      /\ \A k \in keys : k.sid = utmp[i].sid => k.slot = i /\ k.user = utmp[i].uid

\* ProcessKeepsEntry: while the cache is undamaged, the slot a running bbs
\* process remembers (utmpent) holds that process's session: evictions, the
\* sweep and others' logouts spare it, so update_utmp and u_exit hit their own.
ProcessKeepsEntry ==
  broken = {} =>
    \A p \in Running : LET s == proc[p].slot
      IN s # 0 => /\ utmp[s].active /\ utmp[s].pid = p
                  /\ utmp[s].uid = proc[p].uid /\ utmp[s].sid = proc[p].sid

\* ServesSessions: seen as a set of open sessions, the cache keeps the promise of
\* Sessions; its slots, rows and keys are an implementation of that set.  The
\* web sessions of a user have the web positions of a row: 4 for nju09 and the
\* API together, 2 for oauth.
WebPositions == UNION {Segment[t] : t \in Types \ ProcTypes}
OpenSession(i) == [sid |-> utmp[i].sid, user |-> utmp[i].uid, web |-> utmp[i].pid = WebPid]
Promise == INSTANCE Sessions WITH
  live  <- {OpenSession(i) : i \in {j \in Slots : utmp[j].active}},
  due   <- {OpenSession(i) : i \in {j \in Slots : Doomed(utmp[j], now, Running)}},
  last  <- nsid,
  void  <- broken,
  Quota <- Cardinality(WebPositions)
ServesSessions == Promise!Spec

-----------------------------------------------------------------------------
(* Promises of the documentation that the code does not keep. *)

\* InsertReturnsIndex (cache.h: "@return -1 ... otherwise the index"): the
\* index published for a new session is where its entry is.
InsertReturnsIndex ==
  [][\A k \in keys' \ keys : utmp'[k.slot].sid = k.sid]_vars
=============================================================================
