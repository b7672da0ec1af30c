---------------------------- MODULE UserRegistry ----------------------------
(***************************************************************************)
(* Registration of users: PASSFILE, the shared cache of its user ids       *)
(* (ythtbbs_cache_UserTable), the hash table from an id to its record      *)
(* (ythtbbs_cache_UserIDHashTable), the file .PASSFLUSH whose mtime makes  *)
(* the cache stale, and the clean-up of expired users.  A worker is a      *)
(* telnet process or an nju09 CGI in the middle of a registration.         *)
(*                                                                         *)
(* Records are numbered from 1.  The lock on PASSFILE covers exactly the   *)
(* steps Allocate and Clean, the lock .CACHE.user.lock each reload; what   *)
(* lies between these steps runs under no lock.                            *)
(***************************************************************************)
EXTENDS Integers, Sequences

CONSTANTS Ids, NoId,      \* user ids; NoId is the id of a zeroed record
          MaxUsers,       \* MAXUSERS
          HashSize,       \* UCACHE_HASH_SIZE
          Home,           \* where the probe for an id starts
          Window,         \* items a probe looks at (5 blocks)
          Workers,
          Life,           \* age at which a user may have expired
          KillPeriod,     \* 3600 s between two clean-ups
          MaxTime         \* bound on the clock

ASSUME RegistryAssumption ==
  /\ NoId \notin Ids
  /\ MaxUsers \in Nat \ {0} /\ HashSize \in Nat \ {0}
  /\ Home \in [Ids -> 1 .. HashSize]
  /\ Window \in 1 .. HashSize
  /\ Life \in Nat \ {0} /\ KillPeriod \in Nat /\ MaxTime \in Nat

VARIABLES file,      \* PASSFILE: a sequence of records
          flush,     \* mtime of .PASSFLUSH
          killed,    \* mtime of tmp/killuser, 0 if there is none
          cache,     \* both shared tables
          pc, job,   \* registrations under way
          now,
          expired,   \* history: ids of users that were cleaned up
          broken     \* history: how registrations have damaged PASSFILE

vars == <<file, flush, killed, cache, pc, job, now, expired, broken>>

Numbers == 1 .. MaxUsers
Hashes  == 1 .. HashSize
Records == [id : Ids \cup {NoId}, born : Nat]
ZeroRecord == [id |-> NoId, born |-> 0]
NoItem == [id |-> NoId, idx |-> 0]
NoJob  == [id |-> NoId, via |-> "none", slot |-> 0]
Steps  == {"idle", "clean", "allocate", "touch", "resolve", "setuserid", "verify"}

\* TypeOK: PASSFILE and its caches hold what their types say; no record, cached
\* row or hash item lies beyond MAXUSERS.
TypeOK ==
  /\ file \in Seq(Records) /\ Len(file) <= MaxUsers
  /\ flush \in Nat /\ killed \in Nat /\ now \in Nat
  /\ cache \in [users : [Numbers -> Ids \cup {NoId}], number : 0 .. MaxUsers,
                time : Nat,
                items : [Hashes -> [id : Ids \cup {NoId}, idx : 0 .. MaxUsers]]]
  /\ pc \in [Workers -> Steps]
  /\ job \in [Workers -> [id : Ids \cup {NoId}, via : {"none", "telnet", "web"},
                          slot : 0 .. MaxUsers]]
  /\ expired \subseteq Ids
  /\ broken \subseteq {"overwritten", "duplicate"}

\* .PASSFLUSH does not exist at first: its mtime counts as 1.
Init ==
  /\ file = <<>>
  /\ flush = 1
  /\ killed = 0
  /\ cache = [users |-> [n \in Numbers |-> NoId], number |-> 0, time |-> 0,
              items |-> [h \in Hashes |-> NoItem]]
  /\ pc = [w \in Workers |-> "idle"]
  /\ job = [w \in Workers |-> NoJob]
  /\ now = 2
  /\ expired = {}
  /\ broken = {}

-----------------------------------------------------------------------------
(* The hash table                                                          *)

Least(S) == CHOOSE n \in S : \A m \in S : n <= m

\* The k-th item the probe for id looks at.
Probe(id, k) == 1 + ((Home[id] + k - 1) % HashSize)

\* find_idx + 1; 0 if the id is not in the table.
Find(items, id) ==
  LET hits == {k \in 0 .. Window - 1 : items[Probe(id, k)].id = id}
  IN  IF hits = {} THEN 0 ELSE items[Probe(id, Least(hits))].idx

\* Mutant of Insert: no probing, the item at home is taken over.
InsertAtHome(items, id, n) ==
  IF Find(items, id) # 0 THEN items
  ELSE [items EXCEPT ![Probe(id, 0)] = [id |-> id, idx |-> n]]

\* An id that is in the table keeps its item, whatever its index; a new one
\* gets the first item that is free or was of the same record.
Insert(items, id, n) ==
  LET spots == {k \in 0 .. Window - 1 : items[Probe(id, k)].idx \in {0, n}}
  IN  IF id = NoId \/ Find(items, id) # 0 \/ spots = {} THEN items
      ELSE [items EXCEPT ![Probe(id, Least(spots))] = [id |-> id, idx |-> n]]

Rehash(items, users, number) ==
  LET after[n \in 0 .. number] ==
        IF n = 0 THEN items
        ELSE IF users[n] = NoId THEN after[n - 1] ELSE Insert(after[n - 1], users[n], n)
  IN  after[number]

-----------------------------------------------------------------------------
(* The user table                                                          *)

\* Mutant of Resolved: the last record of PASSFILE is not counted.
ResolvedShort(c) ==
  IF c.time >= flush \/ file = <<>> THEN c
  ELSE LET users == [n \in Numbers |-> IF n < Len(file) THEN file[n].id ELSE c.users[n]]
       IN  [users |-> users, number |-> Len(file) - 1, time |-> flush,
            items |-> Rehash(c.items, users, Len(file) - 1)]

\* What ythtbbs_cache_UserTable_resolve makes of the tables.
Resolved(c) ==
  IF c.time >= flush THEN c
  ELSE LET users == [n \in Numbers |-> IF n <= Len(file) THEN file[n].id ELSE c.users[n]]
       IN  [users |-> users, number |-> Len(file), time |-> flush,
            items |-> Rehash(c.items, users, Len(file))]

\* searchnewuser; 0 if there is no room.
NewUser(c) ==
  LET free == {n \in 1 .. c.number : c.users[n] = NoId}
  IN  IF free # {} THEN Least(free) ELSE IF c.number < MaxUsers THEN c.number + 1 ELSE 0

\* search_usernum: through the hash table, else by a linear search.
Usernum(c, id) ==
  LET n == Find(c.items, id)
      same == {m \in 1 .. c.number : c.users[m] = id}
  IN  IF n # 0 /\ c.users[n] = id THEN n ELSE IF same # {} THEN Least(same) ELSE 0

\* dosearchuser compares the id with the record it finds; nju09's getuser
\* only asks the hash table, without resolving it.
Taken(via, c, id) ==
  IF via = "telnet"
    THEN LET n == Usernum(c, id) IN n # 0 /\ n <= Len(file) /\ file[n].id = id
    ELSE Find(c.items, id) # 0

-----------------------------------------------------------------------------
(* Registration                                                            *)

Goto(w, step) == pc' = [pc EXCEPT ![w] = step]
Finish(w) == Goto(w, "idle") /\ job' = [job EXCEPT ![w] = NoJob]

\* The form: is the id free?  Nothing is locked.
CheckId(w, id, via) ==
  /\ pc[w] = "idle"
  /\ LET c == IF via = "telnet" THEN Resolved(cache) ELSE cache
     IN  /\ cache' = c
         /\ IF Taken(via, c, id)
              THEN UNCHANGED <<pc, job>>
              ELSE /\ job' = [job EXCEPT ![w] = [id |-> id, via |-> via, slot |-> 0]]
                   /\ Goto(w, IF via = "telnet" THEN "clean" ELSE "allocate")
  /\ UNCHANGED <<file, flush, killed, now, expired, broken>>

\* A registration takes seconds and a user lives for weeks: nobody expires
\* while his own registration is under way.
MayExpire(n) ==
  /\ file[n].id # NoId /\ now - file[n].born >= Life
  /\ \A w \in Workers : job[w].slot # n

\* ythtbbs_user_clean.  Logins prolong a life, so any of the old users may
\* have expired.  The cache is not told.
Clean(w) ==
  /\ pc[w] = "clean"
  /\ Goto(w, "allocate")
  /\ IF killed = 0 \/ killed < now - KillPeriod
       THEN \E due \in SUBSET {n \in 1 .. Len(file) : MayExpire(n)} :
              /\ file' = [n \in 1 .. Len(file) |-> IF n \in due THEN ZeroRecord ELSE file[n]]
              /\ expired' = expired \cup {file[n].id : n \in due}
              /\ killed' = now
       ELSE UNCHANGED <<file, expired, killed>>
  /\ UNCHANGED <<flush, cache, job, now, broken>>

\* lseek and write: a record behind the end extends the file.
Written(n, record) ==
  [m \in 1 .. (IF n > Len(file) THEN n ELSE Len(file)) |->
     IF m = n THEN record ELSE IF m <= Len(file) THEN file[m] ELSE ZeroRecord]

\* The part of ythtbbs_user_create under the lock on PASSFILE.
Allocate(w) ==
  /\ pc[w] = "allocate"
  /\ LET c  == Resolved(cache)
         n  == NewUser(c)
         id == job[w].id
     IN  /\ cache' = c
         /\ IF n = 0
              THEN Finish(w) /\ UNCHANGED <<file, broken>>       \* REGISTER_FULL
              ELSE /\ file' = Written(n, [id |-> id, born |-> now])
                   /\ job' = [job EXCEPT ![w].slot = n]
                   /\ Goto(w, "touch")
                   /\ broken' = broken
                        \cup (IF n <= Len(file) /\ file[n].id # NoId
                                THEN {"overwritten"} ELSE {})
                        \cup (IF \E m \in 1 .. Len(file) : file[m].id = id
                                THEN {"duplicate"} ELSE {})
  /\ UNCHANGED <<flush, killed, now, expired>>

\* ythtbbs_user_touchnew; mtimes count seconds.
Touch(w) ==
  /\ pc[w] = "touch"
  /\ flush' = now
  /\ Goto(w, "resolve")
  /\ UNCHANGED <<file, killed, cache, job, now, expired, broken>>

\* The end of ythtbbs_user_create, and of the registration on the web.
Resolve(w) ==
  /\ pc[w] = "resolve"
  /\ cache' = Resolved(cache)
  /\ IF job[w].via = "telnet" THEN Goto(w, "setuserid") /\ UNCHANGED job ELSE Finish(w)
  /\ UNCHANGED <<file, flush, killed, now, expired, broken>>

\* Mutant of SetUserId: an index is passed where a number is due.
SetUserIdPastEnd(w) ==
  /\ pc[w] = "setuserid"
  /\ cache' = [cache EXCEPT !.number = job[w].slot + 1]
  /\ Goto(w, "verify")
  /\ UNCHANGED <<file, flush, killed, job, now, expired, broken>>

\* new_register on telnet enters the id in the user table, not in the hash.
SetUserId(w) ==
  /\ pc[w] = "setuserid"
  /\ LET n == job[w].slot
     IN  cache' = [cache EXCEPT !.users[n] = job[w].id,
                                !.number = IF n > @ THEN n ELSE @]
  /\ Goto(w, "verify")
  /\ UNCHANGED <<file, flush, killed, job, now, expired, broken>>

\* dosearchuser once more; all it changes is the cache.
Verify(w) ==
  /\ pc[w] = "verify"
  /\ cache' = Resolved(cache)
  /\ Finish(w)
  /\ UNCHANGED <<file, flush, killed, now, expired, broken>>

\* The worker is killed or disconnected half way.
Die(w) ==
  /\ pc[w] # "idle"
  /\ Finish(w)
  /\ UNCHANGED <<file, flush, killed, cache, now, expired, broken>>

Tick ==
  /\ now < MaxTime
  /\ now' = now + 1
  /\ UNCHANGED <<file, flush, killed, cache, pc, job, expired, broken>>

Next ==
  \/ \E w \in Workers, id \in Ids, via \in {"telnet", "web"} : CheckId(w, id, via)
  \/ \E w \in Workers :
       Clean(w) \/ Allocate(w) \/ Touch(w) \/ Resolve(w) \/ SetUserId(w) \/ Verify(w) \/ Die(w)
  \/ Tick

Spec == Init /\ [][Next]_vars
-----------------------------------------------------------------------------
(* Properties *)

\* NoHole: the cache never counts more records than PASSFILE has, so the number
\* that searchnewuser picks is at most one past the end and leaves no gap.
NoHole == cache.number <= Len(file)

\* CacheLag: as long as no registration was overwritten, the user table knows
\* every record that was written in an earlier second than the flush it was
\* last loaded for: it lags PASSFILE by the records of one second at most.
Settled(n) == file[n].id # NoId /\ file[n].born < cache.time
CacheLag ==
  "overwritten" \notin broken =>
    \A n \in 1 .. Len(file) :
      Settled(n) => n <= cache.number /\ cache.users[n] = file[n].id

\* OverwriteOnlyInWindow: the first registration that takes the record of a
\* registered user takes one that was written in the second the cache was
\* last loaded for, or later.
OverwriteOnlyInWindow ==
  [][\A n \in 1 .. Len(file) :
       /\ "overwritten" \notin broken
       /\ file[n].id # NoId /\ file'[n] # file[n] /\ file'[n].id # NoId
       => file[n].born >= cache'.time]_vars

\* RegisteredCanLogIn: without overwritten or doubly registered ids, a settled
\* user whose id was never anybody else's is found by the hash table under
\* his own number, unless all items his probe looks at belong to others.
Crowded(id) == \A k \in 0 .. Window - 1 : cache.items[Probe(id, k)].idx # 0
RegisteredCanLogIn ==
  /\ TypeOK
  /\ broken = {} =>
       \A n \in 1 .. Len(file) :
         Settled(n) /\ file[n].id \notin expired =>
           Find(cache.items, file[n].id) = n \/ Crowded(file[n].id)

=============================================================================
