----------------------------- MODULE UserProofs -----------------------------
(***************************************************************************)
(* Proofs about the users in PASSFILE, as they are registered              *)
(* (UserRegistry) and as their records are saved (UserRecord).             *)
(*                                                                         *)
(* UserRegistry, for any number of users, workers and ids: PASSFILE has no *)
(* holes, the user table lags behind it by the records of one second at    *)
(* most, only records that young are overwritten, and whoever was neither  *)
(* overwritten nor doubly registered nor ever expired can log in.          *)
(*                                                                         *)
(* IInv is the inductive invariant of PASSFILE and the user table; what    *)
(* the recursive Rehash makes of the hash table plays no part in it.  HInv *)
(* adds the hash table: Rehash is a CHOOSE, so a function of that shape is *)
(* shown to exist first, and what each of its turns keeps is carried to    *)
(* the last one by way of the least turn without it.                       *)
(*                                                                         *)
(* UserRecord, for any number of windows, others, permissions and options  *)
(* and any number of operations: only stale saves undo a change            *)
(* (OnlyStaleSavesUndo), and a password that was set while nobody else had *)
(* a copy of the record stays (PasswordSticks).                            *)
(*                                                                         *)
(* Both follow from what a process holds between its read and its write:   *)
(* the record of the file, or the fields of it that set_safe_record        *)
(* reloads, until somebody else saves (Current); and, since a password was *)
(* set by somebody who was alone, that password (Sticks).  A step begins a *)
(* job, ends one with a save, or drops one: a lemma for each.  RecordInv   *)
(* is their conjunction with the types.                                    *)
(***************************************************************************)
EXTENDS UserRegistry, UserRecord, WellFoundedInduction, TLAPS

-----------------------------------------------------------------------------
(* UserRegistry                                                            *)

Owners == Ids \cup {NoId}
Making == {"touch", "resolve", "setuserid", "verify"}

FileOK == file \in Seq(Records) /\ Len(file) <= MaxUsers

\* A user table c is typed and not ahead of PASSFILE or the clock.
Tables(c) ==
  /\ c = [users |-> c.users, number |-> c.number, time |-> c.time, items |-> c.items]
  /\ c.users \in [Numbers -> Owners]
  /\ c.number \in 0 .. Len(file)
  /\ c.time \in Nat /\ c.time <= now

\* CacheLag without its condition, for a table c.
Lag(c) ==
  \A n \in 1 .. Len(file) :
    file[n].id # NoId /\ file[n].born < c.time => n <= c.number /\ c.users[n] = file[n].id

\* The record a registration was given exists, and is its own until one is
\* overwritten.
JobsOK ==
  /\ pc \in [Workers -> Steps]
  /\ job \in [Workers -> [id : Owners, via : {"none", "telnet", "web"}, slot : 0 .. MaxUsers]]
  /\ \A w \in Workers : pc[w] # "idle" => job[w].id \in Ids
  /\ \A w \in Workers : pc[w] \in Making => job[w].slot \in 1 .. Len(file)
Held ==
  \A w \in Workers : pc[w] \in Making => file[job[w].slot].id = job[w].id

ClockOK == now \in Nat /\ flush \in Nat /\ flush <= now

IInv ==
  /\ FileOK /\ ClockOK /\ Tables(cache) /\ JobsOK
  /\ "overwritten" \notin broken => Lag(cache) /\ Held

-----------------------------------------------------------------------------
\* A non-empty set of numbers has a least one.
LEMMA LeastBounds ==
  ASSUME NEW S \in SUBSET Nat, S # {}
  PROVE  Least(S) \in S /\ \A m \in S : Least(S) <= m
  <1> DEFINE R == {ss \in Nat \X Nat : ss[1] < ss[2]}
  <1>1. IsWellFoundedOn(R, Nat)
    BY NatLessThanWellFounded DEF OpToRel
  <1>2. PICK n \in S : \A m \in S : ~ (<<m, n>> \in R)
    <2> HIDE DEF R
    <2> QED BY <1>1, WFMin
  <1>3. \A m \in S : n <= m
    <2>1. SUFFICES ASSUME NEW m \in S, m < n PROVE FALSE
      OBVIOUS
    <2>2. <<m, n>> \in R
      BY <2>1
    <2> QED BY <1>2, <2>2
  <1> QED BY <1>3 DEF Least

LEMMA LeastIn ==
  ASSUME NEW S \in SUBSET Nat, S # {}
  PROVE  Least(S) \in S
  BY LeastBounds

LEMMA FileRecords ==
  ASSUME FileOK, NEW n \in 1 .. Len(file)
  PROVE  file[n] \in Records /\ file[n].id \in Owners /\ file[n].born \in Nat
  <1>1. file[n] \in Records
    BY DEF FileOK
  <1> QED BY <1>1 DEF Records, Owners

\* A reload copies all of PASSFILE, or finds nothing to do.
LEMMA ResolvedTables ==
  ASSUME FileOK, ClockOK, Tables(cache)
  PROVE  /\ Tables(Resolved(cache))
         /\ Lag(cache) => Lag(Resolved(cache))
  <1> USE RegistryAssumption DEF FileOK, ClockOK
  <1>1. CASE cache.time >= flush
    BY <1>1 DEF Resolved
  <1>2. CASE ~(cache.time >= flush)
    <2> DEFINE us == [n \in Numbers |-> IF n <= Len(file) THEN file[n].id ELSE cache.users[n]]
               re == Rehash(cache.items, us, Len(file))
    <2>1. Resolved(cache) = [users |-> us, number |-> Len(file), time |-> flush, items |-> re]
      BY <1>2 DEF Resolved
    <2>2. us \in [Numbers -> Owners]
      <3>1. \A n \in Numbers : cache.users[n] \in Owners
        BY DEF Tables
      <3>2. \A n \in Numbers : n <= Len(file) => file[n].id \in Owners
        BY FileRecords DEF Numbers
      <3> QED BY <3>1, <3>2
    <2> HIDE DEF re
    <2>3. Tables(Resolved(cache))
      <3> HIDE DEF us
      <3> QED BY <2>1, <2>2 DEF Tables
    <2>4. Lag(Resolved(cache))
      BY <2>1 DEF Lag, Numbers
    <2> QED BY <2>3, <2>4
  <1> QED BY <1>1, <1>2

\* searchnewuser picks a record of the table that it takes for free, or the
\* one after its last.
LEMMA NewUserRange ==
  ASSUME FileOK, NEW c, Tables(c), NewUser(c) # 0
  PROVE  /\ NewUser(c) \in 1 .. c.number + 1 /\ NewUser(c) <= MaxUsers
         /\ NewUser(c) <= c.number => c.users[NewUser(c)] = NoId
  <1> USE RegistryAssumption DEF FileOK, Tables
  <1> DEFINE free == {n \in 1 .. c.number : c.users[n] = NoId}
  <1>1. CASE free # {}
    <2>1. NewUser(c) = Least(free)
      BY <1>1 DEF NewUser
    <2>2. free \in SUBSET Nat
      OBVIOUS
    <2>3. Least(free) \in free
      <3> HIDE DEF free
      <3> QED BY <1>1, <2>2, LeastIn
    <2> QED BY <2>1, <2>3
  <1>2. CASE free = {}
    BY <1>2 DEF NewUser
  <1> QED BY <1>1, <1>2

-----------------------------------------------------------------------------
\* Jobs keep their types when worker w goes on to another step, or is done.
LEMMA GotoKeepsJobs ==
  ASSUME JobsOK, NEW w \in Workers, NEW s \in Steps, Goto(w, s), job' = job,
         Len(file') = Len(file),
         s = "idle" \/ pc[w] # "idle",
         s \in Making => pc[w] \in Making
  PROVE  JobsOK' /\ (file' = file /\ Held => Held')
  <1>1. pc' \in [Workers -> Steps]
    BY DEF JobsOK, Goto
  <1>2. \A v \in Workers : pc'[v] = IF v = w THEN s ELSE pc[v]
    BY DEF JobsOK, Goto
  <1> QED BY <1>1, <1>2 DEF JobsOK, Held

LEMMA FinishKeepsJobs ==
  ASSUME JobsOK, NEW w \in Workers, Finish(w), Len(file') = Len(file)
  PROVE  JobsOK' /\ (file' = file /\ Held => Held')
  <1>1. /\ pc' \in [Workers -> Steps]
        /\ \A v \in Workers : pc'[v] = IF v = w THEN "idle" ELSE pc[v]
    BY DEF JobsOK, Finish, Goto, Steps
  <1>2. NoJob \in [id : Owners, via : {"none", "telnet", "web"}, slot : 0 .. MaxUsers]
    BY RegistryAssumption DEF NoJob, Owners
  <1>3. /\ job' \in [Workers -> [id : Owners, via : {"none", "telnet", "web"},
                                 slot : 0 .. MaxUsers]]
        /\ \A v \in Workers : v # w => job'[v] = job[v]
    BY <1>2 DEF JobsOK, Finish
  <1>4. \A v \in Workers : pc'[v] \in Making => v # w
    BY <1>1 DEF Making
  <1> QED BY <1>1, <1>3, <1>4 DEF JobsOK, Held

LEMMA CheckIdKeeps ==
  ASSUME IInv, NEW w \in Workers, NEW id \in Ids, NEW via \in {"telnet", "web"},
         CheckId(w, id, via)
  PROVE  IInv'
  <1> USE DEF IInv
  <1>1. file' = file /\ FileOK' /\ ClockOK' /\ broken' = broken
    BY DEF CheckId, FileOK, ClockOK
  <1>2. cache' \in {cache, Resolved(cache)}
    BY DEF CheckId
  <1>3. Tables(cache)' /\ (Lag(cache) => Lag(cache)')
    BY <1>1, <1>2, ResolvedTables DEF Tables, Lag, CheckId
  <1>4. JobsOK' /\ (Held => Held')
    <2>1. CASE UNCHANGED <<pc, job>>
      BY <1>1, <2>1 DEF JobsOK, Held
    <2>2. CASE ~UNCHANGED <<pc, job>>
      <3>1. /\ job' = [job EXCEPT ![w] = [id |-> id, via |-> via, slot |-> 0]]
            /\ Goto(w, IF via = "telnet" THEN "clean" ELSE "allocate")
        BY <2>2 DEF CheckId
      <3>2. [id |-> id, via |-> via, slot |-> 0]
              \in [id : Owners, via : {"none", "telnet", "web"}, slot : 0 .. MaxUsers]
        BY RegistryAssumption DEF Owners
      <3>3. /\ job' \in [Workers -> [id : Owners, via : {"none", "telnet", "web"},
                                     slot : 0 .. MaxUsers]]
            /\ \A v \in Workers : v # w => job'[v] = job[v]
            /\ job'[w].id = id
        BY <3>1, <3>2 DEF JobsOK
      <3>4. /\ pc' \in [Workers -> Steps]
            /\ pc'[w] \notin Making
            /\ \A v \in Workers : v # w => pc'[v] = pc[v]
        BY <3>1 DEF JobsOK, Goto, Steps, Making
      <3> QED BY <1>1, <3>3, <3>4 DEF JobsOK, Held
    <2> QED BY <2>1, <2>2
  <1> QED BY <1>1, <1>3, <1>4

\* Whoever is being registered does not expire, so Held survives a clean-up.
LEMMA CleanKeeps ==
  ASSUME IInv, NEW w \in Workers, Clean(w)
  PROVE  IInv'
  <1> USE DEF IInv
  <1>1. UNCHANGED <<flush, cache, job, now, broken>> /\ pc[w] = "clean" /\ Goto(w, "allocate")
    BY DEF Clean
  <1>2. PICK due \in SUBSET {n \in 1 .. Len(file) : MayExpire(n)} :
          file' = [n \in 1 .. Len(file) |-> IF n \in due THEN ZeroRecord ELSE file[n]]
    <2>1. CASE file' = file
      <3>1. file' = [n \in 1 .. Len(file) |-> IF n \in {} THEN ZeroRecord ELSE file[n]]
        BY <2>1 DEF FileOK
      <3> QED BY <3>1
    <2> QED BY <2>1 DEF Clean
  <1>3. FileOK' /\ Len(file') = Len(file)
    <2>1. ZeroRecord \in Records
      BY DEF ZeroRecord, Records
    <2>2. \A n \in 1 .. Len(file) : file[n] \in Records
      BY FileRecords
    <2>3. Len(file) \in Nat
      BY DEF FileOK
    <2>4. file' \in Seq(Records) /\ Len(file') = Len(file)
      BY <1>2, <2>1, <2>2, <2>3
    <2> QED BY <2>4 DEF FileOK
  <1>4. \A n \in 1 .. Len(file) : file'[n].id # NoId => file'[n] = file[n]
    BY <1>2 DEF ZeroRecord
  <1>5. Tables(cache)' /\ (Lag(cache) => Lag(cache)')
    BY <1>1, <1>3, <1>4 DEF Tables, Lag
  <1>6. JobsOK'
    BY <1>1, <1>3, GotoKeepsJobs DEF Steps, Making
  <1>7. Held => Held'
    <2> SUFFICES ASSUME Held, NEW v \in Workers, pc'[v] \in Making
                 PROVE  file'[job'[v].slot].id = job'[v].id
      BY DEF Held
    <2>1. v # w /\ pc[v] \in Making
      BY <1>1 DEF Goto, JobsOK, Making
    <2>2. job[v].slot \in 1 .. Len(file) /\ job[v].slot \notin due
      BY <2>1 DEF JobsOK, MayExpire
    <2>3. file'[job[v].slot] = file[job[v].slot]
      BY <1>2, <2>2
    <2> QED BY <1>1, <2>1, <2>3 DEF Held
  <1> QED BY <1>1, <1>3, <1>5, <1>6, <1>7 DEF ClockOK

-----------------------------------------------------------------------------
\* What Allocate does when there is room: c is the resolved table, n the
\* record it takes.
LEMMA AllocateRoom ==
  ASSUME IInv, NEW w \in Workers, Allocate(w), NewUser(Resolved(cache)) # 0
  PROVE  LET c == Resolved(cache)
             n == NewUser(c)
         IN  /\ cache' = c /\ Tables(c)
             /\ n \in 1 .. Len(file) + 1 /\ n <= MaxUsers
             /\ file' \in Seq(Records)
             /\ Len(file') = IF n > Len(file) THEN n ELSE Len(file)
             /\ file'[n] = [id |-> job[w].id, born |-> now]
             /\ \A m \in 1 .. Len(file) : m # n => file'[m] = file[m]
             /\ "overwritten" \notin broken =>
                  /\ Lag(c)
                  /\ n <= Len(file) /\ file[n].id # NoId => file[n].born >= c.time
             /\ "overwritten" \notin broken' =>
                  "overwritten" \notin broken /\ (n > Len(file) \/ file[n].id = NoId)
  <1> USE DEF IInv
  <1> DEFINE c == Resolved(cache)
             n == NewUser(c)
  <1>1. cache' = c /\ Tables(c) /\ (Lag(cache) => Lag(c))
    BY ResolvedTables DEF Allocate
  <1>2. file' = Written(n, [id |-> job[w].id, born |-> now])
    BY DEF Allocate
  <1>3. "overwritten" \notin broken' =>
          "overwritten" \notin broken /\ (n > Len(file) \/ file[n].id = NoId)
    <2>1. n <= Len(file) /\ file[n].id # NoId => "overwritten" \in broken'
      BY DEF Allocate
    <2>2. broken \subseteq broken'
      BY DEF Allocate
    <2>3. n \in Nat
      BY <1>1, NewUserRange DEF Tables, FileOK
    <2> QED BY <2>1, <2>2, <2>3 DEF FileOK
  <1> HIDE DEF c
  <1>4. /\ n \in 1 .. Len(file) + 1 /\ n <= MaxUsers
        /\ n <= c.number => c.users[n] = NoId
    <2>1. n # 0
      BY DEF c
    <2> QED BY <1>1, <2>1, NewUserRange DEF Tables, FileOK
  <1> HIDE DEF n
  <1>5. [id |-> job[w].id, born |-> now] \in Records
    BY DEF JobsOK, ClockOK, Owners, Records
  <1>6. \A m \in 1 .. Len(file) : file[m] \in Records
    BY FileRecords
  <1>7. /\ file' \in Seq(Records)
        /\ Len(file') = IF n > Len(file) THEN n ELSE Len(file)
        /\ file'[n] = [id |-> job[w].id, born |-> now]
        /\ \A m \in 1 .. Len(file) : m # n => file'[m] = file[m]
    <2> DEFINE l == IF n > Len(file) THEN n ELSE Len(file)
    <2>1. l \in Nat /\ n \in 1 .. l /\ 1 .. Len(file) \subseteq 1 .. l
      BY <1>4 DEF FileOK
    <2>2. \A m \in 1 .. l : m # n => m <= Len(file)
      BY <1>4 DEF FileOK
    <2>3. file' = [m \in 1 .. l |-> IF m = n THEN [id |-> job[w].id, born |-> now]
                                     ELSE IF m <= Len(file) THEN file[m] ELSE ZeroRecord]
      BY <1>2 DEF Written
    <2> HIDE DEF l
    <2>4. \A m \in 1 .. l : file'[m] \in Records
      BY <1>5, <1>6, <2>2, <2>3, <2>1
    <2>5. file' \in Seq(Records) /\ Len(file') = l
      BY <2>1, <2>3, <2>4
    <2> QED BY <2>1, <2>3, <2>5 DEF l, FileOK
  <1>8. Lag(c) /\ n <= Len(file) /\ file[n].id # NoId => file[n].born >= c.time
    BY <1>1, <1>4, FileRecords DEF Lag, Tables, FileOK
  <1> QED BY <1>1, <1>3, <1>4, <1>7, <1>8 DEF c, n

LEMMA AllocateKeeps ==
  ASSUME IInv, NEW w \in Workers, Allocate(w)
  PROVE  IInv'
  <1> USE DEF IInv
  <1>1. pc[w] = "allocate" /\ UNCHANGED <<flush, killed, now, expired>>
    BY DEF Allocate
  <1>2. CASE NewUser(Resolved(cache)) = 0
    <2>1. cache' = Resolved(cache) /\ file' = file /\ broken' = broken /\ Finish(w)
      BY <1>2 DEF Allocate
    <2>2. FileOK' /\ ClockOK'
      BY <1>1, <2>1 DEF FileOK, ClockOK
    <2>3. Tables(cache)' /\ (Lag(cache) => Lag(cache)')
      BY <1>1, <2>1, ResolvedTables DEF Tables, Lag
    <2> QED BY <2>1, <2>2, <2>3, FinishKeepsJobs
  <1>3. CASE NewUser(Resolved(cache)) # 0
    <2> DEFINE c == Resolved(cache)
               n == NewUser(c)
    <2>1. /\ cache' = c /\ Tables(c)
          /\ n \in 1 .. Len(file) + 1 /\ n <= MaxUsers
          /\ file' \in Seq(Records)
          /\ Len(file') = IF n > Len(file) THEN n ELSE Len(file)
          /\ file'[n] = [id |-> job[w].id, born |-> now]
          /\ \A m \in 1 .. Len(file) : m # n => file'[m] = file[m]
          /\ "overwritten" \notin broken => Lag(c)
          /\ "overwritten" \notin broken' =>
               "overwritten" \notin broken /\ (n > Len(file) \/ file[n].id = NoId)
      BY <1>3, AllocateRoom
    <2>2. job' = [job EXCEPT ![w].slot = n] /\ Goto(w, "touch")
      BY <1>3 DEF Allocate
    <2> HIDE DEF c, n
    <2>3. Len(file) \in Nat /\ Len(file') \in Nat /\ Len(file') >= Len(file) /\ n <= Len(file')
      BY <2>1 DEF FileOK
    <2>4. FileOK' /\ ClockOK'
      BY <1>1, <2>1 DEF FileOK, ClockOK
    <2>5. Tables(cache)'
      BY <1>1, <2>1, <2>3 DEF Tables
    <2>6. /\ pc' \in [Workers -> Steps]
          /\ \A v \in Workers : pc'[v] = IF v = w THEN "touch" ELSE pc[v]
      BY <2>2 DEF JobsOK, Goto, Steps
    <2>7. /\ \A v \in Workers : v # w => job'[v] = job[v]
          /\ job'[w] = [id |-> job[w].id, via |-> job[w].via, slot |-> n]
          /\ job'[w] \in [id : Owners, via : {"none", "telnet", "web"}, slot : 0 .. MaxUsers]
          /\ DOMAIN job' = Workers
      <3>1. job[w] \in [id : Owners, via : {"none", "telnet", "web"}, slot : 0 .. MaxUsers]
        BY DEF JobsOK
      <3>2. n \in 0 .. MaxUsers
        BY <2>1, RegistryAssumption
      <3> QED BY <2>2, <3>1, <3>2 DEF JobsOK
    <2>8. job' \in [Workers -> [id : Owners, via : {"none", "telnet", "web"},
                                slot : 0 .. MaxUsers]]
      BY <2>2, <2>7 DEF JobsOK
    <2>9. JobsOK'
      <3>1. \A v \in Workers : pc'[v] # "idle" => job'[v].id \in Ids
        BY <1>1, <2>6, <2>7 DEF JobsOK
      <3>2. \A v \in Workers : pc'[v] \in Making => job'[v].slot \in 1 .. Len(file')
        <4>1. 1 .. Len(file) \subseteq 1 .. Len(file') /\ n \in 1 .. Len(file')
          BY <2>1, <2>3
        <4>2. \A v \in Workers : v # w /\ pc'[v] \in Making => job'[v].slot \in 1 .. Len(file)
          BY <2>6, <2>7 DEF JobsOK
        <4>3. job'[w].slot = n
          BY <2>7
        <4> QED BY <4>1, <4>2, <4>3
      <3> QED BY <2>6, <2>8, <3>1, <3>2 DEF JobsOK
    <2>10. ASSUME "overwritten" \notin broken'
           PROVE  Lag(cache)' /\ Held'
      <3>1. Lag(c) /\ Held /\ (n > Len(file) \/ file[n].id = NoId)
        BY <2>1, <2>10
      <3>2. ASSUME NEW m \in 1 .. Len(file'),
                   file'[m].id # NoId, file'[m].born < c.time
            PROVE  m <= c.number /\ c.users[m] = file'[m].id
        <4>1. m # n
          BY <2>1, <3>2 DEF Tables, ClockOK
        <4>2. m \in 1 .. Len(file)
          BY <2>1, <2>3, <4>1
        <4> QED BY <2>1, <3>1, <3>2, <4>1, <4>2 DEF Lag
      <3>3. ASSUME NEW v \in Workers, pc'[v] \in Making
            PROVE  file'[job'[v].slot].id = job'[v].id
        <4>1. CASE v = w
          BY <2>1, <2>7, <4>1
        <4>2. CASE v # w
          <5>1. pc[v] \in Making /\ job'[v] = job[v]
            BY <2>6, <2>7, <3>3, <4>2
          <5>2. job[v].slot \in 1 .. Len(file) /\ file[job[v].slot].id \in Ids
            BY <3>1, <5>1 DEF Held, JobsOK, Making
          <5>3. job[v].slot # n
            BY <3>1, <5>2, RegistryAssumption
          <5> QED BY <2>1, <3>1, <5>1, <5>2, <5>3 DEF Held
        <4> QED BY <4>1, <4>2
      <3> QED BY <2>1, <3>2, <3>3 DEF Lag, Held
    <2> QED BY <2>4, <2>5, <2>9, <2>10
  <1> QED BY <1>2, <1>3

-----------------------------------------------------------------------------
LEMMA TouchKeeps ==
  ASSUME IInv, NEW w \in Workers, Touch(w)
  PROVE  IInv'
  <1> USE DEF IInv
  <1>1. /\ pc[w] = "touch" /\ flush' = now /\ Goto(w, "resolve")
        /\ UNCHANGED <<file, cache, job, now, broken>>
    BY DEF Touch
  <1>2. FileOK' /\ ClockOK' /\ Tables(cache)' /\ (Lag(cache) => Lag(cache)')
    BY <1>1 DEF FileOK, ClockOK, Tables, Lag
  <1>3. JobsOK' /\ (Held => Held')
    BY <1>1, GotoKeepsJobs DEF Steps, Making
  <1> QED BY <1>1, <1>2, <1>3

\* Resolve and Verify both end with a reload of the tables.
LEMMA ReloadKeeps ==
  ASSUME IInv, NEW w \in Workers, Resolve(w) \/ Verify(w)
  PROVE  IInv'
  <1> USE DEF IInv
  <1>1. cache' = Resolved(cache) /\ UNCHANGED <<file, flush, now, broken>>
    BY DEF Resolve, Verify
  <1>2. FileOK' /\ ClockOK' /\ Tables(cache)' /\ (Lag(cache) => Lag(cache)')
    BY <1>1, ResolvedTables DEF FileOK, ClockOK, Tables, Lag
  <1>3. JobsOK' /\ (Held => Held')
    <2>1. CASE Finish(w)
      BY <1>1, <2>1, FinishKeepsJobs
    <2>2. CASE ~Finish(w)
      <3>1. pc[w] = "resolve" /\ Goto(w, "setuserid") /\ job' = job
        BY <2>2 DEF Resolve, Verify
      <3> QED BY <1>1, <3>1, GotoKeepsJobs DEF Steps, Making
    <2> QED BY <2>1, <2>2
  <1> QED BY <1>1, <1>2, <1>3

\* Held makes the id that is entered the one PASSFILE has there.
LEMMA SetUserIdKeeps ==
  ASSUME IInv, NEW w \in Workers, SetUserId(w)
  PROVE  IInv'
  <1> USE DEF IInv
  <1> DEFINE n == job[w].slot
             u == [cache.users EXCEPT ![n] = job[w].id]
             k == IF n > cache.number THEN n ELSE cache.number
  <1>1. /\ pc[w] = "setuserid" /\ Goto(w, "verify")
        /\ UNCHANGED <<file, flush, job, now, broken>>
    BY DEF SetUserId
  <1>2. n \in 1 .. Len(file) /\ job[w].id \in Ids
    BY <1>1 DEF JobsOK, Making
  <1>3. cache' = [users |-> u, number |-> k, time |-> cache.time, items |-> cache.items]
    <2>1. cache' = [cache EXCEPT !.users[n] = job[w].id,
                                 !.number = IF n > @ THEN n ELSE @]
      BY DEF SetUserId
    <2>2. cache = [users |-> cache.users, number |-> cache.number,
                   time |-> cache.time, items |-> cache.items]
      BY DEF Tables
    <2> QED BY <2>1, <2>2
  <1>4. u \in [Numbers -> Owners]
    BY <1>2 DEF Tables, Owners
  <1>5. k \in 0 .. Len(file)
    BY <1>2 DEF Tables, FileOK
  <1>6. \A m \in 1 .. Len(file) : u[m] = IF m = n THEN job[w].id ELSE cache.users[m]
    <2>1. 1 .. Len(file) \subseteq Numbers
      BY RegistryAssumption DEF FileOK, Numbers
    <2>2. \A m \in Numbers : u[m] = IF m = n THEN job[w].id ELSE cache.users[m]
      BY DEF Tables
    <2> QED BY <2>1, <2>2
  <1>7. k >= n /\ k >= cache.number
    BY <1>2 DEF Tables, FileOK
  <1> HIDE DEF u, k
  <1>8. Tables(cache)'
    BY <1>1, <1>3, <1>4, <1>5 DEF Tables
  <1>9. Held => file[n].id = job[w].id
    BY <1>1 DEF Held, Making
  <1>10. Lag(cache) /\ Held => Lag(cache)'
    <2> SUFFICES ASSUME Lag(cache), Held, NEW m \in 1 .. Len(file),
                        file[m].id # NoId, file[m].born < cache.time
                 PROVE  m <= k /\ u[m] = file[m].id
      BY <1>1, <1>3 DEF Lag
    <2>1. m <= cache.number /\ cache.users[m] = file[m].id
      BY DEF Lag
    <2> QED BY <1>2, <1>5, <1>6, <1>7, <1>9, <2>1 DEF Tables, FileOK
  <1>11. JobsOK' /\ (Held => Held')
    BY <1>1, GotoKeepsJobs DEF Steps, Making
  <1>12. FileOK' /\ ClockOK'
    BY <1>1 DEF FileOK, ClockOK
  <1> QED BY <1>1, <1>8, <1>10, <1>11, <1>12

LEMMA DieKeeps ==
  ASSUME IInv, NEW w \in Workers, Die(w)
  PROVE  IInv'
  <1>1. Finish(w) /\ UNCHANGED <<file, flush, cache, now, broken>>
    BY DEF Die
  <1>2. JobsOK' /\ (Held => Held')
    BY <1>1, FinishKeepsJobs DEF IInv
  <1> QED BY <1>1, <1>2 DEF IInv, FileOK, ClockOK, Tables, Lag

LEMMA TickKeeps ==
  ASSUME IInv, Tick
  PROVE  IInv'
  <1>1. now' = now + 1 /\ UNCHANGED <<file, flush, cache, pc, job, broken>>
    BY DEF Tick
  <1>2. FileOK' /\ ClockOK' /\ Tables(cache)' /\ (Lag(cache) => Lag(cache)')
    BY <1>1 DEF IInv, FileOK, ClockOK, Tables, Lag
  <1>3. JobsOK' /\ (Held => Held')
    BY <1>1 DEF IInv, JobsOK, Held
  <1> QED BY <1>1, <1>2, <1>3 DEF IInv

-----------------------------------------------------------------------------
LEMMA InitIInv == Init => IInv
  <1> SUFFICES ASSUME Init PROVE IInv
    OBVIOUS
  <1> USE RegistryAssumption DEF Init
  <1>1. FileOK /\ Len(file) = 0
    BY DEF FileOK
  <1>2. ClockOK
    BY DEF ClockOK
  <1>3. Tables(cache)
    BY <1>1 DEF Tables, Owners, Numbers
  <1>4. JobsOK
    <2>1. NoJob \in [id : Owners, via : {"none", "telnet", "web"}, slot : 0 .. MaxUsers]
      BY DEF NoJob, Owners
    <2> QED BY <2>1 DEF JobsOK, Steps, Making
  <1>5. Lag(cache) /\ Held
    BY <1>1 DEF Lag, Held, Making
  <1> QED BY <1>1, <1>2, <1>3, <1>4, <1>5 DEF IInv

LEMMA StepIInv == IInv /\ [Next]_vars => IInv'
  <1> SUFFICES ASSUME IInv, [Next]_vars PROVE IInv'
    OBVIOUS
  <1>1. CASE UNCHANGED vars
    BY <1>1 DEF vars, IInv, FileOK, ClockOK, Tables, JobsOK, Held, Lag
  <1>2. CASE \E w \in Workers, id \in Ids, via \in {"telnet", "web"} : CheckId(w, id, via)
    BY <1>2, CheckIdKeeps
  <1>3. ASSUME NEW w \in Workers, Clean(w) PROVE IInv'
    BY <1>3, CleanKeeps
  <1>4. ASSUME NEW w \in Workers, Allocate(w) PROVE IInv'
    BY <1>4, AllocateKeeps
  <1>5. ASSUME NEW w \in Workers, Touch(w) PROVE IInv'
    BY <1>5, TouchKeeps
  <1>6. ASSUME NEW w \in Workers, Resolve(w) \/ Verify(w) PROVE IInv'
    BY <1>6, ReloadKeeps
  <1>7. ASSUME NEW w \in Workers, SetUserId(w) PROVE IInv'
    BY <1>7, SetUserIdKeeps
  <1>8. ASSUME NEW w \in Workers, Die(w) PROVE IInv'
    BY <1>8, DieKeeps
  <1>9. CASE Tick
    BY <1>9, TickKeeps
  <1> QED BY <1>1, <1>2, <1>3, <1>4, <1>5, <1>6, <1>7, <1>8, <1>9 DEF Next

\* The inductive invariant: types, what a table may know, and that a
\* registration under way still owns the record it was given.
THEOREM RegistryInductive == Spec => []IInv
  BY InitIInv, StepIInv, PTL DEF Spec

\* The number of cached records never exceeds those of PASSFILE, so that
\* searchnewuser leaves no gap.
THEOREM RegistryNoHole == Spec => []NoHole
  <1>1. IInv => NoHole
    BY DEF IInv, Tables, FileOK, NoHole
  <1> QED BY <1>1, RegistryInductive, PTL

\* Until a registration is overwritten, the user table knows every record
\* older than the second it was last loaded for.
THEOREM RegistryCacheLag == Spec => []CacheLag
  <1>1. IInv => CacheLag
    BY DEF IInv, Lag, CacheLag, Settled
  <1> QED BY <1>1, RegistryInductive, PTL

\* The first record of a registered user that is given away is one of the
\* second the table was last loaded for, or younger.
THEOREM RegistryOverwrite == Spec => OverwriteOnlyInWindow
  <1> DEFINE Safe(n) ==
        /\ "overwritten" \notin broken
        /\ file[n].id # NoId /\ file'[n] # file[n] /\ file'[n].id # NoId
        => file[n].born >= cache'.time
  <1>1. ASSUME IInv, Next, NEW n \in 1 .. Len(file)
        PROVE  Safe(n)
    <2> SUFFICES ASSUME "overwritten" \notin broken, file[n].id # NoId,
                        file'[n] # file[n], file'[n].id # NoId
                 PROVE  file[n].born >= cache'.time
      OBVIOUS
    <2>1. file' # file
      OBVIOUS
    <2>2. ASSUME NEW w \in Workers, Clean(w) PROVE FALSE
      BY <2>1, <2>2 DEF Clean, ZeroRecord
    <2>3. PICK w \in Workers : Allocate(w)
      <3>1. \A w \in Workers, id \in Ids, via \in {"telnet", "web"} :
              CheckId(w, id, via) => file' = file
        BY DEF CheckId
      <3>2. \A w \in Workers :
              Touch(w) \/ Resolve(w) \/ SetUserId(w) \/ Verify(w) \/ Die(w) => file' = file
        BY DEF Touch, Resolve, SetUserId, Verify, Die
      <3>3. Tick => file' = file
        BY DEF Tick
      <3> QED BY <1>1, <2>1, <2>2, <3>1, <3>2, <3>3 DEF Next
    <2>4. NewUser(Resolved(cache)) # 0
      BY <2>1, <2>3 DEF Allocate
    <2>5. n = NewUser(Resolved(cache))
      <3>1. \A m \in 1 .. Len(file) : m # NewUser(Resolved(cache)) => file'[m] = file[m]
        BY <1>1, <2>3, <2>4, AllocateRoom
      <3> QED BY <3>1
    <2>6. n <= Len(file)
      BY DEF IInv, FileOK
    <2> QED BY <1>1, <2>3, <2>4, <2>5, <2>6, AllocateRoom
  <1>2. ASSUME IInv, [Next]_vars
        PROVE  [\A n \in 1 .. Len(file) : Safe(n)]_vars
    BY <1>1, <1>2
  <1>3. IInv /\ [Next]_vars => [\A n \in 1 .. Len(file) : Safe(n)]_vars
    BY <1>2
  <1> QED BY <1>3, RegistryInductive, PTL DEF Spec, OverwriteOnlyInWindow
-----------------------------------------------------------------------------
(* The hash table                                                          *)

\* Every item is free or has an id and a number.
ItemsOK(t) ==
  /\ t \in [Hashes -> [id : Owners, idx : 0 .. MaxUsers]]
  /\ \A h \in Hashes : t[h].idx = 0 <=> t[h].id = NoId

Spots == 0 .. Window - 1
In(t, id)   == \E k \in Spots : t[Probe(id, k)].id = id
Full(t, id) == \A k \in Spots : t[Probe(id, k)].idx # 0

\* No user id has two records.
Single ==
  \A m, n \in 1 .. Len(file) : file[m].id \in Ids /\ file[n].id = file[m].id => m = n

\* Whoever has an item and never expired has the record it points to.
Owned(t) ==
  \A h \in Hashes :
    t[h].id \in Ids \ expired => t[h].idx \in 1 .. Len(file) /\ file[t[h].idx].id = t[h].id

\* The probe for the user of record n finds an item of his, or none to take.
Met(t, n) == file[n].id \in Ids \ expired => In(t, file[n].id) \/ Full(t, file[n].id)
Reached(t, time) ==
  \A n \in 1 .. Len(file) : file[n].born < time => Met(t, n)

\* With IInv, what RegisteredCanLogIn needs.
HInv ==
  /\ killed \in Nat /\ expired \subseteq Ids /\ broken \subseteq {"overwritten", "duplicate"}
  /\ ItemsOK(cache.items)
  /\ broken = {} => Single /\ Owned(cache.items) /\ Reached(cache.items, cache.time)

LEMMA ProbeRange ==
  ASSUME NEW id \in Ids, NEW k \in Spots
  PROVE  Probe(id, k) \in Hashes
  <1>1. Home[id] \in 1 .. HashSize /\ HashSize \in Nat \ {0} /\ k \in Nat
    BY RegistryAssumption DEF Spots
  <1> DEFINE a == Home[id] + k - 1
  <1>2. a \in Nat
    BY <1>1
  <1> HIDE DEF a
  <1>3. a % HashSize \in 0 .. HashSize - 1
    BY <1>1, <1>2
  <1>4. Probe(id, k) = 1 + (a % HashSize)
    BY DEF Probe, a
  <1> QED BY <1>1, <1>3, <1>4 DEF Hashes

LEMMA ProbeOf ==
  ASSUME NEW S \in SUBSET Spots, S # {}
  PROVE  Least(S) \in S
  <1>1. S \in SUBSET Nat
    BY RegistryAssumption DEF Spots
  <1> QED BY <1>1, LeastIn

\* What find_idx answers is the number in an item of that id.
LEMMA FindHits ==
  ASSUME NEW t, ItemsOK(t), NEW id \in Ids
  PROVE  /\ Find(t, id) # 0 <=> In(t, id)
         /\ In(t, id) => \E h \in Hashes : t[h].id = id /\ t[h].idx = Find(t, id)
  <1> DEFINE hits == {k \in 0 .. Window - 1 : t[Probe(id, k)].id = id}
  <1>1. In(t, id) <=> hits # {}
    BY DEF In, Spots
  <1>2. CASE hits = {}
    <2>1. Find(t, id) = 0
      BY <1>2 DEF Find
    <2> QED BY <1>1, <1>2, <2>1
  <1>3. CASE hits # {}
    <2>1. hits \in SUBSET Spots
      BY DEF Spots
    <2> DEFINE k == Least(hits)
               h == Probe(id, k)
    <2>2. Find(t, id) = t[h].idx
      BY <1>3 DEF Find
    <2>3. k \in hits
      <3> HIDE DEF hits
      <3> QED BY <1>3, <2>1, ProbeOf
    <2>4. k \in Spots /\ t[h].id = id
      BY <2>3 DEF Spots
    <2> HIDE DEF k
    <2>5. h \in Hashes
      BY <2>4, ProbeRange
    <2>6. t[h].idx # 0
      BY <2>4, <2>5, RegistryAssumption DEF ItemsOK
    <2> HIDE DEF h
    <2> QED BY <1>1, <1>3, <2>2, <2>4, <2>5, <2>6
  <1> QED BY <1>2, <1>3

\* Insert changes nothing, or takes an item that is free or was of that record.
LEMMA InsertTakes ==
  ASSUME NEW t, ItemsOK(t), NEW id \in Ids, NEW n \in Numbers
  PROVE  \/ Insert(t, id, n) = t /\ (In(t, id) \/ Full(t, id))
         \/ \E k \in Spots :
              /\ t[Probe(id, k)].idx \in {0, n}
              /\ Insert(t, id, n) = [t EXCEPT ![Probe(id, k)] = [id |-> id, idx |-> n]]
  <1> DEFINE spots == {k \in 0 .. Window - 1 : t[Probe(id, k)].idx \in {0, n}}
  <1>1. CASE Find(t, id) # 0
    BY <1>1, FindHits DEF Insert
  <1>2. CASE spots = {}
    BY <1>2 DEF Insert, Full, Spots
  <1>3. CASE Find(t, id) = 0 /\ spots # {}
    <2> DEFINE k == Least(spots)
    <2>1. Insert(t, id, n) = [t EXCEPT ![Probe(id, k)] = [id |-> id, idx |-> n]]
      BY <1>3, RegistryAssumption DEF Insert
    <2>2. spots \in SUBSET Spots
      BY DEF Spots
    <2>3. k \in spots
      <3> HIDE DEF spots
      <3> QED BY <1>3, <2>2, ProbeOf
    <2>4. k \in Spots /\ t[Probe(id, k)].idx \in {0, n}
      BY <2>3 DEF Spots
    <2> HIDE DEF k
    <2> QED BY <2>1, <2>4
  <1> QED BY <1>1, <1>2, <1>3

LEMMA InsertKeeps ==
  ASSUME NEW t, ItemsOK(t), NEW id \in Ids, NEW n \in Numbers
  PROVE  /\ ItemsOK(Insert(t, id, n))
         /\ In(Insert(t, id, n), id) \/ Full(Insert(t, id, n), id)
  <1>1. CASE Insert(t, id, n) = t /\ (In(t, id) \/ Full(t, id))
    BY <1>1
  <1>2. CASE \E k \in Spots :
               Insert(t, id, n) = [t EXCEPT ![Probe(id, k)] = [id |-> id, idx |-> n]]
    <2> DEFINE u == Insert(t, id, n)
    <2>1. PICK k \in Spots : u = [t EXCEPT ![Probe(id, k)] = [id |-> id, idx |-> n]]
      BY <1>2
    <2> HIDE DEF u
    <2>2. Probe(id, k) \in Hashes
      BY ProbeRange
    <2>3. [id |-> id, idx |-> n] \in [id : Owners, idx : 0 .. MaxUsers]
      BY RegistryAssumption DEF Owners, Numbers
    <2>4. /\ u \in [Hashes -> [id : Owners, idx : 0 .. MaxUsers]]
          /\ \A h \in Hashes : u[h] = IF h = Probe(id, k) THEN [id |-> id, idx |-> n] ELSE t[h]
      BY <2>1, <2>2, <2>3 DEF ItemsOK
    <2>5. n # 0 /\ id # NoId
      BY RegistryAssumption DEF Numbers
    <2>6. ItemsOK(u)
      BY <2>4, <2>5 DEF ItemsOK
    <2>7. In(u, id)
      BY <2>2, <2>4 DEF In
    <2> QED BY <2>6, <2>7 DEF u
  <1> QED BY <1>1, <1>2, InsertTakes

\* An insertion for the user of record n takes nobody's item that has a record.
LEMMA InsertSpares ==
  ASSUME NEW t, ItemsOK(t), Owned(t), NEW n \in 1 .. Len(file), n \in Numbers, file[n].id \in Ids
  PROVE  /\ Owned(Insert(t, file[n].id, n))
         /\ \A m \in 1 .. Len(file) : Met(t, m) => Met(Insert(t, file[n].id, n), m)
         /\ Met(Insert(t, file[n].id, n), n)
  <1> DEFINE id == file[n].id
             u == Insert(t, id, n)
  <1>0. id \in Ids
    OBVIOUS
  <1>1. ItemsOK(u) /\ (In(u, id) \/ Full(u, id))
    BY InsertKeeps
  <1>2. Met(u, n)
    BY <1>1 DEF Met
  <1>3. CASE u = t
    BY <1>2, <1>3
  <1>4. CASE \E k \in Spots :
               /\ t[Probe(id, k)].idx \in {0, n}
               /\ u = [t EXCEPT ![Probe(id, k)] = [id |-> id, idx |-> n]]
    <2>1. PICK k \in Spots : /\ t[Probe(id, k)].idx \in {0, n}
                             /\ u = [t EXCEPT ![Probe(id, k)] = [id |-> id, idx |-> n]]
      BY <1>4
    <2> DEFINE p == Probe(id, k)
    <2>2. p \in Hashes
      BY ProbeRange
    <2>3. t[p].idx \in {0, n} /\ u = [t EXCEPT ![p] = [id |-> id, idx |-> n]]
      BY <2>1
    <2> HIDE DEF p, u
    <2>4. \A h \in Hashes : u[h] = IF h = p THEN [id |-> id, idx |-> n] ELSE t[h]
      BY <2>2, <2>3 DEF ItemsOK
    <2>5. Owned(u)
      <3> SUFFICES ASSUME NEW h \in Hashes, u[h].id \in Ids \ expired
                   PROVE  u[h].idx \in 1 .. Len(file) /\ file[u[h].idx].id = u[h].id
        BY DEF Owned
      <3>1. CASE h = p
        BY <2>4, <3>1
      <3>2. CASE h # p
        BY <2>4, <3>2 DEF Owned
      <3> QED BY <3>1, <3>2
    <2>6. ASSUME NEW m \in 1 .. Len(file), Met(t, m) PROVE Met(u, m)
      <3> DEFINE x == file[m].id
      <3> SUFFICES ASSUME x \in Ids \ expired PROVE In(u, x) \/ Full(u, x)
        BY DEF Met
      <3>1. \A j \in Spots : Probe(x, j) \in Hashes
        BY ProbeRange
      <3>2. In(t, x) \/ Full(t, x)
        BY <2>6 DEF Met
      <3> HIDE DEF x
      <3>3. CASE Full(t, x)
        <4>1. n # 0
          OBVIOUS
        <4>2. \A j \in Spots : u[Probe(x, j)].idx # 0
          BY <2>4, <3>1, <3>3, <4>1 DEF Full
        <4> QED BY <4>2 DEF Full
      <3>4. CASE In(t, x)
        <4>1. PICK j \in Spots : t[Probe(x, j)].id = x
          BY <3>4 DEF In
        <4> DEFINE q == Probe(x, j)
        <4>2. q \in Hashes /\ t[q].id = x
          BY <3>1, <4>1
        <4>3. u[q].id = x
          <5> HIDE DEF q
          <5>1. CASE q # p
            BY <2>4, <4>2, <5>1
          <5>2. CASE q = p
            <6>1. t[p].idx # 0
              BY <4>2, <5>2, RegistryAssumption DEF ItemsOK
            <6>2. t[p].idx = n
              BY <2>3, <6>1
            <6>3. file[n].id = x
              BY <4>2, <5>2, <6>2 DEF Owned
            <6> QED BY <2>4, <4>2, <5>2, <6>3
          <5> QED BY <5>1, <5>2
        <4> QED BY <4>3 DEF In
      <3> QED BY <3>2, <3>3, <3>4
    <2> QED BY <1>2, <2>5, <2>6 DEF u
  <1> HIDE DEF u
  <1>5. \/ u = t
        \/ \E k \in Spots :
             /\ t[Probe(id, k)].idx \in {0, n}
             /\ u = [t EXCEPT ![Probe(id, k)] = [id |-> id, idx |-> n]]
    BY InsertTakes DEF u
  <1> QED BY <1>3, <1>4, <1>5 DEF u

\* One turn of the loop over the user table.
Hashed(t, users, n) == IF users[n] = NoId THEN t ELSE Insert(t, users[n], n)
Turns(f, t, users, number) ==
  f = [n \in 0 .. number |-> IF n = 0 THEN t ELSE Hashed(f[n - 1], users, n)]

\* There are such turns: the least number without them would be one turn more
\* than its predecessor.
LEMMA TurnsExist ==
  ASSUME NEW t, NEW users, NEW number \in Nat
  PROVE  \E f : Turns(f, t, users, number)
  <1> DEFINE Bad == {n \in Nat : ~\E f : Turns(f, t, users, n)}
  <1>1. \E f : Turns(f, t, users, 0)
    <2> DEFINE f == [n \in 0 .. 0 |-> t]
    <2>1. f = [n \in 0 .. 0 |-> IF n = 0 THEN t ELSE Hashed(f[n - 1], users, n)]
      OBVIOUS
    <2> QED BY <2>1 DEF Turns
  <1>2. ASSUME NEW n \in Nat, NEW f, Turns(f, t, users, n)
        PROVE  \E g : Turns(g, t, users, n + 1)
    <2> DEFINE g == [m \in 0 .. n + 1 |-> IF m = 0 THEN t ELSE Hashed(f[m - 1], users, m)]
    <2>1. \A m \in 0 .. n : f[m] = IF m = 0 THEN t ELSE Hashed(f[m - 1], users, m)
      BY <1>2 DEF Turns
    <2>2. \A m \in 0 .. n : g[m] = f[m]
      BY <2>1
    <2>3. \A m \in 0 .. n + 1 : m # 0 => m - 1 \in 0 .. n
      OBVIOUS
    <2>4. \A m \in 0 .. n + 1 :
            (IF m = 0 THEN t ELSE Hashed(f[m - 1], users, m))
              = (IF m = 0 THEN t ELSE Hashed(g[m - 1], users, m))
      BY <2>2, <2>3
    <2>5. g = [m \in 0 .. n + 1 |-> IF m = 0 THEN t ELSE Hashed(g[m - 1], users, m)]
      BY <2>4
    <2> QED BY <2>5 DEF Turns
  <1>3. Bad = {}
    <2> SUFFICES ASSUME Bad # {} PROVE FALSE
      OBVIOUS
    <2>1. Least(Bad) \in Bad
      BY LeastIn
    <2>2. PICK n \in Bad : n = Least(Bad)
      BY <2>1
    <2>3. n # 0 /\ n \in Nat
      BY <1>1
    <2>4. n - 1 \in Nat /\ n - 1 + 1 = n
      BY <2>3
    <2>5. n - 1 \notin Bad
      <3> SUFFICES ASSUME n - 1 \in Bad PROVE FALSE
        OBVIOUS
      <3> HIDE DEF Bad
      <3>1. Bad \in SUBSET Nat
        BY DEF Bad
      <3>2. \A m \in Bad : Least(Bad) <= m
        BY <3>1, LeastBounds
      <3> QED BY <2>2, <2>3, <3>2
    <2>6. PICK f : Turns(f, t, users, n - 1)
      BY <2>4, <2>5
    <2>7. \E g : Turns(g, t, users, n - 1 + 1)
      BY <1>2, <2>4, <2>6
    <2> QED BY <2>4, <2>7
  <1> QED BY <1>3

\* Rehash is the last of the turns, each made from the one before it.
LEMMA RehashTurns ==
  ASSUME NEW t, NEW users, NEW number \in Nat
  PROVE  \E f : /\ f[0] = t
                /\ \A n \in 1 .. number : f[n] = Hashed(f[n - 1], users, n)
                /\ Rehash(t, users, number) = f[number]
  <1> DEFINE f == CHOOSE g : Turns(g, t, users, number)
  <1>1. Turns(f, t, users, number)
    BY TurnsExist
  <1>2. Rehash(t, users, number) = f[number]
    BY DEF Rehash, Turns, Hashed
  <1> HIDE DEF f
  <1>3. f[0] = t /\ \A n \in 1 .. number : f[n] = Hashed(f[n - 1], users, n)
    <2>1. \A n \in 0 .. number : f[n] = IF n = 0 THEN t ELSE Hashed(f[n - 1], users, n)
      BY <1>1 DEF Turns
    <2> QED BY <2>1
  <1> QED BY <1>2, <1>3

\* Whatever is in the user table, a rehash keeps the types of the items.
LEMMA RehashKeeps ==
  ASSUME NEW t, ItemsOK(t), NEW number \in 0 .. MaxUsers, NEW users \in [Numbers -> Owners]
  PROVE  ItemsOK(Rehash(t, users, number))
  <1>1. PICK f : /\ f[0] = t
                 /\ \A n \in 1 .. number : f[n] = Hashed(f[n - 1], users, n)
                 /\ Rehash(t, users, number) = f[number]
    BY RehashTurns
  <1> DEFINE Bad == {n \in 0 .. number : ~ItemsOK(f[n])}
  <1>2. ASSUME NEW n \in 1 .. number, ItemsOK(f[n - 1]) PROVE ItemsOK(f[n])
    <2>1. n \in Numbers /\ users[n] \in Owners
      BY RegistryAssumption DEF Numbers
    <2>2. f[n] = Hashed(f[n - 1], users, n)
      BY <1>1
    <2>3. CASE users[n] = NoId
      BY <1>2, <2>2, <2>3 DEF Hashed
    <2>4. CASE users[n] # NoId
      <3>1. users[n] \in Ids /\ f[n] = Insert(f[n - 1], users[n], n)
        BY <2>1, <2>2, <2>4 DEF Hashed, Owners
      <3> QED BY <1>2, <2>1, <3>1, InsertKeeps
    <2> QED BY <2>3, <2>4
  <1>3. Bad = {}
    <2> SUFFICES ASSUME Bad # {} PROVE FALSE
      OBVIOUS
    <2>1. Bad \in SUBSET Nat
      OBVIOUS
    <2>2. PICK n \in Bad : \A m \in Bad : n <= m
      <3> HIDE DEF Bad
      <3> QED BY <2>1, LeastIn, LeastBounds
    <2>3. n # 0
      BY <1>1
    <2>4. n \in 1 .. number /\ n - 1 \in 0 .. number /\ n - 1 \notin Bad
      BY <2>2, <2>3
    <2> QED BY <1>2, <2>2, <2>4
  <1>4. number \notin Bad /\ number \in 0 .. number
    BY <1>3
  <1> QED BY <1>1, <1>4

\* A rehash of PASSFILE leads the probe for each of its users to him, and
\* leaves nobody an item who has lost his record, unless he expired.
LEMMA RehashReaches ==
  ASSUME NEW t, ItemsOK(t), Owned(t), FileOK, NEW users \in [Numbers -> Owners],
         \A n \in 1 .. Len(file) : users[n] = file[n].id
  PROVE  LET u == Rehash(t, users, Len(file))
         IN  Owned(u) /\ \A m \in 1 .. Len(file) : Met(u, m)
  <1> DEFINE number == Len(file)
  <1>0. number \in Nat /\ number <= MaxUsers
    BY DEF FileOK
  <1>1. PICK f : /\ f[0] = t
                 /\ \A n \in 1 .. number : f[n] = Hashed(f[n - 1], users, n)
                 /\ Rehash(t, users, number) = f[number]
    BY <1>0, RehashTurns
  <1> DEFINE Good(n) == ItemsOK(f[n]) /\ Owned(f[n]) /\ \A m \in 1 .. n : Met(f[n], m)
             Bad == {n \in 0 .. number : ~Good(n)}
  <1>2. ASSUME NEW n \in 1 .. number, Good(n - 1) PROVE Good(n)
    <2>1. n \in Numbers /\ n \in 1 .. Len(file) /\ users[n] = file[n].id /\ users[n] \in Owners
      BY <1>0, RegistryAssumption DEF Numbers
    <2>2. f[n] = Hashed(f[n - 1], users, n)
      BY <1>1
    <2>3. \A m \in 1 .. n : m \in 1 .. Len(file) /\ (m = n \/ m \in 1 .. n - 1)
      BY <1>0
    <2>4. CASE users[n] = NoId
      <3>1. f[n] = f[n - 1]
        BY <2>2, <2>4 DEF Hashed
      <3>2. Met(f[n], n)
        BY <2>1, <2>4, RegistryAssumption DEF Met
      <3> QED BY <1>2, <2>3, <3>1, <3>2
    <2>5. CASE users[n] # NoId
      <3>1. file[n].id \in Ids /\ f[n] = Insert(f[n - 1], file[n].id, n)
        BY <2>1, <2>2, <2>5 DEF Hashed, Owners
      <3>2. ItemsOK(f[n])
        BY <1>2, <2>1, <3>1, InsertKeeps
      <3>3. /\ Owned(f[n])
            /\ \A m \in 1 .. Len(file) : Met(f[n - 1], m) => Met(f[n], m)
            /\ Met(f[n], n)
        BY <1>2, <2>1, <3>1, InsertSpares
      <3> QED BY <1>2, <2>3, <3>2, <3>3
    <2> QED BY <2>4, <2>5
  <1>3. Good(0)
    BY <1>1
  <1> HIDE DEF Good
  <1>4. Bad = {}
    <2> SUFFICES ASSUME Bad # {} PROVE FALSE
      OBVIOUS
    <2>1. Bad \in SUBSET Nat
      BY <1>0
    <2>2. PICK n \in Bad : \A m \in Bad : n <= m
      <3> HIDE DEF Bad
      <3> QED BY <2>1, LeastIn, LeastBounds
    <2>3. n # 0
      BY <1>3
    <2>4. n \in 1 .. number /\ n - 1 \in 0 .. number /\ n - 1 \notin Bad
      BY <1>0, <2>2, <2>3
    <2> QED BY <1>2, <2>2, <2>4
  <1>5. Good(number)
    BY <1>0, <1>4
  <1> QED BY <1>1, <1>5 DEF Good

LEMMA ResolvedItems ==
  ASSUME FileOK, ClockOK, Tables(cache), ItemsOK(cache.items)
  PROVE  LET c == Resolved(cache)
         IN  /\ ItemsOK(c.items)
             /\ Owned(cache.items) /\ Reached(cache.items, cache.time) =>
                  Owned(c.items) /\ Reached(c.items, c.time)
  <1>1. CASE cache.time >= flush
    BY <1>1 DEF Resolved
  <1>2. CASE ~(cache.time >= flush)
    <2> DEFINE us == [n \in Numbers |-> IF n <= Len(file) THEN file[n].id ELSE cache.users[n]]
               re == Rehash(cache.items, us, Len(file))
    <2>1. Resolved(cache) = [users |-> us, number |-> Len(file), time |-> flush, items |-> re]
      BY <1>2 DEF Resolved
    <2>2. us \in [Numbers -> Owners]
      <3>1. \A n \in Numbers : cache.users[n] \in Owners
        BY DEF Tables
      <3>2. \A n \in Numbers : n <= Len(file) => file[n].id \in Owners
        BY FileRecords DEF Numbers, FileOK
      <3> QED BY <3>1, <3>2
    <2>3. Len(file) \in 0 .. MaxUsers
      BY DEF FileOK
    <2>4. \A n \in 1 .. Len(file) : us[n] = file[n].id
      BY <2>3, RegistryAssumption DEF Numbers
    <2> HIDE DEF us
    <2>5. ItemsOK(re)
      BY <2>2, <2>3, RehashKeeps
    <2>6. Owned(cache.items) => Owned(re) /\ \A m \in 1 .. Len(file) : Met(re, m)
      BY <2>2, <2>4, RehashReaches
    <2> HIDE DEF re
    <2> QED BY <2>1, <2>5, <2>6 DEF Reached
  <1> QED BY <1>1, <1>2

-----------------------------------------------------------------------------
LEMMA ItemsStay ==
  ASSUME IInv, HInv, UNCHANGED <<file, expired, broken>>, killed' \in Nat,
         cache'.items = cache.items, cache'.time = cache.time
  PROVE  HInv'
  BY DEF HInv, ItemsOK, Single, Owned, Reached, Met, In, Full

LEMMA ReloadItems ==
  ASSUME IInv, HInv, UNCHANGED <<file, expired, broken, killed>>,
         cache' = cache \/ cache' = Resolved(cache)
  PROVE  HInv'
  <1>1. CASE cache' = cache
    BY <1>1, ItemsStay DEF HInv
  <1>2. CASE cache' = Resolved(cache)
    <2> DEFINE c == Resolved(cache)
    <2>1. /\ ItemsOK(c.items)
          /\ Owned(cache.items) /\ Reached(cache.items, cache.time) =>
               Owned(c.items) /\ Reached(c.items, c.time)
      BY ResolvedItems DEF IInv, HInv
    <2>2. cache' = c
      BY <1>2
    <2> HIDE DEF c
    <2> QED BY <2>1, <2>2 DEF HInv, ItemsOK, Single, Owned, Reached, Met, In, Full
  <1> QED BY <1>1, <1>2

\* Who loses his record in a clean-up has expired.
LEMMA CleanItems ==
  ASSUME IInv, HInv, NEW w \in Workers, Clean(w)
  PROVE  HInv'
  <1>1. cache' = cache /\ broken' = broken
    BY DEF Clean
  <1>2. CASE UNCHANGED <<file, expired, killed>>
    BY <1>1, <1>2, ItemsStay DEF HInv
  <1>3. CASE ~UNCHANGED <<file, expired, killed>>
    <2>1. PICK due \in SUBSET {n \in 1 .. Len(file) : MayExpire(n)} :
            /\ file' = [n \in 1 .. Len(file) |-> IF n \in due THEN ZeroRecord ELSE file[n]]
            /\ expired' = expired \cup {file[n].id : n \in due}
            /\ killed' = now
      BY <1>3 DEF Clean
    <2>2. Len(file) \in Nat /\ now \in Nat
      BY DEF IInv, FileOK, ClockOK
    <2>3. Len(file') = Len(file)
      <3>1. \A n \in 1 .. Len(file) : (IF n \in due THEN ZeroRecord ELSE file[n]) \in Records
        <4>1. ZeroRecord \in Records
          BY DEF ZeroRecord, Records
        <4> QED BY <4>1, FileRecords DEF IInv
      <3>2. file' \in Seq(Records) /\ Len(file') = Len(file)
        BY <2>1, <2>2, <3>1
      <3> QED BY <3>2
    <2>4. \A n \in 1 .. Len(file) : file'[n] = IF n \in due THEN ZeroRecord ELSE file[n]
      BY <2>1
    <2>5. \A n \in 1 .. Len(file) :
            file'[n].id \in Ids => n \notin due /\ file'[n] = file[n]
      BY <2>4, RegistryAssumption DEF ZeroRecord
    <2>6. \A n \in 1 .. Len(file) : n \in due => file[n].id \in expired'
      BY <2>1
    <2>7. expired \subseteq expired' /\ expired' \subseteq Ids
      <3>1. \A n \in due : file[n].id \in Ids
        <4>1. \A n \in due : n \in 1 .. Len(file) /\ file[n].id # NoId
          BY DEF MayExpire
        <4> QED BY <4>1, FileRecords DEF IInv, Owners
      <3> QED BY <2>1, <3>1 DEF HInv
    <2>8. Single => Single'
      BY <2>3, <2>5 DEF Single
    <2>9. Owned(cache.items) => Owned(cache.items)'
      <3> SUFFICES ASSUME Owned(cache.items), NEW h \in Hashes,
                          cache.items[h].id \in Ids \ expired'
                   PROVE  /\ cache.items[h].idx \in 1 .. Len(file)
                          /\ file'[cache.items[h].idx].id = cache.items[h].id
        BY <1>1, <2>3 DEF Owned
      <3>1. /\ cache.items[h].idx \in 1 .. Len(file)
            /\ file[cache.items[h].idx].id = cache.items[h].id
        BY <2>7 DEF Owned
      <3>2. cache.items[h].idx \notin due
        BY <2>6, <3>1
      <3> QED BY <2>4, <3>1, <3>2
    <2>10. Reached(cache.items, cache.time) => Reached(cache.items, cache.time)'
      <3> SUFFICES ASSUME Reached(cache.items, cache.time), NEW n \in 1 .. Len(file),
                          file'[n].born < cache.time, file'[n].id \in Ids \ expired'
                   PROVE  In(cache.items, file[n].id) \/ Full(cache.items, file[n].id)
        BY <1>1, <2>3, <2>5 DEF Reached, Met, In, Full
      <3>1. file[n] = file'[n] /\ file[n].id \in Ids \ expired
        BY <2>5, <2>7
      <3> QED BY <3>1 DEF Reached, Met
    <2> QED BY <1>1, <2>1, <2>2, <2>7, <2>8, <2>9, <2>10 DEF HInv, ItemsOK
  <1> QED BY <1>2, <1>3

\* A new record is nobody's, and too young to be promised an item.
LEMMA AllocateItems ==
  ASSUME IInv, HInv, NEW w \in Workers, Allocate(w)
  PROVE  HInv'
  <1>1. UNCHANGED <<killed, expired>>
    BY DEF Allocate
  <1>2. CASE NewUser(Resolved(cache)) = 0
    <2>1. cache' = Resolved(cache) /\ UNCHANGED <<file, broken>>
      BY <1>2 DEF Allocate
    <2> QED BY <1>1, <2>1, ReloadItems
  <1>3. CASE NewUser(Resolved(cache)) # 0
    <2> DEFINE c == Resolved(cache)
               n == NewUser(c)
               id == job[w].id
    <2>1. /\ cache' = c /\ Tables(c)
          /\ n \in 1 .. Len(file) + 1
          /\ Len(file') = IF n > Len(file) THEN n ELSE Len(file)
          /\ file'[n] = [id |-> id, born |-> now]
          /\ \A m \in 1 .. Len(file) : m # n => file'[m] = file[m]
          /\ "overwritten" \notin broken' => n > Len(file) \/ file[n].id = NoId
      BY <1>3, AllocateRoom
    <2>2. /\ ItemsOK(c.items)
          /\ Owned(cache.items) /\ Reached(cache.items, cache.time) =>
               Owned(c.items) /\ Reached(c.items, c.time)
      BY ResolvedItems DEF IInv, HInv
    <2>3. /\ broken \subseteq broken' /\ broken' \subseteq {"overwritten", "duplicate"}
          /\ "duplicate" \notin broken' => \A m \in 1 .. Len(file) : file[m].id # id
      <3>1. broken' = broken
              \cup (IF n <= Len(file) /\ file[n].id # NoId THEN {"overwritten"} ELSE {})
              \cup (IF \E m \in 1 .. Len(file) : file[m].id = id THEN {"duplicate"} ELSE {})
        BY <1>3 DEF Allocate
      <3> HIDE DEF n, id
      <3> QED BY <3>1 DEF HInv
    <2>4. id \in Ids
      BY DEF IInv, JobsOK, Allocate
    <2>5. now \in Nat /\ c.time \in Nat /\ c.time <= now
      BY <2>1 DEF IInv, ClockOK, Tables
    <2> HIDE DEF c, n, id
    <2>6. Len(file) \in Nat
      BY DEF IInv, FileOK
    <2>7. \A m \in 1 .. Len(file') : m = n \/ m \in 1 .. Len(file)
      BY <2>1, <2>6
    <2>8. ASSUME broken' = {}
          PROVE  Single' /\ Owned(cache.items)' /\ Reached(cache.items, cache.time)'
      <3>1. broken = {} /\ (n > Len(file) \/ file[n].id = NoId)
        BY <2>1, <2>3, <2>8
      <3>2. Single /\ Owned(c.items) /\ Reached(c.items, c.time)
        BY <2>2, <3>1 DEF HInv
      <3>3. \A m \in 1 .. Len(file) : file[m].id # id
        BY <2>3, <2>8
      <3>4. Single'
        BY <2>1, <2>7, <3>2, <3>3 DEF Single
      <3>5. Owned(cache.items)'
        <4> SUFFICES ASSUME NEW h \in Hashes, c.items[h].id \in Ids \ expired
                     PROVE  /\ c.items[h].idx \in 1 .. Len(file')
                            /\ file'[c.items[h].idx].id = c.items[h].id
          BY <1>1, <2>1 DEF Owned
        <4>1. /\ c.items[h].idx \in 1 .. Len(file)
              /\ file[c.items[h].idx].id = c.items[h].id
          BY <3>2 DEF Owned
        <4>2. c.items[h].idx # n
          BY <2>6, <3>1, <4>1, RegistryAssumption
        <4>3. 1 .. Len(file) \subseteq 1 .. Len(file')
          BY <2>1, <2>6
        <4> QED BY <2>1, <4>1, <4>2, <4>3
      <3>6. Reached(cache.items, cache.time)'
        <4> SUFFICES ASSUME NEW m \in 1 .. Len(file'), file'[m].born < c.time,
                            file'[m].id \in Ids \ expired
                     PROVE  In(c.items, file'[m].id) \/ Full(c.items, file'[m].id)
          BY <1>1, <2>1 DEF Reached, Met, In, Full
        <4>1. m # n
          BY <2>1, <2>5
        <4>2. m \in 1 .. Len(file) /\ file'[m] = file[m]
          BY <2>1, <2>7, <4>1
        <4> QED BY <3>2, <4>2 DEF Reached, Met
      <3> QED BY <3>4, <3>5, <3>6
    <2>9. ItemsOK(cache.items)'
      BY <2>1, <2>2 DEF ItemsOK
    <2> QED BY <1>1, <2>3, <2>8, <2>9 DEF HInv
  <1> QED BY <1>2, <1>3

LEMMA InitHInv == Init => HInv
  <1> SUFFICES ASSUME Init PROVE HInv
    OBVIOUS
  <1>1. Len(file) = 0 /\ cache.items = [h \in Hashes |-> NoItem]
    BY DEF Init
  <1>2. ItemsOK(cache.items)
    BY <1>1, RegistryAssumption DEF ItemsOK, NoItem, Owners
  <1>3. \A h \in Hashes : cache.items[h].id = NoId
    BY <1>1 DEF NoItem
  <1>4. Single /\ Owned(cache.items) /\ Reached(cache.items, cache.time)
    BY <1>1, <1>3, RegistryAssumption DEF Single, Owned, Reached
  <1> QED BY <1>2, <1>4 DEF Init, HInv

LEMMA StepHInv == IInv /\ HInv /\ [Next]_vars => HInv'
  <1> SUFFICES ASSUME IInv, HInv, [Next]_vars PROVE HInv'
    OBVIOUS
  <1>1. CASE UNCHANGED vars
    BY <1>1, ItemsStay DEF vars, HInv
  <1>2. ASSUME NEW w \in Workers, NEW id \in Ids, NEW via \in {"telnet", "web"},
               CheckId(w, id, via)
        PROVE  HInv'
    <2>1. UNCHANGED <<file, expired, broken, killed>> /\ (cache' = cache \/ cache' = Resolved(cache))
      BY <1>2 DEF CheckId
    <2> QED BY <2>1, ReloadItems
  <1>3. ASSUME NEW w \in Workers, Clean(w) PROVE HInv'
    BY <1>3, CleanItems
  <1>4. ASSUME NEW w \in Workers, Allocate(w) PROVE HInv'
    BY <1>4, AllocateItems
  <1>5. ASSUME NEW w \in Workers, Touch(w) \/ Die(w) PROVE HInv'
    <2>1. UNCHANGED <<file, expired, broken, killed, cache>>
      BY <1>5 DEF Touch, Die
    <2> QED BY <2>1, ItemsStay DEF HInv
  <1>6. ASSUME NEW w \in Workers, Resolve(w) \/ Verify(w) PROVE HInv'
    <2>1. UNCHANGED <<file, expired, broken, killed>> /\ cache' = Resolved(cache)
      BY <1>6 DEF Resolve, Verify
    <2> QED BY <2>1, ReloadItems
  <1>7. ASSUME NEW w \in Workers, SetUserId(w) PROVE HInv'
    <2>1. UNCHANGED <<file, expired, broken, killed>>
      BY <1>7 DEF SetUserId
    <2>2. cache'.items = cache.items /\ cache'.time = cache.time
      <3>1. cache = [users |-> cache.users, number |-> cache.number,
                     time |-> cache.time, items |-> cache.items]
        BY DEF IInv, Tables
      <3>2. cache' = [cache EXCEPT !.users[job[w].slot] = job[w].id,
                                   !.number = IF job[w].slot > @ THEN job[w].slot ELSE @]
        BY <1>7 DEF SetUserId
      <3> QED BY <3>1, <3>2
    <2> QED BY <2>1, <2>2, ItemsStay DEF HInv
  <1>8. CASE Tick
    <2>1. UNCHANGED <<file, expired, broken, killed, cache>>
      BY <1>8 DEF Tick
    <2> QED BY <2>1, ItemsStay DEF HInv
  <1> QED BY <1>1, <1>2, <1>3, <1>4, <1>5, <1>6, <1>7, <1>8 DEF Next

\* The hash table together with the types: while no record was overwritten and
\* no id registered twice, an item of a user who never expired is his own.
THEOREM RegistryItems == Spec => [](IInv /\ HInv)
  <1>1. IInv /\ HInv /\ [Next]_vars => (IInv /\ HInv)'
    BY StepIInv, StepHInv
  <1>2. Init => IInv /\ HInv
    BY InitIInv, InitHInv
  <1> QED BY <1>1, <1>2, PTL DEF Spec

LEMMA HInvTypes == IInv /\ HInv => TypeOK
  <1> SUFFICES ASSUME IInv, HInv PROVE TypeOK
    OBVIOUS
  <1>1. cache \in [users : [Numbers -> Ids \cup {NoId}], number : 0 .. MaxUsers, time : Nat,
                   items : [Hashes -> [id : Ids \cup {NoId}, idx : 0 .. MaxUsers]]]
    <2>1. cache.number \in 0 .. MaxUsers
      BY RegistryAssumption DEF IInv, Tables, FileOK
    <2> QED BY <2>1 DEF IInv, HInv, Tables, ItemsOK, Owners
  <1> QED BY <1>1 DEF IInv, HInv, TypeOK, FileOK, ClockOK, JobsOK, Owners

\* While no record was overwritten and no id registered twice, a settled user
\* who never expired finds himself under his own number, unless all the items
\* his probe looks at are taken.
THEOREM RegistryLogIn == Spec => []RegisteredCanLogIn
  <1>1. IInv /\ HInv => RegisteredCanLogIn
    <2> SUFFICES ASSUME IInv, HInv, broken = {}, NEW n \in 1 .. Len(file),
                        Settled(n), file[n].id \notin expired
                 PROVE  Find(cache.items, file[n].id) = n \/ Crowded(file[n].id)
      BY HInvTypes DEF RegisteredCanLogIn
    <2> DEFINE id == file[n].id
    <2>1. id \in Ids \ expired /\ file[n].born < cache.time
      BY FileRecords DEF Settled, IInv, Owners
    <2>2. In(cache.items, id) \/ Full(cache.items, id)
      BY <2>1 DEF HInv, Reached, Met
    <2>3. CASE Full(cache.items, id)
      BY <2>3 DEF Full, Crowded, Spots
    <2>4. CASE In(cache.items, id)
      <3>1. PICK h \in Hashes : /\ cache.items[h].id = id
                                /\ cache.items[h].idx = Find(cache.items, id)
        BY <2>1, <2>4, FindHits DEF HInv
      <3>2. /\ cache.items[h].idx \in 1 .. Len(file)
            /\ file[cache.items[h].idx].id = id
        BY <2>1, <3>1 DEF HInv, Owned
      <3>3. cache.items[h].idx = n
        BY <2>1, <3>2 DEF HInv, Single
      <3> QED BY <3>1, <3>3
    <2> QED BY <2>2, <2>3, <2>4
  <1> QED BY <1>1, RegistryItems, PTL

-----------------------------------------------------------------------------
(* UserRecord                                                              *)

\* What the job of a process holds while nobody else has saved.
Fits(k, c, r) ==
  /\ k \in Fresh => c = r
  /\ k \in Guarded => c.level = r.level /\ c.posts = r.posts

Current ==
  \A p \in Procs : ~Idle(p) /\ ~saving[p].raced => Fits(saving[p].kind, saving[p].copy, rec)

Blamed(s) ==
  \A e \in s :
    /\ e[1] \in {"level", "posts"} => e[2] \in Bare \cup {"race"}
    /\ e[1] \in {"passwd", "define"} => e[2] \in Guarded \cup Bare \cup {"race"}

Sticks ==
  alone =>
    /\ rec.passwd = chosen
    /\ \A w \in Windows : ~At(w, "out") => cur[w].passwd = chosen
    /\ \A p \in Procs : ~Idle(p) => saving[p].copy.passwd = chosen

RecordInv == RecordTypeOK /\ Current /\ Blamed(spoilt) /\ Sticks

\* What a step does to the windows besides the job.
Sound(stg, pol, cu) ==
  /\ stg \in [Windows -> Stages] /\ pol \in [Windows -> BOOLEAN]
  /\ cu \in [Windows -> Record]

Knows(stg, cu, n) == \A w \in Windows : stg[w] # "out" => cu[w].passwd = n

JobType == [kind : Kinds \cup {"none"}, copy : Record, raced : BOOLEAN]
-----------------------------------------------------------------------------
LEMMA KindFacts ==
  /\ "none" \notin Kinds /\ Fresh \subseteq Kinds /\ Guarded \subseteq Kinds
  /\ Kinds = Fresh \cup Guarded \cup Bare
  BY DEF Kinds, Fresh, Guarded, Bare

LEMMA NewRecordType == NewRecord \in Record
  BY UserRecordAssumption DEF NewRecord, Record

LEMMA NoSaveType == NoSave \in JobType /\ NoSave.kind = "none"
  BY NewRecordType DEF NoSave, JobType

\* The changes of a record keep its type and leave what they should.
LEMMA MoreType ==
  ASSUME NEW r \in Record
  PROVE  More(r) \in Record /\ More(r).passwd = r.passwd
  BY DEF More, Record

LEMMA FewerType ==
  ASSUME NEW r \in Record
  PROVE  Fewer(r) \in Record /\ Fewer(r).passwd = r.passwd
  BY DEF Fewer, Record

LEMMA SafeType ==
  ASSUME rec \in Record, NEW c \in Record
  PROVE  /\ SafeRecord(c) \in Record
         /\ SafeRecord(c).passwd = c.passwd /\ SafeRecord(c).define = c.define
         /\ SafeRecord(c).level = rec.level /\ SafeRecord(c).posts = rec.posts
  BY DEF SafeRecord, Record

LEMMA RepassType ==
  ASSUME chosen \in Nat, NEW r \in Record
  PROVE  Repass(r) \in Record /\ Repass(r).passwd = chosen + 1
  BY DEF Repass, Record

LEMMA FlipType ==
  ASSUME NEW r \in Record, NEW b \in Perms
  PROVE  Flip(r, b) \in Record /\ Flip(r, b).passwd = r.passwd
  BY DEF Flip, Record

LEMMA SwitchType ==
  ASSUME NEW r \in Record, NEW o \in Options
  PROVE  Switch(r, o) \in Record /\ Switch(r, o).passwd = r.passwd
  BY DEF Switch, Record

\* A save undoes nothing but what its kind may undo: if it was not raced, new
\* differs from want only where a kept copy may.
LEMMA PutBlames ==
  ASSUME NEW s, NEW r \in Causes, NEW new \in Record, NEW want,
         s \subseteq Fields \X Causes, Blamed(s),
         r \in Fresh => new = want,
         r \in Guarded => new.level = want.level /\ new.posts = want.posts
  PROVE  LET t == s \cup {<<f, r>> : f \in {g \in Fields : new[g] # want[g]}}
         IN  t \subseteq Fields \X Causes /\ Blamed(t)
<1> DEFINE add == {<<f, r>> : f \in {g \in Fields : new[g] # want[g]}}
<1>1. add \subseteq Fields \X Causes
  OBVIOUS
<1>2. r \in Fresh \cup Guarded \cup Bare \cup {"race"}
  BY KindFacts DEF Causes
<1>3. ASSUME NEW f \in Fields, new[f] # want[f]
      PROVE  /\ f \in {"level", "posts"} => r \in Bare \cup {"race"}
             /\ f \in {"passwd", "define"} => r \in Guarded \cup Bare \cup {"race"}
  <2>1. r \notin Fresh
    BY <1>3
  <2>2. f \in {"level", "posts"} => r \notin Guarded
    BY <1>3
  <2> QED BY <1>2, <2>1, <2>2
<1>4. Blamed(add)
  BY <1>3 DEF Blamed
<1> QED BY <1>1, <1>4 DEF Blamed
-----------------------------------------------------------------------------
(* The shapes of a step *)

\* A process begins a job with a copy of its kind.
LEMMA BeginStep ==
  ASSUME RecordInv, NEW p \in Procs, NEW k \in Kinds, NEW c \in Record,
         Begin(p, k, c), KeepPassword, rec' = rec, spoilt' = spoilt,
         ops' \in 0..MaxOps, Sound(stage', polite', cur'),
         Fits(k, c, rec),
         alone => c.passwd = chosen /\ Knows(stage', cur', chosen)
  PROVE  RecordInv'
<1>1. /\ saving \in [Procs -> JobType]
      /\ saving' = [saving EXCEPT ![p] = [kind |-> k, copy |-> c, raced |-> FALSE]]
  BY DEF RecordInv, RecordTypeOK, JobType, Begin
<1>2. /\ saving'[p] = [kind |-> k, copy |-> c, raced |-> FALSE]
      /\ \A q \in Procs \ {p} : saving'[q] = saving[q]
  BY <1>1
<1>3. saving' \in [Procs -> JobType]
  BY <1>1 DEF JobType
<1>4. RecordTypeOK'
  BY <1>3 DEF RecordTypeOK, RecordInv, Sound, KeepPassword, JobType
<1>5. Current'
  BY <1>2 DEF Current, RecordInv, Idle, Fits
<1>6. Sticks'
  BY <1>2 DEF Sticks, RecordInv, Idle, At, Knows, KeepPassword
<1> QED BY <1>4, <1>5, <1>6 DEF RecordInv, Blamed

\* What a save leaves of the jobs, whoever's password is in them.
LEMMA SavedJobs ==
  ASSUME RecordInv, NEW p \in Procs, NEW k \in Kinds, NEW new \in Record, NEW want,
         Save(p, k, new, want),
         saving[p].copy \in Record /\ Fits(k, saving[p].copy, rec) =>
           /\ k \in Fresh => new = want
           /\ k \in Guarded => new.level = want.level /\ new.posts = want.posts
  PROVE  /\ saving' \in [Procs -> JobType] /\ rec' = new
         /\ \A q \in Procs : ~Idle(q)' => q # p /\ ~Idle(q) /\ saving'[q].copy = saving[q].copy
         /\ Current'
         /\ spoilt' \subseteq Fields \X Causes /\ Blamed(spoilt')
<1>1. /\ saving \in [Procs -> JobType] /\ saving[p].kind = k
      /\ rec' = new
      /\ saving' = [q \in Procs |->
                   IF q = p THEN NoSave
                   ELSE [saving[q] EXCEPT !.raced = @ \/ (saving[q].kind # "none" /\ new # rec)]]
  BY DEF RecordInv, RecordTypeOK, JobType, Save, Put
<1>2. saving'[p] = NoSave
  BY <1>1
<1>3. ASSUME NEW q \in Procs, q # p
      PROVE  /\ saving'[q] \in JobType
             /\ saving'[q].kind = saving[q].kind /\ saving'[q].copy = saving[q].copy
             /\ saving'[q].raced = (saving[q].raced \/ (saving[q].kind # "none" /\ new # rec))
  <2>1. saving[q] \in JobType
    BY <1>1
  <2>2. saving'[q] = [saving[q] EXCEPT !.raced = @ \/ (saving[q].kind # "none" /\ new # rec)]
    BY <1>1, <1>3
  <2> QED BY <2>1, <2>2 DEF JobType
<1>4. saving' \in [Procs -> JobType]
  <2>1. \A q \in Procs : saving'[q] \in JobType
    BY <1>2, <1>3, NoSaveType
  <2> QED BY <2>1, <1>1
<1>5. \A q \in Procs : ~Idle(q)' => q # p /\ ~Idle(q) /\ saving'[q].copy = saving[q].copy
  BY <1>2, <1>3, NoSaveType DEF Idle
<1>6. Current'
  <2> SUFFICES ASSUME NEW q \in Procs, ~Idle(q)', ~saving'[q].raced
               PROVE  Fits(saving'[q].kind, saving'[q].copy, rec')
    BY DEF Current
  <2>1. q # p /\ ~Idle(q)
    BY <1>5
  <2>2. saving[q].kind # "none" /\ ~saving[q].raced /\ new = rec
    BY <2>1, <1>3 DEF Idle
  <2>3. Fits(saving[q].kind, saving[q].copy, rec)
    BY <2>1, <2>2 DEF RecordInv, Current
  <2> QED BY <2>1, <2>2, <2>3, <1>1, <1>3
<1>7. spoilt' = spoilt \cup {<<f, Raced(p)>> : f \in {g \in Fields : new[g] # want[g]}}
  BY DEF Save, Put
<1>8. Raced(p) \in Causes /\ (Raced(p) # "race" => Raced(p) = k /\ ~saving[p].raced)
  BY <1>1 DEF Raced, Causes
<1>9. k # "none"
  BY KindFacts
<1>10. Raced(p) # "race" => Fits(k, saving[p].copy, rec)
  BY <1>1, <1>8, <1>9 DEF RecordInv, Current, Idle
<1>11. /\ Raced(p) \in Fresh => new = want
       /\ Raced(p) \in Guarded => new.level = want.level /\ new.posts = want.posts
  <2>1. "race" \notin Fresh /\ "race" \notin Guarded
    BY DEF Fresh, Guarded
  <2>2. saving[p].copy \in Record
    BY <1>1 DEF JobType
  <2> QED BY <2>1, <2>2, <1>8, <1>10
<1>12. spoilt' \subseteq Fields \X Causes /\ Blamed(spoilt')
  <2>1. spoilt \subseteq Fields \X Causes /\ Blamed(spoilt)
    BY DEF RecordInv, RecordTypeOK
  <2> QED BY <2>1, <1>7, <1>8, <1>11, PutBlames
<1> QED BY <1>1, <1>4, <1>5, <1>6, <1>12

\* A save that leaves the password alone.
LEMMA SaveStep ==
  ASSUME RecordInv, NEW p \in Procs, NEW k \in Kinds, NEW new \in Record, NEW want,
         Save(p, k, new, want), KeepPassword, new.passwd = saving[p].copy.passwd,
         saving[p].copy \in Record /\ Fits(k, saving[p].copy, rec) =>
           /\ k \in Fresh => new = want
           /\ k \in Guarded => new.level = want.level /\ new.posts = want.posts,
         ops' \in 0..MaxOps, Sound(stage', polite', cur'),
         alone => Knows(stage', cur', chosen)
  PROVE  RecordInv'
<1>1. /\ saving' \in [Procs -> JobType] /\ rec' = new
      /\ \A q \in Procs : ~Idle(q)' => q # p /\ ~Idle(q) /\ saving'[q].copy = saving[q].copy
      /\ Current'
      /\ spoilt' \subseteq Fields \X Causes /\ Blamed(spoilt')
  BY SavedJobs
<1>2. RecordTypeOK'
  BY <1>1 DEF RecordTypeOK, RecordInv, Sound, KeepPassword, JobType
<1>3. ~Idle(p)
  BY KindFacts DEF Save, Idle
<1>4. Sticks'
  BY <1>1, <1>3 DEF Sticks, RecordInv, At, Knows, KeepPassword
<1> QED BY <1>1, <1>2, <1>4 DEF RecordInv

\* A save that sets a new password: if p is alone, nobody has the old one.
LEMMA PasswordStep ==
  ASSUME RecordInv, NEW p \in Procs, NEW k \in Kinds, NEW new \in Record, NEW want,
         Save(p, k, new, want), SetPassword(p), new.passwd = chosen + 1,
         saving[p].copy \in Record /\ Fits(k, saving[p].copy, rec) =>
           /\ k \in Fresh => new = want
           /\ k \in Guarded => new.level = want.level /\ new.posts = want.posts,
         ops' \in 0..MaxOps, stage' = stage, polite' = polite,
         Sound(stage, polite, cur'),
         p \in Windows => cur'[p].passwd = chosen + 1
  PROVE  RecordInv'
<1>1. /\ saving' \in [Procs -> JobType] /\ rec' = new
      /\ \A q \in Procs : ~Idle(q)' => q # p /\ ~Idle(q) /\ saving'[q].copy = saving[q].copy
      /\ Current'
      /\ spoilt' \subseteq Fields \X Causes /\ Blamed(spoilt')
  BY SavedJobs
<1>2. chosen' = chosen + 1 /\ chosen \in Nat
  BY DEF SetPassword, RecordInv, RecordTypeOK
<1>3. /\ alone' \in BOOLEAN
      /\ alone' => \A q \in Procs \ {p} : Idle(q) /\ (q \in Windows => At(q, "out"))
  BY DEF SetPassword
<1>4. RecordTypeOK'
  BY <1>1, <1>2, <1>3 DEF RecordTypeOK, RecordInv, Sound, JobType
<1>5. Sticks'
  <2> SUFFICES ASSUME alone'
               PROVE  /\ rec'.passwd = chosen'
                      /\ \A w \in Windows : ~At(w, "out")' => cur'[w].passwd = chosen'
                      /\ \A q \in Procs : Idle(q)'
    BY DEF Sticks
  <2>1. \A q \in Procs : Idle(q)'
    BY <1>1, <1>3
  <2>2. \A w \in Windows : ~At(w, "out")' => w = p
    BY <1>3 DEF At, Procs
  <2> QED BY <1>1, <1>2, <2>1, <2>2
<1> QED BY <1>1, <1>4, <1>5 DEF RecordInv

\* Nothing is saved; a job may be dropped, a window may move.
LEMMA DropStep ==
  ASSUME RecordInv, NEW p \in Procs, saving' = saving \/ saving' = [saving EXCEPT ![p] = NoSave],
         KeepPassword, rec' = rec, spoilt' = spoilt,
         ops' \in 0..MaxOps, Sound(stage', polite', cur'),
         alone => Knows(stage', cur', chosen)
  PROVE  RecordInv'
<1>1. saving \in [Procs -> JobType]
  BY DEF RecordInv, RecordTypeOK, JobType
<1>2. /\ saving' \in [Procs -> JobType]
      /\ \A q \in Procs : saving'[q] = saving[q] \/ saving'[q] = NoSave
  BY <1>1, NoSaveType
<1>3. \A q \in Procs : ~Idle(q)' => saving'[q] = saving[q] /\ ~Idle(q)
  BY <1>2, NoSaveType DEF Idle
<1>4. RecordTypeOK'
  BY <1>2 DEF RecordTypeOK, RecordInv, Sound, KeepPassword, JobType
<1>5. Current'
  BY <1>3 DEF Current, RecordInv
<1>6. Sticks'
  BY <1>3 DEF Sticks, RecordInv, At, Knows, KeepPassword
<1> QED BY <1>4, <1>5, <1>6 DEF RecordInv, Blamed
-----------------------------------------------------------------------------
(* The actions *)

\* What the lemmas below ask of the state before the step.
LEMMA Before ==
  ASSUME RecordInv
  PROVE  /\ rec \in Record /\ chosen \in Nat /\ ops \in 0..MaxOps
         /\ Sound(stage, polite, cur)
         /\ saving \in [Procs -> JobType]
         /\ alone => rec.passwd = chosen /\ Knows(stage, cur, chosen)
  BY DEF RecordInv, RecordTypeOK, Sound, JobType, Sticks, Knows, At

LEMMA Counts == ASSUME RecordInv, Count PROVE ops' \in 0..MaxOps
  BY UserRecordAssumption DEF RecordInv, RecordTypeOK, Count

\* The copy of a job that is in hand.
LEMMA InHand ==
  ASSUME RecordInv, NEW p \in Procs
  PROVE  /\ saving[p].copy \in Record
         /\ alone /\ ~Idle(p) => saving[p].copy.passwd = chosen
<1>1. saving[p].copy \in Record
  BY Before DEF JobType
<1> QED BY <1>1 DEF RecordInv, Sticks

\* A window reloads its copy to save it, or saves what it has reloaded.
LEMMA ReloadStep ==
  ASSUME RecordInv, NEW w \in Windows, NEW k \in Guarded, Reload(w, k), KeepPassword,
         ~At(w, "out"), stage' = stage, polite' = polite, ops' \in 0..MaxOps
  PROVE  RecordInv'
<1>1. cur[w] \in Record /\ w \in Procs /\ k \in Kinds
  BY Before, KindFacts DEF Sound, Procs
<1>2. /\ SafeRecord(cur[w]) \in Record
      /\ SafeRecord(cur[w]).passwd = cur[w].passwd
      /\ SafeRecord(cur[w]).level = rec.level /\ SafeRecord(cur[w]).posts = rec.posts
  BY <1>1, Before, SafeType
<1>3. cur' = [cur EXCEPT ![w] = SafeRecord(cur[w])] /\ Begin(w, k, SafeRecord(cur[w]))
  BY DEF Reload
<1>4. Sound(stage', polite', cur')
  BY <1>2, <1>3, Before DEF Sound
<1>5. alone => SafeRecord(cur[w]).passwd = chosen /\ Knows(stage', cur', chosen)
  BY <1>2, <1>3, Before DEF Knows, At, Sound
<1>6. Fits(k, SafeRecord(cur[w]), rec)
  BY <1>2 DEF Fits, Guarded, Fresh
<1> QED BY <1>1, <1>2, <1>3, <1>4, <1>5, <1>6, BeginStep DEF Reload

LEMMA RewriteStep ==
  ASSUME RecordInv, NEW w \in Windows, NEW k \in Guarded \cup {"login"},
         NEW new \in Record, NEW want,
         Rewrite(w, k, new, want), KeepPassword, new.passwd = saving[w].copy.passwd,
         saving[w].copy \in Record /\ Fits(k, saving[w].copy, rec) =>
           /\ k \in Fresh => new = want
           /\ k \in Guarded => new.level = want.level /\ new.posts = want.posts,
         stage' = stage \/ \E s \in Stages : GoTo(w, s), polite' = polite, ops' = ops
  PROVE  RecordInv'
<1>1. w \in Procs /\ k \in Kinds
  BY KindFacts DEF Procs, Fresh
<1>2. Save(w, k, new, want) /\ cur' = [cur EXCEPT ![w] = new]
  BY DEF Rewrite
<1>3. alone => new.passwd = chosen
  BY <1>1, <1>2, InHand, KindFacts DEF Save, Idle
<1>4. Sound(stage', polite', cur')
  BY <1>2, Before DEF Sound, GoTo
<1>5. alone => Knows(stage', cur', chosen)
  BY <1>2, <1>3, Before DEF Knows, GoTo, Sound
<1>6. ops' \in 0..MaxOps
  BY Before
<1> QED BY <1>1, <1>2, <1>4, <1>5, <1>6, SaveStep

\* A process reads the record of the file, and writes one.
LEMMA ReadStep ==
  ASSUME RecordInv, NEW p \in Procs, NEW k \in Fresh, Begin(p, k, rec), KeepPassword,
         rec' = rec, spoilt' = spoilt, ops' \in 0..MaxOps,
         stage' = stage, polite' = polite, cur' = cur
  PROVE  RecordInv'
<1>1. k \in Kinds /\ Fits(k, rec, rec)
  BY KindFacts DEF Fits
<1> QED BY <1>1, Before, BeginStep

LEMMA WriteStep ==
  ASSUME RecordInv, NEW p \in Procs, NEW k \in Fresh,
         NEW new \in Record, NEW want,
         Save(p, k, new, want), KeepPassword, new.passwd = saving[p].copy.passwd,
         saving[p].copy = rec => new = want,
         ops' = ops, stage' = stage, polite' = polite, cur' = cur
  PROVE  RecordInv'
<1>1. k \in Kinds /\ k \notin Guarded
  BY KindFacts DEF Fresh, Guarded
<1>2. Fits(k, saving[p].copy, rec) => new = want
  BY DEF Fits
<1>3. ops' \in 0..MaxOps /\ Sound(stage', polite', cur') /\ (alone => Knows(stage', cur', chosen))
  BY Before
<1> QED BY <1>1, <1>2, <1>3, SaveStep
-----------------------------------------------------------------------------
LEMMA LoginStep ==
  ASSUME RecordInv, NEW w \in Windows, Login(w)
  PROVE  RecordInv'
<1>0. w \in Procs /\ "login" \in Fresh /\ "login" \notin Guarded
  BY DEF Procs, Fresh, Guarded
<1>1. CASE Begin(w, "login", rec) /\ Count /\ UNCHANGED <<rec, cur, stage, spoilt>>
  BY <1>0, <1>1, Counts, ReadStep DEF Login
<1>2. CASE Rewrite(w, "login", saving[w].copy, rec) /\ GoTo(w, "entering") /\ UNCHANGED ops
  <2>1. saving[w].copy \in Record
    BY <1>0, InHand
  <2>2. Fits("login", saving[w].copy, rec) => saving[w].copy = rec
    BY <1>0 DEF Fits
  <2>3. "entering" \in Stages
    BY DEF Stages
  <2> QED BY <1>0, <1>2, <2>1, <2>2, <2>3, Before, RewriteStep DEF Login
<1> QED BY <1>1, <1>2 DEF Login

\* The three places between login and exit where a window reloads and saves.
LEMMA PlainStep ==
  ASSUME RecordInv, NEW w \in Windows, NEW k \in {"enter", "flags", "bye"}, NEW s \in Stages,
         ~At(w, "out"), KeepPassword, UNCHANGED <<polite, ops>>,
         \/ Reload(w, k) /\ UNCHANGED stage
         \/ Rewrite(w, k, saving[w].copy, rec) /\ GoTo(w, s)
  PROVE  RecordInv'
<1>0. w \in Procs /\ k \in Guarded /\ k \notin Fresh /\ k # "delete"
  BY DEF Procs, Guarded, Fresh
<1>1. CASE Reload(w, k) /\ UNCHANGED stage
  BY <1>0, <1>1, Before, ReloadStep
<1>2. CASE Rewrite(w, k, saving[w].copy, rec) /\ GoTo(w, s)
  <2>1. saving[w].copy \in Record
    BY <1>0, InHand
  <2>2. Fits(k, saving[w].copy, rec) =>
          saving[w].copy.level = rec.level /\ saving[w].copy.posts = rec.posts
    BY <1>0 DEF Fits
  <2> QED BY <1>0, <1>2, <2>1, <2>2, Before, RewriteStep
<1> QED BY <1>1, <1>2

\* A window moves on, or is killed, without a save.
LEMMA MoveStep ==
  ASSUME RecordInv, NEW w \in Windows, NEW s \in Stages, GoTo(w, s), ~At(w, "out"),
         \E nice \in BOOLEAN : polite' = [polite EXCEPT ![w] = nice],
         saving' = saving \/ saving' = [saving EXCEPT ![w] = NoSave],
         KeepPassword, UNCHANGED <<rec, cur, ops, spoilt>>
  PROVE  RecordInv'
<1>1. w \in Procs
  BY DEF Procs
<1>2. Sound(stage', polite', cur')
  BY Before DEF Sound, GoTo
<1>3. alone => Knows(stage', cur', chosen)
  BY Before DEF Knows, GoTo, Sound, At
<1> QED BY <1>1, <1>2, <1>3, Before, DropStep

LEMMA LeaveStep ==
  ASSUME RecordInv, NEW w \in Windows, NEW nice \in BOOLEAN, Leave(w, nice), ~At(w, "out"),
         saving' = saving \/ saving' = [saving EXCEPT ![w] = NoSave]
  PROVE  RecordInv'
<1>1. "flags" \in Stages /\ "logout" \in Stages
  BY DEF Stages
<1>2. CASE GoTo(w, "flags")
  BY <1>1, <1>2, MoveStep DEF Leave
<1>3. CASE GoTo(w, "logout")
  BY <1>1, <1>3, MoveStep DEF Leave
<1> QED BY <1>2, <1>3 DEF Leave

LEMMA LogoutStep ==
  ASSUME RecordInv, NEW w \in Windows, Logout(w)
  PROVE  RecordInv'
<1>0. w \in Procs /\ "logout" \in Fresh /\ "logout" \notin Guarded
      /\ "logout" \in Kinds
  BY KindFacts DEF Procs, Fresh, Guarded
<1>1. CASE Begin(w, "logout", rec) /\ UNCHANGED <<rec, stage, spoilt>>
  BY <1>0, <1>1, Before, ReadStep DEF Logout
<1>2. CASE /\ Save(w, "logout", saving[w].copy, rec)
           /\ GoTo(w, IF polite[w] THEN "bye" ELSE "out")
  <2>1. saving[w].copy \in Record
    BY <1>0, InHand
  <2>2. Fits("logout", saving[w].copy, rec) => saving[w].copy = rec
    BY <1>0 DEF Fits
  <2>3. \E s \in Stages : GoTo(w, s)
    BY <1>2 DEF Stages
  <2>4. Sound(stage', polite', cur')
    BY <2>3, Before DEF Sound, GoTo, Logout
  <2>5. alone => Knows(stage', cur', chosen)
    BY <2>3, Before DEF Knows, GoTo, Sound, At, Logout
  <2>6. ops' \in 0..MaxOps /\ KeepPassword
    BY Before DEF Logout
  <2> QED BY <1>0, <1>2, <2>1, <2>2, <2>4, <2>5, <2>6, Before, SaveStep
<1> QED BY <1>1, <1>2 DEF Logout

LEMMA PostStep ==
  ASSUME RecordInv, NEW w \in Windows, At(w, "in"), UNCHANGED <<stage, polite>>, Post(w)
  PROVE  RecordInv'
<1>0. w \in Procs /\ "post" \in Guarded /\ "post" \notin Fresh /\ ~At(w, "out")
  BY DEF Procs, Guarded, Fresh, At
<1>1. CASE Reload(w, "post") /\ Count
  BY <1>0, <1>1, Counts, ReloadStep DEF Post
<1>2. CASE Rewrite(w, "post", More(saving[w].copy), More(rec)) /\ UNCHANGED ops
  <2>1. saving[w].copy \in Record
    BY <1>0, InHand
  <2>2. /\ More(saving[w].copy) \in Record /\ More(saving[w].copy).passwd = saving[w].copy.passwd
        /\ More(rec) \in Record
    BY <2>1, MoreType, Before
  <2>3. Fits("post", saving[w].copy, rec) =>
          /\ More(saving[w].copy).level = More(rec).level
          /\ More(saving[w].copy).posts = More(rec).posts
    BY <1>0, <2>1, Before DEF Fits, More, Record
  <2> QED BY <1>0, <1>2, <2>2, <2>3, Before, RewriteStep DEF Post
<1> QED BY <1>1, <1>2 DEF Post

LEMMA DeleteStep ==
  ASSUME RecordInv, NEW w \in Windows, At(w, "in"), UNCHANGED <<stage, polite>>, Delete(w)
  PROVE  RecordInv'
<1>0. /\ w \in Procs /\ "delete" \in Guarded /\ "delete" \notin Fresh /\ ~At(w, "out")
  BY DEF Procs, Guarded, Fresh, At
<1>1. CASE rec.posts > 0 /\ Reload(w, "delete") /\ Count
  BY <1>0, <1>1, Counts, ReloadStep DEF Delete
<1>2. CASE /\ Idle(w) /\ Count
           /\ cur' = [cur EXCEPT ![w] = SafeRecord(@)]
           /\ UNCHANGED <<rec, saving, spoilt>>
  <2>1. SafeRecord(cur[w]) \in Record /\ SafeRecord(cur[w]).passwd = cur[w].passwd
    BY Before, SafeType DEF Sound
  <2>2. Sound(stage', polite', cur')
    BY <1>2, <2>1, Before DEF Sound
  <2>3. alone => Knows(stage', cur', chosen)
    BY <1>0, <1>2, <2>1, Before DEF Knows, Sound, At
  <2> QED BY <1>0, <1>2, <2>2, <2>3, Counts, DropStep DEF Delete
<1>3. CASE Rewrite(w, "delete", Fewer(saving[w].copy), Fewer(rec)) /\ UNCHANGED ops
  <2>1. saving[w].copy \in Record
    BY <1>0, InHand
  <2>2. Fewer(saving[w].copy) \in Record /\ Fewer(saving[w].copy).passwd = saving[w].copy.passwd
    BY <2>1, FewerType
  <2>3. Fits("delete", saving[w].copy, rec) =>
          /\ Fewer(saving[w].copy).level = Fewer(rec).level
          /\ Fewer(saving[w].copy).posts = Fewer(rec).posts
    BY <1>0, <2>1, Before DEF Fits, Fewer, Record
  <2> QED BY <1>0, <1>3, <2>2, <2>3, RewriteStep DEF Delete
<1> QED BY <1>1, <1>2, <1>3 DEF Delete

LEMMA AnnounceStep ==
  ASSUME RecordInv, NEW w \in Windows, At(w, "in"), UNCHANGED <<stage, polite>>, Announce(w)
  PROVE  RecordInv'
<1>0. /\ w \in Procs /\ "announce" \in Guarded /\ "announce" \notin Fresh /\ ~At(w, "out")
  BY DEF Procs, Guarded, Fresh, At
<1> PICK o \in Options :
      \/ o \in cur[w].define /\ Reload(w, "announce") /\ Count
      \/ /\ Rewrite(w, "announce", [saving[w].copy EXCEPT !.define = @ \ {o}],
                    [rec EXCEPT !.define = @ \ {o}])
         /\ UNCHANGED ops
  BY DEF Announce
<1>1. CASE Reload(w, "announce") /\ Count
  BY <1>0, <1>1, Counts, ReloadStep DEF Announce
<1>2. CASE /\ Rewrite(w, "announce", [saving[w].copy EXCEPT !.define = @ \ {o}],
                       [rec EXCEPT !.define = @ \ {o}])
           /\ UNCHANGED ops
  <2> DEFINE new == [saving[w].copy EXCEPT !.define = @ \ {o}]
             want == [rec EXCEPT !.define = @ \ {o}]
  <2>1. new \in Record /\ new.passwd = saving[w].copy.passwd
    BY <1>0, InHand DEF Record
  <2>2. Fits("announce", saving[w].copy, rec) => new.level = want.level /\ new.posts = want.posts
    BY <1>0, InHand, Before DEF Fits, Record
  <2>3. Rewrite(w, "announce", new, want) /\ ops' = ops
    BY <1>2
  <2> HIDE DEF new, want
  <2> QED BY <1>0, <2>1, <2>2, <2>3, RewriteStep DEF Announce
<1> QED BY <1>1, <1>2

\* x_cloak saves at once; its kind may undo anything.
LEMMA CloakStep ==
  ASSUME RecordInv, NEW w \in Windows, At(w, "in"), UNCHANGED <<stage, polite>>, Cloak(w)
  PROVE  RecordInv'
<1>1. /\ saving \in [Procs -> JobType] /\ rec' = cur[w] /\ cur' = cur
      /\ saving' = [q \in Procs |->
                   [saving[q] EXCEPT !.raced = @ \/ (saving[q].kind # "none" /\ cur[w] # rec)]]
      /\ spoilt' = spoilt \cup {<<f, "cloak">> : f \in {g \in Fields : cur[w][g] # rec[g]}}
  BY Before DEF Cloak, Put
<1>2. cur[w] \in Record /\ (alone => cur[w].passwd = chosen)
  BY Before DEF Sound, Knows, At
<1>3. ASSUME NEW q \in Procs
      PROVE  /\ saving'[q] \in JobType
             /\ saving'[q].kind = saving[q].kind /\ saving'[q].copy = saving[q].copy
             /\ saving'[q].raced = (saving[q].raced \/ (saving[q].kind # "none" /\ cur[w] # rec))
  <2>1. saving[q] \in JobType
    BY <1>1
  <2>2. saving'[q] = [saving[q] EXCEPT !.raced = @ \/ (saving[q].kind # "none" /\ cur[w] # rec)]
    BY <1>1
  <2> QED BY <2>1, <2>2 DEF JobType
<1>4. saving' \in [Procs -> JobType]
  BY <1>1, <1>3
<1>5. spoilt' \subseteq Fields \X Causes /\ Blamed(spoilt')
  <2>1. "cloak" \in Causes /\ "cloak" \notin Fresh /\ "cloak" \notin Guarded
    BY DEF Causes, Kinds, Bare, Fresh, Guarded
  <2>2. spoilt \subseteq Fields \X Causes /\ Blamed(spoilt)
    BY DEF RecordInv, RecordTypeOK
  <2> QED BY <1>1, <1>2, <2>1, <2>2, PutBlames
<1>6. RecordTypeOK'
  <2>1. ops' \in 0..MaxOps
    BY Counts DEF Cloak
  <2> QED BY <1>1, <1>2, <1>4, <1>5, <2>1 DEF RecordTypeOK, RecordInv, Cloak, KeepPassword, JobType
<1>7. Current'
  <2> SUFFICES ASSUME NEW q \in Procs, ~Idle(q)', ~saving'[q].raced
               PROVE  Fits(saving'[q].kind, saving'[q].copy, rec')
    BY DEF Current
  <2>1. saving[q].kind # "none" /\ ~saving[q].raced /\ cur[w] = rec
    BY <1>3 DEF Idle
  <2>2. Fits(saving[q].kind, saving[q].copy, rec)
    BY <2>1 DEF RecordInv, Current, Idle
  <2> QED BY <2>1, <2>2, <1>1, <1>3
<1>8. Sticks'
  BY <1>1, <1>2, <1>3 DEF Sticks, RecordInv, Idle, At, Cloak, KeepPassword
<1> QED BY <1>5, <1>6, <1>7, <1>8 DEF RecordInv

LEMMA InfoStep ==
  ASSUME RecordInv, NEW w \in Windows, At(w, "in"), UNCHANGED <<stage, polite>>, Info(w)
  PROVE  RecordInv'
<1>0. /\ w \in Procs /\ "info" \in Kinds
      /\ "info" \notin Fresh /\ "info" \notin Guarded /\ ~At(w, "out")
  BY DEF Procs, Kinds, Bare, Fresh, Guarded, At
<1>1. CASE Begin(w, "info", cur[w]) /\ Count /\ KeepPassword /\ UNCHANGED <<rec, cur, spoilt>>
  <2>1. cur[w] \in Record /\ (alone => cur[w].passwd = chosen)
    BY <1>0, Before DEF Sound, Knows, At
  <2>2. Fits("info", cur[w], rec)
    BY <1>0 DEF Fits
  <2> QED BY <1>0, <1>1, <2>1, <2>2, Before, Counts, BeginStep
<1>2. CASE /\ Save(w, "info", Repass(saving[w].copy), Repass(rec))
           /\ cur' = [cur EXCEPT ![w] = Edited(w)]
           /\ SetPassword(w) /\ UNCHANGED ops
  <2>1. Repass(saving[w].copy) \in Record /\ Repass(saving[w].copy).passwd = chosen + 1
    BY <1>0, InHand, Before, RepassType
  <2>2. Edited(w) \in Record /\ Edited(w).passwd = chosen + 1
    BY <2>1, Before, SafeType DEF Edited
  <2>3. Sound(stage, polite, cur') /\ cur'[w].passwd = chosen + 1
    BY <1>2, <2>2, Before DEF Sound
  <2> QED BY <1>0, <1>2, <2>1, <2>3, Before, PasswordStep
<1> QED BY <1>1, <1>2 DEF Info

LEMMA UserDefineStep ==
  ASSUME RecordInv, NEW w \in Windows, At(w, "in"), UNCHANGED <<stage, polite>>, UserDefine(w)
  PROVE  RecordInv'
<1>0. /\ w \in Procs /\ "define" \in Fresh /\ "define" \in Kinds
      /\ "define" \notin Guarded /\ ~At(w, "out")
  BY KindFacts DEF Procs, Fresh, Guarded, At
<1>1. CASE Begin(w, "define", rec) /\ Count /\ UNCHANGED <<rec, cur, spoilt>>
  BY <1>0, <1>1, Counts, ReadStep DEF UserDefine
<1>2. ASSUME NEW o \in Options,
             /\ Save(w, "define", Switch(saving[w].copy, o), Switch(rec, o))
             /\ cur' = [cur EXCEPT ![w].define = Switch(saving[w].copy, o).define]
             /\ UNCHANGED ops
      PROVE  RecordInv'
  <2>1. /\ Switch(saving[w].copy, o) \in Record
        /\ Switch(saving[w].copy, o).passwd = saving[w].copy.passwd
    BY <1>0, InHand, SwitchType
  <2>2. /\ cur'[w] \in Record /\ cur'[w].passwd = cur[w].passwd
        /\ cur' \in [Windows -> Record] /\ \A v \in Windows \ {w} : cur'[v] = cur[v]
    <3>1. /\ cur \in [Windows -> Record]
          /\ cur' = [cur EXCEPT ![w] = [cur[w] EXCEPT !.define = Switch(saving[w].copy, o).define]]
      BY <1>2, Before DEF Sound
    <3>2. /\ [cur[w] EXCEPT !.define = Switch(saving[w].copy, o).define] \in Record
          /\ [cur[w] EXCEPT !.define = Switch(saving[w].copy, o).define].passwd = cur[w].passwd
      BY <2>1, <3>1 DEF Record
    <3> QED BY <3>1, <3>2
  <2>3. Sound(stage', polite', cur') /\ (alone => Knows(stage', cur', chosen))
    BY <2>2, Before DEF Sound, Knows
  <2>4. Fits("define", saving[w].copy, rec) => Switch(saving[w].copy, o) = Switch(rec, o)
    BY <1>0 DEF Fits
  <2> QED BY <1>0, <1>2, <2>1, <2>3, <2>4, Before, SaveStep DEF UserDefine
<1> QED BY <1>1, <1>2 DEF UserDefine

LEMMA CancelStep ==
  ASSUME RecordInv, NEW w \in Windows, At(w, "in"), UNCHANGED <<stage, polite>>, Cancel(w)
  PROVE  RecordInv'
<1>1. w \in Procs
  BY DEF Procs
<1> QED BY <1>1, Before, DropStep DEF Cancel

LEMMA WindowStep ==
  ASSUME RecordInv, NEW w \in Windows, InSession(w)
  PROVE  RecordInv'
  BY PostStep, DeleteStep, AnnounceStep, CloakStep, InfoStep, UserDefineStep, CancelStep
     DEF InSession
-----------------------------------------------------------------------------
\* A process that reads, works and writes: the password is not in it.
LEMMA OtherStep ==
  ASSUME RecordInv, NEW p \in Others, UNCHANGED <<cur, stage, polite>>,
         NEW k \in Fresh,
         \/ Read(p, k)
         \/ \E new \in Record, want \in Record :
              /\ Write(p, k, new, want) /\ new.passwd = saving[p].copy.passwd
              /\ saving[p].copy = rec => new = want
  PROVE  RecordInv'
<1>0. p \in Procs
  BY DEF Procs
<1>1. CASE Read(p, k)
  BY <1>0, <1>1, Counts, ReadStep DEF Read
<1>2. ASSUME NEW new \in Record, NEW want,
             Write(p, k, new, want), new.passwd = saving[p].copy.passwd,
             saving[p].copy = rec => new = want
      PROVE  RecordInv'
  BY <1>0, <1>2, WriteStep DEF Write
<1> QED BY <1>1, <1>2

LEMMA ServeStep ==
  ASSUME RecordInv, NEW p \in Others, Serve(p)
  PROVE  RecordInv'
<1>0. /\ p \in Procs /\ UNCHANGED <<cur, stage, polite>>
      /\ saving[p].copy \in Record /\ rec \in Record /\ ops \in 0..MaxOps
  BY InHand, Before DEF Procs, Serve
<1> DEFINE c == saving[p].copy
<1>1. CASE WebLogin(p)
  <2>1. "login" \in Fresh
    BY DEF Fresh
  <2> QED BY <1>0, <1>1, <2>1, OtherStep DEF WebLogin
<1>2. CASE WebLogout(p)
  <2>1. "logout" \in Fresh
    BY DEF Fresh
  <2> QED BY <1>0, <1>2, <2>1, OtherStep DEF WebLogout
<1>3. CASE WebPost(p)
  <2>1. "webpost" \in Fresh
    BY DEF Fresh
  <2>2. More(c) \in Record /\ More(c).passwd = c.passwd /\ More(rec) \in Record
    BY <1>0, MoreType
  <2> QED BY <1>0, <1>3, <2>1, <2>2, OtherStep DEF WebPost
<1>4. ASSUME NEW k \in {"webdel", "purge"},
             \/ Read(p, k)
             \/ Write(p, k, Fewer(c), Fewer(rec))
      PROVE  RecordInv'
  <2>1. k \in Fresh
    BY DEF Fresh
  <2>2. Fewer(c) \in Record /\ Fewer(c).passwd = c.passwd /\ Fewer(rec) \in Record
    BY <1>0, FewerType
  <2> QED BY <1>0, <1>4, <2>1, <2>2, OtherStep
<1>5. CASE WebDelete(p)
  BY <1>4, <1>5 DEF WebDelete
<1>6. ASSUME NEW k \in {"password", "reset"},
             \/ Read(p, k)
             \/ Save(p, k, Repass(c), Repass(rec)) /\ SetPassword(p) /\ UNCHANGED ops
      PROVE  RecordInv'
  <2>1. k \in Fresh /\ k \in Kinds /\ k \notin Guarded
    BY KindFacts DEF Fresh, Guarded
  <2>2. CASE Read(p, k)
    BY <1>0, <2>1, <2>2, OtherStep
  <2>3. CASE Save(p, k, Repass(c), Repass(rec)) /\ SetPassword(p) /\ UNCHANGED ops
    <3>1. Repass(c) \in Record /\ Repass(c).passwd = chosen + 1
      BY <1>0, Before, RepassType
    <3>2. p \notin Windows
      BY UserRecordAssumption
    <3>3. Fits(k, c, rec) => Repass(c) = Repass(rec)
      BY <2>1 DEF Fits
    <3> QED BY <1>0, <2>1, <2>3, <3>1, <3>2, <3>3, Before, PasswordStep
  <2> QED BY <1>6, <2>2, <2>3
<1>7. CASE ChangePassword(p) \/ ResetPassword(p)
  BY <1>6, <1>7 DEF ChangePassword, ResetPassword
<1>8. CASE Parm(p)
  <2>1. "parm" \in Fresh
    BY DEF Fresh
  <2>2. ASSUME NEW d \in SUBSET Options
        PROVE  /\ [c EXCEPT !.define = d] \in Record /\ [c EXCEPT !.define = d].passwd = c.passwd
               /\ [rec EXCEPT !.define = d] \in Record
    BY <1>0 DEF Record
  <2>3. CASE Read(p, "parm")
    BY <1>0, <2>1, <2>3, OtherStep
  <2>4. ASSUME NEW d \in SUBSET Options,
               Write(p, "parm", [c EXCEPT !.define = d], [rec EXCEPT !.define = d])
        PROVE  RecordInv'
    BY <1>0, <2>1, <2>2, <2>4, OtherStep
  <2> QED BY <1>8, <2>3, <2>4 DEF Parm
<1>9. CASE ModifyLevel(p)
  <2>1. "level" \in Fresh
    BY DEF Fresh
  <2>2. CASE Read(p, "level")
    BY <1>0, <2>1, <2>2, OtherStep
  <2>3. ASSUME NEW b \in Perms, Write(p, "level", Flip(c, b), Flip(rec, b))
        PROVE  RecordInv'
    <3>1. Flip(c, b) \in Record /\ Flip(c, b).passwd = c.passwd /\ Flip(rec, b) \in Record
      BY <1>0, FlipType
    <3> QED BY <1>0, <2>1, <2>3, <3>1, OtherStep
  <2> QED BY <1>9, <2>2, <2>3 DEF ModifyLevel
<1>10. CASE Purge(p)
  BY <1>4, <1>10 DEF Purge
<1>11. CASE GiveUp(p)
  BY <1>0, <1>11, Before, DropStep DEF GiveUp
<1> QED BY <1>1, <1>2, <1>3, <1>5, <1>7, <1>8, <1>9, <1>10, <1>11 DEF Serve
-----------------------------------------------------------------------------
(* The invariant and the theorems *)

LEMMA InitRecordInv == RecordInit => RecordInv
<1> SUFFICES ASSUME RecordInit PROVE RecordInv
  OBVIOUS
<1>1. /\ rec = NewRecord /\ chosen = 0 /\ ops = 0 /\ spoilt = {} /\ alone = TRUE
      /\ saving = [p \in Procs |-> NoSave] /\ cur = [w \in Windows |-> NewRecord]
      /\ stage = [w \in Windows |-> "out"] /\ polite = [w \in Windows |-> FALSE]
  BY DEF RecordInit
<1>2. RecordTypeOK
  <2>1. saving \in [Procs -> JobType]
    BY <1>1, NoSaveType
  <2>2. rec \in Record /\ cur \in [Windows -> Record]
    BY <1>1, NewRecordType
  <2>3. stage \in [Windows -> Stages] /\ polite \in [Windows -> BOOLEAN]
    BY <1>1 DEF Stages
  <2> QED BY <1>1, <2>1, <2>2, <2>3, UserRecordAssumption DEF RecordTypeOK, JobType
<1>3. \A p \in Procs : Idle(p)
  BY <1>1, NoSaveType DEF Idle
<1>4. Current /\ Blamed(spoilt)
  BY <1>1, <1>3 DEF Current, Blamed, Idle
<1>5. Sticks
  <2>1. rec.passwd = chosen
    BY <1>1 DEF NewRecord
  <2>2. \A w \in Windows : At(w, "out")
    BY <1>1 DEF At
  <2> QED BY <1>3, <2>1, <2>2 DEF Sticks
<1> QED BY <1>2, <1>4, <1>5 DEF RecordInv

LEMMA NextRecordInv == RecordInv /\ [RecordNext]_recordVars => RecordInv'
<1> SUFFICES ASSUME RecordInv, [RecordNext]_recordVars PROVE RecordInv'
  OBVIOUS
<1>1. ASSUME NEW w \in Windows, Login(w) PROVE RecordInv'
  BY <1>1, LoginStep
<1>2. ASSUME NEW w \in Windows, Enter(w) PROVE RecordInv'
  <2>1. "in" \in Stages /\ ~At(w, "out")
    BY <1>2 DEF Stages, Enter, At
  <2> QED BY <1>2, <2>1, PlainStep DEF Enter
<1>3. ASSUME NEW w \in Windows, TurnAway(w) PROVE RecordInv'
  <2>1. "logout" \in Stages /\ ~At(w, "out")
    BY <1>3 DEF Stages, TurnAway, At
  <2> QED BY <1>3, <2>1, MoveStep DEF TurnAway
<1>4. ASSUME NEW w \in Windows, InSession(w) PROVE RecordInv'
  BY <1>4, WindowStep
<1>5. ASSUME NEW w \in Windows, Quit(w) PROVE RecordInv'
  BY <1>5, LeaveStep DEF Quit, At
<1>6. ASSUME NEW w \in Windows, Abort(w) PROVE RecordInv'
  BY <1>6, LeaveStep DEF Abort, At
<1>7. ASSUME NEW w \in Windows, Flags(w) PROVE RecordInv'
  <2>1. "logout" \in Stages /\ ~At(w, "out")
    BY <1>7 DEF Stages, Flags, At
  <2> QED BY <1>7, <2>1, PlainStep DEF Flags
<1>8. ASSUME NEW w \in Windows, Logout(w) PROVE RecordInv'
  BY <1>8, LogoutStep
<1>9. ASSUME NEW w \in Windows, Bye(w) PROVE RecordInv'
  <2>1. "out" \in Stages /\ ~At(w, "out")
    BY <1>9 DEF Stages, Bye, At
  <2> QED BY <1>9, <2>1, PlainStep DEF Bye
<1>10. ASSUME NEW w \in Windows, Kill(w) PROVE RecordInv'
  <2>1. "out" \in Stages /\ w \in Procs /\ ~At(w, "out")
    BY <1>10 DEF Stages, Kill, At, Procs
  <2>2. Sound(stage', polite', cur') /\ (alone => Knows(stage', cur', chosen))
    BY <1>10, <2>1, Before DEF Kill, GoTo, Sound, Knows
  <2> QED BY <1>10, <2>1, <2>2, Before, DropStep DEF Kill
<1>11. ASSUME NEW p \in Others, Serve(p) PROVE RecordInv'
  BY <1>11, ServeStep
<1>12. ASSUME UNCHANGED recordVars PROVE RecordInv'
  BY <1>12 DEF recordVars, RecordInv, RecordTypeOK, Current, Blamed, Sticks, Idle, At
<1> QED BY <1>1, <1>2, <1>3, <1>4, <1>5, <1>6, <1>7, <1>8, <1>9, <1>10, <1>11, <1>12
     DEF RecordNext, Rest

\* Permissions and counts survive every save that follows set_safe_record or a
\* reading of the file, and passwords and options every save that follows a
\* reading, unless somebody saves in between.
THEOREM OnlyStale == RecordSpec => []OnlyStaleSavesUndo
<1>1. RecordInv => OnlyStaleSavesUndo
  BY DEF RecordInv, OnlyStaleSavesUndo, Blamed
<1> QED BY <1>1, InitRecordInv, NextRecordInv, PTL DEF RecordSpec

\* A password that was set while nobody else had a copy of the record stays:
\* set_safe_record never reloads it, but every copy that is made from then on
\* has the new one.
THEOREM PasswordStays == RecordSpec => []PasswordSticks
<1>1. RecordInv => PasswordSticks
  BY DEF RecordInv, PasswordSticks, Sticks
<1> QED BY <1>1, InitRecordInv, NextRecordInv, PTL DEF RecordSpec
=============================================================================
