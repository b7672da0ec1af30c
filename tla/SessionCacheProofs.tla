------------------------- MODULE SessionCacheProofs -------------------------
(***************************************************************************)
(* Proofs about SessionCache for any users, slots, rows, bounds and Redis  *)
(* behaviour: type correctness, the exactness of the index that ties the   *)
(* user rows to the utmp array, whose a slot and a key are, and that the   *)
(* cache implements Sessions.  The last part is about SessionSteps, where  *)
(* the same operations are taken apart, for any workers: the lock of       *)
(* utmp_insert is held exactly by the worker inside it, and with it the    *)
(* claimed slot stays the worker's own, and no session falls out of its    *)
(* user's row except in the hands of a worker.                             *)
(***************************************************************************)
EXTENDS SessionCache, SessionSteps, FiniteSetTheorems, TLAPS

Rows == [Users -> [Positions -> Slots \cup {0}]]

\* The three parts of IndexExact, of any table ut, rows rw and processes pr.
Sound(ut, rw) ==
  \A u \in Users, p \in Positions :
    rw[u][p] # 0 => ut[rw[u][p]].active /\ ut[rw[u][p]].uid = u

Unique(rw) ==
  \A u \in Users, p, q \in Positions :
    rw[u][p] # 0 /\ rw[u][p] = rw[u][q] => p = q

Kept(ut, pr, i) ==
  ut[i].pid = WebPid \/ \E p \in Pids : ut[i].pid = p /\ pr[p].slot = i

Complete(ut, rw, pr) ==
  \A i \in Slots : ut[i].active /\ Kept(ut, pr, i)
                     => \E p \in Positions : rw[ut[i].uid][p] = i

\* An active entry has an owner and a pid: only free slots are claimed.
Owned(ut) == \A i \in Slots : ut[i].active => ut[i].uid \in Users /\ ut[i].pid # 0

Exact(ut, rw, pr) == Sound(ut, rw) /\ Unique(rw) /\ Complete(ut, rw, pr)

IInv == /\ TypeOK
        /\ Owned(utmp)
        /\ "overrun" \notin broken => Exact(utmp, rows, proc)

-----------------------------------------------------------------------------
\* Types of the entries and rows the operations build.
LEMMA ZeroType == Zero \in Entries
  BY DEF Zero, Entries, NoUser

LEMMA NewEntryType ==
  ASSUME NEW u \in Users, NEW pid \in Pids \cup {WebPid}, NEW s \in Nat, NEW t \in Nat
  PROVE  /\ NewEntry(u, pid, s, t) \in Entries
         /\ NewEntry(u, pid, s, t).active
         /\ NewEntry(u, pid, s, t).uid = u
         /\ NewEntry(u, pid, s, t).pid = pid
  BY DEF NewEntry, Entries

\* A position found by add_utmp_idx lies in the segment of the login type.
LEMMA LandingInSegment ==
  ASSUME NEW ut, NEW row, NEW u, NEW j, NEW seg, NEW time,
         NEW p \in Landing(ut, row, u, j, seg, time)
  PROVE  p \in seg
  BY DEF Landing

LEMMA SegmentPositions ==
  ASSUME NEW t \in Types, NEW p \in Segment[t]
  PROVE  p \in Positions
  BY DEF Positions

\* A claimed slot is free, and recorded where it is, unless the table is full.
LEMMA ClaimsType ==
  ASSUME NEW ut \in [Slots -> Entries], NEW h \in Homes, NEW c \in Claims(ut, h)
  PROVE  /\ c.entry \in Slots /\ c.index \in Slots
         /\ c.entry = c.index => c.entry \in Free(ut)
  <1>1. CASE Free(ut) # {}
    BY <1>1 DEF Claims, FirstFree, Free
  <1>2. CASE Free(ut) = {}
    <2>1. h # 1 /\ c = [entry |-> h - 1, index |-> h]
      BY <1>2 DEF Claims
    <2>2. h \in 1 .. NSlots /\ NSlots \in Nat
      BY TableAssumption DEF Slots
    <2> QED
      BY <2>1, <2>2 DEF Slots
  <1> QED BY <1>1, <1>2

LEMMA SweptTypes ==
  ASSUME NEW ut \in [Slots -> Entries], NEW rw \in Rows, NEW D \in SUBSET Slots
  PROVE  /\ SweptTable(ut, D) \in [Slots -> Entries]
         /\ [u \in Users |-> SweptRow(rw[u], u, ut, D)] \in Rows
  <1>1. SweptTable(ut, D) \in [Slots -> Entries]
    BY ZeroType DEF SweptTable
  <1>2. ASSUME NEW u \in Users
        PROVE  SweptRow(rw[u], u, ut, D) \in [Positions -> Slots \cup {0}]
    BY DEF SweptRow, Rows
  <1> QED BY <1>1, <1>2 DEF Rows

LEMMA UnindexType ==
  ASSUME NEW rw \in Rows, NEW u \in Users, NEW i \in Slots
  PROVE  [rw EXCEPT ![u] = Unindex(rw[u], i)] \in Rows
  <1>1. Unindex(rw[u], i) \in [Positions -> Slots \cup {0}]
    BY DEF Unindex, Rows
  <1> QED BY <1>1 DEF Rows

-----------------------------------------------------------------------------
\* The sweep keeps the index exact, whatever it clears.
LEMMA SweepExact ==
  ASSUME NEW ut \in [Slots -> Entries], NEW rw \in Rows, NEW pr,
         NEW D \in SUBSET Slots, Exact(ut, rw, pr), Owned(ut)
  PROVE  /\ Exact(SweptTable(ut, D), [u \in Users |-> SweptRow(rw[u], u, ut, D)], pr)
         /\ Owned(SweptTable(ut, D))
  <1> DEFINE ut2 == SweptTable(ut, D)
             rw2 == [u \in Users |-> SweptRow(rw[u], u, ut, D)]
  <1>1. \A i \in Slots : ut2[i] = IF i \in D THEN Zero ELSE ut[i]
    BY DEF SweptTable
  <1>2. ASSUME NEW u \in Users, NEW p \in Positions
        PROVE  rw2[u][p] = IF rw[u][p] \in D THEN 0 ELSE rw[u][p]
    <2>0. 0 \notin Slots
      BY TableAssumption DEF Slots
    <2>1. \A q \in Positions : q \in Nat
      BY TableAssumption DEF Positions
    <2>2. rw2[u][p] = IF /\ rw[u][p] \in D /\ ut[rw[u][p]].uid = u
                         /\ \A q \in Positions : q < p => rw[u][q] # rw[u][p]
                      THEN 0 ELSE rw[u][p]
      BY DEF SweptRow
    <2>3. CASE rw[u][p] \in D
      <3>1. rw[u][p] # 0
        BY <2>0, <2>3
      <3>2. ut[rw[u][p]].uid = u
        BY <3>1 DEF Exact, Sound
      <3>3. \A q \in Positions : q < p => rw[u][q] # rw[u][p]
        BY <2>1, <3>1 DEF Exact, Unique
      <3> QED BY <2>2, <2>3, <3>2, <3>3
    <2> QED BY <2>2, <2>3
  <1>3. Sound(ut2, rw2)
    <2> SUFFICES ASSUME NEW u \in Users, NEW p \in Positions, rw2[u][p] # 0
                 PROVE  ut2[rw2[u][p]].active /\ ut2[rw2[u][p]].uid = u
      BY DEF Sound
    <2>1. rw2[u][p] = rw[u][p] /\ rw[u][p] \notin D /\ rw[u][p] \in Slots
      BY <1>2 DEF Rows
    <2>2. ut[rw[u][p]].active /\ ut[rw[u][p]].uid = u
      BY <2>1 DEF Exact, Sound
    <2> HIDE DEF ut2, rw2
    <2> QED BY <1>1, <2>1, <2>2
  <1>4. Unique(rw2)
    BY <1>2 DEF Exact, Unique
  <1>5. ASSUME NEW i \in Slots, ut2[i].active
        PROVE  i \notin D /\ ut2[i] = ut[i] /\ ut[i].active
    BY <1>1, <1>5 DEF Zero
  <1>6. Complete(ut2, rw2, pr)
    <2> SUFFICES ASSUME NEW i \in Slots, ut2[i].active, Kept(ut2, pr, i)
                 PROVE  \E p \in Positions : rw2[ut2[i].uid][p] = i
      BY DEF Complete
    <2>1. i \notin D /\ ut2[i] = ut[i] /\ ut[i].active
      BY <1>5
    <2>2. ut[i].uid \in Users
      BY <2>1 DEF Owned
    <2>3. PICK p \in Positions : rw[ut[i].uid][p] = i
      BY <2>1 DEF Exact, Complete, Kept
    <2>4. rw2[ut[i].uid][p] = i
      BY <1>2, <2>1, <2>2, <2>3
    <2> QED BY <2>1, <2>4
  <1>7. Owned(ut2)
    BY <1>5 DEF Owned
  <1> QED BY <1>3, <1>4, <1>6, <1>7 DEF Exact

\* utmp_remove keeps the index exact.
LEMMA RemoveExact ==
  ASSUME NEW ut \in [Slots -> Entries], NEW rw \in Rows, NEW pr,
         NEW i \in Slots, ut[i].active, Exact(ut, rw, pr), Owned(ut)
  PROVE  Exact([ut EXCEPT ![i] = Zero],
               [rw EXCEPT ![ut[i].uid] = Unindex(rw[ut[i].uid], i)], pr)
  <1> DEFINE ut2 == [ut EXCEPT ![i] = Zero]
             rw2 == [rw EXCEPT ![ut[i].uid] = Unindex(rw[ut[i].uid], i)]
  <1>0. ut[i].uid \in Users
    BY DEF Owned
  <1>1. \A k \in Slots : ut2[k] = IF k = i THEN Zero ELSE ut[k]
    OBVIOUS
  <1>2. ASSUME NEW u \in Users, NEW p \in Positions
        PROVE  rw2[u][p] = IF rw[u][p] = i THEN 0 ELSE rw[u][p]
    <2>0. i # 0
      BY TableAssumption DEF Slots
    <2>1. \A q \in Positions : q \in Nat
      BY TableAssumption DEF Positions
    <2>2. CASE u = ut[i].uid
      <3>1. rw2[u][p] = IF rw[u][p] = i /\ \A q \in Positions : q < p => rw[u][q] # i
                          THEN 0 ELSE rw[u][p]
        BY <2>2, <1>0 DEF Unindex, Rows
      <3>2. rw[u][p] = i => \A q \in Positions : q < p => rw[u][q] # i
        BY <2>0, <2>1 DEF Exact, Unique
      <3> QED BY <3>1, <3>2
    <2>3. CASE u # ut[i].uid
      <3>1. rw2[u] = rw[u]
        BY <2>3 DEF Rows
      <3>2. rw[u][p] # i
        BY <2>0, <2>3 DEF Exact, Sound
      <3> QED BY <3>1, <3>2
    <2> QED BY <2>2, <2>3
  <1>3. Sound(ut2, rw2)
    <2> SUFFICES ASSUME NEW u \in Users, NEW p \in Positions, rw2[u][p] # 0
                 PROVE  ut2[rw2[u][p]].active /\ ut2[rw2[u][p]].uid = u
      BY DEF Sound
    <2>1. rw2[u][p] = rw[u][p] /\ rw[u][p] # i /\ rw[u][p] \in Slots
      BY <1>2 DEF Rows
    <2>2. ut[rw[u][p]].active /\ ut[rw[u][p]].uid = u
      BY <2>1 DEF Exact, Sound
    <2> HIDE DEF ut2, rw2
    <2> QED BY <1>1, <2>1, <2>2
  <1>4. Unique(rw2)
    BY <1>2 DEF Exact, Unique
  <1>5. Complete(ut2, rw2, pr)
    <2> SUFFICES ASSUME NEW k \in Slots, ut2[k].active, Kept(ut2, pr, k)
                 PROVE  \E p \in Positions : rw2[ut2[k].uid][p] = k
      BY DEF Complete
    <2>1. k # i /\ ut2[k] = ut[k] /\ ut[k].active
      BY <1>1 DEF Zero
    <2>2. ut[k].uid \in Users
      BY <2>1 DEF Owned
    <2>3. PICK p \in Positions : rw[ut[k].uid][p] = k
      BY <2>1 DEF Exact, Complete, Kept
    <2>4. rw2[ut[k].uid][p] = k
      BY <1>2, <2>1, <2>2, <2>3
    <2> QED BY <2>1, <2>4
  <1> QED BY <1>3, <1>4, <1>5 DEF Exact

\* A free slot is in no row.
LEMMA FreeUnindexed ==
  ASSUME NEW ut \in [Slots -> Entries], NEW rw \in Rows, Sound(ut, rw), Owned(ut),
         NEW j \in Free(ut), NEW u \in Users, NEW p \in Positions
  PROVE  rw[u][p] # j
  <1>1. j \in Slots /\ j # 0
    BY TableAssumption DEF Free, Slots
  <1>2. ~ut[j].active \/ ut[j].pid = 0
    BY DEF Free
  <1> QED BY <1>1, <1>2 DEF Sound, Owned

\* A new session placed in a free slot, at any position of its user's row,
\* keeps the index exact: the session that held the position is put out.
LEMMA PlaceExact ==
  ASSUME NEW ut \in [Slots -> Entries], NEW rw \in Rows, NEW pr,
         Exact(ut, rw, pr), Owned(ut),
         NEW j \in Free(ut), NEW u \in Users, NEW pid \in Pids \cup {WebPid},
         NEW sid \in Nat, NEW time \in Nat, NEW p \in Positions,
         NEW pr2,
         \A k \in Slots \ {j} : \A e : Kept([ut EXCEPT ![j] = e], pr2, k) => Kept(ut, pr, k)
  PROVE  LET copied == [ut EXCEPT ![j] = NewEntry(u, pid, sid, time)]
             out    == Evicted(copied, rw[u], u, j, p)
             parted == IF out = 0 THEN copied ELSE [copied EXCEPT ![out].active = FALSE]
         IN  /\ parted \in [Slots -> Entries]
             /\ Exact(parted, [rw EXCEPT ![u][p] = j], pr2)
             /\ Owned(parted)
  <1> DEFINE new    == NewEntry(u, pid, sid, time)
             copied == [ut EXCEPT ![j] = new]
             out    == Evicted(copied, rw[u], u, j, p)
             parted == IF out = 0 THEN copied ELSE [copied EXCEPT ![out].active = FALSE]
             rw2    == [rw EXCEPT ![u][p] = j]
  <1>1. j \in Slots /\ j # 0 /\ 0 \notin Slots
    BY TableAssumption DEF Free, Slots
  <1>2. new \in Entries /\ new.active /\ new.uid = u /\ new.pid = pid /\ pid # 0
    BY NewEntryType, TableAssumption DEF WebPid
  <1>3. \A v \in Users, q \in Positions : rw[v][q] # j
    BY FreeUnindexed DEF Exact
  <1>4. copied \in [Slots -> Entries] /\ \A k \in Slots : copied[k] = IF k = j THEN new ELSE ut[k]
    BY <1>1, <1>2
  <1> HIDE DEF new, copied
  <1>5. \A v \in Users, q \in Positions :
          rw2[v][q] = IF v = u /\ q = p THEN j ELSE rw[v][q]
    BY DEF Rows
  <1>6. rw[u][p] \in Slots \cup {0}
    BY DEF Rows
  <1>7. out = rw[u][p]
    <2>1. CASE rw[u][p] = 0
      BY <2>1 DEF Evicted, Vacant
    <2>2. CASE rw[u][p] # 0
      <3>1. rw[u][p] \in Slots /\ rw[u][p] # j
        BY <1>3, <1>6, <2>2
      <3>2. ut[rw[u][p]].active /\ ut[rw[u][p]].uid = u
        BY <2>2 DEF Exact, Sound
      <3>3. ~Vacant(copied, rw[u], u, p)
        BY <1>4, <2>2, <3>1, <3>2 DEF Vacant
      <3> QED BY <3>1, <3>3 DEF Evicted
    <2> QED BY <2>1, <2>2
  <1> HIDE DEF out
  <1>8. /\ parted \in [Slots -> Entries]
        /\ \A k \in Slots : /\ parted[k].uid = copied[k].uid
                            /\ parted[k].pid = copied[k].pid
                            /\ parted[k].active <=> (copied[k].active /\ k # out)
    <2>1. CASE out = 0
      BY <2>1, <1>1, <1>4 DEF Entries
    <2>2. CASE out # 0
      <3>1. out \in Slots
        BY <1>6, <1>7, <2>2
      <3>2. parted = [copied EXCEPT ![out].active = FALSE]
        BY <2>2
      <3> HIDE DEF parted
      <3>3. \A k \in Slots : parted[k] = IF k = out THEN [copied[out] EXCEPT !.active = FALSE]
                                                    ELSE copied[k]
        BY <3>1, <3>2, <1>4
      <3>4. copied[out] \in Entries
        BY <3>1, <1>4
      <3>5. [copied[out] EXCEPT !.active = FALSE] \in Entries
        BY <3>4 DEF Entries
      <3>6. /\ [copied[out] EXCEPT !.active = FALSE].uid = copied[out].uid
            /\ [copied[out] EXCEPT !.active = FALSE].pid = copied[out].pid
            /\ ~[copied[out] EXCEPT !.active = FALSE].active
        BY <3>4 DEF Entries
      <3>7. parted \in [Slots -> Entries]
        BY <3>1, <3>2, <3>5, <1>4
      <3> QED BY <3>3, <3>6, <3>7
    <2> QED BY <2>1, <2>2
  <1> HIDE DEF parted, rw2
  <1>9. Sound(parted, rw2)
    <2> SUFFICES ASSUME NEW v \in Users, NEW q \in Positions, rw2[v][q] # 0
                 PROVE  parted[rw2[v][q]].active /\ parted[rw2[v][q]].uid = v
      BY DEF Sound
    <2>1. CASE v = u /\ q = p
      <3>1. rw2[v][q] = j /\ j # out
        BY <1>3, <1>5, <1>7, <2>1
      <3> QED BY <3>1, <1>1, <1>2, <1>4, <1>8, <2>1
    <2>2. CASE ~(v = u /\ q = p)
      <3>1. rw2[v][q] = rw[v][q] /\ rw[v][q] \in Slots /\ rw[v][q] # j
        BY <1>3, <1>5, <2>2 DEF Rows
      <3>2. ut[rw[v][q]].active /\ ut[rw[v][q]].uid = v
        BY <3>1, <1>1 DEF Exact, Sound
      <3>3. rw[v][q] # out
        <4>1. CASE rw[v][q] = rw[u][p]
          <5>1. v = u
            BY <4>1, <3>1, <3>2, <1>1 DEF Exact, Sound
          <5>2. q = p
            BY <5>1, <4>1, <3>1, <1>1 DEF Exact, Unique
          <5> QED BY <5>1, <5>2, <2>2
        <4> QED BY <4>1, <1>7
      <3> QED BY <3>1, <3>2, <3>3, <1>4, <1>8
    <2> QED BY <2>1, <2>2
  <1>10. Unique(rw2)
    BY <1>3, <1>5 DEF Exact, Unique
  <1>11. Owned(parted)
    BY <1>2, <1>4, <1>8 DEF Owned
  <1>12. Complete(parted, rw2, pr2)
    <2> SUFFICES ASSUME NEW k \in Slots, parted[k].active, Kept(parted, pr2, k)
                 PROVE  \E q \in Positions : rw2[parted[k].uid][q] = k
      BY DEF Complete
    <2>1. CASE k = j
      <3>1. parted[k].uid = u
        BY <2>1, <1>1, <1>2, <1>4, <1>8
      <3> QED BY <3>1, <2>1, <1>5
    <2>2. CASE k # j
      <3>1. ut[k].active /\ parted[k].uid = ut[k].uid /\ k # out
        BY <2>2, <1>4, <1>8
      <3>2. Kept(copied, pr2, k)
        BY <1>8 DEF Kept
      <3>3. Kept(ut, pr, k)
        BY <3>2, <2>2 DEF copied
      <3>4. ut[k].uid \in Users
        BY <3>1 DEF Owned
      <3>5. PICK q \in Positions : rw[ut[k].uid][q] = k
        BY <3>1, <3>3 DEF Exact, Complete
      <3>6. ~(ut[k].uid = u /\ q = p)
        BY <3>1, <3>5, <1>7
      <3>7. rw2[ut[k].uid][q] = k
        BY <3>4, <3>5, <3>6, <1>5
      <3> QED BY <3>1, <3>7
    <2> QED BY <2>1, <2>2
  <1> QED BY <1>8, <1>9, <1>10, <1>11, <1>12 DEF Exact, parted, out, copied, new, rw2

-----------------------------------------------------------------------------
Keys == [sid : Nat, user : Users, slot : Slots, born : Nat]
Procs == [uid : Users \cup {NoUser}, slot : Slots \cup {0}, sid : Nat]

\* What the sweep may do to tables, rows and keys handed to it.
LEMMA SweepStep ==
  ASSUME TypeOK,
         NEW ut \in [Slots -> Entries], NEW rw \in Rows, NEW ks \in SUBSET Keys,
         NEW up, NEW alive, Sweep(ut, rw, ks, up, alive)
  PROVE  /\ utmp' \in [Slots -> Entries] /\ rows' \in Rows
         /\ keys' \in SUBSET Keys /\ uptime' \in Nat
         /\ \A pr : Exact(ut, rw, pr) /\ Owned(ut) => Exact(utmp', rows', pr)
         /\ Owned(ut) => Owned(utmp')
  <1>1. CASE now > uptime + SweepPeriod
    <2> DEFINE due == {i \in Slots : Doomed(ut[i], now, alive)}
               web == {ut[i].sid : i \in {j \in due : ut[j].pid = WebPid}}
    <2>1. /\ utmp' = SweptTable(ut, due)
          /\ rows' = [u \in Users |-> SweptRow(rw[u], u, ut, due)]
          /\ keys' = IF up THEN WithoutKeys(ks, web) ELSE ks
          /\ uptime' = now
      BY <1>1 DEF Sweep
    <2>2. due \in SUBSET Slots
      OBVIOUS
    <2> HIDE DEF due, web
    <2>3. utmp' \in [Slots -> Entries] /\ rows' \in Rows
      BY <2>1, <2>2, SweptTypes
    <2>4. keys' \in SUBSET Keys /\ uptime' \in Nat
      BY <2>1 DEF WithoutKeys, TypeOK
    <2>5. ASSUME NEW pr, Exact(ut, rw, pr), Owned(ut) PROVE Exact(utmp', rows', pr)
      BY <2>1, <2>2, <2>5, SweepExact
    <2>6. ASSUME Owned(ut) PROVE Owned(utmp')
      BY <2>1, <2>2, <2>6, ZeroType DEF Owned, SweptTable, Zero
    <2> QED BY <2>3, <2>4, <2>5, <2>6
  <1>2. CASE ~(now > uptime + SweepPeriod)
    <2>1. utmp' = ut /\ rows' = rw /\ keys' = ks /\ uptime' = uptime
      BY <1>2 DEF Sweep
    <2> QED BY <2>1 DEF TypeOK
  <1> QED BY <1>1, <1>2

LEMMA AnswerType ==
  ASSUME TypeOK, NEW u \in Users, NEW pid \in Pids \cup {WebPid}, NEW sid \in Nat,
         NEW slot \in Slots \cup {0}, Answer(u, pid, sid, slot)
  PROVE  /\ proc' \in [Pids -> Procs] /\ cookies' \subseteq [sid : Nat, user : Users]
         /\ proc' = IF pid = WebPid THEN proc
                    ELSE [proc EXCEPT ![pid] = [uid |-> u, slot |-> slot, sid |-> sid]]
  <1>1. CASE pid = WebPid
    BY <1>1 DEF Answer, TypeOK, Procs
  <1>2. CASE pid # WebPid
    BY <1>2 DEF Answer, TypeOK, Procs
  <1> QED BY <1>1, <1>2

LEMMA AnswerSlot ==
  ASSUME TypeOK, NEW u \in Users, NEW pid \in Pids \cup {WebPid}, NEW sid \in Nat,
         NEW slot \in Slots \cup {0}, Answer(u, pid, sid, slot),
         NEW p \in Pids, proc'[p].slot # slot
  PROVE  proc'[p].slot = proc[p].slot
  <1>1. proc' = IF pid = WebPid THEN proc
                ELSE [proc EXCEPT ![pid] = [uid |-> u, slot |-> slot, sid |-> sid]]
    BY AnswerType
  <1>2. CASE pid = WebPid
    BY <1>1, <1>2
  <1>3. CASE pid # WebPid
    BY <1>1, <1>3 DEF TypeOK
  <1> QED BY <1>2, <1>3

\* Other slots are kept by the same processes after a login.
LEMMA AnswerKeeps ==
  ASSUME TypeOK, NEW u \in Users, NEW pid \in Pids \cup {WebPid}, NEW sid \in Nat,
         NEW slot \in Slots \cup {0}, Answer(u, pid, sid, slot),
         NEW j \in Slots, slot \in {0, j},
         NEW k \in Slots \ {j}, NEW e, Kept([utmp EXCEPT ![j] = e], proc', k)
  PROVE  Kept(utmp, proc, k)
  <1>1. [utmp EXCEPT ![j] = e][k] = utmp[k]
    BY DEF TypeOK
  <1>2. CASE utmp[k].pid = WebPid
    BY <1>2 DEF Kept
  <1>3. CASE utmp[k].pid # WebPid
    <2>1. PICK p \in Pids : utmp[k].pid = p /\ proc'[p].slot = k
      BY <1>1, <1>3 DEF Kept
    <2>2. k # slot
      BY TableAssumption DEF Slots
    <2>3. proc[p].slot = k
      BY <2>1, <2>2, AnswerSlot
    <2> QED BY <2>1, <2>3 DEF Kept
  <1> QED BY <1>2, <1>3

LEMMA LoginStep ==
  ASSUME IInv, NEW u \in Users, NEW t \in Types, NEW pid \in Pids \cup {WebPid},
         NEW h \in Homes, NEW up \in RedisUp, Login(u, t, pid, h, up)
  PROVE  IInv'
  <1> USE DEF IInv
  <1>1. lastlogin' \in [Users -> Nat] /\ now' \in Nat
    BY DEF Login, TypeOK
  <1>2. CASE Claims(utmp, h) = {} /\ Answer(u, pid, 0, 0)
               /\ UNCHANGED <<utmp, rows, keys, uptime, nsid, broken>>
    <2>1. TypeOK'
      BY <1>1, <1>2, AnswerType DEF TypeOK, Procs
    <2>2. ASSUME NEW k \in Slots, Kept(utmp', proc', k) PROVE Kept(utmp, proc, k)
      <3>1. CASE utmp[k].pid = WebPid
        BY <3>1 DEF Kept
      <3>2. CASE utmp[k].pid # WebPid
        <4>1. PICK p \in Pids : utmp[k].pid = p /\ proc'[p].slot = k
          BY <1>2, <2>2, <3>2 DEF Kept
        <4>2. k # 0
          BY TableAssumption DEF Slots
        <4>3. proc[p].slot = k
          BY <1>2, <4>1, <4>2, AnswerSlot
        <4> QED BY <4>1, <4>3 DEF Kept
      <3> QED BY <3>1, <3>2
    <2>3. "overrun" \notin broken' => Exact(utmp', rows', proc')
      BY <1>2, <2>2 DEF Exact, Complete, Sound, Unique
    <2>4. Owned(utmp')
      BY <1>2 DEF Owned
    <2> QED BY <2>1, <2>3, <2>4
  <1>3. CASE \E c \in Claims(utmp, h) :
          LET sid    == nsid + 1
              copied == [utmp EXCEPT ![c.entry] = NewEntry(u, pid, sid, now)]
              spots  == Landing(copied, rows[u], u, c.index, Segment[t], now)
          IN  /\ nsid' = sid
              /\ broken' = broken \cup (IF c.entry = c.index THEN {} ELSE {"overrun"})
              /\ \/ /\ spots = {}
                    /\ utmp' = [utmp EXCEPT ![c.entry] = Zero]
                    /\ Answer(u, pid, sid, 0)
                    /\ UNCHANGED <<rows, keys, uptime>>
                 \/ \E p \in spots :
                      /\ Place(u, c, sid, copied, p, up, Running \cup {pid})
                      /\ Answer(u, pid, sid, c.index)
    <2> DEFINE sid == nsid + 1
    <2>1. PICK c \in Claims(utmp, h) :
            LET copied == [utmp EXCEPT ![c.entry] = NewEntry(u, pid, sid, now)]
                spots  == Landing(copied, rows[u], u, c.index, Segment[t], now)
            IN  /\ nsid' = sid
                /\ broken' = broken \cup (IF c.entry = c.index THEN {} ELSE {"overrun"})
                /\ \/ /\ spots = {}
                      /\ utmp' = [utmp EXCEPT ![c.entry] = Zero]
                      /\ Answer(u, pid, sid, 0)
                      /\ UNCHANGED <<rows, keys, uptime>>
                   \/ \E p \in spots :
                        /\ Place(u, c, sid, copied, p, up, Running \cup {pid})
                        /\ Answer(u, pid, sid, c.index)
      BY <1>3
    <2> DEFINE new    == NewEntry(u, pid, sid, now)
               copied == [utmp EXCEPT ![c.entry] = new]
    <2>2. sid \in Nat /\ nsid' = sid /\ broken' \subseteq {"overrun", "misdirected"}
      BY <2>1 DEF TypeOK
    <2>3. /\ c.entry \in Slots /\ c.index \in Slots
          /\ "overrun" \notin broken' => /\ "overrun" \notin broken
                                         /\ c.entry = c.index /\ c.entry \in Free(utmp)
      BY <2>1, ClaimsType DEF TypeOK
    <2>4. new \in Entries /\ copied \in [Slots -> Entries]
      BY <2>2, <2>3, NewEntryType DEF TypeOK
    <2>5. Owned(copied)
      BY <2>2, <2>3, NewEntryType, TableAssumption DEF Owned, TypeOK, WebPid
    <2> HIDE DEF sid
    <2>6. CASE /\ utmp' = [utmp EXCEPT ![c.entry] = Zero]
               /\ Answer(u, pid, sid, 0)
               /\ UNCHANGED <<rows, keys, uptime>>
      <3>1. TypeOK'
        BY <1>1, <2>2, <2>3, <2>6, AnswerType, ZeroType DEF TypeOK, Procs
      <3>2. \A k \in Slots : utmp'[k] = IF k = c.entry THEN Zero ELSE utmp[k]
        BY <2>6, <2>3 DEF TypeOK
      <3>3. Owned(utmp')
        BY <3>2 DEF Owned, Zero
      <3>4. ASSUME "overrun" \notin broken' PROVE Exact(utmp', rows', proc')
        <4>1. c.entry \in Free(utmp) /\ Exact(utmp, rows, proc) /\ rows \in Rows
          BY <2>3, <3>4 DEF TypeOK, Rows
        <4>2. \A v \in Users, q \in Positions : rows[v][q] # c.entry
          BY <4>1, FreeUnindexed DEF Exact, TypeOK
        <4>3. ASSUME NEW k \in Slots, utmp'[k].active, Kept(utmp', proc', k)
              PROVE  Kept(utmp, proc, k) /\ k # c.entry
          <5>1. k # c.entry
            BY <3>2, <4>3 DEF Zero
          <5>2. Kept([utmp EXCEPT ![c.entry] = Zero], proc', k)
            BY <2>6, <4>3
          <5> QED BY <5>1, <5>2, <2>2, <2>3, <2>6, AnswerKeeps
        <4>4. Sound(utmp', rows')
          BY <2>6, <3>2, <4>1, <4>2 DEF Exact, Sound, Rows
        <4>5. Complete(utmp', rows', proc')
          BY <2>6, <3>2, <4>1, <4>3 DEF Exact, Complete
        <4> QED BY <4>1, <4>4, <4>5, <2>6 DEF Exact, Unique
      <3> QED BY <3>1, <3>3, <3>4
    <2>7. CASE \E p \in Landing(copied, rows[u], u, c.index, Segment[t], now) :
                 Place(u, c, sid, copied, p, up, Running \cup {pid}) /\ Answer(u, pid, sid, c.index)
      <3>1. PICK p \in Landing(copied, rows[u], u, c.index, Segment[t], now) :
              Place(u, c, sid, copied, p, up, Running \cup {pid}) /\ Answer(u, pid, sid, c.index)
        BY <2>7
      <3>2. p \in Positions
        BY LandingInSegment, SegmentPositions
      <3> DEFINE out    == Evicted(copied, rows[u], u, c.index, p)
                 parted == IF out = 0 THEN copied ELSE [copied EXCEPT ![out].active = FALSE]
                 rw     == [rows EXCEPT ![u][p] = c.index]
                 ks     == IF up THEN keys \cup {Key(sid, u, c.index, now)} ELSE keys
      <3>3. Sweep(parted, rw, ks, up, Running \cup {pid})
        BY <3>1 DEF Place
      <3>4. rows \in Rows /\ rw \in Rows
        BY <2>3, <3>2 DEF TypeOK, Rows
      <3>5. ks \in SUBSET Keys
        BY <2>2, <2>3 DEF TypeOK, Keys, Key
      <3>6. out \in Slots \cup {0}
        BY <3>2, <3>4 DEF Evicted, Rows
      <3> HIDE DEF copied, out
      <3>7. parted \in [Slots -> Entries] /\ Owned(parted)
        <4>1. CASE out = 0
          BY <4>1, <2>4, <2>5
        <4>2. CASE out # 0
          <5>1. out \in Slots /\ parted = [copied EXCEPT ![out].active = FALSE]
            BY <4>2, <3>6
          <5>2. copied[out] \in Entries
            BY <5>1, <2>4
          <5>3. [copied[out] EXCEPT !.active = FALSE] \in Entries
                /\ ~[copied[out] EXCEPT !.active = FALSE].active
            BY <5>2 DEF Entries
          <5> HIDE DEF parted
          <5>4. \A k \in Slots : parted[k] = IF k = out THEN [copied[out] EXCEPT !.active = FALSE]
                                                        ELSE copied[k]
            BY <5>1, <2>4
          <5>5. parted \in [Slots -> Entries]
            BY <5>1, <5>3, <2>4
          <5> QED BY <5>3, <5>4, <5>5, <2>5 DEF Owned
        <4> QED BY <4>1, <4>2
      <3> HIDE DEF parted, rw, ks
      <3>8. TypeOK' /\ Owned(utmp')
        BY <1>1, <2>2, <2>3, <3>1, <3>3, <3>4, <3>5, <3>7, SweepStep, AnswerType
           DEF TypeOK, Procs, Keys, Rows
      <3>9. ASSUME "overrun" \notin broken' PROVE Exact(utmp', rows', proc')
        <4>1. /\ c.entry = c.index /\ c.entry \in Free(utmp)
              /\ Exact(utmp, rows, proc) /\ utmp \in [Slots -> Entries]
              /\ now \in Nat
          BY <2>3, <3>9 DEF TypeOK
        <4>2. \A k \in Slots \ {c.entry} : \A e :
                Kept([utmp EXCEPT ![c.entry] = e], proc', k) => Kept(utmp, proc, k)
          BY <2>2, <2>3, <3>1, <4>1, AnswerKeeps
        <4>3. Exact(parted, rw, proc')
          <5>1. Owned(utmp) /\ sid \in Nat
            BY <2>2
          <5>2. LET cp == [utmp EXCEPT ![c.entry] = NewEntry(u, pid, sid, now)]
                    o  == Evicted(cp, rows[u], u, c.entry, p)
                    pt == IF o = 0 THEN cp ELSE [cp EXCEPT ![o].active = FALSE]
                IN  Exact(pt, [rows EXCEPT ![u][p] = c.entry], proc')
            BY <5>1, <3>2, <3>4, <4>1, <4>2, PlaceExact
          <5> QED BY <5>2, <4>1 DEF parted, rw, out, copied
        <4> QED BY <3>3, <3>4, <3>5, <3>7, <4>3, SweepStep
      <3> QED BY <3>8, <3>9
    <2> QED BY <2>1, <2>6, <2>7
  <1> QED BY <1>2, <1>3 DEF Login

LEMMA RemoveStep ==
  ASSUME IInv, NEW i \in Slots, NEW up, UtmpRemove(i, up)
  PROVE  /\ utmp' \in [Slots -> Entries] /\ rows' \in Rows /\ keys' \in SUBSET Keys
         /\ Owned(utmp')
         /\ "overrun" \notin broken => Exact(utmp', rows', proc)
  <1>1. /\ utmp \in [Slots -> Entries] /\ rows \in Rows /\ keys \in SUBSET Keys
        /\ utmp[i].active /\ utmp[i].uid \in Users /\ Owned(utmp)
    BY DEF IInv, TypeOK, Rows, Keys, Owned, UtmpRemove
  <1>2. /\ rows' = [rows EXCEPT ![utmp[i].uid] = Unindex(rows[utmp[i].uid], i)]
        /\ utmp' = [utmp EXCEPT ![i] = Zero]
        /\ keys' \in SUBSET Keys
    BY <1>1 DEF UtmpRemove, WithoutKeys
  <1>3. utmp' \in [Slots -> Entries] /\ rows' \in Rows
    BY <1>1, <1>2, ZeroType, UnindexType
  <1>4. Owned(utmp')
    BY <1>1, <1>2, ZeroType DEF Owned, Zero
  <1>5. ASSUME "overrun" \notin broken PROVE Exact(utmp', rows', proc)
    BY <1>1, <1>2, <1>5, RemoveExact DEF IInv
  <1> QED BY <1>2, <1>3, <1>4, <1>5

\* Fewer kept slots, the same table and rows: the index stays exact.
LEMMA FewerKept ==
  ASSUME NEW ut, NEW rw, NEW pr, NEW pr2, Exact(ut, rw, pr),
         \A i \in Slots : Kept(ut, pr2, i) => Kept(ut, pr, i)
  PROVE  Exact(ut, rw, pr2)
  BY DEF Exact, Complete

\* A process that stops keeps nothing.
LEMMA StoppedKeepsLess ==
  ASSUME TypeOK, NEW p, NEW pr2, pr2 = [proc EXCEPT ![p] = NoProc],
         NEW ut, NEW i \in Slots, Kept(ut, pr2, i)
  PROVE  Kept(ut, proc, i)
  <1>1. CASE ut[i].pid = WebPid
    BY <1>1 DEF Kept
  <1>2. CASE ut[i].pid # WebPid
    <2>1. PICK q \in Pids : ut[i].pid = q /\ pr2[q].slot = i
      BY <1>2 DEF Kept
    <2>2. i # 0
      BY TableAssumption DEF Slots
    <2>3. proc[q].slot = i
      BY <2>1, <2>2 DEF TypeOK, NoProc
    <2> QED BY <2>1, <2>3 DEF Kept
  <1> QED BY <1>1, <1>2

\* Rewriting fields the index does not depend on.
LEMMA SameIdentity ==
  ASSUME IInv, utmp' \in [Slots -> Entries],
         \A i \in Slots : /\ utmp'[i].active = utmp[i].active
                          /\ utmp'[i].uid = utmp[i].uid /\ utmp'[i].pid = utmp[i].pid,
         UNCHANGED <<rows, keys, uptime, lastlogin, proc, cookies, now, nsid, broken>>
  PROVE  IInv'
  <1>1. TypeOK'
    BY DEF IInv, TypeOK
  <1>2. Owned(utmp')
    BY DEF IInv, Owned
  <1>3. ASSUME "overrun" \notin broken' PROVE Exact(utmp', rows', proc')
    <2>1. Exact(utmp, rows, proc) /\ rows \in Rows
      BY <1>3 DEF IInv, TypeOK, Rows
    <2>2. Sound(utmp', rows)
      BY <2>1 DEF Exact, Sound, Rows
    <2>3. Complete(utmp', rows, proc)
      BY <2>1 DEF Exact, Complete, Kept
    <2> QED BY <2>1, <2>2, <2>3 DEF Exact
  <1> QED BY <1>1, <1>2, <1>3 DEF IInv

LEMMA CountStep ==
  ASSUME IInv, NEW u \in Users, Count(u)
  PROVE  IInv'
  <1> DEFINE Dropped(i) == /\ i # 0 /\ utmp[i].active /\ utmp[i].uid = u
                           /\ utmp[i].pid > WebPid /\ utmp[i].pid \notin Running
  <1>1. /\ utmp \in [Slots -> Entries] /\ rows \in Rows
        /\ UNCHANGED <<utmp, keys, uptime, lastlogin, proc, cookies, now, nsid, broken>>
    BY DEF Count, IInv, TypeOK, Rows
  <1>2. \A v \in Users, p \in Positions :
          rows'[v][p] = IF v = u /\ Dropped(rows[v][p]) THEN 0 ELSE rows[v][p]
    BY <1>1 DEF Count, Rows
  <1>3. rows' \in Rows
    BY <1>1 DEF Count, Rows
  <1> HIDE DEF Dropped
  <1>4. TypeOK' /\ Owned(utmp')
    BY <1>1, <1>3 DEF IInv, TypeOK, Rows, Owned
  <1>5. ASSUME "overrun" \notin broken' PROVE Exact(utmp', rows', proc')
    <2>1. Exact(utmp, rows, proc)
      BY <1>1, <1>5 DEF IInv
    <2>2. Sound(utmp', rows') /\ Unique(rows')
      BY <1>1, <1>2, <2>1 DEF Exact, Sound, Unique
    <2>3. ASSUME NEW i \in Slots, utmp[i].active, Kept(utmp, proc, i)
          PROVE  ~Dropped(i)
      <3>1. CASE utmp[i].pid = WebPid
        BY <3>1 DEF Dropped, WebPid
      <3>2. CASE utmp[i].pid # WebPid
        <4>1. PICK p \in Pids : utmp[i].pid = p /\ proc[p].slot = i
          BY <2>3, <3>2 DEF Kept
        <4>2. p \in Running
          BY <4>1, TableAssumption DEF Running, NoProc, Slots
        <4> QED BY <4>1, <4>2 DEF Dropped
      <3> QED BY <3>1, <3>2
    <2>4. Complete(utmp', rows', proc')
      <3> SUFFICES ASSUME NEW i \in Slots, utmp[i].active, Kept(utmp, proc, i)
                   PROVE  \E p \in Positions : rows'[utmp[i].uid][p] = i
        BY <1>1 DEF Complete
      <3>1. PICK p \in Positions : rows[utmp[i].uid][p] = i
        BY <2>1 DEF Exact, Complete
      <3>2. utmp[i].uid \in Users
        BY DEF IInv, Owned
      <3> QED BY <1>2, <2>3, <3>1, <3>2
    <2> QED BY <2>2, <2>4 DEF Exact
  <1> QED BY <1>4, <1>5 DEF IInv

LEMMA InitIInv == Init => IInv
  <1> SUFFICES ASSUME Init PROVE IInv
    OBVIOUS
  <1>1. TypeOK
    BY ZeroType, TableAssumption, CacheAssumption DEF Init, TypeOK, NoProc, NoUser
  <1>2. Owned(utmp)
    BY DEF Init, Owned, Zero
  <1>3. Sound(utmp, rows) /\ Unique(rows)
    BY DEF Init, Sound, Unique
  <1>4. Complete(utmp, rows, proc)
    BY DEF Init, Complete, Zero
  <1> QED BY <1>1, <1>2, <1>3, <1>4 DEF IInv, Exact

LEMMA NextIInv == IInv /\ [Next]_vars => IInv'
  <1> SUFFICES ASSUME IInv, [Next]_vars PROVE IInv'
    OBVIOUS
  <1>0. TypeOK /\ Owned(utmp) /\ utmp \in [Slots -> Entries]
    BY DEF IInv, TypeOK
  <1>1. ASSUME NEW u \in Users, NEW t \in Types, NEW pid \in Pids \cup {WebPid},
               NEW h \in Homes, NEW up \in RedisUp, Login(u, t, pid, h, up)
        PROVE  IInv'
    BY <1>1, LoginStep
  <1>2. ASSUME NEW i \in Slots, NEW v \in Nat,
               utmp' = [utmp EXCEPT ![i].last = v],
               UNCHANGED <<rows, keys, uptime, lastlogin, proc, cookies, now, nsid, broken>>
        PROVE  IInv'
    <2>1. \A k \in Slots : utmp'[k] = IF k = i THEN [utmp[i] EXCEPT !.last = v] ELSE utmp[k]
      BY <1>0, <1>2
    <2>2. /\ [utmp[i] EXCEPT !.last = v] \in Entries
          /\ [utmp[i] EXCEPT !.last = v].active = utmp[i].active
          /\ [utmp[i] EXCEPT !.last = v].uid = utmp[i].uid
          /\ [utmp[i] EXCEPT !.last = v].pid = utmp[i].pid
      BY <1>0 DEF Entries
    <2>3. utmp' \in [Slots -> Entries]
      BY <1>0, <1>2, <2>2
    <2>4. \A k \in Slots : /\ utmp'[k].active = utmp[k].active
                           /\ utmp'[k].uid = utmp[k].uid /\ utmp'[k].pid = utmp[k].pid
      BY <2>1, <2>2
    <2> QED BY <1>2, <2>3, <2>4, SameIdentity
  <1>3. ASSUME NEW c \in cookies, Touch(c) PROVE IInv'
    <2>1. PICK i \in Lookup(keys, c) : Matches(c, i) /\ utmp' = [utmp EXCEPT ![i].last = now]
      BY <1>3 DEF Touch
    <2>2. i \in Slots /\ now \in Nat
      BY <1>0 DEF Lookup, TypeOK
    <2> QED BY <1>2, <1>3, <2>1, <2>2 DEF Touch
  <1>4. ASSUME NEW i \in Slots, NEW up, UtmpRemove(i, up),
               NEW p,
               proc' \in {proc, [proc EXCEPT ![p] = NoProc]},
               broken' \in {broken, broken \cup {"misdirected"}},
               UNCHANGED <<uptime, lastlogin, cookies, now, nsid>>
        PROVE  IInv'
    <2>1. /\ utmp' \in [Slots -> Entries] /\ rows' \in Rows /\ keys' \in SUBSET Keys
          /\ Owned(utmp')
          /\ "overrun" \notin broken => Exact(utmp', rows', proc)
      BY <1>4, RemoveStep
    <2>2. proc' \in [Pids -> Procs]
      BY <1>0, <1>4 DEF TypeOK, NoProc, Procs, NoUser
    <2>3. TypeOK'
      BY <1>0, <1>4, <2>1, <2>2 DEF TypeOK, Rows, Keys, Procs
    <2>4. ASSUME "overrun" \notin broken' PROVE Exact(utmp', rows', proc')
      <3>1. Exact(utmp', rows', proc)
        BY <1>4, <2>1, <2>4
      <3>2. ASSUME NEW k \in Slots, Kept(utmp', proc', k) PROVE Kept(utmp', proc, k)
        BY <1>0, <1>4, <3>2, StoppedKeepsLess
      <3> QED BY <3>1, <3>2, FewerKept
    <2> QED BY <2>1, <2>3, <2>4 DEF IInv
  <1>5. ASSUME NEW p \in Pids, proc' = [proc EXCEPT ![p] = NoProc],
               UNCHANGED <<utmp, rows, keys, uptime, lastlogin, cookies, now, nsid, broken>>
        PROVE  IInv'
    <2>1. proc' \in [Pids -> Procs]
      BY <1>0, <1>5 DEF TypeOK, NoProc, Procs, NoUser
    <2>2. TypeOK'
      BY <1>0, <1>5, <2>1 DEF TypeOK, Procs
    <2>3. ASSUME "overrun" \notin broken' PROVE Exact(utmp', rows', proc')
      <3>1. Exact(utmp, rows, proc)
        BY <1>5, <2>3 DEF IInv
      <3>2. \A k \in Slots : Kept(utmp, proc', k) => Kept(utmp, proc, k)
        BY <1>0, <1>5, StoppedKeepsLess
      <3>3. Exact(utmp, rows, proc')
        BY <3>1, <3>2, FewerKept
      <3> QED BY <3>3, <1>5
    <2> QED BY <1>0, <1>5, <2>2, <2>3 DEF IInv
  <1>6. ASSUME NEW c \in cookies, NEW up \in RedisUp, WwwLogout(c, up) \/ ApiLogout(c, up)
        PROVE  IInv'
    <2>1. PICK i \in Lookup(keys, c) : UtmpRemove(i, up)
      BY <1>6 DEF WwwLogout, ApiLogout
    <2>2. i \in Slots
      BY <1>0 DEF Lookup, TypeOK
    <2>3. /\ broken' \in {broken, broken \cup {"misdirected"}}
          /\ UNCHANGED <<uptime, lastlogin, proc, cookies, now, nsid>>
      BY <1>6 DEF WwwLogout, ApiLogout
    <2> QED BY <1>4, <2>1, <2>2, <2>3
  <1>7. ASSUME NEW p \in Pids, NEW up \in RedisUp, TelnetExit(p, up) PROVE IInv'
    <2> DEFINE s == proc[p].slot
               own == s # 0 /\ utmp[s].name = proc[p].uid /\ utmp[s].active
    <2>1. /\ proc' = [proc EXCEPT ![p] = NoProc]
          /\ UNCHANGED <<uptime, lastlogin, cookies, now, nsid, broken>>
      BY <1>7 DEF TelnetExit
    <2>2. CASE own
      <3>1. UtmpRemove(s, up) /\ s \in Slots
        BY <1>0, <1>7, <2>2 DEF TelnetExit, TypeOK
      <3>2. /\ proc' \in {proc, [proc EXCEPT ![p] = NoProc]}
            /\ broken' \in {broken, broken \cup {"misdirected"}}
            /\ UNCHANGED <<uptime, lastlogin, cookies, now, nsid>>
        BY <2>1
      <3> HIDE DEF s
      <3> QED BY <1>4, <3>1, <3>2
    <2>3. CASE ~own
      <3>1. UNCHANGED <<utmp, rows, keys>>
        BY <1>7, <2>3 DEF TelnetExit
      <3> QED BY <1>5, <2>1, <3>1
    <2> QED BY <2>2, <2>3
  <1>8. ASSUME NEW p \in Pids, TelnetCrash(p) PROVE IInv'
    BY <1>5, <1>8 DEF TelnetCrash
  <1>9. ASSUME NEW p \in Pids, TelnetUpdate(p) PROVE IInv'
    <2> DEFINE s   == proc[p].slot
               new == [utmp[s] EXCEPT !.last = now, !.sid = proc[p].sid, !.name = proc[p].uid,
                                      !.start = 0, !.kicked = FALSE]
    <2>1. s \in Slots /\ utmp' = [utmp EXCEPT ![s] = new]
      BY <1>0, <1>9 DEF TelnetUpdate, TypeOK
    <2>2. /\ new \in Entries /\ new.active = utmp[s].active
          /\ new.uid = utmp[s].uid /\ new.pid = utmp[s].pid
      <3>1. /\ utmp[s] \in Entries /\ now \in Nat
            /\ proc[p].sid \in Nat /\ proc[p].uid \in Users \cup {NoUser}
        BY <1>0, <2>1 DEF TypeOK
      <3> HIDE DEF s
      <3> QED BY <3>1 DEF Entries
    <2> HIDE DEF new
    <2>3. utmp' \in [Slots -> Entries]
      BY <1>0, <2>1, <2>2
    <2>4. \A k \in Slots : /\ utmp'[k].active = utmp[k].active
                           /\ utmp'[k].uid = utmp[k].uid /\ utmp'[k].pid = utmp[k].pid
      BY <1>0, <2>1, <2>2
    <2> QED BY <1>9, <2>3, <2>4, SameIdentity DEF TelnetUpdate
  <1>10. ASSUME NEW i \in Slots, Kick(i) PROVE IInv'
    <2>1. utmp' = [utmp EXCEPT ![i] = [utmp[i] EXCEPT !.kicked = TRUE]]
      BY <1>0, <1>10 DEF Kick
    <2>2. /\ [utmp[i] EXCEPT !.kicked = TRUE] \in Entries
          /\ [utmp[i] EXCEPT !.kicked = TRUE].active = utmp[i].active
          /\ [utmp[i] EXCEPT !.kicked = TRUE].uid = utmp[i].uid
          /\ [utmp[i] EXCEPT !.kicked = TRUE].pid = utmp[i].pid
      BY <1>0 DEF Entries
    <2>3. utmp' \in [Slots -> Entries]
      BY <1>0, <2>1, <2>2
    <2>4. \A k \in Slots : /\ utmp'[k].active = utmp[k].active
                           /\ utmp'[k].uid = utmp[k].uid /\ utmp'[k].pid = utmp[k].pid
      BY <1>0, <2>1, <2>2
    <2> QED BY <1>10, <2>3, <2>4, SameIdentity DEF Kick
  <1>11. ASSUME NEW u \in Users, Count(u) PROVE IInv'
    BY <1>11, CountStep
  <1>12. ASSUME NEW k \in keys, KeyExpires(k) PROVE IInv'
    BY <1>0, <1>12 DEF KeyExpires, IInv, TypeOK, Exact, Sound, Unique, Complete, Kept, Owned
  <1>13. ASSUME Tick PROVE IInv'
    BY <1>0, <1>13, CacheAssumption DEF Tick, IInv, TypeOK, Exact, Sound, Unique, Complete, Kept, Owned
  <1>14. ASSUME UNCHANGED vars PROVE IInv'
    BY <1>0, <1>14 DEF vars, IInv, TypeOK, Exact, Sound, Unique, Complete, Kept, Owned
  <1> QED
    BY <1>1, <1>3, <1>6, <1>7, <1>8, <1>9, <1>10, <1>11, <1>12, <1>13, <1>14 DEF Next

LEMMA Invariance == Spec => []IInv
  BY InitIInv, NextIInv, PTL DEF Spec

\* TypeCorrect: every reachable state of the session cache is well typed; in
\* particular rows and keys only hold slots of the array.
THEOREM TypeCorrect == Spec => []TypeOK
  <1>1. IInv => TypeOK
    BY DEF IInv
  <1> QED BY Invariance, <1>1, PTL

\* IndexAlwaysExact: as long as no login has overrun a full table, the rows
\* that ythtbbs_cache_UserTable keeps and the utmp array agree exactly.
THEOREM IndexAlwaysExact == Spec => []IndexExact
  <1>1. IInv => IndexExact
    <2> SUFFICES ASSUME IInv, "overrun" \notin broken
                 PROVE  IndexSound /\ IndexUnique /\ IndexComplete
      BY DEF IndexExact
    <2>1. Exact(utmp, rows, proc)
      BY DEF IInv
    <2>2. IndexSound /\ IndexUnique
      BY <2>1 DEF Exact, Sound, Unique, IndexSound, IndexUnique
    <2>3. IndexComplete
      BY <2>1 DEF Exact, Complete, Kept, IndexComplete, Held
    <2> QED BY <2>2, <2>3
  <1> QED BY Invariance, <1>1, PTL

-----------------------------------------------------------------------------
(* Whose a slot and a key are: a session id and its key lead to one entry, *)
(* and the entry of a living process stays its own, whatever is evicted,   *)
(* swept or logged out around it.                                          *)

Cookies == [sid : Nat, user : Users]
Tables == [Slots -> Entries]

\* The slot each process of pr remembers holds its session in ut.
Mine(ut, pr) ==
  \A p \in Pids : pr[p].slot # 0 =>
    LET e == ut[pr[p].slot]
    IN  e.active /\ e.pid = p /\ e.uid = pr[p].uid /\ e.sid = pr[p].sid

OneEntry(ut) ==
  \A i, j \in Slots : ut[i].active /\ ut[j].active /\ ut[i].sid = ut[j].sid => i = j

KeysHome(ut, ks) ==
  \A i \in Slots, k \in ks :
    ut[i].active /\ k.sid = ut[i].sid => k.slot = i /\ k.user = ut[i].uid

\* A cookie never names the session of a process, which a logout would end.
CookiesWeb(ut, cs) ==
  \A i \in Slots, c \in cs : ut[i].active /\ c.sid = ut[i].sid => ut[i].pid = WebPid

\* No session id beyond n was used.
Drawn(ut, ks, cs, n) ==
  /\ \A i \in Slots : ut[i].active => ut[i].sid <= n
  /\ \A k \in ks : k.sid <= n
  /\ \A c \in cs : c.sid <= n

Ours(ut, ks, pr, cs, n) ==
  /\ Mine(ut, pr) /\ OneEntry(ut) /\ KeysHome(ut, ks) /\ CookiesWeb(ut, cs)
  /\ Drawn(ut, ks, cs, n)

OInv == TypeOK /\ (broken = {} => Ours(utmp, keys, proc, cookies, nsid))

\* The sessions of ut2 are sessions of ut.
Fewer(ut2, ut) ==
  \A i \in Slots : ut2[i].active =>
    ut[i].active /\ ut2[i].pid = ut[i].pid /\ ut2[i].uid = ut[i].uid /\ ut2[i].sid = ut[i].sid

\* A process that goes on, from pr to pr2, still has a session in ut2.
GoOn(pr2, pr, ut2) ==
  \A p \in Pids : pr2[p].slot # 0 => pr2[p] = pr[p] /\ ut2[pr[p].slot].active

\* What a login leaves with the processes and with the browsers.
Remembered(pr, pid, u, slot, sid) ==
  IF pid = WebPid THEN pr ELSE [pr EXCEPT ![pid] = [uid |-> u, slot |-> slot, sid |-> sid]]

Handed(cs, pid, u, sid) == IF pid = WebPid THEN cs \cup {[sid |-> sid, user |-> u]} ELSE cs

-----------------------------------------------------------------------------
\* Sessions that end, keys that go and processes that stop spoil nothing, as
\* long as no process that goes on loses its session.
LEMMA FewerOurs ==
  ASSUME NEW ut \in Tables, NEW ut2 \in Tables, NEW ks \in SUBSET Keys, NEW ks2 \in SUBSET ks,
         NEW pr \in [Pids -> Procs], NEW pr2 \in [Pids -> Procs], NEW cs \in SUBSET Cookies,
         NEW n \in Nat, Ours(ut, ks, pr, cs, n), Fewer(ut2, ut), GoOn(pr2, pr, ut2)
  PROVE  Ours(ut2, ks2, pr2, cs, n)
  <1> USE DEF Ours
  <1>1. Mine(ut2, pr2)
    <2>1. ASSUME NEW p \in Pids, pr2[p].slot # 0 PROVE pr[p].slot \in Slots
      BY <2>1 DEF Procs, GoOn
    <2> QED BY <2>1 DEF Mine, Fewer, GoOn
  <1>2. OneEntry(ut2)
    BY DEF OneEntry, Fewer
  <1>3. KeysHome(ut2, ks2)
    BY DEF KeysHome, Fewer
  <1>4. CookiesWeb(ut2, cs)
    BY DEF CookiesWeb, Fewer
  <1>5. Drawn(ut2, ks2, cs, n)
    BY DEF Drawn, Fewer
  <1> QED BY <1>1, <1>2, <1>3, <1>4, <1>5

\* The entry of a living process is not free, and the sweep spares it.
LEMMA ProcessNotFree ==
  ASSUME NEW ut \in Tables, NEW pr \in [Pids -> Procs], Mine(ut, pr),
         NEW p \in Pids, pr[p].slot # 0
  PROVE  pr[p].slot \in Slots \ Free(ut)
  BY TableAssumption DEF Mine, Free, Procs

LEMMA SweepSpares ==
  ASSUME TypeOK, NEW ut \in Tables, NEW rw \in Rows, NEW ks \in SUBSET Keys,
         NEW up, NEW alive, Sweep(ut, rw, ks, up, alive), utmp' \in Tables,
         NEW pr \in [Pids -> Procs], NEW cs \in SUBSET Cookies, NEW n \in Nat,
         Ours(ut, ks, pr, cs, n), \A p \in Pids : pr[p].slot # 0 => p \in alive
  PROVE  Ours(utmp', keys', pr, cs, n)
  <1>1. CASE now > uptime + SweepPeriod
    <2> DEFINE due == {i \in Slots : Doomed(ut[i], now, alive)}
               web == {ut[i].sid : i \in {j \in due : ut[j].pid = WebPid}}
    <2>1. utmp' = SweptTable(ut, due) /\ keys' = IF up THEN WithoutKeys(ks, web) ELSE ks
      BY <1>1 DEF Sweep
    <2>2. keys' \in SUBSET ks
      BY <2>1 DEF WithoutKeys
    <2>3. \A i \in Slots : utmp'[i] = IF i \in due THEN Zero ELSE ut[i]
      BY <2>1 DEF SweptTable
    <2>4. Fewer(utmp', ut)
      BY <2>3 DEF Fewer, Zero
    <2>5. ASSUME NEW p \in Pids, pr[p].slot # 0 PROVE utmp'[pr[p].slot].active
      <3>1. pr[p].slot \in Slots /\ ut[pr[p].slot].active /\ ut[pr[p].slot].pid = p
        BY <2>5 DEF Ours, Mine, Procs
      <3>2. p # WebPid /\ p \in alive
        BY <2>5, TableAssumption
      <3>3. pr[p].slot \notin due
        BY <3>1, <3>2 DEF Doomed
      <3> QED BY <2>3, <3>1, <3>3
    <2>6. GoOn(pr, pr, utmp')
      BY <2>5 DEF GoOn
    <2> QED BY <2>2, <2>4, <2>6, FewerOurs
  <1>2. CASE ~(now > uptime + SweepPeriod)
    BY <1>2 DEF Sweep
  <1> QED BY <1>1, <1>2

-----------------------------------------------------------------------------
\* A session id that was not used before may be drawn and handed out.
LEMMA DrawOurs ==
  ASSUME NEW ut \in Tables, NEW ks \in SUBSET Keys, NEW pr \in [Pids -> Procs],
         NEW cs \in SUBSET Cookies, NEW n \in Nat, Ours(ut, ks, pr, cs, n),
         NEW cs2 \in SUBSET Cookies, \A c \in cs2 \ cs : c.sid = n + 1
  PROVE  Ours(ut, ks, pr, cs2, n + 1)
  <1> USE DEF Ours
  <1>1. \A i \in Slots : ut[i].sid \in Nat
    BY DEF Entries, Tables
  <1>2. \A c \in cs2 : c.sid \in Nat /\ (c.sid <= n => c \in cs)
    BY DEF Cookies
  <1>3. \A k \in ks : k.sid \in Nat
    BY DEF Keys
  <1>4. CookiesWeb(ut, cs2)
    BY <1>1, <1>2 DEF CookiesWeb, Drawn
  <1>5. Drawn(ut, ks, cs2, n + 1)
    <2>1. \A c \in cs2 : c.sid <= n + 1
      BY <1>2 DEF Drawn, Cookies
    <2> QED BY <1>1, <1>3, <2>1 DEF Drawn
  <1> QED BY <1>4, <1>5

\* A login that copies its entry into a free slot.
LEMMA InsertOurs ==
  ASSUME NEW ut \in Tables, NEW ks \in SUBSET Keys, NEW pr \in [Pids -> Procs],
         NEW cs \in SUBSET Cookies, NEW n \in Nat, Ours(ut, ks, pr, cs, n),
         NEW j \in Free(ut), NEW u \in Users, NEW pid \in Pids \cup {WebPid}, NEW time \in Nat,
         NEW ks2 \in SUBSET (ks \cup {Key(n + 1, u, j, time)}),
         NEW sid, sid = n + 1
  PROVE  Ours([ut EXCEPT ![j] = NewEntry(u, pid, sid, time)], ks2,
              Remembered(pr, pid, u, j, sid), Handed(cs, pid, u, sid), sid)
  <1> DEFINE new == NewEntry(u, pid, sid, time)
             ut2 == [ut EXCEPT ![j] = new]
             pr2 == Remembered(pr, pid, u, j, sid)
             cs2 == Handed(cs, pid, u, sid)
  <1>1. /\ new.active /\ new.uid = u /\ new.pid = pid /\ new.sid = n + 1 /\ new \in Entries
    BY NewEntryType DEF NewEntry
  <1>2. j \in Slots /\ \A i \in Slots : ut2[i] = IF i = j THEN new ELSE ut[i]
    BY DEF Free, Tables
  <1>3. \A i \in Slots : ut[i].sid \in Nat /\ (ut[i].active => ut[i].sid <= n)
    BY DEF Entries, Tables, Ours, Drawn
  <1>4. \A k \in ks2 : \/ k \in ks /\ k.sid \in Nat /\ k.sid <= n
                       \/ k.sid = n + 1 /\ k.slot = j /\ k.user = u
    BY DEF Keys, Key, Ours, Drawn
  <1>5. \A c \in cs2 : \/ c \in cs /\ c.sid \in Nat /\ c.sid <= n
                       \/ c.sid = n + 1 /\ pid = WebPid
    BY DEF Cookies, Ours, Drawn, Handed
  <1> HIDE DEF new, ut2, cs2
  <1>6. Mine(ut2, pr2)
    <2> SUFFICES ASSUME NEW p \in Pids, pr2[p].slot # 0
                 PROVE  LET e == ut2[pr2[p].slot]
                        IN  e.active /\ e.pid = p /\ e.uid = pr2[p].uid /\ e.sid = pr2[p].sid
      BY DEF Mine
    <2>1. CASE pid = p
      <3>1. pr2[p] = [uid |-> u, slot |-> j, sid |-> n + 1]
        BY <2>1, TableAssumption DEF Remembered
      <3> QED BY <2>1, <3>1, <1>1, <1>2
    <2>2. CASE pid # p
      <3>1. pr2[p] = pr[p]
        BY <2>2 DEF Remembered
      <3>2. pr[p].slot \in Slots \ Free(ut)
        BY <3>1, ProcessNotFree DEF Ours
      <3> QED BY <3>1, <3>2, <1>2 DEF Ours, Mine
    <2> QED BY <2>1, <2>2
  <1>7. OneEntry(ut2)
    BY <1>1, <1>2, <1>3 DEF OneEntry, Ours
  <1>8. KeysHome(ut2, ks2)
    BY <1>1, <1>2, <1>3, <1>4 DEF KeysHome, Ours
  <1>9. CookiesWeb(ut2, cs2)
    BY <1>1, <1>2, <1>3, <1>5 DEF CookiesWeb, Ours
  <1>10. Drawn(ut2, ks2, cs2, sid)
    BY <1>1, <1>2, <1>3, <1>4, <1>5 DEF Drawn
  <1> QED BY <1>6, <1>7, <1>8, <1>9, <1>10 DEF Ours, ut2, new, cs2

\* add_utmp_idx evicts only web sessions.
LEMMA EvictedIsWeb ==
  ASSUME NEW ut \in Tables, NEW row \in [Positions -> Slots \cup {0}], NEW u, NEW j,
         NEW seg \in SUBSET Positions, NEW time,
         NEW p \in Landing(ut, row, u, j, seg, time), Evicted(ut, row, u, j, p) # 0
  PROVE  LET out == Evicted(ut, row, u, j, p)
         IN  out \in Slots /\ out # j /\ ut[out].active /\ ut[out].pid \in {0, WebPid}
  <1>1. /\ Evicted(ut, row, u, j, p) = row[p] /\ row[p] # j
        /\ ~Vacant(ut, row, u, p) /\ p \in Positions
    BY DEF Evicted, Landing
  <1>2. row[p] \in Slots /\ ut[row[p]].active
    BY <1>1 DEF Vacant
  <1>3. ut[row[p]].pid <= WebPid
    BY <1>1 DEF Landing
  <1>4. ut[row[p]].pid \in Pids \cup {0, WebPid}
    BY <1>2 DEF Entries, Tables
  <1>5. ut[row[p]].pid \in {0, WebPid}
    <2>1. \A q \in Pids : q \in Nat /\ q # 0 /\ q # 1
      BY TableAssumption DEF WebPid
    <2> QED BY <1>3, <1>4, <2>1 DEF WebPid
  <1> QED BY <1>1, <1>2, <1>5

-----------------------------------------------------------------------------
LEMMA OInvNow ==
  ASSUME OInv, broken = {}
  PROVE  /\ utmp \in Tables /\ keys \in SUBSET Keys /\ proc \in [Pids -> Procs]
         /\ cookies \in SUBSET Cookies /\ nsid \in Nat /\ now \in Nat /\ rows \in Rows
         /\ Ours(utmp, keys, proc, cookies, nsid)
  BY DEF OInv, TypeOK, Tables, Keys, Procs, Cookies, Rows

\* Processes that hold a session run.
LEMMA HoldersRun ==
  ASSUME NEW p \in Pids, proc[p].slot # 0
  PROVE  p \in Running
  BY DEF Running, NoProc

\* The three ways a login may end: no place in the table, none in the row, or a
\* new session, after whose insertion the sweep may run.
LEMMA LoginOurs ==
  ASSUME OInv, TypeOK', broken' = {},
         NEW u \in Users, NEW t \in Types, NEW pid \in Pids \cup {WebPid},
         NEW h \in Homes, NEW up \in RedisUp, Login(u, t, pid, h, up)
  PROVE  Ours(utmp', keys', proc', cookies', nsid')
  <1>1. CASE Claims(utmp, h) = {} /\ Answer(u, pid, 0, 0)
               /\ UNCHANGED <<utmp, rows, keys, uptime, nsid, broken>>
    <2>1. broken = {} /\ TypeOK
      BY <1>1 DEF OInv
    <2>2. proc' = Remembered(proc, pid, u, 0, 0) /\ proc' \in [Pids -> Procs]
      BY <1>1, <2>1, AnswerType DEF Remembered
    <2>3. cookies' = cookies
      BY <1>1 DEF Answer
    <2>4. GoOn(proc', proc, utmp)
      <3> SUFFICES ASSUME NEW p \in Pids, proc'[p].slot # 0
                   PROVE  proc'[p] = proc[p] /\ utmp[proc[p].slot].active
        BY DEF GoOn
      <3>1. proc'[p] = proc[p]
        BY <2>1, <2>2, OInvNow DEF Remembered
      <3> QED BY <2>1, <3>1, OInvNow DEF Ours, Mine
    <2>5. Fewer(utmp, utmp)
      BY DEF Fewer
    <2>6. /\ utmp \in Tables /\ keys \in SUBSET Keys /\ proc \in [Pids -> Procs]
          /\ cookies \in SUBSET Cookies /\ nsid \in Nat
          /\ Ours(utmp, keys, proc, cookies, nsid)
      BY <2>1, OInvNow DEF OInv
    <2>7. keys \in SUBSET keys
      OBVIOUS
    <2>8. Ours(utmp, keys, proc', cookies, nsid)
      BY <2>2, <2>4, <2>5, <2>6, <2>7, FewerOurs
    <2> QED BY <1>1, <2>3, <2>8
  <1>2. CASE \E c \in Claims(utmp, h) :
          LET sid    == nsid + 1
              copied == [utmp EXCEPT ![c.entry] = NewEntry(u, pid, sid, now)]
              spots  == Landing(copied, rows[u], u, c.index, Segment[t], now)
          IN  /\ nsid' = sid
              /\ broken' = broken \cup (IF c.entry = c.index THEN {} ELSE {"overrun"})
              /\ \/ /\ spots = {}
                    /\ utmp' = [utmp EXCEPT ![c.entry] = Zero]
                    /\ Answer(u, pid, sid, 0)
                    /\ UNCHANGED <<rows, keys, uptime>>
                 \/ \E p \in spots :
                      /\ Place(u, c, sid, copied, p, up, Running \cup {pid})
                      /\ Answer(u, pid, sid, c.index)
    <2> DEFINE sid == nsid + 1
    <2>1. PICK c \in Claims(utmp, h) :
            LET copied == [utmp EXCEPT ![c.entry] = NewEntry(u, pid, sid, now)]
                spots  == Landing(copied, rows[u], u, c.index, Segment[t], now)
            IN  /\ nsid' = sid
                /\ broken' = broken \cup (IF c.entry = c.index THEN {} ELSE {"overrun"})
                /\ \/ /\ spots = {}
                      /\ utmp' = [utmp EXCEPT ![c.entry] = Zero]
                      /\ Answer(u, pid, sid, 0)
                      /\ UNCHANGED <<rows, keys, uptime>>
                   \/ \E p \in spots :
                        /\ Place(u, c, sid, copied, p, up, Running \cup {pid})
                        /\ Answer(u, pid, sid, c.index)
      BY <1>2
    <2>2. broken = {} /\ c.entry = c.index
      BY <2>1
    <2>3. TypeOK /\ c.entry \in Slots /\ c.entry \in Free(utmp)
      BY <2>2, ClaimsType DEF OInv, TypeOK
    <2> DEFINE copied == [utmp EXCEPT ![c.entry] = NewEntry(u, pid, sid, now)]
    <2>4. sid \in Nat /\ utmp \in Tables /\ utmp' \in Tables /\ nsid' = sid
      BY <2>1, <2>2, OInvNow DEF TypeOK, Tables
    <2>5. CASE /\ utmp' = [utmp EXCEPT ![c.entry] = Zero]
               /\ Answer(u, pid, sid, 0)
               /\ UNCHANGED <<rows, keys, uptime>>
      <3>1. /\ proc' = Remembered(proc, pid, u, 0, sid) /\ proc' \in [Pids -> Procs]
            /\ cookies' \in SUBSET Cookies /\ \A d \in cookies' \ cookies : d.sid = sid
        BY <2>3, <2>4, <2>5, AnswerType DEF Answer, Cookies, Remembered
      <3> HIDE DEF sid
      <3>2. Ours(utmp, keys, proc, cookies', sid)
        BY <2>2, <3>1, OInvNow, DrawOurs DEF sid
      <3>3. Fewer(utmp', utmp)
        BY <2>5, <2>3, <2>4 DEF Fewer, Tables, Zero
      <3>4. GoOn(proc', proc, utmp')
        <4> SUFFICES ASSUME NEW p \in Pids, proc'[p].slot # 0
                     PROVE  proc'[p] = proc[p] /\ utmp'[proc[p].slot].active
          BY DEF GoOn
        <4>1. proc'[p] = proc[p]
          BY <2>2, <3>1, OInvNow DEF Remembered
        <4>2. proc[p].slot \in Slots \ Free(utmp)
          BY <2>2, <4>1, OInvNow, ProcessNotFree DEF Ours
        <4> QED BY <2>2, <2>3, <2>4, <2>5, <4>1, <4>2, OInvNow DEF Ours, Mine, Tables
      <3>5. keys' \in SUBSET keys
        BY <2>5
      <3>6. sid \in Nat /\ nsid' = sid
        BY <2>4
      <3>7. proc \in [Pids -> Procs] /\ keys \in SUBSET Keys
        BY <2>2, OInvNow
      <3> HIDE DEF copied
      <3>8. proc' \in [Pids -> Procs] /\ cookies' \in SUBSET Cookies
        BY <3>1
      <3>9. utmp \in Tables /\ utmp' \in Tables
        BY <2>4
      <3>10. Ours(utmp', keys', proc', cookies', sid)
        BY <3>2, <3>3, <3>4, <3>5, <3>6, <3>7, <3>8, <3>9, FewerOurs
      <3> QED BY <3>6, <3>10
    <2>6. CASE \E p \in Landing(copied, rows[u], u, c.index, Segment[t], now) :
                 Place(u, c, sid, copied, p, up, Running \cup {pid}) /\ Answer(u, pid, sid, c.index)
      <3>1. PICK p \in Landing(copied, rows[u], u, c.index, Segment[t], now) :
              Place(u, c, sid, copied, p, up, Running \cup {pid}) /\ Answer(u, pid, sid, c.index)
        BY <2>6
      <3> DEFINE out    == Evicted(copied, rows[u], u, c.index, p)
                 parted == IF out = 0 THEN copied ELSE [copied EXCEPT ![out].active = FALSE]
                 rw     == [rows EXCEPT ![u][p] = c.index]
                 ks     == IF up THEN keys \cup {Key(sid, u, c.index, now)} ELSE keys
      <3>2. Sweep(parted, rw, ks, up, Running \cup {pid})
        BY <3>1 DEF Place
      <3>3. /\ proc' = Remembered(proc, pid, u, c.index, sid) /\ proc' \in [Pids -> Procs]
            /\ cookies' = Handed(cookies, pid, u, sid) /\ cookies' \in SUBSET Cookies
        <4>1. c.index \in Slots
          BY <2>2, <2>3
        <4>2. sid # 0
          BY <2>4, <2>2, OInvNow
        <4> QED BY <2>3, <2>4, <3>1, <4>1, <4>2, AnswerType DEF Answer, Cookies, Remembered, Handed
      <3>4. ks \in SUBSET Keys /\ ks \in SUBSET (keys \cup {Key(sid, u, c.index, now)})
        BY <2>2, <2>3, <2>4, OInvNow DEF Keys, Key
      <3>5. copied \in Tables /\ Ours(copied, ks, proc', cookies', sid)
        <4>1. copied \in Tables
          BY <2>2, <2>3, <2>4, OInvNow, NewEntryType DEF Tables
        <4> HIDE DEF ks
        <4>2. /\ c.index = c.entry /\ c.entry \in Free(utmp) /\ now \in Nat
              /\ ks \in SUBSET (keys \cup {Key(nsid + 1, u, c.entry, now)})
          BY <2>2, <2>3, <3>4, OInvNow
        <4>3. /\ utmp \in Tables /\ keys \in SUBSET Keys /\ proc \in [Pids -> Procs]
              /\ cookies \in SUBSET Cookies /\ nsid \in Nat
              /\ Ours(utmp, keys, proc, cookies, nsid)
          BY <2>2, OInvNow DEF OInv
        <4>4. Ours([utmp EXCEPT ![c.entry] = NewEntry(u, pid, sid, now)], ks,
                   Remembered(proc, pid, u, c.entry, sid), Handed(cookies, pid, u, sid), sid)
          BY <4>2, <4>3, InsertOurs
        <4> QED BY <3>3, <4>1, <4>2, <4>4
      <3> HIDE DEF sid, copied, ks, out
      <3>6. parted \in Tables /\ Ours(parted, ks, proc', cookies', sid)
        <4>1. CASE out = 0
          BY <3>5, <4>1
        <4>2. CASE out # 0
          <5>1. out \in Slots /\ copied[out].pid \in {0, WebPid}
            <6>1. Segment[t] \in SUBSET Positions /\ rows[u] \in [Positions -> Slots \cup {0}]
              BY <2>2, OInvNow DEF Positions, Rows
            <6> QED BY <3>1, <3>5, <4>2, <6>1, EvictedIsWeb DEF out
          <5>2. parted = [copied EXCEPT ![out].active = FALSE]
            BY <4>2
          <5> HIDE DEF parted
          <5>3. \A k \in Slots : parted[k] = IF k = out THEN [copied[out] EXCEPT !.active = FALSE]
                                                        ELSE copied[k]
            BY <5>1, <5>2, <3>5 DEF Tables
          <5>4. parted \in Tables
            BY <5>1, <5>2, <3>5 DEF Tables, Entries
          <5>5. /\ [copied[out] EXCEPT !.active = FALSE].active = FALSE
            BY <5>1, <3>5 DEF Tables, Entries
          <5>6. Fewer(parted, copied)
            BY <5>3, <5>5 DEF Fewer
          <5>7. ASSUME NEW q \in Pids, proc'[q].slot # 0 PROVE parted[proc'[q].slot].active
            <6>1. proc'[q].slot \in Slots /\ copied[proc'[q].slot].pid = q
                  /\ copied[proc'[q].slot].active
              BY <3>3, <3>5, <5>7 DEF Ours, Mine, Procs
            <6>2. q \notin {0, WebPid}
              BY TableAssumption
            <6> QED BY <5>1, <5>3, <6>1, <6>2
          <5>8. GoOn(proc', proc', parted) /\ ks \in SUBSET ks
            BY <5>7 DEF GoOn
          <5> QED BY <2>4, <3>3, <3>4, <3>5, <5>4, <5>6, <5>8, FewerOurs
        <4> QED BY <4>1, <4>2
      <3>7. rw \in Rows
        BY <2>2, <2>3, <3>1, OInvNow, LandingInSegment, SegmentPositions DEF Rows
      <3>8. \A q \in Pids : proc'[q].slot # 0 => q \in Running \cup {pid}
        BY <2>2, <3>3, OInvNow, HoldersRun DEF Remembered
      <3> HIDE DEF parted, rw
      <3>9. Ours(utmp', keys', proc', cookies', sid)
        BY <2>3, <2>4, <3>2, <3>3, <3>4, <3>6, <3>7, <3>8, SweepSpares
      <3> QED BY <2>4, <3>9
    <2> QED BY <2>1, <2>5, <2>6
  <1> QED BY <1>1, <1>2 DEF Login


-----------------------------------------------------------------------------
\* A removed session that no process that goes on remembers.
LEMMA RemoveOurs ==
  ASSUME OInv, TypeOK', broken = {}, NEW i \in Slots, NEW up, UtmpRemove(i, up),
         cookies' = cookies, nsid' = nsid,
         \A p \in Pids : proc'[p].slot # 0 => proc'[p] = proc[p] /\ proc[p].slot # i
  PROVE  Ours(utmp', keys', proc', cookies', nsid')
  <1>1. /\ utmp \in Tables /\ keys \in SUBSET Keys /\ proc \in [Pids -> Procs]
        /\ cookies \in SUBSET Cookies /\ nsid \in Nat
        /\ Ours(utmp, keys, proc, cookies, nsid)
    BY OInvNow
  <1>2. utmp' \in Tables /\ proc' \in [Pids -> Procs]
    BY DEF TypeOK, Tables, Procs
  <1>3. keys' \in SUBSET keys
    BY DEF UtmpRemove, WithoutKeys
  <1>4. \A k \in Slots : utmp'[k] = IF k = i THEN Zero ELSE utmp[k]
    BY <1>1 DEF UtmpRemove, Tables
  <1>5. Fewer(utmp', utmp)
    BY <1>4 DEF Fewer, Zero
  <1>6. GoOn(proc', proc, utmp')
    <2> SUFFICES ASSUME NEW p \in Pids, proc'[p].slot # 0
                 PROVE  proc'[p] = proc[p] /\ utmp'[proc[p].slot].active
      BY DEF GoOn
    <2>1. proc[p].slot \in Slots /\ utmp[proc[p].slot].active
      BY <1>1 DEF Ours, Mine, Procs
    <2> QED BY <2>1, <1>4
  <1>7. Ours(utmp', keys', proc', cookies, nsid)
    BY <1>1, <1>2, <1>3, <1>5, <1>6, FewerOurs
  <1> QED BY <1>7

\* Entries rewritten with the session they had, processes that stop, keys that
\* expire.
LEMMA SameOurs ==
  ASSUME OInv, TypeOK', broken = {}, keys' \in SUBSET keys,
         \A i \in Slots : /\ utmp'[i].active = utmp[i].active /\ utmp'[i].pid = utmp[i].pid
                          /\ utmp'[i].uid = utmp[i].uid /\ utmp'[i].sid = utmp[i].sid,
         \A p \in Pids : proc'[p].slot # 0 => proc'[p] = proc[p],
         cookies' = cookies, nsid' = nsid
  PROVE  Ours(utmp', keys', proc', cookies', nsid')
  <1>1. /\ utmp \in Tables /\ keys \in SUBSET Keys /\ proc \in [Pids -> Procs]
        /\ cookies \in SUBSET Cookies /\ nsid \in Nat
        /\ Ours(utmp, keys, proc, cookies, nsid)
    BY OInvNow
  <1>2. utmp' \in Tables /\ proc' \in [Pids -> Procs]
    BY DEF TypeOK, Tables, Procs
  <1>3. Fewer(utmp', utmp)
    BY DEF Fewer
  <1>4. GoOn(proc', proc, utmp')
    <2> SUFFICES ASSUME NEW p \in Pids, proc'[p].slot # 0
                 PROVE  proc'[p] = proc[p] /\ utmp'[proc[p].slot].active
      BY DEF GoOn
    <2>1. proc[p].slot \in Slots /\ utmp[proc[p].slot].active
      BY <1>1 DEF Ours, Mine, Procs
    <2> QED BY <2>1
  <1>5. Ours(utmp', keys', proc', cookies, nsid)
    BY <1>1, <1>2, <1>3, <1>4, FewerOurs
  <1> QED BY <1>5

\* The session a cookie names is a web session, which no process holds.
LEMMA CookieLogoutOurs ==
  ASSUME OInv, TypeOK', broken = {}, NEW c \in cookies, NEW i \in Slots, NEW up,
         utmp[i].sid = c.sid, UtmpRemove(i, up), UNCHANGED <<proc, cookies, nsid>>
  PROVE  Ours(utmp', keys', proc', cookies', nsid')
  <1>1. utmp[i].active /\ Ours(utmp, keys, proc, cookies, nsid)
    BY OInvNow DEF UtmpRemove
  <1>2. utmp[i].pid = WebPid
    BY <1>1 DEF Ours, CookiesWeb
  <1>3. ASSUME NEW p \in Pids, proc[p].slot # 0 PROVE proc[p].slot # i
    BY <1>1, <1>2, <1>3, TableAssumption DEF Ours, Mine
  <1> QED BY <1>3, RemoveOurs

-----------------------------------------------------------------------------
LEMMA InitOInv == Init => OInv
  <1> SUFFICES ASSUME Init PROVE OInv
    OBVIOUS
  <1>1. TypeOK
    BY InitIInv DEF IInv
  <1>2. Mine(utmp, proc)
    BY DEF Init, Mine, NoProc
  <1>3. /\ OneEntry(utmp) /\ KeysHome(utmp, keys) /\ CookiesWeb(utmp, cookies)
        /\ Drawn(utmp, keys, cookies, nsid)
    BY DEF Init, OneEntry, KeysHome, CookiesWeb, Drawn, Zero
  <1> QED BY <1>1, <1>2, <1>3 DEF OInv, Ours

\* Damage stays; while there is none, every operation keeps the sessions apart.
LEMMA NextOurs ==
  ASSUME OInv, TypeOK', Next, broken' = {}
  PROVE  Ours(utmp', keys', proc', cookies', nsid')
  <1>0. TypeOK /\ utmp \in [Slots -> Entries]
    BY DEF OInv, TypeOK
  <1>1. ASSUME NEW u \in Users, NEW t \in Types, NEW pid \in Pids \cup {WebPid},
               NEW h \in Homes, NEW up \in RedisUp, Login(u, t, pid, h, up)
        PROVE  Ours(utmp', keys', proc', cookies', nsid')
    BY <1>1, LoginOurs
  <1>2. ASSUME NEW c \in cookies, Touch(c)
        PROVE  Ours(utmp', keys', proc', cookies', nsid')
    <2>1. PICK i \in Lookup(keys, c) : Matches(c, i) /\ utmp' = [utmp EXCEPT ![i].last = now]
      BY <1>2 DEF Touch
    <2>2. \A k \in Slots : /\ utmp'[k].active = utmp[k].active /\ utmp'[k].pid = utmp[k].pid
                           /\ utmp'[k].uid = utmp[k].uid /\ utmp'[k].sid = utmp[k].sid
      BY <1>0, <2>1 DEF Entries
    <2> QED BY <1>2, <2>2, SameOurs DEF Touch
  <1>3. ASSUME NEW c \in cookies, NEW up \in RedisUp, WwwLogout(c, up)
        PROVE  Ours(utmp', keys', proc', cookies', nsid')
    <2>1. PICK i \in Lookup(keys, c) : Matches(c, i) /\ UtmpRemove(i, up)
      BY <1>3 DEF WwwLogout
    <2>2. i \in Slots
      BY <1>0 DEF Lookup, TypeOK
    <2> QED BY <1>3, <2>1, <2>2, CookieLogoutOurs DEF WwwLogout, Matches
  <1>4. ASSUME NEW c \in cookies, NEW up \in RedisUp, ApiLogout(c, up)
        PROVE  Ours(utmp', keys', proc', cookies', nsid')
    <2>1. PICK i \in Lookup(keys, c) :
            /\ UtmpRemove(i, up)
            /\ broken' = broken \cup (IF utmp[i].sid = c.sid THEN {} ELSE {"misdirected"})
      BY <1>4 DEF ApiLogout
    <2>2. i \in Slots
      BY <1>0 DEF Lookup, TypeOK
    <2>3. broken = {} /\ utmp[i].sid = c.sid
      BY <2>1
    <2> QED BY <1>4, <2>1, <2>2, <2>3, CookieLogoutOurs DEF ApiLogout
  <1>5. ASSUME NEW p \in Pids, NEW up \in RedisUp, TelnetExit(p, up)
        PROVE  Ours(utmp', keys', proc', cookies', nsid')
    <2> DEFINE s == proc[p].slot
    <2>1. /\ proc' = [proc EXCEPT ![p] = NoProc] /\ broken = {}
          /\ UNCHANGED <<cookies, nsid>>
      BY <1>5 DEF TelnetExit
    <2>2. \A q \in Pids : proc'[q].slot # 0 => q # p /\ proc'[q] = proc[q]
      BY <1>0, <2>1 DEF TypeOK, NoProc
    <2>3. CASE s # 0 /\ UtmpRemove(s, up)
      <3>1. s \in Slots /\ Ours(utmp, keys, proc, cookies, nsid)
        BY <1>0, <2>1, <2>3, OInvNow DEF TypeOK
      <3>2. ASSUME NEW q \in Pids, q # p, proc[q].slot # 0 PROVE proc[q].slot # s
        BY <2>3, <3>1, <3>2 DEF Ours, Mine
      <3> HIDE DEF s
      <3> QED BY <2>1, <2>2, <2>3, <3>1, <3>2, RemoveOurs
    <2>4. CASE UNCHANGED <<utmp, rows, keys>>
      BY <2>1, <2>2, <2>4, SameOurs
    <2> QED BY <1>5, <2>3, <2>4 DEF TelnetExit
  <1>6. ASSUME NEW p \in Pids, TelnetCrash(p)
        PROVE  Ours(utmp', keys', proc', cookies', nsid')
    <2>1. \A q \in Pids : proc'[q].slot # 0 => proc'[q] = proc[q]
      BY <1>0, <1>6 DEF TelnetCrash, TypeOK, NoProc
    <2> QED BY <1>6, <2>1, SameOurs DEF TelnetCrash
  <1>7. ASSUME NEW p \in Pids, TelnetUpdate(p)
        PROVE  Ours(utmp', keys', proc', cookies', nsid')
    <2> DEFINE s == proc[p].slot
    <2>1. /\ broken = {} /\ s # 0
          /\ UNCHANGED <<keys, proc, cookies, nsid>>
          /\ utmp' = [utmp EXCEPT ![s] =
                        [@ EXCEPT !.last = now, !.sid = proc[p].sid, !.name = proc[p].uid,
                                  !.start = 0, !.kicked = FALSE]]
      BY <1>7 DEF TelnetUpdate
    <2>2. s \in Slots /\ utmp[s].sid = proc[p].sid
      BY <1>0, <2>1, OInvNow DEF TypeOK, Ours, Mine
    <2> HIDE DEF s
    <2>3. \A k \in Slots : /\ utmp'[k].active = utmp[k].active /\ utmp'[k].pid = utmp[k].pid
                           /\ utmp'[k].uid = utmp[k].uid /\ utmp'[k].sid = utmp[k].sid
      BY <1>0, <2>1, <2>2 DEF Entries
    <2> QED BY <2>1, <2>3, SameOurs
  <1>8. ASSUME NEW i \in Slots, Kick(i)
        PROVE  Ours(utmp', keys', proc', cookies', nsid')
    <2>1. \A k \in Slots : /\ utmp'[k].active = utmp[k].active /\ utmp'[k].pid = utmp[k].pid
                           /\ utmp'[k].uid = utmp[k].uid /\ utmp'[k].sid = utmp[k].sid
      BY <1>0, <1>8 DEF Kick, Entries
    <2> QED BY <1>8, <2>1, SameOurs DEF Kick
  <1>9. ASSUME NEW u \in Users, Count(u)
        PROVE  Ours(utmp', keys', proc', cookies', nsid')
    BY <1>9, SameOurs DEF Count
  <1>10. ASSUME NEW k \in keys, KeyExpires(k)
         PROVE  Ours(utmp', keys', proc', cookies', nsid')
    BY <1>10, SameOurs DEF KeyExpires
  <1>11. ASSUME Tick
         PROVE  Ours(utmp', keys', proc', cookies', nsid')
    BY <1>11, SameOurs DEF Tick
  <1> QED
    BY <1>1, <1>2, <1>3, <1>4, <1>5, <1>6, <1>7, <1>8, <1>9, <1>10, <1>11 DEF Next

LEMMA NextOInv == OInv /\ TypeOK' /\ [Next]_vars => OInv'
  <1>1. ASSUME OInv, TypeOK', Next PROVE OInv'
    BY <1>1, NextOurs DEF OInv
  <1>2. ASSUME OInv, UNCHANGED vars PROVE OInv'
    BY <1>2 DEF OInv, vars, TypeOK, Ours, Mine, OneEntry, KeysHome, CookiesWeb, Drawn
  <1> QED BY <1>1, <1>2

LEMMA AlwaysOInv == Spec => []OInv
  BY InitOInv, NextOInv, TypeCorrect, PTL DEF Spec

\* SessionKeysHome: whatever logins, logouts, evictions, sweeps and expiries
\* interleave, an undamaged cache never has two sessions of one id, and no
\* Redis key of an open session leads anywhere but to it.
THEOREM SessionKeysHome == Spec => []KeyPointsHome
  <1>1. OInv => KeyPointsHome
    <2> SUFFICES ASSUME OInv, broken = {}, NEW i \in Slots, utmp[i].active
                 PROVE  /\ \A j \in Slots : utmp[j].active /\ utmp[j].sid = utmp[i].sid => j = i
                        /\ \A k \in keys : k.sid = utmp[i].sid =>
                             k.slot = i /\ k.user = utmp[i].uid
      BY DEF KeyPointsHome
    <2> QED BY DEF OInv, Ours, OneEntry, KeysHome
  <1> QED BY AlwaysOInv, <1>1, PTL

\* ProcessesKeepEntries: in an undamaged cache no eviction, sweep or logout of
\* another takes the entry a running process still writes to through utmpent.
THEOREM ProcessesKeepEntries == Spec => []ProcessKeepsEntry
  <1>1. OInv => ProcessKeepsEntry
    <2> SUFFICES ASSUME OInv, broken = {}, NEW p \in Running, proc[p].slot # 0
                 PROVE  LET e == utmp[proc[p].slot]
                        IN  e.active /\ e.pid = p /\ e.uid = proc[p].uid /\ e.sid = proc[p].sid
      BY DEF ProcessKeepsEntry
    <2> QED BY DEF OInv, Ours, Mine, Running
  <1> QED BY AlwaysOInv, <1>1, PTL

-----------------------------------------------------------------------------
(* The cache implements Sessions: its active entries are a set of sessions *)
(* that only logins, logouts and what was due anyway change.               *)

\* The web sessions of a row are in its web positions.
Home(ut, rw) ==
  \A u \in Users, p \in Positions :
    rw[u][p] # 0 /\ ut[rw[u][p]].pid = WebPid => p \in WebPositions

RInv == IInv /\ OInv /\ ("overrun" \notin broken => Home(utmp, rows))

\* The session an entry stands for, and the sets Sessions speaks of.
Sess(e) == [sid |-> e.sid, user |-> e.uid, web |-> e.pid = WebPid]
LiveOf(ut) == {Sess(ut[i]) : i \in {j \in Slots : ut[j].active}}
DueOf(ut, time, alive) == {Sess(ut[i]) : i \in {j \in Slots : Doomed(ut[j], time, alive)}}
WebsOf(S, u) == {s \in S : s.user = u /\ s.web}

LEMMA DueLive ==
  ASSUME NEW ut, NEW time, NEW alive
  PROVE  DueOf(ut, time, alive) \subseteq LiveOf(ut)
  BY DEF DueOf, LiveOf, Doomed

\* Rows that lose indices, entries that keep their pid or are cleared.
LEMMA FewerHome ==
  ASSUME NEW ut, NEW rw, NEW ut2, NEW rw2, rw \in Rows, Home(ut, rw),
         \A u \in Users, p \in Positions : rw2[u][p] \in {0, rw[u][p]},
         \A i \in Slots : ut2[i].pid = WebPid => ut[i].pid = WebPid
  PROVE  Home(ut2, rw2)
  <1> SUFFICES ASSUME NEW u \in Users, NEW p \in Positions,
                      rw2[u][p] # 0, ut2[rw2[u][p]].pid = WebPid
               PROVE  p \in WebPositions
    BY DEF Home
  <1>1. rw2[u][p] = rw[u][p] /\ rw[u][p] \in Slots
    BY DEF Rows
  <1>2. ut[rw[u][p]].pid = WebPid
    BY <1>1
  <1> QED BY <1>1, <1>2 DEF Home

LEMMA SweepHome ==
  ASSUME NEW ut \in Tables, NEW rw \in Rows, NEW ks, NEW up, NEW alive,
         Sweep(ut, rw, ks, up, alive), Home(ut, rw)
  PROVE  Home(utmp', rows')
  <1>1. CASE now > uptime + SweepPeriod
    <2> DEFINE due == {i \in Slots : Doomed(ut[i], now, alive)}
    <2>1. /\ utmp' = SweptTable(ut, due)
          /\ rows' = [u \in Users |-> SweptRow(rw[u], u, ut, due)]
      BY <1>1 DEF Sweep
    <2> HIDE DEF due
    <2>2. \A u \in Users, p \in Positions : rows'[u][p] \in {0, rw[u][p]}
      BY <2>1 DEF SweptRow
    <2>3. \A i \in Slots : utmp'[i].pid = WebPid => ut[i].pid = WebPid
      BY <2>1 DEF SweptTable, Zero, WebPid
    <2> QED BY <2>2, <2>3, FewerHome
  <1>2. CASE ~(now > uptime + SweepPeriod)
    BY <1>2 DEF Sweep
  <1> QED BY <1>1, <1>2

\* A login that did not overrun the table: no place in it, none in the row, or
\* a new session in a free slot and the sweep.
Inserted(j, u, pid) == [utmp EXCEPT ![j] = NewEntry(u, pid, nsid + 1, now)]
Parted(ut, out) == IF out = 0 THEN ut ELSE [ut EXCEPT ![out].active = FALSE]
Opens(j, u, t, pid, up) ==
  \E p \in Landing(Inserted(j, u, pid), rows[u], u, j, Segment[t], now), ks \in SUBSET Keys :
    Sweep(Parted(Inserted(j, u, pid), Evicted(Inserted(j, u, pid), rows[u], u, j, p)),
          [rows EXCEPT ![u][p] = j], ks, up, Running \cup {pid})

LEMMA LoginParts ==
  ASSUME IInv, "overrun" \notin broken', NEW u \in Users, NEW t \in Types,
         NEW pid \in Pids \cup {WebPid}, NEW h \in Homes, NEW up \in RedisUp,
         Login(u, t, pid, h, up)
  PROVE  \/ UNCHANGED <<utmp, rows, nsid, broken>>
         \/ /\ nsid' = nsid + 1 /\ broken' = broken
            /\ \E j \in Free(utmp) :
                 \/ utmp' = [utmp EXCEPT ![j] = Zero] /\ rows' = rows
                 \/ Opens(j, u, t, pid, up)
  <1>1. CASE Claims(utmp, h) = {} /\ UNCHANGED <<utmp, rows, keys, uptime, nsid, broken>>
    BY <1>1
  <1>2. CASE \E c \in Claims(utmp, h) :
          LET sid    == nsid + 1
              copied == [utmp EXCEPT ![c.entry] = NewEntry(u, pid, sid, now)]
              spots  == Landing(copied, rows[u], u, c.index, Segment[t], now)
          IN  /\ nsid' = sid
              /\ broken' = broken \cup (IF c.entry = c.index THEN {} ELSE {"overrun"})
              /\ \/ /\ spots = {}
                    /\ utmp' = [utmp EXCEPT ![c.entry] = Zero]
                    /\ Answer(u, pid, sid, 0)
                    /\ UNCHANGED <<rows, keys, uptime>>
                 \/ \E p \in spots :
                      /\ Place(u, c, sid, copied, p, up, Running \cup {pid})
                      /\ Answer(u, pid, sid, c.index)
    <2>1. PICK c \in Claims(utmp, h) :
            LET sid    == nsid + 1
                copied == [utmp EXCEPT ![c.entry] = NewEntry(u, pid, sid, now)]
                spots  == Landing(copied, rows[u], u, c.index, Segment[t], now)
            IN  /\ nsid' = sid
                /\ broken' = broken \cup (IF c.entry = c.index THEN {} ELSE {"overrun"})
                /\ \/ /\ utmp' = [utmp EXCEPT ![c.entry] = Zero]
                      /\ UNCHANGED rows
                   \/ \E p \in spots : Place(u, c, sid, copied, p, up, Running \cup {pid})
      BY <1>2
    <2>2. c.entry = c.index /\ broken' = broken
      BY <2>1
    <2> DEFINE j == c.entry
    <2>3. j \in Free(utmp) /\ j \in Slots
      BY <2>2, ClaimsType DEF IInv, TypeOK
    <2>4. CASE \E p \in Landing(Inserted(j, u, pid), rows[u], u, j, Segment[t], now) :
                 Place(u, c, nsid + 1, Inserted(j, u, pid), p, up, Running \cup {pid})
      <3>1. PICK p \in Landing(Inserted(j, u, pid), rows[u], u, j, Segment[t], now) :
              Place(u, c, nsid + 1, Inserted(j, u, pid), p, up, Running \cup {pid})
        BY <2>4
      <3> DEFINE ks == IF up THEN keys \cup {Key(nsid + 1, u, j, now)} ELSE keys
      <3>2. ks \in SUBSET Keys
        BY <2>3 DEF IInv, TypeOK, Keys, Key
      <3>3. Sweep(Parted(Inserted(j, u, pid), Evicted(Inserted(j, u, pid), rows[u], u, j, p)),
                  [rows EXCEPT ![u][p] = j], ks, up, Running \cup {pid})
        BY <3>1, <2>2 DEF Place, Parted
      <3> HIDE DEF ks
      <3>4. Opens(j, u, t, pid, up)
        BY <3>1, <3>2, <3>3 DEF Opens
      <3> QED BY <2>1, <2>2, <2>3, <3>4
    <2>5. CASE utmp' = [utmp EXCEPT ![j] = Zero] /\ rows' = rows
      BY <2>1, <2>2, <2>3, <2>5
    <2> QED BY <2>1, <2>2, <2>4, <2>5 DEF Inserted
  <1> QED BY <1>1, <1>2 DEF Login

\* What a login that opens a session has done to the table: one slot is new,
\* one web session of the user is evicted, and those due are cleared.
LEMMA OpensTable ==
  ASSUME IInv, Exact(utmp, rows, proc), NEW u \in Users, NEW t \in Types,
         NEW pid \in Pids \cup {WebPid}, NEW up \in RedisUp,
         NEW j \in Free(utmp), Opens(j, u, t, pid, up)
  PROVE  \E out \in Slots \cup {0}, D \in SUBSET Slots :
           /\ out # 0 => utmp[out].active /\ utmp[out].uid = u /\ utmp[out].pid = WebPid
           /\ j \notin D /\ j # out
           /\ \A i \in D : Doomed(utmp[i], now, Running)
           /\ utmp'[j] = NewEntry(u, pid, nsid + 1, now)
           /\ \A i \in Slots \ {j} :
                /\ utmp'[i].active <=> (utmp[i].active /\ i # out /\ i \notin D)
                /\ utmp'[i].active => Sess(utmp'[i]) = Sess(utmp[i])
  <1> DEFINE cp == Inserted(j, u, pid)
             new == NewEntry(u, pid, nsid + 1, now)
  <1>0. /\ utmp \in Tables /\ rows \in Rows /\ nsid \in Nat /\ now \in Nat /\ Owned(utmp)
        /\ j \in Slots /\ j # 0
    BY TableAssumption DEF IInv, TypeOK, Tables, Rows, Free, Slots
  <1>1. PICK p \in Landing(cp, rows[u], u, j, Segment[t], now), ks \in SUBSET Keys :
          Sweep(Parted(cp, Evicted(cp, rows[u], u, j, p)),
                [rows EXCEPT ![u][p] = j], ks, up, Running \cup {pid})
    BY DEF Opens
  <1>2. /\ new \in Entries /\ new.active /\ new.pid = pid /\ new.last = now /\ ~new.kicked
        /\ (pid = WebPid => new.start = now)
    BY <1>0, NewEntryType DEF NewEntry
  <1>3. cp \in Tables /\ \A i \in Slots : cp[i] = IF i = j THEN new ELSE utmp[i]
    BY <1>0, <1>2 DEF Inserted, Tables
  <1> DEFINE out == Evicted(cp, rows[u], u, j, p)
             pt == Parted(cp, out)
             D == IF now > uptime + SweepPeriod
                    THEN {i \in Slots : Doomed(pt[i], now, Running \cup {pid})} ELSE {}
  <1> HIDE DEF cp, new
  <1>4. ASSUME out # 0
        PROVE  /\ out \in Slots /\ out # j
               /\ utmp[out].active /\ utmp[out].uid = u /\ utmp[out].pid = WebPid
    <2>1. Segment[t] \in SUBSET Positions /\ rows[u] \in [Positions -> Slots \cup {0}]
      BY <1>0 DEF Positions, Rows
    <2>2. out \in Slots /\ out # j /\ cp[out].active /\ cp[out].pid \in {0, WebPid}
      BY <1>3, <1>4, <2>1, EvictedIsWeb
    <2>3. cp[out] = utmp[out]
      BY <1>3, <2>2
    <2>4. utmp[out].pid # 0
      BY <1>0, <2>2, <2>3 DEF Owned
    <2>5. cp[out].uid = u
      BY <1>4 DEF Evicted, Vacant
    <2> QED BY <2>2, <2>3, <2>4, <2>5
  <1>5. out \in Slots \cup {0} /\ j # out
    BY <1>4, <1>0
  <1> HIDE DEF out
  <1>6. \A i \in Slots : /\ pt[i].active <=> (cp[i].active /\ i # out)
                         /\ i # out => pt[i] = cp[i]
    <2>1. CASE out = 0
      <3>1. 0 \notin Slots
        BY TableAssumption DEF Slots
      <3> QED BY <2>1, <3>1 DEF Parted
    <2>2. CASE out # 0
      <3>1. pt = [cp EXCEPT ![out].active = FALSE] /\ out \in Slots
        BY <2>2, <1>5 DEF Parted
      <3> HIDE DEF pt
      <3>2. \A i \in Slots : pt[i] = IF i = out THEN [cp[out] EXCEPT !.active = FALSE] ELSE cp[i]
        BY <3>1, <1>3 DEF Tables
      <3>3. [cp[out] EXCEPT !.active = FALSE].active = FALSE
        BY <3>1, <1>3 DEF Tables, Entries
      <3> QED BY <3>2, <3>3
    <2> QED BY <2>1, <2>2
  <1> HIDE DEF pt
  <1>7. D \in SUBSET Slots /\ \A i \in Slots : utmp'[i] = IF i \in D THEN Zero ELSE pt[i]
    <2>1. CASE now > uptime + SweepPeriod
      BY <1>1, <2>1 DEF Sweep, SweptTable, out, pt
    <2>2. CASE ~(now > uptime + SweepPeriod)
      BY <1>1, <2>2 DEF Sweep, out, pt
    <2> QED BY <2>1, <2>2
  <1>8. \A i \in D : Doomed(pt[i], now, Running \cup {pid})
    OBVIOUS
  <1> HIDE DEF D
  <1>9. j \notin D
    <2>1. pt[j] = new
      BY <1>0, <1>3, <1>5, <1>6
    <2>2. ~Doomed(new, now, Running \cup {pid})
      <3>1. CASE pid = WebPid
        <4>1. now - now = 0 /\ ~(0 > MaxIdle) /\ ~(0 > MaxSess)
          BY <1>0, TableAssumption
        <4> QED BY <1>2, <3>1, <4>1 DEF Doomed
      <3>2. CASE pid # WebPid
        BY <1>2, <3>2 DEF Doomed
      <3> QED BY <3>1, <3>2
    <2> QED BY <1>8, <2>1, <2>2
  <1>10. ASSUME NEW i \in D PROVE Doomed(utmp[i], now, Running)
    <2>1. pt[i].active
      BY <1>8 DEF Doomed
    <2>2. i \in Slots /\ i # j /\ i # out
      BY <1>6, <1>7, <1>9, <2>1
    <2>3. pt[i] = utmp[i]
      BY <1>3, <1>6, <2>2
    <2> QED BY <1>8, <2>3 DEF Doomed
  <1>11. utmp'[j] = new
    BY <1>0, <1>3, <1>5, <1>6, <1>7, <1>9
  <1>12. ASSUME NEW i \in Slots \ {j}
         PROVE  /\ utmp'[i].active <=> (utmp[i].active /\ i # out /\ i \notin D)
                /\ utmp'[i].active => Sess(utmp'[i]) = Sess(utmp[i])
    <2>1. CASE i \in D
      BY <1>7, <2>1 DEF Zero
    <2>2. CASE i \notin D
      BY <1>3, <1>6, <1>7, <2>2
    <2> QED BY <2>1, <2>2
  <1>13. out # 0 => utmp[out].active /\ utmp[out].uid = u /\ utmp[out].pid = WebPid
    BY <1>4 DEF out
  <1> QED BY <1>5, <1>7, <1>9, <1>10, <1>11, <1>12, <1>13 DEF new

-----------------------------------------------------------------------------
\* Nobody has more web sessions than his row has web positions.
LEMMA QuotaKept ==
  ASSUME NEW ut, NEW rw, NEW pr, Complete(ut, rw, pr), Home(ut, rw), NEW u \in Users
  PROVE  Cardinality(WebsOf(LiveOf(ut), u)) <= Cardinality(WebPositions)
  <1> DEFINE W == WebsOf(LiveOf(ut), u)
             P == WebPositions
             Holds(s, p) == rw[u][p] # 0 /\ Sess(ut[rw[u][p]]) = s
             f == [s \in W |-> CHOOSE p \in P : Holds(s, p)]
  <1>1. ASSUME NEW s \in W PROVE \E p \in P : Holds(s, p)
    <2>1. PICK i \in Slots : ut[i].active /\ s = Sess(ut[i])
      BY DEF WebsOf, LiveOf
    <2>2. ut[i].uid = u /\ ut[i].pid = WebPid
      BY <2>1 DEF WebsOf, Sess
    <2>3. PICK p \in Positions : rw[u][p] = i
      BY <2>1, <2>2 DEF Complete, Kept
    <2>4. i # 0
      BY TableAssumption DEF Slots
    <2>5. p \in P
      BY <2>2, <2>3, <2>4 DEF Home
    <2> QED BY <2>1, <2>3, <2>4, <2>5
  <1> HIDE DEF W, P
  <1>2. ASSUME NEW s \in W PROVE f[s] \in P /\ Holds(s, f[s])
    BY <1>1
  <1> HIDE DEF f
  <1>3. f \in [W -> P]
    BY <1>2 DEF f
  <1>4. \A s, r \in W : f[s] = f[r] => s = r
    BY <1>2
  <1>5. f \in Injection(W, P)
    BY <1>3, <1>4 DEF Injection, IsInjective
  <1>6. IsFiniteSet(P)
    <2>1. WebPositions \in SUBSET Positions
      BY DEF WebPositions, Positions
    <2> QED BY <2>1, CacheAssumption, FS_Subset DEF P
  <1> QED BY <1>5, <1>6, FS_Injection DEF W, P

-----------------------------------------------------------------------------
\* The steps of Sessions, told of the active entries.
LEMMA Aged ==
  ASSUME LiveOf(utmp') = LiveOf(utmp), UNCHANGED <<nsid, broken>>
  PROVE  Promise!Age
  BY DueLive DEF Promise!Age, LiveOf, DueOf, Sess, OpenSession, Doomed

LEMMA Refused ==
  ASSUME LiveOf(utmp') = LiveOf(utmp), nsid' = nsid + 1, broken' = broken
  PROVE  Promise!Refuse
  BY DueLive DEF Promise!Refuse, LiveOf, DueOf, Sess, OpenSession, Doomed

LEMMA Closed ==
  ASSUME NEW s \in LiveOf(utmp), LiveOf(utmp') = LiveOf(utmp) \ {s},
         UNCHANGED <<nsid, broken>>
  PROVE  \E x \in {OpenSession(i) : i \in {j \in Slots : utmp[j].active}} : Promise!Close(x)
  <1>1. s \in {OpenSession(i) : i \in {j \in Slots : utmp[j].active}}
    BY DEF LiveOf, Sess, OpenSession
  <1>2. Promise!Close(s)
    BY DueLive DEF Promise!Close, LiveOf, DueOf, Sess, OpenSession, Doomed
  <1> QED BY <1>1, <1>2

LEMMA SameCardinality ==
  ASSUME NEW S
  PROVE  Promise!Cardinality(S) = Cardinality(S)
  BY DEF Promise!Cardinality, Cardinality

LEMMA Opened ==
  ASSUME NEW u \in Users, NEW web \in BOOLEAN,
         NEW out \in SUBSET WebsOf(LiveOf(utmp), u), Cardinality(out) <= 1,
         NEW over \in SUBSET DueOf(utmp, now, Running),
         nsid' = nsid + 1, broken' = broken,
         LiveOf(utmp') = (LiveOf(utmp) \ (out \cup over))
                           \cup {[sid |-> nsid + 1, user |-> u, web |-> web]},
         Cardinality(WebsOf(LiveOf(utmp'), u)) <= Cardinality(WebPositions)
  PROVE  Promise!Open(u, web)
  <1> DEFINE L == {OpenSession(i) : i \in {j \in Slots : utmp[j].active}}
             D == {OpenSession(i) : i \in {j \in Slots : Doomed(utmp[j], now, Running)}}
  <1>1. L = LiveOf(utmp) /\ D = DueOf(utmp, now, Running)
    BY DEF LiveOf, DueOf, Sess, OpenSession
  <1>2. L' = LiveOf(utmp') /\ D' = DueOf(utmp', now', Running')
    BY DEF LiveOf, DueOf, Sess, OpenSession
  <1>3. D' \subseteq L'
    BY <1>2, DueLive
  <1> HIDE DEF L, D
  <1>4. \E o \in SUBSET {s \in L : s.user = u /\ s.web}, v \in SUBSET D :
          /\ Cardinality(o) <= 1
          /\ nsid' = nsid + 1
          /\ L' = (L \ (o \cup v)) \cup {[sid |-> nsid', user |-> u, web |-> web]}
          /\ Cardinality({s \in L' : s.user = u /\ s.web}) <= Cardinality(WebPositions)
          /\ D' \subseteq L'
          /\ UNCHANGED broken
    BY <1>1, <1>2, <1>3 DEF WebsOf
  <1> QED BY <1>4, SameCardinality DEF Promise!Open, Promise!WebOf, L, D

-----------------------------------------------------------------------------
LEMMA InsertHome ==
  ASSUME IInv, "overrun" \notin broken, Home(utmp, rows), NEW u \in Users, NEW t \in Types,
         NEW pid \in Pids \cup {WebPid}, NEW up \in RedisUp,
         pid = WebPid => t \notin ProcTypes,
         NEW j \in Free(utmp), Opens(j, u, t, pid, up)
  PROVE  Home(utmp', rows')
  <1> DEFINE cp == Inserted(j, u, pid)
             new == NewEntry(u, pid, nsid + 1, now)
  <1>0. /\ utmp \in Tables /\ rows \in Rows /\ nsid \in Nat /\ now \in Nat /\ Owned(utmp)
        /\ j \in Slots /\ j # 0 /\ Exact(utmp, rows, proc)
    BY TableAssumption DEF IInv, TypeOK, Tables, Rows, Free, Slots
  <1>1. PICK p \in Landing(cp, rows[u], u, j, Segment[t], now), ks \in SUBSET Keys :
          Sweep(Parted(cp, Evicted(cp, rows[u], u, j, p)),
                [rows EXCEPT ![u][p] = j], ks, up, Running \cup {pid})
    BY DEF Opens
  <1>2. new \in Entries /\ new.pid = pid
    BY <1>0, NewEntryType
  <1>3. cp \in Tables /\ \A i \in Slots : cp[i] = IF i = j THEN new ELSE utmp[i]
    BY <1>0, <1>2 DEF Inserted, Tables
  <1>4. p \in Segment[t] /\ p \in Positions
    BY LandingInSegment, SegmentPositions
  <1> DEFINE out == Evicted(cp, rows[u], u, j, p)
             pt == Parted(cp, out)
             rw == [rows EXCEPT ![u][p] = j]
  <1>5. out \in Slots \cup {0} /\ rw \in Rows
    BY <1>0, <1>4 DEF Evicted, Rows
  <1>6. \A v \in Users, q \in Positions : rw[v][q] = IF v = u /\ q = p THEN j ELSE rows[v][q]
    BY <1>0, <1>4 DEF Rows
  <1> HIDE DEF cp, new, out
  <1>7. pt \in Tables /\ \A i \in Slots : pt[i].pid = cp[i].pid
    <2>1. CASE out = 0
      BY <2>1, <1>3 DEF Parted
    <2>2. CASE out # 0
      <3>1. pt = [cp EXCEPT ![out].active = FALSE] /\ out \in Slots
        BY <2>2, <1>5 DEF Parted
      <3> HIDE DEF pt
      <3>2. \A i \in Slots : pt[i] = IF i = out THEN [cp[out] EXCEPT !.active = FALSE] ELSE cp[i]
        BY <3>1, <1>3 DEF Tables
      <3>3. cp[out] \in Entries
        BY <3>1, <1>3 DEF Tables
      <3>4. /\ [cp[out] EXCEPT !.active = FALSE] \in Entries
            /\ [cp[out] EXCEPT !.active = FALSE].pid = cp[out].pid
        BY <3>3 DEF Entries
      <3>5. pt \in Tables
        BY <3>1, <3>4, <1>3 DEF Tables
      <3> QED BY <3>2, <3>4, <3>5
    <2> QED BY <2>1, <2>2
  <1> HIDE DEF pt, rw
  <1>8. Home(pt, rw)
    <2> SUFFICES ASSUME NEW v \in Users, NEW q \in Positions,
                        rw[v][q] # 0, pt[rw[v][q]].pid = WebPid
                 PROVE  q \in WebPositions
      BY DEF Home
    <2>1. CASE v = u /\ q = p
      <3>1. pid = WebPid
        BY <2>1, <1>0, <1>2, <1>3, <1>6, <1>7
      <3> QED BY <2>1, <3>1, <1>4 DEF WebPositions
    <2>2. CASE ~(v = u /\ q = p)
      <3>1. rw[v][q] = rows[v][q] /\ rows[v][q] \in Slots
        BY <2>2, <1>0, <1>6 DEF Rows
      <3>2. rows[v][q] # j
        BY <1>0, FreeUnindexed DEF Exact, Tables
      <3>3. utmp[rows[v][q]].pid = WebPid
        BY <3>1, <3>2, <1>3, <1>7
      <3> QED BY <3>1, <3>3 DEF Home
    <2> QED BY <2>1, <2>2
  <1> QED BY <1>1, <1>5, <1>7, <1>8, SweepHome DEF pt, rw, out

LEMMA NextHome ==
  ASSUME IInv, Next, "overrun" \notin broken', "overrun" \notin broken => Home(utmp, rows)
  PROVE  Home(utmp', rows')
  <1>0. utmp \in Tables /\ rows \in Rows /\ proc \in [Pids -> Procs] /\ keys \in SUBSET Keys
    BY DEF IInv, TypeOK, Tables, Rows, Procs, Keys
  <1>1. ASSUME NEW u \in Users, NEW t \in Types, NEW pid \in Pids \cup {WebPid},
               NEW h \in Homes, NEW up \in RedisUp, Login(u, t, pid, h, up)
        PROVE  Home(utmp', rows')
    <2>1. broken = broken' \/ UNCHANGED <<utmp, rows, nsid, broken>>
      BY <1>1, LoginParts
    <2>2. Home(utmp, rows) /\ "overrun" \notin broken
      BY <2>1
    <2>3. pid = WebPid => t \notin ProcTypes
      BY <1>1, TableAssumption DEF Login
    <2>4. CASE UNCHANGED <<utmp, rows>>
      BY <2>2, <2>4
    <2>5. ASSUME NEW j \in Free(utmp), utmp' = [utmp EXCEPT ![j] = Zero], rows' = rows
          PROVE  Home(utmp', rows')
      <3>1. \A i \in Slots : utmp'[i].pid = WebPid => utmp[i].pid = WebPid
        BY <2>5, <1>0 DEF Tables, Zero, WebPid
      <3>2. \A v \in Users, p \in Positions : rows'[v][p] \in {0, rows[v][p]}
        BY <2>5
      <3> QED BY <3>1, <3>2, <2>2, <1>0, FewerHome
    <2>6. ASSUME NEW j \in Free(utmp), Opens(j, u, t, pid, up)
          PROVE  Home(utmp', rows')
      BY <2>2, <2>3, <2>6, InsertHome
    <2> QED BY <1>1, <2>4, <2>5, <2>6, LoginParts
  <1>2. ASSUME rows' = rows, broken' = broken, \A i \in Slots : utmp'[i].pid = utmp[i].pid
        PROVE  Home(utmp', rows')
    <2>1. \A v \in Users, p \in Positions : rows'[v][p] \in {0, rows[v][p]}
      BY <1>2
    <2> QED BY <2>1, <1>0, <1>2, FewerHome
  <1>3. ASSUME NEW i \in Slots, NEW up, UtmpRemove(i, up), "overrun" \notin broken
        PROVE  Home(utmp', rows')
    <2>1. \A v \in Users, p \in Positions : rows'[v][p] \in {0, rows[v][p]}
      BY <1>0, <1>3 DEF UtmpRemove, Unindex, Rows
    <2>2. \A k \in Slots : utmp'[k].pid = WebPid => utmp[k].pid = WebPid
      BY <1>0, <1>3 DEF UtmpRemove, Tables, Zero, WebPid
    <2> QED BY <2>1, <2>2, <1>0, <1>3, FewerHome
  <1>4. ASSUME NEW c \in cookies, Touch(c) PROVE Home(utmp', rows')
    <2>1. PICK i \in Lookup(keys, c) : utmp' = [utmp EXCEPT ![i].last = now]
      BY <1>4 DEF Touch
    <2>2. \A k \in Slots : utmp'[k].pid = utmp[k].pid
      BY <1>0, <2>1 DEF Tables, Entries
    <2> QED BY <1>2, <1>4, <2>2 DEF Touch
  <1>5. ASSUME NEW c \in cookies, NEW up \in RedisUp, WwwLogout(c, up) \/ ApiLogout(c, up)
        PROVE  Home(utmp', rows')
    <2>1. PICK i \in Lookup(keys, c) : UtmpRemove(i, up)
      BY <1>5 DEF WwwLogout, ApiLogout
    <2>2. i \in Slots /\ "overrun" \notin broken
      BY <1>0, <1>5 DEF Lookup, Keys, WwwLogout, ApiLogout
    <2> QED BY <1>3, <2>1, <2>2
  <1>6. ASSUME NEW p \in Pids, NEW up \in RedisUp, TelnetExit(p, up) PROVE Home(utmp', rows')
    <2>1. broken' = broken
          /\ \/ proc[p].slot # 0 /\ UtmpRemove(proc[p].slot, up)
             \/ UNCHANGED <<utmp, rows, keys>>
      BY <1>6 DEF TelnetExit
    <2>2. proc[p].slot \in Slots \cup {0}
      BY <1>0 DEF Procs
    <2> QED BY <1>2, <1>3, <2>1, <2>2
  <1>7. ASSUME NEW p \in Pids, TelnetCrash(p) PROVE Home(utmp', rows')
    BY <1>2, <1>7 DEF TelnetCrash
  <1>8. ASSUME NEW p \in Pids, TelnetUpdate(p) PROVE Home(utmp', rows')
    <2>1. \A k \in Slots : utmp'[k].pid = utmp[k].pid
      BY <1>0, <1>8 DEF TelnetUpdate, Tables, Entries
    <2> QED BY <1>2, <1>8, <2>1 DEF TelnetUpdate
  <1>9. ASSUME NEW i \in Slots, Kick(i) PROVE Home(utmp', rows')
    <2>1. \A k \in Slots : utmp'[k].pid = utmp[k].pid
      BY <1>0, <1>9 DEF Kick, Tables, Entries
    <2> QED BY <1>2, <1>9, <2>1 DEF Kick
  <1>10. ASSUME NEW u \in Users, Count(u) PROVE Home(utmp', rows')
    <2>1. \A v \in Users, p \in Positions : rows'[v][p] \in {0, rows[v][p]}
      BY <1>0, <1>10 DEF Count, Rows
    <2>2. utmp' = utmp /\ broken' = broken
      BY <1>10 DEF Count
    <2> QED BY <2>1, <2>2, <1>0, FewerHome
  <1>11. ASSUME NEW k \in keys, KeyExpires(k) PROVE Home(utmp', rows')
    BY <1>2, <1>11 DEF KeyExpires
  <1>12. ASSUME Tick PROVE Home(utmp', rows')
    BY <1>2, <1>12 DEF Tick
  <1> QED
    BY <1>1, <1>4, <1>5, <1>6, <1>7, <1>8, <1>9, <1>10, <1>11, <1>12 DEF Next

-----------------------------------------------------------------------------
\* Steps that rewrite entries without their session, or touch none.
LEMMA SameLive ==
  ASSUME \A i \in Slots : /\ utmp'[i].active = utmp[i].active /\ utmp'[i].pid = utmp[i].pid
                          /\ utmp'[i].uid = utmp[i].uid /\ utmp'[i].sid = utmp[i].sid
  PROVE  LiveOf(utmp') = LiveOf(utmp)
  <1>1. \A i \in Slots : Sess(utmp'[i]) = Sess(utmp[i])
    BY DEF Sess
  <1> QED BY <1>1 DEF LiveOf

\* utmp_remove ends one session.
LEMMA RemoveCloses ==
  ASSUME utmp \in Tables, OneEntry(utmp), NEW i \in Slots, NEW up, UtmpRemove(i, up),
         UNCHANGED <<nsid, broken>>
  PROVE  Promise!Next
  <1>1. \A k \in Slots : utmp'[k] = IF k = i THEN Zero ELSE utmp[k]
    BY DEF UtmpRemove, Tables
  <1>2. utmp[i].active
    BY DEF UtmpRemove
  <1>3. \A k \in Slots : utmp'[k].active <=> (utmp[k].active /\ k # i)
    BY <1>1 DEF Zero
  <1>4. \A k \in Slots : utmp[k].active /\ k # i => Sess(utmp[k]) # Sess(utmp[i])
    BY <1>2 DEF OneEntry, Sess
  <1>5. LiveOf(utmp') = LiveOf(utmp) \ {Sess(utmp[i])}
    BY <1>1, <1>2, <1>3, <1>4 DEF LiveOf
  <1>6. Sess(utmp[i]) \in LiveOf(utmp)
    BY <1>2 DEF LiveOf
  <1> QED BY <1>5, <1>6, Closed DEF Promise!Next

\* A login that opens a session keeps the promise.
LEMMA LoginOpens ==
  ASSUME IInv, IInv', broken = {}, OneEntry(utmp), Home(utmp', rows'),
         NEW u \in Users, NEW t \in Types, NEW pid \in Pids \cup {WebPid}, NEW up \in RedisUp,
         NEW j \in Free(utmp), Opens(j, u, t, pid, up), nsid' = nsid + 1, broken' = broken
  PROVE  Promise!Open(u, pid = WebPid)
  <1>0. /\ Exact(utmp, rows, proc) /\ Exact(utmp', rows', proc') /\ Owned(utmp)
        /\ j \in Slots /\ nsid \in Nat /\ now \in Nat
    BY DEF IInv, Free, TypeOK
  <1>1. PICK o \in Slots \cup {0}, E \in SUBSET Slots :
           /\ o # 0 => utmp[o].active /\ utmp[o].uid = u /\ utmp[o].pid = WebPid
           /\ j \notin E /\ j # o
           /\ \A i \in E : Doomed(utmp[i], now, Running)
           /\ utmp'[j] = NewEntry(u, pid, nsid + 1, now)
           /\ \A i \in Slots \ {j} :
                /\ utmp'[i].active <=> (utmp[i].active /\ i # o /\ i \notin E)
                /\ utmp'[i].active => Sess(utmp'[i]) = Sess(utmp[i])
    BY <1>0, OpensTable
  <1> DEFINE web  == pid = WebPid
             new  == [sid |-> nsid + 1, user |-> u, web |-> web]
             out  == IF o = 0 THEN {} ELSE {Sess(utmp[o])}
             over == {Sess(utmp[i]) : i \in E}
  <1>2. utmp'[j].active /\ Sess(utmp'[j]) = new
    BY <1>0, <1>1, NewEntryType DEF Sess, NewEntry
  <1>3. ~utmp[j].active
    BY <1>0 DEF Free, Owned
  <1>4. /\ out \in SUBSET WebsOf(LiveOf(utmp), u)
        /\ Cardinality(out) <= 1
    <2>1. CASE o = 0
      BY <2>1, FS_EmptySet
    <2>2. CASE o # 0
      <3>1. o \in Slots /\ utmp[o].active /\ utmp[o].uid = u /\ utmp[o].pid = WebPid
        BY <1>1, <2>2
      <3> DEFINE s == Sess(utmp[o])
      <3>2. s \in LiveOf(utmp)
        BY <3>1 DEF LiveOf
      <3>3. s.user = u /\ s.web
        BY <3>1 DEF Sess
      <3> HIDE DEF s
      <3>4. s \in WebsOf(LiveOf(utmp), u)
        BY <3>2, <3>3 DEF WebsOf
      <3>5. out = {s}
        BY <2>2 DEF s
      <3>6. Cardinality({s}) = 1
        BY FS_Singleton
      <3> HIDE DEF out
      <3> QED BY <3>4, <3>5, <3>6
    <2> QED BY <2>1, <2>2
  <1>6. over \in SUBSET DueOf(utmp, now, Running)
    BY <1>1 DEF DueOf
  <1>7. \A i \in E : utmp[i].active
    BY <1>1 DEF Doomed
  <1>8. \A i, k \in Slots : utmp[i].active /\ utmp[k].active /\ Sess(utmp[i]) = Sess(utmp[k]) => i = k
    BY DEF OneEntry, Sess
  <1> HIDE DEF new
  <1>9. LiveOf(utmp') = (LiveOf(utmp) \ (out \cup over)) \cup {new}
    <2>1. ASSUME NEW s \in LiveOf(utmp') PROVE s = new \/ s \in LiveOf(utmp) \ (out \cup over)
      <3>1. PICK i \in Slots : utmp'[i].active /\ s = Sess(utmp'[i])
        BY DEF LiveOf
      <3>2. CASE i = j
        BY <3>1, <3>2, <1>2
      <3>3. CASE i # j
        <4>1. utmp[i].active /\ i # o /\ i \notin E /\ s = Sess(utmp[i])
          BY <3>1, <3>3, <1>1
        <4>2. s \notin over
          BY <4>1, <1>7, <1>8
        <4>3. s \notin out
          BY <4>1, <1>1, <1>8
        <4> QED BY <4>1, <4>2, <4>3 DEF LiveOf
      <3> QED BY <3>2, <3>3
    <2>2. ASSUME NEW s \in LiveOf(utmp) \ (out \cup over) PROVE s \in LiveOf(utmp')
      <3>1. PICK i \in Slots : utmp[i].active /\ s = Sess(utmp[i])
        BY DEF LiveOf
      <3>2. i # j /\ i # o /\ i \notin E
        BY <3>1, <1>3, TableAssumption DEF Slots
      <3>3. utmp'[i].active /\ s = Sess(utmp'[i])
        BY <3>1, <3>2, <1>1
      <3> QED BY <3>3 DEF LiveOf
    <2>3. new \in LiveOf(utmp')
      BY <1>0, <1>2 DEF LiveOf
    <2> QED BY <2>1, <2>2, <2>3
  <1>10. Cardinality(WebsOf(LiveOf(utmp'), u)) <= Cardinality(WebPositions)
    BY <1>0, QuotaKept DEF Exact
  <1> HIDE DEF out, over
  <1> QED BY <1>4, <1>6, <1>9, <1>10, Opened DEF new

LEMMA NextPromise ==
  ASSUME RInv, RInv', Next
  PROVE  Promise!Next
  <1>0. CASE broken # {} \/ broken' # {}
    BY <1>0 DEF Promise!Next, Promise!Void
  <1> SUFFICES ASSUME broken = {}, broken' = {} PROVE Promise!Next
    BY <1>0
  <1>1. /\ utmp \in Tables /\ proc \in [Pids -> Procs] /\ keys \in SUBSET Keys
        /\ OneEntry(utmp) /\ Mine(utmp, proc) /\ IInv /\ IInv' /\ Home(utmp', rows')
        /\ broken' = broken
    BY OInvNow DEF RInv, Ours
  <1>2. ASSUME \A i \in Slots : /\ utmp'[i].active = utmp[i].active /\ utmp'[i].pid = utmp[i].pid
                                /\ utmp'[i].uid = utmp[i].uid /\ utmp'[i].sid = utmp[i].sid,
               nsid' = nsid
        PROVE  Promise!Next
    BY <1>1, <1>2, SameLive, Aged DEF Promise!Next
  <1>3. ASSUME NEW i \in Slots, NEW up, UtmpRemove(i, up), nsid' = nsid
        PROVE  Promise!Next
    BY <1>1, <1>3, RemoveCloses
  <1>4. ASSUME NEW u \in Users, NEW t \in Types, NEW pid \in Pids \cup {WebPid},
               NEW h \in Homes, NEW up \in RedisUp, Login(u, t, pid, h, up)
        PROVE  Promise!Next
    <2>1. CASE UNCHANGED <<utmp, rows, nsid, broken>>
      BY <1>2, <2>1
    <2>2. ASSUME NEW j \in Free(utmp), utmp' = [utmp EXCEPT ![j] = Zero], nsid' = nsid + 1
          PROVE  Promise!Next
      <3>1. ~utmp[j].active
        BY DEF Free, RInv, IInv, Owned
      <3>2. \A i \in Slots : utmp'[i] = IF i = j THEN Zero ELSE utmp[i]
        BY <1>1, <2>2 DEF Tables
      <3>3. LiveOf(utmp') = LiveOf(utmp)
        BY <3>1, <3>2 DEF LiveOf, Zero
      <3> QED BY <1>1, <2>2, <3>3, Refused DEF Promise!Next
    <2>3. ASSUME NEW j \in Free(utmp), Opens(j, u, t, pid, up), nsid' = nsid + 1
          PROVE  Promise!Next
      <3>1. Promise!Open(u, pid = WebPid)
        BY <1>1, <2>3, LoginOpens
      <3>2. (pid = WebPid) \in BOOLEAN
        OBVIOUS
      <3> QED BY <3>1, <3>2 DEF Promise!Next
    <2> QED BY <1>1, <1>4, <2>1, <2>2, <2>3, LoginParts
  <1>5. ASSUME NEW c \in cookies, Touch(c) PROVE Promise!Next
    <2>1. PICK i \in Lookup(keys, c) : utmp' = [utmp EXCEPT ![i].last = now]
      BY <1>5 DEF Touch
    <2>2. \A k \in Slots : /\ utmp'[k].active = utmp[k].active /\ utmp'[k].pid = utmp[k].pid
                           /\ utmp'[k].uid = utmp[k].uid /\ utmp'[k].sid = utmp[k].sid
      BY <1>1, <2>1 DEF Tables, Entries
    <2> QED BY <1>2, <1>5, <2>2 DEF Touch
  <1>6. ASSUME NEW c \in cookies, NEW up \in RedisUp, WwwLogout(c, up) \/ ApiLogout(c, up)
        PROVE  Promise!Next
    <2>1. PICK i \in Lookup(keys, c) : UtmpRemove(i, up)
      BY <1>6 DEF WwwLogout, ApiLogout
    <2>2. i \in Slots /\ nsid' = nsid
      BY <1>1, <1>6 DEF Lookup, Keys, WwwLogout, ApiLogout
    <2> QED BY <1>3, <2>1, <2>2
  <1>7. ASSUME NEW p \in Pids, NEW up \in RedisUp, TelnetExit(p, up) PROVE Promise!Next
    <2>1. nsid' = nsid
          /\ \/ proc[p].slot # 0 /\ UtmpRemove(proc[p].slot, up)
             \/ UNCHANGED <<utmp, rows, keys>>
      BY <1>7 DEF TelnetExit
    <2>2. proc[p].slot \in Slots \cup {0}
      BY <1>1 DEF Procs
    <2> QED BY <1>2, <1>3, <2>1, <2>2
  <1>8. ASSUME NEW p \in Pids, TelnetCrash(p) PROVE Promise!Next
    BY <1>2, <1>8 DEF TelnetCrash
  <1>9. ASSUME NEW p \in Pids, TelnetUpdate(p) PROVE Promise!Next
    <2> DEFINE s == proc[p].slot
    <2>1. /\ s # 0 /\ nsid' = nsid
          /\ utmp' = [utmp EXCEPT ![s] =
                        [@ EXCEPT !.last = now, !.sid = proc[p].sid, !.name = proc[p].uid,
                                  !.start = 0, !.kicked = FALSE]]
      BY <1>9 DEF TelnetUpdate
    <2>2. s \in Slots /\ utmp[s].sid = proc[p].sid
      BY <1>1, <2>1 DEF Procs, Mine
    <2> HIDE DEF s
    <2>3. \A k \in Slots : /\ utmp'[k].active = utmp[k].active /\ utmp'[k].pid = utmp[k].pid
                           /\ utmp'[k].uid = utmp[k].uid /\ utmp'[k].sid = utmp[k].sid
      BY <1>1, <2>1, <2>2 DEF Tables, Entries
    <2> QED BY <1>2, <2>1, <2>3
  <1>10. ASSUME NEW i \in Slots, Kick(i) PROVE Promise!Next
    <2>1. \A k \in Slots : /\ utmp'[k].active = utmp[k].active /\ utmp'[k].pid = utmp[k].pid
                           /\ utmp'[k].uid = utmp[k].uid /\ utmp'[k].sid = utmp[k].sid
      BY <1>1, <1>10 DEF Kick, Tables, Entries
    <2> QED BY <1>2, <1>10, <2>1 DEF Kick
  <1>11. ASSUME NEW u \in Users, Count(u) PROVE Promise!Next
    BY <1>2, <1>11 DEF Count
  <1>12. ASSUME NEW k \in keys, KeyExpires(k) PROVE Promise!Next
    BY <1>2, <1>12 DEF KeyExpires
  <1>13. ASSUME Tick PROVE Promise!Next
    BY <1>2, <1>13 DEF Tick
  <1> QED
    BY <1>4, <1>5, <1>6, <1>7, <1>8, <1>9, <1>10, <1>11, <1>12, <1>13 DEF Next

LEMMA StutterPromise ==
  ASSUME UNCHANGED vars
  PROVE  UNCHANGED Promise!vars
  BY DEF vars, Promise!vars, OpenSession, Running

LEMMA InitPromise == Init => Promise!Init
  <1> SUFFICES ASSUME Init PROVE Promise!Init
    OBVIOUS
  <1>1. \A i \in Slots : ~utmp[i].active
    BY DEF Init, Zero
  <1> QED BY <1>1 DEF Init, Promise!Init, Doomed

LEMMA InitRInv == Init => RInv
  <1>1. Init => Home(utmp, rows)
    BY DEF Init, Home
  <1> QED BY <1>1, InitIInv, InitOInv DEF RInv

LEMMA NextRInv == RInv /\ [Next]_vars => RInv'
  <1> SUFFICES ASSUME RInv, [Next]_vars PROVE RInv'
    OBVIOUS
  <1>1. IInv' /\ TypeOK'
    BY NextIInv DEF RInv, IInv
  <1>2. OInv'
    BY <1>1, NextOInv DEF RInv
  <1>3. ASSUME "overrun" \notin broken' PROVE Home(utmp', rows')
    <2>1. CASE Next
      BY <1>3, <2>1, NextHome DEF RInv
    <2>2. CASE UNCHANGED vars
      BY <1>3, <2>2 DEF RInv, vars
    <2> QED BY <2>1, <2>2
  <1> QED BY <1>1, <1>2, <1>3 DEF RInv

\* CacheServesSessions: for any table, rows, login types and Redis behaviour the
\* session cache implements Sessions: until the table overran or a stale cookie
\* hit, a login costs nobody a session but the user himself one of the web, or
\* sessions that were due, and the rows bound everybody's web sessions.
THEOREM CacheServesSessions == Spec => ServesSessions
  <1>1. RInv /\ RInv' /\ [Next]_vars => [Promise!Next]_(Promise!vars)
    BY NextPromise, StutterPromise
  <1> QED BY InitRInv, NextRInv, InitPromise, <1>1, PTL DEF Spec, ServesSessions, Promise!Spec

-----------------------------------------------------------------------------
(* SessionSteps: what a worker holds at each of its steps                  *)

Inserting == {"claim", "index", "publish", "sweep"}
WithSlot == {"index", "publish", "sweep", "check", "remove", "unkey", "wipe"}
StepNames == {"idle", "lock"} \cup Inserting \cup WithSlot

\* An entry is all zero or a web session; eviction only clears active.
WebEntries(n) ==
  {e \in [active : BOOLEAN, uid : Users, pid : {WebPid}, name : Users, sid : 1 .. n,
          last : Nat, start : Nat, kicked : BOOLEAN] : e.name = e.uid}
Table(n) == [Slots -> WebEntries(n) \cup {Zero}]
RowTable == [Users -> [Positions -> 0 .. NSlots]]
KeysTo(n) == [sid : 1 .. n, user : Users, slot : Slots, born : Nat]
JobsTo(n) == [user : Users \cup {NoUser}, type : Types \cup {""}, slot : 0 .. NSlots,
              sid : 0 .. n]

\* What a worker at step s with job j has in hand.
Fits(s, j) ==
  /\ s \in WithSlot => j.slot \in Slots
  /\ s \in {"lock"} \cup Inserting => j.user \in Users /\ j.type \in Types /\ j.sid # 0

\* StepsTypeOK: entries, rows, keys and jobs stay within their types, and no
\* session number that was not drawn is in use.
StepsTypeOK ==
  /\ nsid \in Nat
  /\ utmp \in Table(nsid)
  /\ rows \in RowTable
  /\ keys \subseteq KeysTo(nsid)
  /\ pc \in [Workers -> StepNames]
  /\ job \in [Workers -> JobsTo(nsid)]
  /\ dead \subseteq Workers
  /\ \A w \in Workers : Fits(pc[w], job[w])

\* LockHeld: .CACHE.utmp.lock is held by a worker exactly while it is alive
\* and between its fcntl and its unlock in utmp_insert.
LockHeld ==
  /\ lock \in Workers \cup {NoWorker}
  /\ \A w \in Workers : lock = w <=> w \notin dead /\ pc[w] \in Inserting

\* Between the claim and add_utmp_idx the entry is that of the login.
ClaimOwned ==
  \A w \in Workers :
    w \notin dead /\ pc[w] = "index" /\ utmp[job[w].slot].active
      => utmp[job[w].slot].uid = job[w].user

StepsInv == StepsTypeOK /\ LockHeld /\ ClaimOwned /\ InsertExclusive /\ UnindexedInHand

-----------------------------------------------------------------------------
(* Types                                                                   *)

LEMMA SlotsNat == Slots \subseteq Nat \ {0} /\ 0 \notin Slots /\ Slots \subseteq 0 .. NSlots
  BY TableAssumption DEF Slots

\* Types only grow as session numbers are drawn.
LEMMA TypesGrow ==
  ASSUME NEW n \in Nat
  PROVE  /\ WebEntries(n) \subseteq WebEntries(n + 1) /\ KeysTo(n) \subseteq KeysTo(n + 1)
         /\ JobsTo(n) \subseteq JobsTo(n + 1) /\ Table(n) \subseteq Table(n + 1)
  <1>1. 1 .. n \subseteq 1 .. n + 1 /\ 0 .. n \subseteq 0 .. n + 1
    OBVIOUS
  <1>2. WebEntries(n) \subseteq WebEntries(n + 1)
    BY <1>1, Zenon DEF WebEntries
  <1>3. KeysTo(n) \subseteq KeysTo(n + 1)
    BY <1>1 DEF KeysTo
  <1>4. JobsTo(n) \subseteq JobsTo(n + 1)
    BY <1>1 DEF JobsTo
  <1>5. Table(n) \subseteq Table(n + 1)
    <2>1. WebEntries(n) \cup {Zero} \subseteq WebEntries(n + 1) \cup {Zero}
      BY <1>2
    <2> QED BY <2>1 DEF Table
  <1> QED BY <1>2, <1>3, <1>4, <1>5

\* One worker moves to step s with job j.
After(w, s, j) == pc' = [pc EXCEPT ![w] = s] /\ job' = [job EXCEPT ![w] = j]

LEMMA AfterTypes ==
  ASSUME StepsTypeOK, NEW w \in Workers, NEW s \in StepNames, NEW j \in JobsTo(nsid'),
         After(w, s, j), Fits(s, j), nsid' = nsid \/ nsid' = nsid + 1
  PROVE  /\ pc' \in [Workers -> StepNames] /\ job' \in [Workers -> JobsTo(nsid')]
         /\ \A v \in Workers : Fits(pc'[v], job'[v])
         /\ pc'[w] = s /\ job'[w] = j
         /\ \A v \in Workers \ {w} : pc'[v] = pc[v] /\ job'[v] = job[v]
  <1>1. JobsTo(nsid) \subseteq JobsTo(nsid')
    BY TypesGrow DEF StepsTypeOK
  <1>2. job \in [Workers -> JobsTo(nsid')]
    BY <1>1 DEF StepsTypeOK
  <1>3. pc'[w] = s /\ job'[w] = j /\ \A v \in Workers \ {w} : pc'[v] = pc[v] /\ job'[v] = job[v]
    BY DEF After, StepsTypeOK
  <1>4. \A v \in Workers : Fits(pc'[v], job'[v])
    BY <1>3 DEF StepsTypeOK
  <1>5. pc' \in [Workers -> StepNames] /\ job' \in [Workers -> JobsTo(nsid')]
    BY <1>2 DEF After, StepsTypeOK
  <1> QED BY <1>3, <1>4, <1>5

\* A worker that is done, or goes on with what it has.
LEMMA FinishAfter ==
  ASSUME StepsTypeOK, NEW w \in Workers, Finish(w)
  PROVE  After(w, "idle", NoJob) /\ NoJob \in JobsTo(nsid) /\ Fits("idle", NoJob)
  <1>1. After(w, "idle", NoJob)
    BY Zenon DEF Finish, Goto, After
  <1>2. NoJob \in JobsTo(nsid)
    <2>1. 0 \in 0 .. NSlots /\ 0 \in 0 .. nsid
      BY TableAssumption DEF StepsTypeOK
    <2> QED BY <2>1 DEF NoJob, JobsTo
  <1>3. Fits("idle", NoJob)
    BY DEF Fits, Inserting, WithSlot
  <1> QED BY <1>1, <1>2, <1>3

LEMMA GotoAfter ==
  ASSUME StepsTypeOK, NEW w \in Workers, NEW s, Goto(w, s), UNCHANGED job
  PROVE  After(w, s, job[w]) /\ job[w] \in JobsTo(nsid)
  BY DEF Goto, After, StepsTypeOK

LEMMA SameValue ==
  ASSUME NEW D, NEW f, f = [x \in D |-> f[x]], NEW a \in D, NEW v, f[a] = v
  PROVE  [f EXCEPT ![a] = v] = f
  OBVIOUS

LEMMA ZeroEntry == ~Zero.active /\ Zero.sid = 0 /\ [Zero EXCEPT !.active = FALSE] = Zero
  <1>1. ~Zero.active /\ Zero.sid = 0 /\ Zero["active"] = FALSE
    BY DEF Zero
  <1>2. DOMAIN Zero = {"active", "uid", "pid", "name", "sid", "last", "start", "kicked"}
        /\ Zero = [f \in DOMAIN Zero |-> Zero[f]]
    BY DEF Zero
  <1>3. [Zero EXCEPT !.active = FALSE] = Zero
    BY <1>1, <1>2, SameValue
  <1> QED BY <1>1, <1>3

LEMMA EntryType ==
  ASSUME StepsTypeOK, NEW i \in Slots
  PROVE  /\ utmp[i] \in WebEntries(nsid) \cup {Zero}
         /\ utmp[i].active => utmp[i].uid \in Users /\ utmp[i].pid = WebPid
         /\ utmp[i].sid # 0 => /\ utmp[i].sid \in 1 .. nsid /\ utmp[i].name \in Users
         /\ utmp[i].active \in BOOLEAN
  <1>1. utmp[i] \in WebEntries(nsid) \cup {Zero}
    BY DEF StepsTypeOK, Table
  <1>2. CASE utmp[i] = Zero
    BY <1>1, <1>2 DEF Zero
  <1>3. CASE utmp[i] \in WebEntries(nsid)
    BY <1>3 DEF WebEntries
  <1> QED BY <1>1, <1>2, <1>3

-----------------------------------------------------------------------------
(* The parts of the invariant, after a step of worker w                    *)

\* The others stay where they are.
Alone(w) == \A v \in Workers \ {w} : pc'[v] = pc[v] /\ job'[v] = job[v]
Holding(s) == s \in {"index", "unkey", "wipe"}

\* What a worker other than w has in its hand stays there.
LEMMA HandStays ==
  ASSUME NEW w \in Workers, Alone(w), NEW i, InHand(i), Holding(pc[w]) => job[w].slot # i
  PROVE  InHand(i)'
  BY DEF Alone, InHand, Holding

\* A worker that takes no session into its hand and lets none go.
LEMMA IndexedStays ==
  ASSUME UnindexedInHand, NEW w \in Workers, Alone(w), UNCHANGED rows,
         NEW I, \A i \in Slots \ I : utmp'[i] = utmp[i], \A i \in Slots \cap I : ~utmp'[i].active,
         \A i \in Slots : Holding(pc[w]) /\ job[w].slot = i /\ utmp'[i].active => InHand(i)'
  PROVE  UnindexedInHand'
  <1> SUFFICES ASSUME NEW i \in Slots, utmp'[i].active, ~InHand(i)'
               PROVE  \E p \in Positions : rows'[utmp'[i].uid][p] = i
    BY DEF UnindexedInHand
  <1>1. utmp'[i] = utmp[i]
    OBVIOUS
  <1>2. ~InHand(i)
    BY HandStays
  <1> QED BY <1>1, <1>2 DEF UnindexedInHand

LEMMA NothingUnindexed ==
  ASSUME UnindexedInHand, NEW w \in Workers, Alone(w), UNCHANGED <<utmp, rows>>, ~Holding(pc[w])
  PROVE  UnindexedInHand'
  <1> SUFFICES ASSUME NEW i \in Slots, utmp[i].active, ~InHand(i)'
               PROVE  \E p \in Positions : rows[utmp[i].uid][p] = i
    BY DEF UnindexedInHand
  <1>1. ~InHand(i)
    BY HandStays
  <1> QED BY <1>1 DEF UnindexedInHand

\* The lock after a step that neither takes nor gives it.
LEMMA LockStays ==
  ASSUME StepsTypeOK, LockHeld, NEW w \in Workers, Alone(w), UNCHANGED <<lock, dead>>,
         pc[w] \in Inserting <=> pc'[w] \in Inserting
  PROVE  LockHeld'
  BY DEF LockHeld, Alone

LEMMA LockGiven ==
  ASSUME StepsTypeOK, LockHeld, NEW w \in Workers, Alone(w), UNCHANGED dead, lock = w,
         lock' = NoWorker, pc'[w] = "idle"
  PROVE  LockHeld'
  BY StepsAssumption DEF LockHeld, Alone, Inserting

\* While one worker is inserting, no other is.
LEMMA OnlyInserter ==
  ASSUME LockHeld, NEW w \in Workers, w \notin dead, pc[w] \in Inserting,
         NEW v \in Workers, v \notin dead, pc[v] \in Inserting
  PROVE  v = w
  BY DEF LockHeld

\* A worker outside utmp_insert changes no entry but to clear it.
LEMMA ClaimsStay ==
  ASSUME ClaimOwned, InsertExclusive, NEW w \in Workers, Alone(w), UNCHANGED dead,
         \A i \in Slots : utmp'[i] = utmp[i] \/ utmp'[i] = Zero,
         pc'[w] \notin {"index", "publish", "sweep"}, StepsTypeOK
  PROVE  ClaimOwned' /\ InsertExclusive'
  <1>1. ASSUME NEW v \in Workers, v \notin dead, pc'[v] \in {"index", "publish", "sweep"}
        PROVE  /\ pc'[v] = pc[v] /\ job'[v] = job[v] /\ job[v].slot \in Slots
    BY <1>1 DEF Alone, StepsTypeOK, Fits, WithSlot
  <1>2. ClaimOwned'
    BY <1>1, ZeroEntry DEF ClaimOwned
  <1>3. InsertExclusive'
    BY <1>1, ZeroEntry DEF InsertExclusive
  <1> QED BY <1>2, <1>3

-----------------------------------------------------------------------------
(* The actions                                                             *)

LEMMA StartLoginInv ==
  ASSUME StepsInv, NEW w \in Workers, NEW u \in Users, NEW t \in Types, StartLogin(w, u, t)
  PROVE  StepsInv'
  <1> DEFINE j == [user |-> u, type |-> t, slot |-> 0, sid |-> nsid + 1]
  <1>1. StepsTypeOK /\ nsid \in Nat /\ nsid' = nsid + 1 /\ w \notin dead /\ pc[w] = "idle"
        /\ UNCHANGED <<utmp, rows, keys, lock, dead>>
    BY DEF StepsInv, StepsTypeOK, StartLogin, At
  <1>2. After(w, "lock", j)
    BY DEF StartLogin, After, Goto
  <1>3. j \in JobsTo(nsid') /\ Fits("lock", j) /\ "lock" \in StepNames
    <2>1. nsid + 1 # 0 /\ nsid + 1 \in 0 .. nsid' /\ 0 \in 0 .. NSlots
      BY <1>1, TableAssumption
    <2>2. j \in JobsTo(nsid')
      BY <2>1 DEF JobsTo
    <2> QED BY <2>1, <2>2 DEF Fits, WithSlot, Inserting, StepNames
  <1>4. StepsTypeOK' /\ pc'[w] = "lock" /\ Alone(w)
    BY <1>1, <1>2, <1>3, AfterTypes, TypesGrow DEF StepsTypeOK, Alone
  <1>5. UnindexedInHand'
    BY <1>1, <1>4, NothingUnindexed DEF StepsInv, Holding
  <1>6. LockHeld'
    BY <1>1, <1>4, LockStays DEF StepsInv, Inserting
  <1>7. ClaimOwned' /\ InsertExclusive'
    BY <1>1, <1>4, ClaimsStay DEF StepsInv
  <1> QED BY <1>4, <1>5, <1>6, <1>7 DEF StepsInv

LEMMA TakeLockInv ==
  ASSUME StepsInv, NEW w \in Workers, TakeLock(w)
  PROVE  StepsInv'
  <1>1. StepsTypeOK /\ w \notin dead /\ pc[w] = "lock" /\ lock = NoWorker /\ lock' = w
        /\ UNCHANGED <<utmp, rows, keys, dead, nsid>>
    BY DEF StepsInv, StepsTypeOK, TakeLock, At
  <1>2. After(w, "claim", job[w]) /\ job[w] \in JobsTo(nsid)
    BY <1>1, GotoAfter DEF TakeLock
  <1>3. Fits("claim", job[w]) /\ "claim" \in StepNames
    BY <1>1 DEF StepsTypeOK, Fits, WithSlot, Inserting, StepNames
  <1>4. StepsTypeOK' /\ pc'[w] = "claim" /\ Alone(w)
    BY <1>1, <1>2, <1>3, AfterTypes DEF StepsTypeOK, Alone
  <1>5. UnindexedInHand'
    BY <1>1, <1>4, NothingUnindexed DEF StepsInv, Holding
  <1>6. LockHeld'
    <2>1. \A v \in Workers : v \notin dead => pc[v] \notin Inserting
      BY <1>1, StepsAssumption DEF StepsInv, LockHeld
    <2> QED BY <1>1, <1>4, <2>1 DEF LockHeld, Alone, Inserting
  <1>7. ClaimOwned' /\ InsertExclusive'
    BY <1>1, <1>4, ClaimsStay DEF StepsInv
  <1> QED BY <1>4, <1>5, <1>6, <1>7 DEF StepsInv

\* The claimed entry is the session of the login, and nothing held its slot.
LEMMA ClaimInv ==
  ASSUME StepsInv, NEW w \in Workers, NEW h \in Homes, Claim(w, h)
  PROVE  StepsInv'
  <1>1. StepsTypeOK /\ w \notin dead /\ pc[w] = "claim" /\ UNCHANGED <<rows, keys, dead, nsid>>
        /\ lock = w /\ Fits("claim", job[w]) /\ job[w] \in JobsTo(nsid)
    BY DEF StepsInv, StepsTypeOK, Claim, At, LockHeld, Inserting
  <1>2. CASE Free(utmp) = {}
    <2>1. Finish(w) /\ UNCHANGED utmp /\ lock' = NoWorker
      BY <1>2 DEF Claim, Unlock
    <2>2. StepsTypeOK' /\ pc'[w] = "idle" /\ Alone(w)
      BY <1>1, <2>1, FinishAfter, AfterTypes DEF StepsTypeOK, Alone, StepNames
    <2>3. UnindexedInHand'
      BY <1>1, <2>1, <2>2, NothingUnindexed DEF StepsInv, Holding
    <2>4. LockHeld'
      BY <1>1, <2>1, <2>2, LockGiven DEF StepsInv
    <2>5. ClaimOwned' /\ InsertExclusive'
      BY <1>1, <2>1, <2>2, ClaimsStay DEF StepsInv
    <2> QED BY <2>2, <2>3, <2>4, <2>5 DEF StepsInv
  <1>3. CASE Free(utmp) # {}
    <2> DEFINE e == NewEntry(job[w].user, WebPid, job[w].sid, job[w].sid)
    <2>1. PICK i \in FirstFree(utmp, h) :
            /\ utmp' = [utmp EXCEPT ![i] = e]
            /\ job' = [job EXCEPT ![w].slot = i]
            /\ Goto(w, "index")
            /\ UNCHANGED lock
      BY <1>3 DEF Claim
    <2> DEFINE j == [job[w] EXCEPT !.slot = i]
    <2>2. i \in Slots /\ i \in Free(utmp)
      BY DEF FirstFree, Free
    <2>3. j \in JobsTo(nsid) /\ j.slot = i /\ j.user = job[w].user /\ j.sid = job[w].sid
          /\ j.type = job[w].type
      BY <1>1, <2>2, SlotsNat DEF JobsTo
    <2>4. After(w, "index", j) /\ Fits("index", j)
      BY <1>1, <2>1, <2>2, <2>3 DEF After, Goto, Fits, Inserting, StepsTypeOK
    <2>5. /\ e \in WebEntries(nsid) /\ e.active /\ e.uid = j.user /\ e.sid = j.sid
      <3>1. job[w].sid \in Nat /\ job[w].sid \in 1 .. nsid /\ job[w].user \in Users
        <4>1. job[w].sid \in 0 .. nsid /\ nsid \in Nat
          BY <1>1 DEF JobsTo, StepsTypeOK
        <4>2. job[w].sid # 0 /\ job[w].user \in Users
          BY <1>1 DEF Fits, Inserting
        <4> QED BY <4>1, <4>2
      <3>2. e = [active |-> TRUE, uid |-> job[w].user, pid |-> WebPid, name |-> job[w].user,
                 sid |-> job[w].sid, last |-> job[w].sid, start |-> job[w].sid, kicked |-> FALSE]
        BY DEF NewEntry
      <3> QED BY <2>3, <3>1, <3>2 DEF WebEntries
    <2> HIDE DEF e, j
    <2>6. /\ utmp' \in Table(nsid) /\ utmp'[i] = e
          /\ \A k \in Slots \ {i} : utmp'[k] = utmp[k]
      <3>1. utmp \in Table(nsid)
        BY <1>1 DEF StepsTypeOK
      <3> QED BY <2>1, <2>2, <2>5, <3>1 DEF Table
    <2>7. StepsTypeOK' /\ pc'[w] = "index" /\ job'[w] = j /\ Alone(w)
      BY <1>1, <2>3, <2>4, <2>6, AfterTypes DEF StepsTypeOK, Alone, StepNames, Inserting
    <2>8. UnindexedInHand'
      <3> SUFFICES ASSUME NEW k \in Slots, utmp'[k].active, ~InHand(k)'
                   PROVE  \E p \in Positions : rows[utmp'[k].uid][p] = k
        BY <1>1 DEF UnindexedInHand
      <3>1. k # i
        BY <2>3, <2>7 DEF InHand
      <3>2. ~InHand(k)
        BY <1>1, <2>7, HandStays DEF Holding
      <3> QED BY <2>6, <3>1, <3>2 DEF UnindexedInHand, StepsInv
    <2>9. LockHeld'
      BY <1>1, <2>1, <2>7, LockStays DEF StepsInv, Inserting
    <2>10. ASSUME NEW v \in Workers, v \notin dead', pc'[v] \in {"index", "publish", "sweep"}
           PROVE  v = w
      BY <1>1, <2>1, <2>9, <2>10 DEF LockHeld, Inserting
    <2>11. ClaimOwned' /\ InsertExclusive'
      BY <2>3, <2>5, <2>6, <2>7, <2>10 DEF ClaimOwned, InsertExclusive
    <2> QED BY <2>7, <2>8, <2>9, <2>11 DEF StepsInv
  <1> QED BY <1>2, <1>3

\* add_utmp_idx: the new index covers the claimed entry; what it overwrites
\* is evicted unless it was nothing of this user's.
LEMMA IndexInv ==
  ASSUME StepsInv, NEW w \in Workers, Index(w)
  PROVE  StepsInv'
  <1> DEFINE u == job[w].user
             i == job[w].slot
             seg == Segment[job[w].type]
  <1>1. StepsTypeOK /\ w \notin dead /\ pc[w] = "index" /\ UNCHANGED <<keys, dead, nsid>>
        /\ lock = w /\ u \in Users /\ i \in Slots /\ job[w] \in JobsTo(nsid)
        /\ Fits("index", job[w]) /\ job[w].type \in Types
    BY DEF StepsInv, StepsTypeOK, Index, At, LockHeld, Inserting, WithSlot, Fits
  <1>2. utmp \in Table(nsid) /\ rows \in RowTable
    BY <1>1 DEF StepsTypeOK
  <1>3. ASSUME utmp' = [utmp EXCEPT ![i] = Zero], Unlock, Finish(w), UNCHANGED rows
        PROVE  StepsInv'
    <2>1. utmp' \in Table(nsid) /\ utmp'[i] = Zero /\ \A k \in Slots \ {i} : utmp'[k] = utmp[k]
      BY <1>1, <1>2, <1>3 DEF Table
    <2>2. StepsTypeOK' /\ pc'[w] = "idle" /\ Alone(w)
      BY <1>1, <1>3, <2>1, FinishAfter, AfterTypes DEF StepsTypeOK, Alone, StepNames
    <2>3. UnindexedInHand'
      <3> SUFFICES ASSUME NEW k \in Slots, utmp'[k].active, ~InHand(k)'
                   PROVE  \E p \in Positions : rows[utmp'[k].uid][p] = k
        BY <1>3 DEF UnindexedInHand
      <3>1. k # i
        BY <2>1, ZeroEntry
      <3>2. ~InHand(k)
        BY <2>2, <3>1, HandStays
      <3> QED BY <2>1, <3>1, <3>2 DEF UnindexedInHand, StepsInv
    <2>4. LockHeld'
      BY <1>1, <1>3, <2>2, LockGiven DEF StepsInv, Unlock
    <2>5. \A k \in Slots : utmp'[k] = utmp[k] \/ utmp'[k] = Zero
      BY <2>1
    <2>6. ClaimOwned' /\ InsertExclusive'
      BY <1>1, <2>2, <2>5, ClaimsStay DEF StepsInv
    <2> QED BY <2>2, <2>3, <2>4, <2>6 DEF StepsInv
  <1>4. ASSUME NEW time, NEW p \in Landing(utmp, rows[u], u, i, seg, time),
               LET out == Evicted(utmp, rows[u], u, i, p)
               IN  utmp' = IF out = 0 THEN utmp ELSE [utmp EXCEPT ![out].active = FALSE],
               rows' = [rows EXCEPT ![u][p] = i], Goto(w, "publish"), UNCHANGED <<lock, job>>
        PROVE  StepsInv'
    <2> DEFINE out == Evicted(utmp, rows[u], u, i, p)
    <2>1. p \in Positions
      <3>1. p \in seg
        BY DEF Landing
      <3> QED BY <1>1, <3>1 DEF Positions
    <2>2. /\ rows' \in RowTable /\ rows'[u][p] = i
          /\ \A v \in Users, q \in Positions : v # u \/ q # p => rows'[v][q] = rows[v][q]
      BY <1>1, <1>2, <1>4, <2>1, SlotsNat DEF RowTable
    <2>3. rows[u][p] \in 0 .. NSlots /\ (rows[u][p] # 0 => rows[u][p] \in Slots)
      BY <1>1, <1>2, <2>1, TableAssumption DEF RowTable, Slots
    <2>4. out = 0 \/ (out = rows[u][p] /\ out # i /\ out \in Slots)
      BY <2>3 DEF Evicted, Vacant
    <2>5. utmp' = IF out = 0 THEN utmp ELSE [utmp EXCEPT ![out].active = FALSE]
      BY <1>4
    <2>6. rows[u][p] = i \/ Vacant(utmp, rows[u], u, p) \/ out = rows[u][p]
      BY DEF Evicted
    <2> HIDE DEF out
    <2>7. /\ utmp' \in Table(nsid)
          /\ \A k \in Slots : /\ utmp'[k].uid = utmp[k].uid /\ utmp'[k].sid = utmp[k].sid
                              /\ utmp'[k].active => utmp[k].active
                              /\ k # out => utmp'[k] = utmp[k]
                              /\ k = out => ~utmp'[k].active
      <3>1. CASE out = 0
        BY <1>2, <2>5, <3>1, SlotsNat
      <3>2. CASE out \in Slots
        <4> DEFINE e == [utmp[out] EXCEPT !.active = FALSE]
        <4>1. out # 0 /\ utmp' = [utmp EXCEPT ![out] = e]
          BY <1>2, <2>5, <3>2, SlotsNat DEF Table
        <4>2. utmp[out] \in WebEntries(nsid) \cup {Zero}
          BY <1>1, <3>2, EntryType
        <4>3. /\ e \in WebEntries(nsid) \cup {Zero}
              /\ e.uid = utmp[out].uid /\ e.sid = utmp[out].sid /\ ~e.active
          <5>1. CASE utmp[out] = Zero
            <6>1. e = Zero
              BY <5>1, ZeroEntry
            <6> QED BY <5>1, <6>1, ZeroEntry
          <5>2. CASE utmp[out] \in WebEntries(nsid)
            BY <5>2 DEF WebEntries
          <5> QED BY <4>2, <5>1, <5>2
        <4> HIDE DEF e
        <4>4. /\ utmp' \in Table(nsid) /\ utmp'[out] = e
              /\ \A k \in Slots \ {out} : utmp'[k] = utmp[k]
          BY <1>2, <3>2, <4>1, <4>3 DEF Table
        <4> QED BY <4>3, <4>4
      <3> QED BY <2>4, <3>1, <3>2
    <2>8. After(w, "publish", job[w]) /\ job[w] \in JobsTo(nsid) /\ Fits("publish", job[w])
      BY <1>1, <1>4, GotoAfter DEF Fits, WithSlot, Inserting
    <2>9. StepsTypeOK' /\ pc'[w] = "publish" /\ Alone(w) /\ job'[w] = job[w]
      BY <1>1, <2>2, <2>7, <2>8, AfterTypes DEF StepsTypeOK, Alone, StepNames, Inserting
    <2>10. utmp'[i].active => utmp'[i].uid = u
      BY <1>1, <2>7 DEF StepsInv, ClaimOwned
    <2>11. UnindexedInHand'
      <3> SUFFICES ASSUME NEW k \in Slots, utmp'[k].active, ~InHand(k)'
                   PROVE  \E q \in Positions : rows'[utmp'[k].uid][q] = k
        BY DEF UnindexedInHand
      <3>1. CASE k = i
        BY <2>1, <2>2, <2>10, <3>1
      <3>2. CASE k # i
        <4>1. ~InHand(k) /\ utmp[k].active /\ k # out /\ utmp'[k] = utmp[k]
          BY <2>7, <2>9, <3>2, HandStays
        <4>2. PICK q \in Positions : rows[utmp[k].uid][q] = k
          BY <4>1 DEF UnindexedInHand, StepsInv
        <4>3. utmp[k].uid # u \/ q # p
          BY <2>6, <3>2, <4>1, <4>2, SlotsNat DEF Vacant
        <4>4. utmp[k].uid \in Users
          BY <1>1, <4>1, EntryType
        <4>5. rows'[utmp[k].uid][q] = k
          BY <2>2, <4>2, <4>3, <4>4
        <4> QED BY <4>1, <4>5
      <3> QED BY <3>1, <3>2
    <2>12. LockHeld'
      BY <1>1, <1>4, <2>9, LockStays DEF StepsInv, Inserting
    <2>13. ASSUME NEW v \in Workers, v \notin dead', pc'[v] \in {"index", "publish", "sweep"}
           PROVE  v = w
      BY <1>1, <1>4, <2>12, <2>13 DEF LockHeld, Inserting
    <2>14. utmp'[i].sid \in {0, job[w].sid}
      BY <1>1, <2>7 DEF StepsInv, InsertExclusive
    <2>15. ClaimOwned' /\ InsertExclusive'
      BY <2>9, <2>13, <2>14 DEF ClaimOwned, InsertExclusive
    <2> QED BY <2>9, <2>11, <2>12, <2>15 DEF StepsInv
  <1> QED BY <1>3, <1>4 DEF Index

LEMMA PublishInv ==
  ASSUME StepsInv, NEW w \in Workers, Publish(w)
  PROVE  StepsInv'
  <1> DEFINE e == utmp[job[w].slot]
             k == Key(e.sid, e.name, job[w].slot, 0)
  <1>1. StepsTypeOK /\ w \notin dead /\ pc[w] = "publish" /\ UNCHANGED <<utmp, rows, dead, nsid>>
        /\ lock = w /\ job[w].slot \in Slots /\ Fits("publish", job[w]) /\ keys \subseteq KeysTo(nsid)
    BY DEF StepsInv, StepsTypeOK, Publish, At, LockHeld, Inserting, WithSlot, Fits
  <1>2. keys' \subseteq KeysTo(nsid)
    <2>1. e.sid # 0 => k \in KeysTo(nsid)
      <3>1. e.sid # 0 => e.sid \in 1 .. nsid /\ e.name \in Users
        BY <1>1, EntryType
      <3> QED BY <1>1, <3>1 DEF Key, KeysTo
    <2>2. keys' = IF e.sid = 0 THEN keys ELSE keys \cup {k}
      BY DEF Publish
    <2> QED BY <1>1, <2>1, <2>2
  <1>3. CASE Goto(w, "sweep") /\ UNCHANGED <<lock, job>>
    <2>1. After(w, "sweep", job[w]) /\ job[w] \in JobsTo(nsid) /\ Fits("sweep", job[w])
      BY <1>1, <1>3, GotoAfter DEF Fits, WithSlot, Inserting
    <2>2. StepsTypeOK' /\ pc'[w] = "sweep" /\ Alone(w) /\ job'[w] = job[w]
      BY <1>1, <1>2, <2>1, AfterTypes DEF StepsTypeOK, Alone, StepNames, Inserting
    <2>3. UnindexedInHand'
      BY <1>1, <2>2, NothingUnindexed DEF StepsInv, Holding
    <2>4. LockHeld'
      BY <1>1, <1>3, <2>2, LockStays DEF StepsInv, Inserting
    <2>5. ClaimOwned' /\ InsertExclusive'
      BY <1>1, <2>2 DEF StepsInv, ClaimOwned, InsertExclusive, Alone
    <2> QED BY <2>2, <2>3, <2>4, <2>5 DEF StepsInv
  <1>4. CASE Unlock /\ Finish(w)
    <2>1. StepsTypeOK' /\ pc'[w] = "idle" /\ Alone(w)
      BY <1>1, <1>2, <1>4, FinishAfter, AfterTypes DEF StepsTypeOK, Alone, StepNames
    <2>2. UnindexedInHand'
      BY <1>1, <2>1, NothingUnindexed DEF StepsInv, Holding
    <2>3. LockHeld'
      BY <1>1, <1>4, <2>1, LockGiven DEF StepsInv, Unlock
    <2>4. ClaimOwned' /\ InsertExclusive'
      BY <1>1, <2>1, ClaimsStay DEF StepsInv
    <2> QED BY <2>1, <2>2, <2>3, <2>4 DEF StepsInv
  <1> QED BY <1>3, <1>4 DEF Publish

\* The sweep clears whole sessions: the entry and its positions.
LEMMA SweepAllInv ==
  ASSUME StepsInv, NEW w \in Workers, SweepAll(w)
  PROVE  StepsInv'
  <1>1. StepsTypeOK /\ w \notin dead /\ pc[w] = "sweep" /\ UNCHANGED <<dead, nsid>> /\ lock = w
        /\ Unlock /\ Finish(w)
    BY DEF StepsInv, SweepAll, At, LockHeld, Inserting
  <1>2. utmp \in Table(nsid) /\ rows \in RowTable /\ keys \subseteq KeysTo(nsid)
    BY <1>1 DEF StepsTypeOK
  <1>3. PICK due \in SUBSET Slots :
          /\ utmp' = SweptTable(utmp, due)
          /\ rows' = [u \in Users |-> SweptRow(rows[u], u, utmp, due)]
          /\ keys' = WithoutKeys(keys, {utmp[i].sid : i \in due})
    BY DEF SweepAll
  <1>4. /\ utmp' \in Table(nsid)
        /\ \A i \in due : utmp'[i] = Zero
        /\ \A i \in Slots \ due : utmp'[i] = utmp[i]
    BY <1>2, <1>3 DEF SweptTable, Table
  <1>5. /\ rows' \in RowTable
        /\ \A u \in Users, p \in Positions : rows[u][p] \notin due => rows'[u][p] = rows[u][p]
    <2>1. ASSUME NEW u \in Users
          PROVE  /\ SweptRow(rows[u], u, utmp, due) \in [Positions -> 0 .. NSlots]
                 /\ \A p \in Positions : rows[u][p] \notin due =>
                       SweptRow(rows[u], u, utmp, due)[p] = rows[u][p]
      BY <1>2, TableAssumption DEF SweptRow, RowTable
    <2> HIDE DEF SweptRow
    <2> QED BY <1>3, <2>1 DEF RowTable
  <1>6. keys' \subseteq KeysTo(nsid)
    BY <1>2, <1>3 DEF WithoutKeys
  <1>7. StepsTypeOK' /\ pc'[w] = "idle" /\ Alone(w)
    BY <1>1, <1>4, <1>5, <1>6, FinishAfter, AfterTypes DEF StepsTypeOK, Alone, StepNames
  <1>8. UnindexedInHand'
    <2> SUFFICES ASSUME NEW i \in Slots, utmp'[i].active, ~InHand(i)'
                 PROVE  \E p \in Positions : rows'[utmp'[i].uid][p] = i
      BY DEF UnindexedInHand
    <2>1. i \notin due /\ utmp'[i] = utmp[i]
      BY <1>4, ZeroEntry
    <2>2. ~InHand(i)
      BY <1>1, <1>7, HandStays DEF Holding
    <2>3. PICK p \in Positions : rows[utmp[i].uid][p] = i
      BY <2>1, <2>2 DEF UnindexedInHand, StepsInv
    <2>4. utmp[i].uid \in Users
      BY <1>1, <2>1, EntryType
    <2> QED BY <1>5, <2>1, <2>3, <2>4
  <1>9. LockHeld'
    BY <1>1, <1>7, LockGiven DEF StepsInv, Unlock
  <1>10. \A i \in Slots : utmp'[i] = utmp[i] \/ utmp'[i] = Zero
    BY <1>4
  <1>11. ClaimOwned' /\ InsertExclusive'
    BY <1>1, <1>7, <1>10, ClaimsStay DEF StepsInv
  <1> QED BY <1>7, <1>8, <1>9, <1>11 DEF StepsInv

LEMMA StartLogoutInv ==
  ASSUME StepsInv, NEW w \in Workers, NEW k \in keys, StartLogout(w, k)
  PROVE  StepsInv'
  <1> DEFINE j == [user |-> k.user, type |-> "", slot |-> k.slot, sid |-> k.sid]
  <1>1. StepsTypeOK /\ w \notin dead /\ pc[w] = "idle" /\ UNCHANGED <<utmp, rows, keys, lock, dead, nsid>>
        /\ k \in KeysTo(nsid)
    BY DEF StepsInv, StepsTypeOK, StartLogout, At
  <1>2. After(w, "check", j)
    BY DEF StartLogout, After, Goto
  <1>3. j \in JobsTo(nsid) /\ Fits("check", j) /\ "check" \in StepNames
    <2>1. k.sid \in 0 .. nsid /\ k.user \in Users /\ k.slot \in Slots /\ k.slot \in 0 .. NSlots
      <3>1. nsid \in Nat
        BY <1>1 DEF StepsTypeOK
      <3>2. k.sid \in 1 .. nsid /\ k.user \in Users /\ k.slot \in Slots
        BY <1>1 DEF KeysTo
      <3>3. 1 .. nsid \subseteq 0 .. nsid
        BY <3>1
      <3> QED BY <3>2, <3>3, SlotsNat, Zenon
    <2> QED BY <2>1 DEF JobsTo, Fits, WithSlot, Inserting, StepNames
  <1> HIDE DEF j
  <1>4. StepsTypeOK' /\ pc'[w] = "check" /\ Alone(w)
    BY <1>1, <1>2, <1>3, AfterTypes DEF StepsTypeOK, Alone
  <1>5. UnindexedInHand'
    BY <1>1, <1>4, NothingUnindexed DEF StepsInv, Holding
  <1>6. LockHeld'
    BY <1>1, <1>4, LockStays DEF StepsInv, Inserting
  <1>7. ClaimOwned' /\ InsertExclusive'
    BY <1>1, <1>4, ClaimsStay DEF StepsInv
  <1> QED BY <1>4, <1>5, <1>6, <1>7 DEF StepsInv

LEMMA CheckOwnerInv ==
  ASSUME StepsInv, NEW w \in Workers, CheckOwner(w)
  PROVE  StepsInv'
  <1>1. StepsTypeOK /\ w \notin dead /\ pc[w] = "check" /\ UNCHANGED <<utmp, rows, keys, lock, dead, nsid>>
    BY DEF StepsInv, CheckOwner, At
  <1>2. StepsTypeOK' /\ pc'[w] \in {"remove", "idle"} /\ Alone(w)
    <2>1. CASE Goto(w, "remove") /\ UNCHANGED job
      <3>1. After(w, "remove", job[w]) /\ job[w] \in JobsTo(nsid) /\ Fits("remove", job[w])
        BY <1>1, <2>1, GotoAfter DEF StepsTypeOK, Fits, WithSlot, Inserting
      <3> QED BY <1>1, <3>1, AfterTypes DEF StepsTypeOK, Alone, StepNames, WithSlot
    <2>2. CASE Finish(w)
      BY <1>1, <2>2, FinishAfter, AfterTypes DEF StepsTypeOK, Alone, StepNames
    <2> QED BY <2>1, <2>2 DEF CheckOwner
  <1>3. UnindexedInHand'
    BY <1>1, <1>2, NothingUnindexed DEF StepsInv, Holding
  <1>4. LockHeld'
    BY <1>1, <1>2, LockStays DEF StepsInv, Inserting
  <1>5. ClaimOwned' /\ InsertExclusive'
    BY <1>1, <1>2, ClaimsStay DEF StepsInv
  <1> QED BY <1>2, <1>3, <1>4, <1>5 DEF StepsInv

\* remove_utmp_idx takes the index of this session only.
LEMMA RemoveInv ==
  ASSUME StepsInv, NEW w \in Workers, Remove(w)
  PROVE  StepsInv'
  <1> DEFINE i == job[w].slot
             u == utmp[i].uid
  <1>1. StepsTypeOK /\ w \notin dead /\ pc[w] = "remove" /\ UNCHANGED <<utmp, keys, lock, dead, nsid>>
        /\ i \in Slots /\ Fits("remove", job[w]) /\ rows \in RowTable
    BY DEF StepsInv, StepsTypeOK, Remove, At, WithSlot, Fits
  <1>2. CASE utmp[i].active
    <2>1. rows' = [rows EXCEPT ![u] = Unindex(rows[u], i)] /\ Goto(w, "unkey") /\ UNCHANGED job
      BY <1>2 DEF Remove
    <2>2. u \in Users
      BY <1>1, <1>2, EntryType
    <2>3. /\ Unindex(rows[u], i) \in [Positions -> 0 .. NSlots]
          /\ \A p \in Positions : rows[u][p] # i => Unindex(rows[u], i)[p] = rows[u][p]
      <3>1. rows[u] \in [Positions -> 0 .. NSlots] /\ 0 \in 0 .. NSlots
        <4>1. 0 \in 0 .. NSlots
          BY TableAssumption
        <4>2. rows[u] \in [Positions -> 0 .. NSlots]
          BY <1>1, <2>2, Zenon DEF RowTable
        <4> QED BY <4>1, <4>2
      <3> QED BY ONLY <3>1 DEF Unindex
    <2>4. /\ rows' \in RowTable
          /\ \A v \in Users, p \in Positions : rows[v][p] # i => rows'[v][p] = rows[v][p]
      <3> DEFINE r == Unindex(rows[u], i)
      <3> HIDE DEF r
      <3>1. rows' = [rows EXCEPT ![u] = r] /\ r \in [Positions -> 0 .. NSlots]
            /\ \A p \in Positions : rows[u][p] # i => r[p] = rows[u][p]
        BY <2>1, <2>3 DEF r
      <3> QED BY <1>1, <2>2, <3>1 DEF RowTable
    <2>5. After(w, "unkey", job[w]) /\ job[w] \in JobsTo(nsid) /\ Fits("unkey", job[w])
      BY <1>1, <2>1, GotoAfter DEF Fits, WithSlot, Inserting
    <2>6. StepsTypeOK' /\ pc'[w] = "unkey" /\ Alone(w) /\ job'[w] = job[w]
      BY <1>1, <2>4, <2>5, AfterTypes DEF StepsTypeOK, Alone, StepNames, WithSlot
    <2>7. UnindexedInHand'
      <3> SUFFICES ASSUME NEW k \in Slots, utmp[k].active, ~InHand(k)'
                   PROVE  \E p \in Positions : rows'[utmp[k].uid][p] = k
        BY <1>1 DEF UnindexedInHand
      <3>1. k # i
        BY <2>6 DEF InHand
      <3>2. ~InHand(k)
        BY <1>1, <2>6, HandStays DEF Holding
      <3>3. PICK p \in Positions : rows[utmp[k].uid][p] = k
        BY <3>2 DEF UnindexedInHand, StepsInv
      <3>4. utmp[k].uid \in Users
        BY <1>1, EntryType
      <3> QED BY <2>4, <3>1, <3>3, <3>4
    <2>8. LockHeld'
      BY <1>1, <2>6, LockStays DEF StepsInv, Inserting
    <2>9. ClaimOwned' /\ InsertExclusive'
      BY <1>1, <2>6, ClaimsStay DEF StepsInv
    <2> QED BY <2>6, <2>7, <2>8, <2>9 DEF StepsInv
  <1>3. CASE ~utmp[i].active
    <2>1. Finish(w) /\ UNCHANGED rows
      BY <1>3 DEF Remove
    <2>2. StepsTypeOK' /\ pc'[w] = "idle" /\ Alone(w)
      BY <1>1, <2>1, FinishAfter, AfterTypes DEF StepsTypeOK, Alone, StepNames
    <2>3. UnindexedInHand'
      BY <1>1, <2>1, <2>2, NothingUnindexed DEF StepsInv, Holding
    <2>4. LockHeld'
      BY <1>1, <2>2, LockStays DEF StepsInv, Inserting
    <2>5. ClaimOwned' /\ InsertExclusive'
      BY <1>1, <2>2, ClaimsStay DEF StepsInv
    <2> QED BY <2>2, <2>3, <2>4, <2>5 DEF StepsInv
  <1> QED BY <1>2, <1>3

LEMMA UnkeyInv ==
  ASSUME StepsInv, NEW w \in Workers, Unkey(w)
  PROVE  StepsInv'
  <1>1. StepsTypeOK /\ w \notin dead /\ pc[w] = "unkey" /\ UNCHANGED <<utmp, rows, lock, dead, nsid>>
        /\ Fits("unkey", job[w]) /\ keys \subseteq KeysTo(nsid) /\ Goto(w, "wipe") /\ UNCHANGED job
    BY DEF StepsInv, StepsTypeOK, Unkey, At
  <1>2. keys' \subseteq KeysTo(nsid)
    BY <1>1 DEF Unkey, WithoutKeys
  <1>3. After(w, "wipe", job[w]) /\ job[w] \in JobsTo(nsid) /\ Fits("wipe", job[w])
    BY <1>1, GotoAfter DEF Fits, WithSlot, Inserting
  <1>4. StepsTypeOK' /\ pc'[w] = "wipe" /\ Alone(w) /\ job'[w] = job[w]
    BY <1>1, <1>2, <1>3, AfterTypes DEF StepsTypeOK, Alone, StepNames, WithSlot
  <1>5. UnindexedInHand'
    <2> SUFFICES ASSUME NEW k \in Slots, utmp[k].active, ~InHand(k)'
                 PROVE  \E p \in Positions : rows[utmp[k].uid][p] = k
      BY <1>1 DEF UnindexedInHand
    <2>1. job[w].slot # k
      BY <1>4 DEF InHand
    <2>2. ~InHand(k)
      BY <1>4, <2>1, HandStays
    <2> QED BY <2>2 DEF UnindexedInHand, StepsInv
  <1>6. LockHeld'
    BY <1>1, <1>4, LockStays DEF StepsInv, Inserting
  <1>7. ClaimOwned' /\ InsertExclusive'
    BY <1>1, <1>4, ClaimsStay DEF StepsInv
  <1> QED BY <1>4, <1>5, <1>6, <1>7 DEF StepsInv

\* The entry is cleared, whoever's it is by now.
LEMMA WipeInv ==
  ASSUME StepsInv, NEW w \in Workers, Wipe(w)
  PROVE  StepsInv'
  <1> DEFINE i == job[w].slot
  <1>1. StepsTypeOK /\ w \notin dead /\ pc[w] = "wipe" /\ UNCHANGED <<rows, keys, lock, dead, nsid>>
        /\ i \in Slots /\ utmp \in Table(nsid) /\ utmp' = [utmp EXCEPT ![i] = Zero] /\ Finish(w)
    BY DEF StepsInv, StepsTypeOK, Wipe, At, Fits, WithSlot
  <1>2. utmp' \in Table(nsid) /\ utmp'[i] = Zero /\ \A k \in Slots \ {i} : utmp'[k] = utmp[k]
    BY <1>1 DEF Table
  <1>3. StepsTypeOK' /\ pc'[w] = "idle" /\ Alone(w)
    BY <1>1, <1>2, FinishAfter, AfterTypes DEF StepsTypeOK, Alone, StepNames
  <1>4. UnindexedInHand'
    <2> SUFFICES ASSUME NEW k \in Slots, utmp'[k].active, ~InHand(k)'
                 PROVE  \E p \in Positions : rows[utmp'[k].uid][p] = k
      BY <1>1 DEF UnindexedInHand
    <2>1. k # i /\ utmp'[k] = utmp[k]
      BY <1>2, ZeroEntry
    <2>2. ~InHand(k)
      BY <1>3, <2>1, HandStays
    <2> QED BY <2>1, <2>2 DEF UnindexedInHand, StepsInv
  <1>5. LockHeld'
    BY <1>1, <1>3, LockStays DEF StepsInv, Inserting
  <1>6. \A k \in Slots : utmp'[k] = utmp[k] \/ utmp'[k] = Zero
    BY <1>2
  <1>7. ClaimOwned' /\ InsertExclusive'
    BY <1>1, <1>3, <1>6, ClaimsStay DEF StepsInv
  <1> QED BY <1>3, <1>4, <1>5, <1>7 DEF StepsInv

LEMMA CrashInv ==
  ASSUME StepsInv, NEW w \in Workers, Crash(w)
  PROVE  StepsInv'
  <1>1. StepsTypeOK /\ dead' = dead \cup {w} /\ lock' = (IF lock = w THEN NoWorker ELSE lock)
        /\ UNCHANGED <<utmp, rows, keys, pc, job, nsid>>
    BY DEF StepsInv, Crash
  <1>2. StepsTypeOK'
    BY <1>1 DEF StepsTypeOK
  <1>3. LockHeld'
    BY <1>1, StepsAssumption DEF StepsInv, LockHeld
  <1>4. ClaimOwned' /\ InsertExclusive'
    BY <1>1 DEF StepsInv, ClaimOwned, InsertExclusive
  <1>5. UnindexedInHand'
    BY <1>1 DEF StepsInv, UnindexedInHand, InHand
  <1> QED BY <1>2, <1>3, <1>4, <1>5 DEF StepsInv

-----------------------------------------------------------------------------
LEMMA StepsInitInv == StepsInit => StepsInv
  <1> SUFFICES ASSUME StepsInit PROVE StepsInv
    OBVIOUS
  <1>1. StepsTypeOK
    <2>1. utmp \in Table(nsid) /\ rows \in RowTable /\ keys \subseteq KeysTo(nsid)
          /\ dead \subseteq Workers /\ nsid = 0
      BY TableAssumption DEF StepsInit, Table, RowTable
    <2>2. NoJob \in JobsTo(0)
      BY TableAssumption DEF NoJob, JobsTo
    <2>3. pc \in [Workers -> StepNames] /\ job \in [Workers -> JobsTo(nsid)]
      BY <2>1, <2>2 DEF StepsInit, StepNames
    <2>4. \A w \in Workers : Fits(pc[w], job[w])
      BY DEF StepsInit, Fits, WithSlot, Inserting
    <2> QED BY <2>1, <2>3, <2>4 DEF StepsTypeOK
  <1>2. LockHeld
    BY StepsAssumption DEF StepsInit, LockHeld, Inserting
  <1>3. ClaimOwned /\ InsertExclusive
    BY DEF StepsInit, ClaimOwned, InsertExclusive
  <1>4. UnindexedInHand
    BY ZeroEntry DEF StepsInit, UnindexedInHand
  <1> QED BY <1>1, <1>2, <1>3, <1>4 DEF StepsInv

LEMMA StepsNextInv == StepsInv /\ [StepsNext]_stepVars => StepsInv'
  <1> SUFFICES ASSUME StepsInv, [StepsNext]_stepVars PROVE StepsInv'
    OBVIOUS
  <1>1. ASSUME NEW w \in Workers, Step(w) PROVE StepsInv'
    BY <1>1, TakeLockInv, ClaimInv, IndexInv, PublishInv, SweepAllInv, CheckOwnerInv, RemoveInv,
       UnkeyInv, WipeInv DEF Step
  <1>2. CASE UNCHANGED stepVars
    BY <1>2 DEF stepVars, StepsInv, StepsTypeOK, LockHeld, ClaimOwned, InsertExclusive, UnindexedInHand, InHand
  <1> QED BY <1>1, <1>2, CrashInv, StartLoginInv, StartLogoutInv DEF StepsNext, Quiet

\* Entries, rows, keys and the workers' locals keep their types whatever the
\* interleaving, and no session number is used before it is drawn.
THEOREM StepsTypes == StepsSpec => []StepsTypeOK
  <1>1. StepsInv => StepsTypeOK
    BY DEF StepsInv
  <1> QED BY <1>1, StepsInitInv, StepsNextInv, PTL DEF StepsSpec

\* .CACHE.utmp.lock is held by a worker exactly while it is alive between its
\* fcntl and its unlock: no path through ythtbbs_cache_utmp_insert leaves it
\* locked, and two workers are never between the two at once.
THEOREM StepsLock == StepsSpec => []LockHeld
  <1>1. StepsInv => LockHeld
    BY DEF StepsInv
  <1> QED BY <1>1, StepsInitInv, StepsNextInv, PTL DEF StepsSpec

\* A slot that utmp_insert has claimed holds the session of this login, or has
\* been cleared, until the call returns.
THEOREM StepsExclusive == StepsSpec => []InsertExclusive
  <1>1. StepsInv => InsertExclusive
    BY DEF StepsInv
  <1> QED BY <1>1, StepsInitInv, StepsNextInv, PTL DEF StepsSpec

\* An active session that no row of its user has is being inserted or logged
\* out, or was when its worker was killed (utmp_insert, utmp_remove).
THEOREM StepsUnindexed == StepsSpec => []UnindexedInHand
  <1>1. StepsInv => UnindexedInHand
    BY DEF StepsInv
  <1> QED BY <1>1, StepsInitInv, StepsNextInv, PTL DEF StepsSpec
=============================================================================
