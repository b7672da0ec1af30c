-------------------------- MODULE ReadMarksProofs --------------------------
(***************************************************************************)
(* Proofs about ReadMarks for any boards, times, lists, files, crews and   *)
(* bounds: the file of a user can be read to its end, no post is taken for *)
(* read without a cause, and none becomes unread again but for the causes  *)
(* that are named.  The invariant says of every copy of the file (on disk, *)
(* in the home directory, kept by telnet, read or about to be written by   *)
(* anybody) that each head in it, be it found by who reads the file or     *)
(* hidden in what another save left, has a well-formed list of marks and a *)
(* cause for each post these count as read (Page).  The same holds of the  *)
(* two lists in memory (MarkOK), which also keep what was read when they   *)
(* were got, as the save does in which they end (SaveOK).  The operators   *)
(* that build lists and files (Insert, Cleared, Shorter, Put, a Write over *)
(* a longer file) keep this.  Parsed and Put are recursive functions: that *)
(* there are such functions is shown first.                                *)
(***************************************************************************)
EXTENDS ReadMarks, FiniteSetTheorems, SequenceTheorems, WellFoundedInduction, TLAPS

-----------------------------------------------------------------------------
(* The marks of a board                                                    *)

\* A non-empty set of numbers has a least one.
LEMMA LeastNat ==
  ASSUME NEW N \in SUBSET Nat, N # {}
  PROVE  \E n \in N : \A m \in N : n <= m
  <1> DEFINE R == {ss \in Nat \X Nat : ss[1] < ss[2]}
  <1>1. IsWellFoundedOn(R, Nat)
    BY NatLessThanWellFounded DEF OpToRel
  <1>2. PICK n \in N : \A m \in N : ~(<<m, n>> \in R)
    <2> HIDE DEF R
    <2> QED BY <1>1, WFMin
  <1>3. \A m \in N : ~(m < n)
    BY <1>2
  <1>4. \A m \in N : n <= m
    BY <1>3
  <1> QED BY <1>4

\* A list that never goes up from a mark to the next goes up to no later one.
LEMMA Falls ==
  ASSUME NEW m \in Seq(Int), Descending(m)
  PROVE  \A i, j \in 1 .. Len(m) : i < j => m[i] >= m[j]
  <1> SUFFICES ASSUME NEW i \in 1 .. Len(m) PROVE \A j \in 1 .. Len(m) : i < j => m[i] >= m[j]
    OBVIOUS
  <1>0. Len(m) \in Nat /\ \A k \in 1 .. Len(m) : m[k] \in Int
    OBVIOUS
  <1> DEFINE Bad == {j \in 1 .. Len(m) : i < j /\ ~(m[i] >= m[j])}
  <1>1. Bad = {}
    <2> SUFFICES ASSUME Bad # {} PROVE FALSE
      OBVIOUS
    <2>1. Bad \in SUBSET Nat
      OBVIOUS
    <2>2. PICK j \in Bad : \A k \in Bad : j <= k
      <3> HIDE DEF Bad
      <3> QED BY <2>1, LeastNat
    <2>3. j - 1 \in 1 .. Len(m) - 1 /\ j - 1 + 1 = j /\ j - 1 \notin Bad
      BY <2>2
    <2>4. m[j - 1] >= m[j]
      BY <2>3 DEF Descending
    <2>5. i = j - 1 \/ m[i] >= m[j - 1]
      BY <2>2, <2>3
    <2> QED BY <1>0, <2>2, <2>3, <2>4, <2>5
  <1> QED BY <1>1

\* brc_locate: the newer marks are the first ones.
LEMMA NewerFirst ==
  ASSUME NEW m \in Seq(Int), Descending(m), NEW t \in Nat
  PROVE  /\ Newer(m, t) \in 0 .. Len(m)
         /\ \A i \in 1 .. Len(m) : m[i] > t <=> i <= Newer(m, t)
  <1>0. Len(m) \in Nat /\ DOMAIN m = 1 .. Len(m) /\ \A k \in 1 .. Len(m) : m[k] \in Int
    OBVIOUS
  <1> DEFINE Old == {i \in 1 .. Len(m) : ~(m[i] > t)} \cup {Len(m) + 1}
  <1>1. PICK o \in Old : \A k \in Old : o <= k
    <2>1. Old \in SUBSET Nat /\ Old # {}
      BY <1>0
    <2> HIDE DEF Old
    <2> QED BY <2>1, LeastNat
  <1>2. o \in 1 .. Len(m) + 1
    BY <1>0, <1>1
  <1>3. \A i \in 1 .. Len(m) : m[i] > t <=> i <= o - 1
    <2> SUFFICES ASSUME NEW i \in 1 .. Len(m) PROVE m[i] > t <=> i < o
      BY <1>0, <1>2
    <2>1. CASE i < o
      BY <1>0, <1>1, <2>1
    <2>2. CASE ~(i < o)
      <3>1. o \in 1 .. Len(m) /\ ~(m[o] > t)
        BY <1>0, <1>1, <1>2, <2>2
      <3>2. i = o \/ m[o] >= m[i]
        BY <1>0, <2>2, <3>1, Falls
      <3> QED BY <1>0, <2>2, <3>1, <3>2
    <2> QED BY <2>1, <2>2
  <1>4. {i \in DOMAIN m : m[i] > t} = 1 .. o - 1
    BY <1>0, <1>2, <1>3
  <1>5. Cardinality(1 .. o - 1) = o - 1
    <2>1. o - 1 \in Int /\ 1 \in Int
      BY <1>2
    <2>2. Cardinality(1 .. o - 1) = IF 1 > o - 1 THEN 0 ELSE (o - 1) - 1 + 1
      BY <2>1, FS_Interval
    <2> QED BY <1>2, <2>2
  <1>6. Newer(m, t) = o - 1
    BY <1>4, <1>5 DEF Newer
  <1> QED BY <1>0, <1>2, <1>3, <1>6

\* A post counts as read if it is marked, or older than all marks.
ReadBy(m, t) == (\E i \in 1 .. Len(m) : m[i] = t) \/ t < m[Len(m)]

LEMMA UnreadIs ==
  ASSUME NEW m, Fine(m), NEW t \in Nat
  PROVE  Unread(m, t) <=> ~ReadBy(m, t)
  <1>1. m \in Seq(Int) /\ Descending(m) /\ Len(m) \in 1 .. MaxNum
    BY DEF Fine
  <1>2. /\ Newer(m, t) \in 0 .. Len(m)
        /\ \A i \in 1 .. Len(m) : m[i] > t <=> i <= Newer(m, t)
    BY <1>1, NewerFirst
  <1>3. DOMAIN m = 1 .. Len(m) /\ Len(m) \in 1 .. Len(m) /\ m[Len(m)] \in Int
    BY <1>1, MarksAssumption
  <1>4. Newer(m, t) < Len(m) <=> ~(m[Len(m)] > t)
    BY <1>2, <1>3
  <1> QED BY <1>3, <1>4 DEF Unread, ReadBy

LEMMA InsertFine ==
  ASSUME NEW m, Fine(m), NEW t \in Nat, Unread(m, t)
  PROVE  /\ Fine(Insert(m, t))
         /\ \A s \in Nat : ReadBy(Insert(m, t), s) =>
              s = t \/ ReadBy(m, s) \/ (Len(m) = MaxNum /\ s < Last(Insert(m, t)))
         /\ \A s \in Nat : ReadBy(m, s) => ReadBy(Insert(m, t), s)
  <1> DEFINE l == Len(m)
             n == Newer(m, t)
  <1>1. m \in Seq(Int) /\ Descending(m) /\ l \in 1 .. MaxNum /\ l \in Nat
    BY DEF Fine
  <1>2. n \in 0 .. l /\ \A i \in 1 .. l : m[i] > t <=> i <= n
    BY <1>1, NewerFirst
  <1>3. n < l /\ \A i \in 1 .. l : m[i] # t /\ m[i] \in Int
    <2>1. DOMAIN m = 1 .. l /\ \A i \in 1 .. l : m[i] \in Int
      BY <1>1
    <2> QED BY <2>1 DEF Unread
  <1>0. n = Newer(m, t) /\ l = Len(m)
    OBVIOUS
  <1> HIDE DEF n, l
  <1> DEFINE more == InsertAt(m, n + 1, t)
             k == IF l + 1 > MaxNum THEN MaxNum ELSE l + 1
  <1>4. /\ more \in Seq(Int) /\ Len(more) = l + 1
        /\ \A i \in 1 .. l + 1 :
             more[i] = IF i <= n THEN m[i] ELSE IF i = n + 1 THEN t ELSE m[i - 1]
    <2> DEFINE front == SubSeq(m, 1, n)
               back == SubSeq(m, n + 1, l)
    <2>1. /\ front \in Seq(Int) /\ Len(front) = n /\ \A i \in 1 .. n : front[i] = m[i]
      BY <1>0, <1>1, <1>2
    <2>2. back \in Seq(Int) /\ Len(back) = l - n /\ \A i \in 1 .. l - n : back[i] = m[n + i]
      <3>1. back \in Seq(Int) /\ Len(back) = l - n
        BY <1>0, <1>1, <1>2, <1>3
      <3>2. n + 1 \in 1 .. Len(m) + 1
        BY <1>0, <1>1, <1>2, <1>3
      <3>3. \A i \in 1 .. Len(back) : back[i] = m[n + 1 + i - 1]
        BY <1>0, <1>1, <3>2, SubSeqProperties
      <3>4. \A i \in 1 .. l - n : n + 1 + i - 1 = n + i
        BY <1>1, <1>2
      <3> QED BY <3>1, <3>3, <3>4
    <2>3. more = front \o <<t>> \o back
      <3>1. (n + 1) - 1 = n
        BY <1>2
      <3>2. more = SubSeq(m, 1, (n + 1) - 1) \o <<t>> \o SubSeq(m, n + 1, Len(m))
        BY Zenon DEF InsertAt
      <3> QED BY <1>0, <3>1, <3>2, Zenon
    <2> HIDE DEF front, back, more
    <2>4. front \o <<t>> \in Seq(Int) /\ Len(front \o <<t>>) = n + 1
      BY <1>2, <2>1
    <2>5. \A i \in 1 .. n + 1 : (front \o <<t>>)[i] = IF i <= n THEN m[i] ELSE t
      BY <1>2, <2>1
    <2>6. more \in Seq(Int) /\ Len(more) = l + 1
      <3> DEFINE f == front \o <<t>>
      <3>1. f \in Seq(Int) /\ Len(f) = n + 1 /\ more = f \o back
        BY <2>3, <2>4
      <3> HIDE DEF f
      <3>2. more \in Seq(Int) /\ Len(more) = Len(f) + Len(back)
        BY <2>2, <3>1, ConcatProperties
      <3> HIDE DEF l
      <3>3. Len(f) + Len(back) = l + 1
        BY <1>1, <1>2, <2>2, <3>1
      <3> QED BY <3>2, <3>3
    <2>7. \A i \in 1 .. l + 1 : more[i] = IF i <= n + 1 THEN (front \o <<t>>)[i] ELSE back[i - (n + 1)]
      BY <1>1, <1>2, <2>2, <2>3, <2>4
    <2>8. \A i \in 1 .. l + 1 : i > n + 1 => back[i - (n + 1)] = m[i - 1]
      <3>1. \A i \in 1 .. l + 1 : i > n + 1 => i - (n + 1) \in 1 .. l - n /\ n + (i - (n + 1)) = i - 1
        BY <1>1, <1>2
      <3> QED BY <2>2, <3>1
    <2>9. \A i \in 1 .. l + 1 : i <= n => i \in 1 .. n + 1
      BY <1>1, <1>2
    <2>10. n + 1 \in 1 .. n + 1 /\ n + 1 \in 1 .. l + 1
      BY <1>1, <1>2
    <2>11. ASSUME NEW i \in 1 .. l + 1
           PROVE  more[i] = IF i <= n THEN m[i] ELSE IF i = n + 1 THEN t ELSE m[i - 1]
      <3>1. CASE i <= n
        BY <1>2, <2>5, <2>7, <2>9, <3>1
      <3>2. CASE i = n + 1
        BY <1>2, <2>5, <2>7, <2>10, <3>2
      <3>3. CASE i > n + 1
        BY <1>2, <2>7, <2>8, <3>3
      <3> QED BY <1>2, <3>1, <3>2, <3>3
    <2> QED BY <2>6, <2>11
  <1>5. Insert(m, t) = IF l + 1 > MaxNum THEN SubSeq(more, 1, MaxNum) ELSE more
    BY <1>0, <1>4 DEF Insert
  <1> HIDE DEF more
  <1>6. MaxNum \in Nat \ {0}
    BY MarksAssumption
  <1> DEFINE after == Insert(m, t)
  <1>7. /\ after \in Seq(Int) /\ Len(after) = k /\ \A i \in 1 .. k : after[i] = more[i]
    <2>1. CASE l + 1 > MaxNum
      BY <1>1, <1>4, <1>5, <1>6, <2>1
    <2>2. CASE ~(l + 1 > MaxNum)
      BY <1>1, <1>4, <1>5, <1>6, <2>2
    <2> QED BY <2>1, <2>2
  <1> HIDE DEF after
  <1>8. k \in 1 .. MaxNum /\ k <= l + 1 /\ k >= l /\ (l # MaxNum => k = l + 1)
    BY <1>1, <1>6
  <1>9. Descending(after)
    <2> SUFFICES ASSUME NEW i \in 1 .. k - 1 PROVE more[i] >= more[i + 1]
      BY <1>1, <1>6, <1>7, <1>8 DEF Descending
    <2>1. i \in 1 .. l /\ i + 1 \in 1 .. l + 1
      BY <1>1, <1>8
    <2>2. CASE i + 1 <= n
      <3>1. i \in 1 .. l - 1
        BY <1>1, <1>2, <2>2
      <3>2. m[i] >= m[i + 1]
        BY <1>0, <1>1, <3>1 DEF Descending
      <3>3. more[i] = m[i] /\ more[i + 1] = m[i + 1]
        BY <1>2, <1>4, <2>1, <2>2
      <3> QED BY <3>2, <3>3
    <2>3. CASE i = n
      <3>1. m[i] > t /\ m[i] \in Int
        BY <1>2, <1>3, <2>1, <2>3
      <3>2. more[i] = m[i] /\ more[i + 1] = t
        BY <1>2, <1>4, <2>1, <2>3
      <3> QED BY <3>1, <3>2
    <2>4. CASE i = n + 1
      <3>1. ~(m[i] > t) /\ m[i] # t /\ m[i] \in Int
        BY <1>2, <1>3, <2>1, <2>4
      <3>2. more[i] = t /\ more[i + 1] = m[i]
        BY <1>2, <1>4, <2>1, <2>4
      <3> QED BY <3>1, <3>2
    <2>5. CASE i > n + 1
      <3>1. i - 1 \in 1 .. l - 1 /\ i - 1 + 1 = i
        BY <1>1, <1>2, <2>1, <2>5
      <3>2. m[i - 1] >= m[i]
        BY <1>0, <1>1, <3>1 DEF Descending
      <3>3. more[i] = m[i - 1] /\ more[i + 1] = m[i]
        BY <1>2, <1>4, <2>1, <2>5
      <3> QED BY <3>2, <3>3
    <2> QED BY <1>2, <2>1, <2>2, <2>3, <2>4, <2>5
  <1>10. Fine(after)
    BY <1>7, <1>8, <1>9 DEF Fine
  <1>11. ASSUME NEW s \in Nat, ReadBy(after, s)
         PROVE  s = t \/ ReadBy(m, s) \/ (l = MaxNum /\ s < Last(after))
    <2>1. CASE \E i \in 1 .. k : after[i] = s
      <3>1. PICK i \in 1 .. k : more[i] = s
        BY <1>7, <2>1
      <3>2. i \in 1 .. l + 1
        BY <1>1, <1>8
      <3>3. s = t \/ (i \in 1 .. l /\ m[i] = s) \/ (i - 1 \in 1 .. l /\ m[i - 1] = s)
        BY <1>1, <1>2, <1>4, <3>1, <3>2
      <3> QED BY <1>0, <3>3 DEF ReadBy
    <2>2. CASE s < after[k]
      <3>1. CASE l = MaxNum
        BY <1>7, <2>2, <3>1 DEF Last
      <3>2. CASE l # MaxNum
        <4>1. k = l + 1 /\ after[k] = m[l]
          BY <1>1, <1>2, <1>3, <1>4, <1>7, <1>8, <3>2
        <4> QED BY <1>0, <2>2, <4>1 DEF ReadBy
      <3> QED BY <3>1, <3>2
    <2> QED BY <1>7, <1>11, <2>1, <2>2 DEF ReadBy
  \* A mark that falls out is not newer than the last one left.
  <1>12. k \in 1 .. k /\ m[l] <= after[k] /\ after[k] \in Int
    <2>0. k \in 1 .. l + 1 /\ k \in 1 .. k /\ l \in 1 .. l /\ m[l] \in Int
      BY <1>1, <1>3, <1>8
    <2>1. CASE k = l + 1
      <3>1. more[k] = m[l]
        BY <1>1, <1>2, <1>3, <1>4, <2>0, <2>1
      <3> QED BY <1>1, <1>7, <2>0, <2>1, <3>1
    <2>2. CASE k # l + 1
      <3>1. k = l
        BY <1>1, <1>8, <2>2
      <3>2. CASE l = n + 1
        <4>1. more[k] = t /\ ~(m[l] > t) /\ m[l] # t
          BY <1>2, <1>3, <1>4, <2>0, <3>1, <3>2
        <4> QED BY <1>7, <2>0, <3>1, <4>1
      <3>3. CASE l # n + 1
        <4>1. l - 1 \in 1 .. l - 1 /\ l - 1 + 1 = l /\ l > n + 1 /\ l - 1 \in 1 .. l
          BY <1>1, <1>2, <1>3, <3>3
        <4>2. m[l - 1] >= m[l]
          BY <1>0, <1>1, <4>1 DEF Descending
        <4>3. more[k] = m[l - 1]
          BY <1>2, <1>4, <2>0, <3>1, <4>1
        <4> QED BY <1>3, <1>7, <2>0, <3>1, <4>1, <4>2, <4>3
      <3> QED BY <3>2, <3>3
    <2> QED BY <2>1, <2>2
  <1>13. ASSUME NEW s \in Nat, ReadBy(m, s)
         PROVE  ReadBy(after, s)
    <2>1. CASE \E i \in 1 .. l : m[i] = s
      <3>1. PICK i \in 1 .. l : m[i] = s
        BY <2>1
      <3>2. CASE i <= n
        <4>1. i \in 1 .. k /\ i \in 1 .. l + 1
          BY <1>1, <1>2, <1>3, <1>8, <3>2
        <4> QED BY <1>4, <1>7, <3>1, <3>2, <4>1 DEF ReadBy
      <3>3. CASE i > n /\ i + 1 <= k
        <4>1. i + 1 \in 1 .. k /\ i + 1 \in 1 .. l + 1 /\ i + 1 > n + 1 /\ i + 1 - 1 = i
          BY <1>1, <1>2, <1>8, <3>3
        <4>2. more[i + 1] = m[i]
          BY <1>2, <1>4, <4>1
        <4> QED BY <1>7, <3>1, <4>1, <4>2 DEF ReadBy
      <3>4. CASE ~(i + 1 <= k)
        <4>1. i = l /\ k = l
          BY <1>1, <1>8, <3>4
        <4>2. s <= after[k]
          BY <1>12, <3>1, <4>1
        <4>3. s < after[k] \/ after[k] = s
          BY <1>12, <4>2
        <4> QED BY <1>7, <1>12, <4>3 DEF ReadBy
      <3> QED BY <1>1, <1>2, <1>8, <3>2, <3>3, <3>4
    <2>2. CASE s < m[l]
      <3>1. s < after[k]
        BY <1>1, <1>3, <1>12, <2>2
      <3> QED BY <1>7, <3>1 DEF ReadBy
    <2> QED BY <1>0, <1>13, <2>1, <2>2 DEF ReadBy
  <1> QED BY <1>0, <1>10, <1>11, <1>13 DEF after

LEMMA ClearedFine ==
  ASSUME NEW m, Fine(m), NEW t \in Nat
  PROVE  /\ Fine(Cleared(m, t))
         /\ \A s \in Nat : ReadBy(Cleared(m, t), s) => s <= t \/ ReadBy(m, s)
         /\ \A s \in Nat : ReadBy(m, s) => ReadBy(Cleared(m, t), s)
  <1> DEFINE l == Len(m)
             n == Newer(m, t)
  <1>1. m \in Seq(Int) /\ Descending(m) /\ l \in 1 .. MaxNum /\ l \in Nat
    BY DEF Fine
  <1>2. n \in 0 .. l /\ \A i \in 1 .. l : m[i] > t <=> i <= n
    BY <1>1, NewerFirst
  <1>3. CASE n = l
    BY <1>3 DEF Cleared
  <1>4. CASE n # l
    <2> DEFINE after == Append(SubSeq(m, 1, n), t)
    <2>1. Cleared(m, t) = after
      BY <1>4 DEF Cleared
    <2> HIDE DEF n
    <2>2. /\ SubSeq(m, 1, n) \in Seq(Int) /\ Len(SubSeq(m, 1, n)) = n
          /\ \A i \in 1 .. n : SubSeq(m, 1, n)[i] = m[i]
      BY <1>1, <1>2
    <2>3. /\ after \in Seq(Int) /\ Len(after) = n + 1
          /\ \A i \in 1 .. n : after[i] = m[i]
          /\ after[n + 1] = t
      BY <1>2, <2>2
    <2> HIDE DEF after
    <2>4. Descending(after)
      <3> SUFFICES ASSUME NEW i \in 1 .. n PROVE after[i] >= after[i + 1]
        BY <1>2, <2>3 DEF Descending
      <3>1. CASE i = n
        BY <1>2, <2>3, <3>1
      <3>2. CASE i # n
        <4>1. i \in 1 .. l - 1 /\ i + 1 \in 1 .. n
          BY <1>1, <1>2, <3>2
        <4> QED BY <1>1, <2>3, <4>1 DEF Descending
      <3> QED BY <3>1, <3>2
    <2>5. n + 1 \in 1 .. MaxNum
      BY <1>1, <1>2, <1>4, MarksAssumption
    <2>6. ASSUME NEW s \in Nat, ReadBy(after, s) PROVE s <= t \/ ReadBy(m, s)
      <3>1. \/ s < t
            \/ \E i \in 1 .. n + 1 : after[i] = s
        BY <2>3, <2>6 DEF ReadBy
      <3>2. ASSUME NEW i \in 1 .. n + 1, after[i] = s PROVE s = t \/ ReadBy(m, s)
        BY <1>1, <1>2, <2>3, <3>2 DEF ReadBy
      <3> QED BY <3>1, <3>2
    <2>7. ASSUME NEW s \in Nat, ReadBy(m, s) PROVE ReadBy(after, s)
      <3>0. l \in 1 .. l /\ ~(m[l] > t) /\ \A i \in 1 .. l : m[i] \in Int
        BY <1>1, <1>2, <1>4
      <3>1. ASSUME s <= t PROVE ReadBy(after, s)
        <4>1. n + 1 \in 1 .. n + 1 /\ Len(after) = n + 1 /\ after[n + 1] = t
          BY <1>2, <2>3
        <4> QED BY <3>1, <4>1 DEF ReadBy
      <3>2. ASSUME NEW i \in 1 .. l, m[i] = s PROVE ReadBy(after, s)
        <4>1. CASE i <= n
          <5>1. i \in 1 .. n /\ i \in 1 .. n + 1
            BY <1>2, <4>1
          <5> QED BY <2>3, <3>2, <5>1 DEF ReadBy
        <4>2. CASE ~(i <= n)
          BY <1>2, <3>0, <3>1, <3>2, <4>2
        <4> QED BY <4>1, <4>2
      <3>3. ASSUME s < m[l] PROVE ReadBy(after, s)
        BY <3>0, <3>1, <3>3
      <3> QED BY <2>7, <3>2, <3>3 DEF ReadBy
    <2> QED BY <2>1, <2>3, <2>4, <2>5, <2>6, <2>7 DEF Fine
  <1> QED BY <1>3, <1>4

\* shorter_brc drops marks each of which is one second older than the one before.
LEMMA ShorterIs ==
  ASSUME NEW m \in Seq(Int), Len(m) \in 1 .. MaxNum
  PROVE  \E e \in 1 .. Len(m) :
           /\ Shorter(m) = SubSeq(m, 1, e)
           /\ \A k \in 1 .. Len(m) : k > e => m[k - 1] - m[k] = 1
  <1> DEFINE l == Len(m)
  <1>1. l \in 1 .. MaxNum /\ l \in Nat /\ DOMAIN m = 1 .. l
    OBVIOUS
  <1>0. l = Len(m)
    OBVIOUS
  <1> HIDE DEF l
  <1> DEFINE ends == {n \in DOMAIN m : n = 1 \/ m[n - 1] - m[n] # 1}
             e == CHOOSE n \in ends : \A k \in ends : k <= n
  <1>2. \E n \in ends : \A k \in ends : k <= n
    <2> DEFINE Left == {d \in 0 .. l : l - d \in ends}
    <2>1. 1 \in ends
      BY <1>1
    <2>2. l - 1 \in Left
      <3>1. l - 1 \in 0 .. l /\ l - (l - 1) = 1
        BY <1>1
      <3> QED BY <2>1, <3>1
    <2>3. PICK d \in Left : \A c \in Left : d <= c
      <3>1. Left \in SUBSET Nat
        BY <1>1
      <3> HIDE DEF Left
      <3> QED BY <2>2, <3>1, LeastNat
    <2>4. ASSUME NEW k \in ends PROVE k <= l - d
      <3>1. k \in 1 .. l
        BY <1>1
      <3>2. l - k \in 0 .. l /\ l - (l - k) = k
        BY <1>1, <3>1
      <3>3. l - k \in Left
        BY <3>2
      <3>4. d <= l - k /\ d \in 0 .. l
        BY <2>3, <3>3
      <3> QED BY <1>1, <3>1, <3>4
    <2> QED BY <2>3, <2>4
  <1>3. e \in ends /\ \A k \in ends : k <= e
    <2> HIDE DEF ends
    <2> QED BY <1>2
  <1>4. e \in 1 .. l /\ \A k \in 1 .. l : k > e => m[k - 1] - m[k] = 1
    <2> HIDE DEF e
    <2>1. e \in ends
      BY <1>3
    <2>2. e \in 1 .. l
      BY <1>1, <2>1
    <2>3. ASSUME NEW k \in 1 .. l, k > e PROVE m[k - 1] - m[k] = 1
      <3>1. k \notin ends
        <4> HIDE DEF ends
        <4>1. k \in Int /\ e \in Int /\ ~(k <= e)
          BY <1>1, <2>2, <2>3
        <4> QED BY <1>3, <4>1
      <3> QED BY <1>1, <2>3, <3>1
    <2> QED BY <2>2, <2>3
  <1>5. Shorter(m) = SubSeq(m, 1, e)
    BY DEF Shorter
  <1> HIDE DEF e, ends
  <1> QED BY <1>0, <1>4, <1>5

\* What shorter_brc drops is a run of seconds, all of them marked.
LEMMA ShorterFine ==
  ASSUME NEW m, Fine(m)
  PROVE  /\ Fine(Shorter(m))
         /\ \A s \in Nat : ReadBy(Shorter(m), s) <=> ReadBy(m, s)
  <1> DEFINE l == Len(m)
  <1>1. /\ m \in Seq(Int) /\ Descending(m) /\ l \in 1 .. MaxNum /\ l \in Nat
        /\ DOMAIN m = 1 .. l /\ \A i \in 1 .. l : m[i] \in Int
    BY DEF Fine
  <1>0. l = Len(m)
    OBVIOUS
  <1> HIDE DEF l
  <1>2. PICK e \in 1 .. Len(m) : /\ Shorter(m) = SubSeq(m, 1, e)
                                 /\ \A k \in 1 .. Len(m) : k > e => m[k - 1] - m[k] = 1
    BY <1>0, <1>1, ShorterIs
  <1>4. e \in 1 .. l /\ \A k \in 1 .. l : k > e => m[k - 1] - m[k] = 1
    BY <1>0, <1>2
  <1>5. Shorter(m) = SubSeq(m, 1, e)
    BY <1>2
  <1> DEFINE after == SubSeq(m, 1, e)
  <1>6. after \in Seq(Int) /\ Len(after) = e /\ \A i \in 1 .. e : after[i] = m[i]
    BY <1>0, <1>1, <1>4
  <1> HIDE DEF after
  <1>7. Descending(after)
    <2> SUFFICES ASSUME NEW i \in 1 .. e - 1 PROVE after[i] >= after[i + 1]
      BY <1>6 DEF Descending
    <2>1. i \in 1 .. l - 1 /\ i \in 1 .. e /\ i + 1 \in 1 .. e
      BY <1>1, <1>4
    <2> QED BY <1>0, <1>1, <1>6, <2>1 DEF Descending
  <1>8. e \in 1 .. MaxNum
    BY <1>1, <1>4, MarksAssumption
  \* The mark d places behind e is d seconds older.
  <1>9. \A d \in 0 .. l - e : m[e + d] = m[e] - d
    <2> DEFINE Bad == {d \in 0 .. l - e : m[e + d] # m[e] - d}
    <2> SUFFICES ASSUME Bad # {} PROVE FALSE
      OBVIOUS
    <2>1. PICK d \in Bad : \A c \in Bad : d <= c
      <3>1. Bad \in SUBSET Nat
        BY <1>1, <1>4
      <3> HIDE DEF Bad
      <3> QED BY <3>1, LeastNat
    <2>0. d \in 0 .. l - e /\ m[e + d] # m[e] - d
      BY <2>1
    <2>2. d # 0
      BY <1>1, <1>4, <2>0
    <2>3. d - 1 \in 0 .. l - e /\ d - 1 \notin Bad
      <3>1. d - 1 \in 0 .. l - e /\ ~(d <= d - 1)
        BY <1>1, <1>4, <2>0, <2>2
      <3> HIDE DEF Bad
      <3> QED BY <2>1, <3>1
    <2>4. m[e + (d - 1)] = m[e] - (d - 1)
      BY <2>3
    <2>5. e + d \in 1 .. l /\ e + d > e /\ e + d - 1 = e + (d - 1)
      BY <1>1, <1>4, <2>0, <2>2
    <2>6. m[e + d - 1] - m[e + d] = 1
      BY <1>4, <2>5
    <2>7. m[e + d] \in Int /\ m[e] \in Int
      BY <1>1, <1>4, <2>5
    <2>8. m[e + d - 1] = m[e] - (d - 1)
      BY <2>4, <2>5
    <2>9. d \in Nat /\ m[e + d] = m[e + d - 1] - 1
      BY <2>0, <2>6, <2>7, <2>8
    <2> QED BY <2>0, <2>7, <2>8, <2>9
  <1>10. ASSUME NEW s \in Nat, ReadBy(after, s) PROVE ReadBy(m, s)
    <2>1. CASE \E i \in 1 .. e : after[i] = s
      BY <1>0, <1>1, <1>4, <1>6, <2>1 DEF ReadBy
    <2>2. CASE s < m[e]
      <3>1. l - e \in 0 .. l - e /\ e + (l - e) = l
        BY <1>1, <1>4
      <3>2. m[l] = m[e] - (l - e)
        BY <1>9, <3>1
      <3>3. CASE s < m[l]
        BY <1>0, <3>3 DEF ReadBy
      <3>4. CASE ~(s < m[l])
        <4> DEFINE d == m[e] - s
        <4>1. m[e] \in Int /\ m[l] \in Int
          BY <1>1, <1>4
        <4>2. d \in 0 .. l - e
          <5>1. l - e \in Nat
            BY <1>1, <1>4
          <5> HIDE DEF l
          <5> QED BY <2>2, <3>2, <3>4, <4>1, <5>1
        <4>3. m[e + d] = s /\ e + d \in 1 .. l
          <5>1. m[e + d] = m[e] - d
            BY <1>9, <4>2
          <5>2. m[e] - d = s
            BY <4>1
          <5>3. e + d \in 1 .. l
            <6> HIDE DEF d
            <6> QED BY <1>1, <1>4, <4>2
          <5> QED BY <5>1, <5>2, <5>3
        <4> QED BY <1>0, <4>3 DEF ReadBy
      <3> QED BY <3>3, <3>4
    <2>3. after[e] = m[e] /\ Len(after) = e
      BY <1>4, <1>6
    <2> QED BY <1>10, <2>1, <2>2, <2>3 DEF ReadBy
  <1>11. ASSUME NEW s \in Nat, ReadBy(m, s) PROVE ReadBy(after, s)
    <2>0. /\ after[e] = m[e] /\ Len(after) = e /\ l \in 1 .. l /\ e \in 1 .. l
          /\ \A i \in 1 .. l : e < i => m[e] >= m[i]
      <3>1. \A i, j \in 1 .. l : i < j => m[i] >= m[j]
        BY <1>0, <1>1, Falls
      <3>2. l \in 1 .. l /\ e \in 1 .. e
        BY <1>1, <1>4
      <3> QED BY <1>4, <1>6, <3>1, <3>2
    <2>1. ASSUME NEW i \in 1 .. l, m[i] = s PROVE ReadBy(after, s)
      <3>1. CASE i \in 1 .. e
        BY <1>6, <2>1, <3>1 DEF ReadBy
      <3>2. CASE i \notin 1 .. e
        <4>1. e < i
          BY <1>4, <3>2
        <4>2. s < after[e] \/ after[e] = s
          BY <1>1, <2>0, <2>1, <4>1
        <4>3. e \in 1 .. Len(after)
          BY <1>4, <2>0
        <4> QED BY <2>0, <4>2, <4>3 DEF ReadBy
      <3> QED BY <3>1, <3>2
    <2>2. ASSUME s < m[l] PROVE ReadBy(after, s)
      <3>1. m[l] <= m[e] /\ m[l] \in Int /\ m[e] \in Int
        <4>1. e = l \/ e < l
          BY <1>1, <1>4
        <4> QED BY <1>1, <2>0, <4>1
      <3>2. s < after[e]
        BY <2>0, <2>2, <3>1
      <3> QED BY <2>0, <3>2 DEF ReadBy
    <2> QED BY <1>0, <1>11, <2>1, <2>2 DEF ReadBy
  <1> QED BY <1>5, <1>6, <1>7, <1>8, <1>10, <1>11 DEF Fine, after

\* compress_brc and uncompress_brc lose nothing of a list that never goes up.
LEMMA CodedFine ==
  ASSUME NEW m, Fine(m)
  PROVE  Coded(m) = m
  <1>1. m \in Seq(Int) /\ Descending(m) /\ Len(m) \in 1 .. MaxNum
    BY DEF Fine
  <1>2. Len(m) = 1 \/ m[1] - m[2] >= 0
    <2> DEFINE l == Len(m)
    <2> SUFFICES ASSUME l # 1 PROVE m[1] - m[2] >= 0
      OBVIOUS
    <2>0. l \in Nat /\ l >= 1
      BY <1>1, MarksAssumption
    <2>1. l = Len(m) /\ \A i \in 1 .. l : m[i] \in Int
      BY <1>1
    <2> HIDE DEF l
    <2>2. 1 \in 1 .. l - 1 /\ 1 \in 1 .. l /\ 2 \in 1 .. l
      BY <2>0
    <2>3. m[1] >= m[1 + 1]
      BY <1>1, <2>1, <2>2 DEF Descending
    <2> QED BY <2>1, <2>2, <2>3
  <1> QED BY <1>2 DEF Coded

\* Of a list that never goes up but from its first mark they make one that
\* never goes up.
LEMMA CodedFalls ==
  ASSUME NEW m \in Seq(Int), Len(m) \in 1 .. MaxNum,
         \A i \in 2 .. Len(m) - 1 : m[i] >= m[i + 1]
  PROVE  Fine(Coded(m))
  <1> DEFINE l == Len(m)
             diff == m[1] - m[2]
             low == diff % Byte
  <1>1. l \in Nat /\ l >= 1 /\ l \in 1 .. MaxNum /\ \A i \in 1 .. l : m[i] \in Int
    BY MarksAssumption
  <1>2. CASE l = 1 \/ diff >= 0
    <2>1. Coded(m) = m
      BY <1>2 DEF Coded
    <2>2. ASSUME NEW i \in 1 .. l - 1 PROVE m[i] >= m[i + 1]
      <3>1. CASE i = 1
        <4>1. 1 \in 1 .. l /\ 2 \in 1 .. l /\ diff >= 0
          BY <1>1, <1>2, <3>1
        <4> QED BY <1>1, <3>1, <4>1
      <3>2. CASE i # 1
        BY <1>1, <3>2
      <3> QED BY <3>1, <3>2
    <2> QED BY <2>1, <2>2 DEF Fine, Descending
  <1>3. CASE l # 1 /\ ~(diff >= 0)
    <2> DEFINE after == [i \in 1 .. l |-> IF i = 1 THEN m[1] ELSE m[i] + diff - low]
    <2>1. Coded(m) = after
      BY <1>3, Zenon DEF Coded
    <2>2. 1 \in 1 .. l /\ 2 \in 1 .. l /\ m[1] \in Int /\ m[2] \in Int
      <3> HIDE DEF l, diff
      <3>1. 1 \in 1 .. l /\ 2 \in 1 .. l
        BY <1>1, <1>3
      <3> QED BY <1>1, <3>1
    <2>3. diff \in Int /\ low \in Nat
      <3>1. diff \in Int
        BY <2>2
      <3>2. Byte \in Nat \ {0}
        BY MarksAssumption
      <3> HIDE DEF diff
      <3> QED BY <3>1, <3>2
    <2>0. diff = m[1] - m[2] /\ l = Len(m)
      OBVIOUS
    <2> HIDE DEF diff, low, l
    <2>4. \A i \in 1 .. l : after[i] \in Int
      BY <1>1, <2>2, <2>3
    <2>5. after \in Seq(Int) /\ Len(after) = l
      <3> DEFINE val(i) == IF i = 1 THEN m[1] ELSE m[i] + diff - low
      <3>1. \A i \in 1 .. l : val(i) \in Int
        BY <2>4
      <3> HIDE DEF val
      <3>2. [i \in 1 .. l |-> val(i)] \in Seq(Int) /\ Len([i \in 1 .. l |-> val(i)]) = l
        BY <1>1, <3>1
      <3> QED BY <3>2 DEF val
    <2>6. ASSUME NEW i \in 1 .. l - 1 PROVE after[i] >= after[i + 1]
      <3>1. i \in 1 .. l /\ i + 1 \in 1 .. l /\ i + 1 # 1
        BY <1>1
      <3>2. after[i + 1] = m[i + 1] + diff - low
        BY <3>1
      <3>3. CASE i = 1
        <4>1. after[i] = m[1] /\ after[i + 1] = m[2] + diff - low
          BY <3>1, <3>2, <3>3
        <4> HIDE DEF after
        <4> QED BY <2>0, <2>2, <2>3, <4>1
      <3>4. CASE i # 1
        <4>1. after[i] = m[i] + diff - low
          BY <3>1, <3>4
        <4>2. m[i] >= m[i + 1] /\ m[i] \in Int /\ m[i + 1] \in Int
          BY <1>1, <2>0, <3>1, <3>4
        <4> HIDE DEF after
        <4> QED BY <2>3, <3>2, <4>1, <4>2
      <3> QED BY <3>3, <3>4
    <2> HIDE DEF after
    <2> QED BY <1>1, <2>1, <2>5, <2>6 DEF Fine, Descending
  <1> QED BY <1>2, <1>3

\* What stood before a list is put before it: it is written as a list that never
\* goes up.
LEMMA JunkFine ==
  ASSUME NEW m, Fine(m), NEW junk \in Int, NEW more, more = <<junk>> \o m,
         NEW n, n = IF Len(more) > MaxNum THEN SubSeq(more, 1, MaxNum) ELSE more
  PROVE  Fine(Coded(Shorter(n)))
  <1> DEFINE l == Len(m)
             k == Len(n)
  <1>1. /\ m \in Seq(Int) /\ Descending(m) /\ l \in 1 .. MaxNum /\ l \in Nat
        /\ MaxNum \in Nat \ {0}
    BY MarksAssumption DEF Fine
  <1>2. /\ more \in Seq(Int) /\ Len(more) = l + 1
        /\ \A i \in 2 .. l + 1 : more[i] = m[i - 1]
    BY <1>1
  <1>0. l = Len(m) /\ k = Len(n)
    OBVIOUS
  <1> HIDE DEF l, k
  <1>3. n \in Seq(Int) /\ k \in 1 .. MaxNum /\ k <= l + 1 /\ \A i \in 1 .. k : n[i] = more[i]
    <2>1. CASE l + 1 > MaxNum
      <3>1. n = SubSeq(more, 1, MaxNum)
        BY <1>2, <2>1
      <3>2. more \in Seq(Int) /\ 1 .. MaxNum \subseteq 1 .. Len(more)
        BY <1>1, <1>2, <2>1
      <3>3. n \in Seq(Int) /\ Len(n) = MaxNum /\ \A i \in 1 .. MaxNum : n[i] = more[i]
        BY ONLY <1>1, <3>1, <3>2
      <3> QED BY <1>0, <1>1, <2>1, <3>3
    <2>2. CASE ~(l + 1 > MaxNum)
      <3>1. n = more
        BY <1>2, <2>2
      <3> QED BY <1>0, <1>1, <1>2, <2>2, <3>1
    <2> QED BY <2>1, <2>2
  <1>4. ASSUME NEW i \in 2 .. k - 1 PROVE n[i] >= n[i + 1]
    <2>1. /\ i \in 1 .. k /\ i + 1 \in 1 .. k /\ i \in 2 .. l + 1 /\ i + 1 \in 2 .. l + 1
          /\ i - 1 \in 1 .. l - 1 /\ i - 1 + 1 = i /\ i + 1 - 1 = i
      BY <1>1, <1>3
    <2>2. n[i] = m[i - 1] /\ n[i + 1] = m[i]
      BY <1>2, <1>3, <2>1
    <2>3. m[i - 1] >= m[i]
      BY <1>0, <1>1, <2>1 DEF Descending
    <2> QED BY <2>2, <2>3
  <1>5. PICK e \in 1 .. k : Shorter(n) = SubSeq(n, 1, e)
    <2>1. \E e \in 1 .. Len(n) :
            /\ Shorter(n) = SubSeq(n, 1, e)
            /\ \A j \in 1 .. Len(n) : j > e => n[j - 1] - n[j] = 1
      BY <1>0, <1>3, ShorterIs
    <2> QED BY <1>0, <2>1
  <1> DEFINE s == SubSeq(n, 1, e)
  <1>6. s \in Seq(Int) /\ Len(s) = e /\ \A i \in 1 .. e : s[i] = n[i]
    <2>1. n \in Seq(Int) /\ e \in Nat /\ 1 .. e \subseteq 1 .. Len(n)
      BY <1>0, <1>1, <1>3
    <2> QED BY ONLY <2>1
  <1> HIDE DEF s
  <1>7. \A i \in 2 .. Len(s) - 1 : s[i] >= s[i + 1]
    <2>1. \A i \in 2 .. e - 1 : i \in 2 .. k - 1 /\ i \in 1 .. e /\ i + 1 \in 1 .. e
      BY <1>1, <1>3
    <2> QED BY <1>4, <1>6, <2>1
  <1>8. Len(s) \in 1 .. MaxNum
    BY <1>1, <1>3, <1>6
  <1>9. Fine(Coded(s))
    BY <1>6, <1>7, <1>8, CodedFalls
  <1> QED BY <1>5, <1>9 DEF s

-----------------------------------------------------------------------------
(* Files                                                                   *)

Cell == [board : Names \cup {NoBoard}, marks : Seq(Int)]
IsHead(r) == r \in Cell /\ r.board # NoBoard /\ Fine(r.marks)

\* Cells of which those that can be heads of records are well formed.
Sheet(c) == c \in Seq(Cell) /\ \A i \in 1 .. Len(c) : c[i].board # NoBoard => IsHead(c[i])

\* r is a head somewhere in c, be it read as a record or hidden in another.
HeadOf(c, r) == \E i \in 1 .. Len(c) : c[i].board # NoBoard /\ c[i] = r

Distinct(recs) ==
  \A i, j \in 1 .. Len(recs) : recs[i].board = recs[j].board => i = j

\* Induction from n down to 1, and from 0 up to n.
LEMMA Downwards ==
  ASSUME NEW n \in Nat, NEW G, n \in G,
         \A i \in 1 .. n - 1 : (\A k \in i + 1 .. n : k \in G) => i \in G
  PROVE  1 .. n \subseteq G
  <1> DEFINE Bad == {d \in 0 .. n - 1 : n - d \notin G}
  <1>1. Bad = {}
    <2> SUFFICES ASSUME Bad # {} PROVE FALSE
      OBVIOUS
    <2>1. PICK d \in Bad : \A c \in Bad : d <= c
      <3>1. Bad \in SUBSET Nat
        OBVIOUS
      <3> HIDE DEF Bad
      <3> QED BY <3>1, LeastNat
    <2>2. d # 0 /\ d \in 0 .. n - 1
      BY <2>1
    <2>3. n - d \in 1 .. n - 1
      BY <2>2
    <2>4. ASSUME NEW k \in (n - d) + 1 .. n PROVE k \in G
      <3>1. n - k \in 0 .. n - 1 /\ n - k < d /\ n - (n - k) = k
        BY <2>2
      <3>2. n - k \notin Bad
        <4> HIDE DEF Bad
        <4> QED BY <2>1, <2>2, <3>1
      <3> QED BY <3>1, <3>2
    <2> QED BY <2>1, <2>3, <2>4
  <1> SUFFICES ASSUME NEW i \in 1 .. n PROVE i \in G
    OBVIOUS
  <1>2. n - i \in 0 .. (n - 1) /\ n - (n - i) = i
    OBVIOUS
  <1>3. \A d \in 0 .. (n - 1) : n - d \in G
    BY <1>1
  <1> HIDE DEF Bad
  <1>4. n - (n - i) \in G
    BY <1>2, <1>3
  <1> QED BY <1>2, <1>4

LEMMA Upwards ==
  ASSUME NEW n \in Nat, NEW G, 0 \in G, \A k \in 1 .. n : k - 1 \in G => k \in G
  PROVE  0 .. n \subseteq G
  <1> DEFINE Bad == {k \in 0 .. n : k \notin G}
  <1>1. Bad = {}
    <2> SUFFICES ASSUME Bad # {} PROVE FALSE
      OBVIOUS
    <2>1. PICK k \in Bad : \A c \in Bad : k <= c
      <3>1. Bad \in SUBSET Nat
        OBVIOUS
      <3> HIDE DEF Bad
      <3> QED BY <3>1, LeastNat
    <2>2. k \in 1 .. n /\ k - 1 \in 0 .. n /\ k - 1 \notin Bad
      <3>1. k \in 0 .. n /\ k # 0
        BY <2>1
      <3>2. k - 1 \in 0 .. n /\ ~(k <= k - 1)
        BY <3>1
      <3> HIDE DEF Bad
      <3> QED BY <2>1, <3>1, <3>2
    <2> QED BY <2>1, <2>2
  <1> QED BY <1>1

-----------------------------------------------------------------------------
(* Parsing                                                                 *)

\* Where the parsing goes on after the record at i, or ends.
Ends(c, i) == i > Len(c) \/ c[i].board = NoBoard \/ i + Size(c[i]) - 1 > Len(c)
From(c, f, i) ==
  IF Ends(c, i) THEN [recs |-> <<>>, end |-> i - 1]
  ELSE [f[i + Size(c[i])] EXCEPT !.recs = <<c[i]>> \o @]

LEMMA SizeOf ==
  ASSUME NEW c, Sheet(c), NEW i \in 1 .. Len(c) + 1, ~Ends(c, i)
  PROVE  /\ i \in 1 .. Len(c) /\ IsHead(c[i])
         /\ Size(c[i]) \in Nat /\ i + Size(c[i]) \in i + 1 .. Len(c) + 1
  <1>1. Len(c) \in Nat
    BY DEF Sheet
  <1>2. i \in 1 .. Len(c) /\ c[i].board # NoBoard
    BY <1>1 DEF Ends
  <1>3. IsHead(c[i])
    BY <1>2 DEF Sheet
  <1>4. Len(c[i].marks) \in Nat /\ Len(c[i].marks) >= 1
    BY <1>3, MarksAssumption DEF IsHead, Fine
  <1>5. ~(i + Size(c[i]) - 1 > Len(c))
    BY DEF Ends
  <1> QED BY <1>1, <1>2, <1>3, <1>4, <1>5 DEF Size

LEMMA ParseExists ==
  ASSUME NEW c, Sheet(c)
  PROVE  \E f : f = [i \in 1 .. Len(c) + 1 |-> From(c, f, i)]
  <1> DEFINE n == Len(c) + 1
             G == {k \in 1 .. n : \E f : f = [i \in k .. n |-> From(c, f, i)]}
  <1>1. n \in Nat /\ n \in 1 .. n /\ Len(c) \in Nat
    BY DEF Sheet
  <1>2. n \in G
    <2> DEFINE f == [i \in n .. n |-> [recs |-> <<>>, end |-> i - 1]]
    <2>1. \A i \in n .. n : From(c, f, i) = [recs |-> <<>>, end |-> i - 1]
      BY <1>1 DEF From, Ends
    <2>2. f = [i \in n .. n |-> From(c, f, i)]
      BY <2>1
    <2> HIDE DEF f
    <2> QED BY <1>1, <2>2
  <1>3. ASSUME NEW i \in 1 .. n - 1, \A k \in i + 1 .. n : k \in G PROVE i \in G
    <2>1. i + 1 \in G /\ i + 1 \in 1 .. n
      BY <1>1, <1>3
    <2>2. PICK f : f = [j \in i + 1 .. n |-> From(c, f, j)]
      BY <2>1
    <2> DEFINE g == [j \in i .. n |-> From(c, f, j)]
    <2>3. \A j \in i + 1 .. n : g[j] = f[j]
      <3>1. \A j \in i + 1 .. n : f[j] = From(c, f, j)
        BY <2>2
      <3>2. \A j \in i + 1 .. n : j \in i .. n
        BY <1>1
      <3> QED BY <3>1, <3>2
    <2>4. ASSUME NEW j \in i .. n PROVE From(c, f, j) = From(c, g, j)
      <3>1. CASE Ends(c, j)
        BY <3>1 DEF From
      <3>2. CASE ~Ends(c, j)
        <4>1. j \in 1 .. Len(c) + 1
          BY <1>1
        <4>2. j + Size(c[j]) \in j + 1 .. Len(c) + 1
          BY <3>2, <4>1, SizeOf
        <4>3. j + Size(c[j]) \in i + 1 .. n
          BY <1>1, <4>2
        <4>4. g[j + Size(c[j])] = f[j + Size(c[j])]
          BY <2>3, <4>3
        <4> HIDE DEF g
        <4> QED BY <4>4 DEF From
      <3> QED BY <3>1, <3>2
    <2>5. g = [j \in i .. n |-> From(c, g, j)]
      <3> DEFINE h == [j \in i .. n |-> From(c, g, j)]
      <3>1. \A j \in i .. n : g[j] = h[j]
        BY <2>4
      <3> QED BY <3>1
    <2> HIDE DEF g
    <2> QED BY <1>1, <2>5
  <1>4. 1 .. n \subseteq G
    <2> HIDE DEF G, n
    <2> QED BY <1>1, <1>2, <1>3, Downwards
  <1>5. 1 \in G
    BY <1>1, <1>4
  <1> QED BY <1>5

\* The function whose value at 1 is what was parsed.
LEMMA ParseFrom ==
  ASSUME NEW c, Sheet(c)
  PROVE  \E f : /\ \A i \in 1 .. Len(c) + 1 : f[i] = From(c, f, i)
                /\ Parsed(c) = f[1]
  <1> DEFINE f == CHOOSE g : g = [i \in 1 .. Len(c) + 1 |-> From(c, g, i)]
  <1>1. f = [i \in 1 .. Len(c) + 1 |-> From(c, f, i)]
    BY ParseExists
  <1>2. Parsed(c) = f[1]
    BY DEF Parsed, From, Ends
  <1> HIDE DEF f
  <1>3. \A i \in 1 .. Len(c) + 1 : f[i] = From(c, f, i)
    BY <1>1
  <1> QED BY <1>2, <1>3

\* What is parsed from i on: a sequence of heads of the file, and an end in it.
Good(c, p) ==
  /\ p = [recs |-> p.recs, end |-> p.end]
  /\ p.recs \in Seq(Cell) /\ p.end \in 0 .. Len(c)
  /\ \A j \in 1 .. Len(p.recs) : IsHead(p.recs[j]) /\ HeadOf(c, p.recs[j])

LEMMA FromGood ==
  ASSUME NEW c, Sheet(c), NEW f, \A i \in 1 .. Len(c) + 1 : f[i] = From(c, f, i)
  PROVE  \A i \in 1 .. Len(c) + 1 : Good(c, f[i])
  <1> DEFINE n == Len(c) + 1
             G == {i \in 1 .. n : Good(c, f[i])}
  <1>1. n \in Nat /\ n \in 1 .. n /\ Len(c) \in Nat
    BY DEF Sheet
  <1>2. ASSUME NEW i \in 1 .. n, Ends(c, i) PROVE i \in G
    <2>1. f[i] = [recs |-> <<>>, end |-> i - 1]
      BY <1>2 DEF From
    <2>2. i - 1 \in 0 .. Len(c) /\ <<>> \in Seq(Cell) /\ Len(<<>>) = 0
      BY <1>1
    <2> DEFINE e == <<>>
    <2>3. e \in Seq(Cell) /\ Len(e) = 0 /\ 1 .. 0 = {}
      OBVIOUS
    <2>4. f[i] = [recs |-> e, end |-> i - 1]
      BY <2>1
    <2> HIDE DEF e
    <2>5. f[i].recs = e /\ f[i].end = i - 1 /\ f[i] = [recs |-> f[i].recs, end |-> f[i].end]
      BY <2>4
    <2>6. Good(c, f[i])
      BY <2>2, <2>3, <2>5 DEF Good
    <2> QED BY <2>6
  <1>3. n \in G
    BY <1>1, <1>2 DEF Ends
  <1>4. ASSUME NEW i \in 1 .. n - 1, \A k \in i + 1 .. n : k \in G PROVE i \in G
    <2>0. i \in 1 .. n
      BY <1>1
    <2>1. CASE Ends(c, i)
      BY <1>2, <2>0, <2>1
    <2>2. CASE ~Ends(c, i)
      <3> DEFINE p == f[i + Size(c[i])]
      <3>1. i \in 1 .. Len(c) /\ IsHead(c[i]) /\ i + Size(c[i]) \in i + 1 .. n
        BY <2>0, <2>2, SizeOf
      <3>2. Good(c, p)
        BY <1>4, <3>1
      <3>3. f[i] = [p EXCEPT !.recs = <<c[i]>> \o @]
        BY <2>0, <2>2 DEF From
      <3> HIDE DEF p
      <3> DEFINE r == <<c[i]>> \o p.recs
      <3>4. f[i] = [recs |-> r, end |-> p.end]
        BY <3>2, <3>3 DEF Good
      <3>5. c[i] \in Cell /\ p.recs \in Seq(Cell)
        BY <3>1, <3>2 DEF IsHead, Good
      <3>6. /\ r \in Seq(Cell) /\ Len(r) = Len(p.recs) + 1 /\ Len(p.recs) \in Nat
            /\ r[1] = c[i]
            /\ \A j \in 2 .. Len(r) : r[j] = p.recs[j - 1]
        BY <3>5
      <3> HIDE DEF r
      <3>7. HeadOf(c, c[i])
        BY <3>1 DEF HeadOf, IsHead
      <3>8. ASSUME NEW j \in 1 .. Len(r) PROVE IsHead(r[j]) /\ HeadOf(c, r[j])
        <4>1. CASE j = 1
          BY <3>1, <3>6, <3>7, <4>1
        <4>2. CASE j # 1
          <5>1. j \in 2 .. Len(r) /\ j - 1 \in 1 .. Len(p.recs)
            BY <3>6, <4>2
          <5> QED BY <3>2, <3>6, <5>1 DEF Good
        <4> QED BY <4>1, <4>2
      <3>9. p.end \in 0 .. Len(c)
        BY <3>2 DEF Good
      <3>10. Good(c, f[i])
        BY <3>4, <3>6, <3>8, <3>9 DEF Good
      <3> QED BY <2>0, <3>10
    <2> QED BY <2>1, <2>2
  <1>5. 1 .. n \subseteq G
    <2> HIDE DEF G, n
    <2> QED BY <1>1, <1>3, <1>4, Downwards
  <1> QED BY <1>5

LEMMA ParsedGood ==
  ASSUME NEW c, Sheet(c)
  PROVE  Good(c, Parsed(c))
  <1>1. PICK f : (\A i \in 1 .. Len(c) + 1 : f[i] = From(c, f, i)) /\ Parsed(c) = f[1]
    BY ParseFrom
  <1>2. \A i \in 1 .. Len(c) + 1 : Good(c, f[i])
    BY <1>1, FromGood
  <1>3. 1 \in 1 .. Len(c) + 1
    BY DEF Sheet
  <1> QED BY <1>1, <1>2, <1>3

LEMMA EmptyParsed ==
  Sheet(<<>>) /\ Whole(<<>>) /\ Records(<<>>) = <<>>
  <1>1. Sheet(<<>>) /\ Len(<<>>) = 0
    BY DEF Sheet
  <1>2. PICK f : (\A i \in 1 .. Len(<<>>) + 1 : f[i] = From(<<>>, f, i)) /\ Parsed(<<>>) = f[1]
    BY <1>1, ParseFrom
  <1>3. f[1] = [recs |-> <<>>, end |-> 0]
    <2>1. Ends(<<>>, 1) /\ 1 - 1 = 0 /\ 1 \in 1 .. Len(<<>>) + 1
      BY <1>1 DEF Ends
    <2> QED BY <1>2, <2>1 DEF From
  <1> QED BY <1>1, <1>2, <1>3 DEF Whole, Records

\* A record behind others that can be read to their end is read after them.
LEMMA PrependAppend ==
  ASSUME NEW S, NEW x \in S, NEW q \in Seq(S), NEW y \in S
  PROVE  <<x>> \o Append(q, y) = Append(<<x>> \o q, y)
  <1> DEFINE u == <<x>> \o Append(q, y)
             v == Append(<<x>> \o q, y)
  <1>1. u \in Seq(S) /\ v \in Seq(S) /\ Len(u) = Len(q) + 2 /\ Len(v) = Len(q) + 2
    OBVIOUS
  <1>2. Len(q) \in Nat
    OBVIOUS
  <1>3. ASSUME NEW i \in 1 .. Len(q) + 2 PROVE u[i] = v[i]
    <2>1. CASE i = 1
      BY <1>2, <2>1
    <2>2. CASE i \in 2 .. Len(q) + 1
      BY <1>2, <2>2
    <2>3. CASE i = Len(q) + 2
      BY <1>2, <2>3
    <2> QED BY <1>2, <1>3, <2>1, <2>2, <2>3
  <1> HIDE DEF u, v
  <1>4. u = v
    BY <1>1, <1>3, SeqEqual
  <1> QED BY <1>4 DEF u, v

LEMMA AppendParsed ==
  ASSUME NEW c, Sheet(c), Whole(c), NEW r, IsHead(r)
  PROVE  LET d == c \o Cells(r)
         IN  /\ Sheet(d) /\ Len(d) = Len(c) + Size(r) /\ Whole(d)
             /\ Records(d) = Append(Records(c), r)
             /\ \A x : HeadOf(d, x) => HeadOf(c, x) \/ x = r
  <1> DEFINE d == c \o Cells(r)
             l == Len(c)
             z == Len(r.marks)
  <1>0. l = Len(c)
    OBVIOUS
  <1>1. /\ l \in Nat /\ c \in Seq(Cell) /\ z \in Nat /\ z >= 1 /\ r \in Cell
        /\ Size(r) = 1 + z /\ r.board # NoBoard
    BY MarksAssumption DEF Sheet, IsHead, Fine, Size
  <1>2. Part \in Cell /\ Part.board = NoBoard
    BY DEF Part, Cell
  <1>3. /\ Cells(r) \in Seq(Cell) /\ Len(Cells(r)) = 1 + z
        /\ Cells(r)[1] = r /\ \A i \in 2 .. 1 + z : Cells(r)[i] = Part
    <2> DEFINE q == [i \in 1 .. z |-> Part]
    <2>1. q \in Seq(Cell) /\ Len(q) = z /\ \A i \in 1 .. z : q[i] = Part
      BY <1>1, <1>2
    <2>2. Cells(r) = <<r>> \o q
      BY DEF Cells
    <2> HIDE DEF q, z, l
    <2>3. \A i \in 2 .. 1 + z : i - 1 \in 1 .. z
      BY <1>1
    <2> QED BY <1>1, <2>1, <2>2, <2>3
  <1>4. /\ d \in Seq(Cell) /\ Len(d) = l + 1 + z
        /\ \A i \in 1 .. l : d[i] = c[i]
        /\ d[l + 1] = r
        /\ \A i \in l + 2 .. l + 1 + z : d[i] = Part
    <2> HIDE DEF z, l
    <2>0. Len(c) = l
      BY <1>0
    <2>1. d \in Seq(Cell) /\ Len(d) = l + (1 + z) /\ l + (1 + z) = l + 1 + z
      BY <1>1, <1>3, <2>0
    <2>2. \A i \in 1 .. l : d[i] = c[i]
      BY <1>1, <1>3, <2>0
    <2>3. \A i \in l + 1 .. l + 1 + z : d[i] = Cells(r)[i - l]
      BY <1>1, <1>3, <2>0
    <2>4. l + 1 \in l + 1 .. l + 1 + z /\ (l + 1) - l = 1
      BY <1>1
    <2>5. \A i \in l + 2 .. l + 1 + z : i \in l + 1 .. l + 1 + z /\ i - l \in 2 .. 1 + z
      BY <1>1
    <2> QED BY <1>3, <2>1, <2>2, <2>3, <2>4, <2>5
  <1> HIDE DEF d, z, l
  <1>5. \A i \in 1 .. Len(d) : i \in 1 .. l \/ i = l + 1 \/ i \in l + 2 .. l + 1 + z
    BY <1>1, <1>4
  <1>6. Sheet(d)
    BY <1>0, <1>1, <1>2, <1>4, <1>5 DEF Sheet
  <1>7. \A x : HeadOf(d, x) => HeadOf(c, x) \/ x = r
    BY <1>0, <1>1, <1>2, <1>4, <1>5 DEF HeadOf
  <1>8. PICK f : (\A i \in 1 .. l + 1 : f[i] = From(c, f, i)) /\ Parsed(c) = f[1]
    BY <1>0, ParseFrom
  <1>9. PICK g : (\A i \in 1 .. Len(d) + 1 : g[i] = From(d, g, i)) /\ Parsed(d) = g[1]
    BY <1>6, ParseFrom
  <1>10. \A i \in 1 .. l + 1 : Good(c, f[i])
    BY <1>0, <1>8, FromGood
  <1> DEFINE n == l + 1
             Longer(i) == g[i] = [recs |-> Append(f[i].recs, r), end |-> Len(d)]
             G == {i \in 1 .. n : f[i].end = l => Longer(i)}
  <1>11. /\ n = l + 1 /\ n \in Nat /\ n \in 1 .. n /\ Len(d) = n + z /\ Len(d) \in Nat
         /\ n \in 1 .. Len(d) + 1 /\ n - 1 = l /\ 1 .. n - 1 = 1 .. l
    <2> DEFINE k == Len(d)
    <2>1. k = n + z /\ n = l + 1 /\ l \in Nat /\ z \in Nat
      BY <1>1, <1>4
    <2> HIDE DEF k, n
    <2>2. n \in Nat /\ n >= 1 /\ k \in Nat /\ k >= n /\ n - 1 = l
      BY <2>1
    <2> QED BY <2>1, <2>2 DEF k
  <1> HIDE DEF n
  <1>12. n \in G
    <2>1. f[n] = [recs |-> <<>>, end |-> l]
      <3>1. Ends(c, n)
        BY <1>0, <1>1, <1>11 DEF Ends
      <3> QED BY <1>8, <1>11, <3>1 DEF From
    <2>2. g[Len(d) + 1] = [recs |-> <<>>, end |-> Len(d)]
      <3>1. Len(d) + 1 \in 1 .. Len(d) + 1 /\ Len(d) + 1 > Len(d) /\ (Len(d) + 1) - 1 = Len(d)
        BY <1>11
      <3>2. Ends(d, Len(d) + 1)
        BY <3>1 DEF Ends
      <3> QED BY <1>9, <3>1, <3>2 DEF From
    <2>3. ~Ends(d, n) /\ n + Size(d[n]) = Len(d) + 1
      <3>1. d[n] = r /\ ~(n > Len(d)) /\ ~(n + (1 + z) - 1 > Len(d)) /\ n + (1 + z) = Len(d) + 1
        BY <1>1, <1>4, <1>11
      <3>2. Size(d[n]) = 1 + z /\ d[n].board # NoBoard
        BY <1>1, <3>1
      <3> QED BY <3>1, <3>2 DEF Ends
    <2>4. g[n] = [g[Len(d) + 1] EXCEPT !.recs = <<d[n]>> \o @]
      BY <1>9, <1>11, <2>3 DEF From
    <2>5. g[n] = [recs |-> <<r>> \o <<>>, end |-> Len(d)]
      <3>1. d[n] = r
        BY <1>4, <1>11
      <3> QED BY <2>2, <2>4, <3>1
    <2>6. <<r>> \o <<>> = Append(<<>>, r)
      BY <1>1
    <2>7. Longer(n)
      BY <2>1, <2>5, <2>6
    <2> QED BY <1>11, <2>7
  <1>13. ASSUME NEW i \in 1 .. n - 1, \A k \in i + 1 .. n : k \in G PROVE i \in G
    <2>0. i \in 1 .. n /\ i \in 1 .. l /\ i \in 1 .. Len(d) + 1 /\ i \in Int
      BY <1>1, <1>11
    <2> SUFFICES ASSUME f[i].end = l PROVE Longer(i)
      BY <2>0
    <2>1. ~Ends(c, i)
      <3> SUFFICES ASSUME Ends(c, i) PROVE FALSE
        OBVIOUS
      <3>1. f[i] = [recs |-> <<>>, end |-> i - 1]
        BY <1>0, <1>8, <1>11, <2>0 DEF From
      <3> QED BY <1>1, <2>0, <3>1
    <2> DEFINE k == i + Size(c[i])
    <2>2. IsHead(c[i]) /\ k \in i + 1 .. n /\ Size(c[i]) \in Nat
      BY <1>0, <1>11, <2>0, <2>1, SizeOf
    <2>3. d[i] = c[i]
      BY <1>4, <2>0
    <2>4. ~Ends(d, i)
      <3>1. ~(k - 1 > Len(d)) /\ ~(i > Len(d)) /\ k - 1 = i + Size(c[i]) - 1
        BY <1>1, <1>11, <2>0, <2>2
      <3>2. c[i].board # NoBoard
        BY <2>1 DEF Ends
      <3> QED BY <2>3, <3>1, <3>2 DEF Ends
    <2>5. f[i] = [f[k] EXCEPT !.recs = <<c[i]>> \o @]
      BY <1>8, <1>11, <2>0, <2>1 DEF From
    <2>6. g[i] = [g[k] EXCEPT !.recs = <<c[i]>> \o @]
      BY <1>9, <2>0, <2>3, <2>4 DEF From
    <2>7. k \in 1 .. n /\ k \in G
      BY <1>13, <2>0, <2>2
    <2> HIDE DEF k
    <2>8. Good(c, f[k])
      BY <1>10, <1>11, <2>7
    <2>9. f[i] = [recs |-> <<c[i]>> \o f[k].recs, end |-> f[k].end] /\ f[k].recs \in Seq(Cell)
      BY <2>5, <2>8 DEF Good
    <2>10. Longer(k)
      BY <2>7, <2>9
    <2>11. g[i] = [recs |-> <<c[i]>> \o Append(f[k].recs, r), end |-> Len(d)]
      <3> DEFINE a == Append(f[k].recs, r)
                 x == <<c[i]>>
                 y == g[k]
      <3>1. y = [recs |-> a, end |-> Len(d)] /\ g[i] = [y EXCEPT !.recs = x \o @]
        BY <2>6, <2>10
      <3> HIDE DEF a, x, y
      <3>2. g[i] = [recs |-> x \o a, end |-> Len(d)]
        BY <3>1
      <3> QED BY <3>2 DEF a, x
    <2>12. <<c[i]>> \o Append(f[k].recs, r) = Append(<<c[i]>> \o f[k].recs, r)
      <3>1. c[i] \in Cell /\ r \in Cell /\ f[k].recs \in Seq(Cell)
        BY <1>1, <2>2, <2>9 DEF IsHead
      <3> DEFINE x == c[i]
                 q == f[k].recs
      <3>2. x \in Cell /\ q \in Seq(Cell)
        BY <3>1
      <3> HIDE DEF x, q
      <3>3. <<x>> \o Append(q, r) = Append(<<x>> \o q, r)
        BY <3>1, <3>2, PrependAppend
      <3> QED BY <3>3 DEF x, q
    <2>13. f[i].recs = <<c[i]>> \o f[k].recs
      BY <2>9
    <2> QED BY <2>11, <2>12, <2>13
  <1>14. 1 .. n \subseteq G
    <2> HIDE DEF G, n
    <2> QED BY <1>11, <1>12, <1>13, Downwards
  <1>15. 1 \in 1 .. n
    BY <1>1, <1>11
  <1>16. f[1].end = l
    BY <1>0, <1>8 DEF Whole
  <1>17. g[1] = [recs |-> Append(f[1].recs, r), end |-> Len(d)]
    BY <1>14, <1>15, <1>16
  <1>18. Whole(d) /\ Records(d) = Append(Records(c), r)
    BY <1>8, <1>9, <1>17 DEF Whole, Records
  <1>19. Len(d) = l + Size(r)
    BY <1>1, <1>4
  <1> QED BY <1>0, <1>6, <1>7, <1>18, <1>19 DEF d

-----------------------------------------------------------------------------
(* Putting a board into a file                                             *)

LEMMA CellsParsed ==
  ASSUME NEW r, IsHead(r)
  PROVE  /\ Sheet(Cells(r)) /\ Len(Cells(r)) = Size(r) /\ Whole(Cells(r))
         /\ Records(Cells(r)) = <<r>>
         /\ \A x : HeadOf(Cells(r), x) => x = r
  <1> DEFINE e == <<>>
  <1>1. Sheet(e) /\ Whole(e) /\ Records(e) = <<>> /\ Len(e) = 0
    BY EmptyParsed
  <1>2. \A x : ~HeadOf(e, x)
    BY <1>1 DEF HeadOf
  <1>3. Cells(r) \in Seq(Cell)
    <2> DEFINE q == [i \in 1 .. Len(r.marks) |-> Part]
    <2>1. Len(r.marks) \in Nat /\ r \in Cell /\ Part \in Cell
      BY DEF IsHead, Fine, Part, Cell
    <2>2. q \in Seq(Cell)
      BY <2>1
    <2> HIDE DEF q
    <2>3. <<r>> \o q \in Seq(Cell)
      BY <2>1, <2>2
    <2> QED BY <2>3 DEF Cells, q
  <1>4. e \o Cells(r) = Cells(r)
    BY <1>3
  <1> HIDE DEF e
  <1> DEFINE d == e \o Cells(r)
  <1>5. /\ Sheet(d) /\ Len(d) = Len(e) + Size(r) /\ Whole(d)
        /\ Records(d) = Append(Records(e), r)
        /\ \A x : HeadOf(d, x) => HeadOf(e, x) \/ x = r
    BY <1>1, AppendParsed
  <1>6. Size(r) \in Nat
    BY DEF IsHead, Fine, Size
  <1>7. Append(<<>>, r) = <<r>>
    OBVIOUS
  <1> QED BY <1>1, <1>2, <1>4, <1>5, <1>6, <1>7

\* The value of the function in Put at k.
Turn(b, m, recs, f, k) ==
  IF k = 0 THEN [cells |-> Cells([board |-> b, marks |-> Coded(Shorter(m))]), full |-> FALSE]
  ELSE Copied(b, f[k - 1], recs[k])

LEMMA TurnsExist ==
  ASSUME NEW b, NEW m, NEW recs, NEW n \in Nat
  PROVE  \E f : f = [k \in 0 .. n |-> Turn(b, m, recs, f, k)]
  <1> DEFINE G == {k \in 0 .. n : \E f : f = [j \in 0 .. k |-> Turn(b, m, recs, f, j)]}
  <1>1. 0 \in G
    <2> DEFINE f == [j \in 0 .. 0 |->
                       [cells |-> Cells([board |-> b, marks |-> Coded(Shorter(m))]), full |-> FALSE]]
    <2>1. \A j \in 0 .. 0 : j = 0
      OBVIOUS
    <2>2. f = [j \in 0 .. 0 |-> Turn(b, m, recs, f, j)]
      BY <2>1 DEF Turn
    <2> HIDE DEF f
    <2>3. 0 \in 0 .. n
      OBVIOUS
    <2> QED BY <2>2, <2>3
  <1>2. ASSUME NEW k \in 1 .. n, k - 1 \in G PROVE k \in G
    <2>1. PICK f : f = [j \in 0 .. (k - 1) |-> Turn(b, m, recs, f, j)]
      BY <1>2
    <2> DEFINE g == [j \in 0 .. k |-> Turn(b, m, recs, f, j)]
    <2>2. \A j \in 0 .. (k - 1) : g[j] = f[j]
      <3>1. \A j \in 0 .. (k - 1) : f[j] = Turn(b, m, recs, f, j)
        BY <2>1
      <3>2. \A j \in 0 .. (k - 1) : j \in 0 .. k
        OBVIOUS
      <3> QED BY <3>1, <3>2
    <2>3. ASSUME NEW j \in 0 .. k PROVE Turn(b, m, recs, f, j) = Turn(b, m, recs, g, j)
      <3>1. CASE j = 0
        BY <3>1 DEF Turn
      <3>2. CASE j # 0
        <4>1. j - 1 \in 0 .. (k - 1)
          BY <3>2
        <4>2. g[j - 1] = f[j - 1]
          BY <2>2, <4>1
        <4> HIDE DEF g
        <4> QED BY <3>2, <4>2 DEF Turn
      <3> QED BY <3>1, <3>2
    <2>4. g = [j \in 0 .. k |-> Turn(b, m, recs, g, j)]
      <3> DEFINE h == [j \in 0 .. k |-> Turn(b, m, recs, g, j)]
      <3>1. \A j \in 0 .. k : g[j] = h[j]
        BY <2>3
      <3> QED BY <3>1
    <2> HIDE DEF g
    <2>5. k \in 0 .. n
      OBVIOUS
    <2> QED BY <2>4, <2>5
  <1>3. 0 .. n \subseteq G
    <2> HIDE DEF G
    <2> QED BY <1>1, <1>2, Upwards
  <1>4. n \in 0 .. n
    OBVIOUS
  <1>5. n \in G
    BY <1>3, <1>4
  <1> QED BY <1>5

LEMMA PutTurns ==
  ASSUME NEW c, NEW b, NEW m, Len(Records(c)) \in Nat
  PROVE  \E f : /\ f[0] = [cells |-> Cells([board |-> b, marks |-> Coded(Shorter(m))]), full |-> FALSE]
                /\ \A k \in 1 .. Len(Records(c)) : f[k] = Copied(b, f[k - 1], Records(c)[k])
                /\ Put(c, b, m) = f[Len(Records(c))].cells
  <1> DEFINE recs == Records(c)
             n == Len(recs)
             f == CHOOSE g : g = [k \in 0 .. n |-> Turn(b, m, recs, g, k)]
  <1>1. f = [k \in 0 .. n |-> Turn(b, m, recs, f, k)]
    BY TurnsExist
  <1>2. Put(c, b, m) = f[n].cells
    BY DEF Put, Turn
  <1>0. n = Len(Records(c)) /\ recs = Records(c)
    OBVIOUS
  <1> HIDE DEF f, n, recs
  <1>3. \A k \in 0 .. n : f[k] = Turn(b, m, recs, f, k)
    BY <1>1
  <1>4. 0 \in 0 .. n /\ \A k \in 1 .. n : k \in 0 .. n /\ k # 0
    BY <1>0
  <1>5. f[0] = [cells |-> Cells([board |-> b, marks |-> Coded(Shorter(m))]), full |-> FALSE]
    BY <1>3, <1>4 DEF Turn
  <1>6. \A k \in 1 .. n : f[k] = Copied(b, f[k - 1], recs[k])
    BY <1>3, <1>4 DEF Turn
  <1> QED BY <1>0, <1>2, <1>5, <1>6

\* The records new are r, that of b, and some of the first k of recs, of others.
Made(b, r, recs, k, new) ==
  /\ \E i \in 1 .. Len(new) : new[i] = r
  /\ \A i \in 1 .. Len(new) :
       new[i] = r \/ \E j \in 1 .. k : new[i] = recs[j] /\ recs[j].board # b

\* What has been copied after k records: t is the copy, r the record of the board.
Half(b, r, c, recs, k, t) ==
  /\ t = [cells |-> t.cells, full |-> t.full]
  /\ Sheet(t.cells) /\ Len(t.cells) <= MaxSize /\ Whole(t.cells)
  /\ \A x : HeadOf(t.cells, x) => x = r \/ HeadOf(c, x)
  /\ Made(b, r, recs, k, Records(t.cells))
  /\ Distinct(recs) =>
       /\ Distinct(Records(t.cells))
       /\ \A i \in 1 .. Len(Records(t.cells)) :
            \/ Records(t.cells)[i].board = b
            \/ \E j \in 1 .. k : Records(t.cells)[i].board = recs[j].board

LEMMA CopiedPage ==
  ASSUME NEW c, NEW recs, NEW b, NEW r, NEW k \in 1 .. Len(recs), NEW t,
         Len(recs) \in Nat, IsHead(recs[k]), HeadOf(c, recs[k]),
         Half(b, r, c, recs, k - 1, t)
  PROVE  Half(b, r, c, recs, k, Copied(b, t, recs[k]))
  <1> DEFINE q == recs[k]
             u == Copied(b, t, q)
             old == Records(t.cells)
  <1>0. q = recs[k] /\ IsHead(q) /\ HeadOf(c, q) /\ old = Records(t.cells) /\ u = Copied(b, t, q)
    OBVIOUS
  <1>1. /\ t = [cells |-> t.cells, full |-> t.full]
        /\ Sheet(t.cells) /\ Len(t.cells) <= MaxSize /\ Whole(t.cells)
        /\ \A x : HeadOf(t.cells, x) => x = r \/ HeadOf(c, x)
        /\ Made(b, r, recs, k - 1, old)
    BY DEF Half
  <1>2. Distinct(recs) =>
          /\ Distinct(old)
          /\ \A i \in 1 .. Len(old) :
               old[i].board = b \/ \E j \in 1 .. k - 1 : old[i].board = recs[j].board
    BY DEF Half
  <1>3. \A j \in 1 .. k - 1 : j \in 1 .. k /\ j \in 1 .. Len(recs) /\ j # k
    OBVIOUS
  <1> HIDE DEF q, u, old
  <1>4. CASE u.cells = t.cells /\ u = [cells |-> u.cells, full |-> u.full]
    <2>1. Distinct(recs) =>
            /\ Distinct(old)
            /\ \A i \in 1 .. Len(old) :
                 old[i].board = b \/ \E j \in 1 .. k : old[i].board = recs[j].board
      BY <1>2, <1>3
    <2>2. Made(b, r, recs, k, old)
      BY <1>1, <1>3 DEF Made
    <2>3. Half(b, r, c, recs, k, u)
      BY <1>0, <1>1, <1>4, <2>1, <2>2 DEF Half
    <2> QED BY <1>0, <2>3
  <1>5. CASE /\ u = [t EXCEPT !.cells = @ \o Cells(q)] /\ q.board # b
             /\ ~(Len(t.cells) + Size(q) > MaxSize)
    <2> DEFINE d == t.cells \o Cells(q)
    <2>1. /\ Sheet(d) /\ Len(d) = Len(t.cells) + Size(q) /\ Whole(d)
          /\ Records(d) = Append(Records(t.cells), q)
          /\ \A x : HeadOf(d, x) => HeadOf(t.cells, x) \/ x = q
      BY <1>0, <1>1, AppendParsed
    <2>2. u.cells = d /\ u = [cells |-> u.cells, full |-> u.full]
      BY <1>1, <1>5
    <2> HIDE DEF d
    <2>3. Len(d) <= MaxSize
      <3>1. Len(t.cells) \in Nat /\ Size(q) \in Nat /\ MaxSize \in Nat
        BY <1>0, <1>1, MarksAssumption DEF Sheet, IsHead, Fine, Size
      <3>2. Len(d) = Len(t.cells) + Size(q)
        BY <2>1
      <3> QED BY <1>5, <3>1, <3>2
    <2>4. \A x : HeadOf(d, x) => x = r \/ HeadOf(c, x)
      BY <1>0, <1>1, <2>1
    <2>5. ASSUME Distinct(recs)
          PROVE  /\ Distinct(Records(d))
                 /\ \A i \in 1 .. Len(Records(d)) :
                      Records(d)[i].board = b \/ \E j \in 1 .. k : Records(d)[i].board = recs[j].board
      <3> DEFINE new == Records(d)
                 l == Len(old)
      <3>1. old \in Seq(Cell)
        BY <1>0, <1>1, ParsedGood DEF Good, Records
      <3>2. new = Append(old, q)
        BY <1>0, <2>1
      <3>3. /\ l \in Nat /\ Len(new) = l + 1 /\ new[l + 1] = q
            /\ \A i \in 1 .. l : new[i] = old[i]
        <4>1. q \in Cell
          BY <1>0 DEF IsHead
        <4> HIDE DEF new
        <4> QED BY <3>1, <3>2, <4>1
      <3>4. l = Len(old) /\ new = Records(d)
        OBVIOUS
      <3> HIDE DEF new, l
      <3>5. \A i \in 1 .. l : old[i].board = b \/ \E j \in 1 .. k - 1 : old[i].board = recs[j].board
        BY <1>2, <2>5, <3>4
      <3>6. \A i \in 1 .. l : old[i].board # q.board
        <4>1. \A j \in 1 .. k - 1 : recs[j].board # q.board
          BY <1>0, <1>3, <2>5 DEF Distinct
        <4> QED BY <1>5, <3>5, <4>1
      <3>7. \A i, j \in 1 .. l : old[i].board = old[j].board => i = j
        BY <1>2, <2>5, <3>4 DEF Distinct
      <3>8. \A i \in 1 .. Len(new) : i \in 1 .. l \/ i = l + 1
        BY <3>3
      <3>9. Distinct(new)
        <4> SUFFICES ASSUME NEW i \in 1 .. Len(new), NEW j \in 1 .. Len(new),
                            new[i].board = new[j].board
                     PROVE  i = j
          BY DEF Distinct
        <4>1. CASE i \in 1 .. l /\ j \in 1 .. l
          BY <3>3, <3>7, <4>1
        <4>2. CASE i = l + 1 /\ j \in 1 .. l
          BY <3>3, <3>6, <4>2
        <4>3. CASE i \in 1 .. l /\ j = l + 1
          BY <3>3, <3>6, <4>3
        <4> QED BY <3>8, <4>1, <4>2, <4>3
      <3>10. \A i \in 1 .. Len(new) : new[i].board = b \/ \E j \in 1 .. k : new[i].board = recs[j].board
        <4>1. k \in 1 .. k
          OBVIOUS
        <4> QED BY <1>0, <1>3, <3>3, <3>5, <3>8, <4>1
      <3> QED BY <3>4, <3>9, <3>10
    <2>6. Made(b, r, recs, k, Records(d))
      <3> DEFINE new == Records(d)
                 l == Len(old)
      <3>1. old \in Seq(Cell) /\ q \in Cell
        BY <1>0, <1>1, ParsedGood DEF Good, Records, IsHead
      <3>2. new = Append(old, q)
        BY <1>0, <2>1
      <3> HIDE DEF new
      <3>3. /\ l \in Nat /\ Len(new) = l + 1 /\ new[l + 1] = q
            /\ \A i \in 1 .. l : new[i] = old[i]
        BY <3>1, <3>2
      <3>4. \A i \in 1 .. Len(new) : i \in 1 .. l \/ i = l + 1
        BY <3>3
      <3>5. \A i \in 1 .. l : i \in 1 .. Len(new)
        BY <3>3
      <3>6. k \in 1 .. k
        OBVIOUS
      <3>7. Made(b, r, recs, k - 1, old) /\ l = Len(old)
        BY <1>1
      <3> HIDE DEF l
      <3>8. \E i \in 1 .. Len(new) : new[i] = r
        BY <3>3, <3>5, <3>7 DEF Made
      <3>9. ASSUME NEW i \in 1 .. Len(new)
            PROVE  new[i] = r \/ \E j \in 1 .. k : new[i] = recs[j] /\ recs[j].board # b
        <4>1. CASE i \in 1 .. l
          <5>1. old[i] = r \/ \E j \in 1 .. k - 1 : old[i] = recs[j] /\ recs[j].board # b
            BY <3>7, <4>1 DEF Made
          <5> QED BY <1>3, <3>3, <4>1, <5>1
        <4>2. CASE i = l + 1
          <5>1. new[i] = recs[k] /\ recs[k].board # b
            BY <1>0, <1>5, <3>3, <4>2
          <5> QED BY <3>6, <5>1
        <4> QED BY <3>4, <4>1, <4>2
      <3>10. Made(b, r, recs, k, new)
        BY <3>8, <3>9 DEF Made
      <3> QED BY <3>10 DEF new
    <2>7. Half(b, r, c, recs, k, u)
      BY <2>1, <2>2, <2>3, <2>4, <2>5, <2>6 DEF Half
    <2> QED BY <1>0, <2>7
  <1>6. CASE t.full \/ Len(t.cells) + Size(q) > MaxSize
    <2>1. u = [t EXCEPT !.full = TRUE]
      BY <1>0, <1>6 DEF Copied
    <2>2. u.cells = t.cells /\ u = [cells |-> u.cells, full |-> u.full]
      BY <1>1, <2>1
    <2> QED BY <1>4, <2>2
  <1>7. CASE ~(t.full \/ Len(t.cells) + Size(q) > MaxSize)
    <2>1. CASE q.board = b
      <3>1. u = t
        BY <1>0, <1>7, <2>1 DEF Copied
      <3> QED BY <1>1, <1>4, <3>1
    <2>2. CASE q.board # b
      <3>1. u = [t EXCEPT !.cells = @ \o Cells(q)]
        BY <1>0, <1>7, <2>2 DEF Copied
      <3> QED BY <1>5, <1>7, <2>2, <3>1
    <2> QED BY <2>1, <2>2
  <1> QED BY <1>6, <1>7

\* What brc_putboard makes of a file: one that can be read to its end, with the
\* board first, of the records that were there, none of a board twice.
LEMMA PutFile ==
  ASSUME NEW c, Sheet(c), NEW b \in Names, NEW m, Fine(Coded(Shorter(m)))
  PROVE  LET o == Put(c, b, m)
         IN  /\ Sheet(o) /\ Len(o) <= MaxSize /\ Whole(o)
             /\ \A x : HeadOf(o, x) => x = [board |-> b, marks |-> Coded(Shorter(m))] \/ HeadOf(c, x)
             /\ Distinct(Records(c)) => Distinct(Records(o))
             /\ Made(b, [board |-> b, marks |-> Coded(Shorter(m))], Records(c), Len(Records(c)), Records(o))
  <1> DEFINE recs == Records(c)
             n == Len(recs)
             r == [board |-> b, marks |-> Coded(Shorter(m))]
  <1>1. recs \in Seq(Cell) /\ \A j \in 1 .. n : IsHead(recs[j]) /\ HeadOf(c, recs[j])
    BY ParsedGood DEF Good, Records
  <1>2. n \in Nat
    BY <1>1
  <1>3. IsHead(r)
    <2>1. b # NoBoard
      BY MarksAssumption
    <2>2. Coded(Shorter(m)) \in Seq(Int)
      BY DEF Fine
    <2> QED BY <2>1, <2>2 DEF IsHead, Cell
  <1>4. PICK f : /\ f[0] = [cells |-> Cells(r), full |-> FALSE]
                 /\ \A k \in 1 .. n : f[k] = Copied(b, f[k - 1], recs[k])
                 /\ Put(c, b, m) = f[n].cells
    <2>1. Len(Records(c)) \in Nat
      BY <1>2
    <2> QED BY ONLY <2>1, PutTurns
  <1> DEFINE G == {k \in 0 .. n : Half(b, r, c, recs, k, f[k])}
  <1>5. 0 \in G
    <2> DEFINE q == Cells(r)
    <2>1. /\ Sheet(q) /\ Len(q) = Size(r) /\ Whole(q) /\ Records(q) = <<r>>
          /\ \A x : HeadOf(q, x) => x = r
      BY <1>3, CellsParsed
    <2>2. Size(r) <= MaxSize
      <3>1. Len(r.marks) \in 1 .. MaxNum
        BY <1>3 DEF IsHead, Fine
      <3> QED BY <3>1, MarksAssumption DEF Size
    <2>3. f[0] = [cells |-> q, full |-> FALSE]
      BY <1>4
    <2>4. Len(<<r>>) = 1 /\ <<r>>[1] = r /\ \A i \in 1 .. 1 : i = 1
      OBVIOUS
    <2>5. r.board = b
      OBVIOUS
    <2> HIDE DEF r, q, recs, n
    <2>6. f[0].cells = q /\ f[0] = [cells |-> f[0].cells, full |-> f[0].full]
      BY <2>3
    <2>7. Distinct(Records(q)) /\ \A i \in 1 .. Len(Records(q)) : Records(q)[i].board = b
      BY <2>1, <2>4, <2>5 DEF Distinct
    <2>8. Made(b, r, recs, 0, Records(q))
      BY <2>1, <2>4 DEF Made
    <2>9. Half(b, r, c, recs, 0, f[0])
      BY <2>1, <2>2, <2>6, <2>7, <2>8 DEF Half
    <2>10. 0 \in 0 .. n
      BY <1>2
    <2> QED BY <2>9, <2>10
  <1>6. ASSUME NEW k \in 1 .. n, k - 1 \in G PROVE k \in G
    <2>0. recs = Records(c) /\ n = Len(recs) /\ k \in 0 .. n
      BY <1>2
    <2>1. Half(b, r, c, recs, k - 1, f[k - 1])
      BY <1>6
    <2>2. IsHead(recs[k]) /\ HeadOf(c, recs[k])
      BY <1>1
    <2>3. f[k] = Copied(b, f[k - 1], recs[k])
      BY <1>4
    <2> HIDE DEF r, recs, n
    <2>4. k \in 1 .. Len(recs) /\ Len(recs) \in Nat
      BY <1>2, <2>0
    <2>5. Half(b, r, c, recs, k, Copied(b, f[k - 1], recs[k]))
      BY <2>1, <2>2, <2>4, CopiedPage
    <2> QED BY <2>0, <2>3, <2>5
  <1>7. 0 .. n \subseteq G
    <2> HIDE DEF G, n
    <2> QED BY <1>2, <1>5, <1>6, Upwards
  <1>8. n \in 0 .. n
    BY <1>2
  <1>9. Half(b, r, c, recs, n, f[n])
    BY <1>7, <1>8
  <1> HIDE DEF G, r, recs, n
  <1>10. /\ Sheet(f[n].cells) /\ Len(f[n].cells) <= MaxSize /\ Whole(f[n].cells)
         /\ \A x : HeadOf(f[n].cells, x) => x = r \/ HeadOf(c, x)
         /\ Distinct(recs) => Distinct(Records(f[n].cells))
         /\ Made(b, r, recs, n, Records(f[n].cells))
    BY <1>9 DEF Half
  <1> QED BY <1>4, <1>10 DEF r, recs, n

-----------------------------------------------------------------------------
(* The invariant                                                           *)

\* What counts as read by these marks of b, if it is a board, has a cause in the
\* history g.
Just(g, b, m) ==
  b \in Boards => \A t \in Times : ReadBy(m, t) =>
    <<b, t>> \in g.seen \/ t < g.aged[b] \/ b \in g.wild \/ b \in g.crossed

\* A file, or a copy of one, that was written with the history g.
Page(c, g) ==
  /\ Sheet(c) /\ Len(c) <= MaxSize
  /\ \A i \in 1 .. Len(c) : c[i].board # NoBoard => Just(g, c[i].board, c[i].marks)
  /\ g.mixed \/ (Whole(c) /\ Distinct(Records(c)))

\* What counts as read by the marks m counts as read by n.
Covers(n, m) == \A t \in Times : ReadBy(m, t) => ReadBy(n, t)

\* The marks of one board in memory, of which none were lost since they were got.
MarkOK(m, g) ==
  /\ m = [board |-> m.board, marks |-> m.marks, changed |-> m.changed, base |-> m.base]
  /\ m.board \in Boards \cup {NoBoard}
  /\ m.board # NoBoard => Fine(m.marks) /\ Just(g, m.board, m.marks)
  /\ m.changed => m.board # NoBoard
  /\ m.board # NoBoard => m.board \in g.wild \/ Covers(m.marks, m.base)

HandRec(h) ==
  h = [at |-> h.at, board |-> h.board, has |-> h.has, read |-> h.read, out |-> h.out,
       stale |-> h.stale, fd |-> h.fd, next |-> h.next, keep |-> h.keep]

\* A save: the marks of a board are put among the records that were read, and if
\* they are based on these, none is lost.
Saves == {"open", "write", "rename"}
SaveOK(h, g) ==
  /\ h.board \in Names
  /\ \E n : /\ Fine(Coded(Shorter(n))) /\ h.out = Put(h.read, h.board, n)
            /\ \/ h.stale \/ h.board \in g.wild
               \/ Fine(n) /\ Covers(n, MarksOf(h.read, h.board))

\* What a process is about, if th are the tmpfs files and w the marks of the web.
HandOK(h, g, th, w) ==
  /\ HandRec(h)
  /\ h.at \in {"unused", "idle", "marking", "open", "write", "rename"}
  /\ h.fd # "none" => h.at = "write" /\ h.fd \in th
  /\ h.next \in Boards \cup {NoBoard}
  /\ h.at = "marking" => w.board # NoBoard
  /\ Page(h.read, g) /\ Page(h.out, g)
  /\ h.at \in Saves => SaveOK(h, g)

HistRec(g) ==
  g = [seen |-> g.seen, aged |-> g.aged, mixed |-> g.mixed, wild |-> g.wild,
       wrecked |-> g.wrecked, crossed |-> g.crossed]
HistOK(g) == HistRec(g) /\ g.aged \in [Boards -> Nat]

\* d, th, br, kp, hd, cr and g are disk, there, brc, kept, hand, cron and hist.
Inv(d, th, br, kp, hd, cr, g) ==
  /\ HistOK(g)
  /\ th \subseteq {"file", "tmp"} /\ cr \in {"idle", "copied"}
  /\ d = [file |-> d.file, tmp |-> d.tmp, home |-> d.home]
  /\ Page(d.file, g) /\ Page(d.tmp, g) /\ Page(d.home, g)
  /\ Page(kp.cells, g)
  /\ br = [telnet |-> br.telnet, web |-> br.web]
  /\ MarkOK(br.telnet, g) /\ MarkOK(br.web, g)
  /\ hd = [p \in Procs |-> hd[p]]
  /\ \A p \in Procs : HandOK(hd[p], g, th, br.web)

IInv == Inv(disk, there, brc, kept, hand, cron, hist)

-----------------------------------------------------------------------------
(* What keeps it                                                           *)

\* h is a later history than g.
Grown(g, h) ==
  /\ HistOK(g) /\ HistOK(h)
  /\ g.seen \subseteq h.seen /\ g.wild \subseteq h.wild /\ g.crossed \subseteq h.crossed
  /\ \A b \in Boards : g.aged[b] <= h.aged[b]
  /\ g.mixed => h.mixed

LEMMA JustGrown ==
  ASSUME NEW g, NEW h, Grown(g, h), NEW b, NEW m, Just(g, b, m)
  PROVE  Just(h, b, m)
  <1> SUFFICES ASSUME b \in Boards PROVE Just(h, b, m)
    BY DEF Just
  <1>1. g.aged[b] \in Nat /\ h.aged[b] \in Nat /\ g.aged[b] <= h.aged[b]
    BY DEF Grown, HistOK, HistRec
  <1>2. \A t \in Times : t \in Nat
    BY MarksAssumption
  <1>3. \A t \in Times : t < g.aged[b] => t < h.aged[b]
    BY <1>1, <1>2
  <1> QED BY <1>3 DEF Just, Grown

LEMMA PageGrown ==
  ASSUME NEW g, NEW h, Grown(g, h), NEW c, Page(c, g)
  PROVE  Page(c, h)
  <1>1. Sheet(c) /\ Len(c) <= MaxSize
    BY DEF Page
  <1>2. ASSUME NEW i \in 1 .. Len(c), c[i].board # NoBoard
        PROVE  Just(h, c[i].board, c[i].marks)
    <2>1. Just(g, c[i].board, c[i].marks)
      BY <1>2 DEF Page
    <2> QED BY <2>1, JustGrown
  <1>3. h.mixed \/ (Whole(c) /\ Distinct(Records(c)))
    BY DEF Page, Grown
  <1> QED BY <1>1, <1>2, <1>3 DEF Page

LEMMA MarkGrown ==
  ASSUME NEW g, NEW h, Grown(g, h), NEW m, MarkOK(m, g)
  PROVE  MarkOK(m, h)
  <1>1. m.board # NoBoard => Fine(m.marks) /\ Just(h, m.board, m.marks)
    <2> SUFFICES ASSUME m.board # NoBoard PROVE Fine(m.marks) /\ Just(h, m.board, m.marks)
      OBVIOUS
    <2>1. m.board \in Boards /\ Fine(m.marks) /\ Just(g, m.board, m.marks)
      BY DEF MarkOK
    <2> QED BY <2>1, JustGrown
  <1>2. g.wild \subseteq h.wild
    BY DEF Grown
  <1> QED BY <1>1, <1>2 DEF MarkOK

LEMMA HandGrown ==
  ASSUME NEW g, NEW h, Grown(g, h), NEW x, NEW th, NEW w, HandOK(x, g, th, w)
  PROVE  HandOK(x, h, th, w)
  <1>1. Page(x.read, h) /\ Page(x.out, h)
    BY PageGrown DEF HandOK
  <1>2. g.wild \subseteq h.wild
    BY DEF Grown
  <1>3. x.at \in Saves => SaveOK(x, h)
    BY <1>2 DEF HandOK, SaveOK
  <1> QED BY <1>1, <1>3 DEF HandOK

LEMMA EmptyPage ==
  ASSUME NEW g
  PROVE  Page(<<>>, g)
  <1> DEFINE e == <<>>
  <1>1. Sheet(e) /\ Whole(e) /\ Records(e) = e /\ Len(e) = 0
    BY EmptyParsed
  <1> HIDE DEF e
  <1>2. Distinct(Records(e)) /\ Len(e) <= MaxSize
    BY <1>1, MarksAssumption DEF Distinct
  <1>3. Page(e, g)
    BY <1>1, <1>2 DEF Page
  <1> QED BY <1>3 DEF e

LEMMA IdleOK ==
  ASSUME NEW g, NEW th, NEW w
  PROVE  HandOK(Idle, g, th, w) /\ MarkOK(NoMarks, g)
  <1>1. Page(<<>>, g)
    BY EmptyPage
  <1>2. HandOK(Idle, g, th, w)
    BY <1>1 DEF HandOK, HandRec, Idle, Saves
  <1>3. MarkOK(NoMarks, g)
    BY DEF MarkOK, NoMarks
  <1> QED BY <1>2, <1>3

\* The first record of a board, or <<1>>.
LEMMA MarksOfOK ==
  ASSUME NEW g, NEW c, Page(c, g), NEW b
  PROVE  Fine(MarksOf(c, b)) /\ Just(g, b, MarksOf(c, b))
  <1> DEFINE recs == Records(c)
             mine == {i \in DOMAIN recs : recs[i].board = b}
  <1>1. recs \in Seq(Cell) /\ \A j \in 1 .. Len(recs) : IsHead(recs[j]) /\ HeadOf(c, recs[j])
    BY ParsedGood DEF Page, Good, Records
  <1>2. CASE mine = {}
    <2>1. MarksOf(c, b) = <<1>>
      BY <1>2 DEF MarksOf
    <2> DEFINE o == <<1>>
    <2>2. o \in Seq(Int) /\ Len(o) = 1 /\ o[1] = 1 /\ \A i \in 1 .. 1 : i = 1
      OBVIOUS
    <2> HIDE DEF o
    <2>3. Fine(o)
      <3>1. Len(o) \in 1 .. MaxNum
        BY <2>2, MarksAssumption
      <3>2. Descending(o)
        BY <2>2 DEF Descending
      <3> QED BY <2>2, <3>1, <3>2 DEF Fine
    <2>4. \A t \in Times : t \in Nat /\ t # 1 /\ ~(t < 1)
      BY MarksAssumption
    <2>5. Just(g, b, o)
      BY <2>2, <2>4 DEF Just, ReadBy
    <2> QED BY <2>1, <2>3, <2>5 DEF o
  <1>3. CASE mine # {}
    <2>1. DOMAIN recs = 1 .. Len(recs) /\ mine \in SUBSET Nat
      BY <1>1
    <2>2. PICK i \in mine : \A k \in mine : i <= k
      <3> HIDE DEF mine
      <3> QED BY <1>3, <2>1, LeastNat
    <2>3. Min(mine) = i
      <3>1. Min(mine) \in mine /\ \A k \in mine : Min(mine) <= k
        BY <2>2 DEF Min
      <3> HIDE DEF mine
      <3>2. Min(mine) \in Nat /\ i \in Nat /\ Min(mine) <= i /\ i <= Min(mine)
        BY <2>1, <2>2, <3>1
      <3> QED BY <3>2
    <2>4. MarksOf(c, b) = recs[i].marks
      BY <1>3, <2>3 DEF MarksOf
    <2>5. i \in 1 .. Len(recs) /\ recs[i].board = b
      BY <2>1, <2>2
    <2>6. IsHead(recs[i]) /\ HeadOf(c, recs[i])
      BY <1>1, <2>5
    <2>7. PICK k \in 1 .. Len(c) : c[k].board # NoBoard /\ c[k] = recs[i]
      BY <2>6 DEF HeadOf
    <2>8. Just(g, c[k].board, c[k].marks)
      BY <2>7 DEF Page
    <2> HIDE DEF recs
    <2> QED BY <2>4, <2>5, <2>6, <2>7, <2>8 DEF IsHead
  <1> QED BY <1>2, <1>3

LEMMA GotOK ==
  ASSUME NEW g, NEW c, Page(c, g), NEW b \in Boards
  PROVE  MarkOK(Got(c, b), g) /\ Got(c, b).board = b /\ b # NoBoard
  <1>1. Fine(MarksOf(c, b)) /\ Just(g, b, MarksOf(c, b))
    BY MarksOfOK
  <1> DEFINE m == MarksOf(c, b)
  <1> HIDE DEF m
  <1>2. Got(c, b) = [board |-> b, marks |-> m, changed |-> FALSE, base |-> m]
    BY DEF Got, m
  <1>3. Fine(m) /\ Just(g, b, m)
    BY <1>1 DEF m
  <1>4. b # NoBoard /\ Covers(m, m)
    BY MarksAssumption DEF Covers, Names
  <1> QED BY <1>2, <1>3, <1>4 DEF MarkOK

LEMMA ShorterOK ==
  ASSUME NEW g, NEW b, NEW m, Fine(m), Just(g, b, m)
  PROVE  Fine(Shorter(m)) /\ Just(g, b, Shorter(m))
  <1>1. Fine(Shorter(m)) /\ \A s \in Nat : ReadBy(Shorter(m), s) => ReadBy(m, s)
    BY ShorterFine
  <1>2. \A t \in Times : t \in Nat
    BY MarksAssumption
  <1> QED BY <1>1, <1>2 DEF Just

\* A save of marks that are well formed once they are written.
LEMMA SavingHand ==
  ASSUME NEW g, NEW c, Page(c, g), NEW m, m.board \in Names,
         NEW q, q = Coded(Shorter(m.marks)), Fine(q), Just(g, m.board, q),
         \/ m.base # MarksOf(c, m.board) \/ m.board \in g.wild
         \/ Fine(m.marks) /\ Covers(m.marks, MarksOf(c, m.board)),
         NEW next \in Boards \cup {NoBoard}, NEW keep, NEW th, NEW w
  PROVE  HandOK(Saving(c, m, next, keep), g, th, w)
  <1> DEFINE o == Put(c, m.board, m.marks)
             r == [board |-> m.board, marks |-> q]
  <1>3. /\ Sheet(o) /\ Len(o) <= MaxSize /\ Whole(o)
        /\ \A x : HeadOf(o, x) => x = r \/ HeadOf(c, x)
        /\ Distinct(Records(c)) => Distinct(Records(o))
    BY PutFile DEF Page
  <1>4. r.board = m.board /\ r.marks = q
    OBVIOUS
  <1> HIDE DEF o, r
  <1>5. ASSUME NEW i \in 1 .. Len(o), o[i].board # NoBoard
        PROVE  Just(g, o[i].board, o[i].marks)
    <2>1. HeadOf(o, o[i])
      BY <1>5 DEF HeadOf
    <2>2. CASE o[i] = r
      BY <1>4, <2>2
    <2>3. CASE HeadOf(c, o[i])
      <3>1. PICK k \in 1 .. Len(c) : c[k].board # NoBoard /\ c[k] = o[i]
        BY <2>3 DEF HeadOf
      <3>2. Just(g, c[k].board, c[k].marks)
        BY <3>1 DEF Page
      <3> QED BY <3>1, <3>2
    <2> QED BY <1>3, <2>1, <2>2, <2>3
  <1>6. Page(o, g)
    <2>1. g.mixed \/ Distinct(Records(c))
      BY DEF Page
    <2> QED BY <1>3, <1>5, <2>1 DEF Page
  <1>7. HandOK(Saving(c, m, next, keep), g, th, w)
    <2> DEFINE st == m.base # MarksOf(c, m.board)
    <2> HIDE DEF st
    <2>1. Saving(c, m, next, keep) =
            [at |-> "open", board |-> m.board, has |-> TRUE, read |-> c, out |-> o,
             stale |-> st, fd |-> "none", next |-> next, keep |-> keep]
      BY DEF Saving, o, st
    <2> DEFINE y == Saving(c, m, next, keep)
               tr == TRUE
    <2> HIDE DEF tr
    <2>2. y = [at |-> "open", board |-> m.board, has |-> tr, read |-> c, out |-> o,
               stale |-> st, fd |-> "none", next |-> next, keep |-> keep]
      BY <2>1 DEF tr
    <2> HIDE DEF y
    <2>3. /\ y.at = "open" /\ y.board = m.board /\ y.read = c /\ y.out = o
          /\ y.stale = st /\ y.fd = "none" /\ y.next = next /\ HandRec(y)
      BY <2>2 DEF HandRec
    <2>4. st \/ m.board \in g.wild \/ (Fine(m.marks) /\ Covers(m.marks, MarksOf(c, m.board)))
      BY DEF st
    <2>5. o = Put(c, m.board, m.marks)
      BY DEF o
    <2>6. SaveOK(y, g)
      BY <2>3, <2>4, <2>5 DEF SaveOK
    <2>7. HandOK(y, g, th, w)
      BY <1>6, <2>3, <2>6 DEF HandOK
    <2> QED BY <2>7 DEF y
  <1> QED BY <1>7

LEMMA SavingOK ==
  ASSUME NEW g, NEW c, Page(c, g), NEW m, MarkOK(m, g), m.board # NoBoard,
         NEW next \in Boards \cup {NoBoard}, NEW keep, NEW th, NEW w
  PROVE  HandOK(Saving(c, m, next, keep), g, th, w) /\ MarkOK(Saved(m), g)
  <1>1. m.board \in Boards /\ Fine(m.marks) /\ Just(g, m.board, m.marks)
    BY DEF MarkOK
  <1>2. Fine(Shorter(m.marks)) /\ Just(g, m.board, Shorter(m.marks))
    BY <1>1, ShorterOK
  <1>7. HandOK(Saving(c, m, next, keep), g, th, w)
    <2> DEFINE q == Coded(Shorter(m.marks))
    <2>1. q = Shorter(m.marks)
      BY <1>2, CodedFine
    <2>2. m.board \in Names
      BY <1>1 DEF Names
    <2>3. \/ m.base # MarksOf(c, m.board) \/ m.board \in g.wild
          \/ Fine(m.marks) /\ Covers(m.marks, MarksOf(c, m.board))
      BY <1>1 DEF MarkOK
    <2>4. Fine(q) /\ Just(g, m.board, q) /\ q = Coded(Shorter(m.marks))
      BY <1>2, <2>1
    <2> HIDE DEF q
    <2> QED BY <2>2, <2>3, <2>4, SavingHand
  <1>8. MarkOK(Saved(m), g)
    <2> DEFINE n == Shorter(m.marks)
    <2>1. Fine(n) /\ Just(g, m.board, n)
      BY <1>2
    <2> HIDE DEF n
    <2>2. Saved(m) = [board |-> m.board, marks |-> n, changed |-> FALSE, base |-> n]
      BY DEF Saved, n
    <2>3. Covers(n, n)
      BY DEF Covers
    <2> QED BY <1>1, <2>1, <2>2, <2>3 DEF MarkOK
  <1> QED BY <1>7, <1>8

\* A file into which two have written has no other heads than theirs.
LEMMA OverPage ==
  ASSUME NEW g, NEW new, Page(new, g), NEW old, Page(old, g), old = <<>> \/ g.mixed
  PROVE  Page(Over(new, old), g)
  <1>1. /\ new \in Seq(Cell) /\ old \in Seq(Cell) /\ Sheet(new) /\ Sheet(old)
        /\ Len(new) <= MaxSize /\ Len(old) <= MaxSize
    BY DEF Page, Sheet
  <1> DEFINE l == Len(new)
             k == Len(old)
             o == Over(new, old)
             rest == SubSeq(old, l + 1, k)
  <1>2. l \in Nat /\ k \in Nat /\ l = Len(new) /\ k = Len(old)
    BY <1>1
  <1>3. CASE k <= l
    <2>1. rest = <<>>
      <3>1. rest \in Seq(Cell) /\ Len(rest) = 0
        <4> HIDE DEF k, l
        <4> QED BY <1>1, <1>2, <1>3
      <3> HIDE DEF rest
      <3> QED BY <3>1
    <2>2. o = new
      <3>1. new \o <<>> = new
        BY <1>1
      <3> QED BY <2>1, <3>1 DEF Over
    <2> QED BY <2>2
  <1>4. CASE ~(k <= l)
    <2>1. g.mixed
      <3>1. old = <<>> => k = 0
        OBVIOUS
      <3> HIDE DEF k, l
      <3> QED BY <1>2, <1>4, <3>1
    <2>2. rest \in Seq(Cell) /\ Len(rest) = k - l /\ \A i \in 1 .. (k - l) : rest[i] = old[l + i]
      <3> HIDE DEF k, l
      <3>1. l + 1 \in 1 .. k + 1 /\ \A i \in l + 1 .. k : old[i] \in Cell
        BY <1>1, <1>2, <1>4
      <3>2. rest \in Seq(Cell) /\ Len(rest) = k - l
        BY <1>1, <1>2, <1>4, <3>1
      <3> QED BY <1>1, <1>2, <1>4, <3>1, <3>2
    <2>3. o = new \o rest
      BY DEF Over
    <2> HIDE DEF rest, o
    <2>4. /\ o \in Seq(Cell) /\ Len(o) = k
          /\ \A i \in 1 .. l : o[i] = new[i]
          /\ \A i \in l + 1 .. k : o[i] = old[i]
      <3> HIDE DEF k, l
      <3>1. o \in Seq(Cell) /\ Len(o) = k
        <4>1. o \in Seq(Cell) /\ Len(o) = Len(new) + Len(rest)
          BY <1>1, <2>2, <2>3, ConcatProperties
        <4> QED BY <1>2, <1>4, <2>2, <4>1
      <3>2. \A i \in 1 .. l : o[i] = new[i]
        BY <1>1, <1>2, <2>2, <2>3
      <3>3. ASSUME NEW i \in l + 1 .. k PROVE o[i] = old[i]
        <4>1. i - l \in 1 .. (k - l) /\ l + (i - l) = i /\ i \in l + 1 .. l + (k - l)
          BY <1>2
        <4>2. o[i] = rest[i - l]
          <5> DEFINE z == k - l
          <5>1. z \in Nat /\ Len(rest) = z /\ Len(new) = l /\ i \in l + 1 .. l + z
            BY <1>2, <1>4, <2>2, <4>1
          <5> HIDE DEF z
          <5>2. \A j \in l + 1 .. l + z : o[j] = rest[j - l]
            BY <1>1, <1>2, <2>2, <2>3, <5>1
          <5> QED BY <5>1, <5>2
        <4> QED BY <2>2, <4>1, <4>2
      <3> QED BY <3>1, <3>2, <3>3
    <2>5. ASSUME NEW i \in 1 .. Len(o), o[i].board # NoBoard
          PROVE  IsHead(o[i]) /\ Just(g, o[i].board, o[i].marks)
      <3>1. CASE i \in 1 .. l
        BY <1>1, <1>2, <2>4, <2>5, <3>1 DEF Page, Sheet
      <3>2. CASE i \in l + 1 .. k
        <4>1. i \in 1 .. k /\ o[i] = old[i]
          BY <1>2, <2>4, <3>2
        <4> QED BY <1>1, <1>2, <2>5, <4>1 DEF Page, Sheet
      <3>3. i \in 1 .. l \/ i \in l + 1 .. k
        BY <1>2, <2>4
      <3> QED BY <3>1, <3>2, <3>3
    <2>6. Sheet(o)
      BY <2>4, <2>5 DEF Sheet
    <2> QED BY <1>1, <2>1, <2>4, <2>5, <2>6 DEF Page, o
  <1> QED BY <1>3, <1>4

-----------------------------------------------------------------------------
(* Marking                                                                 *)

LEMMA InsertOK ==
  ASSUME NEW g, NEW h, Grown(g, h), NEW b \in Boards, NEW m, Fine(m), Just(g, b, m),
         NEW t \in Times, <<b, t>> \in h.seen \/ b \in h.crossed,
         Unread(m, t) /\ Len(m) = MaxNum => Last(Insert(m, t)) <= h.aged[b]
  PROVE  Fine(Insert(m, t)) /\ Just(h, b, Insert(m, t)) /\ Covers(Insert(m, t), m)
  <1>0. t \in Nat /\ \A s \in Times : s \in Nat
    BY MarksAssumption
  <1>1. Just(h, b, m)
    BY JustGrown
  <1>2. CASE ~Unread(m, t)
    <2>1. Insert(m, t) = m
      BY <1>2 DEF Insert
    <2> QED BY <1>1, <2>1 DEF Covers
  <1>3. CASE Unread(m, t)
    <2> DEFINE n == Insert(m, t)
    <2>1. /\ Fine(n)
          /\ \A s \in Nat : ReadBy(n, s) => s = t \/ ReadBy(m, s) \/ (Len(m) = MaxNum /\ s < Last(n))
          /\ \A s \in Nat : ReadBy(m, s) => ReadBy(n, s)
      BY <1>0, <1>3, InsertFine
    <2>2. Len(m) = MaxNum => Last(n) <= h.aged[b]
      BY <1>3
    <2>3. Last(n) \in Int /\ h.aged[b] \in Nat
      <3>1. n \in Seq(Int) /\ Len(n) \in 1 .. Len(n)
        BY <2>1, MarksAssumption DEF Fine
      <3> HIDE DEF n
      <3>2. n[Len(n)] \in Int
        BY <3>1
      <3> QED BY <3>2 DEF Last, Grown, HistOK
    <2> HIDE DEF n
    <2>4. ASSUME NEW s \in Times, ReadBy(n, s)
          PROVE  <<b, s>> \in h.seen \/ s < h.aged[b] \/ b \in h.wild \/ b \in h.crossed
      <3>1. s \in Nat
        BY <1>0
      <3>2. s = t \/ ReadBy(m, s) \/ (Len(m) = MaxNum /\ s < Last(n))
        BY <2>1, <2>4, <3>1
      <3>3. Len(m) = MaxNum /\ s < Last(n) => s < h.aged[b]
        BY <2>2, <2>3, <3>1
      <3>4. ReadBy(m, s) => <<b, s>> \in h.seen \/ s < h.aged[b] \/ b \in h.wild \/ b \in h.crossed
        BY <1>1 DEF Just
      <3> QED BY <3>2, <3>3, <3>4
    <2>5. Just(h, b, n)
      BY <2>4 DEF Just
    <2>6. Covers(n, m)
      BY <1>0, <2>1 DEF Covers
    <2> QED BY <2>1, <2>5, <2>6 DEF n
  <1> QED BY <1>2, <1>3

LEMMA MarkedOK ==
  ASSUME NEW g, NEW h, Grown(g, h), NEW m, MarkOK(m, g), m.board # NoBoard,
         NEW t \in Times, <<m.board, t>> \in h.seen \/ m.board \in h.crossed,
         Unread(m.marks, t) /\ Len(m.marks) = MaxNum
           => Last(Insert(m.marks, t)) <= h.aged[m.board]
  PROVE  MarkOK(Marked(m, t), h) /\ Marked(m, t).board = m.board
  <1>1. m.board \in Boards /\ Fine(m.marks) /\ Just(g, m.board, m.marks)
    BY DEF MarkOK
  <1>2. /\ Fine(Insert(m.marks, t)) /\ Just(h, m.board, Insert(m.marks, t))
        /\ Covers(Insert(m.marks, t), m.marks)
    BY <1>1, InsertOK
  <1> DEFINE n == Insert(m.marks, t)
             ch == m.changed \/ Unread(m.marks, t)
  <1>3. Fine(n) /\ Just(h, m.board, n)
    BY <1>2
  <1>7. m.board \in h.wild \/ Covers(n, m.base)
    BY <1>2 DEF MarkOK, Grown, Covers
  <1>4. m = [board |-> m.board, marks |-> m.marks, changed |-> m.changed, base |-> m.base]
    BY DEF MarkOK
  <1>5. Marked(m, t) = [m EXCEPT !.marks = n, !.changed = ch]
    BY Zenon DEF Marked
  <1> HIDE DEF n, ch
  <1>6. Marked(m, t) = [board |-> m.board, marks |-> n, changed |-> ch, base |-> m.base]
    BY <1>4, <1>5
  <1> QED BY <1>1, <1>3, <1>6, <1>7 DEF MarkOK

LEMMA WipedOK ==
  ASSUME NEW g, NEW h, Grown(g, h), NEW m, MarkOK(m, g), m.board # NoBoard,
         NEW t \in Times,
         (\A s \in Times : s <= t => <<m.board, s>> \in h.seen) \/ m.board \in h.crossed
  PROVE  MarkOK(Wiped(m, t), h) /\ Wiped(m, t).board = m.board
  <1>0. t \in Nat /\ \A s \in Times : s \in Nat
    BY MarksAssumption
  <1>1. m.board \in Boards /\ Fine(m.marks) /\ Just(g, m.board, m.marks)
    BY DEF MarkOK
  <1>2. /\ Fine(Cleared(m.marks, t))
        /\ \A s \in Nat : ReadBy(Cleared(m.marks, t), s) => s <= t \/ ReadBy(m.marks, s)
        /\ \A s \in Nat : ReadBy(m.marks, s) => ReadBy(Cleared(m.marks, t), s)
    BY <1>0, <1>1, ClearedFine
  <1>3. Just(h, m.board, m.marks)
    BY <1>1, JustGrown
  <1> DEFINE n == Cleared(m.marks, t)
             ch == m.changed \/ Newer(m.marks, t) < Len(m.marks)
  <1>4. Fine(n) /\ Just(h, m.board, n)
    BY <1>0, <1>2, <1>3 DEF Just
  <1>8. m.board \in h.wild \/ Covers(n, m.base)
    BY <1>0, <1>2 DEF MarkOK, Grown, Covers
  <1>5. m = [board |-> m.board, marks |-> m.marks, changed |-> m.changed, base |-> m.base]
    BY DEF MarkOK
  <1>6. Wiped(m, t) = [m EXCEPT !.marks = n, !.changed = ch]
    BY Zenon DEF Wiped
  <1> HIDE DEF n, ch
  <1>7. Wiped(m, t) = [board |-> m.board, marks |-> n, changed |-> ch, base |-> m.base]
    BY <1>5, <1>6
  <1> QED BY <1>1, <1>4, <1>7, <1>8 DEF MarkOK

LEMMA SawGrown ==
  ASSUME HistOK(hist), NEW m, Fine(m), NEW b \in Boards, NEW t \in Times
  PROVE  LET h == Saw(m, b, t)
         IN  /\ Grown(hist, h) /\ <<b, t>> \in h.seen
             /\ Unread(m, t) /\ Len(m) = MaxNum => Last(Insert(m, t)) <= h.aged[b]
  <1> DEFINE n == Insert(m, t)
             full == Unread(m, t) /\ Len(m) = MaxNum
             a == IF full /\ Last(n) > hist.aged[b] THEN Last(n) ELSE hist.aged[b]
             se == hist.seen \cup {<<b, t>>}
             ag == [hist.aged EXCEPT ![b] = a]
  <1>1. hist.aged[b] \in Nat /\ hist.aged \in [Boards -> Nat]
    BY DEF HistOK, HistRec
  <1>2. full => Last(n) \in Int
    <2> SUFFICES ASSUME Unread(m, t) PROVE Last(n) \in Int
      OBVIOUS
    <2>1. Fine(n)
      BY InsertFine, MarksAssumption
    <2>2. n \in Seq(Int) /\ Len(n) \in 1 .. Len(n)
      BY <2>1, MarksAssumption DEF Fine
    <2> HIDE DEF n
    <2>3. n[Len(n)] \in Int
      BY <2>2
    <2> QED BY <2>3 DEF Last
  <1>3. a \in Nat /\ hist.aged[b] <= a /\ (full => Last(n) <= a)
    <2> DEFINE la == Last(n)
    <2>1. full => la \in Int
      BY <1>2
    <2>2. a = IF full /\ la > hist.aged[b] THEN la ELSE hist.aged[b]
      OBVIOUS
    <2> HIDE DEF a, la, full
    <2>3. a \in Nat /\ hist.aged[b] <= a /\ (full => la <= a)
      BY <1>1, <2>1, <2>2
    <2> QED BY <2>3 DEF la
  <1>4. Saw(m, b, t) = [hist EXCEPT !.seen = se, !.aged = ag]
    BY Zenon DEF Saw
  <1>5. hist = [seen |-> hist.seen, aged |-> hist.aged, mixed |-> hist.mixed,
                wild |-> hist.wild, wrecked |-> hist.wrecked, crossed |-> hist.crossed]
    BY DEF HistOK, HistRec
  <1>6. <<b, t>> \in se /\ hist.seen \subseteq se
    OBVIOUS
  <1> HIDE DEF a, full
  <1>7. ag \in [Boards -> Nat] /\ ag[b] = a /\ \A x \in Boards : hist.aged[x] <= ag[x]
    BY <1>1, <1>3
  <1> HIDE DEF se, ag, n
  <1> DEFINE h == Saw(m, b, t)
  <1>8. h = [seen |-> se, aged |-> ag, mixed |-> hist.mixed, wild |-> hist.wild,
             wrecked |-> hist.wrecked, crossed |-> hist.crossed]
    BY <1>4, <1>5
  <1>9. Grown(hist, h)
    <2>1. HistOK(h)
      BY <1>7, <1>8 DEF HistOK, HistRec
    <2>2. h.seen = se /\ h.aged = ag /\ h.mixed = hist.mixed /\ h.wild = hist.wild /\ h.crossed = hist.crossed
      BY <1>8
    <2> HIDE DEF h
    <2> QED BY <1>6, <1>7, <2>1, <2>2 DEF Grown
  <1>10. h.seen = se /\ h.aged[b] = a
    BY <1>7, <1>8
  <1> QED BY <1>3, <1>6, <1>9, <1>10 DEF full, n

\* More that was seen, crossed or spoiled.
LEMMA WiderGrown ==
  ASSUME NEW g, HistOK(g), NEW se, g.seen \subseteq se, NEW cr, g.crossed \subseteq cr,
         NEW wi, g.wild \subseteq wi, NEW mi, g.mixed => mi
  PROVE  LET h == [seen |-> se, aged |-> g.aged, mixed |-> mi, wild |-> wi,
                   wrecked |-> g.wrecked, crossed |-> cr]
         IN  Grown(g, h)
  <1> DEFINE h == [seen |-> se, aged |-> g.aged, mixed |-> mi, wild |-> wi,
                   wrecked |-> g.wrecked, crossed |-> cr]
  <1>1. g.aged \in [Boards -> Nat]
    BY DEF HistOK, HistRec
  <1>2. HistOK(h)
    BY <1>1 DEF HistOK, HistRec
  <1>3. h.seen = se /\ h.aged = g.aged /\ h.wild = wi /\ h.crossed = cr
    OBVIOUS
  <1>4. g.mixed => h.mixed
    OBVIOUS
  <1> HIDE DEF h
  <1>5. \A b \in Boards : g.aged[b] <= h.aged[b]
    BY <1>1, <1>3
  <1>6. Grown(g, h)
    BY <1>2, <1>3, <1>4, <1>5 DEF Grown
  <1> QED BY <1>6 DEF h

LEMMA SawToGrown ==
  ASSUME HistOK(hist), NEW b \in Boards, NEW t \in Times
  PROVE  /\ Grown(hist, SawTo(b, t))
         /\ \A s \in Times : s <= t => <<b, s>> \in SawTo(b, t).seen
  <1> DEFINE se == hist.seen \cup {<<b, s>> : s \in {s \in Times : s <= t}}
             h == [seen |-> se, aged |-> hist.aged, mixed |-> hist.mixed,
                   wild |-> hist.wild, wrecked |-> hist.wrecked, crossed |-> hist.crossed]
  <1>1. hist.seen \subseteq se /\ \A s \in Times : s <= t => <<b, s>> \in se
    OBVIOUS
  <1>2. SawTo(b, t) = [hist EXCEPT !.seen = se]
    BY DEF SawTo
  <1> HIDE DEF se
  <1>3. Grown(hist, h)
    BY <1>1, WiderGrown
  <1>4. SawTo(b, t) = h
    BY <1>2 DEF HistOK, HistRec
  <1>5. h.seen = se
    OBVIOUS
  <1> HIDE DEF h
  <1> QED BY <1>1, <1>3, <1>4, <1>5

LEMMA CrossingGrown ==
  ASSUME HistOK(hist), NEW w, NEW h, Grown(hist, h), NEW ts
  PROVE  LET x == Crossing(w, h, ts)
         IN  /\ Grown(hist, x) /\ x.aged = h.aged
             /\ \/ brc.web.board \in x.crossed
                \/ \A t \in ts : <<brc.web.board, t>> \in x.seen
  <1> DEFINE se == hist.seen \cup {<<hand[w].board, t>> : t \in ts}
             cr == IF brc.web.board = hand[w].board THEN h.crossed
                   ELSE h.crossed \cup {brc.web.board}
             x == Crossing(w, h, ts)
  <1>1. h = [seen |-> h.seen, aged |-> h.aged, mixed |-> h.mixed, wild |-> h.wild,
             wrecked |-> h.wrecked, crossed |-> h.crossed]
    BY DEF Grown, HistOK, HistRec
  <1>2. x = [h EXCEPT !.seen = se, !.crossed = cr]
    BY DEF Crossing
  <1>3. hist.seen \subseteq se /\ h.crossed \subseteq cr
    OBVIOUS
  <1>4. brc.web.board \in cr \/ \A t \in ts : <<brc.web.board, t>> \in se
    OBVIOUS
  <1> HIDE DEF se, cr, x
  <1>5. x = [seen |-> se, aged |-> h.aged, mixed |-> h.mixed, wild |-> h.wild,
             wrecked |-> h.wrecked, crossed |-> cr]
    BY <1>1, <1>2
  <1>6. HistOK(x)
    BY <1>5 DEF Grown, HistOK, HistRec
  <1>7. x.seen = se /\ x.aged = h.aged /\ x.mixed = h.mixed /\ x.wild = h.wild /\ x.crossed = cr
    BY <1>5
  <1>8. Grown(hist, x)
    BY <1>3, <1>6, <1>7 DEF Grown
  <1> QED BY <1>4, <1>7, <1>8 DEF x

LEMMA LastTime ==
  LET t == CHOOSE s \in Times : \A u \in Times : u <= s
  IN  t \in Times /\ \A u \in Times : u <= t
  <1>1. IsFiniteSet(Times) /\ Times # {} /\ \A t \in Times : t \in Nat
    BY MarksAssumption
  <1>2. \E n \in Nat : \E f : \A t \in Times : \E i \in 1 .. n : f[i] = t
    <2>1. PICK n \in Nat : ExistsBijection(1 .. n, Times)
      BY <1>1, FS_NatBijection
    <2>2. PICK f : f \in Bijection(1 .. n, Times)
      BY <2>1 DEF ExistsBijection
    <2>3. \A t \in Times : \E i \in 1 .. n : f[i] = t
      BY <2>2 DEF Bijection, Surjection
    <2> QED BY <2>3
  <1>20. PICK n \in Nat : \E f : \A t \in Times : \E i \in 1 .. n : f[i] = t
    BY <1>2
  <1>21. PICK f : \A t \in Times : \E i \in 1 .. n : f[i] = t
    BY <1>20
  <1> DEFINE Bound(k, x) == \A i \in 1 .. k : f[i] \in Times => f[i] <= x
             G == {k \in 0 .. n : \E x \in Nat : Bound(k, x)}
  <1>3. 0 \in G
    <2>1. \A i \in 1 .. 0 : FALSE
      OBVIOUS
    <2>2. Bound(0, 0)
      BY <2>1
    <2> HIDE DEF Bound
    <2> QED BY <2>2
  <1>4. ASSUME NEW k \in 1 .. n, k - 1 \in G PROVE k \in G
    <2>1. PICK x \in Nat : Bound(k - 1, x)
      BY <1>4
    <2> DEFINE y == IF f[k] \in Times /\ f[k] > x THEN f[k] ELSE x
    <2>2. y \in Nat /\ x <= y /\ (f[k] \in Times => f[k] <= y)
      BY <1>1
    <2> HIDE DEF y
    <2>3. ASSUME NEW i \in 1 .. k, f[i] \in Times PROVE f[i] <= y
      <3>1. CASE i = k
        BY <2>2, <2>3, <3>1
      <3>2. CASE i # k
        <4>1. i \in 1 .. (k - 1)
          BY <3>2
        <4>2. f[i] <= x /\ f[i] \in Nat
          BY <1>1, <2>1, <2>3, <4>1
        <4> QED BY <2>2, <4>2
      <3> QED BY <3>1, <3>2
    <2>4. Bound(k, y)
      BY <2>3
    <2>5. k \in 0 .. n
      OBVIOUS
    <2> HIDE DEF Bound
    <2> QED BY <2>2, <2>4, <2>5
  <1>5. 0 .. n \subseteq G
    <2> HIDE DEF G
    <2> QED BY <1>3, <1>4, Upwards
  <1>6. n \in 0 .. n
    OBVIOUS
  <1>7. PICK x \in Nat : Bound(n, x)
    BY <1>5, <1>6
  <1>8. \A t \in Times : t <= x
    BY <1>21, <1>7
  <1> DEFINE D == {x - t : t \in Times}
  <1>9. PICK d \in D : \A e \in D : d <= e
    <2>1. D \in SUBSET Nat
      BY <1>1, <1>8
    <2>2. D # {}
      BY <1>1
    <2> HIDE DEF D
    <2> QED BY <2>1, <2>2, LeastNat
  <1>10. PICK t \in Times : d = x - t
    OBVIOUS
  <1>11. ASSUME NEW u \in Times PROVE u <= t
    <2>1. x - t <= x - u
      BY <1>9, <1>10
    <2> QED BY <1>1, <2>1
  <1> QED BY <1>11

LEMMA QuickIs ==
  ASSUME NEW m, Fine(m), NEW t \in Nat
  PROVE  /\ Quick(m, t) => Unread(m, t)
         /\ Unread(m, t) /\ ~Quick(m, t) => Len(m) > QuickNum /\ t < m[QuickNum]
  <1> DEFINE l == Len(m)
             n == IF l > QuickNum THEN QuickNum ELSE l
             q == SubSeq(m, 1, n)
  <1>1. m \in Seq(Int) /\ Descending(m) /\ l \in 1 .. MaxNum /\ l \in Nat /\ QuickNum \in Nat \ {0}
    BY MarksAssumption DEF Fine
  <1>2. \A i, j \in 1 .. l : i < j => m[i] >= m[j]
    BY <1>1, Falls
  <1>0. l = Len(m) /\ n = IF l > QuickNum THEN QuickNum ELSE l
    OBVIOUS
  <1>3. \A i \in 1 .. l : m[i] \in Int
    BY <1>1
  <1>4. Quick(m, t) <=> Unread(q, t)
    BY DEF Quick
  <1> HIDE DEF l, n
  <1>5. n \in 1 .. l /\ n \in 1 .. MaxNum /\ l \in 1 .. l /\ n \in Nat
    <2>1. l \in Nat /\ l >= 1 /\ l <= MaxNum /\ MaxNum \in Nat
      BY <1>1, MarksAssumption
    <2>2. n \in Nat /\ n >= 1 /\ n <= l
      BY <1>0, <1>1, <2>1
    <2> QED BY <2>1, <2>2
  <1>6. q \in Seq(Int) /\ Len(q) = n /\ \A i \in 1 .. n : q[i] = m[i]
    BY <1>0, <1>1, <1>5
  <1> HIDE DEF q
  <1>7. Descending(q)
    <2> SUFFICES ASSUME NEW i \in 1 .. Len(q) - 1 PROVE q[i] >= q[i + 1]
      BY DEF Descending
    <2>1. i \in 1 .. n /\ i + 1 \in 1 .. n /\ i \in 1 .. l /\ i + 1 \in 1 .. l /\ i < i + 1
      BY <1>1, <1>5, <1>6
    <2> QED BY <1>2, <1>6, <2>1
  <1>8. Fine(q)
    BY <1>5, <1>6, <1>7 DEF Fine
  <1>9. (Unread(q, t) <=> ~ReadBy(q, t)) /\ (Unread(m, t) <=> ~ReadBy(m, t))
    BY <1>8, UnreadIs
  <1>10. ReadBy(m, t) => ReadBy(q, t)
    <2>1. ASSUME NEW i \in 1 .. l, m[i] = t PROVE ReadBy(q, t)
      <3>1. CASE i \in 1 .. n
        BY <1>6, <2>1, <3>1 DEF ReadBy
      <3>2. CASE i \notin 1 .. n
        <4>1. n < i
          BY <1>5, <3>2
        <4>2. m[n] >= t
          BY <1>2, <1>5, <2>1, <4>1
        <4>3. t < q[Len(q)] \/ q[n] = t
          BY <1>3, <1>5, <1>6, <4>2
        <4>4. n \in 1 .. Len(q)
          BY <1>5, <1>6
        <4> QED BY <4>3, <4>4 DEF ReadBy
      <3> QED BY <3>1, <3>2
    <2>2. ASSUME t < m[l] PROVE ReadBy(q, t)
      <3>1. m[l] <= m[n] /\ m[n] \in Int /\ m[l] \in Int
        <4>1. n = l \/ n < l
          BY <1>5
        <4> QED BY <1>2, <1>3, <1>5, <4>1
      <3>2. t < q[Len(q)]
        BY <1>5, <1>6, <2>2, <3>1
      <3> QED BY <3>2 DEF ReadBy
    <2> QED BY <1>0, <2>1, <2>2 DEF ReadBy
  <1>11. ASSUME ~ReadBy(m, t), ReadBy(q, t) PROVE l > QuickNum /\ t < m[QuickNum]
    <2>1. \A i \in 1 .. n : i \in 1 .. l
      BY <1>5
    <2>2. t < m[n]
      <3>1. \A i \in 1 .. n : q[i] # t
        BY <1>0, <1>6, <1>11, <2>1 DEF ReadBy
      <3>2. t < q[n]
        BY <1>6, <1>11, <3>1 DEF ReadBy
      <3> QED BY <1>5, <1>6, <3>2
    <2>3. n # l
      BY <1>0, <1>11, <2>2 DEF ReadBy
    <2> QED BY <1>0, <1>1, <2>2, <2>3
  <1> QED BY <1>0, <1>4, <1>9, <1>10, <1>11

-----------------------------------------------------------------------------
(* Parts of a step                                                         *)

LEMMA InvGrown ==
  ASSUME NEW d, NEW th, NEW br, NEW kp, NEW hd, NEW cr, NEW g,
         Inv(d, th, br, kp, hd, cr, g), NEW h, Grown(g, h)
  PROVE  Inv(d, th, br, kp, hd, cr, h)
  <1>1. HistOK(h)
    BY DEF Grown
  <1>2. Page(d.file, h) /\ Page(d.tmp, h) /\ Page(d.home, h) /\ Page(kp.cells, h)
    BY PageGrown DEF Inv
  <1>3. MarkOK(br.telnet, h) /\ MarkOK(br.web, h)
    BY MarkGrown DEF Inv
  <1>4. \A p \in Procs : HandOK(hd[p], h, th, br.web)
    BY HandGrown DEF Inv
  <1> QED BY <1>1, <1>2, <1>3, <1>4 DEF Inv

LEMMA InvHand ==
  ASSUME NEW d, NEW th, NEW br, NEW kp, NEW hd, NEW cr, NEW g,
         Inv(d, th, br, kp, hd, cr, g), NEW p \in Procs, NEW x, HandOK(x, g, th, br.web)
  PROVE  Inv(d, th, br, kp, [hd EXCEPT ![p] = x], cr, g)
  <1> DEFINE h == [hd EXCEPT ![p] = x]
  <1>1. hd = [q \in Procs |-> hd[q]]
    BY DEF Inv
  <1>2. h = [q \in Procs |-> IF q = p THEN x ELSE hd[q]]
    BY <1>1
  <1>3. h = [q \in Procs |-> h[q]] /\ \A q \in Procs : h[q] = IF q = p THEN x ELSE hd[q]
    BY <1>2
  <1> HIDE DEF h
  <1>4. \A q \in Procs : HandOK(h[q], g, th, br.web)
    BY <1>3 DEF Inv
  <1>5. Inv(d, th, br, kp, h, cr, g)
    BY <1>3, <1>4 DEF Inv
  <1> QED BY <1>5 DEF h

LEMMA InvTelnet ==
  ASSUME NEW d, NEW th, NEW br, NEW kp, NEW hd, NEW cr, NEW g,
         Inv(d, th, br, kp, hd, cr, g), NEW m, MarkOK(m, g)
  PROVE  Inv(d, th, [br EXCEPT !.telnet = m], kp, hd, cr, g)
  <1> DEFINE b == [br EXCEPT !.telnet = m]
  <1>1. br = [telnet |-> br.telnet, web |-> br.web]
    BY DEF Inv
  <1>2. b = [telnet |-> b.telnet, web |-> b.web] /\ b.telnet = m /\ b.web = br.web
    BY <1>1
  <1> HIDE DEF b
  <1>3. Inv(d, th, b, kp, hd, cr, g)
    BY <1>2 DEF Inv
  <1> QED BY <1>3 DEF b

LEMMA InvWeb ==
  ASSUME NEW d, NEW th, NEW br, NEW kp, NEW hd, NEW cr, NEW g,
         Inv(d, th, br, kp, hd, cr, g), NEW m, MarkOK(m, g), m.board # NoBoard
  PROVE  Inv(d, th, [br EXCEPT !.web = m], kp, hd, cr, g)
  <1> DEFINE b == [br EXCEPT !.web = m]
  <1>1. br = [telnet |-> br.telnet, web |-> br.web]
    BY DEF Inv
  <1>2. b = [telnet |-> b.telnet, web |-> b.web] /\ b.web = m /\ b.telnet = br.telnet
    BY <1>1
  <1> HIDE DEF b
  <1>3. \A p \in Procs : HandOK(hd[p], g, th, b.web)
    BY <1>2 DEF Inv, HandOK
  <1>4. Inv(d, th, b, kp, hd, cr, g)
    BY <1>2, <1>3 DEF Inv
  <1> QED BY <1>4 DEF b

LEMMA InvKept ==
  ASSUME NEW d, NEW th, NEW br, NEW kp, NEW hd, NEW cr, NEW g,
         Inv(d, th, br, kp, hd, cr, g), NEW k, Page(k.cells, g)
  PROVE  Inv(d, th, br, k, hd, cr, g)
  BY DEF Inv

LEMMA VisiblePage ==
  ASSUME IInv
  PROVE  Page(Visible, hist)
  BY DEF IInv, Inv, Visible

LEMMA NoKept ==
  ASSUME NEW g, NEW has
  PROVE  Page([has |-> has, cells |-> <<>>].cells, g)
  BY EmptyPage

LEMMA HandAt ==
  ASSUME NEW x, NEW g, NEW th, NEW w, HandOK(x, g, th, w), x.fd = "none",
         NEW a \in {"unused", "idle"}
  PROVE  HandOK([x EXCEPT !.at = a], g, th, w)
  <1> DEFINE y == [x EXCEPT !.at = a]
  <1>1. HandRec(x)
    BY DEF HandOK
  <1>2. y.at = a /\ y.read = x.read /\ y.out = x.out /\ y.fd = x.fd /\ y.next = x.next
    BY <1>1 DEF HandRec
  <1>3. HandRec(y)
    BY <1>1 DEF HandRec
  <1> HIDE DEF y
  <1>4. HandOK(y, g, th, w)
    BY <1>2, <1>3 DEF HandOK, Saves
  <1> QED BY <1>4 DEF y

LEMMA HandFd ==
  ASSUME NEW x, NEW g, NEW th, NEW w, HandOK(x, g, th, w), NEW f, NEW to,
         f # "none" => x.at = "write" /\ f \in to
  PROVE  HandOK([x EXCEPT !.fd = f], g, to, w)
  <1> DEFINE y == [x EXCEPT !.fd = f]
  <1>1. HandRec(x)
    BY DEF HandOK
  <1>2. /\ y.at = x.at /\ y.read = x.read /\ y.out = x.out /\ y.fd = f /\ y.next = x.next
        /\ y.board = x.board /\ y.stale = x.stale
    BY <1>1 DEF HandRec
  <1>3. HandRec(y)
    BY <1>1 DEF HandRec
  <1> HIDE DEF y
  <1>5. SaveOK(x, g) => SaveOK(y, g)
    BY <1>2 DEF SaveOK
  <1>4. HandOK(y, g, to, w)
    BY <1>2, <1>3, <1>5 DEF HandOK
  <1> QED BY <1>4 DEF y

\* The save x goes on at a, with the file f open.
Turned(new, x, a, f) == new = [x EXCEPT !.at = a, !.fd = f]

LEMMA HandAtFd ==
  ASSUME NEW x, NEW g, NEW th, NEW w, HandOK(x, g, th, w), NEW f, NEW to,
         x.at \in Saves, NEW a \in Saves, f # "none" => a = "write" /\ f \in to,
         NEW new, Turned(new, x, a, f)
  PROVE  HandOK(new, g, to, w)
  <1> DEFINE z == [x EXCEPT !.at = a]
             y == [z EXCEPT !.fd = f]
  <1>0. new = y
    BY DEF Turned
  <1>1. HandRec(x)
    BY DEF HandOK
  <1>2. /\ z.at = a /\ z.read = x.read /\ z.out = x.out /\ z.next = x.next
        /\ z.board = x.board /\ z.stale = x.stale
    BY <1>1 DEF HandRec
  <1>3. HandRec(z)
    BY <1>1 DEF HandRec
  <1> HIDE DEF z
  <1>4. /\ y.at = z.at /\ y.read = z.read /\ y.out = z.out /\ y.fd = f /\ y.next = z.next
        /\ y.board = z.board /\ y.stale = z.stale
    BY <1>3 DEF HandRec
  <1>5. HandRec(y)
    BY <1>3 DEF HandRec
  <1> HIDE DEF y
  <1>7. SaveOK(y, g)
    BY <1>2, <1>4 DEF HandOK, SaveOK
  <1>6. HandOK(y, g, to, w)
    BY <1>2, <1>4, <1>5, <1>7 DEF HandOK, Saves
  <1> QED BY <1>0, <1>6

LEMMA InitInv ==
  ASSUME Init
  PROVE  IInv
  <1>1. PICK h \in Homes : disk = [file |-> <<>>, tmp |-> <<>>, home |-> h]
    BY DEF Init
  <1>2. HistOK(hist)
    BY DEF Init, HistOK, HistRec
  <1>3. /\ h \in Seq(Cell) /\ Len(h) <= MaxSize /\ Whole(h)
        /\ \A i \in DOMAIN h :
             h[i].board # NoBoard => Fine(h[i].marks) /\ MarksOf(h, h[i].board) = h[i].marks
        /\ \A i, k \in DOMAIN Records(h) : Records(h)[i].board = Records(h)[k].board => i = k
    BY HomesAssumption DEF Cell
  <1>4. Sheet(h) /\ DOMAIN h = 1 .. Len(h)
    <2>1. DOMAIN h = 1 .. Len(h) /\ \A i \in 1 .. Len(h) : h[i] \in Cell
      BY <1>3
    <2> QED BY <1>3, <2>1 DEF Sheet, IsHead
  <1>5. Distinct(Records(h))
    <2>1. Records(h) \in Seq(Cell)
      BY <1>4, ParsedGood DEF Good, Records
    <2> DEFINE recs == Records(h)
    <2> HIDE DEF recs
    <2>2. DOMAIN recs = 1 .. Len(recs)
      BY <2>1 DEF recs
    <2> QED BY <1>3, <2>2 DEF Distinct, recs
  <1>6. ASSUME NEW i \in 1 .. Len(h), h[i].board # NoBoard
        PROVE  Just(hist, h[i].board, h[i].marks)
    <2> SUFFICES ASSUME h[i].board \in Boards PROVE Just(hist, h[i].board, h[i].marks)
      BY DEF Just
    <2>1. h[i].board \in Boards /\ Fine(h[i].marks) /\ MarksOf(h, h[i].board) = h[i].marks
      BY <1>3, <1>4, <1>6
    <2>2. hist.seen = {bt \in Boards \X Times : ~Unread(MarksOf(h, bt[1]), bt[2])}
      BY <1>1 DEF Init
    <2> DEFINE b == h[i].board
               m == h[i].marks
    <2>3. b \in Boards /\ Fine(m) /\ MarksOf(h, b) = m
      BY <2>1
    <2> HIDE DEF b, m
    <2>4. ASSUME NEW t \in Times, ReadBy(m, t) PROVE <<b, t>> \in hist.seen
      <3>1. t \in Nat
        BY MarksAssumption
      <3>2. ~Unread(m, t)
        BY <2>3, <2>4, <3>1, UnreadIs
      <3>3. <<b, t>> \in Boards \X Times /\ <<b, t>>[1] = b /\ <<b, t>>[2] = t
        BY <2>3
      <3> QED BY <2>2, <2>3, <3>2, <3>3
    <2>5. Just(hist, b, m)
      BY <2>4 DEF Just
    <2> QED BY <2>5 DEF b, m
  <1>7. Page(h, hist)
    BY <1>3, <1>4, <1>5, <1>6 DEF Page
  <1>8. disk = [file |-> disk.file, tmp |-> disk.tmp, home |-> disk.home]
        /\ disk.file = <<>> /\ disk.tmp = <<>> /\ disk.home = h
    BY <1>1
  <1>9. Page(disk.file, hist) /\ Page(disk.tmp, hist) /\ Page(disk.home, hist)
    BY <1>7, <1>8, EmptyPage
  <1>10. Page(kept.cells, hist)
    BY NoKept DEF Init
  <1>11. brc = [telnet |-> brc.telnet, web |-> brc.web] /\ brc.telnet = NoMarks /\ brc.web = NoMarks
    BY DEF Init
  <1>12. MarkOK(brc.telnet, hist) /\ MarkOK(brc.web, hist)
    BY <1>11, IdleOK
  <1>13. PICK crew \in Crews :
           hand = [p \in Procs |-> IF p \in crew THEN Idle ELSE [Idle EXCEPT !.at = "unused"]]
    BY DEF Init
  <1>14. HandOK([Idle EXCEPT !.at = "unused"], hist, there, brc.web)
    <2>1. HandOK(Idle, hist, there, brc.web) /\ Idle.fd = "none"
      BY IdleOK DEF Idle
    <2> QED BY <2>1, HandAt
  <1>15. \A p \in Procs : HandOK(hand[p], hist, there, brc.web)
    BY <1>13, <1>14, IdleOK
  <1>16. hand = [p \in Procs |-> hand[p]]
    BY <1>13
  <1>17. there \subseteq {"file", "tmp"} /\ cron \in {"idle", "copied"}
    BY DEF Init
  <1> QED BY <1>2, <1>8, <1>9, <1>10, <1>11, <1>12, <1>15, <1>16, <1>17 DEF IInv, Inv

-----------------------------------------------------------------------------
(* The steps of a process                                                  *)

LEMMA ProcsAre ==
  "telnet" \in Procs /\ "api" \in Procs /\ Requests \subseteq Procs
  BY DEF Procs

\* The telnet process saves its marks and goes on with next.
LEMMA TelnetSaves ==
  ASSUME IInv, brc.telnet.board # NoBoard, NEW next \in Boards \cup {NoBoard}, NEW keep
  PROVE  Inv(disk, there, [brc EXCEPT !.telnet = Saved(brc.telnet)], kept,
             [hand EXCEPT !["telnet"] = Saving(Visible, brc.telnet, next, keep)], cron, hist)
  <1> DEFINE br == [brc EXCEPT !.telnet = Saved(brc.telnet)]
             x == Saving(Visible, brc.telnet, next, keep)
  <1>1. Page(Visible, hist) /\ MarkOK(brc.telnet, hist)
    BY VisiblePage DEF IInv, Inv
  <1>2. HandOK(x, hist, there, br.web) /\ MarkOK(Saved(brc.telnet), hist)
    BY <1>1, SavingOK
  <1>3. Inv(disk, there, br, kept, hand, cron, hist)
    BY <1>2, InvTelnet DEF IInv
  <1> HIDE DEF br, x
  <1>4. Inv(disk, there, br, kept, [hand EXCEPT !["telnet"] = x], cron, hist)
    BY <1>2, <1>3, InvHand, ProcsAre
  <1> QED BY <1>4 DEF br, x

LEMMA OpenInv ==
  ASSUME IInv, NEW p \in Procs, Open(p)
  PROVE  IInv'
  <1>1. /\ hand[p].at = "open" /\ there' = there \cup {"tmp"}
        /\ hand' = [hand EXCEPT ![p] = [hand[p] EXCEPT !.at = "write", !.fd = "tmp"]]
        /\ UNCHANGED <<disk, brc, kept, cron, hist>>
    BY DEF Open, Goes
  <1> DEFINE th == there \cup {"tmp"}
             x == [hand[p] EXCEPT !.at = "write", !.fd = "tmp"]
  <1>2. HandOK(x, hist, th, brc.web)
    <2>1. HandOK(hand[p], hist, there, brc.web)
      BY DEF IInv, Inv
    <2>2. "tmp" \in th /\ hand[p].at \in Saves /\ "write" \in Saves
      BY <1>1 DEF Saves
    <2> DEFINE y == hand[p]
    <2>3. HandOK(y, hist, there, brc.web) /\ y.at \in Saves
      BY <2>1, <2>2
    <2>4. Turned(x, y, "write", "tmp")
      BY DEF Turned
    <2> HIDE DEF y, th, x
    <2> QED BY <2>2, <2>3, <2>4, HandAtFd
  <1>3. Inv(disk, th, brc, kept, hand, cron, hist)
    BY DEF IInv, Inv, HandOK
  <1> HIDE DEF th, x
  <1>4. Inv(disk, th, brc, kept, [hand EXCEPT ![p] = x], cron, hist)
    BY <1>2, <1>3, InvHand
  <1>5. Inv(disk', there', brc', kept', hand', cron', hist')
    BY <1>1, <1>4 DEF th, x
  <1> QED BY <1>5 DEF IInv

LEMMA WriteInv ==
  ASSUME IInv, NEW p \in Procs, Write(p)
  PROVE  IInv'
  <1> DEFINE fd == hand[p].fd
             x == [hand[p] EXCEPT !.at = "rename", !.fd = "none"]
             hd == [hand EXCEPT ![p] = x]
  <1>1. /\ hand' = hd
        /\ UNCHANGED <<there, brc, kept, cron>>
        /\ fd = "none" => UNCHANGED <<disk, hist>>
        /\ fd # "none" => /\ disk' = [disk EXCEPT ![fd] = Over(hand[p].out, @)]
                          /\ hist' = [hist EXCEPT !.mixed = @ \/ disk[fd] # <<>>]
    BY DEF Write, Goes
  <1>2. HandOK(hand[p], hist, there, brc.web)
    BY DEF IInv, Inv
  <1>3. HandOK(x, hist, there, brc.web)
    <2>1. hand[p].at \in Saves /\ "rename" \in Saves
      BY DEF Write, Saves
    <2> DEFINE y == hand[p]
    <2>2. HandOK(y, hist, there, brc.web) /\ y.at \in Saves
      BY <1>2, <2>1
    <2>3. Turned(x, y, "rename", "none")
      BY DEF Turned
    <2> HIDE DEF y, x
    <2> QED BY <2>1, <2>2, <2>3, HandAtFd
  <1>4. Inv(disk, there, brc, kept, hd, cron, hist)
    <2> HIDE DEF x
    <2> QED BY <1>3, InvHand DEF IInv
  <1>5. CASE fd = "none"
    BY <1>1, <1>4, <1>5 DEF IInv
  <1>6. CASE fd # "none"
    <2> DEFINE mi == hist.mixed \/ disk[fd] # <<>>
               g == [seen |-> hist.seen, aged |-> hist.aged, mixed |-> mi,
                     wild |-> hist.wild, wrecked |-> hist.wrecked, crossed |-> hist.crossed]
               new == Over(hand[p].out, disk[fd])
               d == [disk EXCEPT ![fd] = new]
    <2>1. fd \in {"file", "tmp"}
      BY <1>2, <1>6 DEF HandOK, IInv, Inv
    <2>2. HistOK(hist)
      BY DEF IInv, Inv
    <2>3. Grown(hist, g)
      <3>1. hist.mixed => mi
        OBVIOUS
      <3> HIDE DEF mi
      <3> QED BY <2>2, <3>1, WiderGrown
    <2>4. hist' = g
      <3>1. hist' = [hist EXCEPT !.mixed = mi]
        BY <1>1, <1>6
      <3> HIDE DEF mi
      <3> QED BY <2>2, <3>1 DEF HistOK, HistRec
    <2>5. disk[fd] = <<>> \/ g.mixed
      <3>1. g.mixed = mi
        OBVIOUS
      <3> HIDE DEF g
      <3> QED BY <3>1
    <2> HIDE DEF g, mi, hd
    <2>6. Inv(disk, there, brc, kept, hd, cron, g)
      BY <1>4, <2>3, InvGrown
    <2>7. Page(hand[p].out, g) /\ Page(disk[fd], g)
      <3>1. Page(hand[p].out, hist)
        BY <1>2 DEF HandOK
      <3>2. Page(disk.file, g) /\ Page(disk.tmp, g)
        BY <2>6 DEF Inv
      <3> QED BY <2>1, <2>3, <3>1, <3>2, PageGrown
    <2>8. Page(new, g)
      BY <2>5, <2>7, OverPage
    <2>9. disk = [file |-> disk.file, tmp |-> disk.tmp, home |-> disk.home]
      BY DEF IInv, Inv
    <2> HIDE DEF new
    <2>10. /\ d = [file |-> d.file, tmp |-> d.tmp, home |-> d.home]
           /\ d.file \in {disk.file, new} /\ d.tmp \in {disk.tmp, new} /\ d.home = disk.home
      <3>1. CASE fd = "file"
        <4>1. d = [disk EXCEPT !.file = new]
          BY <3>1
        <4> HIDE DEF d
        <4> QED BY <2>9, <4>1
      <3>2. CASE fd = "tmp"
        <4>1. d = [disk EXCEPT !.tmp = new]
          BY <3>2
        <4> HIDE DEF d
        <4> QED BY <2>9, <4>1
      <3> QED BY <2>1, <3>1, <3>2
    <2> HIDE DEF d
    <2>11. Page(d.file, g) /\ Page(d.tmp, g) /\ Page(d.home, g)
      BY <2>6, <2>8, <2>10 DEF Inv
    <2>12. Inv(d, there, brc, kept, hd, cron, g)
      BY <2>6, <2>10, <2>11 DEF Inv
    <2>13. disk' = d
      BY <1>1, <1>6 DEF d, new
    <2>14. Inv(disk', there', brc', kept', hand', cron', hist')
      BY <1>1, <2>4, <2>12, <2>13
    <2> QED BY <2>14 DEF IInv
  <1> QED BY <1>5, <1>6

LEMMA RenameInv ==
  ASSUME IInv, NEW p \in Procs, Rename(p)
  PROVE  IInv'
  <1> DEFINE h == hand[p]
  <1>1. HandOK(h, hist, there, brc.web)
    BY DEF IInv, Inv
  <1>2. cron' = cron /\ hist' = hist
    BY DEF Rename
  <1>3. Inv(disk', there', brc, kept, hand', cron, hist)
    <2>1. CASE "tmp" \in there
      <3>1. /\ disk' = [disk EXCEPT !.file = disk.tmp, !.tmp = <<>>] /\ there' = {"file"}
            /\ hand' = [q \in Procs |->
                          IF q = p THEN Idle ELSE [hand[q] EXCEPT !.fd = Renamed(hand[q])]]
        BY <2>1 DEF Rename
      <3>2. ASSUME NEW q \in Procs PROVE HandOK(hand'[q], hist, {"file"}, brc.web)
        <4>1. CASE q = p
          BY <3>1, <4>1, IdleOK
        <4>2. CASE q # p
          <5>1. HandOK(hand[q], hist, there, brc.web)
            BY DEF IInv, Inv
          <5>2. Renamed(hand[q]) # "none" => hand[q].at = "write" /\ Renamed(hand[q]) \in {"file"}
            BY <5>1 DEF HandOK, Renamed
          <5>3. HandOK([hand[q] EXCEPT !.fd = Renamed(hand[q])], hist, {"file"}, brc.web)
            BY <5>1, <5>2, HandFd
          <5> QED BY <3>1, <4>2, <5>3
        <4> QED BY <4>1, <4>2
      <3>3. hand' = [q \in Procs |-> hand'[q]]
        BY <3>1
      <3>4. /\ disk' = [file |-> disk'.file, tmp |-> disk'.tmp, home |-> disk'.home]
            /\ disk'.file = disk.tmp /\ disk'.tmp = <<>> /\ disk'.home = disk.home
        <4>1. disk = [file |-> disk.file, tmp |-> disk.tmp, home |-> disk.home]
          BY DEF IInv, Inv
        <4> QED BY <3>1, <4>1
      <3>5. Page(disk'.file, hist) /\ Page(disk'.tmp, hist) /\ Page(disk'.home, hist)
        BY <3>4, EmptyPage DEF IInv, Inv
      <3> QED BY <3>1, <3>2, <3>3, <3>4, <3>5 DEF IInv, Inv
    <2>2. CASE "tmp" \notin there
      <3>1. hand' = [hand EXCEPT ![p] = Idle] /\ disk' = disk /\ there' = there
        BY <2>2 DEF Rename, Goes
      <3>2. HandOK(Idle, hist, there, brc.web)
        BY IdleOK
      <3>3. Inv(disk, there, brc, kept, [hand EXCEPT ![p] = Idle], cron, hist)
        BY <3>2, InvHand DEF IInv
      <3> QED BY <3>1, <3>3
    <2> QED BY <2>1, <2>2
  <1>4. CASE p # "telnet"
    <2>1. brc' = brc /\ kept' = kept
      BY <1>4 DEF Rename
    <2> QED BY <1>2, <1>3, <2>1 DEF IInv
  <1>5. CASE p = "telnet"
    <2>1. /\ brc' = IF h.next = NoBoard THEN brc
                    ELSE [brc EXCEPT !.telnet = Got(h.out, h.next)]
          /\ kept' = IF h.keep THEN [has |-> TRUE, cells |-> h.out]
                     ELSE [has |-> FALSE, cells |-> <<>>]
      BY <1>5 DEF Rename
    <2> HIDE DEF h
    <2>2. Page(h.out, hist) /\ h.next \in Boards \cup {NoBoard}
      BY <1>1 DEF HandOK
    <2>3. Page(kept'.cells, hist)
      <3>1. kept'.cells = h.out \/ kept'.cells = <<>>
        BY <2>1
      <3> QED BY <2>2, <3>1, EmptyPage
    <2>4. Inv(disk', there', brc', kept, hand', cron, hist)
      <3>1. CASE h.next = NoBoard
        BY <1>3, <2>1, <3>1
      <3>2. CASE h.next # NoBoard
        <4>1. MarkOK(Got(h.out, h.next), hist)
          BY <2>2, <3>2, GotOK
        <4>2. Inv(disk', there', [brc EXCEPT !.telnet = Got(h.out, h.next)], kept, hand', cron, hist)
          BY <1>3, <4>1, InvTelnet
        <4> QED BY <2>1, <3>2, <4>2
      <3> QED BY <3>1, <3>2
    <2>5. Inv(disk', there', brc', kept', hand', cron, hist)
      BY <2>3, <2>4, InvKept
    <2> QED BY <1>2, <2>5 DEF IInv
  <1> QED BY <1>4, <1>5

LEMMA KillInv ==
  ASSUME IInv, NEW p \in Procs, Kill(p)
  PROVE  IInv'
  <1>1. /\ hand' = [hand EXCEPT ![p] = Idle] /\ UNCHANGED <<disk, there, cron, hist>>
        /\ IF p = "telnet"
             THEN /\ brc' = [brc EXCEPT !.telnet = NoMarks]
                  /\ kept' = [has |-> FALSE, cells |-> <<>>]
             ELSE UNCHANGED <<brc, kept>>
    BY DEF Kill, Goes
  <1>2. HandOK(Idle, hist, there, brc.web) /\ MarkOK(NoMarks, hist)
    BY IdleOK
  <1>3. Inv(disk, there, brc, kept, hand', cron, hist)
    BY <1>1, <1>2, InvHand DEF IInv
  <1>4. CASE p # "telnet"
    BY <1>1, <1>3, <1>4 DEF IInv
  <1>5. CASE p = "telnet"
    <2>1. Inv(disk, there, brc', kept, hand', cron, hist)
      BY <1>1, <1>2, <1>3, <1>5, InvTelnet
    <2>2. Page(kept'.cells, hist)
      BY <1>1, <1>5, NoKept
    <2>3. Inv(disk, there, brc', kept', hand', cron, hist)
      BY <2>1, <2>2, InvKept
    <2> QED BY <1>1, <2>3 DEF IInv
  <1> QED BY <1>4, <1>5

-----------------------------------------------------------------------------
(* The steps of a telnet process                                           *)

LEMMA EnterInv ==
  ASSUME IInv, NEW b \in Boards, NEW keep \in BOOLEAN, Enter(b, keep)
  PROVE  IInv'
  <1> DEFINE m == brc.telnet
             cells == IF kept.has THEN kept.cells ELSE Visible
  <1>0. UNCHANGED <<disk, there, cron, hist>>
    BY DEF Enter
  <1>1. Page(cells, hist) /\ MarkOK(m, hist)
    BY VisiblePage DEF IInv, Inv
  <1>2. CASE m.board # b /\ m.changed
    <2>1. /\ hand' = [hand EXCEPT !["telnet"] = Saving(Visible, m, b, keep)]
          /\ brc' = [brc EXCEPT !.telnet = Saved(m)] /\ kept' = kept
      BY <1>2 DEF Enter, Goes
    <2>2. m.board # NoBoard
      BY <1>1, <1>2 DEF MarkOK
    <2>3. Inv(disk, there, brc', kept, hand', cron, hist)
      BY <2>1, <2>2, TelnetSaves
    <2> QED BY <1>0, <2>1, <2>3 DEF IInv
  <1>3. CASE ~(m.board # b /\ m.changed)
    <2>1. /\ brc' = IF m.board = b THEN brc ELSE [brc EXCEPT !.telnet = Got(cells, b)]
          /\ kept' = CASE ~keep -> [has |-> FALSE, cells |-> <<>>]
                       [] keep /\ m.board # b -> [has |-> TRUE, cells |-> cells]
                       [] OTHER -> kept
          /\ hand' = hand
      BY <1>3 DEF Enter
    <2>2. MarkOK(Got(cells, b), hist)
      BY <1>1, GotOK
    <2> HIDE DEF m, cells
    <2>3. Page(kept'.cells, hist)
      <3>1. CASE ~keep
        BY <2>1, <3>1, NoKept
      <3>2. CASE keep /\ m.board # b
        <4>1. kept'.cells = cells
          BY <2>1, <3>2
        <4> QED BY <1>1, <4>1
      <3>3. CASE keep /\ m.board = b
        <4>1. kept' = kept
          BY <2>1, <3>3
        <4> QED BY <4>1 DEF IInv, Inv
      <3> QED BY <3>1, <3>2, <3>3
    <2>4. Inv(disk, there, brc', kept, hand, cron, hist)
      <3>1. CASE m.board = b
        BY <2>1, <3>1 DEF IInv
      <3>2. CASE m.board # b
        <4>1. Inv(disk, there, [brc EXCEPT !.telnet = Got(cells, b)], kept, hand, cron, hist)
          BY <2>2, InvTelnet DEF IInv
        <4> QED BY <2>1, <3>2, <4>1
      <3> QED BY <3>1, <3>2
    <2>5. Inv(disk, there, brc', kept', hand, cron, hist)
      BY <2>3, <2>4, InvKept
    <2> QED BY <1>0, <2>1, <2>5 DEF IInv
  <1> QED BY <1>2, <1>3

LEMMA LookInv ==
  ASSUME IInv, NEW t \in Times, Look(t)
  PROVE  IInv'
  <1> DEFINE m == brc.telnet
             g == Saw(m.marks, m.board, t)
  <1>1. /\ m.board # NoBoard /\ brc' = [brc EXCEPT !.telnet = Marked(m, t)] /\ hist' = g
        /\ UNCHANGED <<disk, there, kept, hand, cron>>
    BY DEF Look
  <1>2. MarkOK(m, hist) /\ HistOK(hist)
    BY DEF IInv, Inv
  <1>3. m.board \in Boards /\ Fine(m.marks)
    BY <1>1, <1>2 DEF MarkOK
  <1>4. /\ Grown(hist, g) /\ <<m.board, t>> \in g.seen
        /\ Unread(m.marks, t) /\ Len(m.marks) = MaxNum
             => Last(Insert(m.marks, t)) <= g.aged[m.board]
    BY <1>2, <1>3, SawGrown
  <1> HIDE DEF m, g
  <1>5. MarkOK(Marked(m, t), g)
    BY <1>1, <1>2, <1>4, MarkedOK
  <1>6. Inv(disk, there, brc, kept, hand, cron, g)
    BY <1>4, InvGrown DEF IInv
  <1>7. Inv(disk, there, [brc EXCEPT !.telnet = Marked(m, t)], kept, hand, cron, g)
    BY <1>5, <1>6, InvTelnet
  <1>8. Inv(disk', there', brc', kept', hand', cron', hist')
    BY <1>1, <1>7
  <1> QED BY <1>8 DEF IInv

LEMMA ClearToInv ==
  ASSUME IInv, NEW t \in Times, ClearTo(t)
  PROVE  IInv'
  <1> DEFINE m == brc.telnet
             g == SawTo(m.board, t)
  <1>1. /\ m.board # NoBoard /\ brc' = [brc EXCEPT !.telnet = Wiped(m, t)] /\ hist' = g
        /\ UNCHANGED <<disk, there, kept, hand, cron>>
    BY DEF ClearTo
  <1>2. MarkOK(m, hist) /\ HistOK(hist)
    BY DEF IInv, Inv
  <1>3. m.board \in Boards
    BY <1>1, <1>2 DEF MarkOK
  <1>4. Grown(hist, g) /\ \A s \in Times : s <= t => <<m.board, s>> \in g.seen
    BY <1>2, <1>3, SawToGrown
  <1> HIDE DEF m, g
  <1>5. MarkOK(Wiped(m, t), g)
    BY <1>1, <1>2, <1>4, WipedOK
  <1>6. Inv(disk, there, brc, kept, hand, cron, g)
    BY <1>4, InvGrown DEF IInv
  <1>7. Inv(disk, there, [brc EXCEPT !.telnet = Wiped(m, t)], kept, hand, cron, g)
    BY <1>5, <1>6, InvTelnet
  <1>8. Inv(disk', there', brc', kept', hand', cron', hist')
    BY <1>1, <1>7
  <1> QED BY <1>8 DEF IInv

LEMMA UpdateInv ==
  ASSUME IInv, Update
  PROVE  IInv'
  <1>1. /\ hand' = [hand EXCEPT !["telnet"] = Saving(Visible, brc.telnet, NoBoard, kept.has)]
        /\ brc' = [brc EXCEPT !.telnet = Saved(brc.telnet)]
        /\ brc.telnet.changed /\ UNCHANGED <<disk, there, kept, cron, hist>>
    BY DEF Update, Goes
  <1>2. brc.telnet.board # NoBoard
    BY <1>1 DEF IInv, Inv, MarkOK
  <1>3. Inv(disk, there, brc', kept, hand', cron, hist)
    BY <1>1, <1>2, TelnetSaves
  <1> QED BY <1>1, <1>3 DEF IInv

LEMMA ListInv ==
  ASSUME IInv, List
  PROVE  IInv'
  <1>0. UNCHANGED <<disk, there, cron, hist>>
    BY DEF List
  <1>1. CASE brc.telnet.changed
    <2>1. /\ hand' = [hand EXCEPT !["telnet"] = Saving(Visible, brc.telnet, NoBoard, TRUE)]
          /\ brc' = [brc EXCEPT !.telnet = Saved(brc.telnet)] /\ kept' = kept
      BY <1>1 DEF List, Goes
    <2>2. brc.telnet.board # NoBoard
      BY <1>1 DEF IInv, Inv, MarkOK
    <2>3. Inv(disk, there, brc', kept, hand', cron, hist)
      BY <2>1, <2>2, TelnetSaves
    <2> QED BY <1>0, <2>1, <2>3 DEF IInv
  <1>2. CASE ~brc.telnet.changed
    <2>1. kept' = [has |-> TRUE, cells |-> Visible] /\ hand' = hand /\ brc' = brc
      BY <1>2 DEF List
    <2>2. Page(kept'.cells, hist)
      BY <2>1, VisiblePage
    <2>3. Inv(disk, there, brc, kept', hand, cron, hist)
      BY <2>2, InvKept DEF IInv
    <2> QED BY <1>0, <2>1, <2>3 DEF IInv
  <1> QED BY <1>1, <1>2

LEMMA EndListInv ==
  ASSUME IInv, EndList
  PROVE  IInv'
  <1>1. /\ kept' = [has |-> FALSE, cells |-> <<>>]
        /\ UNCHANGED <<disk, there, brc, hand, cron, hist>>
    BY DEF EndList
  <1>2. Page(kept'.cells, hist)
    BY <1>1, NoKept
  <1>3. Inv(disk, there, brc, kept', hand, cron, hist)
    BY <1>2, InvKept DEF IInv
  <1> QED BY <1>1, <1>3 DEF IInv

-----------------------------------------------------------------------------
(* The steps of the CGIs and of the API                                    *)

Reading(k, h, v, c) == k = [h EXCEPT !.has = v, !.read = c]

LEMMA HandReads ==
  ASSUME NEW h, HandRec(h), NEW v, NEW c, NEW k, Reading(k, h, v, c)
  PROVE  /\ HandRec(k) /\ k.at = h.at /\ k.read = c /\ k.out = h.out /\ k.fd = h.fd
         /\ k.next = h.next
  <1> DEFINE z == [h EXCEPT !.has = v]
  <1>1. k = [z EXCEPT !.read = c]
    BY DEF Reading
  <1>2. HandRec(z) /\ z.at = h.at /\ z.out = h.out /\ z.fd = h.fd /\ z.next = h.next
    BY DEF HandRec
  <1> HIDE DEF z
  <1>3. /\ HandRec(k) /\ k.at = z.at /\ k.read = c /\ k.out = z.out /\ k.fd = z.fd
        /\ k.next = z.next
    BY ONLY <1>1, <1>2 DEF HandRec
  <1> QED BY <1>2, <1>3

LEMMA RequestInv ==
  ASSUME IInv, NEW w \in Requests, NEW b \in Boards, Request(w, b)
  PROVE  IInv'
  <1> DEFINE h == [Idle EXCEPT !.at = "marking", !.board = b]
             k == [h EXCEPT !.has = TRUE, !.read = Visible]
  <1>0. UNCHANGED <<disk, there, kept, cron, hist>> /\ b # NoBoard /\ w \in Procs
    BY ProcsAre, MarksAssumption DEF Request, Names
  <1>1. Idle.read = <<>> /\ Idle.out = <<>> /\ Idle.fd = "none" /\ Idle.next = NoBoard /\ HandRec(Idle)
    BY DEF Idle, HandRec
  <1>2. /\ HandRec(h) /\ h.at = "marking" /\ h.read = <<>> /\ h.out = <<>> /\ h.fd = "none"
        /\ h.next = NoBoard
    <2> DEFINE z == [Idle EXCEPT !.at = "marking"]
    <2>1. h = [z EXCEPT !.board = b]
      OBVIOUS
    <2>2. /\ HandRec(z) /\ z.at = "marking" /\ z.read = <<>> /\ z.out = <<>> /\ z.fd = "none"
          /\ z.next = NoBoard
      BY <1>1 DEF HandRec
    <2> HIDE DEF z, h
    <2> QED BY <2>1, <2>2 DEF HandRec
  <1>3. /\ HandRec(k) /\ k.at = "marking" /\ k.read = Visible /\ k.out = <<>> /\ k.fd = "none"
        /\ k.next = NoBoard
    <2> HIDE DEF h
    <2>1. HandRec(h) /\ h.at = "marking" /\ h.out = <<>> /\ h.fd = "none" /\ h.next = NoBoard
      BY <1>2
    <2> DEFINE v == TRUE
               c == Visible
    <2>2. Reading(k, h, v, c)
      BY DEF Reading
    <2> HIDE DEF k, v, c
    <2>3. /\ HandRec(k) /\ k.at = h.at /\ k.read = c /\ k.out = h.out /\ k.fd = h.fd
          /\ k.next = h.next
      BY <2>1, <2>2, HandReads
    <2> QED BY <2>1, <2>3 DEF c
  <1>4. CASE brc.web.board = b
    <2>1. hand' = [hand EXCEPT ![w] = h] /\ brc' = brc
      BY <1>4 DEF Request, Goes
    <2> HIDE DEF h
    <2>2. HandOK(h, hist, there, brc.web)
      BY <1>0, <1>2, <1>4, EmptyPage DEF HandOK, Saves
    <2>3. Inv(disk, there, brc, kept, hand', cron, hist)
      BY <1>0, <2>1, <2>2, InvHand DEF IInv
    <2> QED BY <1>0, <2>1, <2>3 DEF IInv
  <1>5. CASE brc.web.board # b
    <2>1. hand' = [hand EXCEPT ![w] = k] /\ brc' = [brc EXCEPT !.web = Got(Visible, b)]
      BY <1>5 DEF Request, Goes
    <2> HIDE DEF h, k
    <2>2. Page(Visible, hist)
      BY VisiblePage
    <2>3. MarkOK(Got(Visible, b), hist) /\ Got(Visible, b).board = b
      BY <2>2, GotOK
    <2>4. Inv(disk, there, brc', kept, hand, cron, hist)
      BY <1>0, <2>1, <2>3, InvWeb DEF IInv
    <2>5. brc'.web = Got(Visible, b)
      <3>1. brc = [telnet |-> brc.telnet, web |-> brc.web]
        BY DEF IInv, Inv
      <3> QED BY <2>1, <3>1
    <2>6. HandOK(k, hist, there, brc'.web)
      BY <1>0, <1>3, <2>2, <2>3, <2>5, EmptyPage DEF HandOK, Saves
    <2>7. Inv(disk, there, brc', kept, hand', cron, hist)
      BY <1>0, <2>1, <2>4, <2>6, InvHand
    <2> QED BY <1>0, <2>7 DEF IInv
  <1> QED BY <1>4, <1>5

LEMMA ShowInv ==
  ASSUME IInv, NEW w \in Requests, NEW t \in Times, Show(w, t)
  PROVE  IInv'
  <1> DEFINE m == brc.web
             s == Saw(m.marks, m.board, t)
             g == Crossing(w, s, {t})
  <1>1. /\ hand[w].at = "marking" /\ brc' = [brc EXCEPT !.web = Marked(m, t)] /\ hist' = g
        /\ UNCHANGED <<disk, there, kept, hand, cron>>
    BY DEF Show
  <1>2. MarkOK(m, hist) /\ HistOK(hist) /\ m.board # NoBoard
    BY <1>1, ProcsAre DEF IInv, Inv, HandOK
  <1>3. m.board \in Boards /\ Fine(m.marks)
    BY <1>2 DEF MarkOK
  <1>4. /\ Grown(hist, s)
        /\ Unread(m.marks, t) /\ Len(m.marks) = MaxNum
             => Last(Insert(m.marks, t)) <= s.aged[m.board]
    BY <1>2, <1>3, SawGrown
  <1> HIDE DEF s
  <1>5. /\ Grown(hist, g) /\ g.aged = s.aged
        /\ m.board \in g.crossed \/ \A u \in {t} : <<m.board, u>> \in g.seen
    BY <1>2, <1>4, CrossingGrown
  <1> HIDE DEF m, g
  <1>6. MarkOK(Marked(m, t), g) /\ Marked(m, t).board = m.board
    BY <1>2, <1>4, <1>5, MarkedOK
  <1>7. Inv(disk, there, brc, kept, hand, cron, g)
    BY <1>5, InvGrown DEF IInv
  <1>8. Inv(disk, there, [brc EXCEPT !.web = Marked(m, t)], kept, hand, cron, g)
    BY <1>2, <1>6, <1>7, InvWeb
  <1>9. Inv(disk', there', brc', kept', hand', cron', hist')
    BY <1>1, <1>8
  <1> QED BY <1>9 DEF IInv

LEMMA ClearInv ==
  ASSUME IInv, NEW w \in Requests, Clear(w)
  PROVE  IInv'
  <1> DEFINE m == brc.web
             t == CHOOSE s \in Times : \A u \in Times : u <= s
             ts == {s \in Times : s <= t}
             g == Crossing(w, hist, ts)
  <1>1. /\ hand[w].at = "marking" /\ brc' = [brc EXCEPT !.web = Wiped(m, t)] /\ hist' = g
        /\ UNCHANGED <<disk, there, kept, hand, cron>>
    BY DEF Clear
  <1>2. MarkOK(m, hist) /\ HistOK(hist) /\ m.board # NoBoard
    BY <1>1, ProcsAre DEF IInv, Inv, HandOK
  <1>3. t \in Times
    BY LastTime
  <1>4. Grown(hist, hist)
    BY <1>2 DEF Grown, HistOK, HistRec
  <1>5. \A s \in Times : s <= t => s \in ts
    OBVIOUS
  <1> HIDE DEF t, ts
  <1>6. /\ Grown(hist, g)
        /\ m.board \in g.crossed \/ \A u \in ts : <<m.board, u>> \in g.seen
    BY <1>2, <1>4, CrossingGrown
  <1> HIDE DEF m, g
  <1>7. MarkOK(Wiped(m, t), g) /\ Wiped(m, t).board = m.board
    BY <1>2, <1>3, <1>5, <1>6, WipedOK
  <1>8. Inv(disk, there, brc, kept, hand, cron, g)
    BY <1>6, InvGrown DEF IInv
  <1>9. Inv(disk, there, [brc EXCEPT !.web = Wiped(m, t)], kept, hand, cron, g)
    BY <1>2, <1>7, <1>8, InvWeb
  <1>10. Inv(disk', there', brc', kept', hand', cron', hist')
    BY <1>1, <1>9
  <1> QED BY <1>10 DEF IInv

LEMMA EndRequestInv ==
  ASSUME IInv, NEW w \in Requests, EndRequest(w)
  PROVE  IInv'
  <1> DEFINE cells == IF hand[w].has THEN hand[w].read ELSE Visible
  <1>0. /\ UNCHANGED <<disk, there, kept, cron, hist>> /\ w \in Procs /\ hand[w].at = "marking"
    BY ProcsAre DEF EndRequest
  <1>1. MarkOK(brc.web, hist) /\ brc.web.board # NoBoard /\ Page(hand[w].read, hist)
    BY <1>0 DEF IInv, Inv, HandOK
  <1>2. Page(cells, hist)
    BY <1>1, VisiblePage
  <1>3. CASE brc.web.changed
    <2> DEFINE x == Saving(cells, brc.web, NoBoard, FALSE)
               br == [brc EXCEPT !.web = Saved(brc.web)]
    <2>1. hand' = [hand EXCEPT ![w] = x] /\ brc' = br
      BY <1>3 DEF EndRequest, Goes
    <2> HIDE DEF cells
    <2>2. HandOK(x, hist, there, br.web) /\ MarkOK(Saved(brc.web), hist)
      BY <1>1, <1>2, SavingOK
    <2>3. Saved(brc.web).board = brc.web.board
      BY DEF Saved
    <2>4. Inv(disk, there, br, kept, hand, cron, hist)
      BY <1>1, <2>2, <2>3, InvWeb DEF IInv
    <2> HIDE DEF x, br
    <2>5. Inv(disk, there, br, kept, [hand EXCEPT ![w] = x], cron, hist)
      BY <1>0, <2>2, <2>4, InvHand
    <2>6. Inv(disk', there', brc', kept', hand', cron', hist')
      BY <1>0, <2>1, <2>5
    <2> QED BY <2>6 DEF IInv
  <1>4. CASE ~brc.web.changed
    <2>1. hand' = [hand EXCEPT ![w] = Idle] /\ brc' = brc
      BY <1>4 DEF EndRequest, Goes
    <2>2. HandOK(Idle, hist, there, brc.web)
      BY IdleOK
    <2>3. Inv(disk, there, brc, kept, hand', cron, hist)
      BY <1>0, <2>1, <2>2, InvHand DEF IInv
    <2> QED BY <1>0, <2>1, <2>3 DEF IInv
  <1> QED BY <1>3, <1>4

\* The API saves these marks of the board.
LEMMA ApiSaves ==
  ASSUME NEW g, Inv(disk, there, brc, kept, hand, cron, g), NEW b \in Boards, NEW n,
         Fine(n), Just(g, b, n), b \in g.wild \/ Covers(n, MarksOf(Visible, b))
  PROVE  Inv(disk, there, brc, kept,
             [hand EXCEPT !["api"] =
                Saving(Visible, [Got(Visible, b) EXCEPT !.marks = n], NoBoard, FALSE)], cron, g)
  <1> DEFINE m == [Got(Visible, b) EXCEPT !.marks = n]
             x == Saving(Visible, m, NoBoard, FALSE)
  <1>1. Page(Visible, g)
    BY DEF Inv, Visible
  <1> DEFINE o == Got(Visible, b)
  <1>2. MarkOK(o, g) /\ o.board = b /\ b # NoBoard
    BY <1>1, GotOK
  <1>3. m = [o EXCEPT !.marks = n] /\ o.base = MarksOf(Visible, b)
    BY DEF Got
  <1> HIDE DEF m, o
  <1>4. MarkOK(m, g) /\ m.board # NoBoard
    <2>1. m = [board |-> o.board, marks |-> n, changed |-> o.changed, base |-> o.base]
      BY <1>2, <1>3 DEF MarkOK
    <2>2. m.board = b /\ m.marks = n /\ m.base = o.base /\ m.changed = o.changed
      BY <1>2, <2>1
    <2>3. b \in g.wild \/ Covers(n, o.base)
      BY <1>3
    <2> QED BY <1>2, <2>1, <2>2, <2>3 DEF MarkOK
  <1>5. HandOK(x, g, there, brc.web)
    BY <1>1, <1>4, SavingOK
  <1> HIDE DEF x
  <1>6. Inv(disk, there, brc, kept, [hand EXCEPT !["api"] = x], cron, g)
    BY <1>5, InvHand, ProcsAre
  <1> QED BY <1>6 DEF x, m

LEMMA FetchInv ==
  ASSUME IInv, NEW b \in Boards, NEW t \in Times, Fetch(b, t)
  PROVE  IInv'
  <1> DEFINE m == MarksOf(Visible, b)
             g == Saw(m, b, t)
             n == Insert(m, t)
  <1>0. UNCHANGED <<disk, there, brc, kept, cron>>
    BY DEF Fetch
  <1>1. /\ hist' = g
        /\ IF Unread(m, t)
             THEN hand' = [hand EXCEPT !["api"] =
                    Saving(Visible, [Got(Visible, b) EXCEPT !.marks = n], NoBoard, FALSE)]
             ELSE hand' = hand
    <2>1. Got(Visible, b).marks = m
      BY DEF Got
    <2> QED BY <2>1 DEF Fetch, Goes
  <1>2. Fine(m) /\ Just(hist, b, m) /\ HistOK(hist)
    BY VisiblePage, MarksOfOK DEF IInv, Inv
  <1>3. /\ Grown(hist, g) /\ <<b, t>> \in g.seen
        /\ Unread(m, t) /\ Len(m) = MaxNum => Last(n) <= g.aged[b]
    BY <1>2, SawGrown
  <1> HIDE DEF m, g
  <1>4. Inv(disk, there, brc, kept, hand, cron, g)
    BY <1>3, InvGrown DEF IInv
  <1>5. CASE ~Unread(m, t)
    BY <1>0, <1>1, <1>4, <1>5 DEF IInv
  <1>6. CASE Unread(m, t)
    <2>1. Fine(n) /\ Just(g, b, n) /\ Covers(n, MarksOf(Visible, b))
      <3>1. Fine(n) /\ Just(g, b, n) /\ Covers(n, m)
        BY <1>2, <1>3, InsertOK
      <3> HIDE DEF n
      <3> QED BY <3>1 DEF m
    <2> HIDE DEF n
    <2>2. Inv(disk, there, brc, kept,
             [hand EXCEPT !["api"] =
                Saving(Visible, [Got(Visible, b) EXCEPT !.marks = n], NoBoard, FALSE)], cron, g)
      BY <1>4, <2>1, ApiSaves
    <2>3. Inv(disk, there, brc, kept, hand', cron, g)
      BY <1>1, <1>6, <2>2
    <2> QED BY <1>0, <1>1, <2>3 DEF IInv
  <1> QED BY <1>5, <1>6

\* A call wrote over its own memory: of what it left nothing is said.
Wrecked == HistRec(hist) /\ hist.wrecked

LEMMA FetchWildInv ==
  ASSUME IInv, NEW b \in Boards, FetchWild(b)
  PROVE  IInv' \/ Wrecked'
  <1>0. UNCHANGED <<disk, there, brc, kept, cron>>
    BY DEF FetchWild
  <1>1. CASE UNCHANGED <<hand, hist>>
    BY <1>0, <1>1 DEF IInv
  <1>2. ASSUME NEW junk \in Junk, NEW name \in {b} \cup Garbled,
               NEW more, more = <<junk>> \o MarksOf(Visible, b),
               NEW n, n = IF Len(more) > MaxNum THEN SubSeq(more, 1, MaxNum) ELSE more,
               hand' = [hand EXCEPT !["api"] =
                 Saving(Visible, [Got(Visible, name) EXCEPT !.marks = n], NoBoard, FALSE)],
               hist' = [hist EXCEPT !.wild = @ \cup {name}]
        PROVE  IInv'
    <2> DEFINE wi == hist.wild \cup {name}
               g == [seen |-> hist.seen, aged |-> hist.aged, mixed |-> hist.mixed,
                     wild |-> wi, wrecked |-> hist.wrecked, crossed |-> hist.crossed]
               m == [Got(Visible, name) EXCEPT !.marks = n]
               x == Saving(Visible, m, NoBoard, FALSE)
               q == Coded(Shorter(n))
    <2>1. name \in Names /\ junk \in Int
      BY MarksAssumption DEF Names
    <2>2. HistOK(hist) /\ hist.wild \subseteq wi /\ name \in wi
      BY DEF IInv, Inv
    <2>3. hist' = [hist EXCEPT !.wild = wi]
      BY <1>2
    <2> HIDE DEF wi
    <2>4. Grown(hist, g)
      BY <2>2, WiderGrown
    <2>5. hist' = g
      BY <2>2, <2>3 DEF HistOK, HistRec
    <2>6. name \in g.wild
      BY <2>2
    <2> HIDE DEF g
    <2>7. Inv(disk, there, brc, kept, hand, cron, g)
      BY <2>4, InvGrown DEF IInv
    <2>8. Page(Visible, g) /\ Fine(MarksOf(Visible, b))
      BY <2>7, MarksOfOK DEF Inv, Visible
    <2>9. Fine(q)
      BY <1>2, <2>1, <2>8, JunkFine
    <2>10. Just(g, name, q)
      BY <2>6 DEF Just
    <2>11. m.board = name /\ m.marks = n
      BY DEF Got
    <2> HIDE DEF m, q
    <2>12. m.board \in Names /\ q = Coded(Shorter(m.marks)) /\ m.board \in g.wild /\ Just(g, m.board, q)
      BY <2>1, <2>6, <2>10, <2>11 DEF q
    <2>13. HandOK(x, g, there, brc.web)
      BY <2>8, <2>9, <2>12, SavingHand
    <2>14. hand' = [hand EXCEPT !["api"] = x]
      BY <1>2 DEF m
    <2> HIDE DEF x
    <2>15. Inv(disk, there, brc, kept, [hand EXCEPT !["api"] = x], cron, g)
      BY <2>7, <2>13, InvHand, ProcsAre
    <2> QED BY <1>0, <2>5, <2>14, <2>15 DEF IInv
  <1>3. ASSUME hist' = [hist EXCEPT !.wrecked = TRUE] PROVE Wrecked'
    <2>1. HistRec(hist)
      BY DEF IInv, Inv, HistOK
    <2> DEFINE yes == TRUE
    <2>2. hist' = [hist EXCEPT !.wrecked = yes] /\ yes
      BY <1>3
    <2> HIDE DEF yes
    <2>3. HistRec(hist') /\ hist'.wrecked = yes
      BY <2>1, <2>2 DEF HistRec
    <2> QED BY <2>2, <2>3 DEF Wrecked, HistRec
  <1> QED BY <1>1, <1>2, <1>3 DEF FetchWild, Goes

-----------------------------------------------------------------------------
(* The cron job                                                            *)

LEMMA CopyInv ==
  ASSUME IInv, Copy
  PROVE  IInv'
  <1>1. /\ disk' = [disk EXCEPT !.home = disk.file] /\ cron' = "copied"
        /\ UNCHANGED <<there, brc, kept, hand, hist>>
    BY DEF Copy
  <1>2. disk = [file |-> disk.file, tmp |-> disk.tmp, home |-> disk.home]
    BY DEF IInv, Inv
  <1>3. /\ disk' = [file |-> disk'.file, tmp |-> disk'.tmp, home |-> disk'.home]
        /\ disk'.file = disk.file /\ disk'.tmp = disk.tmp /\ disk'.home = disk.file
    BY <1>1, <1>2
  <1> QED BY <1>1, <1>3 DEF IInv, Inv

LEMMA UnlinkInv ==
  ASSUME IInv, Unlink
  PROVE  IInv'
  <1>1. /\ disk' = [disk EXCEPT !.file = <<>>] /\ cron' = "idle" /\ there' = there \ {"file"}
        /\ hand' = [p \in Procs |-> IF hand[p].fd = "file" THEN [hand[p] EXCEPT !.fd = "none"]
                                    ELSE hand[p]]
        /\ UNCHANGED <<brc, kept, hist>>
    BY DEF Unlink
  <1>2. disk = [file |-> disk.file, tmp |-> disk.tmp, home |-> disk.home]
    BY DEF IInv, Inv
  <1>3. /\ disk' = [file |-> disk'.file, tmp |-> disk'.tmp, home |-> disk'.home]
        /\ disk'.file = <<>> /\ disk'.tmp = disk.tmp /\ disk'.home = disk.home
    BY <1>1, <1>2
  <1>4. Page(disk'.file, hist) /\ Page(disk'.tmp, hist) /\ Page(disk'.home, hist)
    BY <1>3, EmptyPage DEF IInv, Inv
  <1>5. ASSUME NEW p \in Procs PROVE HandOK(hand'[p], hist, there', brc.web)
    <2>1. HandOK(hand[p], hist, there, brc.web)
      BY DEF IInv, Inv
    <2>2. CASE hand[p].fd = "file"
      <3>1. HandOK([hand[p] EXCEPT !.fd = "none"], hist, there', brc.web)
        BY <2>1, HandFd
      <3> QED BY <1>1, <2>2, <3>1
    <2>3. CASE hand[p].fd # "file"
      <3>1. hand'[p] = hand[p]
        BY <1>1, <2>3
      <3>2. HandOK(hand[p], hist, there', brc.web)
        BY <1>1, <2>1, <2>3 DEF HandOK
      <3> QED BY <3>1, <3>2
    <2> QED BY <2>2, <2>3
  <1>6. hand' = [p \in Procs |-> hand'[p]]
    BY <1>1
  <1> QED BY <1>1, <1>3, <1>4, <1>5, <1>6 DEF IInv, Inv

LEMMA SweepInv ==
  ASSUME IInv, Sweep
  PROVE  IInv'
  <1>1. /\ disk' = [disk EXCEPT !.tmp = <<>>] /\ there' = there \ {"tmp"}
        /\ \A p \in Procs : hand[p].at # "write"
        /\ UNCHANGED <<brc, kept, hand, cron, hist>>
    BY DEF Sweep
  <1>2. disk = [file |-> disk.file, tmp |-> disk.tmp, home |-> disk.home]
    BY DEF IInv, Inv
  <1>3. /\ disk' = [file |-> disk'.file, tmp |-> disk'.tmp, home |-> disk'.home]
        /\ disk'.file = disk.file /\ disk'.tmp = <<>> /\ disk'.home = disk.home
    BY <1>1, <1>2
  <1>4. Page(disk'.file, hist) /\ Page(disk'.tmp, hist) /\ Page(disk'.home, hist)
    BY <1>3, EmptyPage DEF IInv, Inv
  <1>5. ASSUME NEW p \in Procs PROVE HandOK(hand[p], hist, there', brc.web)
    <2>1. HandOK(hand[p], hist, there, brc.web)
      BY DEF IInv, Inv
    <2> QED BY <1>1, <2>1 DEF HandOK
  <1> QED BY <1>1, <1>3, <1>4, <1>5 DEF IInv, Inv

-----------------------------------------------------------------------------
(* What was read and is unread again                                       *)

\* The marks of a board are those of some record of it.
LEMMA MarksAre ==
  ASSUME NEW c, Sheet(c), NEW b,
         NEW k \in 1 .. Len(Records(c)), Records(c)[k].board = b
  PROVE  \E i \in 1 .. Len(Records(c)) :
           Records(c)[i].board = b /\ MarksOf(c, b) = Records(c)[i].marks
  <1> DEFINE recs == Records(c)
             mine == {i \in DOMAIN recs : recs[i].board = b}
  <1>1. recs \in Seq(Cell)
    BY ParsedGood DEF Good, Records
  <1>2. DOMAIN recs = 1 .. Len(recs) /\ mine \in SUBSET Nat /\ mine # {}
    BY <1>1
  <1>3. PICK i \in mine : \A j \in mine : i <= j
    <2> HIDE DEF mine
    <2> QED BY <1>2, LeastNat
  <1>4. Min(mine) \in mine
    BY <1>3 DEF Min
  <1>5. MarksOf(c, b) = recs[Min(mine)].marks
    BY <1>2 DEF MarksOf
  <1> QED BY <1>2, <1>4, <1>5

\* Nothing is read where there is no record.
LEMMA NoneRead ==
  ASSUME NEW c, Sheet(c), NEW b, \A i \in 1 .. Len(Records(c)) : Records(c)[i].board # b,
         NEW t \in Times
  PROVE  ~ReadBy(MarksOf(c, b), t)
  <1>1. Records(c) \in Seq(Cell)
    BY ParsedGood DEF Good, Records
  <1>2. DOMAIN Records(c) = 1 .. Len(Records(c))
    <2> DEFINE recs == Records(c)
    <2> HIDE DEF recs
    <2>1. DOMAIN recs = 1 .. Len(recs)
      BY <1>1 DEF recs
    <2> QED BY <2>1 DEF recs
  <1>3. MarksOf(c, b) = <<1>>
    BY <1>2 DEF MarksOf
  <1> DEFINE o == <<1>>
  <1>4. Len(o) = 1 /\ o[1] = 1 /\ \A i \in 1 .. 1 : i = 1
    OBVIOUS
  <1> HIDE DEF o
  <1>5. t \in Nat /\ t # 1 /\ ~(t < 1)
    BY MarksAssumption
  <1>6. ~ReadBy(o, t)
    BY <1>4, <1>5 DEF ReadBy
  <1> QED BY <1>3, <1>6 DEF o

\* In what brc_putboard makes of a file the marks of the board are the new ones,
\* and those of another one are its old ones, if there was room for them.
LEMMA PutMarks ==
  ASSUME NEW c, Sheet(c), Distinct(Records(c)), NEW b \in Names, NEW m,
         Fine(Coded(Shorter(m))),
         NEW x
  PROVE  LET o == Put(c, b, m)
         IN  /\ x = b => MarksOf(o, x) = Coded(Shorter(m))
             /\ x # b /\ (\E i \in 1 .. Len(Records(c)) : Records(c)[i].board = x)
                      /\ (\E i \in 1 .. Len(Records(o)) : Records(o)[i].board = x)
                  => MarksOf(o, x) = MarksOf(c, x)
  <1> DEFINE o == Put(c, b, m)
             r == [board |-> b, marks |-> Coded(Shorter(m))]
             recs == Records(c)
             new == Records(o)
             n == Len(Records(c))
  <1>1. Sheet(o) /\ Made(b, r, recs, n, new)
    BY PutFile
  <1>0. n = Len(recs) /\ recs = Records(c) /\ new = Records(o) /\ r.board = b /\ r.marks = Coded(Shorter(m))
    OBVIOUS
  <1> HIDE DEF o, r, recs, new, n
  <1>2. CASE x = b
    <2>1. PICK k \in 1 .. Len(new) : new[k] = r
      BY <1>1 DEF Made
    <2>2. PICK i \in 1 .. Len(new) : new[i].board = b /\ MarksOf(o, b) = new[i].marks
      BY <1>0, <1>1, <2>1, MarksAre
    <2>3. new[i] = r
      BY <1>1, <2>2 DEF Made
    <2> QED BY <1>0, <1>2, <2>2, <2>3 DEF o
  <1>3. ASSUME x # b, NEW k \in 1 .. n, recs[k].board = x,
               NEW l \in 1 .. Len(new), new[l].board = x
        PROVE  MarksOf(o, x) = MarksOf(c, x)
    <2>1. PICK i \in 1 .. Len(new) : new[i].board = x /\ MarksOf(o, x) = new[i].marks
      BY <1>0, <1>1, <1>3, MarksAre
    <2>2. PICK h \in 1 .. n : recs[h].board = x /\ MarksOf(c, x) = recs[h].marks
      BY <1>0, <1>3, MarksAre
    <2>3. new[i] # r
      BY <1>0, <1>3, <2>1
    <2>4. PICK j \in 1 .. n : new[i] = recs[j]
      BY <1>1, <2>3 DEF Made
    <2>5. j = h
      BY <1>0, <2>1, <2>2, <2>4 DEF Distinct
    <2> QED BY <2>1, <2>2, <2>4, <2>5
  <1> QED BY <1>0, <1>2, <1>3 DEF o

\* A post of b that counts as read in the file c and as unread in d.
Loses(c, d, b) == \E t \in Times : ~Unread(MarksOf(c, b), t) /\ Unread(MarksOf(d, b), t)

LEMMA CoversKeep ==
  ASSUME NEW g, NEW c, Page(c, g), NEW h, NEW d, Page(d, h), NEW b \in Boards,
         Covers(MarksOf(d, b), MarksOf(c, b))
  PROVE  ~Loses(c, d, b)
  <1>1. Fine(MarksOf(c, b)) /\ Fine(MarksOf(d, b))
    BY MarksOfOK
  <1>2. \A t \in Times : t \in Nat
    BY MarksAssumption
  <1>3. \A t \in Times : /\ Unread(MarksOf(c, b), t) <=> ~ReadBy(MarksOf(c, b), t)
                         /\ Unread(MarksOf(d, b), t) <=> ~ReadBy(MarksOf(d, b), t)
    BY <1>1, <1>2, UnreadIs
  <1> QED BY <1>3 DEF Loses, Covers

\* A save that nobody else's came in between keeps what was read.
LEMMA SaveKeeps ==
  ASSUME IInv, NEW p \in Procs, hand[p].at \in Saves, ~hist.mixed,
         NEW b \in Boards, b \notin hist.wild, ~Outdated(p, b), ~Dropped(p, b)
  PROVE  Covers(MarksOf(hand[p].out, b), MarksOf(Visible, b))
  <1> DEFINE h == hand[p]
             c == h.read
             o == h.out
             x == h.board
  <1>1. HandOK(h, hist, there, brc.web) /\ SaveOK(h, hist)
    BY DEF IInv, Inv, HandOK
  <1>2. Page(c, hist) /\ Page(o, hist) /\ Sheet(c) /\ Sheet(o) /\ Distinct(Records(c))
    BY <1>1 DEF HandOK, Page
  <1>3. c = Visible /\ (b = x => ~h.stale)
    BY DEF Outdated
  <1>4. x \in Names
    BY <1>1 DEF SaveOK
  <1>5. PICK n : /\ Fine(Coded(Shorter(n))) /\ o = Put(c, x, n)
                 /\ \/ h.stale \/ x \in hist.wild
                    \/ Fine(n) /\ Covers(n, MarksOf(c, x))
    BY <1>1 DEF SaveOK
  <1>6. ~Dropped(p, b) => \/ b = x
                          \/ \A r \in ToSet(Records(c)) : r.board # b
                          \/ \E r \in ToSet(Records(o)) : r.board = b
    BY DEF Dropped
  <1>7. /\ ToSet(Records(c)) = {Records(c)[i] : i \in 1 .. Len(Records(c))}
        /\ ToSet(Records(o)) = {Records(o)[i] : i \in 1 .. Len(Records(o))}
    <2> SUFFICES ASSUME NEW f, Sheet(f)
                 PROVE  ToSet(Records(f)) = {Records(f)[i] : i \in 1 .. Len(Records(f))}
      BY <1>2
    <2> DEFINE recs == Records(f)
    <2>1. recs \in Seq(Cell)
      BY ParsedGood DEF Good, Records
    <2> HIDE DEF recs
    <2>2. DOMAIN recs = 1 .. Len(recs)
      BY <2>1
    <2>3. ToSet(recs) = {recs[i] : i \in 1 .. Len(recs)}
      BY <2>2 DEF ToSet
    <2> QED BY <2>3 DEF recs
  <1> HIDE DEF h, c, o, x
  <1>8. CASE b = x
    <2>2. Fine(n) /\ Covers(n, MarksOf(c, b))
      BY <1>3, <1>5, <1>8
    <2>3. Fine(Shorter(n)) /\ \A s \in Nat : ReadBy(Shorter(n), s) <=> ReadBy(n, s)
      BY <2>2, ShorterFine
    <2>1. MarksOf(o, b) = Shorter(n)
      <3>1. MarksOf(o, b) = Coded(Shorter(n))
        BY <1>2, <1>4, <1>5, <1>8, PutMarks
      <3> QED BY <2>3, <3>1, CodedFine
    <2>4. \A t \in Times : t \in Nat
      BY MarksAssumption
    <2>5. Covers(MarksOf(o, b), MarksOf(c, b))
      BY <2>1, <2>2, <2>3, <2>4 DEF Covers
    <2> QED BY <1>3, <2>5 DEF o, h
  <1>9. CASE \A i \in 1 .. Len(Records(c)) : Records(c)[i].board # b
    <2>1. \A t \in Times : ~ReadBy(MarksOf(c, b), t)
      BY <1>2, <1>9, NoneRead
    <2> QED BY <1>3, <2>1 DEF Covers
  <1>10. CASE /\ b # x
              /\ \E i \in 1 .. Len(Records(c)) : Records(c)[i].board = b
              /\ \E i \in 1 .. Len(Records(o)) : Records(o)[i].board = b
    <2>1. MarksOf(o, b) = MarksOf(c, b)
      BY <1>2, <1>4, <1>5, <1>10, PutMarks
    <2> QED BY <1>3, <2>1 DEF Covers, o, h
  <1> QED BY <1>6, <1>7, <1>8, <1>9, <1>10

\* The file that is visible stays as it is but for a write into it, a rename and
\* an unlink.
LEMMA SeenStays ==
  ASSUME NEW b, disk'.file = disk.file, disk'.home = disk.home \/ "file" \in there,
         "file" \in there' <=> "file" \in there
  PROVE  ~Loses(Visible, Visible', b)
  <1>1. Visible' = Visible
    BY DEF Visible
  <1> QED BY <1>1 DEF Loses

LEMMA WriteLoses ==
  ASSUME IInv, NEW p \in Procs, Write(p), NEW b \in Boards, Loses(Visible, Visible', b)
  PROVE  hist'.mixed
  <1> DEFINE fd == hand[p].fd
  <1>1. /\ there' = there
        /\ fd = "none" => disk' = disk
        /\ fd # "none" => /\ disk' = [disk EXCEPT ![fd] = Over(hand[p].out, @)]
                          /\ hist' = [hist EXCEPT !.mixed = @ \/ disk[fd] # <<>>]
    BY DEF Write
  <1>2. fd # "none" => fd \in there /\ fd \in {"file", "tmp"}
    BY DEF IInv, Inv, HandOK
  <1> HIDE DEF fd
  <1>3. CASE fd = "none"
    <2>1. ~Loses(Visible, Visible', b)
      BY <1>1, <1>3, SeenStays
    <2> QED BY <2>1
  <1>4. disk = [file |-> disk.file, tmp |-> disk.tmp, home |-> disk.home]
    BY DEF IInv, Inv
  <1>5. CASE fd = "tmp"
    <2> DEFINE new == Over(hand[p].out, disk.tmp)
    <2>1. disk' = [disk EXCEPT !.tmp = new]
      BY <1>1, <1>5
    <2> HIDE DEF new
    <2>2. disk'.file = disk.file /\ disk'.home = disk.home
      BY <1>4, <2>1
    <2>3. ~Loses(Visible, Visible', b)
      BY <1>1, <2>2, SeenStays
    <2> QED BY <2>3
  <1>6. CASE fd = "file"
    <2>1. Visible = disk.file
      BY <1>2, <1>6 DEF Visible
    <2>2. disk.file # <<>>
      <3> SUFFICES ASSUME disk.file = <<>> PROVE FALSE
        OBVIOUS
      <3> DEFINE e == <<>>
      <3>1. Page(e, hist) /\ Sheet(e) /\ Records(e) = e /\ Len(e) = 0
        BY EmptyPage, EmptyParsed
      <3>2. Visible = e
        BY <2>1
      <3> HIDE DEF e
      <3>3. \A t \in Times : ~ReadBy(MarksOf(e, b), t)
        BY <3>1, NoneRead
      <3>4. Fine(MarksOf(e, b))
        BY <3>1, MarksOfOK
      <3>5. \A t \in Times : t \in Nat
        BY MarksAssumption
      <3>6. \A t \in Times : Unread(MarksOf(e, b), t)
        BY <3>3, <3>4, <3>5, UnreadIs
      <3> QED BY <3>2, <3>6 DEF Loses
    <2> DEFINE mi == hist.mixed \/ disk.file # <<>>
    <2>3. hist' = [hist EXCEPT !.mixed = mi] /\ mi
      BY <1>1, <1>6, <2>2
    <2> HIDE DEF mi
    <2>4. hist'.mixed = mi
      <3>1. HistOK(hist)
        BY DEF IInv, Inv
      <3> QED BY <2>3, <3>1 DEF HistOK, HistRec
    <2> QED BY <2>3, <2>4
  <1> QED BY <1>2, <1>3, <1>5, <1>6

LEMMA RenameLoses ==
  ASSUME IInv, NEW p \in Procs, Rename(p), NEW b \in Boards, Loses(Visible, Visible', b)
  PROVE  Excused(b)
  <1>1. hand[p].at = "rename" /\ hist' = hist
    BY DEF Rename
  <1>2. CASE "tmp" \notin there
    <2>1. disk' = disk /\ there' = there
      BY <1>2 DEF Rename
    <2>2. ~Loses(Visible, Visible', b)
      BY <2>1, SeenStays
    <2> QED BY <2>2
  <1>3. CASE "tmp" \in there
    <2>1. /\ disk' = [disk EXCEPT !.file = disk.tmp, !.tmp = <<>>] /\ there' = {"file"}
          /\ hand'[p] = Idle
      BY <1>3 DEF Rename
    <2>2. hand'[p].at # "rename"
      BY <2>1 DEF Idle
    <2> SUFFICES ASSUME ~hist.mixed, b \notin hist.wild, ~Outdated(p, b), ~Dropped(p, b),
                        ~Foreign(p)
                 PROVE  FALSE
      BY <1>1, <2>2 DEF Excused
    <2>3. Visible' = hand[p].out
      <3>1. disk = [file |-> disk.file, tmp |-> disk.tmp, home |-> disk.home]
        BY DEF IInv, Inv
      <3>2. disk'.file = disk.tmp
        BY <2>1, <3>1
      <3> QED BY <2>1, <3>2 DEF Visible, Foreign
    <2>4. hand[p].at \in Saves
      BY <1>1 DEF Saves
    <2> DEFINE o == hand[p].out
    <2>5. Covers(MarksOf(o, b), MarksOf(Visible, b))
      BY <2>4, SaveKeeps
    <2>6. Page(Visible, hist) /\ Page(o, hist)
      BY VisiblePage DEF IInv, Inv, HandOK
    <2>7. ~Loses(Visible, o, b)
      <3> HIDE DEF o
      <3> QED BY <2>5, <2>6, CoversKeep
    <2> QED BY <2>3, <2>7 DEF Loses
  <1> QED BY <1>2, <1>3

LEMMA UnlinkLoses ==
  ASSUME IInv, Unlink, NEW b \in Boards, Loses(Visible, Visible', b)
  PROVE  Excused(b)
  <1>1. /\ disk' = [disk EXCEPT !.file = <<>>] /\ cron = "copied" /\ cron' = "idle"
        /\ there' = there \ {"file"}
    BY DEF Unlink
  <1>2. disk = [file |-> disk.file, tmp |-> disk.tmp, home |-> disk.home]
    BY DEF IInv, Inv
  <1>3. Visible' = disk.home
    BY <1>1, <1>2 DEF Visible
  <1>4. CASE disk.file = disk.home
    <2>1. Visible = Visible'
      BY <1>3, <1>4 DEF Visible
    <2> QED BY <2>1 DEF Loses
  <1>5. CASE disk.file # disk.home
    BY <1>1, <1>5 DEF Excused
  <1> QED BY <1>4, <1>5

LEMMA StepLoses ==
  ASSUME IInv, [Next]_vars, NEW b \in Boards, Loses(Visible, Visible', b)
  PROVE  Excused(b)
  <1>0. disk = [file |-> disk.file, tmp |-> disk.tmp, home |-> disk.home]
    BY DEF IInv, Inv
  <1>1. ASSUME disk' = disk, there' = there PROVE FALSE
    <2>1. ~Loses(Visible, Visible', b)
      BY <1>1, SeenStays
    <2> QED BY <2>1
  <1>2. ASSUME NEW p \in Procs, Open(p) PROVE FALSE
    <2>1. disk' = disk /\ there' = there \cup {"tmp"}
      BY <1>2 DEF Open
    <2>2. ~Loses(Visible, Visible', b)
      BY <2>1, SeenStays
    <2> QED BY <2>2
  <1>3. ASSUME NEW p \in Procs, Kill(p) PROVE FALSE
    BY <1>1, <1>3 DEF Kill
  <1>4. CASE \E p \in Procs : Open(p) \/ Write(p) \/ Rename(p) \/ Kill(p)
    BY <1>2, <1>3, <1>4, WriteLoses, RenameLoses DEF Excused
  <1>5. ASSUME NEW x \in Boards, NEW keep \in BOOLEAN, Enter(x, keep) PROVE FALSE
    BY <1>1, <1>5 DEF Enter
  <1>6. ASSUME NEW t \in Times, Look(t) \/ ClearTo(t) PROVE FALSE
    BY <1>1, <1>6 DEF Look, ClearTo
  <1>7. ASSUME Update \/ List \/ EndList PROVE FALSE
    <2>1. Update => disk' = disk /\ there' = there
      BY DEF Update
    <2>2. List => disk' = disk /\ there' = there
      BY DEF List
    <2>3. EndList => disk' = disk /\ there' = there
      BY DEF EndList
    <2> QED BY <1>1, <1>7, <2>1, <2>2, <2>3
  <1>8. ASSUME NEW w \in Requests,
               \/ \E x \in Boards : Request(w, x)
               \/ \E t \in Times : Show(w, t)
               \/ Clear(w) \/ EndRequest(w)
        PROVE  FALSE
    <2>1. \A x : Request(w, x) => disk' = disk /\ there' = there
      BY DEF Request
    <2>2. \A t : Show(w, t) => disk' = disk /\ there' = there
      BY DEF Show
    <2>3. Clear(w) => disk' = disk /\ there' = there
      BY DEF Clear
    <2>4. EndRequest(w) => disk' = disk /\ there' = there
      BY DEF EndRequest
    <2> QED BY <1>1, <1>8, <2>1, <2>2, <2>3, <2>4
  <1>9. ASSUME NEW x \in Boards, FetchWild(x) \/ \E t \in Times : Fetch(x, t) PROVE FALSE
    BY <1>1, <1>9 DEF FetchWild, Fetch
  <1>10. ASSUME Copy PROVE FALSE
    <2>1. disk' = [disk EXCEPT !.home = disk.file] /\ there' = there /\ "file" \in there
      BY <1>10 DEF Copy
    <2>2. disk'.file = disk.file
      BY <1>0, <2>1
    <2>3. ~Loses(Visible, Visible', b)
      BY <2>1, <2>2, SeenStays
    <2> QED BY <2>3
  <1>11. ASSUME Sweep PROVE FALSE
    <2>1. disk' = [disk EXCEPT !.tmp = <<>>] /\ there' = there \ {"tmp"}
      BY <1>11 DEF Sweep
    <2>2. disk'.file = disk.file /\ disk'.home = disk.home
      BY <1>0, <2>1
    <2>3. ~Loses(Visible, Visible', b)
      BY <2>1, <2>2, SeenStays
    <2> QED BY <2>3
  <1>12. CASE UNCHANGED vars
    BY <1>1, <1>12 DEF vars
  <1> QED BY <1>4, <1>5, <1>6, <1>7, <1>8, <1>9, <1>10, <1>11, <1>12, UnlinkLoses DEF Next

-----------------------------------------------------------------------------
(* The results                                                             *)

LEMMA StepInv ==
  ASSUME IInv, [Next]_vars
  PROVE  IInv' \/ Wrecked'
  <1>1. CASE \E p \in Procs : Open(p) \/ Write(p) \/ Rename(p) \/ Kill(p)
    BY <1>1, OpenInv, WriteInv, RenameInv, KillInv
  <1>2. CASE \E b \in Boards, keep \in BOOLEAN : Enter(b, keep)
    BY <1>2, EnterInv
  <1>3. CASE \E t \in Times : Look(t) \/ ClearTo(t)
    BY <1>3, LookInv, ClearToInv
  <1>4. CASE Update \/ List \/ EndList
    BY <1>4, UpdateInv, ListInv, EndListInv
  <1>5. CASE \E w \in Requests :
               \/ \E b \in Boards : Request(w, b)
               \/ \E t \in Times : Show(w, t)
               \/ Clear(w) \/ EndRequest(w)
    BY <1>5, RequestInv, ShowInv, ClearInv, EndRequestInv
  <1>6. CASE \E b \in Boards : FetchWild(b) \/ \E t \in Times : Fetch(b, t)
    BY <1>6, FetchWildInv, FetchInv
  <1>7. CASE Copy \/ Unlink \/ Sweep
    BY <1>7, CopyInv, UnlinkInv, SweepInv
  <1>8. CASE UNCHANGED vars
    BY <1>8 DEF vars, IInv
  <1> QED BY <1>1, <1>2, <1>3, <1>4, <1>5, <1>6, <1>7, <1>8 DEF Next

\* Once a call wrote over its memory, that is known.
LEMMA OtherFields ==
  ASSUME NEW g, HistRec(g), NEW v
  PROVE  /\ HistRec([g EXCEPT !.seen = v]) /\ [g EXCEPT !.seen = v].wrecked = g.wrecked
         /\ HistRec([g EXCEPT !.aged = v]) /\ [g EXCEPT !.aged = v].wrecked = g.wrecked
         /\ HistRec([g EXCEPT !.mixed = v]) /\ [g EXCEPT !.mixed = v].wrecked = g.wrecked
         /\ HistRec([g EXCEPT !.wild = v]) /\ [g EXCEPT !.wild = v].wrecked = g.wrecked
         /\ HistRec([g EXCEPT !.crossed = v]) /\ [g EXCEPT !.crossed = v].wrecked = g.wrecked
  <1>1. HistRec([g EXCEPT !.seen = v]) /\ [g EXCEPT !.seen = v].wrecked = g.wrecked
    BY DEF HistRec
  <1>2. HistRec([g EXCEPT !.aged = v]) /\ [g EXCEPT !.aged = v].wrecked = g.wrecked
    BY DEF HistRec
  <1>3. HistRec([g EXCEPT !.mixed = v]) /\ [g EXCEPT !.mixed = v].wrecked = g.wrecked
    BY DEF HistRec
  <1>4. HistRec([g EXCEPT !.wild = v]) /\ [g EXCEPT !.wild = v].wrecked = g.wrecked
    BY DEF HistRec
  <1>5. HistRec([g EXCEPT !.crossed = v]) /\ [g EXCEPT !.crossed = v].wrecked = g.wrecked
    BY DEF HistRec
  <1> QED BY <1>1, <1>2, <1>3, <1>4, <1>5

LEMMA SawRec ==
  ASSUME HistRec(hist), NEW m, NEW b, NEW t
  PROVE  HistRec(Saw(m, b, t)) /\ Saw(m, b, t).wrecked = hist.wrecked
  <1> DEFINE n == Insert(m, t)
             full == Unread(m, t) /\ Len(m) = MaxNum
             a == IF full /\ Last(n) > hist.aged[b] THEN Last(n) ELSE hist.aged[b]
             se == hist.seen \cup {<<b, t>>}
             ag == [hist.aged EXCEPT ![b] = a]
  <1>1. Saw(m, b, t) = [hist EXCEPT !.seen = se, !.aged = ag]
    BY Zenon DEF Saw
  <1> HIDE DEF se, ag
  <1> DEFINE g == [hist EXCEPT !.seen = se]
  <1>2. HistRec(g) /\ g.wrecked = hist.wrecked
    BY OtherFields
  <1>3. Saw(m, b, t) = [g EXCEPT !.aged = ag]
    BY <1>1
  <1> HIDE DEF g
  <1> QED BY <1>2, <1>3 DEF HistRec

LEMMA CrossingRec ==
  ASSUME NEW w, NEW h, HistRec(h), NEW ts
  PROVE  HistRec(Crossing(w, h, ts)) /\ Crossing(w, h, ts).wrecked = h.wrecked
  <1> DEFINE se == hist.seen \cup {<<hand[w].board, t>> : t \in ts}
             cr == IF brc.web.board = hand[w].board THEN h.crossed
                   ELSE h.crossed \cup {brc.web.board}
  <1>1. Crossing(w, h, ts) = [h EXCEPT !.seen = se, !.crossed = cr]
    BY DEF Crossing
  <1> HIDE DEF se, cr
  <1> DEFINE g == [h EXCEPT !.seen = se]
  <1>2. HistRec(g) /\ g.wrecked = h.wrecked
    BY OtherFields
  <1>3. Crossing(w, h, ts) = [g EXCEPT !.crossed = cr]
    BY <1>1
  <1> HIDE DEF g
  <1> QED BY <1>2, <1>3 DEF HistRec

LEMMA WreckStays ==
  ASSUME Wrecked, [Next]_vars
  PROVE  Wrecked'
  <1>0. HistRec(hist) /\ hist.wrecked
    BY DEF Wrecked
  <1>1. ASSUME NEW g, HistRec(g), g.wrecked = hist.wrecked, hist' = g PROVE Wrecked'
    BY <1>0, <1>1 DEF Wrecked, HistRec
  <1>2. ASSUME hist' = hist PROVE Wrecked'
    BY <1>0, <1>1, <1>2
  <1>3. ASSUME NEW m, NEW b, NEW t, hist' = Saw(m, b, t) PROVE Wrecked'
    BY <1>0, <1>1, <1>3, SawRec
  <1>4. ASSUME NEW p \in Procs, Write(p) PROVE Wrecked'
    <2>1. CASE hand[p].fd = "none"
      BY <1>2, <1>4, <2>1 DEF Write
    <2>2. CASE hand[p].fd # "none"
      <3> DEFINE mi == hist.mixed \/ disk[hand[p].fd] # <<>>
                 g == [hist EXCEPT !.mixed = mi]
      <3>1. hist' = g
        BY <1>4, <2>2 DEF Write
      <3> HIDE DEF mi
      <3>2. HistRec(g) /\ g.wrecked = hist.wrecked
        BY <1>0, OtherFields
      <3> HIDE DEF g
      <3> QED BY <1>1, <3>1, <3>2
    <2> QED BY <2>1, <2>2
  <1>5. ASSUME NEW p \in Procs, Open(p) \/ Rename(p) \/ Kill(p) PROVE Wrecked'
    BY <1>2, <1>5 DEF Open, Rename, Kill
  <1>6. ASSUME NEW b \in Boards, NEW keep \in BOOLEAN, Enter(b, keep) PROVE Wrecked'
    BY <1>2, <1>6 DEF Enter
  <1>7. ASSUME NEW t \in Times, Look(t) PROVE Wrecked'
    BY <1>3, <1>7 DEF Look
  <1>8. ASSUME NEW t \in Times, ClearTo(t) PROVE Wrecked'
    <2> DEFINE se == hist.seen \cup {<<brc.telnet.board, s>> : s \in {s \in Times : s <= t}}
               g == [hist EXCEPT !.seen = se]
    <2>1. hist' = g
      BY <1>8 DEF ClearTo, SawTo
    <2> HIDE DEF se
    <2>2. HistRec(g) /\ g.wrecked = hist.wrecked
      BY <1>0, OtherFields
    <2> HIDE DEF g
    <2> QED BY <1>1, <2>1, <2>2
  <1>9. ASSUME Update \/ List \/ EndList PROVE Wrecked'
    BY <1>2, <1>9 DEF Update, List, EndList
  <1>10. ASSUME NEW w \in Requests, NEW h, HistRec(h), h.wrecked = hist.wrecked, NEW ts,
                hist' = Crossing(w, h, ts)
         PROVE  Wrecked'
    BY <1>1, <1>10, CrossingRec
  <1>11. ASSUME NEW w \in Requests, NEW t \in Times, Show(w, t) PROVE Wrecked'
    <2> DEFINE h == Saw(brc.web.marks, brc.web.board, t)
    <2>1. HistRec(h) /\ h.wrecked = hist.wrecked
      BY <1>0, SawRec
    <2>2. hist' = Crossing(w, h, {t})
      BY <1>11 DEF Show
    <2> HIDE DEF h
    <2> QED BY <1>10, <2>1, <2>2
  <1>12. ASSUME NEW w \in Requests, Clear(w) PROVE Wrecked'
    <2> DEFINE last == CHOOSE s \in Times : \A u \in Times : u <= s
               ts == {s \in Times : s <= last}
    <2>1. hist' = Crossing(w, hist, ts)
      BY <1>12 DEF Clear
    <2> HIDE DEF ts
    <2> QED BY <1>0, <1>10, <2>1
  <1>13. ASSUME NEW w \in Requests, EndRequest(w) \/ \E b \in Boards : Request(w, b)
         PROVE  Wrecked'
    <2>1. EndRequest(w) => hist' = hist
      BY DEF EndRequest
    <2>2. \A b : Request(w, b) => hist' = hist
      BY DEF Request
    <2> QED BY <1>2, <1>13, <2>1, <2>2
  <1>14. ASSUME NEW b \in Boards, NEW t \in Times, Fetch(b, t) PROVE Wrecked'
    BY <1>3, <1>14 DEF Fetch
  <1>15. ASSUME NEW b \in Boards, FetchWild(b) PROVE Wrecked'
    <2>1. ASSUME NEW wi, hist' = [hist EXCEPT !.wild = wi] PROVE Wrecked'
      <3> DEFINE g == [hist EXCEPT !.wild = wi]
      <3>1. HistRec(g) /\ g.wrecked = hist.wrecked
        BY <1>0, OtherFields
      <3>2. hist' = g
        BY <2>1
      <3> HIDE DEF g
      <3> QED BY <1>1, <3>1, <3>2
    <2>2. ASSUME hist' = [hist EXCEPT !.wrecked = TRUE] PROVE Wrecked'
      <3> DEFINE yes == TRUE
      <3>1. hist' = [hist EXCEPT !.wrecked = yes] /\ yes
        BY <2>2
      <3> HIDE DEF yes
      <3>2. HistRec(hist') /\ hist'.wrecked = yes
        BY <1>0, <3>1 DEF HistRec
      <3> QED BY <3>1, <3>2 DEF Wrecked, HistRec
    <2>3. \/ hist' = hist
          \/ \E name \in {b} \cup Garbled : hist' = [hist EXCEPT !.wild = @ \cup {name}]
          \/ hist' = [hist EXCEPT !.wrecked = TRUE]
      BY <1>15 DEF FetchWild
    <2> QED BY <1>2, <2>1, <2>2, <2>3
  <1>16. ASSUME Copy \/ Unlink \/ Sweep PROVE Wrecked'
    BY <1>2, <1>16 DEF Copy, Unlink, Sweep
  <1>17. CASE UNCHANGED vars
    BY <1>2, <1>17 DEF vars
  <1> QED BY <1>4, <1>5, <1>6, <1>7, <1>8, <1>9, <1>11, <1>12, <1>13, <1>14, <1>15, <1>16,
             <1>17 DEF Next

Safe == IInv \/ Wrecked

LEMMA MarksInv == Spec => []Safe
  <1>1. Init => Safe
    BY InitInv DEF Safe
  <1>2. Safe /\ [Next]_vars => Safe'
    BY StepInv, WreckStays DEF Safe
  <1> QED BY <1>1, <1>2, PTL DEF Spec

LEMMA PageTyped ==
  ASSUME NEW c, NEW g, Page(c, g)
  PROVE  LET recs == Records(c)
         IN  /\ Len(c) <= MaxSize
             /\ \A i \in DOMAIN recs :
                  /\ recs[i].board \in Names
                  /\ Fine(recs[i].marks)
                  /\ g.mixed \/ \A j \in DOMAIN recs : recs[i].board = recs[j].board => i = j
  <1> DEFINE recs == Records(c)
  <1>1. recs \in Seq(Cell) /\ \A j \in 1 .. Len(recs) : IsHead(recs[j])
    BY ParsedGood DEF Page, Good, Records
  <1>2. g.mixed \/ Distinct(recs)
    BY DEF Page
  <1> HIDE DEF recs
  <1>3. DOMAIN recs = 1 .. Len(recs)
    BY <1>1
  <1>4. \A i \in DOMAIN recs : recs[i].board \in Names /\ Fine(recs[i].marks)
    BY <1>1, <1>3 DEF IsHead, Cell
  <1>5. g.mixed \/ \A i, j \in DOMAIN recs : recs[i].board = recs[j].board => i = j
    BY <1>2, <1>3 DEF Distinct
  <1> QED BY <1>4, <1>5 DEF Page, recs

LEMMA InvWhole ==
  ASSUME IInv
  PROVE  FileWhole
  <1>1. \A f \in {"file", "tmp", "home"} : Page(disk[f], hist)
    BY DEF IInv, Inv
  <1>2. \A f \in {"file", "tmp", "home"} :
          LET recs == Records(disk[f]) IN
          /\ Len(disk[f]) <= MaxSize
          /\ \A i \in DOMAIN recs :
               /\ recs[i].board \in Names
               /\ Fine(recs[i].marks)
               /\ hist.mixed \/ \A j \in DOMAIN recs : recs[i].board = recs[j].board => i = j
    BY <1>1, PageTyped
  <1>3. \A m \in {brc.telnet, brc.web} : m.board # NoBoard => Fine(m.marks)
    BY DEF IInv, Inv, MarkOK
  <1>4. \A p \in Procs :
          /\ hand[p].at \in {"unused", "idle", "marking", "open", "write", "rename"}
          /\ hand[p].fd # "none" => hand[p].at = "write" /\ hand[p].fd \in there
    BY DEF IInv, Inv, HandOK
  <1>5. there \subseteq {"file", "tmp"} /\ cron \in {"idle", "copied"}
    BY DEF IInv, Inv
  <1>6. TypeOK
    BY <1>2, <1>3, <1>4, <1>5 DEF TypeOK
  <1>7. hist.mixed \/ Whole(Visible)
    BY VisiblePage DEF Page
  <1> QED BY <1>6, <1>7 DEF FileWhole

LEMMA InvCause ==
  ASSUME IInv
  PROVE  ReadHasCause
  <1> SUFFICES ASSUME NEW b \in Boards, NEW t \in Times
               PROVE  LET marks == MarksOf(Visible, b) IN
                      /\ ~Unread(marks, t) =>
                           <<b, t>> \in hist.seen \/ t < hist.aged[b]
                             \/ b \in hist.wild \cup hist.crossed
                      /\ Quick(marks, t) => Unread(marks, t)
                      /\ Unread(marks, t) /\ ~Quick(marks, t) =>
                           Len(marks) > QuickNum /\ t < marks[QuickNum]
    BY Zenon DEF ReadHasCause
  <1> DEFINE m == MarksOf(Visible, b)
  <1>1. Fine(m) /\ Just(hist, b, m)
    BY VisiblePage, MarksOfOK
  <1>2. t \in Nat
    BY MarksAssumption
  <1> HIDE DEF m
  <1>3. Unread(m, t) <=> ~ReadBy(m, t)
    BY <1>1, <1>2, UnreadIs
  <1>4. /\ Quick(m, t) => Unread(m, t)
        /\ Unread(m, t) /\ ~Quick(m, t) => Len(m) > QuickNum /\ t < m[QuickNum]
    BY <1>1, <1>2, QuickIs
  <1> QED BY <1>1, <1>3, <1>4 DEF Just, m

\* RecordsWhole: the file of a user can be read to its end in every reachable
\* state, unless a save found another's bytes in the .tmp (brc_fini), and no list
\* of marks in it goes up, whatever the API had before its list; but nothing is
\* said after a call of the API that wrote over the length of its list.
THEOREM RecordsWhole == Spec => []FileWhole
  <1>1. Safe => FileWhole
    BY InvWhole DEF Safe, Wrecked, FileWhole
  <1> QED BY <1>1, MarksInv, PTL

\* MarksHaveCause: no packing, shortening, moving or overwriting of marks makes a
\* post read, for any number of boards, times and processes (boardrc.c).
THEOREM MarksHaveCause == Spec => []ReadHasCause
  <1>1. Wrecked => ReadHasCause
    BY Zenon DEF Wrecked, ReadHasCause
  <1>2. Safe => ReadHasCause
    BY <1>1, InvCause DEF Safe
  <1> QED BY <1>2, MarksInv, PTL

\* MarksLostForCause: for any number of boards, times and processes, what counts
\* as read becomes unread only by a save that was based on an outdated copy, for
\* want of room, by junk of the API, by two writes into one .tmp or the rename
\* of another's, or by an unlink of what was not copied (boardrc.c, save_brc).
THEOREM MarksLostForCause == Spec => LostHasCause
  <1> DEFINE A == \A b \in Boards : Forgets(b) => Excused(b)
  <1>1. IInv /\ [Next]_vars => A
    BY StepLoses DEF Loses, Forgets
  <1>2. Wrecked => A
    BY DEF Wrecked, Excused
  <1>3. Safe /\ [Next]_vars => [A]_vars
    BY <1>1, <1>2 DEF Safe
  <1>4. LostHasCause <=> [][A]_vars
    BY DEF LostHasCause
  <1> HIDE DEF A
  <1> QED BY <1>3, <1>4, MarksInv, PTL DEF Spec
=============================================================================
