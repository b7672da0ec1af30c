-------------------------- MODULE NameListsProofs --------------------------
(***************************************************************************)
(* NameLists, for any users, managers, web requests, sessions, spellings   *)
(* and bounds: the list and the rights of a user agree (ListsAgree), a     *)
(* session honours the list (VisitHonoursList), no bystander gains or      *)
(* loses (BystandersKept), a denial ends by right (DenialEndsByRight).     *)
(*                                                                         *)
(* Base is what all of them need.  It gives the sets of values, which grow *)
(* with the clock, says how far a job and a call have come, who has a      *)
(* flock, and that no inode is held for two paths (Apart): a call keeps    *)
(* the inode it has opened while others rename a new one over the path.    *)
(* On top of it stand ListsInv, VisitInv and DenialsInv, one for each kind *)
(* of promise.  StepContent says once what a step of a call does to a list *)
(* as others see it: nothing (GoesOn), nothing and the call is over        *)
(* (Fails), one line more (Appends), or the copy without the word          *)
(* (Renames).                                                              *)
(***************************************************************************)
EXTENDS NameLists, FiniteSetTheorems, SequenceTheorems, WellFoundedInduction, TLAPS

Word       == Seq(STRING) \ {<<>>}
LineSet(t) == [word : Word, tail : Tails(t)]
TextSet(t) == [lines : Seq(LineSet(t)), rest : Seq(STRING)]
CallSet(t) == [op : {"add", "del"}, file : Paths, word : Word, tail : Tails(t)]
HandSet(t) == [at : {"out", "opened", "buffered", "copied"}, fd : Nat,
               src : TextSet(t), mtime : 0 .. t]
WebSet(t)  == [at : {"out", "loaded", "emptied"}, op : {"none", "deny", "undeny"},
               who : Users \cup {"none"}, until : Tails(t), table : Seq(LineSet(t))]
CronSet(t) == [at : {"out", "stat", "read"}, nowtime : 0 .. t, size : Nat, fd : Nat,
               keep : Seq(LineSet(t))]
Kinds      == IF subject = "club" THEN {"join", "expel"}
              ELSE {"deny", "redeny", "undeny", "article"}
JobSet(t)  == [kind : Kinds, who : Users, until : Tails(t), run : BOOLEAN]

FilesOK ==
  /\ subject \in {"club", "deny"} /\ now \in Nat \ {0}
  /\ text \in Seq(TextSet(now))
  /\ path \in [Paths -> 0 .. Len(text)]
  /\ stamp \in Seq(1 .. now) /\ Len(stamp) = Len(text)
  /\ lock \in Seq({NoProc, "cron"}) /\ Len(lock) = Len(text)

CallsOK ==
  /\ todo \in [Procs -> Seq(CallSet(now))]
  /\ hand \in [Procs -> HandSet(now)]
  /\ rc \in [Procs -> {-1, 0, 1}]

RestOK ==
  /\ web \in [Web -> WebSet(now)] /\ cron \in CronSet(now)
  /\ mem \in [Sessions -> [right : BOOLEAN, rtime : 0 .. now]]
  /\ suspect \subseteq Users
  /\ missed \in [Web \cup {"cron"} -> SUBSET LineSet(now)]

LocksOK ==
  \A i \in 1 .. Len(text) :
    lock[i] = IF cron.at = "read" /\ cron.fd = i THEN "cron" ELSE NoProc

\* What a job has left to do.
Left(j) == {Calls(j), Tail(Calls(j)), <<>>}

JobsOK ==
  /\ job \in [Managers -> JobSet(now) \cup {NoJob}]
  /\ \A p \in Managers :
        /\ job[p].kind \in {"deny", "redeny"} => job[p].until # Bare
        /\ job[p].run => todo[p] \in Left(job[p])
        /\ ~job[p].run => todo[p] = <<>>
  /\ \A u \in Sessions :
        todo[u] # <<>> => /\ subject = "club" /\ u \in suspect
                          /\ \E op \in {"add", "del"} : todo[u] = <<Call(op, u, Club, Bare)>>

HandsOK ==
  \A p \in Procs :
    /\ hand[p].at = "out" => hand[p] = NoHand
    /\ hand[p].at # "out" => todo[p] # <<>> /\ hand[p].fd \in 1 .. Len(text)
    /\ hand[p].at = "buffered" => Head(todo[p]).op = "add"
    /\ hand[p].at = "copied" => /\ Head(todo[p]).op = "del"
                                /\ Occurrences(hand[p].src, Head(todo[p]).word) # {}
                                /\ hand[p].mtime # 0

\* A path, a call on it or autoundeny holds an inode.
HeldBy(p, i, f) == hand[p].at # "out" /\ hand[p].fd = i /\ Head(todo[p]).file = f
Holds(i, f) ==
  \/ path[f] = i
  \/ \E p \in Procs : HeldBy(p, i, f)
  \/ cron.at # "out" /\ cron.fd = i /\ f = "deny_users"

CronOK == cron.at # "out" => subject = "deny" /\ cron.fd \in 1 .. Len(text)

\* No inode is held for two paths.
Apart == \A i \in 1 .. Len(text) : \A f, g \in Paths : Holds(i, f) /\ Holds(i, g) => f = g

Seated ==
  /\ \A f \in Users \cup {"club_users"} : path[f] # NoFile
  /\ subject = "club" => path["deny_users"] = NoFile
WebOK == \A w \in Web : web[w].at # "out" => subject = "deny"
            /\ (web[w].at = "emptied" => path["deny_users"] # NoFile)

Base == FilesOK /\ CallsOK /\ RestOK /\ LocksOK /\ JobsOK /\ HandsOK /\ CronOK /\ Apart /\ Seated /\ WebOK

Agree(u) == Member(u) <=> HasRight(u)
Made(u, kind) == HasRight(u) <=> kind = "join"
Told(u, kind) == Member(u) <=> kind = "join"

\* How far the handler of a user is.
Along(p) ==
  LET j == job[p] IN
  /\ todo[p] = Calls(j) => Agree(j.who)
  /\ todo[p] = Tail(Calls(j)) => Made(j.who, j.kind)
  /\ todo[p] = <<>> => Made(j.who, j.kind) /\ Told(j.who, j.kind)

ListsInv ==
  \A u \in Users \ suspect :
    /\ \A p, q \in Handled(u) : p = q
    /\ Handled(u) = {} => Agree(u)
    /\ \A p \in Handled(u) : Along(p)

VisitInv ==
  \A u \in Sessions \ suspect :
    /\ mem[u].rtime <= stamp[path[u]]
    /\ u \notin blur /\ mem[u].rtime = stamp[path[u]] => mem[u].right = HasRight(u)
    /\ \A p \in Procs :
         hand[p].at = "copied" /\ Head(todo[p]).file = u => stamp[path[u]] <= hand[p].mtime

Clean(txt) == txt.rest = <<>> /\ \A k \in DOMAIN txt.lines : txt.lines[k].tail # Bare
Dated(lines) == \A k \in DOMAIN lines : lines[k].tail # Bare

DenyInv ==
  /\ \A i \in 1 .. Len(text) : Holds(i, "deny_users") => Clean(text[i])
  /\ \A p \in Procs : hand[p].at = "copied" => Head(todo[p]).file # "deny_users"
  /\ \A w \in Web : Dated(web[w].table)
  /\ Dated(cron.keep)

Excused(w, line) ==
  \/ line \in ToSet(web[w].table)
  \/ line \in missed[w]
  \/ line.tail = Manual
  \/ web[w].op = "undeny" /\ line.word = Spelling[web[w].who]
  \/ Brimful(w)

WebInv == \A w \in Web : web[w].at # "out" => \A line \in Denials : Excused(w, line)
CronInv ==
  /\ cron.at # "out" => cron.fd = path["deny_users"]
  /\ cron.at = "stat" =>
       LET lines == Content("deny_users").lines
       IN  \A k \in cron.size + 1 .. Len(lines) : lines[k] \in missed["cron"]
  /\ cron.at = "read" =>
       \A line \in Denials : \/ line \in ToSet(cron.keep) \/ Lapsed(line, cron.nowtime)
                             \/ line \in missed["cron"]

-----------------------------------------------------------------------------
(* Lines and texts                                                         *)

LEMMA TailsGrow ==
  ASSUME NEW t \in Nat
  PROVE  /\ Tails(t) \subseteq Tails(t + 1) /\ LineSet(t) \subseteq LineSet(t + 1)
         /\ TextSet(t) \subseteq TextSet(t + 1) /\ CallSet(t) \subseteq CallSet(t + 1)
  <1>1. Tails(t) \subseteq Tails(t + 1)
    <2>1. 1 .. t \subseteq 1 .. t + 1
      OBVIOUS
    <2> QED BY <2>1 DEF Tails
  <1>2. LineSet(t) \subseteq LineSet(t + 1)
    BY <1>1 DEF LineSet
  <1>3. Seq(LineSet(t)) \subseteq Seq(LineSet(t + 1))
    BY <1>2, SeqMonotonic
  <1> QED BY <1>1, <1>2, <1>3 DEF TextSet, CallSet

LEMMA TailsAre ==
  ASSUME NEW t \in Nat \ {0}
  PROVE  /\ Bare \in Tails(t) /\ Manual \in Tails(t) /\ Bare # Manual
         /\ \A d \in Days : t + d \in Tails(t) /\ t + d # Bare /\ t + d # Manual
         /\ \A e \in Tails(t) : e \in Int
  <1>1. Days \subseteq Nat \ {0}
    BY NameListsAssumption
  <1>2. \A d \in Days : t + d \in Tails(t)
    <2> TAKE d \in Days
    <2>1. t \in 1 .. t
      OBVIOUS
    <2> QED BY <2>1 DEF Tails
  <1> QED BY <1>1, <1>2 DEF Tails, Bare, Manual

LEMMA WordOf ==
  ASSUME NEW u \in Users
  PROVE  Spelling[u] \in Word /\ Club \in Word /\ Other \in Word
  BY NameListsAssumption DEF Word

LEMMA JoinWords ==
  ASSUME NEW r \in Seq(STRING), NEW w \in Word
  PROVE  r \o w \in Word /\ (r = <<>> => r \o w = w)
  <1>1. w \in Seq(STRING) /\ w # <<>>
    BY DEF Word
  <1>2. r \o w \in Seq(STRING) /\ (r \o w = <<>> <=> r = <<>> /\ w = <<>>)
    BY <1>1, ConcatProperties, ConcatEqualIffEmpty
  <1>3. <<>> \o w = w
    BY <1>1, ConcatEmptySeq
  <1> QED BY <1>1, <1>2, <1>3 DEF Word

\* What is appended, and that nothing else changes.
LEMMA AppendedText ==
  ASSUME NEW t \in Nat, NEW txt \in TextSet(t), NEW w \in Word, NEW e \in Tails(t)
  PROVE  LET new == Appended(txt, Line(w, e)) IN
         /\ new \in TextSet(t) /\ new.rest = <<>>
         /\ new.lines = Append(txt.lines, Line(txt.rest \o w, e))
         /\ Line(txt.rest \o w, e) \in LineSet(t)
  <1>1. txt.lines \in Seq(LineSet(t)) /\ txt.rest \in Seq(STRING)
    BY DEF TextSet
  <1> DEFINE word == txt.rest \o w
  <1>2. word \in Word
    BY <1>1, JoinWords
  <1>3. [Line(w, e) EXCEPT !.word = txt.rest \o @] = Line(word, e)
    <2> DEFINE line == Line(w, e)
    <2>1. line.word = w
      BY DEF Line
    <2>2. ASSUME NEW x PROVE [line EXCEPT !.word = x] = Line(x, e)
      BY DEF Line
    <2> HIDE DEF line
    <2>3. txt.rest \o line.word = word
      BY <2>1
    <2>4. [line EXCEPT !.word = txt.rest \o line.word] = Line(word, e)
      BY <2>2, <2>3, Zenon
    <2> QED BY <2>4 DEF line
  <1> HIDE DEF word
  <1>4. Line(word, e) \in LineSet(t)
    BY <1>2 DEF Line, LineSet
  <1>5. Append(txt.lines, Line(word, e)) \in Seq(LineSet(t))
    BY <1>1, <1>4, AppendProperties
  <1>6. Appended(txt, Line(w, e)) = Text(Append(txt.lines, Line(word, e)))
    BY <1>3 DEF Appended
  <1>7. <<>> \in Seq(STRING)
    OBVIOUS
  <1> QED BY <1>4, <1>5, <1>6, <1>7 DEF Text, TextSet, word

LEMMA SmallestIn ==
  ASSUME NEW S \in SUBSET Nat, S # {}
  PROVE  \E n \in S : \A m \in S : n <= m
  <1> DEFINE R == {ss \in Nat \X Nat : ss[1] < ss[2]}
  <1>1. IsWellFoundedOn(R, Nat)
    BY NatLessThanWellFounded DEF OpToRel
  <1>2. PICK n \in S : \A m \in S : ~ (<<m, n>> \in R)
    <2> HIDE DEF R
    <2> QED BY <1>1, WFMin
  <1>3. \A m \in S : n <= m
    <2>1. SUFFICES ASSUME NEW m \in S, m < n PROVE FALSE
      OBVIOUS
    <2>2. <<m, n>> \in R
      BY <2>1
    <2> QED BY <1>2, <2>2
  <1> QED BY <1>3

\* The first occurrence is on a line that ends in the word.
LEMMA FirstIs ==
  ASSUME NEW t \in Nat, NEW txt \in TextSet(t), NEW word \in Word, Occurrences(txt, word) # {}
  PROVE  LET i == First(txt, word) IN
         /\ i \in 1 .. Len(txt.lines) /\ txt.lines[i] \in LineSet(t)
         /\ EndsIn(txt.lines[i], word)
         /\ Stub(txt, word) \in Seq(STRING)
         /\ Stub(txt, word) = <<>> => txt.lines[i].word = word
  <1> DEFINE i == First(txt, word)
  <1>1. txt.lines \in Seq(LineSet(t)) /\ DOMAIN txt.lines = 1 .. Len(txt.lines)
        /\ Len(txt.lines) \in Nat
    BY LenProperties DEF TextSet
  <1>2. i \in Occurrences(txt, word)
    <2>1. Occurrences(txt, word) \in SUBSET Nat
      BY <1>1 DEF Occurrences
    <2>2. \E n \in Occurrences(txt, word) : \A m \in Occurrences(txt, word) : n <= m
      BY <2>1, SmallestIn
    <2> QED BY <2>2 DEF First
  <1> HIDE DEF i
  <1>3. i \in 1 .. Len(txt.lines) /\ EndsIn(txt.lines[i], word)
    BY <1>1, <1>2 DEF Occurrences
  <1> DEFINE l == txt.lines[i]
             w == l.word
  <1>4. l \in LineSet(t)
    BY <1>1, <1>3, ElementOfSeq
  <1>5. w \in Seq(STRING) /\ word \in Seq(STRING) /\ Len(w) \in Nat /\ Len(word) \in Nat
    <2>1. w \in Seq(STRING) /\ word \in Seq(STRING)
      BY <1>4 DEF LineSet, Word
    <2> QED BY <2>1, LenProperties
  <1>6. Len(w) >= Len(word) /\ SubSeq(w, Len(w) - Len(word) + 1, Len(w)) = word
    BY <1>3 DEF EndsIn
  <1>7. Stub(txt, word) = SubSeq(w, 1, Len(w) - Len(word))
    BY DEF Stub, i
  <1> HIDE DEF l, w
  <1>8. Stub(txt, word) \in Seq(STRING) /\ Len(Stub(txt, word)) = Len(w) - Len(word)
    <2> DEFINE n == Len(w) - Len(word)
    <2>1. n \in Nat /\ n <= Len(w)
      BY <1>5, <1>6
    <2>2. \A k \in 1 .. n : w[k] \in STRING
      BY <1>5, <2>1, ElementOfSeq
    <2>3. SubSeq(w, 1, n) \in Seq(STRING) /\ Len(SubSeq(w, 1, n)) = n
      <3> HIDE DEF n
      <3>1. SubSeq(w, 1, n) \in Seq(STRING)
            /\ Len(SubSeq(w, 1, n)) = IF 1 <= n THEN n - 1 + 1 ELSE 0
        BY <2>1, <2>2, SubSeqProperties
      <3> QED BY <2>1, <3>1
    <2> QED BY <1>7, <2>3
  <1>9. ASSUME Stub(txt, word) = <<>> PROVE w = word
    <2>1. Len(w) = Len(word)
      BY <1>5, <1>8, <1>9, EmptySeq
    <2>2. SubSeq(w, 1, Len(w)) = word
      BY <1>5, <1>6, <2>1
    <2> QED BY <1>5, <2>2, SubSeqFull
  <1> QED BY <1>3, <1>4, <1>8, <1>9 DEF i, l, w

\* A deletion takes a line out, or cuts it and glues the stub to what follows.
LEMMA WithoutIs ==
  ASSUME NEW t \in Nat, NEW txt \in TextSet(t), NEW word \in Word, Occurrences(txt, word) # {}
  PROVE  /\ Without(txt, word) \in TextSet(t)
         /\ Stub(txt, word) = <<>> =>
              LET i == First(txt, word) IN
              /\ Without(txt, word).rest = txt.rest
              /\ Len(Without(txt, word).lines) = Len(txt.lines) - 1
              /\ \A k \in 1 .. Len(txt.lines) - 1 :
                   Without(txt, word).lines[k] = txt.lines[IF k < i THEN k ELSE k + 1]
  <1> DEFINE i    == First(txt, word)
             ls   == txt.lines
             head == SubSeq(ls, 1, i - 1)
             rest == SubSeq(ls, i + 1, Len(ls))
             stub == Stub(txt, word)
             L    == LineSet(t)
  <1>1. ls \in Seq(L) /\ Len(ls) \in Nat /\ txt.rest \in Seq(STRING)
    BY LenProperties DEF TextSet
  <1>2. i \in 1 .. Len(ls) /\ stub \in Seq(STRING)
    BY FirstIs
  <1>3. Without(txt, word) =
          IF rest = <<>>
          THEN [lines |-> head, rest |-> stub \o txt.rest]
          ELSE [lines |-> head \o <<[Head(rest) EXCEPT !.word = stub \o @]>> \o Tail(rest),
                rest  |-> txt.rest]
    BY DEF Without
  <1> HIDE DEF i, stub
  <1>4. head \in Seq(L) /\ Len(head) = i - 1 /\ \A k \in 1 .. i - 1 : head[k] = ls[k]
    <2> DEFINE n == i - 1
    <2>1. n \in Nat /\ \A k \in 1 .. n : ls[k] \in L
      BY <1>1, <1>2, ElementOfSeq
    <2>2. n <= Len(ls)
      BY <1>1, <1>2
    <2> HIDE DEF n
    <2>3. /\ SubSeq(ls, 1, n) \in Seq(L) /\ Len(SubSeq(ls, 1, n)) = IF 1 <= n THEN n - 1 + 1 ELSE 0
          /\ \A k \in 1 .. n - 1 + 1 : SubSeq(ls, 1, n)[k] = ls[1 + k - 1]
      BY <2>1, SubSeqProperties
    <2>4. Len(SubSeq(ls, 1, n)) = n /\ \A k \in 1 .. n : SubSeq(ls, 1, n)[k] = ls[k]
      BY <2>1, <2>3
    <2> QED BY <2>3, <2>4 DEF n
  <1>5. rest \in Seq(L) /\ Len(rest) = Len(ls) - i
        /\ \A k \in 1 .. Len(ls) - i : rest[k] = ls[i + k]
    <2>1. \A k \in i + 1 .. Len(ls) : ls[k] \in L
      BY <1>1, <1>2, ElementOfSeq
    <2>2. /\ rest \in Seq(L) /\ Len(rest) = IF i + 1 <= Len(ls) THEN Len(ls) - (i + 1) + 1 ELSE 0
          /\ \A k \in 1 .. Len(ls) - (i + 1) + 1 : rest[k] = ls[(i + 1) + k - 1]
      <3> DEFINE m == i + 1
      <3>1. m \in Int /\ Len(ls) \in Int
        BY <1>1, <1>2
      <3>2. \A k \in m .. Len(ls) : ls[k] \in L
        BY <2>1
      <3> HIDE DEF m
      <3>3. /\ SubSeq(ls, m, Len(ls)) \in Seq(L)
            /\ Len(SubSeq(ls, m, Len(ls))) = IF m <= Len(ls) THEN Len(ls) - m + 1 ELSE 0
            /\ \A k \in 1 .. Len(ls) - m + 1 : SubSeq(ls, m, Len(ls))[k] = ls[m + k - 1]
        BY <3>1, <3>2, SubSeqProperties
      <3> QED BY <3>3 DEF m
    <2> DEFINE len == Len(rest)
               size == Len(ls)
    <2>3. /\ size \in Nat /\ i \in 1 .. size
          /\ len = IF i + 1 <= size THEN size - (i + 1) + 1 ELSE 0
      BY <1>1, <1>2, <2>2
    <2> HIDE DEF len, size
    <2>4. len = size - i
      BY <2>3
    <2>5. ASSUME NEW k \in 1 .. size - i PROVE rest[k] = ls[i + k]
      <3>1. k \in 1 .. size - (i + 1) + 1 /\ (i + 1) + k - 1 = i + k
        BY <2>3
      <3>2. rest[k] = ls[(i + 1) + k - 1]
        BY <2>2, <3>1 DEF size
      <3> QED BY <3>1, <3>2
    <2> QED BY <2>2, <2>4, <2>5 DEF len, size
  <1> HIDE DEF head, rest
  <1>6. CASE rest = <<>>
    <2>1. Len(ls) = i
      BY <1>1, <1>2, <1>5, <1>6, EmptySeq
    <2>2. stub \o txt.rest \in Seq(STRING) /\ (stub = <<>> => stub \o txt.rest = txt.rest)
      BY <1>1, <1>2, ConcatProperties, ConcatEmptySeq
    <2> DEFINE r == stub \o txt.rest
    <2>3. Without(txt, word) = [lines |-> head, rest |-> r]
      BY <1>3, <1>6
    <2> HIDE DEF r
    <2>4. r \in Seq(STRING) /\ (stub = <<>> => r = txt.rest)
      BY <2>2 DEF r
    <2>5. Without(txt, word) \in TextSet(t)
      BY <1>4, <2>3, <2>4 DEF TextSet
    <2> QED BY <1>2, <1>4, <2>1, <2>3, <2>4, <2>5 DEF i, stub
  <1>7. CASE rest # <<>>
    <2>1. Head(rest) \in L /\ Tail(rest) \in Seq(L) /\ Len(Tail(rest)) = Len(rest) - 1
          /\ \A k \in 1 .. Len(Tail(rest)) : Tail(rest)[k] = rest[k + 1]
      BY <1>5, <1>7, HeadTailProperties
    <2>2. Head(rest) = rest[1]
      BY <1>5, <1>7
    <2> DEFINE h == Head(rest)
               w == stub \o h.word
               g == [h EXCEPT !.word = w]
               tl == Tail(rest)
    <2>3. h.word \in Word /\ h.tail \in Tails(t) /\ h = [word |-> h.word, tail |-> h.tail]
      BY <2>1 DEF LineSet
    <2>4. w \in Word /\ (stub = <<>> => w = h.word)
      BY <1>2, <2>3, JoinWords
    <2>5. Without(txt, word) = [lines |-> head \o <<g>> \o tl, rest |-> txt.rest]
      BY <1>3, <1>7
    <2>6. g \in L /\ (stub = <<>> => g = h)
      <3> HIDE DEF w
      <3>1. g = [word |-> w, tail |-> h.tail]
        BY <2>3
      <3> QED BY <2>3, <2>4, <3>1 DEF LineSet
    <2>7. h = ls[i + 1] /\ tl \in Seq(L) /\ Len(tl) = Len(ls) - i - 1
          /\ \A k \in 1 .. Len(tl) : tl[k] = ls[i + 1 + k]
      <3>1. Len(rest) \in Nat /\ Len(rest) # 0
        BY <1>5, <1>7, EmptySeq, LenProperties
      <3>2. 1 \in 1 .. Len(ls) - i
        BY <1>1, <1>2, <1>5, <3>1
      <3>3. rest[1] = ls[i + 1]
        BY <1>5, <3>2
      <3>4. Len(tl) = Len(ls) - i - 1
        BY <1>1, <1>2, <1>5, <2>1
      <3>5. ASSUME NEW k \in 1 .. Len(tl) PROVE tl[k] = ls[i + 1 + k]
        <4>1. tl[k] = rest[k + 1] /\ k + 1 \in 1 .. Len(ls) - i
          BY <2>1, <3>4, <1>1, <1>2
        <4>2. rest[k + 1] = ls[i + (k + 1)]
          BY <1>5, <4>1
        <4>3. i + (k + 1) = i + 1 + k
          BY <1>1, <1>2
        <4> QED BY <4>1, <4>2, <4>3
      <3> QED BY <2>1, <2>2, <3>3, <3>4, <3>5
    <2> HIDE DEF h, g, tl, w
    <2> DEFINE new == head \o <<g>> \o tl
    <2>8. <<g>> \in Seq(L) /\ Len(<<g>>) = 1 /\ <<g>>[1] = g
      BY <2>6
    <2> DEFINE one == <<g>>
               front == head \o one
    <2>9. one \in Seq(L) /\ Len(one) = 1 /\ one[1] = g
      BY <2>8
    <2> HIDE DEF one
    <2>10. front \in Seq(L) /\ Len(front) = i
           /\ \A k \in 1 .. i : front[k] = IF k < i THEN head[k] ELSE g
      <3>1. front \in Seq(L) /\ Len(front) = Len(head) + Len(one)
            /\ \A k \in 1 .. Len(head) + Len(one) :
                 front[k] = IF k <= Len(head) THEN head[k] ELSE one[k - Len(head)]
        BY <1>4, <2>9, ConcatProperties
      <3> HIDE DEF front
      <3>2. Len(head) + Len(one) = i
        BY <1>2, <1>4, <2>9
      <3>3. ASSUME NEW k \in 1 .. i PROVE front[k] = IF k < i THEN head[k] ELSE g
        BY <1>2, <1>4, <2>9, <3>1, <3>2
      <3> QED BY <3>1, <3>2, <3>3
    <2> HIDE DEF front
    <2>11. new = front \o tl
      BY DEF front, one
    <2>12. front \o tl \in Seq(L) /\ Len(front \o tl) = Len(front) + Len(tl)
           /\ \A k \in 1 .. Len(front) + Len(tl) :
                (front \o tl)[k] = IF k <= Len(front) THEN front[k] ELSE tl[k - Len(front)]
      BY <2>7, <2>10, ConcatProperties
    <2> HIDE DEF new
    <2>13. new \in Seq(L) /\ Len(new) = Len(ls) - 1
           /\ \A k \in 1 .. Len(ls) - 1 : new[k] = IF k <= i THEN front[k] ELSE tl[k - i]
      <3>1. Len(front) + Len(tl) = Len(ls) - 1
        BY <1>1, <1>2, <2>7, <2>10
      <3> QED BY <2>10, <2>11, <2>12, <3>1
    <2>14. ASSUME stub = <<>>, NEW k \in 1 .. Len(ls) - 1
           PROVE  new[k] = ls[IF k < i THEN k ELSE k + 1]
      <3>1. CASE k < i
        <4>1. k \in 1 .. i - 1 /\ k \in 1 .. i /\ k <= i
          BY <1>2, <3>1
        <4>2. new[k] = front[k]
          BY <2>13, <4>1
        <4>3. front[k] = head[k]
          BY <2>10, <3>1, <4>1
        <4>4. head[k] = ls[k]
          BY <1>4, <4>1
        <4> QED BY <3>1, <4>2, <4>3, <4>4
      <3>2. CASE k = i
        <4>1. new[k] = g
          BY <1>1, <1>2, <2>10, <2>13, <3>2
        <4> QED BY <2>6, <2>7, <2>14, <3>2, <4>1
      <3>3. CASE k > i
        <4>1. k - i \in 1 .. Len(tl) /\ new[k] = tl[k - i]
          <5>1. new[k] = tl[k - i]
            BY <1>2, <2>13, <3>3
          <5>2. k - i \in Int /\ k - i >= 1 /\ k - i <= (Len(ls) - 1) - i
            BY <1>1, <1>2, <3>3
          <5>3. Len(tl) = (Len(ls) - 1) - i
            BY <1>1, <1>2, <2>7
          <5> QED BY <5>1, <5>2, <5>3
        <4>2. tl[k - i] = ls[i + 1 + (k - i)]
          BY <2>7, <4>1
        <4>3. i + 1 + (k - i) = k + 1
          BY <1>2
        <4> QED BY <1>2, <3>3, <4>1, <4>2, <4>3
      <3> QED BY <1>2, <3>1, <3>2, <3>3
    <2>15. Without(txt, word) = [lines |-> new, rest |-> txt.rest]
      BY <2>5 DEF new
    <2>16. Without(txt, word) \in TextSet(t)
      BY <1>1, <2>13, <2>15 DEF TextSet
    <2> QED BY <2>13, <2>14, <2>15, <2>16 DEF i, stub
  <1> QED BY <1>6, <1>7

\* What an addition adds.
LEMMA AppendSet ==
  ASSUME NEW S, NEW s \in Seq(S), NEW l \in S
  PROVE  ToSet(Append(s, l)) = ToSet(s) \cup {l}
  <1> DEFINE a == Append(s, l)
             n == Len(s)
  <1>1. n \in Nat /\ DOMAIN s = 1 .. n
    BY LenProperties
  <1>2. /\ a \in Seq(S) /\ Len(a) = n + 1
        /\ \A k \in 1 .. n : a[k] = s[k]
        /\ a[n + 1] = l
    BY AppendProperties
  <1>3. DOMAIN a = 1 .. n + 1
    BY <1>2, LenProperties
  <1> HIDE DEF a, n
  <1>4. ToSet(a) = {a[k] : k \in 1 .. n + 1} /\ ToSet(s) = {s[k] : k \in 1 .. n}
    BY <1>1, <1>3 DEF ToSet
  <1>5. 1 .. n + 1 = (1 .. n) \cup {n + 1}
    BY <1>1
  <1>6. {a[k] : k \in 1 .. n} = {s[k] : k \in 1 .. n}
    BY <1>2
  <1>7. {a[k] : k \in 1 .. n + 1} = {a[k] : k \in 1 .. n} \cup {a[n + 1]}
    BY <1>5
  <1> QED BY <1>2, <1>4, <1>6, <1>7 DEF a

\* One turn of the loop that picks lines, and the loop of n turns.
Turn(got, line, wanted) == IF line \in wanted THEN Append(got, line) ELSE got
Turns(f, lines, wanted, number) ==
  f = [n \in 0 .. number |-> IF n = 0 THEN <<>> ELSE Turn(f[n - 1], lines[n], wanted)]

\* The least number without such a loop would be one turn more than its
\* predecessor.
LEMMA TurnsExist ==
  ASSUME NEW lines, NEW wanted, NEW number \in Nat
  PROVE  \E f : Turns(f, lines, wanted, number)
  <1> DEFINE Bad == {n \in Nat : ~\E f : Turns(f, lines, wanted, n)}
  <1>1. \E f : Turns(f, lines, wanted, 0)
    <2> DEFINE f == [n \in 0 .. 0 |-> <<>>]
    <2>1. f = [n \in 0 .. 0 |-> IF n = 0 THEN <<>> ELSE Turn(f[n - 1], lines[n], wanted)]
      OBVIOUS
    <2> QED BY <2>1 DEF Turns
  <1>2. ASSUME NEW n \in Nat, NEW f, Turns(f, lines, wanted, n)
        PROVE  \E g : Turns(g, lines, wanted, n + 1)
    <2> DEFINE g == [m \in 0 .. n + 1 |-> IF m = 0 THEN <<>> ELSE Turn(f[m - 1], lines[m], wanted)]
    <2>1. \A m \in 0 .. n : f[m] = IF m = 0 THEN <<>> ELSE Turn(f[m - 1], lines[m], wanted)
      BY <1>2 DEF Turns
    <2>2. \A m \in 0 .. n : g[m] = f[m]
      BY <2>1
    <2>3. \A m \in 0 .. n + 1 : m # 0 => m - 1 \in 0 .. n
      OBVIOUS
    <2>4. \A m \in 0 .. n + 1 :
            (IF m = 0 THEN <<>> ELSE Turn(f[m - 1], lines[m], wanted))
              = (IF m = 0 THEN <<>> ELSE Turn(g[m - 1], lines[m], wanted))
      BY <2>2, <2>3
    <2>5. g = [m \in 0 .. n + 1 |-> IF m = 0 THEN <<>> ELSE Turn(g[m - 1], lines[m], wanted)]
      BY <2>4
    <2> QED BY <2>5 DEF Turns
  <1>3. Bad = {}
    <2> SUFFICES ASSUME Bad # {} PROVE FALSE
      OBVIOUS
    <2>1. Bad \in SUBSET Nat
      OBVIOUS
    <2>2. PICK n \in Bad : \A m \in Bad : n <= m
      <3> HIDE DEF Bad
      <3> QED BY <2>1, SmallestIn
    <2>3. n # 0 /\ n \in Nat
      BY <1>1
    <2>4. n - 1 \in Nat /\ n - 1 + 1 = n
      BY <2>3
    <2>5. n - 1 \notin Bad
      <3> HIDE DEF Bad
      <3> QED BY <2>2, <2>3
    <2>6. PICK f : Turns(f, lines, wanted, n - 1)
      BY <2>4, <2>5
    <2>7. \E g : Turns(g, lines, wanted, n - 1 + 1)
      BY <1>2, <2>4, <2>6
    <2> QED BY <2>4, <2>7
  <1> QED BY <1>3

\* The loop keeps the wanted lines and no others.
LEMMA PickedIs ==
  ASSUME NEW S, NEW lines \in Seq(S), NEW wanted
  PROVE  /\ Picked(lines, wanted) \in Seq(S)
         /\ ToSet(Picked(lines, wanted)) = ToSet(lines) \cap wanted
  <1> DEFINE number == Len(lines)
             f == CHOOSE g : Turns(g, lines, wanted, number)
  <1>1. number \in Nat /\ DOMAIN lines = 1 .. number
    BY LenProperties
  <1>2. Turns(f, lines, wanted, number)
    <2> HIDE DEF number
    <2> QED BY <1>1, TurnsExist
  <1>3. Picked(lines, wanted) = f[number]
    BY DEF Picked, Turns, Turn
  <1> HIDE DEF f, number
  <1>4. f[0] = <<>> /\ \A n \in 1 .. number : f[n] = Turn(f[n - 1], lines[n], wanted)
    <2>1. \A n \in 0 .. number : f[n] = IF n = 0 THEN <<>> ELSE Turn(f[n - 1], lines[n], wanted)
      BY <1>2 DEF Turns
    <2> QED BY <1>1, <2>1
  <1> DEFINE Good(n) == /\ f[n] \in Seq(S)
                        /\ ToSet(f[n]) = {lines[k] : k \in 1 .. n} \cap wanted
             Bad == {n \in 0 .. number : ~Good(n)}
  <1>5. Good(0)
    <2>1. ToSet(f[0]) = {} /\ f[0] \in Seq(S)
      BY <1>4 DEF ToSet
    <2>2. 1 .. 0 = {}
      OBVIOUS
    <2>3. {lines[k] : k \in 1 .. 0} = {}
      BY <2>2
    <2> QED BY <2>1, <2>3
  <1>6. ASSUME NEW n \in 1 .. number, Good(n - 1) PROVE Good(n)
    <2> DEFINE s == f[n - 1]
               l == lines[n]
    <2>1. s \in Seq(S) /\ l \in S
      BY <1>1, <1>6, ElementOfSeq DEF number
    <2>2. ToSet(s) = {lines[k] : k \in 1 .. n - 1} \cap wanted
      BY <1>6
    <2>3. {lines[k] : k \in 1 .. n} = {lines[k] : k \in 1 .. n - 1} \cup {l}
      <3>1. 1 .. n = (1 .. n - 1) \cup {n}
        OBVIOUS
      <3> QED BY <3>1
    <2>4. f[n] = IF l \in wanted THEN Append(s, l) ELSE s
      BY <1>4 DEF Turn
    <2> HIDE DEF s, l
    <2>5. Append(s, l) \in Seq(S) /\ ToSet(Append(s, l)) = ToSet(s) \cup {l}
      <3>1. Append(s, l) \in Seq(S)
        BY <2>1, AppendProperties
      <3> QED BY <2>1, <3>1, AppendSet
    <2> QED BY <2>1, <2>2, <2>3, <2>4, <2>5
  <1>7. Good(number)
    <2> SUFFICES ASSUME ~Good(number) PROVE FALSE
      OBVIOUS
    <2>1. Bad \in SUBSET Nat /\ Bad # {}
      <3> HIDE DEF Good
      <3> QED BY <1>1
    <2>2. PICK n \in Bad : \A m \in Bad : n <= m
      <3> HIDE DEF Bad
      <3> QED BY <2>1, SmallestIn
    <2>3. n \in 0 .. number /\ n # 0
      BY <1>5, <2>2
    <2>4. n - 1 \in 0 .. number /\ n \in 1 .. number /\ ~(n <= n - 1)
      BY <1>1, <2>3
    <2>5. n - 1 \notin Bad
      <3> HIDE DEF Bad
      <3> QED BY <2>2, <2>4
    <2>6. Good(n - 1)
      BY <2>4, <2>5
    <2>7. Good(n)
      BY <1>6, <2>4, <2>6
    <2> QED BY <2>2, <2>7
  <1>8. {lines[k] : k \in 1 .. number} = ToSet(lines)
    BY <1>1 DEF ToSet
  <1> QED BY <1>3, <1>7, <1>8

-----------------------------------------------------------------------------
(* Requests and their calls                                                *)

\* A call made for a user.
Fits(c, u) ==
  IF subject = "club"
  THEN /\ c.tail = Bare
       /\ \/ c.file = u /\ c.word = Club
          \/ c.file = "club_users" /\ c.word = Spelling[u]
  ELSE c.file = "deny_users" /\ (c.op = "add" => c.tail # Bare)

JobOK(j) == j \in JobSet(now) /\ (j.kind \in {"deny", "redeny"} => j.until # Bare)

LEMMA CallIs ==
  ASSUME now \in Nat \ {0}, NEW op \in {"add", "del"}, NEW f \in Paths, NEW w \in Word,
         NEW e \in Tails(now)
  PROVE  /\ Call(op, f, w, e) \in CallSet(now)
         /\ Call(op, f, w, e).op = op /\ Call(op, f, w, e).file = f
         /\ Call(op, f, w, e).word = w /\ Call(op, f, w, e).tail = e
  BY DEF Call, CallSet

LEMMA PathsAre ==
  /\ "deny_users" \in Paths /\ "club_users" \in Paths /\ Users \subseteq Paths
  /\ "deny_users" # "club_users"
  /\ \A u \in Users : u # "deny_users" /\ u # "club_users"
  BY NameListsAssumption

LEMMA OneCall ==
  ASSUME NEW S, NEW c \in S
  PROVE  /\ <<c>> \in Seq(S) /\ <<c>> # <<>> /\ Head(<<c>>) = c /\ Tail(<<c>>) = <<>>
         /\ Len(<<c>>) = 1
  OBVIOUS

LEMMA TwoCalls ==
  ASSUME NEW S, NEW c \in S, NEW d \in S
  PROVE  /\ <<c, d>> \in Seq(S) /\ <<c, d>> # <<>> /\ Head(<<c, d>>) = c
         /\ Tail(<<c, d>>) = <<d>> /\ Len(<<c, d>>) = 2
  OBVIOUS

\* The calls of a job fit its user, and after each of them the job goes on.
LEMMA LeftIs ==
  ASSUME subject \in {"club", "deny"}, now \in Nat \ {0}, NEW j, JobOK(j), NEW s \in Left(j)
  PROVE  /\ s \in Seq(CallSet(now)) /\ <<>> \in Left(j)
         /\ s # <<>> => /\ Tail(s) \in Left(j)
                        /\ Head(s) \in CallSet(now) /\ Fits(Head(s), j.who)
  <1> DEFINE u == j.who
             id == Spelling[u]
             C == CallSet(now)
             cs == Calls(j)
  <1>1. /\ u \in Users /\ j.kind \in Kinds /\ j.until \in Tails(now)
        /\ id \in Word /\ Club \in Word /\ Bare \in Tails(now)
    BY WordOf, TailsAre DEF JobOK, JobSet
  <1>2. \E c \in C : Fits(c, u) /\ (cs = <<c>> \/ \E d \in C : cs = <<c, d>> /\ Fits(d, u))
    <2>1. CASE j.kind = "join"
      <3> DEFINE c == Call("add", u, Club, Bare)
                 d == Call("add", "club_users", id, Bare)
      <3>1. subject = "club" /\ cs = <<c, d>>
        BY <1>1, <2>1 DEF Kinds, Calls
      <3>2. c \in C /\ c.file = u /\ c.word = Club /\ c.tail = Bare
        BY <1>1, PathsAre, CallIs
      <3>3. d \in C /\ d.file = "club_users" /\ d.word = id /\ d.tail = Bare
        BY <1>1, PathsAre, CallIs
      <3> HIDE DEF c, d
      <3> QED BY <3>1, <3>2, <3>3 DEF Fits
    <2>2. CASE j.kind = "expel"
      <3> DEFINE c == Call("del", u, Club, Bare)
                 d == Call("del", "club_users", id, Bare)
      <3>1. subject = "club" /\ cs = <<c, d>>
        BY <1>1, <2>2 DEF Kinds, Calls
      <3>2. c \in C /\ c.file = u /\ c.word = Club /\ c.tail = Bare
        BY <1>1, PathsAre, CallIs
      <3>3. d \in C /\ d.file = "club_users" /\ d.word = id /\ d.tail = Bare
        BY <1>1, PathsAre, CallIs
      <3> HIDE DEF c, d
      <3> QED BY <3>1, <3>2, <3>3 DEF Fits
    <2> DEFINE a == Call("add", "deny_users", id, j.until)
               b == Call("del", "deny_users", id, Bare)
    <2>3. a \in C /\ a.file = "deny_users" /\ a.tail = j.until
      BY <1>1, PathsAre, CallIs
    <2>4. b \in C /\ b.file = "deny_users" /\ b.op = "del"
      BY <1>1, PathsAre, CallIs
    <2>5. CASE j.kind = "deny"
      <3>1. subject # "club" /\ cs = <<a>> /\ j.until # Bare
        BY <1>1, <2>5 DEF Kinds, Calls, JobOK
      <3> HIDE DEF a, b
      <3> QED BY <2>3, <3>1 DEF Fits
    <2>6. CASE j.kind = "redeny"
      <3>1. subject # "club" /\ cs = <<b, a>> /\ j.until # Bare
        BY <1>1, <2>6 DEF Kinds, Calls, JobOK
      <3> HIDE DEF a, b
      <3> QED BY <2>3, <2>4, <3>1 DEF Fits
    <2>7. CASE j.kind \in {"undeny", "article"}
      <3>1. subject # "club" /\ cs = <<b>>
        BY <1>1, <2>7 DEF Kinds, Calls
      <3> HIDE DEF a, b
      <3> QED BY <2>4, <3>1 DEF Fits
    <2> QED BY <1>1, <2>1, <2>2, <2>5, <2>6, <2>7 DEF Kinds
  <1> HIDE DEF C, cs
  <1>3. Left(j) = {cs, Tail(cs), <<>>}
    BY DEF Left, cs
  <1>4. PICK c \in C : Fits(c, u) /\ (cs = <<c>> \/ \E d \in C : cs = <<c, d>> /\ Fits(d, u))
    BY <1>2
  <1>5. <<>> \in Seq(C)
    OBVIOUS
  <1>6. CASE cs = <<c>>
    <2>1. cs \in Seq(C) /\ Head(cs) = c /\ Tail(cs) = <<>>
      BY <1>6, OneCall
    <2> QED BY <1>3, <1>4, <1>5, <2>1 DEF C
  <1>7. CASE cs # <<c>>
    <2>1. PICK d \in C : cs = <<c, d>> /\ Fits(d, u)
      BY <1>4, <1>7
    <2>2. cs \in Seq(C) /\ Head(cs) = c /\ Tail(cs) = <<d>>
      BY <2>1, TwoCalls
    <2> DEFINE tl == <<d>>
    <2>3. tl \in Seq(C) /\ Head(tl) = d /\ Tail(tl) = <<>>
      BY OneCall
    <2> HIDE DEF tl
    <2>4. Tail(cs) = tl
      BY <2>2 DEF tl
    <2> QED BY <1>3, <1>4, <1>5, <2>1, <2>2, <2>3, <2>4 DEF C
  <1> QED BY <1>6, <1>7

\* The call under way fits the user it is made for.
LEMMA CallFits ==
  ASSUME FilesOK, JobsOK, NEW p \in Procs, todo[p] # <<>>
  PROVE  /\ Who(p) \in Users
         /\ Head(todo[p]) \in CallSet(now) /\ Fits(Head(todo[p]), Who(p))
         /\ p \in Managers => /\ p \notin Sessions /\ Who(p) = job[p].who
                              /\ job[p].run /\ JobOK(job[p])
                              /\ todo[p] \in Left(job[p]) /\ Tail(todo[p]) \in Left(job[p])
         /\ p \in Sessions => subject = "club" /\ p \in suspect /\ Tail(todo[p]) = <<>>
  <1>1. subject \in {"club", "deny"} /\ now \in Nat \ {0}
    BY DEF FilesOK
  <1>2. CASE p \in Managers
    <2>1. p \notin Sessions /\ Who(p) = job[p].who
      BY <1>2, NameListsAssumption DEF Who
    <2>2. job[p].run /\ todo[p] \in Left(job[p])
      BY <1>2 DEF JobsOK
    <2>3. JobOK(job[p])
      BY <1>2, <2>2 DEF JobsOK, JobOK, NoJob
    <2>4. Tail(todo[p]) \in Left(job[p]) /\ Head(todo[p]) \in CallSet(now)
          /\ Fits(Head(todo[p]), job[p].who)
      BY <1>1, <2>2, <2>3, LeftIs
    <2>5. job[p].who \in Users
      BY <2>3 DEF JobOK, JobSet
    <2> QED BY <2>1, <2>2, <2>3, <2>4, <2>5
  <1>3. CASE p \notin Managers
    <2>1. p \in Sessions /\ p \in Users /\ Who(p) = p
      BY <1>3, NameListsAssumption DEF Who
    <2>2. subject = "club" /\ p \in suspect
      BY <2>1 DEF JobsOK
    <2>3. PICK op \in {"add", "del"} : todo[p] = <<Call(op, p, Club, Bare)>>
      BY <2>1 DEF JobsOK
    <2> DEFINE c == Call(op, p, Club, Bare)
    <2>4. c \in CallSet(now) /\ c.file = p /\ c.word = Club /\ c.tail = Bare
      BY <1>1, <2>1, PathsAre, CallIs, WordOf, TailsAre
    <2> HIDE DEF c
    <2>5. todo[p] = <<c>>
      BY <2>3 DEF c
    <2>6. Head(todo[p]) = c /\ Tail(todo[p]) = <<>>
      BY <2>4, <2>5, OneCall
    <2> QED BY <1>3, <2>1, <2>2, <2>4, <2>6 DEF Fits
  <1> QED BY <1>2, <1>3

LEMMA HandIs ==
  ASSUME NEW t \in Nat, NEW h \in HandSet(t)
  PROVE  /\ h.fd \in Nat /\ h.src \in TextSet(t) /\ h.mtime \in 0 .. t
         /\ h.at \in {"out", "opened", "buffered", "copied"}
         /\ h = [at |-> h.at, fd |-> h.fd, src |-> h.src, mtime |-> h.mtime]
  BY DEF HandSet

LEMMA NoHandIs ==
  ASSUME NEW t \in Nat
  PROVE  /\ NoHand \in HandSet(t) /\ NoHand.at = "out" /\ NoHand.fd = 0
         /\ Text(<<>>) \in TextSet(t) /\ Text(<<>>).rest = <<>> /\ Text(<<>>).lines = <<>>
  <1>1. <<>> \in Seq(STRING) /\ <<>> \in Seq(LineSet(t))
    OBVIOUS
  <1>2. Text(<<>>) \in TextSet(t) /\ Text(<<>>).rest = <<>> /\ Text(<<>>).lines = <<>>
    BY <1>1 DEF Text, TextSet
  <1> DEFINE e == Text(<<>>)
  <1> HIDE DEF e
  <1>3. NoHand = [at |-> "out", fd |-> 0, src |-> e, mtime |-> 0]
    BY DEF NoHand, NoFile, e
  <1>4. e \in TextSet(t)
    BY <1>2 DEF e
  <1>5. NoHand \in HandSet(t)
    BY <1>3, <1>4 DEF HandSet
  <1> QED BY <1>2, <1>3, <1>5

LEMMA OpenedHand ==
  ASSUME NEW t \in Nat, NEW fd \in Nat
  PROVE  LET got == [NoHand EXCEPT !.at = "opened", !.fd = fd]
         IN  got \in HandSet(t) /\ got.at = "opened" /\ got.fd = fd
  <1> DEFINE e == Text(<<>>)
             n == NoHand
             g == [n EXCEPT !.at = "opened"]
             k == [g EXCEPT !.fd = fd]
  <1>1. n = [at |-> "out", fd |-> 0, src |-> e, mtime |-> 0]
    BY DEF NoHand, NoFile
  <1>2. e \in TextSet(t)
    BY NoHandIs
  <1> HIDE DEF e, n
  <1>3. g = [at |-> "opened", fd |-> 0, src |-> e, mtime |-> 0]
    BY <1>1
  <1>4. [n EXCEPT !.at = "opened", !.fd = fd] = k
    OBVIOUS
  <1> HIDE DEF g
  <1>5. k = [at |-> "opened", fd |-> fd, src |-> e, mtime |-> 0]
    BY <1>3
  <1> HIDE DEF k
  <1>6. k \in HandSet(t) /\ k.at = "opened" /\ k.fd = fd
    BY <1>2, <1>5 DEF HandSet
  <1> QED BY <1>4, <1>6 DEF n

LEMMA BufferedHand ==
  ASSUME NEW t \in Nat, NEW h \in HandSet(t)
  PROVE  LET got == [h EXCEPT !.at = "buffered"]
         IN  got \in HandSet(t) /\ got.at = "buffered" /\ got.fd = h.fd
  BY DEF HandSet

CopyOf(h, txt, t) == [h EXCEPT !.at = "copied", !.src = txt, !.mtime = t]

LEMMA CopiedHand ==
  ASSUME NEW t \in Nat, NEW h \in HandSet(t), NEW txt \in TextSet(t)
  PROVE  LET got == CopyOf(h, txt, t)
         IN  /\ got \in HandSet(t) /\ got.at = "copied" /\ got.fd = h.fd
             /\ got.src = txt /\ got.mtime = t
  <1> DEFINE fd == h.fd
             g == [h EXCEPT !.at = "copied"]
             k == [g EXCEPT !.src = txt]
             l == [k EXCEPT !.mtime = t]
  <1>1. fd \in Nat /\ t \in 0 .. t
    BY HandIs
  <1>2. g = [at |-> "copied", fd |-> fd, src |-> h.src, mtime |-> h.mtime]
    BY DEF HandSet
  <1>3. [h EXCEPT !.at = "copied", !.src = txt, !.mtime = t] = l
    OBVIOUS
  <1> HIDE DEF fd, g
  <1>4. k = [at |-> "copied", fd |-> fd, src |-> txt, mtime |-> h.mtime]
    BY <1>2
  <1> HIDE DEF k
  <1>5. l = [at |-> "copied", fd |-> fd, src |-> txt, mtime |-> t]
    BY <1>4
  <1> HIDE DEF l
  <1>6. l \in HandSet(t) /\ l.at = "copied" /\ l.fd = fd /\ l.src = txt /\ l.mtime = t
    BY <1>1, <1>5 DEF HandSet
  <1> QED BY <1>3, <1>6 DEF fd, CopyOf

-----------------------------------------------------------------------------
(* The steps of the calls                                                  *)

\* What a step does to the files: nothing, a new inode at the path of its
\* call, or new text in the inode that it holds.
Rewritten(fd, txt) ==
  /\ text' = [text EXCEPT ![fd] = txt] /\ stamp' = [stamp EXCEPT ![fd] = now]
  /\ UNCHANGED <<path, lock>>

Touches(p) ==
  \/ UNCHANGED files
  \/ \E txt \in TextSet(now), m \in 1 .. now : NewInode(Head(todo[p]).file, txt, m)
  \/ hand[p].at = "buffered" /\ \E txt \in TextSet(now) : Rewritten(hand[p].fd, txt)

\* What it does to the call: it goes on, or it ends.
MovesTo(p, got) ==
  /\ Goes(p, got) /\ got.at # "out"
  /\ got.fd = IF hand[p].at = "out" THEN path'[Head(todo[p]).file] ELSE hand[p].fd
  /\ got.fd \in 1 .. Len(text')
  /\ got.at = "buffered" => Head(todo[p]).op = "add"
  /\ got.at = "copied" => /\ Head(todo[p]).op = "del" /\ got.mtime # 0
                          /\ Occurrences(got.src, Head(todo[p]).word) # {}

Moves(p) == \E got \in HandSet(now) : MovesTo(p, got)
Ends(p) == \E r \in {-1, 0, 1} : Returns(p, r)

LEMMA FilesAre ==
  ASSUME FilesOK
  PROVE  /\ now \in Nat \ {0} /\ Len(text) \in Nat /\ DOMAIN text = 1 .. Len(text)
         /\ \A f \in Paths : path[f] \in 0 .. Len(text)
         /\ \A i \in 1 .. Len(text) : text[i] \in TextSet(now) /\ stamp[i] \in 1 .. now
         /\ DOMAIN stamp = 1 .. Len(text) /\ DOMAIN lock = 1 .. Len(text)
  <1>1. /\ now \in Nat \ {0} /\ text \in Seq(TextSet(now)) /\ stamp \in Seq(1 .. now)
        /\ Len(stamp) = Len(text) /\ path \in [Paths -> 0 .. Len(text)]
        /\ lock \in Seq({NoProc, "cron"}) /\ Len(lock) = Len(text)
    BY DEF FilesOK
  <1>2. Len(text) \in Nat /\ DOMAIN text = 1 .. Len(text)
        /\ DOMAIN stamp = 1 .. Len(text) /\ DOMAIN lock = 1 .. Len(text)
    BY <1>1, LenProperties
  <1>3. \A i \in 1 .. Len(text) : text[i] \in TextSet(now) /\ stamp[i] \in 1 .. now
    BY <1>1, ElementOfSeq
  <1> QED BY <1>1, <1>2, <1>3

LEMMA PlacedIs ==
  ASSUME FilesOK, NEW f \in Paths, NEW txt \in TextSet(now), NEW m \in 1 .. now,
         NewInode(f, txt, m)
  PROVE  /\ text' \in Seq(TextSet(now)) /\ Len(text') = Len(text) + 1
         /\ stamp' \in Seq(1 .. now) /\ Len(stamp') = Len(text) + 1
         /\ lock' \in Seq({NoProc, "cron"}) /\ Len(lock') = Len(text) + 1
         /\ \A i \in 1 .. Len(text) : text'[i] = text[i] /\ stamp'[i] = stamp[i] /\ lock'[i] = lock[i]
         /\ text'[Len(text) + 1] = txt /\ stamp'[Len(text) + 1] = m
         /\ lock'[Len(text) + 1] = NoProc
         /\ path' = [path EXCEPT ![f] = Len(text) + 1]
  <1>1. /\ text \in Seq(TextSet(now)) /\ stamp \in Seq(1 .. now) /\ Len(stamp) = Len(text)
        /\ lock \in Seq({NoProc, "cron"}) /\ Len(lock) = Len(text)
    BY DEF FilesOK
  <1>2. /\ text' = Append(text, txt) /\ stamp' = Append(stamp, m) /\ lock' = Append(lock, NoProc)
        /\ path' = [path EXCEPT ![f] = Len(text) + 1]
    BY DEF NewInode
  <1>3. /\ text' \in Seq(TextSet(now)) /\ Len(text') = Len(text) + 1
        /\ \A i \in 1 .. Len(text) : text'[i] = text[i]
        /\ text'[Len(text) + 1] = txt
    BY <1>1, <1>2, AppendProperties
  <1>4. /\ stamp' \in Seq(1 .. now) /\ Len(stamp') = Len(stamp) + 1
        /\ \A i \in 1 .. Len(stamp) : stamp'[i] = stamp[i]
        /\ stamp'[Len(stamp) + 1] = m
    BY <1>1, <1>2, AppendProperties
  <1>5. /\ lock' \in Seq({NoProc, "cron"}) /\ Len(lock') = Len(lock) + 1
        /\ \A i \in 1 .. Len(lock) : lock'[i] = lock[i]
        /\ lock'[Len(lock) + 1] = NoProc
    <2>1. NoProc \in {NoProc, "cron"}
      OBVIOUS
    <2> QED BY <1>1, <1>2, <2>1, AppendProperties
  <1> QED BY <1>1, <1>2, <1>3, <1>4, <1>5

LEMMA RewrittenIs ==
  ASSUME FilesOK, NEW fd \in 1 .. Len(text), NEW txt \in TextSet(now), Rewritten(fd, txt)
  PROVE  /\ text' \in Seq(TextSet(now)) /\ Len(text') = Len(text)
         /\ stamp' \in Seq(1 .. now) /\ Len(stamp') = Len(text)
         /\ \A i \in 1 .. Len(text) : /\ text'[i] = IF i = fd THEN txt ELSE text[i]
                                      /\ stamp'[i] = IF i = fd THEN now ELSE stamp[i]
         /\ path' = path /\ lock' = lock
  <1>1. /\ text \in Seq(TextSet(now)) /\ stamp \in Seq(1 .. now) /\ Len(stamp) = Len(text)
        /\ now \in 1 .. now
    BY DEF FilesOK
  <1>2. /\ text' = [text EXCEPT ![fd] = txt] /\ stamp' = [stamp EXCEPT ![fd] = now]
        /\ path' = path /\ lock' = lock
    BY DEF Rewritten
  <1>3. /\ text' \in Seq(TextSet(now)) /\ Len(text') = Len(text)
        /\ \A i \in 1 .. Len(text) : text'[i] = IF i = fd THEN txt ELSE text[i]
    <2>1. /\ [text EXCEPT ![fd] = txt] \in Seq(TextSet(now)) /\ Len([text EXCEPT ![fd] = txt]) = Len(text)
          /\ \A i \in 1 .. Len(text) : [text EXCEPT ![fd] = txt][i] = IF i = fd THEN txt ELSE text[i]
      BY <1>1, ExceptSeq
    <2> QED BY <1>2, <2>1
  <1>4. /\ stamp' \in Seq(1 .. now) /\ Len(stamp') = Len(stamp)
        /\ \A i \in 1 .. Len(stamp) : stamp'[i] = IF i = fd THEN now ELSE stamp[i]
    <2>1. fd \in 1 .. Len(stamp)
      BY <1>1
    <2>2. /\ [stamp EXCEPT ![fd] = now] \in Seq(1 .. now) /\ Len([stamp EXCEPT ![fd] = now]) = Len(stamp)
          /\ \A i \in 1 .. Len(stamp) : [stamp EXCEPT ![fd] = now][i] = IF i = fd THEN now ELSE stamp[i]
      BY <1>1, <2>1, ExceptSeq
    <2> QED BY <1>2, <2>2
  <1> QED BY <1>1, <1>2, <1>3, <1>4

LEMMA StepShape ==
  ASSUME FilesOK, CallsOK, JobsOK, HandsOK, NEW p \in Procs, CallStep(p)
  PROVE  todo[p] # <<>> /\ Touches(p) /\ (Moves(p) \/ Ends(p))
  <1> DEFINE c == Head(todo[p])
             f == c.file
             h == hand[p]
  <1>1. todo[p] # <<>>
    BY DEF CallStep, AddOpen, AddLock, AddWrite, DelOpen, DelCopy, DelFails, DelRename,
           DelRenameFails, Calling
  <1>2. /\ c \in CallSet(now) /\ f \in Paths /\ c.word \in Word /\ c.tail \in Tails(now)
        /\ c.op \in {"add", "del"}
    BY <1>1, CallFits DEF CallSet
  <1>3. h \in HandSet(now) /\ now \in Nat /\ now \in 1 .. now
    BY DEF CallsOK, FilesOK
  <1>4. h.at # "out" => h.fd \in 1 .. Len(text) /\ text[h.fd] \in TextSet(now)
    BY FilesAre DEF HandsOK
  <1>5. Len(text) \in Nat /\ path[f] \in 0 .. Len(text)
    BY <1>2, FilesAre
  <1>6. h.at = "copied" => /\ h.src \in TextSet(now) /\ h.mtime \in 1 .. now
                           /\ Occurrences(h.src, c.word) # {}
    <2>1. h.src \in TextSet(now) /\ h.mtime \in 0 .. now
      BY <1>3, HandIs
    <2> QED BY <1>3, <2>1 DEF HandsOK
  <1>7. Text(<<>>) \in TextSet(now)
    BY <1>3, NoHandIs
  <1> HIDE DEF c, f, h
  <1>8. CASE AddOpen(p)
    <2> DEFINE got == [NoHand EXCEPT !.at = "opened", !.fd = path'[f]]
    <2>1. Goes(p, got) /\ h.at = "out"
          /\ (NewInode(f, Text(<<>>), now) \/ (path[f] # NoFile /\ UNCHANGED files))
      BY <1>8 DEF AddOpen, Calling, c, f, h
    <2>2. Touches(p)
      BY <1>3, <1>7, <2>1 DEF Touches, c, f
    <2>3. path'[f] \in 1 .. Len(text')
      <3>1. CASE NewInode(f, Text(<<>>), now)
        <4>1. Len(text') = Len(text) + 1 /\ path' = [path EXCEPT ![f] = Len(text) + 1]
          BY <1>2, <1>3, <1>7, <3>1, PlacedIs
        <4>2. path \in [Paths -> 0 .. Len(text)]
          BY DEF FilesOK
        <4> QED BY <1>2, <1>5, <4>1, <4>2
      <3>2. CASE path[f] # NoFile /\ UNCHANGED files
        BY <1>5, <3>2 DEF files, NoFile
      <3> QED BY <2>1, <3>1, <3>2
    <2>4. got \in HandSet(now) /\ got.at = "opened" /\ got.fd = path'[f]
      <3>1. path'[f] \in Nat
        <4>1. Len(text') \in Nat
          <5>1. text' \in Seq(TextSet(now))
            <6>1. text \in Seq(TextSet(now))
              BY DEF FilesOK
            <6>2. NewInode(f, Text(<<>>), now) => text' \in Seq(TextSet(now))
              BY <1>2, <1>3, <1>7, PlacedIs
            <6> QED BY <2>1, <6>1, <6>2 DEF files
          <5> QED BY <5>1, LenProperties
        <4> QED BY <2>3, <4>1
      <3> QED BY <1>3, <3>1, OpenedHand
    <2> HIDE DEF got
    <2>5. Goes(p, got)
      BY <2>1 DEF got
    <2>6. MovesTo(p, got)
      BY <2>1, <2>3, <2>4, <2>5 DEF MovesTo, f, c, h
    <2> QED BY <1>1, <2>2, <2>4, <2>6 DEF Moves
  <1>9. CASE AddLock(p)
    <2> DEFINE got == [h EXCEPT !.at = "buffered"]
    <2>1. Goes(p, got) /\ h.at = "opened" /\ c.op = "add" /\ UNCHANGED files
      BY <1>9 DEF AddLock, Calling, c, h
    <2>2. Touches(p)
      BY <2>1 DEF Touches
    <2>3. got \in HandSet(now) /\ got.at = "buffered" /\ got.fd = h.fd
      BY <1>3, BufferedHand
    <2> HIDE DEF got
    <2>4. got.fd \in 1 .. Len(text')
      BY <1>4, <2>1, <2>3 DEF files
    <2>5. MovesTo(p, got)
      BY <2>1, <2>3, <2>4 DEF MovesTo, c, h
    <2> QED BY <1>1, <2>2, <2>3, <2>5 DEF Moves
  <1>10. CASE AddWrite(p)
    <2> DEFINE new == Appended(text[h.fd], Line(c.word, c.tail))
    <2>1. /\ Returns(p, 1) /\ h.at = "buffered"
          /\ text' = [text EXCEPT ![h.fd] = new] /\ stamp' = [stamp EXCEPT ![h.fd] = now]
          /\ UNCHANGED <<path, lock>>
      <3>1. text' = [text EXCEPT ![h.fd] = Appended(@, Line(c.word, c.tail))]
        BY <1>10 DEF AddWrite, c, h
      <3>2. text' = [text EXCEPT ![h.fd] = new]
        BY <3>1
      <3> QED BY <1>10, <3>2 DEF AddWrite, Calling, c, h
    <2>2. new \in TextSet(now)
      BY <1>2, <1>3, <1>4, <2>1, AppendedText
    <2> HIDE DEF new
    <2>3. Touches(p)
      BY <2>1, <2>2 DEF Touches, Rewritten, h
    <2> QED BY <1>1, <2>1, <2>3 DEF Ends
  <1>11. CASE DelOpen(p)
    <2> DEFINE got == [NoHand EXCEPT !.at = "opened", !.fd = path[f]]
    <2>1. Goes(p, got) /\ h.at = "out" /\ path[f] # NoFile /\ UNCHANGED files
      BY <1>11 DEF DelOpen, Calling, c, f, h
    <2>2. Touches(p)
      BY <2>1 DEF Touches
    <2>3. path[f] \in 1 .. Len(text) /\ path[f] \in Nat
      BY <1>5, <2>1 DEF NoFile
    <2>4. got \in HandSet(now) /\ got.at = "opened" /\ got.fd = path[f]
      BY <1>3, <2>3, OpenedHand
    <2> HIDE DEF got
    <2>5. got.fd \in 1 .. Len(text') /\ path'[f] = path[f]
      BY <2>1, <2>3, <2>4 DEF files
    <2>6. MovesTo(p, got)
      BY <2>1, <2>4, <2>5 DEF MovesTo, c, f, h
    <2> QED BY <1>1, <2>2, <2>4, <2>6 DEF Moves
  <1>12. CASE DelCopy(p)
    <2> DEFINE txt == text[h.fd]
               got == CopyOf(h, txt, now)
    <2>1. /\ Goes(p, got) /\ h.at = "opened" /\ c.op = "del" /\ UNCHANGED files
          /\ Occurrences(txt, c.word) # {}
      BY <1>12 DEF DelCopy, Calling, CopyOf, c, h
    <2>2. Touches(p)
      BY <2>1 DEF Touches
    <2>3. txt \in TextSet(now)
      BY <1>4, <2>1
    <2> HIDE DEF txt
    <2>4. /\ got \in HandSet(now) /\ got.at = "copied" /\ got.fd = h.fd /\ got.src = txt
          /\ got.mtime = now
      BY <1>3, <2>3, CopiedHand
    <2> HIDE DEF got
    <2>5. got.fd \in 1 .. Len(text')
      BY <1>4, <2>1, <2>4 DEF files
    <2>6. got.mtime # 0
      BY <1>3, <2>4
    <2>7. MovesTo(p, got)
      BY <2>1, <2>4, <2>5, <2>6 DEF MovesTo, c, h
    <2> QED BY <1>1, <2>2, <2>4, <2>7 DEF Moves
  <1>13. CASE DelFails(p) \/ DelRenameFails(p)
    <2>1. UNCHANGED files /\ (Returns(p, -1) \/ Returns(p, 0))
      BY <1>13 DEF DelFails, DelRenameFails
    <2> QED BY <1>1, <2>1 DEF Touches, Ends
  <1>14. CASE DelRename(p)
    <2> DEFINE new == Without(h.src, c.word)
    <2>1. Returns(p, 1) /\ h.at = "copied" /\ NewInode(f, new, h.mtime)
      BY <1>14 DEF DelRename, Calling, c, f, h
    <2>2. new \in TextSet(now) /\ h.mtime \in 1 .. now
      BY <1>2, <1>3, <1>6, <2>1, WithoutIs
    <2> HIDE DEF new
    <2>3. Touches(p)
      BY <2>1, <2>2 DEF Touches, c, f
    <2> QED BY <1>1, <2>1, <2>3 DEF Ends
  <1> QED BY <1>8, <1>9, <1>10, <1>11, <1>12, <1>13, <1>14 DEF CallStep

LEMMA TouchedFiles ==
  ASSUME FilesOK, CallsOK, HandsOK, NEW p \in Procs, todo[p] # <<>>, Head(todo[p]).file \in Paths,
         Touches(p)
  PROVE  /\ text' \in Seq(TextSet(now)) /\ path' \in [Paths -> 0 .. Len(text')]
         /\ stamp' \in Seq(1 .. now) /\ Len(stamp') = Len(text')
         /\ lock' \in Seq({NoProc, "cron"}) /\ Len(lock') = Len(text')
         /\ Len(text) \in Nat /\ Len(text') \in Nat /\ Len(text) <= Len(text')
         /\ \A i \in 1 .. Len(text) : lock'[i] = lock[i]
         /\ \A i \in 1 .. Len(text') : i \notin 1 .. Len(text) => lock'[i] = NoProc
         /\ \A g \in Paths : path'[g] # path[g] => /\ g = Head(todo[p]).file
                                                   /\ path'[g] = Len(text) + 1
                                                   /\ Len(text') = Len(text) + 1
  <1> DEFINE f == Head(todo[p]).file
  <1>1. /\ text \in Seq(TextSet(now)) /\ path \in [Paths -> 0 .. Len(text)]
        /\ stamp \in Seq(1 .. now) /\ Len(stamp) = Len(text)
        /\ lock \in Seq({NoProc, "cron"}) /\ Len(lock) = Len(text)
    BY DEF FilesOK
  <1>2. Len(text) \in Nat
    BY <1>1, LenProperties
  <1>3. f \in Paths
    OBVIOUS
  <1> HIDE DEF f
  <1>4. CASE UNCHANGED files
    <2>1. text' = text /\ path' = path /\ stamp' = stamp /\ lock' = lock
      BY <1>4 DEF files
    <2> QED BY <1>1, <1>2, <2>1
  <1>5. ASSUME NEW txt \in TextSet(now), NEW m \in 1 .. now, NewInode(f, txt, m)
        PROVE  /\ text' \in Seq(TextSet(now)) /\ path' \in [Paths -> 0 .. Len(text')]
               /\ stamp' \in Seq(1 .. now) /\ Len(stamp') = Len(text')
               /\ lock' \in Seq({NoProc, "cron"}) /\ Len(lock') = Len(text')
               /\ Len(text) \in Nat /\ Len(text') \in Nat /\ Len(text) <= Len(text')
               /\ \A i \in 1 .. Len(text) : lock'[i] = lock[i]
               /\ \A i \in 1 .. Len(text') : i \notin 1 .. Len(text) => lock'[i] = NoProc
               /\ \A g \in Paths : path'[g] # path[g] => /\ g = f
                                                         /\ path'[g] = Len(text) + 1
                                                         /\ Len(text') = Len(text) + 1
    <2>1. /\ text' \in Seq(TextSet(now)) /\ Len(text') = Len(text) + 1
          /\ stamp' \in Seq(1 .. now) /\ Len(stamp') = Len(text) + 1
          /\ lock' \in Seq({NoProc, "cron"}) /\ Len(lock') = Len(text) + 1
          /\ \A i \in 1 .. Len(text) : text'[i] = text[i] /\ stamp'[i] = stamp[i] /\ lock'[i] = lock[i]
          /\ lock'[Len(text) + 1] = NoProc
          /\ path' = [path EXCEPT ![f] = Len(text) + 1]
      BY <1>3, <1>5, PlacedIs
    <2>2. path' \in [Paths -> 0 .. Len(text')]
      <3> DEFINE n == Len(text)
      <3>1. /\ path \in [Paths -> 0 .. n] /\ n \in Nat /\ Len(text') = n + 1
            /\ path' = [path EXCEPT ![f] = n + 1]
        BY <1>1, <1>2, <2>1
      <3> HIDE DEF n
      <3>2. n + 1 \in 0 .. n + 1 /\ 0 .. n \subseteq 0 .. n + 1
        BY <3>1
      <3>3. path' \in [Paths -> 0 .. n + 1]
        BY <3>1, <3>2
      <3> QED BY <3>1, <3>3
    <2>3. \A i \in 1 .. Len(text') : i \notin 1 .. Len(text) => i = Len(text) + 1
      BY <1>2, <2>1
    <2> QED BY <1>1, <1>2, <1>3, <2>1, <2>2, <2>3
  <1>6. ASSUME hand[p].at = "buffered", NEW txt \in TextSet(now), Rewritten(hand[p].fd, txt)
        PROVE  /\ text' \in Seq(TextSet(now)) /\ Len(text') = Len(text)
               /\ stamp' \in Seq(1 .. now) /\ Len(stamp') = Len(text)
               /\ path' = path /\ lock' = lock
    <2>1. hand[p].fd \in 1 .. Len(text)
      BY <1>6 DEF HandsOK
    <2> QED BY <1>6, <2>1, RewrittenIs
  <1>7. CASE hand[p].at = "buffered" /\ \E txt \in TextSet(now) : Rewritten(hand[p].fd, txt)
    <2>1. /\ text' \in Seq(TextSet(now)) /\ Len(text') = Len(text)
          /\ stamp' \in Seq(1 .. now) /\ Len(stamp') = Len(text)
          /\ path' = path /\ lock' = lock
      BY <1>6, <1>7
    <2> QED BY <1>1, <1>2, <2>1
  <1>8. CASE \E txt \in TextSet(now), m \in 1 .. now : NewInode(f, txt, m)
    BY <1>5, <1>8 DEF f
  <1> QED BY <1>4, <1>7, <1>8 DEF Touches, f

LEMMA MovedCalls ==
  ASSUME FilesOK, CallsOK, NEW p \in Procs, todo[p] # <<>>, Moves(p) \/ Ends(p)
  PROVE  /\ todo' \in [Procs -> Seq(CallSet(now))] /\ hand' \in [Procs -> HandSet(now)]
         /\ rc' \in [Procs -> {-1, 0, 1}]
         /\ \A q \in Procs \ {p} : todo'[q] = todo[q] /\ hand'[q] = hand[q]
         /\ \/ \E got \in HandSet(now) : /\ MovesTo(p, got) /\ todo'[p] = todo[p]
                                         /\ hand'[p] = got
            \/ todo'[p] = Tail(todo[p]) /\ hand'[p] = NoHand
  <1>1. /\ todo \in [Procs -> Seq(CallSet(now))] /\ hand \in [Procs -> HandSet(now)]
        /\ rc \in [Procs -> {-1, 0, 1}]
    BY DEF CallsOK
  <1>2. ASSUME NEW got \in HandSet(now), MovesTo(p, got)
        PROVE  /\ todo' = todo /\ rc' = rc /\ hand' = [hand EXCEPT ![p] = got]
               /\ hand' \in [Procs -> HandSet(now)] /\ hand'[p] = got
               /\ \A q \in Procs \ {p} : hand'[q] = hand[q]
    <2>1. todo' = todo /\ rc' = rc /\ hand' = [hand EXCEPT ![p] = got]
      BY <1>2 DEF MovesTo, Goes
    <2> QED BY <1>1, <2>1
  <1>3. CASE Moves(p)
    <2>1. PICK got \in HandSet(now) : MovesTo(p, got)
      BY <1>3 DEF Moves
    <2> QED BY <1>1, <1>2, <2>1
  <1>4. CASE Ends(p)
    <2>1. PICK r \in {-1, 0, 1} : Returns(p, r)
      BY <1>4 DEF Ends
    <2>2. /\ todo' = [todo EXCEPT ![p] = Tail(@)] /\ hand' = [hand EXCEPT ![p] = NoHand]
          /\ rc' = [rc EXCEPT ![p] = r]
      BY <2>1 DEF Returns
    <2>3. Tail(todo[p]) \in Seq(CallSet(now))
      BY <1>1, HeadTailProperties
    <2>4. NoHand \in HandSet(now)
      BY NoHandIs DEF FilesOK
    <2> QED BY <1>1, <2>2, <2>3, <2>4
  <1> QED BY <1>3, <1>4

\* Old inodes are held by nobody new, and a new one for the path of the call.
LEMMA StepApart ==
  ASSUME FilesOK, CallsOK, HandsOK, CronOK, Apart, NEW p \in Procs, todo[p] # <<>>,
         Head(todo[p]).file \in Paths, Touches(p), Moves(p) \/ Ends(p), cron' = cron
  PROVE  /\ Apart'
         /\ \A i \in 1 .. Len(text), g \in Paths : Holds(i, g)' => Holds(i, g)
         /\ \A i \in 1 .. Len(text'), g \in Paths :
              i \notin 1 .. Len(text) /\ Holds(i, g)' => g = Head(todo[p]).file
  <1> DEFINE f == Head(todo[p]).file
  <1>1. /\ Len(text) \in Nat /\ Len(text') \in Nat /\ Len(text) <= Len(text')
        /\ \A g \in Paths : path'[g] # path[g] => g = f /\ path'[g] = Len(text) + 1
    BY TouchedFiles
  <1>2. \A g \in Paths : path[g] \in 0 .. Len(text)
    BY FilesAre
  <1>3. /\ \A q \in Procs \ {p} : todo'[q] = todo[q] /\ hand'[q] = hand[q]
        /\ \/ \E got \in HandSet(now) : /\ MovesTo(p, got) /\ todo'[p] = todo[p]
                                        /\ hand'[p] = got
           \/ todo'[p] = Tail(todo[p]) /\ hand'[p] = NoHand
    BY MovedCalls
  <1>4. \A q \in Procs : hand[q].at # "out" => hand[q].fd \in 1 .. Len(text)
    BY DEF HandsOK
  <1>5. cron.at # "out" => cron.fd \in 1 .. Len(text)
    BY DEF CronOK
  <1>6. NoHand.at = "out"
    BY DEF NoHand
  <1>7. hand'[p].at # "out" => /\ todo'[p] = todo[p]
                               /\ hand'[p].fd = IF hand[p].at = "out" THEN path'[f] ELSE hand[p].fd
    BY <1>3, <1>6 DEF MovesTo
  <1> HIDE DEF f
  <1>8. ASSUME NEW i \in 1 .. Len(text), NEW g \in Paths, path'[g] = i PROVE path[g] = i
    BY <1>1, <1>8
  <1>9. ASSUME NEW i \in 1 .. Len(text), NEW g \in Paths, NEW q \in Procs, HeldBy(q, i, g)'
        PROVE  Holds(i, g)
    <2>1. hand'[q].at # "out" /\ hand'[q].fd = i /\ Head(todo'[q]).file = g
      BY <1>9 DEF HeldBy
    <2>2. CASE q # p
      <3>1. HeldBy(q, i, g)
        BY <1>3, <2>1, <2>2 DEF HeldBy
      <3> QED BY <3>1 DEF Holds
    <2>3. CASE q = p /\ hand[p].at # "out"
      <3>1. HeldBy(q, i, g)
        BY <1>7, <2>1, <2>3 DEF HeldBy
      <3> QED BY <3>1 DEF Holds
    <2>4. CASE q = p /\ hand[p].at = "out"
      <3>1. g = f /\ path'[f] = i
        BY <1>7, <2>1, <2>4 DEF f
      <3> QED BY <1>8, <3>1 DEF Holds
    <2> QED BY <2>2, <2>3, <2>4
  <1>10. ASSUME NEW i \in 1 .. Len(text), NEW g \in Paths, Holds(i, g)' PROVE Holds(i, g)
    <2>1. \/ path'[g] = i \/ \E q \in Procs : HeldBy(q, i, g)'
          \/ cron.at # "out" /\ cron.fd = i /\ g = "deny_users"
      BY <1>10 DEF Holds
    <2> QED BY <1>8, <1>9, <2>1 DEF Holds
  <1>11. ASSUME NEW i \in 1 .. Len(text'), i \notin 1 .. Len(text), NEW g \in Paths, Holds(i, g)'
         PROVE  g = f
    <2>1. \/ path'[g] = i \/ \E q \in Procs : HeldBy(q, i, g)'
          \/ cron.at # "out" /\ cron.fd = i /\ g = "deny_users"
      BY <1>11 DEF Holds
    <2>2. CASE path'[g] = i
      BY <1>1, <1>2, <1>11, <2>2
    <2>3. ASSUME NEW q \in Procs, HeldBy(q, i, g)' PROVE g = f
      <3>1. hand'[q].at # "out" /\ hand'[q].fd = i /\ Head(todo'[q]).file = g
        BY <2>3 DEF HeldBy
      <3> QED BY <1>3, <1>4, <1>7, <1>11, <3>1 DEF f
    <2> QED BY <1>5, <1>11, <2>1, <2>2, <2>3
  <1>12. Apart'
    <2> SUFFICES ASSUME NEW i \in 1 .. Len(text'), NEW g \in Paths, NEW k \in Paths,
                        Holds(i, g)', Holds(i, k)'
                 PROVE  g = k
      BY DEF Apart
    <2>1. CASE i \in 1 .. Len(text)
      BY <1>10, <2>1 DEF Apart
    <2>2. CASE i \notin 1 .. Len(text)
      BY <1>11, <2>2
    <2> QED BY <2>1, <2>2
  <1> QED BY <1>10, <1>11, <1>12 DEF f

LEMMA StepIs ==
  ASSUME Base, NEW p \in Procs, Step(p)
  PROVE  /\ CallStep(p) /\ todo[p] # <<>> /\ Touches(p) /\ (Moves(p) \/ Ends(p))
         /\ Head(todo[p]) \in CallSet(now) /\ Head(todo[p]).file \in Paths
         /\ Who(p) \in Users /\ Fits(Head(todo[p]), Who(p))
         /\ subject' = subject /\ now' = now /\ job' = job /\ web' = web /\ cron' = cron
         /\ mem' = mem
  <1>1. CallStep(p) /\ UNCHANGED <<subject, now, job, web, cron, mem, jobs>>
    BY DEF Step
  <1>2. todo[p] # <<>> /\ Touches(p) /\ (Moves(p) \/ Ends(p))
    BY <1>1, StepShape DEF Base
  <1> QED BY <1>1, <1>2, CallFits DEF Base, CallSet

LEMMA StepFiles ==
  ASSUME Base, NEW p \in Procs, Step(p)
  PROVE  FilesOK' /\ CallsOK' /\ LocksOK' /\ CronOK' /\ Apart' /\ Seated' /\ WebOK'
  <1>1. /\ todo[p] # <<>> /\ Touches(p) /\ (Moves(p) \/ Ends(p))
        /\ Head(todo[p]).file \in Paths
        /\ subject' = subject /\ now' = now /\ job' = job /\ web' = web /\ cron' = cron
    BY StepIs
  <1>2. FilesOK /\ CallsOK /\ LocksOK /\ JobsOK /\ HandsOK /\ CronOK /\ Apart /\ Seated /\ WebOK
    BY DEF Base
  <1>3. /\ text' \in Seq(TextSet(now)) /\ path' \in [Paths -> 0 .. Len(text')]
        /\ stamp' \in Seq(1 .. now) /\ Len(stamp') = Len(text')
        /\ lock' \in Seq({NoProc, "cron"}) /\ Len(lock') = Len(text')
        /\ Len(text) \in Nat /\ Len(text') \in Nat /\ Len(text) <= Len(text')
        /\ \A i \in 1 .. Len(text) : lock'[i] = lock[i]
        /\ \A i \in 1 .. Len(text') : i \notin 1 .. Len(text) => lock'[i] = NoProc
        /\ \A g \in Paths : path'[g] # path[g] => /\ g = Head(todo[p]).file
                                                  /\ path'[g] = Len(text) + 1
    BY <1>1, <1>2, TouchedFiles
  <1>4. FilesOK'
    BY <1>1, <1>2, <1>3 DEF FilesOK
  <1>5. CallsOK'
    <2>1. /\ todo' \in [Procs -> Seq(CallSet(now))] /\ hand' \in [Procs -> HandSet(now)]
          /\ rc' \in [Procs -> {-1, 0, 1}]
      BY <1>1, <1>2, MovedCalls
    <2> QED BY <1>1, <2>1 DEF CallsOK
  <1>6. LocksOK'
    <2> SUFFICES ASSUME NEW i \in 1 .. Len(text')
                 PROVE  lock'[i] = IF cron.at = "read" /\ cron.fd = i THEN "cron" ELSE NoProc
      BY <1>1 DEF LocksOK
    <2>1. CASE i \in 1 .. Len(text)
      BY <1>2, <1>3, <2>1 DEF LocksOK
    <2>2. CASE i \notin 1 .. Len(text)
      <3>1. cron.at = "read" => cron.fd # i
        BY <1>2, <2>2 DEF CronOK
      <3> QED BY <1>3, <2>2, <3>1
    <2> QED BY <2>1, <2>2
  <1>7. CronOK'
    <2>1. cron.at # "out" => subject = "deny" /\ cron.fd \in 1 .. Len(text')
      BY <1>2, <1>3 DEF CronOK
    <2> QED BY <1>1, <2>1 DEF CronOK
  <1>8. Apart'
    BY <1>1, <1>2, StepApart
  <1>9. \A g \in Paths : path[g] # NoFile => path'[g] # NoFile
    BY <1>3 DEF NoFile
  <1>10. Seated'
    <2>1. subject = "club" => path'["deny_users"] = path["deny_users"]
      BY <1>1, <1>2, <1>3, StepIs, PathsAre DEF Fits
    <2> QED BY <1>1, <1>2, <1>9, <2>1, PathsAre DEF Seated
  <1>11. WebOK'
    BY <1>1, <1>2, <1>9, PathsAre DEF WebOK
  <1> QED BY <1>4, <1>5, <1>6, <1>7, <1>8, <1>10, <1>11

LEMMA StepHands ==
  ASSUME Base, NEW p \in Procs, Step(p)
  PROVE  HandsOK' /\ JobsOK' /\ RestOK'
  <1>1. /\ todo[p] # <<>> /\ Touches(p) /\ (Moves(p) \/ Ends(p))
        /\ Head(todo[p]) \in CallSet(now) /\ Head(todo[p]).file \in Paths
        /\ Who(p) \in Users
        /\ subject' = subject /\ now' = now /\ job' = job /\ web' = web /\ cron' = cron
        /\ mem' = mem
    BY StepIs
  <1>2. FilesOK /\ CallsOK /\ RestOK /\ JobsOK /\ HandsOK
    BY DEF Base
  <1>3. Len(text) \in Nat /\ Len(text') \in Nat /\ Len(text) <= Len(text')
    BY <1>1, <1>2, TouchedFiles
  <1>4. /\ \A q \in Procs \ {p} : todo'[q] = todo[q] /\ hand'[q] = hand[q]
        /\ \/ \E got \in HandSet(now) : /\ MovesTo(p, got) /\ todo'[p] = todo[p]
                                        /\ hand'[p] = got
           \/ todo'[p] = Tail(todo[p]) /\ hand'[p] = NoHand
    BY <1>1, <1>2, MovedCalls
  <1>5. HandsOK'
    <2> SUFFICES ASSUME NEW q \in Procs
                 PROVE  /\ hand'[q].at = "out" => hand'[q] = NoHand
                        /\ hand'[q].at # "out" => todo'[q] # <<>> /\ hand'[q].fd \in 1 .. Len(text')
                        /\ hand'[q].at = "buffered" => Head(todo'[q]).op = "add"
                        /\ hand'[q].at = "copied" =>
                             /\ Head(todo'[q]).op = "del"
                             /\ Occurrences(hand'[q].src, Head(todo'[q]).word) # {}
                             /\ hand'[q].mtime # 0
      BY DEF HandsOK
    <2>1. CASE q # p
      <3>1. todo'[q] = todo[q] /\ hand'[q] = hand[q]
        BY <1>4, <2>1
      <3>2. hand[q].at # "out" => hand[q].fd \in 1 .. Len(text')
        BY <1>2, <1>3 DEF HandsOK
      <3> QED BY <1>2, <3>1, <3>2 DEF HandsOK
    <2>2. CASE q = p /\ todo'[p] = Tail(todo[p]) /\ hand'[p] = NoHand
      BY <2>2 DEF NoHand
    <2>3. ASSUME q = p, NEW got \in HandSet(now), MovesTo(p, got), todo'[p] = todo[p], hand'[p] = got
          PROVE  /\ hand'[q].at # "out"
                 /\ todo'[q] # <<>> /\ hand'[q].fd \in 1 .. Len(text')
                 /\ hand'[q].at = "buffered" => Head(todo'[q]).op = "add"
                 /\ hand'[q].at = "copied" =>
                      /\ Head(todo'[q]).op = "del"
                      /\ Occurrences(hand'[q].src, Head(todo'[q]).word) # {}
                      /\ hand'[q].mtime # 0
      BY <1>1, <2>3 DEF MovesTo
    <2> QED BY <1>4, <2>1, <2>2, <2>3
  <1>6. suspect \subseteq suspect' /\ suspect' \subseteq Users
    <2>1. suspect' = suspect \cup Bystanders(p)
                  \cup (IF Head(todo[p]).file # "deny_users" /\ Amiss(p) THEN {Who(p)} ELSE {})
      BY DEF Step
    <2>2. Bystanders(p) \subseteq Users
      BY DEF Bystanders
    <2>3. suspect \subseteq Users
      BY <1>2 DEF RestOK
    <2> QED BY <1>1, <2>1, <2>2, <2>3
  <1>7. JobsOK'
    <2>1. job' \in [Managers -> JobSet(now)' \cup {NoJob}]
      BY <1>1, <1>2 DEF JobsOK, JobSet, Kinds
    <2>2. ASSUME NEW q \in Managers
          PROVE  /\ job'[q].kind \in {"deny", "redeny"} => job'[q].until # Bare
                 /\ job'[q].run => todo'[q] \in Left(job'[q])
                 /\ ~job'[q].run => todo'[q] = <<>>
      <3>1. q \in Procs
        BY NameListsAssumption
      <3>2. q = p => job[p].run /\ todo[p] \in Left(job[p]) /\ Tail(todo[p]) \in Left(job[p])
        BY <1>1, <1>2, CallFits
      <3> QED BY <1>1, <1>2, <1>4, <3>1, <3>2 DEF JobsOK
    <2>3. ASSUME NEW u \in Sessions, todo'[u] # <<>>
          PROVE  /\ subject' = "club" /\ u \in suspect'
                 /\ \E op \in {"add", "del"} : todo'[u] = <<Call(op, u, Club, Bare)>>
      <3>1. u \in Procs
        BY NameListsAssumption
      <3>2. u = p => Tail(todo[p]) = <<>>
        BY <1>1, <1>2, CallFits
      <3>3. todo'[u] = todo[u]
        BY <1>4, <2>3, <3>1, <3>2
      <3>4. /\ subject = "club" /\ u \in suspect
            /\ \E op \in {"add", "del"} : todo[u] = <<Call(op, u, Club, Bare)>>
        BY <1>2, <2>3, <3>3 DEF JobsOK
      <3> QED BY <1>1, <1>6, <3>3, <3>4
    <2> QED BY <2>1, <2>2, <2>3 DEF JobsOK
  <1>8. RestOK'
    <2>1. missed' = [a \in DOMAIN missed |-> missed[a] \cup Added(p)]
      BY DEF Step, Misses
    <2>2. Added(p) \subseteq LineSet(now)
      <3>1. Line(Head(todo[p]).word, Head(todo[p]).tail) \in LineSet(now)
        BY <1>1 DEF CallSet, Line, LineSet
      <3> QED BY <3>1 DEF Added
    <2>3. missed' \in [Web \cup {"cron"} -> SUBSET LineSet(now)]
      BY <1>2, <2>1, <2>2 DEF RestOK
    <2> QED BY <1>1, <1>2, <1>6, <2>3 DEF RestOK
  <1> QED BY <1>5, <1>7, <1>8

-----------------------------------------------------------------------------
(* Managers                                                                *)

\* A step that leaves the files alone and gives back what one process held.
LEMMA IdleStep ==
  ASSUME Base, NEW p \in Procs,
         UNCHANGED <<subject, files, now, web, cron>>,
         \A q \in Procs \ {p} : todo'[q] = todo[q] /\ hand'[q] = hand[q],
         hand'[p] = NoHand \/ (hand'[p] = hand[p] /\ todo'[p] = todo[p]),
         CallsOK', JobsOK', RestOK'
  PROVE  Base'
  <1>1. FilesOK /\ LocksOK /\ HandsOK /\ CronOK /\ Apart /\ Seated /\ WebOK
    BY DEF Base
  <1>2. /\ path' = path /\ text' = text /\ stamp' = stamp /\ lock' = lock
        /\ subject' = subject /\ now' = now /\ web' = web /\ cron' = cron
    BY DEF files
  <1>3. FilesOK' /\ LocksOK' /\ CronOK' /\ Seated' /\ WebOK'
    BY <1>1, <1>2 DEF FilesOK, LocksOK, CronOK, Seated, WebOK
  <1>4. NoHand.at = "out"
    BY DEF NoHand
  <1>5. \A q \in Procs : hand'[q] = NoHand \/ (hand'[q] = hand[q] /\ todo'[q] = todo[q])
    OBVIOUS
  <1>6. HandsOK'
    BY <1>1, <1>2, <1>4, <1>5 DEF HandsOK
  <1>7. \A i, f : \A q \in Procs : HeldBy(q, i, f)' => HeldBy(q, i, f)
    BY <1>4, <1>5 DEF HeldBy
  <1>8. \A i, f : Holds(i, f)' => Holds(i, f)
    BY <1>2, <1>7 DEF Holds
  <1>9. Apart'
    BY <1>1, <1>2, <1>8 DEF Apart
  <1> QED BY <1>3, <1>6, <1>9 DEF Base

\* One manager's job and its calls.
LEMMA JobGoes ==
  ASSUME JobsOK, CallsOK, NEW p \in Managers, NEW j \in JobSet(now) \cup {NoJob},
         j.kind \in {"deny", "redeny"} => j.until # Bare,
         job' = [job EXCEPT ![p] = j],
         NEW s, todo' = [todo EXCEPT ![p] = s],
         j.run => s \in Left(j), ~j.run => s = <<>>,
         suspect \subseteq suspect', subject' = subject, now' = now
  PROVE  JobsOK'
  <1>1. /\ job \in [Managers -> JobSet(now) \cup {NoJob}]
        /\ todo \in [Procs -> Seq(CallSet(now))] /\ p \in Procs
    BY NameListsAssumption DEF JobsOK, CallsOK
  <1>2. /\ job' \in [Managers -> JobSet(now) \cup {NoJob}] /\ job'[p] = j /\ todo'[p] = s
        /\ \A q \in Managers \ {p} : job'[q] = job[q]
        /\ \A q \in Procs \ {p} : todo'[q] = todo[q]
    BY <1>1
  <1>3. JobSet(now)' = JobSet(now)
    BY DEF JobSet, Kinds
  <1>4. ASSUME NEW q \in Managers
        PROVE  /\ job'[q].kind \in {"deny", "redeny"} => job'[q].until # Bare
               /\ job'[q].run => todo'[q] \in Left(job'[q])
               /\ ~job'[q].run => todo'[q] = <<>>
    <2>1. q \in Procs
      BY NameListsAssumption
    <2>2. CASE q = p
      BY <1>2, <2>2
    <2>3. CASE q # p
      BY <1>2, <2>1, <2>3 DEF JobsOK
    <2> QED BY <2>2, <2>3
  <1>5. ASSUME NEW u \in Sessions, todo'[u] # <<>>
        PROVE  /\ subject' = "club" /\ u \in suspect'
               /\ \E op \in {"add", "del"} : todo'[u] = <<Call(op, u, Club, Bare)>>
    <2>1. u \in Procs /\ u # p
      BY NameListsAssumption
    <2>2. todo'[u] = todo[u]
      BY <1>2, <2>1
    <2> QED BY <1>5, <2>2 DEF JobsOK
  <1> QED BY <1>2, <1>3, <1>4, <1>5 DEF JobsOK

LEMMA JobIs ==
  ASSUME FilesOK, NEW j \in Jobs
  PROVE  j \in JobSet(now) /\ ~j.run /\ (j.kind \in {"deny", "redeny"} => j.until # Bare)
         /\ j.who \in Targets
  <1>1. /\ now \in Nat \ {0} /\ Bare \in Tails(now) /\ Targets \subseteq Users
        /\ subject \in {"club", "deny"}
    BY TailsAre, NameListsAssumption DEF FilesOK
  <1>2. \A e \in Dates : e \in Tails(now) /\ e # Bare
    BY <1>1, TailsAre DEF Dates
  <1>3. CASE subject = "club"
    BY <1>1, <1>3 DEF Jobs, JobSet, Kinds
  <1>4. CASE subject # "club"
    BY <1>1, <1>2, <1>4 DEF Jobs, JobSet, Kinds
  <1> QED BY <1>3, <1>4

LEMMA ManagerStep ==
  ASSUME Base, NEW p \in Managers,
         Ask(p) \/ Decline(p) \/ Confirm(p) \/ Finish(p) \/ Hang(p)
  PROVE  Base'
  <1>1. FilesOK /\ CallsOK /\ RestOK /\ JobsOK /\ HandsOK /\ p \in Procs
    BY NameListsAssumption DEF Base
  <1>2. /\ todo \in [Procs -> Seq(CallSet(now))] /\ hand \in [Procs -> HandSet(now)]
        /\ rc \in [Procs -> {-1, 0, 1}] /\ job \in [Managers -> JobSet(now) \cup {NoJob}]
        /\ now \in Nat \ {0} /\ suspect \subseteq Users /\ subject \in {"club", "deny"}
    BY <1>1 DEF CallsOK, JobsOK, FilesOK, RestOK
  <1>3. todo[p] = <<>> => hand[p] = NoHand
    BY <1>1 DEF HandsOK
  <1>4. ~job[p].run => todo[p] = <<>>
    BY <1>1 DEF JobsOK
  <1>5. NoJob.run = FALSE /\ NoJob.kind = "none" /\ NoHand \in HandSet(now)
        /\ <<>> \in Seq(CallSet(now)) /\ 0 \in {-1, 0, 1}
    BY <1>2, NoHandIs DEF NoJob
  <1>6. job[p] # NoJob => job[p] \in JobSet(now) /\ JobOK(job[p])
    BY <1>1, <1>2 DEF JobsOK, JobOK
  <1>7. ASSUME NEW s \in Seq(CallSet(now)), todo' = [todo EXCEPT ![p] = s],
               hand' = hand \/ hand' = [hand EXCEPT ![p] = NoHand],
               rc' = rc \/ rc' = [rc EXCEPT ![p] = 0],
               suspect \subseteq suspect', suspect' \subseteq Users,
               UNCHANGED <<subject, files, now, web, cron, mem, missed>>,
               hand'[p] = NoHand \/ (hand'[p] = hand[p] /\ s = todo[p]),
               JobsOK'
        PROVE  Base'
    <2>1. CallsOK'
      <3>1. todo' \in [Procs -> Seq(CallSet(now))] /\ hand' \in [Procs -> HandSet(now)]
            /\ rc' \in [Procs -> {-1, 0, 1}]
        BY <1>2, <1>5, <1>7
      <3> QED BY <1>7, <3>1 DEF CallsOK
    <2>2. RestOK'
      BY <1>1, <1>7 DEF RestOK
    <2>3. /\ \A q \in Procs \ {p} : todo'[q] = todo[q] /\ hand'[q] = hand[q]
          /\ hand'[p] = NoHand \/ (hand'[p] = hand[p] /\ todo'[p] = todo[p])
      BY <1>1, <1>2, <1>7
    <2> QED BY <1>1, <1>7, <2>1, <2>2, <2>3, IdleStep
  <1>8. CASE Ask(p)
    <2>1. PICK j \in Jobs : job' = [job EXCEPT ![p] = j]
      BY <1>8 DEF Ask
    <2>2. job[p] = NoJob /\ UNCHANGED <<files, calls, now, subject, web, cron, mem, history>>
      BY <1>8 DEF Ask
    <2>3. todo[p] = <<>> /\ hand[p] = NoHand
      BY <1>3, <1>4, <1>5, <2>2
    <2>4. todo' = [todo EXCEPT ![p] = <<>>] /\ hand' = hand /\ rc' = rc
      BY <1>1, <1>2, <2>2, <2>3 DEF calls
    <2>5. suspect' = suspect /\ missed' = missed
      BY <2>2 DEF history
    <2>6. JobsOK'
      BY <1>1, <2>1, <2>2, <2>4, <2>5, JobIs, JobGoes
    <2> QED BY <1>2, <1>5, <1>7, <2>2, <2>3, <2>4, <2>5, <2>6
  <1>9. CASE Decline(p)
    <2>1. /\ ~job[p].run /\ job' = [job EXCEPT ![p] = NoJob]
          /\ UNCHANGED <<files, calls, now, subject, web, cron, mem, history>>
      BY <1>9 DEF Decline
    <2>2. todo[p] = <<>> /\ hand[p] = NoHand
      BY <1>3, <1>4, <2>1
    <2>3. todo' = [todo EXCEPT ![p] = <<>>] /\ hand' = hand /\ rc' = rc
      BY <1>1, <1>2, <2>1, <2>2 DEF calls
    <2>4. suspect' = suspect /\ missed' = missed
      BY <2>1 DEF history
    <2>5. JobsOK'
      BY <1>1, <1>5, <2>1, <2>3, <2>4, JobGoes
    <2> QED BY <1>2, <1>5, <1>7, <2>1, <2>2, <2>3, <2>4, <2>5
  <1>10. CASE Confirm(p)
    <2> DEFINE j == [job[p] EXCEPT !.run = TRUE]
               s == Calls(job[p])
    <2>1. /\ job[p] # NoJob /\ ~job[p].run /\ todo' = [todo EXCEPT ![p] = s]
          /\ rc' = [rc EXCEPT ![p] = 0] /\ hand' = hand
          /\ suspect' = IF Handled(job[p].who) # {} \/ Repairing(job[p].who)
                        THEN suspect \cup {job[p].who} ELSE suspect
          /\ UNCHANGED <<subject, files, now, web, cron, mem, missed>>
      BY <1>10 DEF Confirm
    <2>2. job' = [job EXCEPT ![p] = j]
      BY <1>10 DEF Confirm
    <2>3. hand[p] = NoHand
      BY <1>3, <1>4, <2>1
    <2>4. job[p].who \in Users /\ JobOK(job[p]) /\ job[p] \in JobSet(now)
      BY <1>6, <2>1 DEF JobSet
    <2>5. s \in Left(job[p])
      BY DEF Left
    <2>6. s \in Seq(CallSet(now))
      BY <1>2, <2>4, <2>5, LeftIs
    <2>7. /\ j \in JobSet(now) /\ j.run /\ j.kind = job[p].kind /\ j.until = job[p].until
          /\ j.who = job[p].who
      BY <2>4 DEF JobSet
    <2>8. s \in Left(j)
      BY <2>7 DEF Left, Calls
    <2>9. j.kind \in {"deny", "redeny"} => j.until # Bare
      BY <2>4, <2>7 DEF JobOK
    <2> HIDE DEF j, s
    <2>10. suspect \subseteq suspect' /\ suspect' \subseteq Users
      BY <1>2, <2>1, <2>4
    <2>11. JobsOK'
      BY <1>1, <2>1, <2>2, <2>7, <2>8, <2>9, <2>10, JobGoes
    <2> QED BY <1>7, <2>1, <2>3, <2>6, <2>10, <2>11
  <1>11. CASE Finish(p)
    <2>1. /\ todo[p] = <<>> /\ job' = [job EXCEPT ![p] = NoJob] /\ rc' = [rc EXCEPT ![p] = 0]
          /\ UNCHANGED <<files, todo, hand, now, subject, web, cron, mem, history>>
      BY <1>11 DEF Finish
    <2>2. hand[p] = NoHand /\ todo' = [todo EXCEPT ![p] = <<>>] /\ hand' = hand
      BY <1>1, <1>2, <1>3, <2>1
    <2>3. suspect' = suspect /\ missed' = missed
      BY <2>1 DEF history
    <2>4. JobsOK'
      BY <1>1, <1>5, <2>1, <2>2, <2>3, JobGoes
    <2> QED BY <1>2, <1>5, <1>7, <2>1, <2>2, <2>3, <2>4
  <1>12. CASE Hang(p)
    <2>1. /\ job[p] # NoJob /\ job' = [job EXCEPT ![p] = NoJob]
          /\ todo' = [todo EXCEPT ![p] = <<>>] /\ hand' = [hand EXCEPT ![p] = NoHand]
          /\ rc' = [rc EXCEPT ![p] = 0]
          /\ suspect' = IF job[p].run THEN suspect \cup {job[p].who} ELSE suspect
          /\ UNCHANGED <<subject, files, now, web, cron, mem, missed>>
      BY <1>12 DEF Hang
    <2>2. job[p].who \in Users
      BY <1>6, <2>1 DEF JobSet
    <2>3. suspect \subseteq suspect' /\ suspect' \subseteq Users /\ hand'[p] = NoHand
      BY <1>1, <1>2, <2>1, <2>2
    <2>4. JobsOK'
      BY <1>1, <1>5, <2>1, <2>3, JobGoes
    <2> QED BY <1>5, <1>7, <2>1, <2>3, <2>4
  <1> QED BY <1>8, <1>9, <1>10, <1>11, <1>12

-----------------------------------------------------------------------------
(* Parts of lists                                                          *)

LEMMA SpanIs ==
  ASSUME NEW S, NEW s \in Seq(S), NEW a \in Nat \ {0}, NEW b \in Nat, b <= Len(s)
  PROVE  /\ SubSeq(s, a, b) \in Seq(S)
         /\ Len(SubSeq(s, a, b)) = IF a <= b THEN b - a + 1 ELSE 0
         /\ \A k \in 1 .. b - a + 1 : SubSeq(s, a, b)[k] = s[a + k - 1]
         /\ ToSet(SubSeq(s, a, b)) = {s[k] : k \in a .. b}
  <1> DEFINE part == SubSeq(s, a, b)
  <1>1. Len(s) \in Nat
    BY LenProperties
  <1>2. \A k \in a .. b : s[k] \in S
    <2>1. a .. b \subseteq 1 .. Len(s)
      BY <1>1
    <2> QED BY <2>1, ElementOfSeq
  <1>3. /\ part \in Seq(S) /\ Len(part) = IF a <= b THEN b - a + 1 ELSE 0
        /\ \A k \in 1 .. b - a + 1 : part[k] = s[a + k - 1]
    BY <1>2, SubSeqProperties
  <1> HIDE DEF part
  <1>4. DOMAIN part = 1 .. b - a + 1
    <2>1. DOMAIN part = 1 .. Len(part)
      BY <1>3, LenProperties
    <2>2. CASE a <= b
      BY <1>3, <2>1, <2>2
    <2>3. CASE ~(a <= b)
      <3>1. 1 .. Len(part) = {} /\ 1 .. b - a + 1 = {}
        BY <1>3, <2>3
      <3> QED BY <2>1, <3>1
    <2> QED BY <2>2, <2>3
  <1>5. ToSet(part) = {part[k] : k \in 1 .. b - a + 1}
    BY <1>4 DEF ToSet
  <1>6. \A k \in 1 .. b - a + 1 : part[k] = s[a + k - 1] /\ a + k - 1 \in a .. b
    BY <1>3
  <1>7. \A k \in a .. b : k - a + 1 \in 1 .. b - a + 1 /\ s[k] = part[k - a + 1]
    <2> TAKE k \in a .. b
    <2>1. k - a + 1 \in 1 .. b - a + 1 /\ a + (k - a + 1) - 1 = k
      OBVIOUS
    <2>2. part[k - a + 1] = s[a + (k - a + 1) - 1]
      BY <1>3, <2>1
    <2> QED BY <2>1, <2>2
  <1>8. {part[k] : k \in 1 .. b - a + 1} = {s[k] : k \in a .. b}
    <2>1. ASSUME NEW k \in 1 .. b - a + 1 PROVE part[k] \in {s[m] : m \in a .. b}
      BY <1>6
    <2>2. ASSUME NEW k \in a .. b PROVE s[k] \in {part[m] : m \in 1 .. b - a + 1}
      BY <1>7
    <2> QED BY <2>1, <2>2
  <1> QED BY <1>3, <1>5, <1>8 DEF part

LEMMA JoinedSet ==
  ASSUME NEW S, NEW s \in Seq(S), NEW r \in Seq(S)
  PROVE  /\ s \o r \in Seq(S) /\ Len(s \o r) = Len(s) + Len(r)
         /\ ToSet(s \o r) = ToSet(s) \cup ToSet(r)
  <1> DEFINE a == Len(s)
             b == Len(r)
             j == s \o r
  <1>1. a \in Nat /\ b \in Nat /\ DOMAIN s = 1 .. a /\ DOMAIN r = 1 .. b
    BY LenProperties
  <1>2. j \in Seq(S) /\ Len(j) = a + b
        /\ \A k \in 1 .. a + b : j[k] = IF k <= a THEN s[k] ELSE r[k - a]
    BY ConcatProperties
  <1>3. DOMAIN j = 1 .. a + b
    BY <1>2, LenProperties
  <1> HIDE DEF a, b, j
  <1>4. ToSet(j) = {j[k] : k \in 1 .. a + b} /\ ToSet(s) = {s[k] : k \in 1 .. a}
        /\ ToSet(r) = {r[k] : k \in 1 .. b}
    BY <1>1, <1>3 DEF ToSet
  <1>5. ASSUME NEW k \in 1 .. a + b
        PROVE  j[k] \in {s[m] : m \in 1 .. a} \cup {r[m] : m \in 1 .. b}
    <2>1. CASE k <= a
      BY <1>1, <1>2, <2>1
    <2>2. CASE ~(k <= a)
      <3>1. k - a \in 1 .. b
        BY <1>1, <2>2
      <3> QED BY <1>2, <2>2, <3>1
    <2> QED BY <2>1, <2>2
  <1>6. ASSUME NEW k \in 1 .. a PROVE s[k] \in {j[m] : m \in 1 .. a + b}
    <2>1. k \in 1 .. a + b /\ j[k] = s[k]
      BY <1>1, <1>2
    <2> QED BY <2>1
  <1>7. ASSUME NEW k \in 1 .. b PROVE r[k] \in {j[m] : m \in 1 .. a + b}
    <2> DEFINE m == k + a
    <2>1. m \in 1 .. a + b /\ ~(m <= a) /\ m - a = k
      BY <1>1
    <2> HIDE DEF m
    <2>2. j[m] = r[m - a]
      BY <1>2, <2>1
    <2> QED BY <2>1, <2>2
  <1>8. ToSet(j) = ToSet(s) \cup ToSet(r)
    BY <1>4, <1>5, <1>6, <1>7
  <1> QED BY <1>2, <1>8 DEF a, b, j

LEMMA ContentIs ==
  ASSUME FilesOK, NEW f \in Paths
  PROVE  /\ Content(f) \in TextSet(now) /\ Content(f).lines \in Seq(LineSet(now))
         /\ ToSet(Content(f).lines) \subseteq LineSet(now)
  <1>1. Text(<<>>) \in TextSet(now)
    BY NoHandIs DEF FilesOK
  <1>2. path[f] # NoFile => text[path[f]] \in TextSet(now)
    BY FilesAre DEF NoFile
  <1>3. Content(f) \in TextSet(now)
    BY <1>1, <1>2 DEF Content
  <1>4. Content(f).lines \in Seq(LineSet(now))
    BY <1>3 DEF TextSet
  <1>5. ToSet(Content(f).lines) \subseteq LineSet(now)
    <2> DEFINE ls == Content(f).lines
    <2>1. DOMAIN ls = 1 .. Len(ls) /\ \A k \in 1 .. Len(ls) : ls[k] \in LineSet(now)
      BY <1>4, LenProperties, ElementOfSeq
    <2> HIDE DEF ls
    <2>2. ToSet(ls) \subseteq LineSet(now)
      BY <2>1 DEF ToSet
    <2> QED BY <2>2 DEF ls
  <1> QED BY <1>3, <1>4, <1>5

\* What a web request reads: everything dated, unless it is full.
LEMMA LoadedIs ==
  ASSUME FilesOK
  PROVE  /\ Loaded \in Seq(LineSet(now)) /\ ToSet(Loaded) \subseteq Denials
         /\ \A line \in Denials : \/ line.tail = Manual \/ line \in ToSet(Loaded)
                                  \/ Len(Loaded) = LoadMax
  <1> DEFINE L == LineSet(now)
             lines == Content("deny_users").lines
             wanted == {line \in ToSet(lines) : Timed(line)}
             table == Picked(lines, wanted)
             size == Len(table)
             n == IF size < LoadMax THEN size ELSE LoadMax
  <1>1. lines \in Seq(L)
    BY PathsAre, ContentIs
  <1>2. Loaded = SubSeq(table, 1, n)
    BY DEF Loaded
  <1>3. Denials = ToSet(lines)
    BY DEF Denials
  <1> HIDE DEF L, lines
  <1>4. table \in Seq(L) /\ ToSet(table) = ToSet(lines) \cap wanted
    BY <1>1, PickedIs
  <1> HIDE DEF table
  <1>5. DOMAIN table = 1 .. size /\ size = Len(table)
    BY <1>4, LenProperties
  <1>51. size \in Nat /\ LoadMax \in Nat
    BY <1>4, LenProperties, NameListsAssumption
  <1> HIDE DEF size
  <1>6. n \in Nat /\ n <= size /\ (n = size \/ n = LoadMax)
    BY <1>51
  <1> HIDE DEF n
  <1>7. /\ Loaded \in Seq(L) /\ Len(Loaded) = n
        /\ ToSet(Loaded) = {table[k] : k \in 1 .. n}
    <2> DEFINE part == SubSeq(table, 1, n)
    <2>1. n \in Nat /\ n <= Len(table) /\ 1 \in Nat \ {0} /\ table \in Seq(L)
      BY <1>4, <1>6 DEF size
    <2>2. /\ part \in Seq(L)
          /\ Len(part) = IF 1 <= n THEN n - 1 + 1 ELSE 0
          /\ \A k \in 1 .. n - 1 + 1 : part[k] = table[1 + k - 1]
          /\ ToSet(part) = {table[k] : k \in 1 .. n}
      BY ONLY <2>1, SpanIs
    <2> HIDE DEF part
    <2>3. Len(part) = n
      BY <1>6, <2>2
    <2> QED BY <1>2, <2>2, <2>3 DEF part
  <1>8. ToSet(table) = {table[k] : k \in 1 .. size} /\ 1 .. n \subseteq 1 .. size
    <2>1. ToSet(table) = {table[k] : k \in 1 .. size}
      BY <1>5 DEF ToSet
    <2>2. 1 .. n \subseteq 1 .. size
      BY <1>51, <1>6
    <2> QED BY <2>1, <2>2
  <1>9. ToSet(Loaded) \subseteq ToSet(lines)
    BY <1>4, <1>7, <1>8
  <1>10. ASSUME NEW line \in ToSet(lines), line.tail # Manual, Len(Loaded) # LoadMax
         PROVE  line \in ToSet(Loaded)
    <2>1. n = size
      BY <1>6, <1>7, <1>10
    <2>2. line \in ToSet(table)
      BY <1>4, <1>10 DEF Timed
    <2> QED BY <1>7, <1>8, <2>1, <2>2
  <1> QED BY <1>3, <1>7, <1>9, <1>10 DEF L

\* Lifting a user's denial takes one line of his out.
LEMMA UnlistedIs ==
  ASSUME NEW S, NEW table \in Seq(S), NEW u, Listed(table, u) # {}
  PROVE  /\ Unlisted(table, u) \in Seq(S) /\ Len(Unlisted(table, u)) = Len(table) - 1
         /\ ToSet(Unlisted(table, u)) \subseteq ToSet(table)
         /\ \A line \in ToSet(table) : line \in ToSet(Unlisted(table, u)) \/ line.word = Spelling[u]
  <1> DEFINE i == CHOOSE i \in Listed(table, u) : \A k \in Listed(table, u) : i <= k
             n == Len(table)
  <1>1. n \in Nat /\ DOMAIN table = 1 .. n
    BY LenProperties
  <1>2. i \in Listed(table, u)
    <2>1. Listed(table, u) \in SUBSET Nat
      BY <1>1 DEF Listed
    <2>2. \E m \in Listed(table, u) : \A k \in Listed(table, u) : m <= k
      BY <2>1, SmallestIn
    <2> QED BY <2>2
  <1>3. Unlisted(table, u) = SubSeq(table, 1, i - 1) \o SubSeq(table, i + 1, n)
    BY DEF Unlisted, RemoveAt
  <1> HIDE DEF i, n
  <1>4. i \in 1 .. n /\ table[i].word = Spelling[u]
    BY <1>1, <1>2 DEF Listed
  <1> DEFINE front == SubSeq(table, 1, i - 1)
             back == SubSeq(table, i + 1, n)
  <1>5. /\ front \in Seq(S) /\ Len(front) = i - 1
        /\ ToSet(front) = {table[k] : k \in 1 .. i - 1}
    <2> DEFINE m == i - 1
    <2>1. m \in Nat /\ m <= n /\ 1 \in Nat \ {0}
      BY <1>1, <1>4
    <2> HIDE DEF m
    <2>2. m <= Len(table)
      BY <2>1 DEF n
    <2>3. /\ SubSeq(table, 1, m) \in Seq(S)
          /\ Len(SubSeq(table, 1, m)) = IF 1 <= m THEN m - 1 + 1 ELSE 0
          /\ \A k \in 1 .. m - 1 + 1 : SubSeq(table, 1, m)[k] = table[1 + k - 1]
          /\ ToSet(SubSeq(table, 1, m)) = {table[k] : k \in 1 .. m}
      BY <2>1, <2>2, SpanIs
    <2>4. Len(SubSeq(table, 1, m)) = m
      BY <2>1, <2>3
    <2> QED BY <2>3, <2>4 DEF m
  <1>6. /\ back \in Seq(S) /\ Len(back) = n - i
        /\ ToSet(back) = {table[k] : k \in i + 1 .. n}
    <2> DEFINE m == i + 1
               part == SubSeq(table, m, n)
    <2>1. m \in Nat \ {0} /\ m = i + 1
      BY <1>1, <1>4
    <2> HIDE DEF m
    <2>2. /\ part \in Seq(S) /\ Len(part) = (IF m <= n THEN n - m + 1 ELSE 0)
          /\ ToSet(part) = {table[k] : k \in m .. n}
      BY <1>1, <2>1, SpanIs DEF n
    <2> HIDE DEF part
    <2>3. Len(part) = (IF m <= n THEN n - m + 1 ELSE 0)
      BY <2>2
    <2> DEFINE len == Len(part)
    <2> HIDE DEF len
    <2>4. len = n - i
      BY <1>1, <1>4, <2>1, <2>3 DEF len
    <2> QED BY <2>2, <2>4 DEF m, part, len
  <1> HIDE DEF front, back
  <1>7. /\ front \o back \in Seq(S) /\ Len(front \o back) = i - 1 + (n - i)
        /\ ToSet(front \o back) = ToSet(front) \cup ToSet(back)
    BY <1>5, <1>6, JoinedSet
  <1>8. ToSet(table) = {table[k] : k \in 1 .. n}
    BY <1>1 DEF ToSet
  <1>9. 1 .. n = (1 .. i - 1) \cup {i} \cup (i + 1 .. n) /\ i - 1 + (n - i) = n - 1
    BY <1>1, <1>4
  <1>10. ToSet(table) = ToSet(front) \cup {table[i]} \cup ToSet(back)
    BY <1>5, <1>6, <1>8, <1>9
  <1> DEFINE rest == front \o back
  <1>11. rest \in Seq(S) /\ ToSet(rest) = ToSet(front) \cup ToSet(back)
    BY <1>7
  <1>12. Len(rest) = n - 1
    BY <1>7, <1>9
  <1>13. Unlisted(table, u) = rest
    BY <1>3 DEF front, back
  <1> HIDE DEF rest
  <1>14. ToSet(rest) \subseteq ToSet(table)
    BY <1>10, <1>11
  <1>15. \A line \in ToSet(table) : line \in ToSet(rest) \/ line.word = Spelling[u]
    BY <1>4, <1>10, <1>11
  <1> QED BY <1>11, <1>12, <1>13, <1>14, <1>15 DEF n

-----------------------------------------------------------------------------
(* Sessions                                                                *)

LEMMA VisitedIs ==
  ASSUME FilesOK, RestOK, NEW u \in Sessions
  PROVE  /\ Visited(u) \in [right : BOOLEAN, rtime : 0 .. now]
         /\ Reread(u) \in [right : BOOLEAN, rtime : 0 .. now]
  <1> DEFINE M == [right : BOOLEAN, rtime : 0 .. now]
  <1>1. mem[u] \in M /\ u \in Paths /\ u \in Users
    BY NameListsAssumption DEF RestOK
  <1>2. path[u] # NoFile => stamp[path[u]] \in 0 .. now
    <2>1. path[u] # NoFile => stamp[path[u]] \in 1 .. now
      BY <1>1, FilesAre DEF NoFile
    <2> QED BY <2>1
  <1>3. HasRight(u) \in BOOLEAN /\ Member(u) \in BOOLEAN
    BY DEF HasRight, Member, Seek
  <1>4. Reread(u) \in M
    <2>1. [mem[u] EXCEPT !.right = FALSE] \in M
      BY <1>1
    <2>2. path[u] # NoFile => [right |-> HasRight(u), rtime |-> stamp[path[u]]] \in M
      BY <1>2, <1>3
    <2>3. CASE path[u] = NoFile
      BY <2>1, <2>3 DEF Reread, Newer
    <2>4. CASE path[u] # NoFile
      BY <1>1, <2>2, <2>4 DEF Reread, Newer
    <2> QED BY <2>3, <2>4
  <1>5. [Reread(u) EXCEPT !.right = Member(u)] \in M
    <2>1. ASSUME NEW m \in M, NEW b \in BOOLEAN PROVE [m EXCEPT !.right = b] \in M
      OBVIOUS
    <2> QED BY <1>3, <1>4, <2>1
  <1>6. Visited(u) \in M
    BY <1>4, <1>5 DEF Visited
  <1> QED BY <1>4, <1>6

LEMMA SessionStep ==
  ASSUME Base, NEW u \in Sessions, Login(u) \/ Visit(u)
  PROVE  Base'
  <1>1. FilesOK /\ CallsOK /\ RestOK /\ JobsOK /\ HandsOK /\ u \in Procs /\ u \in Users
        /\ u \notin Managers
    BY NameListsAssumption DEF Base
  <1> DEFINE M == [right : BOOLEAN, rtime : 0 .. now]
  <1>2. /\ todo \in [Procs -> Seq(CallSet(now))] /\ hand \in [Procs -> HandSet(now)]
        /\ rc \in [Procs -> {-1, 0, 1}] /\ mem \in [Sessions -> M]
        /\ now \in Nat \ {0} /\ suspect \subseteq Users
    BY <1>1 DEF CallsOK, FilesOK, RestOK
  <1>3. subject = "club" /\ todo[u] = <<>>
    BY DEF Login, Visit
  <1>4. hand[u] = NoHand
    BY <1>1, <1>3 DEF HandsOK
  <1>5. ASSUME UNCHANGED <<subject, files, hand, rc, now, job, web, cron, missed>>,
               NEW s \in Seq(CallSet(now)), todo' = [todo EXCEPT ![u] = s],
               NEW m \in M, mem' = [mem EXCEPT ![u] = m],
               suspect \subseteq suspect', suspect' \subseteq Users,
               s # <<>> => /\ u \in suspect'
                           /\ \E op \in {"add", "del"} : s = <<Call(op, u, Club, Bare)>>
        PROVE  Base'
    <2>1. todo' \in [Procs -> Seq(CallSet(now))] /\ todo'[u] = s
          /\ \A q \in Procs \ {u} : todo'[q] = todo[q]
      BY <1>1, <1>2, <1>5
    <2>2. CallsOK'
      BY <1>1, <1>5, <2>1 DEF CallsOK
    <2>3. mem' \in [Sessions -> M]
      BY <1>2, <1>5
    <2>4. RestOK'
      BY <1>1, <1>5, <2>3 DEF RestOK
    <2>5. JobsOK'
      <3>1. job' \in [Managers -> JobSet(now)' \cup {NoJob}]
        BY <1>1, <1>5 DEF JobsOK, JobSet, Kinds
      <3>2. ASSUME NEW q \in Managers
            PROVE  /\ job'[q].kind \in {"deny", "redeny"} => job'[q].until # Bare
                   /\ job'[q].run => todo'[q] \in Left(job'[q])
                   /\ ~job'[q].run => todo'[q] = <<>>
        <4>1. q \in Procs /\ q # u
          BY <1>1, NameListsAssumption
        <4>2. todo'[q] = todo[q] /\ job'[q] = job[q]
          BY <1>5, <2>1, <4>1
        <4> QED BY <1>1, <4>2 DEF JobsOK
      <3>3. ASSUME NEW v \in Sessions, todo'[v] # <<>>
            PROVE  /\ subject' = "club" /\ v \in suspect'
                   /\ \E op \in {"add", "del"} : todo'[v] = <<Call(op, v, Club, Bare)>>
        <4>1. CASE v = u
          BY <1>3, <1>5, <2>1, <3>3, <4>1
        <4>2. CASE v # u
          <5>1. todo'[v] = todo[v]
            BY <2>1, <4>2, NameListsAssumption
          <5> QED BY <1>1, <1>5, <3>3, <5>1 DEF JobsOK
        <4> QED BY <4>1, <4>2
      <3> QED BY <3>1, <3>2, <3>3 DEF JobsOK
    <2>6. /\ \A q \in Procs \ {u} : todo'[q] = todo[q] /\ hand'[q] = hand[q]
          /\ hand'[u] = NoHand
      BY <1>4, <1>5, <2>1
    <2>7. /\ UNCHANGED <<subject, files, now, web, cron>>
          /\ hand'[u] = NoHand \/ (hand'[u] = hand[u] /\ todo'[u] = todo[u])
      BY <1>5, <2>6
    <2> QED BY <1>1, <2>2, <2>4, <2>5, <2>6, <2>7, IdleStep
  <1>6. CASE Login(u)
    <2> DEFINE m == [right |-> HasRight(u), rtime |-> 0]
    <2>1. mem' = [mem EXCEPT ![u] = m] /\ suspect' = suspect
          /\ UNCHANGED <<subject, files, hand, rc, now, job, web, cron, missed>>
      BY <1>6 DEF Login, calls
    <2>2. todo' = todo
      BY <1>6 DEF Login, calls
    <2>3. m \in M
      BY <1>2 DEF HasRight, Seek
    <2>4. todo' = [todo EXCEPT ![u] = <<>>] /\ <<>> \in Seq(CallSet(now))
      BY <1>1, <1>2, <1>3, <2>2
    <2> HIDE DEF m, M
    <2> QED BY <1>2, <1>5, <2>1, <2>3, <2>4
  <1>7. CASE Visit(u)
    <2>1. /\ mem' = [mem EXCEPT ![u] = Visited(u)] /\ todo' = [todo EXCEPT ![u] = Repair(u)]
          /\ UNCHANGED <<subject, files, hand, rc, now, job, web, cron, missed>>
          /\ IF Repair(u) = <<>> THEN suspect' = suspect ELSE suspect' = suspect \cup {u}
      BY <1>7 DEF Visit
    <2>2. Visited(u) \in M
      BY <1>1, VisitedIs
    <2>3. Repair(u) # <<>> => \E op \in {"add", "del"} : Repair(u) = <<Call(op, u, Club, Bare)>>
      BY DEF Repair
    <2>4. Repair(u) \in Seq(CallSet(now))
      <3>1. \A op \in {"add", "del"} : Call(op, u, Club, Bare) \in CallSet(now)
        BY <1>1, <1>2, PathsAre, CallIs, WordOf, TailsAre
      <3>2. ASSUME NEW c \in CallSet(now) PROVE <<c>> \in Seq(CallSet(now))
        BY OneCall
      <3>3. <<>> \in Seq(CallSet(now))
        OBVIOUS
      <3> QED BY <2>3, <3>1, <3>2, <3>3
    <2>5. suspect \subseteq suspect' /\ suspect' \subseteq Users /\ (Repair(u) # <<>> => u \in suspect')
      BY <1>1, <1>2, <2>1
    <2> HIDE DEF M
    <2> QED BY <1>5, <2>1, <2>2, <2>3, <2>4, <2>5
  <1> QED BY <1>6, <1>7

-----------------------------------------------------------------------------
(* The web and cron                                                        *)

\* A step that may change the files, but no call and no manager's job.
LEMMA OtherStep ==
  ASSUME Base, UNCHANGED <<subject, now, calls, job, mem, suspect>>, subject = "deny",
         FilesOK', LocksOK', CronOK', WebOK',
         web' \in [Web -> WebSet(now)], cron' \in CronSet(now),
         missed' \in [Web \cup {"cron"} -> SUBSET LineSet(now)],
         Len(text') = Len(text) \/ Len(text') = Len(text) + 1,
         \A f \in Paths : \/ path'[f] = path[f]
                          \/ /\ f = "deny_users" /\ path'[f] = Len(text) + 1
                             /\ Len(text') = Len(text) + 1,
         \/ cron'.at = "out"
         \/ cron'.fd = path["deny_users"]
         \/ cron.at # "out" /\ cron'.fd = cron.fd
  PROVE  Base'
  <1>1. /\ FilesOK /\ CallsOK /\ RestOK /\ JobsOK /\ HandsOK /\ CronOK /\ Apart /\ Seated
        /\ Len(text) \in Nat /\ \A f \in Paths : path[f] \in 0 .. Len(text)
    BY FilesAre DEF Base
  <1>2. todo' = todo /\ hand' = hand /\ rc' = rc
    BY DEF calls
  <1>3. Len(text) <= Len(text') /\ 1 .. Len(text) \subseteq 1 .. Len(text')
    <2> DEFINE n == Len(text)
               m == Len(text')
    <2>1. n \in Nat /\ (m = n \/ m = n + 1)
      BY <1>1
    <2> HIDE DEF n, m
    <2>2. n <= m /\ 1 .. n \subseteq 1 .. m
      BY <2>1
    <2> QED BY <2>2 DEF n, m
  <1>4. CallsOK'
    BY <1>1, <1>2 DEF CallsOK
  <1>5. RestOK'
    BY <1>1 DEF RestOK
  <1>6. JobsOK'
    BY <1>1, <1>2 DEF JobsOK, JobSet, Kinds
  <1>7. HandsOK'
    BY <1>1, <1>2, <1>3 DEF HandsOK
  <1>8. \A f \in Paths : path[f] # NoFile => path'[f] # NoFile
    BY <1>1 DEF NoFile
  <1>9. Seated'
    BY <1>1, <1>8, PathsAre DEF Seated
  <1>10. \A i, f : \A q \in Procs : HeldBy(q, i, f)' => HeldBy(q, i, f) /\ i \in 1 .. Len(text)
    BY <1>1, <1>2 DEF HeldBy, HandsOK
  <1>11. ASSUME NEW i \in 1 .. Len(text), NEW f \in Paths, Holds(i, f)' PROVE Holds(i, f)
    <2>1. CASE path'[f] = i
      <3>1. path[f] = i
        BY <1>1, <1>11, <2>1
      <3> QED BY <3>1 DEF Holds
    <2>2. CASE \E q \in Procs : HeldBy(q, i, f)'
      BY <1>10, <2>2 DEF Holds
    <2>3. CASE cron'.at # "out" /\ cron'.fd = i /\ f = "deny_users"
      BY <2>3 DEF Holds
    <2> QED BY <1>11, <2>1, <2>2, <2>3 DEF Holds
  <1>12. ASSUME NEW i \in 1 .. Len(text'), i \notin 1 .. Len(text), NEW f \in Paths, Holds(i, f)'
         PROVE  f = "deny_users"
    <2>1. CASE path'[f] = i
      BY <1>1, <1>12, <2>1
    <2>2. CASE \E q \in Procs : HeldBy(q, i, f)'
      BY <1>10, <1>12, <2>2
    <2>3. CASE cron'.at # "out" /\ cron'.fd = i /\ f = "deny_users"
      BY <2>3
    <2> QED BY <1>12, <2>1, <2>2, <2>3 DEF Holds
  <1>13. Apart'
    <2> SUFFICES ASSUME NEW i \in 1 .. Len(text'), NEW f \in Paths, NEW g \in Paths,
                        Holds(i, f)', Holds(i, g)'
                 PROVE  f = g
      BY DEF Apart
    <2>1. CASE i \in 1 .. Len(text)
      BY <1>1, <1>11, <2>1 DEF Apart
    <2>2. CASE i \notin 1 .. Len(text)
      BY <1>12, <2>2
    <2> QED BY <2>1, <2>2
  <1> QED BY <1>4, <1>5, <1>6, <1>7, <1>9, <1>13 DEF Base

\* A new list, or new text in the inode of the list or in the one cron holds.
LEMMA FilesWritten ==
  ASSUME Base, subject' = subject, now' = now, NEW txt \in TextSet(now),
         \/ NewInode("deny_users", txt, now)
         \/ \E fd \in 1 .. Len(text) : Rewritten(fd, txt)
  PROVE  /\ FilesOK' /\ (cron' = cron => LocksOK')
         /\ Len(text') = Len(text) \/ Len(text') = Len(text) + 1
         /\ \A f \in Paths : \/ path'[f] = path[f]
                             \/ /\ f = "deny_users" /\ path'[f] = Len(text) + 1
                                /\ Len(text') = Len(text) + 1
  <1>1. /\ FilesOK /\ LocksOK /\ CronOK /\ Len(text) \in Nat /\ now \in 1 .. now
        /\ path \in [Paths -> 0 .. Len(text)] /\ "deny_users" \in Paths
        /\ lock \in Seq({NoProc, "cron"}) /\ Len(lock) = Len(text)
    BY FilesAre, PathsAre DEF Base, FilesOK
  <1>2. CASE NewInode("deny_users", txt, now)
    <2>1. /\ text' \in Seq(TextSet(now)) /\ Len(text') = Len(text) + 1
          /\ stamp' \in Seq(1 .. now) /\ Len(stamp') = Len(text) + 1
          /\ lock' \in Seq({NoProc, "cron"}) /\ Len(lock') = Len(text) + 1
          /\ \A i \in 1 .. Len(text) : lock'[i] = lock[i]
          /\ lock'[Len(text) + 1] = NoProc
          /\ path' = [path EXCEPT !["deny_users"] = Len(text) + 1]
      BY <1>1, <1>2, PlacedIs
    <2>2. path' \in [Paths -> 0 .. Len(text')]
      <3> DEFINE n == Len(text)
      <3>1. /\ path \in [Paths -> 0 .. n] /\ n \in Nat /\ Len(text') = n + 1
            /\ path' = [path EXCEPT !["deny_users"] = n + 1]
        BY <1>1, <2>1
      <3> HIDE DEF n
      <3>2. n + 1 \in 0 .. n + 1 /\ 0 .. n \subseteq 0 .. n + 1
        BY <3>1
      <3>3. path' \in [Paths -> 0 .. n + 1]
        BY <3>1, <3>2
      <3> QED BY <3>1, <3>3
    <2>3. FilesOK'
      BY <1>1, <2>1, <2>2 DEF FilesOK
    <2>4. ASSUME cron' = cron PROVE LocksOK'
      <3> SUFFICES ASSUME NEW i \in 1 .. Len(text')
                   PROVE  lock'[i] = IF cron.at = "read" /\ cron.fd = i THEN "cron" ELSE NoProc
        BY <2>4 DEF LocksOK
      <3>1. CASE i \in 1 .. Len(text)
        BY <1>1, <2>1, <3>1 DEF LocksOK
      <3>2. CASE i \notin 1 .. Len(text)
        <4>1. i = Len(text) + 1
          BY <1>1, <2>1, <3>2
        <4>2. cron.at = "read" => cron.fd # i
          BY <1>1, <3>2 DEF CronOK
        <4> QED BY <2>1, <4>1, <4>2
      <3> QED BY <3>1, <3>2
    <2>5. \A f \in Paths : path'[f] = path[f] \/ (f = "deny_users" /\ path'[f] = Len(text) + 1)
      BY <1>1, <2>1
    <2> QED BY <2>1, <2>3, <2>4, <2>5
  <1>3. CASE \E fd \in 1 .. Len(text) : Rewritten(fd, txt)
    <2>1. /\ text' \in Seq(TextSet(now)) /\ Len(text') = Len(text)
          /\ stamp' \in Seq(1 .. now) /\ Len(stamp') = Len(text)
          /\ path' = path /\ lock' = lock
      BY <1>1, <1>3, RewrittenIs
    <2>2. FilesOK'
      BY <1>1, <2>1 DEF FilesOK
    <2>3. cron' = cron => LocksOK'
      BY <1>1, <2>1 DEF LocksOK
    <2> QED BY <2>1, <2>2, <2>3
  <1> QED BY <1>2, <1>3

LEMMA WebIs ==
  ASSUME RestOK, FilesOK, NEW w \in Web
  PROVE  /\ web[w] \in WebSet(now) /\ web[w].table \in Seq(LineSet(now))
         /\ web[w].at \in {"out", "loaded", "emptied"}
         /\ NoWeb \in WebSet(now) /\ NoWeb.at = "out" /\ NoWeb.table = <<>>
  <1>1. web[w] \in WebSet(now) /\ Bare \in Tails(now)
    BY TailsAre DEF RestOK, FilesOK
  <1>2. <<>> \in Seq(LineSet(now))
    OBVIOUS
  <1>3. NoWeb \in WebSet(now) /\ NoWeb.at = "out" /\ NoWeb.table = <<>>
    BY <1>1, <1>2 DEF NoWeb, WebSet
  <1> QED BY <1>1, <1>3 DEF WebSet

LEMMA OneWeb ==
  ASSUME RestOK, NEW w \in Web, NEW r \in WebSet(now), web' = [web EXCEPT ![w] = r]
  PROVE  /\ web' \in [Web -> WebSet(now)] /\ web'[w] = r
         /\ \A v \in Web \ {w} : web'[v] = web[v]
  BY DEF RestOK

LEMMA MissesSet ==
  ASSUME RestOK, NEW S \in SUBSET LineSet(now), missed' = [a \in DOMAIN missed |-> missed[a] \cup S]
  PROVE  /\ missed' \in [Web \cup {"cron"} -> SUBSET LineSet(now)]
         /\ \A a \in Web \cup {"cron"} : missed'[a] = missed[a] \cup S
  BY DEF RestOK

\* What a request reads: all denials but those that it is excused from.
LEMMA WebLoadIs ==
  ASSUME FilesOK, RestOK, NEW w \in Web, WebLoad(w)
  PROVE  /\ subject = "deny" /\ web[w].at = "out"
         /\ missed' = [missed EXCEPT ![w] = {}]
         /\ UNCHANGED <<subject, files, calls, now, job, cron, mem, suspect>>
         /\ \E r \in WebSet(now) :
              /\ web' = [web EXCEPT ![w] = r] /\ r.at = "loaded"
              /\ \A line \in ToSet(r.table) : line \in Denials \/ line.tail # Bare
              /\ \A line \in Denials :
                   \/ line \in ToSet(r.table) \/ line.tail = Manual
                   \/ r.op = "undeny" /\ line.word = Spelling[r.who]
                   \/ Len(r.table) = IF r.op = "deny" THEN LoadMax + 1 ELSE LoadMax - 1
  <1> DEFINE L == LineSet(now)
  <1>1. /\ subject = "deny" /\ web[w].at = "out" /\ missed' = [missed EXCEPT ![w] = {}]
        /\ UNCHANGED <<subject, files, calls, now, job, cron, mem, suspect>>
    BY DEF WebLoad
  <1>2. now \in Nat \ {0} /\ Bare \in Tails(now) /\ Targets \subseteq Users
    BY TailsAre, NameListsAssumption DEF FilesOK
  <1>3. /\ Loaded \in Seq(L) /\ ToSet(Loaded) \subseteq Denials
        /\ \A line \in Denials : \/ line.tail = Manual \/ line \in ToSet(Loaded)
                                 \/ Len(Loaded) = LoadMax
    BY LoadedIs
  <1>4. PICK u \in Targets :
          \/ /\ ~Denied(u) /\ Len(Loaded) <= DenyLimit
             /\ \E t \in Dates \ {Manual} :
                   web' = [web EXCEPT ![w] = [at |-> "loaded", op |-> "deny", who |-> u, until |-> t,
                             table |-> Append(Loaded, Line(Spelling[u], t))]]
          \/ /\ Listed(Loaded, u) # {}
             /\ web' = [web EXCEPT ![w] = [at |-> "loaded", op |-> "undeny", who |-> u, until |-> Bare,
                             table |-> Unlisted(Loaded, u)]]
    BY DEF WebLoad
  <1>5. u \in Users
    BY <1>2
  <1> DEFINE Good(r) ==
              /\ web' = [web EXCEPT ![w] = r] /\ r.at = "loaded"
              /\ \A line \in ToSet(r.table) : line \in Denials \/ line.tail # Bare
              /\ \A line \in Denials :
                   \/ line \in ToSet(r.table) \/ line.tail = Manual
                   \/ r.op = "undeny" /\ line.word = Spelling[r.who]
                   \/ Len(r.table) = IF r.op = "deny" THEN LoadMax + 1 ELSE LoadMax - 1
  <1>6. ASSUME NEW t \in Dates \ {Manual},
               web' = [web EXCEPT ![w] = [at |-> "loaded", op |-> "deny", who |-> u, until |-> t,
                             table |-> Append(Loaded, Line(Spelling[u], t))]]
        PROVE  \E r \in WebSet(now) : Good(r)
    <2> DEFINE l == Line(Spelling[u], t)
               T == Append(Loaded, l)
               r == [at |-> "loaded", op |-> "deny", who |-> u, until |-> t, table |-> T]
    <2>1. t \in Tails(now) /\ t # Bare
      BY <1>2, TailsAre DEF Dates
    <2>2. Spelling[u] \in Word
      BY <1>5, WordOf
    <2>3. l \in L /\ l.tail # Bare
      BY <2>1, <2>2 DEF Line, LineSet
    <2>4. web' = [web EXCEPT ![w] = r]
      BY <1>6
    <2> HIDE DEF l, L
    <2>5. T \in Seq(L) /\ Len(T) = Len(Loaded) + 1 /\ ToSet(T) = ToSet(Loaded) \cup {l}
      BY <1>3, <2>3, AppendProperties, AppendSet
    <2> HIDE DEF T
    <2>6. r \in WebSet(now) /\ r.at = "loaded" /\ r.table = T /\ r.op = "deny"
      BY <1>5, <2>1, <2>5 DEF WebSet, L
    <2> HIDE DEF r
    <2>7. Good(r)
      BY <1>3, <2>3, <2>4, <2>5, <2>6
    <2> QED BY <2>6, <2>7
  <1>7. ASSUME Listed(Loaded, u) # {},
               web' = [web EXCEPT ![w] = [at |-> "loaded", op |-> "undeny", who |-> u, until |-> Bare,
                             table |-> Unlisted(Loaded, u)]]
        PROVE  \E r \in WebSet(now) : Good(r)
    <2> DEFINE T == Unlisted(Loaded, u)
               r == [at |-> "loaded", op |-> "undeny", who |-> u, until |-> Bare, table |-> T]
    <2>1. web' = [web EXCEPT ![w] = r]
      BY <1>7
    <2> HIDE DEF L
    <2>2. /\ T \in Seq(L) /\ Len(T) = Len(Loaded) - 1 /\ ToSet(T) \subseteq ToSet(Loaded)
          /\ \A line \in ToSet(Loaded) : line \in ToSet(T) \/ line.word = Spelling[u]
      BY <1>3, <1>7, UnlistedIs
    <2> HIDE DEF T
    <2>3. /\ r \in WebSet(now) /\ r.at = "loaded" /\ r.table = T /\ r.op = "undeny"
          /\ r.op # "deny" /\ r.who = u
      BY <1>2, <1>5, <2>2 DEF WebSet, L
    <2> HIDE DEF r
    <2>4. Good(r)
      BY <1>3, <2>1, <2>2, <2>3
    <2> QED BY <2>3, <2>4
  <1>8. \E r \in WebSet(now) : Good(r)
    <2> HIDE DEF Good
    <2> QED BY <1>4, <1>6, <1>7
  <1> QED BY <1>1, <1>8

LEMMA OverlaidIs ==
  ASSUME NEW S, NEW lines \in Seq(S), NEW table \in Seq(S)
  PROVE  /\ Overlaid(lines, table) \in Seq(S)
         /\ ToSet(table) \subseteq ToSet(Overlaid(lines, table))
         /\ ToSet(Overlaid(lines, table)) \subseteq ToSet(table) \cup ToSet(lines)
  <1> DEFINE a == Len(table) + 1
             b == Len(lines)
             part == SubSeq(lines, a, b)
  <1>1. a \in Nat \ {0} /\ b \in Nat
    BY LenProperties
  <1>2. DOMAIN lines = 1 .. b
    BY LenProperties
  <1>3. Overlaid(lines, table) = table \o part
    BY DEF Overlaid
  <1> HIDE DEF a
  <1>4. part \in Seq(S) /\ ToSet(part) = {lines[k] : k \in a .. b}
    BY <1>1, SpanIs
  <1>5. ToSet(part) \subseteq ToSet(lines)
    <2> HIDE DEF b, part
    <2>1. ToSet(lines) = {lines[k] : k \in 1 .. b} /\ a .. b \subseteq 1 .. b
      BY <1>1, <1>2 DEF ToSet
    <2> QED BY <1>4, <2>1
  <1> HIDE DEF part
  <1>6. table \o part \in Seq(S) /\ ToSet(table \o part) = ToSet(table) \cup ToSet(part)
    BY <1>4, JoinedSet
  <1> QED BY <1>3, <1>5, <1>6

\* fclose writes one new text into the inode of the list.
LEMMA WebWriteIs ==
  ASSUME Base, NEW w \in Web, WebWrite(w)
  PROVE  LET fd  == path["deny_users"]
             new == [lines |-> Overlaid(text[fd].lines, web[w].table), rest |-> text[fd].rest]
         IN  /\ subject = "deny" /\ web[w].at = "emptied" /\ fd \in 1 .. Len(text)
             /\ new \in TextSet(now) /\ Rewritten(fd, new)
             /\ web' = [web EXCEPT ![w] = NoWeb]
             /\ missed' = [a \in DOMAIN missed |-> missed[a] \cup Denials']
             /\ UNCHANGED <<subject, now, calls, job, cron, mem, suspect>>
  <1> DEFINE fd  == path["deny_users"]
             ls == Overlaid(text[fd].lines, web[w].table)
             new == [lines |-> ls, rest |-> text[fd].rest]
  <1>1. /\ web[w].at = "emptied" /\ stamp' = [stamp EXCEPT ![fd] = now]
        /\ text' = [text EXCEPT ![fd].lines = Overlaid(@, web[w].table)]
        /\ web' = [web EXCEPT ![w] = NoWeb]
        /\ UNCHANGED <<subject, path, lock, now, calls, job, cron, mem, suspect>>
        /\ missed' = [a \in DOMAIN missed |-> missed[a] \cup Denials']
    BY DEF WebWrite, Misses
  <1>2. FilesOK /\ RestOK /\ WebOK
    BY DEF Base
  <1>3. subject = "deny" /\ fd # NoFile
    BY <1>1, <1>2 DEF WebOK
  <1>4. fd \in 1 .. Len(text) /\ text[fd] \in TextSet(now) /\ DOMAIN text = 1 .. Len(text)
    BY <1>2, <1>3, PathsAre, FilesAre DEF NoFile
  <1>5. text[fd].lines \in Seq(LineSet(now)) /\ text[fd].rest \in Seq(STRING)
        /\ text[fd] = [lines |-> text[fd].lines, rest |-> text[fd].rest]
    BY <1>4 DEF TextSet
  <1>6. web[w].table \in Seq(LineSet(now))
    BY <1>2, WebIs
  <1>7. ls \in Seq(LineSet(now))
    BY <1>5, <1>6, OverlaidIs
  <1>8. text' = [text EXCEPT ![fd] = [text[fd] EXCEPT !.lines = ls]]
    BY <1>1
  <1>9. [text[fd] EXCEPT !.lines = ls] = new
    <2> HIDE DEF ls, fd
    <2> DEFINE t == text[fd]
    <2>1. t = [lines |-> t.lines, rest |-> t.rest]
      BY <1>5
    <2> HIDE DEF t
    <2>2. [t EXCEPT !.lines = ls] = [lines |-> ls, rest |-> t.rest]
      BY <2>1
    <2> QED BY <2>2 DEF t
  <1>10. new \in TextSet(now)
    <2> HIDE DEF ls, fd
    <2> QED BY <1>5, <1>7 DEF TextSet
  <1>11. Rewritten(fd, new)
    <2>1. text' = [text EXCEPT ![fd] = new]
      <3> HIDE DEF new, fd, ls
      <3> QED BY <1>8, <1>9
    <2> HIDE DEF new
    <2> QED BY <1>1, <2>1 DEF Rewritten
  <1> QED BY <1>1, <1>3, <1>4, <1>10, <1>11

LEMMA DenialsNext ==
  ASSUME FilesOK', now' = now
  PROVE  Denials' \subseteq LineSet(now)
  <1>1. \A f \in Paths : Content(f)' \in TextSet(now)
    <2> TAKE f \in Paths
    <2>1. Text(<<>>) \in TextSet(now)
      BY NoHandIs DEF FilesOK
    <2>2. text' \in Seq(TextSet(now)) /\ Len(text') \in Nat
      BY LenProperties DEF FilesOK
    <2>3. path'[f] # NoFile => path'[f] \in 1 .. Len(text')
      BY <2>2 DEF FilesOK, NoFile
    <2>4. path'[f] # NoFile => text'[path'[f]] \in TextSet(now)
      BY <2>2, <2>3, ElementOfSeq
    <2> QED BY <2>1, <2>4 DEF Content
  <1> DEFINE ls == Content("deny_users")'.lines
  <1>2. ls \in Seq(LineSet(now))
    BY <1>1, PathsAre DEF TextSet
  <1>3. DOMAIN ls = 1 .. Len(ls) /\ \A k \in 1 .. Len(ls) : ls[k] \in LineSet(now)
    BY <1>2, LenProperties, ElementOfSeq
  <1>4. Denials' = ToSet(ls)
    BY DEF Denials
  <1> HIDE DEF ls
  <1> QED BY <1>3, <1>4 DEF ToSet

LEMMA WebStep ==
  ASSUME Base, NEW w \in Web, WebLoad(w) \/ WebEmpty(w) \/ WebWrite(w) \/ WebKilled(w)
  PROVE  Base'
  <1>1. FilesOK /\ RestOK /\ WebOK /\ LocksOK /\ CronOK /\ Len(text) \in Nat
        /\ cron \in CronSet(now) /\ missed \in [Web \cup {"cron"} -> SUBSET LineSet(now)]
        /\ now \in Nat \ {0}
    BY FilesAre DEF Base, RestOK
  <1>2. /\ web[w] \in WebSet(now) /\ web[w].at \in {"out", "loaded", "emptied"}
        /\ NoWeb \in WebSet(now) /\ NoWeb.at = "out"
    BY <1>1, WebIs
  <1>3. CASE WebLoad(w)
    <2>1. PICK r \in WebSet(now) : web' = [web EXCEPT ![w] = r] /\ r.at = "loaded"
      BY <1>1, <1>3, WebLoadIs
    <2>2. /\ subject = "deny" /\ missed' = [missed EXCEPT ![w] = {}]
          /\ UNCHANGED <<subject, files, calls, now, job, cron, mem, suspect>>
      BY <1>1, <1>3, WebLoadIs
    <2>3. web' \in [Web -> WebSet(now)] /\ web'[w] = r /\ \A v \in Web \ {w} : web'[v] = web[v]
      BY <1>1, <2>1, OneWeb
    <2>4. missed' \in [Web \cup {"cron"} -> SUBSET LineSet(now)]
      BY <1>1, <2>2
    <2>5. path' = path /\ text' = text /\ stamp' = stamp /\ lock' = lock /\ cron' = cron
          /\ subject' = subject /\ now' = now
      BY <2>2 DEF files
    <2>6. FilesOK' /\ LocksOK' /\ CronOK'
      BY <1>1, <2>5 DEF FilesOK, LocksOK, CronOK
    <2>7. WebOK'
      BY <1>1, <2>1, <2>2, <2>3, <2>5 DEF WebOK
    <2> QED BY <1>1, <2>2, <2>3, <2>4, <2>5, <2>6, <2>7, OtherStep
  <1>4. CASE WebKilled(w)
    <2>1. /\ web' = [web EXCEPT ![w] = NoWeb]
          /\ UNCHANGED <<subject, files, calls, now, job, cron, mem, suspect>> /\ missed' = missed
      BY <1>4 DEF WebKilled, history
    <2>2. web' \in [Web -> WebSet(now)] /\ web'[w] = NoWeb /\ \A v \in Web \ {w} : web'[v] = web[v]
      BY <1>1, <1>2, <2>1, OneWeb
    <2>3. path' = path /\ text' = text /\ stamp' = stamp /\ lock' = lock /\ cron' = cron
          /\ subject' = subject /\ now' = now
      BY <2>1 DEF files
    <2>4. FilesOK' /\ LocksOK' /\ CronOK'
      BY <1>1, <2>3 DEF FilesOK, LocksOK, CronOK
    <2>5. WebOK'
      BY <1>1, <1>2, <2>2, <2>3 DEF WebOK
    <2>6. subject = "deny"
      BY <1>1, <1>4 DEF WebKilled, WebOK
    <2> QED BY <1>1, <2>1, <2>2, <2>3, <2>4, <2>5, <2>6, OtherStep
  <1>5. CASE WebEmpty(w)
    <2> DEFINE r == [web[w] EXCEPT !.at = "emptied"]
    <2>1. /\ web[w].at = "loaded" /\ web' = [web EXCEPT ![w] = r]
          /\ UNCHANGED <<subject, calls, now, job, cron, mem, suspect>> /\ missed' = missed
          /\ \/ NewInode("deny_users", Text(<<>>), now)
             \/ path["deny_users"] # NoFile /\ Rewritten(path["deny_users"], Text(<<>>))
      BY <1>5 DEF WebEmpty, Rewritten, history
    <2>2. r \in WebSet(now) /\ r.at = "emptied"
      BY <1>2 DEF WebSet
    <2> HIDE DEF r
    <2>3. web' \in [Web -> WebSet(now)] /\ web'[w] = r /\ \A v \in Web \ {w} : web'[v] = web[v]
      BY <1>1, <2>1, <2>2, OneWeb
    <2>4. Text(<<>>) \in TextSet(now)
      BY <1>1, NoHandIs
    <2>5. path["deny_users"] # NoFile => path["deny_users"] \in 1 .. Len(text)
      BY <1>1, FilesAre, PathsAre DEF NoFile
    <2>6. /\ FilesOK' /\ LocksOK'
          /\ Len(text') = Len(text) \/ Len(text') = Len(text) + 1
          /\ \A f \in Paths : \/ path'[f] = path[f]
                              \/ /\ f = "deny_users" /\ path'[f] = Len(text) + 1
                                 /\ Len(text') = Len(text) + 1
      <3>1. subject' = subject /\ now' = now /\ cron' = cron
        BY <2>1
      <3>2. \/ NewInode("deny_users", Text(<<>>), now)
            \/ \E fd \in 1 .. Len(text) : Rewritten(fd, Text(<<>>))
        BY <2>1, <2>5
      <3> QED BY <2>4, <3>1, <3>2, FilesWritten
    <2>7. path'["deny_users"] # NoFile
      <3>1. CASE NewInode("deny_users", Text(<<>>), now)
        <4>1. path' = [path EXCEPT !["deny_users"] = Len(text) + 1]
          BY <1>1, <3>1, PathsAre DEF NewInode
        <4>2. path \in [Paths -> 0 .. Len(text)]
          BY <1>1 DEF FilesOK
        <4> QED BY <1>1, <4>1, <4>2, PathsAre DEF NoFile
      <3>2. CASE path["deny_users"] # NoFile /\ Rewritten(path["deny_users"], Text(<<>>))
        BY <3>2 DEF Rewritten
      <3> QED BY <2>1, <3>1, <3>2
    <2>8. CronOK'
      <3>1. 1 .. Len(text) \subseteq 1 .. Len(text')
        <4> DEFINE n == Len(text)
                   m == Len(text')
        <4>1. n \in Nat /\ (m = n \/ m = n + 1)
          BY <1>1, <2>6
        <4> HIDE DEF n, m
        <4>2. 1 .. n \subseteq 1 .. m
          BY <4>1
        <4> QED BY <4>2 DEF n, m
      <3> QED BY <1>1, <2>1, <3>1 DEF CronOK
    <2>9. subject = "deny"
      BY <1>1, <2>1 DEF WebOK
    <2>10. WebOK'
      BY <1>1, <2>1, <2>2, <2>3, <2>7, <2>9 DEF WebOK
    <2> QED BY <1>1, <2>1, <2>3, <2>6, <2>8, <2>9, <2>10, OtherStep
  <1>6. CASE WebWrite(w)
    <2> DEFINE fd  == path["deny_users"]
               new == [lines |-> Overlaid(text[fd].lines, web[w].table), rest |-> text[fd].rest]
    <2>1. /\ subject = "deny" /\ web[w].at = "emptied" /\ fd \in 1 .. Len(text)
          /\ new \in TextSet(now) /\ Rewritten(fd, new)
          /\ web' = [web EXCEPT ![w] = NoWeb]
          /\ missed' = [a \in DOMAIN missed |-> missed[a] \cup Denials']
          /\ UNCHANGED <<subject, now, calls, job, cron, mem, suspect>>
      BY <1>6, WebWriteIs
    <2> HIDE DEF fd, new
    <2>2. web' \in [Web -> WebSet(now)] /\ web'[w] = NoWeb /\ \A v \in Web \ {w} : web'[v] = web[v]
      BY <1>1, <1>2, <2>1, OneWeb
    <2>3. /\ FilesOK' /\ LocksOK'
          /\ Len(text') = Len(text) \/ Len(text') = Len(text) + 1
          /\ \A f \in Paths : \/ path'[f] = path[f]
                              \/ /\ f = "deny_users" /\ path'[f] = Len(text) + 1
                                 /\ Len(text') = Len(text) + 1
      <3>1. subject' = subject /\ now' = now /\ cron' = cron
        BY <2>1
      <3>2. \E i \in 1 .. Len(text) : Rewritten(i, new)
        BY <2>1
      <3> QED BY <2>1, <3>1, <3>2, FilesWritten
    <2>4. Len(text') = Len(text) /\ path' = path
      BY <1>1, <2>1, RewrittenIs
    <2>5. CronOK'
      BY <1>1, <2>1, <2>4 DEF CronOK
    <2>6. WebOK'
      BY <1>1, <1>2, <2>1, <2>2, <2>4 DEF WebOK
    <2>7. missed' \in [Web \cup {"cron"} -> SUBSET LineSet(now)]
      <3>1. Denials' \subseteq LineSet(now)
        BY <2>1, <2>3, DenialsNext
      <3> QED BY <1>1, <2>1, <3>1, MissesSet
    <2> QED BY <1>1, <2>1, <2>2, <2>3, <2>5, <2>6, <2>7, OtherStep
  <1> QED BY <1>3, <1>4, <1>5, <1>6

LEMMA CronIs ==
  ASSUME FilesOK, RestOK
  PROVE  /\ cron = [at |-> cron.at, nowtime |-> cron.nowtime, size |-> cron.size, fd |-> cron.fd,
                    keep |-> cron.keep]
         /\ cron.at \in {"out", "stat", "read"} /\ cron.nowtime \in 0 .. now /\ cron.size \in Nat
         /\ cron.fd \in Nat /\ cron.keep \in Seq(LineSet(now))
         /\ NoCron \in CronSet(now) /\ NoCron.at = "out" /\ NoCron.keep = <<>>
  <1>1. cron \in CronSet(now) /\ now \in Nat
    BY DEF RestOK, FilesOK
  <1>2. <<>> \in Seq(LineSet(now))
    OBVIOUS
  <1>3. NoCron \in CronSet(now) /\ NoCron.at = "out" /\ NoCron.keep = <<>>
    BY <1>1, <1>2 DEF NoCron, NoFile, CronSet
  <1> QED BY <1>1, <1>3 DEF CronSet

LEMMA CronStatIs ==
  ASSUME Base, CronStat
  PROVE  LET fd == path["deny_users"] IN
         /\ subject = "deny" /\ cron.at = "out" /\ fd \in 1 .. Len(text)
         /\ cron' \in CronSet(now) /\ cron'.at = "stat" /\ cron'.fd = fd
         /\ cron'.size = Len(text[fd].lines) /\ cron'.keep = <<>> /\ cron'.nowtime = now
         /\ missed' = [missed EXCEPT !["cron"] = {}]
         /\ UNCHANGED <<subject, files, calls, now, job, web, mem, suspect>>
  <1> DEFINE size == Len(Content("deny_users").lines)
             fd == path["deny_users"]
  <1>1. /\ cron.at = "out" /\ size > 0 /\ missed' = [missed EXCEPT !["cron"] = {}]
        /\ cron' = [NoCron EXCEPT !.at = "stat", !.nowtime = now, !.size = size, !.fd = fd]
        /\ UNCHANGED <<subject, files, calls, now, job, web, mem, suspect>>
    BY DEF CronStat
  <1>2. FilesOK /\ RestOK /\ now \in Nat \ {0} /\ subject \in {"club", "deny"}
    BY DEF Base, FilesOK
  <1>3. Content("deny_users").lines \in Seq(LineSet(now))
    BY <1>2, PathsAre, ContentIs
  <1>4. size \in Nat
    BY <1>3, LenProperties
  <1>5. fd # NoFile
    <2> SUFFICES ASSUME fd = NoFile PROVE FALSE
      OBVIOUS
    <2>1. Content("deny_users").lines = <<>>
      BY DEF Content, Text
    <2>2. Len(<<>>) = 0
      OBVIOUS
    <2> QED BY <1>1, <2>1, <2>2
  <1>6. fd \in 1 .. Len(text) /\ fd \in Nat
    BY <1>2, <1>5, PathsAre, FilesAre DEF NoFile
  <1>7. subject = "deny"
    BY <1>2, <1>5 DEF Base, Seated
  <1>8. size = Len(text[fd].lines)
    BY <1>5 DEF Content
  <1> HIDE DEF size, fd
  <1> DEFINE a == [NoCron EXCEPT !.at = "stat"]
             b == [a EXCEPT !.nowtime = now]
             c == [b EXCEPT !.size = size]
             d == [c EXCEPT !.fd = fd]
  <1>9. cron' = d
    BY <1>1
  <1>10. a = [at |-> "stat", nowtime |-> 0, size |-> 0, fd |-> NoFile, keep |-> <<>>]
    BY DEF NoCron
  <1> HIDE DEF a
  <1>11. b = [at |-> "stat", nowtime |-> now, size |-> 0, fd |-> NoFile, keep |-> <<>>]
    BY <1>10
  <1> HIDE DEF b
  <1>12. c = [at |-> "stat", nowtime |-> now, size |-> size, fd |-> NoFile, keep |-> <<>>]
    BY <1>11
  <1> HIDE DEF c
  <1>13. d = [at |-> "stat", nowtime |-> now, size |-> size, fd |-> fd, keep |-> <<>>]
    BY <1>12
  <1> HIDE DEF d
  <1>14. <<>> \in Seq(LineSet(now)) /\ now \in 0 .. now
    BY <1>2
  <1>15. d \in CronSet(now)
    BY <1>4, <1>6, <1>13, <1>14 DEF CronSet
  <1>16. d.at = "stat" /\ d.fd = fd /\ d.size = size /\ d.keep = <<>> /\ d.nowtime = now
    BY <1>13
  <1> QED BY <1>1, <1>6, <1>7, <1>8, <1>9, <1>15, <1>16 DEF fd

\* autoundeny keeps all that it read but what has lapsed.
LEMMA CronReadIs ==
  ASSUME Base, CronRead, cron' # NoCron
  PROVE  LET lines == text[cron.fd].lines IN
         /\ subject = "deny" /\ cron.at = "stat" /\ cron.fd \in 1 .. Len(text)
         /\ lock[cron.fd] = NoProc /\ lock' = [lock EXCEPT ![cron.fd] = "cron"]
         /\ cron' \in CronSet(now) /\ cron'.at = "read" /\ cron'.fd = cron.fd
         /\ cron'.nowtime = cron.nowtime
         /\ ToSet(cron'.keep) \subseteq ToSet(lines)
         /\ cron.size <= Len(lines)
         /\ \A k \in 1 .. cron.size : lines[k] \in ToSet(cron'.keep) \/ Lapsed(lines[k], cron.nowtime)
         /\ UNCHANGED <<subject, path, text, stamp, calls, now, job, web, mem, history>>
  <1> DEFINE fd == cron.fd
             lines == text[fd].lines
             part == SubSeq(lines, 1, cron.size)
             keep == Kept(part, cron.nowtime)
  <1>1. /\ cron.at = "stat" /\ lock[fd] = NoProc /\ Len(lines) >= cron.size
        /\ cron' = [cron EXCEPT !.at = "read", !.keep = keep]
        /\ lock' = [lock EXCEPT ![fd] = "cron"]
        /\ UNCHANGED <<subject, path, text, stamp, calls, now, job, web, mem, history>>
    BY DEF CronRead
  <1>2. FilesOK /\ RestOK /\ now \in Nat \ {0} /\ subject = "deny" /\ fd \in 1 .. Len(text)
    BY <1>1 DEF Base, FilesOK, CronOK
  <1>3. lines \in Seq(LineSet(now))
    <2>1. text[fd] \in TextSet(now)
      BY <1>2, FilesAre
    <2> QED BY <2>1 DEF TextSet
  <1> DEFINE size == cron.size
             L == LineSet(now)
  <1>4. size \in Nat /\ size <= Len(lines) /\ Len(lines) \in Nat
    BY <1>1, <1>2, <1>3, CronIs, LenProperties
  <1>5. part \in Seq(L) /\ ToSet(part) = {lines[k] : k \in 1 .. size}
    <2> HIDE DEF lines
    <2> QED BY <1>3, <1>4, SpanIs
  <1>6. ToSet(part) \subseteq ToSet(lines)
    <2> HIDE DEF part, size
    <2>1. ToSet(lines) = {lines[k] : k \in 1 .. Len(lines)}
      BY <1>3, LenProperties DEF ToSet
    <2>2. 1 .. size \subseteq 1 .. Len(lines)
      BY <1>4
    <2> QED BY <1>5, <2>1, <2>2
  <1> DEFINE wanted == {line \in ToSet(part) : ~Lapsed(line, cron.nowtime)}
  <1>7. keep = Picked(part, wanted)
    BY DEF Kept
  <1>8. keep \in Seq(L) /\ ToSet(keep) = ToSet(part) \cap wanted
    <2> HIDE DEF part, keep, wanted
    <2> QED BY <1>5, <1>7, PickedIs
  <1>9. \A k \in 1 .. size : lines[k] \in ToSet(keep) \/ Lapsed(lines[k], cron.nowtime)
    <2> HIDE DEF part, keep
    <2> QED BY <1>5, <1>8
  <1>10. ToSet(keep) \subseteq ToSet(lines)
    BY <1>6, <1>8
  <1>11. /\ cron' \in CronSet(now) /\ cron'.at = "read" /\ cron'.fd = fd
         /\ cron'.nowtime = cron.nowtime /\ cron'.keep = keep
    <2> HIDE DEF keep, L
    <2>1. /\ cron = [at |-> cron.at, nowtime |-> cron.nowtime, size |-> cron.size,
                     fd |-> cron.fd, keep |-> cron.keep]
          /\ cron.nowtime \in 0 .. now /\ cron.size \in Nat /\ cron.fd \in Nat
      BY <1>2, CronIs
    <2> DEFINE c == cron
               a == [c EXCEPT !.at = "read"]
               b == [a EXCEPT !.keep = keep]
    <2>2. cron' = b
      BY <1>1
    <2>3. a = [at |-> "read", nowtime |-> cron.nowtime, size |-> cron.size, fd |-> cron.fd,
               keep |-> cron.keep]
      BY <2>1
    <2> HIDE DEF a
    <2>4. b = [at |-> "read", nowtime |-> cron.nowtime, size |-> cron.size, fd |-> cron.fd,
               keep |-> keep]
      BY <2>3
    <2> HIDE DEF b
    <2>5. b \in CronSet(now)
      BY <1>8, <2>1, <2>4 DEF CronSet, L
    <2> QED BY <2>2, <2>4, <2>5
  <1> HIDE DEF keep, lines, fd
  <1> QED BY <1>1, <1>2, <1>4, <1>9, <1>10, <1>11 DEF lines, fd

LEMMA KeepText ==
  ASSUME FilesOK, RestOK
  PROVE  /\ Text(cron.keep) \in TextSet(now) /\ Text(cron.keep).lines = cron.keep
         /\ Text(cron.keep).rest = <<>>
  <1>1. cron.keep \in Seq(LineSet(now)) /\ <<>> \in Seq(STRING)
    BY CronIs
  <1> DEFINE k == cron.keep
  <1> HIDE DEF k
  <1>2. k \in Seq(LineSet(now))
    BY <1>1 DEF k
  <1>3. Text(k) \in TextSet(now) /\ Text(k).lines = k /\ Text(k).rest = <<>>
    BY <1>1, <1>2 DEF Text, TextSet
  <1> QED BY <1>3 DEF k

LEMMA CronStep ==
  ASSUME Base, Cron
  PROVE  Base'
  <1>1. /\ FilesOK /\ RestOK /\ WebOK /\ LocksOK /\ CronOK /\ Len(text) \in Nat
        /\ cron \in CronSet(now) /\ missed \in [Web \cup {"cron"} -> SUBSET LineSet(now)]
        /\ now \in Nat \ {0} /\ web \in [Web -> WebSet(now)] /\ 1 .. Len(text) = DOMAIN lock
        /\ text \in Seq(TextSet(now)) /\ stamp \in Seq(1 .. now) /\ Len(stamp) = Len(text)
        /\ lock \in Seq({NoProc, "cron"}) /\ Len(lock) = Len(text)
    BY FilesAre DEF Base, RestOK, FilesOK
  <1>2. CASE CronStat
    <2> DEFINE fd == path["deny_users"]
    <2>1. /\ subject = "deny" /\ cron.at = "out" /\ fd \in 1 .. Len(text)
          /\ cron' \in CronSet(now) /\ cron'.at = "stat" /\ cron'.fd = fd
          /\ missed' = [missed EXCEPT !["cron"] = {}]
          /\ UNCHANGED <<subject, files, calls, now, job, web, mem, suspect>>
      BY <1>2, CronStatIs
    <2>2. path' = path /\ text' = text /\ stamp' = stamp /\ lock' = lock
          /\ subject' = subject /\ now' = now /\ web' = web
      BY <2>1 DEF files
    <2>3. FilesOK' /\ WebOK'
      BY <1>1, <2>2 DEF FilesOK, WebOK
    <2>4. LocksOK'
      BY <1>1, <2>1, <2>2 DEF LocksOK
    <2>5. CronOK'
      BY <2>1, <2>2 DEF CronOK
    <2>6. missed' \in [Web \cup {"cron"} -> SUBSET LineSet(now)]
      BY <1>1, <2>1
    <2> QED BY <1>1, <2>1, <2>2, <2>3, <2>4, <2>5, <2>6, OtherStep
  <1>3. CASE CronRead /\ cron' # NoCron
    <2> DEFINE fd == cron.fd
    <2>1. /\ subject = "deny" /\ cron.at = "stat" /\ fd \in 1 .. Len(text)
          /\ lock' = [lock EXCEPT ![fd] = "cron"]
          /\ cron' \in CronSet(now) /\ cron'.at = "read" /\ cron'.fd = fd
          /\ UNCHANGED <<subject, path, text, stamp, calls, now, job, web, mem, history>>
      BY <1>3, CronReadIs
    <2> HIDE DEF fd
    <2>2. lock' \in Seq({NoProc, "cron"}) /\ Len(lock') = Len(text)
          /\ \A i \in 1 .. Len(text) : lock'[i] = IF i = fd THEN "cron" ELSE lock[i]
      <3>1. fd \in 1 .. Len(lock) /\ "cron" \in {NoProc, "cron"}
        BY <1>1, <2>1
      <3> DEFINE new == [lock EXCEPT ![fd] = "cron"]
      <3>2. new \in Seq({NoProc, "cron"}) /\ Len(new) = Len(lock)
            /\ \A i \in 1 .. Len(lock) : new[i] = IF i = fd THEN "cron" ELSE lock[i]
        BY <1>1, <3>1, ExceptSeq
      <3> HIDE DEF new
      <3> QED BY <1>1, <2>1, <3>2 DEF new
    <2>3. FilesOK'
      BY <1>1, <2>1, <2>2 DEF FilesOK
    <2>4. LocksOK'
      BY <1>1, <2>1, <2>2 DEF LocksOK, fd
    <2>5. CronOK' /\ WebOK'
      BY <1>1, <2>1 DEF CronOK, WebOK
    <2>6. missed' = missed /\ suspect' = suspect
      BY <2>1 DEF history
    <2>7. cron.at # "out" /\ cron'.fd = cron.fd
      BY <2>1 DEF fd
    <2> QED BY <1>1, <2>1, <2>3, <2>4, <2>5, <2>6, <2>7, OtherStep
  <1>4. CASE CronRead /\ cron' = NoCron
    <2>1. NoCron \in CronSet(now) /\ NoCron.at = "out"
      BY <1>1, CronIs
    <2>2. /\ cron.at = "stat" /\ subject = "deny" /\ cron'.at = "out" /\ lock' = lock
          /\ UNCHANGED <<subject, path, text, stamp, calls, now, job, web, mem, history>>
      <3>1. cron.at = "stat" /\ cron'.at = "out"
        BY <1>4, <2>1 DEF CronRead
      <3>2. ASSUME NEW k PROVE [cron EXCEPT !.at = "read", !.keep = k].at = "read"
        BY <1>1 DEF CronSet
      <3>3. lock' = lock
        BY <1>4, <3>1, <3>2 DEF CronRead
      <3>4. subject = "deny"
        BY <1>1, <3>1 DEF CronOK
      <3> QED BY <1>4, <3>1, <3>3, <3>4 DEF CronRead
    <2>3. FilesOK' /\ CronOK' /\ WebOK'
      BY <1>1, <2>2 DEF FilesOK, CronOK, WebOK
    <2>4. LocksOK'
      BY <1>1, <2>2 DEF LocksOK
    <2>5. missed' = missed /\ suspect' = suspect
      BY <2>2 DEF history
    <2> QED BY <1>1, <1>4, <2>1, <2>2, <2>3, <2>4, <2>5, OtherStep
  <1>5. CASE CronWrite
    <2> DEFINE fd == cron.fd
               new == Text(cron.keep)
    <2>1. /\ cron.at = "read" /\ text' = [text EXCEPT ![fd] = new]
          /\ stamp' = [stamp EXCEPT ![fd] = now] /\ lock' = [lock EXCEPT ![fd] = NoProc]
          /\ cron' = NoCron /\ missed' = [a \in DOMAIN missed |-> missed[a] \cup Denials']
          /\ UNCHANGED <<subject, path, calls, now, job, web, mem, suspect>>
      BY <1>5 DEF CronWrite, Misses
    <2>2. subject = "deny" /\ fd \in 1 .. Len(text) /\ new \in TextSet(now)
      BY <1>1, <2>1, KeepText DEF CronOK
    <2> HIDE DEF fd, new
    <2>3. text' \in Seq(TextSet(now)) /\ Len(text') = Len(text)
      <3>1. [text EXCEPT ![fd] = new] \in Seq(TextSet(now)) /\ Len([text EXCEPT ![fd] = new]) = Len(text)
        BY <1>1, <2>2, ExceptSeq
      <3> QED BY <2>1, <3>1
    <2>4. stamp' \in Seq(1 .. now) /\ Len(stamp') = Len(text)
      <3>1. fd \in 1 .. Len(stamp) /\ now \in 1 .. now
        BY <1>1, <2>2
      <3>2. /\ [stamp EXCEPT ![fd] = now] \in Seq(1 .. now)
            /\ Len([stamp EXCEPT ![fd] = now]) = Len(stamp)
        BY <1>1, <3>1, ExceptSeq
      <3> QED BY <1>1, <2>1, <3>2
    <2>5. lock' \in Seq({NoProc, "cron"}) /\ Len(lock') = Len(text)
          /\ \A i \in 1 .. Len(text) : lock'[i] = IF i = fd THEN NoProc ELSE lock[i]
      <3>1. fd \in 1 .. Len(lock) /\ NoProc \in {NoProc, "cron"}
        BY <1>1, <2>2
      <3> DEFINE l == [lock EXCEPT ![fd] = NoProc]
      <3>2. l \in Seq({NoProc, "cron"}) /\ Len(l) = Len(lock)
            /\ \A i \in 1 .. Len(lock) : l[i] = IF i = fd THEN NoProc ELSE lock[i]
        BY <1>1, <3>1, ExceptSeq
      <3> HIDE DEF l
      <3> QED BY <1>1, <2>1, <3>2 DEF l
    <2>6. NoCron \in CronSet(now) /\ NoCron.at = "out"
      BY <1>1, CronIs
    <2>7. FilesOK'
      BY <1>1, <2>1, <2>3, <2>4, <2>5 DEF FilesOK
    <2>8. LocksOK'
      BY <1>1, <2>1, <2>3, <2>5, <2>6 DEF LocksOK, fd
    <2>9. CronOK' /\ WebOK'
      BY <1>1, <2>1, <2>6 DEF CronOK, WebOK
    <2>10. missed' \in [Web \cup {"cron"} -> SUBSET LineSet(now)]
      BY <1>1, <2>1, <2>7, DenialsNext, MissesSet
    <2> QED BY <1>1, <2>1, <2>2, <2>3, <2>6, <2>7, <2>8, <2>9, <2>10, OtherStep
  <1> QED BY <1>2, <1>3, <1>4, <1>5 DEF Cron

-----------------------------------------------------------------------------
(* The start                                                               *)

LEMMA SeqOfWords ==
  ASSUME NEW S, NEW n \in Nat, NEW s \in [1 .. n -> S]
  PROVE  s \in Seq(S) /\ Len(s) = n
  OBVIOUS

\* SetToSeq numbers the users.
LEMMA SeatsAre ==
  LET seats == SetToSeq(Users) IN
  /\ seats \in Seq(Users)
  /\ \A i, k \in 1 .. Len(seats) : seats[i] = seats[k] => i = k
  /\ \A u \in Users : \E i \in 1 .. Len(seats) : seats[i] = u
  <1> DEFINE n == Cardinality(Users)
             seats == SetToSeq(Users)
  <1>1. IsFiniteSet(Users)
    BY NameListsAssumption
  <1>2. n \in Nat /\ ExistsBijection(1 .. n, Users)
    BY <1>1, FS_CardinalityType
  <1>3. \E f \in [1 .. n -> Users] : IsInjective(f)
    <2>1. PICK f : f \in Bijection(1 .. n, Users)
      BY <1>2 DEF ExistsBijection
    <2>2. f \in [1 .. n -> Users] /\ \A a, b \in 1 .. n : f[a] = f[b] => a = b
      BY <2>1 DEF Bijection, Injection, IsInjective
    <2>3. DOMAIN f = 1 .. n
      BY <2>2
    <2> QED BY <2>2, <2>3 DEF IsInjective
  <1>4. seats \in [1 .. n -> Users] /\ IsInjective(seats)
    <2>1. seats = CHOOSE f \in [1 .. n -> Users] : IsInjective(f)
      BY DEF SetToSeq
    <2> HIDE DEF seats
    <2> QED BY <1>3, <2>1
  <1> HIDE DEF seats
  <1>5. \A a, b \in 1 .. n : seats[a] = seats[b] => a = b
    <2>1. DOMAIN seats = 1 .. n
      BY <1>4
    <2> QED BY <1>4, <2>1 DEF IsInjective
  <1>6. seats \in Injection(1 .. n, Users)
    BY <1>4, <1>5 DEF Injection
  <1>7. seats \in Surjection(1 .. n, Users)
    <2>1. IsFiniteSet(1 .. n) /\ Cardinality(1 .. n) = n
      <3>1. IsFiniteSet(1 .. n) /\ Cardinality(1 .. n) = IF 1 > n THEN 0 ELSE n - 1 + 1
        BY <1>2, FS_Interval
      <3> QED BY <1>2, <3>1
    <2> QED BY <1>1, <1>6, <2>1, FS_Injection DEF n
  <1>8. \A u \in Users : \E i \in 1 .. n : seats[i] = u
    BY <1>7 DEF Surjection
  <1>9. seats \in Seq(Users) /\ Len(seats) = n
    <2> HIDE DEF n
    <2> QED BY <1>2, <1>4, SeqOfWords
  <1> QED BY <1>5, <1>8, <1>9 DEF seats

\* The members' ids and the rights of a user at the start.
Ids(start) == [i \in DOMAIN start |-> Spelling[start[i]]]
Rights(u, start, both) ==
  (IF both \/ u \notin ToSet(start) THEN <<Other>> ELSE <<>>)
    \o (IF u \in ToSet(start) THEN <<Club>> ELSE <<>>)

LEMMA BaresAre ==
  ASSUME NEW words \in Seq(Word)
  PROVE  /\ Text(Bares(words)) \in TextSet(1) /\ Text(Bares(words)).rest = <<>>
         /\ Text(Bares(words)).lines = Bares(words)
         /\ DOMAIN Bares(words) = 1 .. Len(words)
         /\ \A i \in 1 .. Len(words) : Bares(words)[i] = Line(words[i], Bare)
  <1> DEFINE n == Len(words)
             b == Bares(words)
             L == LineSet(1)
  <1>1. n \in Nat /\ DOMAIN words = 1 .. n /\ \A i \in 1 .. n : words[i] \in Word
    BY LenProperties, ElementOfSeq
  <1>2. Bare \in Tails(1)
    BY TailsAre
  <1>3. \A w \in Word : Line(w, Bare) \in L
    BY <1>2 DEF Line, LineSet
  <1>4. b = [i \in 1 .. n |-> Line(words[i], Bare)]
    BY <1>1 DEF Bares
  <1> HIDE DEF n, b, L
  <1>5. b \in [1 .. n -> L] /\ \A i \in 1 .. n : b[i] = Line(words[i], Bare)
    BY <1>1, <1>3, <1>4
  <1>6. b \in Seq(L) /\ DOMAIN b = 1 .. n
    BY <1>1, <1>5, SeqOfWords
  <1>7. <<>> \in Seq(STRING)
    OBVIOUS
  <1>8. Text(b) \in TextSet(1) /\ Text(b).rest = <<>> /\ Text(b).lines = b
    BY <1>6, <1>7 DEF Text, TextSet, L
  <1> QED BY <1>5, <1>6, <1>8 DEF b, n

LEMMA IdsAre ==
  ASSUME NEW start \in Seq(Users)
  PROVE  Ids(start) \in Seq(Word) /\ Len(Ids(start)) = Len(start)
         /\ \A i \in 1 .. Len(start) : Ids(start)[i] = Spelling[start[i]]
  <1> DEFINE n == Len(start)
  <1>1. n \in Nat /\ DOMAIN start = 1 .. n /\ \A i \in 1 .. n : start[i] \in Users
    BY LenProperties, ElementOfSeq
  <1>2. \A u \in Users : Spelling[u] \in Word
    BY WordOf
  <1> HIDE DEF n
  <1>3. Ids(start) \in [1 .. n -> Word] /\ \A i \in 1 .. n : Ids(start)[i] = Spelling[start[i]]
    BY <1>1, <1>2 DEF Ids
  <1>4. Ids(start) \in Seq(Word) /\ Len(Ids(start)) = n
    BY <1>1, <1>3, SeqOfWords
  <1> QED BY <1>3, <1>4 DEF n

LEMMA RightsAre ==
  ASSUME NEW u, NEW start, NEW both
  PROVE  /\ Rights(u, start, both) \in Seq(Word)
         /\ Club \in ToSet(Rights(u, start, both)) <=> u \in ToSet(start)
  <1> DEFINE a == IF both \/ u \notin ToSet(start) THEN <<Other>> ELSE <<>>
             b == IF u \in ToSet(start) THEN <<Club>> ELSE <<>>
  <1>1. Rights(u, start, both) = a \o b
    BY DEF Rights
  <1>2. Club \in Word /\ Other \in Word /\ Club # Other
    BY NameListsAssumption DEF Word
  <1>3. ASSUME NEW w \in Word PROVE <<w>> \in Seq(Word) /\ ToSet(<<w>>) = {w}
    BY DEF ToSet
  <1>4. <<>> \in Seq(Word) /\ ToSet(<<>>) = {}
    BY DEF ToSet
  <1>5. a \in Seq(Word) /\ Club \notin ToSet(a)
    BY <1>2, <1>3, <1>4
  <1>6. b \in Seq(Word) /\ (Club \in ToSet(b) <=> u \in ToSet(start))
    BY <1>2, <1>3, <1>4
  <1> HIDE DEF a, b
  <1>7. a \o b \in Seq(Word) /\ ToSet(a \o b) = ToSet(a) \cup ToSet(b)
    BY <1>5, <1>6, JoinedSet
  <1> QED BY <1>1, <1>5, <1>6, <1>7

LEMMA InitFiles ==
  ASSUME Init
  PROVE  \E start \in Seq(Users) : \E both \in BOOLEAN :
           /\ FilesOK
           /\ path["deny_users"] = NoFile /\ path["club_users"] = 1
           /\ \A u \in Users : path[u] \in 2 .. Len(text)
           /\ \A u, v \in Users : path[u] = path[v] => u = v
           /\ text[1] = Text(Bares(Ids(start)))
           /\ \A u \in Users : text[path[u]] = Text(Bares(Rights(u, start, both)))
  <1> DEFINE T == TextSet(1)
             seats == SetToSeq(Users)
  <1>1. now = 1 /\ subject \in {"club", "deny"} /\ stamp = [i \in DOMAIN text |-> 1]
        /\ lock = [i \in DOMAIN text |-> NoProc]
    BY NameListsAssumption DEF Init
  <1>2. \E start \in (IF subject = "club" THEN Starts ELSE {<<>>}) :
        \E both \in (IF subject = "club" THEN BOOLEAN ELSE {FALSE}) :
          /\ text = <<Text(Bares(Ids(start)))>>
                      \o [i \in DOMAIN seats |-> Text(Bares(Rights(seats[i], start, both)))]
          /\ path = [f \in Paths |->
                CASE f = "deny_users" -> NoFile
                  [] f = "club_users" -> 1
                  [] OTHER -> 1 + CHOOSE i \in DOMAIN seats : seats[i] = f]
    BY DEF Init, Ids, Rights
  <1>3. PICK start \in (IF subject = "club" THEN Starts ELSE {<<>>}) :
        \E both \in (IF subject = "club" THEN BOOLEAN ELSE {FALSE}) :
          /\ text = <<Text(Bares(Ids(start)))>>
                      \o [i \in DOMAIN seats |-> Text(Bares(Rights(seats[i], start, both)))]
          /\ path = [f \in Paths |->
                CASE f = "deny_users" -> NoFile
                  [] f = "club_users" -> 1
                  [] OTHER -> 1 + CHOOSE i \in DOMAIN seats : seats[i] = f]
    BY <1>2
  <1>4. PICK both \in (IF subject = "club" THEN BOOLEAN ELSE {FALSE}) :
          /\ text = <<Text(Bares(Ids(start)))>>
                      \o [i \in DOMAIN seats |-> Text(Bares(Rights(seats[i], start, both)))]
          /\ path = [f \in Paths |->
                CASE f = "deny_users" -> NoFile
                  [] f = "club_users" -> 1
                  [] OTHER -> 1 + CHOOSE i \in DOMAIN seats : seats[i] = f]
    BY <1>3
  <1>5. start \in Seq(Users) /\ both \in BOOLEAN
    <2>1. <<>> \in Seq(Users)
      OBVIOUS
    <2> QED BY <2>1, NameListsAssumption
  <1>6. /\ seats \in Seq(Users)
        /\ \A i, k \in 1 .. Len(seats) : seats[i] = seats[k] => i = k
        /\ \A u \in Users : \E i \in 1 .. Len(seats) : seats[i] = u
    BY SeatsAre
  <1> HIDE DEF seats
  <1> DEFINE n == Len(seats)
             A == Text(Bares(Ids(start)))
             B(u) == Text(Bares(Rights(u, start, both)))
             rest == [i \in DOMAIN seats |-> B(seats[i])]
  <1>7. n \in Nat /\ DOMAIN seats = 1 .. n /\ \A i \in 1 .. n : seats[i] \in Users
    BY <1>6, LenProperties, ElementOfSeq
  <1>8. A \in T /\ \A u \in Users : B(u) \in T
    BY <1>5, IdsAre, RightsAre, BaresAre
  <1>9. text = <<A>> \o rest
    BY <1>4
  <1> HIDE DEF A, B, T, n
  <1>10. rest \in Seq(T) /\ Len(rest) = n /\ \A i \in 1 .. n : rest[i] = B(seats[i])
    <2>1. rest \in [1 .. n -> T] /\ \A i \in 1 .. n : rest[i] = B(seats[i])
      BY <1>7, <1>8
    <2> HIDE DEF rest
    <2> QED BY <1>7, <2>1, SeqOfWords
  <1> HIDE DEF rest
  <1>11. /\ text \in Seq(T) /\ Len(text) = 1 + n /\ text[1] = A
         /\ \A i \in 1 .. n : text[1 + i] = B(seats[i])
    <2> DEFINE one == <<A>>
    <2>1. one \in Seq(T) /\ Len(one) = 1 /\ one[1] = A
      BY <1>8
    <2> HIDE DEF one
    <2>2. text = one \o rest
      BY <1>9 DEF one
    <2>3. /\ text \in Seq(T) /\ Len(text) = Len(one) + Len(rest)
          /\ \A i \in 1 .. Len(one) + Len(rest) :
               text[i] = IF i <= Len(one) THEN one[i] ELSE rest[i - Len(one)]
      BY <1>10, <2>1, <2>2, ConcatProperties
    <2>4. Len(one) + Len(rest) = 1 + n
      BY <1>10, <2>1
    <2>5. text[1] = A
      BY <1>7, <2>1, <2>3, <2>4
    <2>6. ASSUME NEW i \in 1 .. n PROVE text[1 + i] = B(seats[i])
      <3> DEFINE k == 1 + i
      <3>1. k \in 1 .. 1 + n /\ ~(k <= 1) /\ k - 1 = i
        BY <1>7
      <3> HIDE DEF k
      <3>2. text[k] = rest[i]
        BY <2>1, <2>3, <2>4, <3>1
      <3> QED BY <1>10, <3>2 DEF k
    <2> QED BY <2>3, <2>4, <2>5, <2>6
  <1> DEFINE Seat(u) == CHOOSE i \in DOMAIN seats : seats[i] = u
  <1>12. \A u \in Users : Seat(u) \in 1 .. n /\ seats[Seat(u)] = u
    BY <1>6, <1>7 DEF n
  <1> HIDE DEF Seat
  <1>13. \A u \in Users : path[u] = 1 + Seat(u)
    BY <1>4, PathsAre DEF Seat
  <1>14. path["deny_users"] = NoFile /\ path["club_users"] = 1
    BY <1>4, PathsAre
  <1>15. \A u \in Users : path[u] \in 2 .. 1 + n
    BY <1>7, <1>12, <1>13
  <1>16. ASSUME NEW u \in Users, NEW v \in Users, path[u] = path[v] PROVE u = v
    <2>1. Seat(u) = Seat(v)
      BY <1>7, <1>12, <1>13, <1>16
    <2> QED BY <1>12, <2>1
  <1>17. \A u \in Users : text[path[u]] = B(u)
    BY <1>11, <1>12, <1>13
  <1>18. FilesOK
    <2>1. path \in [Paths -> 0 .. 1 + n]
      <3>1. \A f \in Paths : path[f] \in 0 .. 1 + n
        BY <1>7, <1>14, <1>15, NameListsAssumption DEF NoFile
      <3>2. path = [f \in Paths |-> path[f]]
        BY <1>4
      <3> QED BY <3>1, <3>2
    <2>2. DOMAIN text = 1 .. 1 + n
      BY <1>11, LenProperties
    <2>3. stamp \in [1 .. 1 + n -> 1 .. 1] /\ lock \in [1 .. 1 + n -> {NoProc, "cron"}] /\ 1 + n \in Nat
      BY <1>1, <1>7, <2>2
    <2>4. stamp \in Seq(1 .. 1) /\ Len(stamp) = 1 + n
      BY <2>3, SeqOfWords
    <2>5. lock \in Seq({NoProc, "cron"}) /\ Len(lock) = 1 + n
      BY <2>3, SeqOfWords
    <2> QED BY <1>1, <1>11, <2>1, <2>4, <2>5 DEF FilesOK, T
  <1>19. \A u \in Users : path[u] \in 2 .. Len(text)
    BY <1>11, <1>15
  <1> QED BY <1>5, <1>11, <1>14, <1>16, <1>17, <1>18, <1>19 DEF A, B

LEMMA InitBase ==
  ASSUME Init
  PROVE  Base
  <1>1. PICK start \in Seq(Users) : \E both \in BOOLEAN :
           /\ FilesOK
           /\ path["deny_users"] = NoFile /\ path["club_users"] = 1
           /\ \A u \in Users : path[u] \in 2 .. Len(text)
           /\ \A u, v \in Users : path[u] = path[v] => u = v
    BY InitFiles
  <1>2. /\ now = 1 /\ todo = [p \in Procs |-> <<>>] /\ hand = [p \in Procs |-> NoHand]
        /\ rc = [p \in Procs |-> 0] /\ job = [p \in Managers |-> NoJob]
        /\ web = [w \in Web |-> NoWeb] /\ cron = NoCron
        /\ mem = [u \in Sessions |-> [right |-> HasRight(u), rtime |-> 0]]
        /\ suspect = {} /\ missed = [a \in Web \cup {"cron"} |-> {}]
        /\ lock = [i \in DOMAIN text |-> NoProc]
    BY DEF Init
  <1>3. FilesOK /\ 1 \in Nat \ {0}
    BY <1>1
  <1>4. NoHand \in HandSet(1) /\ NoHand.at = "out"
    BY NoHandIs
  <1>5. CallsOK
    <2>1. <<>> \in Seq(CallSet(1))
      OBVIOUS
    <2> QED BY <1>2, <1>4, <2>1 DEF CallsOK
  <1>6. NoWeb \in WebSet(1) /\ NoWeb.at = "out" /\ NoCron \in CronSet(1) /\ NoCron.at = "out"
    <2>1. <<>> \in Seq(LineSet(1)) /\ Bare \in Tails(1)
      BY TailsAre
    <2>2. NoWeb \in WebSet(1) /\ NoWeb.at = "out"
      BY <2>1 DEF NoWeb, WebSet
    <2>3. NoCron \in CronSet(1) /\ NoCron.at = "out"
      BY <2>1 DEF NoCron, NoFile, CronSet
    <2> QED BY <2>2, <2>3
  <1>7. RestOK
    <2>1. \A u : [right |-> HasRight(u), rtime |-> 0] \in [right : BOOLEAN, rtime : 0 .. 1]
      BY DEF HasRight, Seek
    <2>2. mem \in [Sessions -> [right : BOOLEAN, rtime : 0 .. now]]
      BY <1>2, <2>1
    <2>3. web \in [Web -> WebSet(now)] /\ cron \in CronSet(now)
      BY <1>2, <1>6
    <2>4. missed \in [Web \cup {"cron"} -> SUBSET LineSet(now)]
      BY <1>2
    <2> QED BY <1>2, <2>2, <2>3, <2>4 DEF RestOK
  <1>8. LocksOK
    BY <1>2, <1>3, <1>6, FilesAre DEF LocksOK
  <1>9. JobsOK
    <2>1. job \in [Managers -> JobSet(now) \cup {NoJob}]
      BY <1>2
    <2>2. NoJob.kind = "none" /\ NoJob.run = FALSE
      BY DEF NoJob
    <2>3. Managers \subseteq Procs /\ Sessions \subseteq Procs
      BY NameListsAssumption
    <2> QED BY <1>2, <2>1, <2>2, <2>3 DEF JobsOK
  <1>10. HandsOK /\ CronOK /\ WebOK
    BY <1>2, <1>4, <1>6 DEF HandsOK, CronOK, WebOK
  <1>11. Seated
    <2>1. path["club_users"] # NoFile
      BY <1>1 DEF NoFile
    <2>2. \A u \in Users : path[u] # NoFile
      BY <1>1 DEF NoFile
    <2> QED BY <1>1, <2>1, <2>2 DEF Seated
  <1>12. Apart
    <2> SUFFICES ASSUME NEW i \in 1 .. Len(text), NEW f \in Paths, NEW g \in Paths,
                        Holds(i, f), Holds(i, g)
                 PROVE  f = g
      BY DEF Apart
    <2>1. path[f] = i /\ path[g] = i
      BY <1>2, <1>4, <1>6 DEF Holds, HeldBy
    <2>2. Paths = {"deny_users", "club_users"} \cup Users
      BY NameListsAssumption
    <2>3. i # 0
      OBVIOUS
    <2>4. \A u \in Users : path[u] # 1 /\ path[u] # 0
      BY <1>1
    <2> QED BY <1>1, <2>1, <2>2, <2>3, <2>4 DEF NoFile
  <1> QED BY <1>3, <1>5, <1>7, <1>8, <1>9, <1>10, <1>11, <1>12 DEF Base

LEMMA TickBase ==
  ASSUME Base, Tick
  PROVE  Base'
  <1> DEFINE t == now
  <1>1. /\ now' = t + 1 /\ UNCHANGED <<subject, files, calls, job, web, cron, mem, jobs, history>>
        /\ FilesOK /\ CallsOK /\ RestOK /\ LocksOK /\ JobsOK /\ HandsOK /\ CronOK /\ Apart /\ Seated
        /\ WebOK
    BY DEF Tick, Base
  <1>2. t \in Nat \ {0} /\ t + 1 \in Nat \ {0}
    BY <1>1 DEF FilesOK
  <1>3. /\ Tails(t) \subseteq Tails(t + 1) /\ LineSet(t) \subseteq LineSet(t + 1)
        /\ TextSet(t) \subseteq TextSet(t + 1) /\ CallSet(t) \subseteq CallSet(t + 1)
    BY <1>2, TailsGrow
  <1>4. 0 .. t \subseteq 0 .. t + 1 /\ 1 .. t \subseteq 1 .. t + 1
    BY <1>2
  <1>5. HandSet(t) \subseteq HandSet(t + 1)
    BY <1>3, <1>4 DEF HandSet
  <1>6. Seq(LineSet(t)) \subseteq Seq(LineSet(t + 1)) /\ Seq(CallSet(t)) \subseteq Seq(CallSet(t + 1))
    BY <1>3, SeqMonotonic
  <1>7. WebSet(t) \subseteq WebSet(t + 1)
    BY <1>3, <1>6 DEF WebSet
  <1>8. CronSet(t) \subseteq CronSet(t + 1)
    BY <1>4, <1>6 DEF CronSet
  <1>9. Tails(now) \subseteq Tails(now')
    BY <1>1, <1>3
  <1>10. /\ subject' = subject /\ path' = path /\ text' = text /\ stamp' = stamp /\ lock' = lock
         /\ todo' = todo /\ hand' = hand /\ rc' = rc /\ job' = job /\ web' = web /\ cron' = cron
         /\ mem' = mem /\ suspect' = suspect /\ missed' = missed
    BY <1>1 DEF files, calls, history
  <1> HIDE DEF t
  <1>11. FilesOK'
    <2>1. text \in Seq(TextSet(t)) /\ stamp \in Seq(1 .. t) /\ path \in [Paths -> 0 .. Len(text)]
          /\ subject \in {"club", "deny"} /\ Len(stamp) = Len(text)
          /\ lock \in Seq({NoProc, "cron"}) /\ Len(lock) = Len(text)
      BY <1>1 DEF FilesOK, t
    <2>2. text \in Seq(TextSet(t + 1)) /\ stamp \in Seq(1 .. t + 1)
      BY <1>3, <1>4, <2>1, SeqMonotonic
    <2> QED BY <1>1, <1>2, <1>10, <2>1, <2>2 DEF FilesOK
  <1>12. CallsOK'
    <2>1. /\ todo \in [Procs -> Seq(CallSet(t))] /\ hand \in [Procs -> HandSet(t)]
          /\ rc \in [Procs -> {-1, 0, 1}]
      BY <1>1 DEF CallsOK, t
    <2>2. todo \in [Procs -> Seq(CallSet(t + 1))] /\ hand \in [Procs -> HandSet(t + 1)]
      BY <1>5, <1>6, <2>1
    <2> QED BY <1>1, <1>10, <2>1, <2>2 DEF CallsOK
  <1>13. RestOK'
    <2>1. /\ web \in [Web -> WebSet(t)] /\ cron \in CronSet(t)
          /\ mem \in [Sessions -> [right : BOOLEAN, rtime : 0 .. t]]
          /\ suspect \subseteq Users
          /\ missed \in [Web \cup {"cron"} -> SUBSET LineSet(t)]
      BY <1>1 DEF RestOK, t
    <2>2. web \in [Web -> WebSet(t + 1)] /\ cron \in CronSet(t + 1)
          /\ mem \in [Sessions -> [right : BOOLEAN, rtime : 0 .. t + 1]]
          /\ missed \in [Web \cup {"cron"} -> SUBSET LineSet(t + 1)]
      <3>1. web \in [Web -> WebSet(t + 1)]
        BY <1>7, <2>1
      <3>2. mem \in [Sessions -> [right : BOOLEAN, rtime : 0 .. t + 1]]
        BY <1>4, <2>1
      <3>3. missed \in [Web \cup {"cron"} -> SUBSET LineSet(t + 1)]
        BY <1>3, <2>1
      <3> QED BY <1>8, <2>1, <3>1, <3>2, <3>3
    <2> QED BY <1>1, <1>10, <2>1, <2>2 DEF RestOK
  <1>14. JobsOK'
    <2>1. JobSet(now) \subseteq JobSet(now)'
      BY <1>9, <1>10 DEF JobSet, Kinds
    <2>2. job' \in [Managers -> JobSet(now)' \cup {NoJob}]
      BY <1>1, <1>10, <2>1 DEF JobsOK
    <2> QED BY <1>1, <1>10, <2>2 DEF JobsOK
  <1>15. HandsOK' /\ LocksOK' /\ CronOK' /\ Seated' /\ WebOK'
    BY <1>1, <1>10 DEF HandsOK, LocksOK, CronOK, Seated, WebOK
  <1>16. Apart'
    BY <1>1, <1>10 DEF Apart, Holds, HeldBy
  <1> QED BY <1>11, <1>12, <1>13, <1>14, <1>15, <1>16 DEF Base

LEMMA NextBase ==
  ASSUME Base, [Next]_vars
  PROVE  Base'
  <1>1. CASE Next
    <2>1. ASSUME NEW p \in Managers, Ask(p) \/ Decline(p) \/ Confirm(p) \/ Finish(p) \/ Hang(p)
          PROVE  Base'
      BY <2>1, ManagerStep
    <2>2. ASSUME NEW p \in Procs, Step(p) PROVE Base'
      BY <2>2, StepFiles, StepHands DEF Base
    <2>3. ASSUME NEW u \in Sessions, Login(u) \/ Visit(u) PROVE Base'
      BY <2>3, SessionStep
    <2>4. ASSUME NEW w \in Web, WebLoad(w) \/ WebEmpty(w) \/ WebWrite(w) \/ WebKilled(w)
          PROVE  Base'
      BY <2>4, WebStep
    <2> QED BY <1>1, <2>1, <2>2, <2>3, <2>4, CronStep, TickBase DEF Next
  <1>2. CASE UNCHANGED vars
    <2>1. /\ subject' = subject /\ path' = path /\ text' = text /\ stamp' = stamp /\ lock' = lock
          /\ todo' = todo /\ hand' = hand /\ rc' = rc /\ job' = job /\ web' = web /\ cron' = cron
          /\ mem' = mem /\ suspect' = suspect /\ missed' = missed /\ now' = now
      BY <1>2 DEF vars, files, calls, history
    <2> QED BY <2>1 DEF Base, FilesOK, CallsOK, RestOK, LocksOK, JobsOK, JobSet, Kinds, HandsOK,
                CronOK, Apart, Holds, HeldBy, Seated, WebOK
  <1> QED BY <1>1, <1>2

LEMMA AlwaysBase == Spec => []Base
  <1>1. Init => Base
    BY InitBase
  <1>2. Base /\ [Next]_vars => Base'
    BY NextBase
  <1> QED BY <1>1, <1>2, PTL DEF Spec

-----------------------------------------------------------------------------
(* What a step of a call does to the lists                                 *)

\* The list is the same text, and its path does not lead elsewhere.
Keeps(g) ==
  /\ Content(g)' = Content(g)
  /\ path[g] # NoFile => path'[g] = path[g] /\ stamp'[path'[g]] = stamp[path[g]]

\* A call c on the file f goes on, fails, appends, or renames its copy over
\* the list.
GoesOn(p, c, f, h) ==
  /\ todo'[p] = todo[p] /\ Keeps(f) /\ h.at \in {"out", "opened"}
  /\ hand'[p].at = "copied" => hand'[p].mtime = now
Fails(p, c, f, h) ==
  /\ todo'[p] = Tail(todo[p]) /\ hand'[p] = NoHand /\ Keeps(f)
  /\ c.op = "del" /\ rc'[p] # 1 /\ h.at \in {"out", "opened", "copied"}
Appends(p, c, f, h) ==
  /\ todo'[p] = Tail(todo[p]) /\ hand'[p] = NoHand
  /\ c.op = "add" /\ h.at = "buffered"
  /\ IF path[f] = h.fd
     THEN /\ path'[f] = path[f] /\ stamp'[path[f]] = now
          /\ Content(f)' = Appended(Content(f), Line(c.word, c.tail))
     ELSE Keeps(f)
Renames(p, c, f, h) ==
  /\ todo'[p] = Tail(todo[p]) /\ hand'[p] = NoHand
  /\ c.op = "del" /\ h.at = "copied"
  /\ path'[f] # NoFile /\ stamp'[path'[f]] = h.mtime
  /\ Content(f)' = Without(h.src, c.word)

LEMMA StepContent ==
  ASSUME Base, NEW p \in Procs, Step(p), NEW c, c = Head(todo[p]), NEW f, f = c.file,
         NEW h, h = hand[p]
  PROVE  /\ \A g \in Paths : g # f => Keeps(g)
         /\ \/ GoesOn(p, c, f, h) \/ Fails(p, c, f, h)
            \/ Appends(p, c, f, h) \/ Renames(p, c, f, h)
         /\ \A q \in Procs \ {p} : todo'[q] = todo[q] /\ hand'[q] = hand[q]
  <1> DEFINE n == Len(text)
  <1>1. /\ CallStep(p) /\ todo[p] # <<>> /\ (Moves(p) \/ Ends(p))
        /\ c \in CallSet(now) /\ f \in Paths /\ now' = now
    BY StepIs
  <1>2. FilesOK /\ CallsOK /\ HandsOK /\ Apart /\ now \in Nat
    BY DEF Base, FilesOK
  <1>3. /\ n \in Nat /\ \A g \in Paths : path[g] \in 0 .. n
        /\ path \in [Paths -> 0 .. n]
        /\ \A i \in 1 .. n : text[i] \in TextSet(now)
    BY <1>2, FilesAre DEF FilesOK
  <1>4. /\ \A q \in Procs \ {p} : todo'[q] = todo[q] /\ hand'[q] = hand[q]
        /\ hand \in [Procs -> HandSet(now)] /\ todo \in [Procs -> Seq(CallSet(now))]
        /\ rc \in [Procs -> {-1, 0, 1}]
    BY <1>1, <1>2, MovedCalls DEF CallsOK
  <1>5. h.at # "out" => h.fd \in 1 .. n
    BY <1>2 DEF HandsOK
  <1>6. c.word \in Word /\ c.tail \in Tails(now) /\ c.op \in {"add", "del"}
    BY <1>1 DEF CallSet
  <1>7. h.at = "copied" => h.src \in TextSet(now) /\ h.mtime \in 1 .. now /\ Occurrences(h.src, c.word) # {}
    <2>1. h \in HandSet(now)
      BY <1>4
    <2>2. h.src \in TextSet(now) /\ h.mtime \in 0 .. now
      BY <1>2, <2>1, HandIs
    <2> QED BY <1>2, <2>2 DEF HandsOK
  <1>8. ASSUME UNCHANGED files PROVE \A g \in Paths : Keeps(g)
    BY <1>8 DEF files, Keeps, Content
  \* The inode of an open call is not the inode of another path.
  <1>9. ASSUME h.at # "out", NEW g \in Paths, path[g] = h.fd PROVE g = f
    <2>1. HeldBy(p, h.fd, f)
      BY <1>9 DEF HeldBy
    <2>2. Holds(h.fd, f) /\ Holds(h.fd, g)
      BY <1>9, <2>1 DEF Holds
    <2> QED BY <1>1, <1>2, <1>5, <1>9, <2>2 DEF Apart
  <1>10. ASSUME NEW r, Returns(p, r)
         PROVE  todo'[p] = Tail(todo[p]) /\ hand'[p] = NoHand /\ rc'[p] = r
    BY <1>4, <1>10 DEF Returns
  <1>11. ASSUME NEW got, Goes(p, got) PROVE todo'[p] = todo[p] /\ hand'[p] = got
    BY <1>4, <1>11 DEF Goes
  <1>12. ASSUME NEW txt \in TextSet(now), NEW m \in 1 .. now, NewInode(f, txt, m)
         PROVE  /\ \A g \in Paths : g # f => Keeps(g)
                /\ path'[f] = n + 1 /\ text'[n + 1] = txt /\ stamp'[n + 1] = m
    <2>1. /\ \A i \in 1 .. n : text'[i] = text[i] /\ stamp'[i] = stamp[i]
          /\ text'[n + 1] = txt /\ stamp'[n + 1] = m
          /\ path' = [path EXCEPT ![f] = n + 1]
      BY <1>1, <1>2, <1>12, PlacedIs
    <2>2. path'[f] = n + 1 /\ \A g \in Paths : g # f => path'[g] = path[g]
      BY <1>1, <1>3, <2>1
    <2>3. ASSUME NEW g \in Paths, g # f PROVE Keeps(g)
      <3>1. path'[g] = path[g] /\ path[g] \in 0 .. n
        BY <1>3, <2>2, <2>3
      <3>2. path[g] # NoFile => text'[path[g]] = text[path[g]] /\ stamp'[path[g]] = stamp[path[g]]
        BY <2>1, <3>1 DEF NoFile
      <3> QED BY <3>1, <3>2 DEF Keeps, Content
    <2> QED BY <2>1, <2>2, <2>3
  <1> HIDE DEF n
  <1>13. CASE AddOpen(p)
    <2> DEFINE got == [NoHand EXCEPT !.at = "opened", !.fd = path'[f]]
    <2>1. /\ Goes(p, got) /\ h.at = "out"
          /\ \/ path[f] = NoFile /\ NewInode(f, Text(<<>>), now)
             \/ path[f] # NoFile /\ UNCHANGED files
      BY <1>13 DEF AddOpen, Calling
    <2>2. got.at # "copied"
      <3>1. \A x : [NoHand EXCEPT !.at = "opened", !.fd = x].at = "opened"
        BY DEF NoHand
      <3> QED BY <3>1
    <2> HIDE DEF got
    <2>3. todo'[p] = todo[p] /\ hand'[p] = got
      BY <1>11, <2>1
    <2>4. \A g \in Paths : g # f => Keeps(g)
      <3>1. Text(<<>>) \in TextSet(now) /\ now \in 1 .. now
        BY <1>2, NoHandIs DEF FilesOK
      <3> QED BY <1>8, <1>12, <2>1, <3>1
    <2>5. Keeps(f)
      <3>1. CASE path[f] = NoFile /\ NewInode(f, Text(<<>>), now)
        <4>1. Text(<<>>) \in TextSet(now) /\ now \in 1 .. now
          BY <1>2, NoHandIs DEF FilesOK
        <4>2. path'[f] = n + 1 /\ text'[n + 1] = Text(<<>>)
          BY <1>12, <3>1, <4>1
        <4>3. path'[f] # NoFile
          BY <1>3, <4>2 DEF NoFile
        <4>4. Content(f)' = Text(<<>>) /\ Content(f) = Text(<<>>)
          BY <3>1, <4>2, <4>3 DEF Content
        <4> QED BY <3>1, <4>4 DEF Keeps
      <3> QED BY <1>1, <1>8, <2>1, <3>1
    <2> QED BY <1>4, <2>1, <2>2, <2>3, <2>4, <2>5 DEF GoesOn
  <1>14. CASE AddLock(p)
    <2> DEFINE got == [h EXCEPT !.at = "buffered"]
    <2>1. Goes(p, got) /\ h.at = "opened" /\ UNCHANGED files
      BY <1>14 DEF AddLock, Calling
    <2>2. got.at # "copied"
      <3>1. h \in HandSet(now)
        BY <1>4
      <3>2. got.at = "buffered"
        BY <1>2, <3>1, BufferedHand
      <3> HIDE DEF got
      <3> QED BY <3>2
    <2> HIDE DEF got
    <2>3. todo'[p] = todo[p] /\ hand'[p] = got
      BY <1>11, <2>1
    <2> QED BY <1>1, <1>4, <1>8, <2>1, <2>2, <2>3 DEF GoesOn
  <1>15. CASE AddWrite(p)
    <2> DEFINE new == Appended(text[h.fd], Line(c.word, c.tail))
    <2>1. /\ Returns(p, 1) /\ h.at = "buffered" /\ c.op = "add"
          /\ text' = [text EXCEPT ![h.fd] = new] /\ stamp' = [stamp EXCEPT ![h.fd] = now]
          /\ UNCHANGED <<path, lock>>
      <3>1. text' = [text EXCEPT ![h.fd] = Appended(@, Line(c.word, c.tail))]
        BY <1>15 DEF AddWrite
      <3>2. text' = [text EXCEPT ![h.fd] = new]
        BY <3>1
      <3> QED BY <1>15, <3>2 DEF AddWrite, Calling
    <2>2. h.fd \in 1 .. n
      BY <1>5, <2>1
    <2>3. new \in TextSet(now)
      BY <1>2, <1>3, <1>6, <2>2, AppendedText
    <2> HIDE DEF new
    <2>4. Rewritten(h.fd, new)
      BY <2>1 DEF Rewritten
    <2>5. /\ \A i \in 1 .. n : /\ text'[i] = IF i = h.fd THEN new ELSE text[i]
                               /\ stamp'[i] = IF i = h.fd THEN now ELSE stamp[i]
          /\ path' = path
      BY <1>2, <2>2, <2>3, <2>4, RewrittenIs DEF n
    <2>6. ASSUME NEW g \in Paths, path[g] # h.fd PROVE Keeps(g)
      <3>1. path[g] # NoFile => path[g] \in 1 .. n
        BY <1>3 DEF NoFile
      <3>2. path[g] # NoFile => text'[path[g]] = text[path[g]] /\ stamp'[path[g]] = stamp[path[g]]
        BY <2>5, <2>6, <3>1
      <3> QED BY <2>5, <3>2 DEF Keeps, Content
    <2>7. \A g \in Paths : g # f => Keeps(g)
      BY <1>9, <2>1, <2>6
    <2>8. ASSUME path[f] = h.fd
          PROVE  /\ path'[f] = path[f] /\ stamp'[path[f]] = now
                 /\ Content(f)' = Appended(Content(f), Line(c.word, c.tail))
      <3>1. path[f] # NoFile
        BY <2>2, <2>8 DEF NoFile
      <3>2. path'[f] = path[f] /\ text'[path[f]] = new /\ stamp'[path[f]] = now
        BY <2>2, <2>5, <2>8
      <3>3. Content(f)' = new /\ Content(f) = text[h.fd]
        BY <2>8, <3>1, <3>2 DEF Content
      <3> QED BY <3>2, <3>3 DEF new
    <2>9. todo'[p] = Tail(todo[p]) /\ hand'[p] = NoHand
      BY <1>10, <2>1
    <2>10. Appends(p, c, f, h)
      BY <1>1, <2>1, <2>6, <2>8, <2>9 DEF Appends
    <2> QED BY <1>4, <2>7, <2>10
  <1>16. CASE DelOpen(p)
    <2> DEFINE got == [NoHand EXCEPT !.at = "opened", !.fd = path[f]]
    <2>1. Goes(p, got) /\ h.at = "out" /\ UNCHANGED files
      BY <1>16 DEF DelOpen, Calling
    <2>2. got.at # "copied"
      <3>1. \A x : [NoHand EXCEPT !.at = "opened", !.fd = x].at = "opened"
        BY DEF NoHand
      <3> QED BY <3>1
    <2> HIDE DEF got
    <2>3. todo'[p] = todo[p] /\ hand'[p] = got
      BY <1>11, <2>1
    <2> QED BY <1>1, <1>4, <1>8, <2>1, <2>2, <2>3 DEF GoesOn
  <1>17. CASE DelCopy(p)
    <2> DEFINE txt == text[h.fd]
               got == CopyOf(h, txt, now)
    <2>1. /\ Goes(p, got) /\ h.at = "opened" /\ UNCHANGED files
      BY <1>17 DEF DelCopy, Calling, CopyOf
    <2>2. txt \in TextSet(now) /\ h \in HandSet(now)
      BY <1>3, <1>4, <1>5, <2>1
    <2> HIDE DEF txt
    <2>3. got.mtime = now
      BY <1>2, <2>2, CopiedHand
    <2> HIDE DEF got
    <2>4. todo'[p] = todo[p] /\ hand'[p] = got
      BY <1>11, <2>1
    <2> QED BY <1>1, <1>4, <1>8, <2>1, <2>3, <2>4 DEF GoesOn
  <1>18. CASE DelFails(p) \/ DelRenameFails(p)
    <2>1. /\ UNCHANGED files /\ c.op = "del" /\ h.at \in {"out", "opened", "copied"}
          /\ \E r \in {-1, 0} : Returns(p, r)
      BY <1>18 DEF DelFails, DelRenameFails, Calling
    <2>2. todo'[p] = Tail(todo[p]) /\ hand'[p] = NoHand /\ rc'[p] # 1
      BY <1>10, <2>1
    <2> QED BY <1>1, <1>4, <1>8, <2>1, <2>2 DEF Fails
  <1>19. CASE DelRename(p)
    <2> DEFINE new == Without(h.src, c.word)
    <2>1. Returns(p, 1) /\ h.at = "copied" /\ c.op = "del" /\ NewInode(f, new, h.mtime)
      BY <1>19 DEF DelRename, Calling
    <2>2. new \in TextSet(now) /\ h.mtime \in 1 .. now
      BY <1>2, <1>6, <1>7, <2>1, WithoutIs
    <2> HIDE DEF new
    <2>3. /\ \A g \in Paths : g # f => Keeps(g)
          /\ path'[f] = n + 1 /\ text'[n + 1] = new /\ stamp'[n + 1] = h.mtime
      BY <1>12, <2>1, <2>2
    <2>4. path'[f] # NoFile
      BY <1>3, <2>3 DEF NoFile
    <2>5. Content(f)' = new
      BY <2>3, <2>4 DEF Content
    <2>6. todo'[p] = Tail(todo[p]) /\ hand'[p] = NoHand
      BY <1>10, <2>1
    <2>7. Renames(p, c, f, h)
      BY <2>1, <2>3, <2>4, <2>5, <2>6 DEF Renames, new
    <2> QED BY <1>4, <2>3, <2>7
  <1> QED BY <1>1, <1>13, <1>14, <1>15, <1>16, <1>17, <1>18, <1>19 DEF CallStep

\* The web and cron write the list of denials only.
LEMMA OthersKeep ==
  ASSUME Base, NEW fd \in 1 .. Len(text), Holds(fd, "deny_users"), path' = path,
         \A i \in 1 .. Len(text) : i # fd => text'[i] = text[i] /\ stamp'[i] = stamp[i]
  PROVE  \A g \in Paths : g # "deny_users" => Keeps(g)
  <1> SUFFICES ASSUME NEW g \in Paths, g # "deny_users" PROVE Keeps(g)
    OBVIOUS
  <1>1. FilesOK /\ Apart /\ "deny_users" \in Paths
    BY PathsAre DEF Base
  <1>2. path[g] # NoFile => path[g] \in 1 .. Len(text)
    BY <1>1, FilesAre DEF NoFile
  <1>3. path[g] # fd
    <2>1. path[g] = fd => Holds(fd, g)
      BY DEF Holds
    <2> QED BY <1>1, <2>1 DEF Apart
  <1>4. path[g] # NoFile => text'[path[g]] = text[path[g]] /\ stamp'[path[g]] = stamp[path[g]]
    BY <1>2, <1>3
  <1> QED BY <1>4 DEF Keeps, Content

LEMMA WebKeeps ==
  ASSUME Base, NEW w \in Web, WebLoad(w) \/ WebEmpty(w) \/ WebWrite(w) \/ WebKilled(w)
  PROVE  /\ UNCHANGED <<subject, calls, job, cron, mem, suspect, blur, now>> /\ subject = "deny"
         /\ \A g \in Paths : g # "deny_users" => Keeps(g)
  <1>1. FilesOK /\ Apart /\ WebOK /\ "deny_users" \in Paths /\ now \in Nat \ {0}
    BY PathsAre DEF Base, FilesOK
  <1>2. ASSUME UNCHANGED files PROVE \A g \in Paths : Keeps(g)
    BY <1>2 DEF files, Keeps, Content
  <1>3. CASE WebLoad(w)
    BY <1>2, <1>3 DEF WebLoad
  <1>4. CASE WebKilled(w)
    BY <1>1, <1>2, <1>4 DEF WebKilled, history, WebOK
  <1>5. CASE WebEmpty(w)
    <2>1. /\ web[w].at = "loaded"
          /\ UNCHANGED <<subject, calls, now, job, cron, mem, suspect, blur>>
          /\ \/ NewInode("deny_users", Text(<<>>), now)
             \/ path["deny_users"] # NoFile /\ Rewritten(path["deny_users"], Text(<<>>))
      BY <1>5 DEF WebEmpty, Rewritten, history
    <2>2. Text(<<>>) \in TextSet(now) /\ now \in 1 .. now
      BY <1>1, NoHandIs
    <2>3. CASE NewInode("deny_users", Text(<<>>), now)
      <3>1. /\ \A i \in 1 .. Len(text) : text'[i] = text[i] /\ stamp'[i] = stamp[i]
            /\ path' = [path EXCEPT !["deny_users"] = Len(text) + 1]
        BY <1>1, <2>2, <2>3, PlacedIs
      <3>2. ASSUME NEW g \in Paths, g # "deny_users" PROVE Keeps(g)
        <4>1. path'[g] = path[g]
          BY <1>1, <3>1, <3>2 DEF FilesOK
        <4>2. path[g] # NoFile => path[g] \in 1 .. Len(text)
          BY <1>1, FilesAre DEF NoFile
        <4>3. path[g] # NoFile => text'[path[g]] = text[path[g]] /\ stamp'[path[g]] = stamp[path[g]]
          BY <3>1, <4>2
        <4> QED BY <4>1, <4>3 DEF Keeps, Content
      <3> QED BY <1>1, <2>1, <3>2 DEF WebOK
    <2>4. CASE path["deny_users"] # NoFile /\ Rewritten(path["deny_users"], Text(<<>>))
      <3> DEFINE fd == path["deny_users"]
      <3>1. fd \in 1 .. Len(text) /\ Holds(fd, "deny_users")
        BY <1>1, <2>4, FilesAre DEF NoFile, Holds
      <3>2. path' = path
            /\ \A i \in 1 .. Len(text) : i # fd => text'[i] = text[i] /\ stamp'[i] = stamp[i]
        BY <1>1, <2>2, <2>4, <3>1, RewrittenIs
      <3> HIDE DEF fd
      <3>3. \A g \in Paths : g # "deny_users" => Keeps(g)
        BY <3>1, <3>2, OthersKeep
      <3> QED BY <1>1, <2>1, <3>3 DEF WebOK
    <2> QED BY <2>1, <2>3, <2>4
  <1>6. CASE WebWrite(w)
    <2> DEFINE fd  == path["deny_users"]
               new == [lines |-> Overlaid(text[fd].lines, web[w].table), rest |-> text[fd].rest]
    <2>1. /\ subject = "deny" /\ fd \in 1 .. Len(text)
          /\ new \in TextSet(now) /\ Rewritten(fd, new)
          /\ UNCHANGED <<subject, now, calls, job, cron, mem, suspect>>
      BY <1>6, WebWriteIs
    <2>2. Holds(fd, "deny_users")
      BY DEF Holds
    <2> HIDE DEF fd, new
    <2>3. path' = path
          /\ \A i \in 1 .. Len(text) : i # fd => text'[i] = text[i] /\ stamp'[i] = stamp[i]
      BY <1>1, <2>1, RewrittenIs
    <2>4. \A g \in Paths : g # "deny_users" => Keeps(g)
      BY <2>1, <2>2, <2>3, OthersKeep
    <2> QED BY <1>6, <2>1, <2>4 DEF WebWrite
  <1> QED BY <1>3, <1>4, <1>5, <1>6

LEMMA CronKeeps ==
  ASSUME Base, Cron
  PROVE  /\ UNCHANGED <<subject, calls, job, web, mem, suspect, blur, now>> /\ subject = "deny"
         /\ \A g \in Paths : g # "deny_users" => Keeps(g)
  <1>1. /\ FilesOK /\ CronOK /\ RestOK /\ "deny_users" \in Paths
        /\ DOMAIN text = 1 .. Len(text) /\ DOMAIN stamp = 1 .. Len(text)
    BY PathsAre, FilesAre DEF Base
  <1>2. ASSUME path' = path, text' = text, stamp' = stamp PROVE \A g \in Paths : Keeps(g)
    BY <1>2 DEF Keeps, Content
  <1>3. CASE CronStat
    <2>1. subject = "deny"
      BY <1>3, CronStatIs
    <2> QED BY <1>2, <1>3, <2>1 DEF CronStat, files
  <1>4. CASE CronRead
    BY <1>1, <1>2, <1>4 DEF CronRead, history, CronOK
  <1>5. CASE CronWrite
    <2> DEFINE fd == cron.fd
    <2>1. /\ cron.at = "read" /\ text' = [text EXCEPT ![fd] = Text(cron.keep)]
          /\ stamp' = [stamp EXCEPT ![fd] = now]
          /\ UNCHANGED <<subject, path, calls, now, job, web, mem, suspect, blur>>
      BY <1>5 DEF CronWrite
    <2>2. subject = "deny" /\ fd \in 1 .. Len(text) /\ Holds(fd, "deny_users")
      BY <1>1, <2>1 DEF CronOK, Holds
    <2> HIDE DEF fd
    <2>3. \A i \in 1 .. Len(text) : i # fd => text'[i] = text[i] /\ stamp'[i] = stamp[i]
      BY <1>1, <2>1
    <2>4. \A g \in Paths : g # "deny_users" => Keeps(g)
      BY <2>1, <2>2, <2>3, OthersKeep
    <2> QED BY <2>1, <2>2, <2>4
  <1> QED BY <1>3, <1>4, <1>5 DEF Cron

-----------------------------------------------------------------------------
(* The list of the board and the rights of its members                     *)

LEMMA SeekKeeps ==
  ASSUME NEW g, Keeps(g), NEW w
  PROVE  Seek(g, w)' <=> Seek(g, w)
  BY DEF Keeps, Seek

LEMMA TailDiffers ==
  ASSUME NEW S, NEW s \in Seq(S), s # <<>>
  PROVE  Tail(s) # s
  <1> DEFINE n == Len(s)
             m == Len(Tail(s))
  <1>1. n \in Nat /\ m = n - 1
    BY HeadTailProperties, LenProperties
  <1> HIDE DEF n, m
  <1>2. m # n
    BY <1>1
  <1> QED BY <1>2 DEF n, m

\* A call that goes right does to its file what it is for.
LEMMA StepSeek ==
  ASSUME Base, NEW p \in Procs, Step(p), NEW c, c = Head(todo[p]), NEW f, f = c.file, ~Amiss(p)
  PROVE  /\ \A g \in Paths : g # f => Keeps(g)
         /\ \/ todo'[p] = todo[p] /\ \A g \in Paths : Keeps(g)
            \/ todo'[p] = Tail(todo[p]) /\ (Seek(f, c.word)' <=> c.op = "add")
  <1>1. PICK h : h = hand[p]
    OBVIOUS
  <1>2. /\ \A g \in Paths : g # f => Keeps(g)
        /\ \/ GoesOn(p, c, f, h) \/ Fails(p, c, f, h)
           \/ Appends(p, c, f, h) \/ Renames(p, c, f, h)
    BY <1>1, StepContent
  <1>3. Tail(todo[p]) # todo[p] /\ c.op \in {"add", "del"}
    <2>1. todo[p] \in Seq(CallSet(now)) /\ todo[p] # <<>> /\ c \in CallSet(now)
      BY StepIs DEF Base, CallsOK
    <2> QED BY <2>1, TailDiffers DEF CallSet
  <1>4. ~Fails(p, c, f, h)
    BY <1>3 DEF Fails, Amiss
  <1>5. CASE GoesOn(p, c, f, h)
    BY <1>2, <1>5 DEF GoesOn
  <1>6. CASE Appends(p, c, f, h)
    <2>1. Seek(f, c.word)'
      BY <1>1, <1>6 DEF Appends, Amiss
    <2> QED BY <1>2, <1>6, <2>1 DEF Appends
  <1>7. CASE Renames(p, c, f, h)
    <2>1. ~Seek(f, c.word)'
      BY <1>1, <1>7 DEF Renames, Amiss
    <2> QED BY <1>2, <1>7, <2>1 DEF Renames
  <1> QED BY <1>2, <1>4, <1>5, <1>6, <1>7

\* The two calls of a job about a member.
LEMMA TwoJob ==
  ASSUME now \in Nat \ {0}, NEW j, j.who \in Users, j.kind \in {"join", "expel"}
  PROVE  LET s == Calls(j) IN
         /\ s # <<>> /\ Tail(s) # <<>> /\ Tail(s) # s /\ Tail(Tail(s)) = <<>>
         /\ Head(s).file = j.who /\ Head(s).word = Club
         /\ Head(s).op = "add" <=> j.kind = "join"
         /\ Head(Tail(s)).file = "club_users" /\ Head(Tail(s)).word = Spelling[j.who]
         /\ Head(Tail(s)).op = "add" <=> j.kind = "join"
  <1> DEFINE op == IF j.kind = "join" THEN "add" ELSE "del"
             a == Call(op, j.who, Club, Bare)
             b == Call(op, "club_users", Spelling[j.who], Bare)
             C == CallSet(now)
             s == Calls(j)
  <1>1. s = <<a, b>>
    BY DEF Calls
  <1>2. /\ a \in C /\ a.file = j.who /\ a.word = Club /\ a.op = op
        /\ b \in C /\ b.file = "club_users" /\ b.word = Spelling[j.who] /\ b.op = op
    BY WordOf, TailsAre, PathsAre, CallIs
  <1>3. op = "add" <=> j.kind = "join"
    OBVIOUS
  <1> HIDE DEF a, b, op, C, s
  <1>4. s \in Seq(C) /\ s # <<>> /\ Head(s) = a /\ Tail(s) = <<b>>
    BY <1>1, <1>2, TwoCalls
  <1>5. <<b>> # <<>> /\ Head(<<b>>) = b /\ Tail(<<b>>) = <<>>
    BY <1>2, OneCall
  <1>6. Tail(s) # s
    BY <1>4, TailDiffers
  <1> QED BY <1>2, <1>3, <1>4, <1>5, <1>6 DEF s

\* Nothing of a user's two entries changed, nor of what is done about him.
LEMMA EntriesKeep ==
  ASSUME NEW u \in Users, Keeps(u), Keeps("club_users")
  PROVE  (Member(u)' <=> Member(u)) /\ (HasRight(u)' <=> HasRight(u))
  BY SeekKeeps DEF Member, HasRight

LEMMA ListsStep ==
  ASSUME Base, ListsInv, NEW p \in Procs, Step(p)
  PROVE  ListsInv'
  <1>1. PICK c \in CallSet(now) : c = Head(todo[p])
    BY StepIs
  <1>2. PICK f \in Paths : f = c.file
    BY <1>1 DEF CallSet
  <1>3. /\ todo[p] # <<>> /\ Who(p) \in Users /\ Fits(c, Who(p)) /\ job' = job
        /\ subject' = subject /\ subject \in {"club", "deny"} /\ now \in Nat \ {0}
    BY <1>1, StepIs DEF Base, FilesOK
  <1>4. /\ \A g \in Paths : g # f => Keeps(g)
        /\ \A q \in Procs \ {p} : todo'[q] = todo[q]
    <2>1. PICK h : h = hand[p]
      OBVIOUS
    <2> QED BY <1>1, <1>2, <2>1, StepContent
  <1>5. suspect' = suspect \cup Bystanders(p)
                  \cup (IF Head(todo[p]).file # "deny_users" /\ Amiss(p) THEN {Who(p)} ELSE {})
    BY DEF Step
  <1>6. Managers \subseteq Procs /\ Users \subseteq Paths /\ "club_users" \in Paths
        /\ "club_users" # "deny_users"
    BY PathsAre, NameListsAssumption
  <1>7. \A u : Handled(u)' = Handled(u)
    BY <1>3 DEF Handled
  <1> SUFFICES ASSUME NEW u \in Users, u \notin suspect'
               PROVE  /\ \A q, r \in Handled(u) : q = r
                      /\ Handled(u) = {} => Agree(u)'
                      /\ \A q \in Handled(u) : Along(q)'
    BY <1>7 DEF ListsInv
  <1>8. /\ u \notin suspect /\ u \notin Bystanders(p)
        /\ u = Who(p) /\ f # "deny_users" => ~Amiss(p)
    BY <1>1, <1>2, <1>5
  <1>9. /\ \A q, r \in Handled(u) : q = r
        /\ Handled(u) = {} => Agree(u)
        /\ \A q \in Handled(u) : Along(q)
    BY <1>8 DEF ListsInv
  <1>10. \A q \in Handled(u) : q \in Managers /\ job[q].run /\ job[q].who = u
                                /\ job[q].kind \in {"join", "expel"}
    BY DEF Handled
  <1>11. ASSUME Member(u)' <=> Member(u), HasRight(u)' <=> HasRight(u),
                \A q \in Handled(u) : todo'[q] = todo[q]
         PROVE  /\ Handled(u) = {} => Agree(u)'
                /\ \A q \in Handled(u) : Along(q)'
    <2>1. Handled(u) = {} => Agree(u)'
      BY <1>9, <1>11 DEF Agree
    <2>2. ASSUME NEW q \in Handled(u) PROVE Along(q)'
      BY <1>3, <1>9, <1>10, <1>11, <2>2 DEF Along, Agree, Made, Told
    <2> QED BY <2>1, <2>2
  <1>12. p \in Managers => p \notin Sessions /\ Who(p) = job[p].who
                           /\ job[p].run /\ JobOK(job[p]) /\ todo[p] \in Left(job[p])
    BY <1>3, CallFits DEF Base
  <1>13. p \notin Managers => p \in Sessions /\ Who(p) = p /\ p \in suspect
    BY <1>3, CallFits, NameListsAssumption DEF Base, Who
  <1>14. CASE u # Who(p)
    <2>1. Member(u)' <=> Member(u)
      BY <1>8, <1>14 DEF Bystanders
    <2>2. f # u
      BY <1>2, <1>3, <1>6, <1>14, PathsAre DEF Fits
    <2>3. HasRight(u)' <=> HasRight(u)
      BY <1>4, <1>6, <2>2, SeekKeeps DEF HasRight
    <2>4. \A q \in Handled(u) : todo'[q] = todo[q]
      BY <1>4, <1>6, <1>10, <1>12, <1>14
    <2> QED BY <1>9, <1>11, <2>1, <2>3, <2>4
  <1>15. CASE u = Who(p) /\ subject = "deny"
    <2>1. f = "deny_users"
      BY <1>2, <1>3, <1>15 DEF Fits
    <2>2. Handled(u) = {}
      <3>1. \A q \in Managers : job[q].run => job[q].kind \notin {"join", "expel"}
        BY <1>15 DEF Base, JobsOK, JobSet, Kinds, NoJob
      <3> QED BY <1>10, <3>1
    <2>3. Keeps(u) /\ Keeps("club_users")
      BY <1>4, <1>6, <2>1, PathsAre
    <2>4. (Member(u)' <=> Member(u)) /\ (HasRight(u)' <=> HasRight(u))
      BY <2>3, EntriesKeep
    <2> QED BY <1>9, <1>11, <2>2, <2>4
  <1>16. CASE u = Who(p) /\ subject = "club"
    <2>1. p \in Managers /\ job[p].who = u
      BY <1>8, <1>12, <1>13, <1>16
    <2> DEFINE j == job[p]
               s == Calls(job[p])
    <2>2. job[p].run /\ job[p].kind \in {"join", "expel"} /\ todo[p] \in {s, Tail(s), <<>>}
      BY <1>12, <1>16, <2>1 DEF JobOK, JobSet, Kinds, Left
    <2>3. p \in Handled(u) /\ \A q \in Handled(u) : q = p
      BY <1>9, <2>1, <2>2 DEF Handled
    <2>4. Along(p)
      BY <1>9, <2>3
    <2>5. /\ s # <<>> /\ Tail(s) # <<>> /\ Tail(s) # s /\ Tail(Tail(s)) = <<>>
          /\ Head(s).file = u /\ Head(s).word = Club
          /\ Head(s).op = "add" <=> job[p].kind = "join"
          /\ Head(Tail(s)).file = "club_users" /\ Head(Tail(s)).word = Spelling[u]
          /\ Head(Tail(s)).op = "add" <=> job[p].kind = "join"
      <3>1. /\ s # <<>> /\ Tail(s) # <<>> /\ Tail(s) # s /\ Tail(Tail(s)) = <<>>
            /\ Head(s).file = j.who /\ Head(s).word = Club
            /\ Head(s).op = "add" <=> j.kind = "join"
            /\ Head(Tail(s)).file = "club_users" /\ Head(Tail(s)).word = Spelling[j.who]
            /\ Head(Tail(s)).op = "add" <=> j.kind = "join"
        BY <1>3, <2>1, <2>2, TwoJob
      <3> QED BY <2>1, <3>1
    <2>6. f # "deny_users"
      BY <1>2, <1>3, <1>6, <1>16, PathsAre DEF Fits
    <2>7. \/ todo'[p] = todo[p] /\ \A g \in Paths : Keeps(g)
          \/ todo'[p] = Tail(todo[p]) /\ (Seek(f, c.word)' <=> c.op = "add")
      BY <1>1, <1>2, <1>8, <1>16, <2>6, StepSeek
    <2>8. Calls(job[p])' = s
      BY <1>3 DEF Calls
    <2>9. CASE todo'[p] = todo[p] /\ \A g \in Paths : Keeps(g)
      <3>1. (Member(u)' <=> Member(u)) /\ (HasRight(u)' <=> HasRight(u))
        BY <1>6, <2>9, EntriesKeep
      <3> QED BY <1>9, <1>11, <2>3, <2>9, <3>1
    <2> HIDE DEF s, j
    <2>10. CASE todo[p] = s /\ todo'[p] = Tail(todo[p]) /\ (Seek(f, c.word)' <=> c.op = "add")
      <3>1. f = u /\ c.word = Club /\ (c.op = "add" <=> job[p].kind = "join")
        BY <1>1, <1>2, <2>5, <2>10
      <3>2. HasRight(u)' <=> job[p].kind = "join"
        BY <2>10, <3>1 DEF HasRight
      <3>3. todo'[p] = Tail(s) /\ todo'[p] # s /\ todo'[p] # <<>>
        BY <2>5, <2>10
      <3>4. Along(p)'
        BY <1>3, <2>1, <2>8, <3>2, <3>3 DEF Along, Made
      <3> QED BY <1>9, <2>3, <3>4
    <2>11. CASE todo[p] = Tail(s) /\ todo'[p] = Tail(todo[p]) /\ (Seek(f, c.word)' <=> c.op = "add")
      <3>1. f = "club_users" /\ c.word = Spelling[u] /\ (c.op = "add" <=> job[p].kind = "join")
        BY <1>1, <1>2, <2>5, <2>11
      <3>2. Member(u)' <=> job[p].kind = "join"
        BY <2>11, <3>1 DEF Member
      <3>3. todo'[p] = <<>> /\ todo'[p] # s /\ todo'[p] # Tail(s)
        BY <2>5, <2>11
      <3>4. HasRight(u) <=> job[p].kind = "join"
        BY <2>1, <2>4, <2>11 DEF Along, Made, s
      <3>5. HasRight(u)' <=> HasRight(u)
        BY <1>4, <1>6, <3>1, PathsAre, SeekKeeps DEF HasRight
      <3>6. Along(p)'
        BY <1>3, <2>1, <2>8, <3>2, <3>3, <3>4, <3>5 DEF Along, Made, Told
      <3> QED BY <1>9, <2>3, <3>6
    <2> QED BY <1>3, <2>2, <2>7, <2>9, <2>10, <2>11
  <1> QED BY <1>3, <1>9, <1>14, <1>15, <1>16

\* Nobody handles anybody, and the two kinds of entries are as they were.
LEMMA ListsIdle ==
  ASSUME ListsInv, \A u \in Users : Keeps(u), Keeps("club_users"), suspect \subseteq suspect',
         job' = job, \A q \in Managers : todo'[q] = todo[q]
  PROVE  ListsInv'
  <1> SUFFICES ASSUME NEW u \in Users, u \notin suspect'
               PROVE  /\ \A q, r \in Handled(u)' : q = r
                      /\ Handled(u)' = {} => Agree(u)'
                      /\ \A q \in Handled(u)' : Along(q)'
    BY DEF ListsInv
  <1>1. /\ \A q, r \in Handled(u) : q = r
        /\ Handled(u) = {} => Agree(u)
        /\ \A q \in Handled(u) : Along(q)
    BY DEF ListsInv
  <1>2. Handled(u)' = Handled(u)
    BY DEF Handled
  <1>3. \A q \in Handled(u) : q \in Managers /\ job[q].who = u
    BY DEF Handled
  <1>4. (Member(u)' <=> Member(u)) /\ (HasRight(u)' <=> HasRight(u))
    BY EntriesKeep
  <1>5. Agree(u)' <=> Agree(u)
    BY <1>4 DEF Agree
  <1>6. ASSUME NEW q \in Handled(u) PROVE Along(q)'
    BY <1>1, <1>3, <1>4, <1>6 DEF Along, Agree, Made, Told
  <1> QED BY <1>1, <1>2, <1>5, <1>6

LEMMA ListsManager ==
  ASSUME Base, ListsInv, NEW p \in Managers,
         Ask(p) \/ Decline(p) \/ Confirm(p) \/ Finish(p) \/ Hang(p)
  PROVE  ListsInv'
  <1>1. /\ now \in Nat \ {0} /\ p \in Procs /\ Managers \subseteq Procs
        /\ job \in [Managers -> JobSet(now) \cup {NoJob}]
        /\ todo \in [Procs -> Seq(CallSet(now))]
    BY NameListsAssumption DEF Base, FilesOK, JobsOK, CallsOK
  <1>2. UNCHANGED files
    BY DEF Ask, Decline, Confirm, Finish, Hang
  <1>3. \A g \in Paths : Keeps(g)
    BY <1>2 DEF files, Keeps, Content
  <1>4. \A u \in Users : (Member(u)' <=> Member(u)) /\ (HasRight(u)' <=> HasRight(u))
    BY <1>3, PathsAre, EntriesKeep
  <1>5. \A u \in Users : Agree(u)' <=> Agree(u)
    BY <1>4 DEF Agree
  <1>6. \A q \in Managers \ {p} : job'[q] = job[q] /\ todo'[q] = todo[q]
    BY <1>1 DEF Ask, Decline, Confirm, Finish, Hang, calls
  <1>7. suspect \subseteq suspect'
    BY DEF Ask, Decline, Confirm, Finish, Hang, history
  <1> SUFFICES ASSUME NEW u \in Users, u \notin suspect'
               PROVE  /\ \A q, r \in Handled(u)' : q = r
                      /\ Handled(u)' = {} => Agree(u)'
                      /\ \A q \in Handled(u)' : Along(q)'
    BY DEF ListsInv
  <1>8. /\ \A q, r \in Handled(u) : q = r
        /\ Handled(u) = {} => Agree(u)
        /\ \A q \in Handled(u) : Along(q)
    BY <1>7 DEF ListsInv
  <1>9. ASSUME NEW q \in Handled(u) \ {p} PROVE q \in Handled(u)' /\ Along(q)'
    <2>1. q \in Managers /\ job[q].who = u /\ job'[q] = job[q] /\ todo'[q] = todo[q] /\ Along(q)
      BY <1>6, <1>8, <1>9 DEF Handled
    <2>2. q \in Handled(u)'
      BY <1>9, <2>1 DEF Handled
    <2>3. Calls(job[q])' = Calls(job[q])
      BY <2>1 DEF Calls
    <2> QED BY <1>4, <1>5, <2>1, <2>2, <2>3 DEF Along, Made, Told
  <1>10. \A q \in Handled(u)' \ {p} : q \in Handled(u)
    BY <1>6 DEF Handled
  <1>11. CASE p \notin Handled(u) /\ p \notin Handled(u)'
    BY <1>5, <1>8, <1>9, <1>10, <1>11
  <1>12. CASE p \notin Handled(u) /\ p \in Handled(u)'
    <2>1. job'[p].run /\ job'[p].who = u /\ job'[p].kind \in {"join", "expel"}
      BY <1>12 DEF Handled
    <2>2. Confirm(p)
      <3>1. ASSUME Decline(p) \/ Finish(p) \/ Hang(p) PROVE ~job'[p].run
        BY <1>1, <3>1 DEF Decline, Finish, Hang, NoJob
      <3>2. ASSUME Ask(p) PROVE ~job'[p].run
        BY <1>1, <3>2, JobIs DEF Ask, Base
      <3> QED BY <2>1, <3>1, <3>2
    <2> DEFINE j == job[p]
    <2>3. /\ job' = [job EXCEPT ![p].run = TRUE] /\ j # NoJob
          /\ todo' = [todo EXCEPT ![p] = Calls(j)]
          /\ suspect' = IF Handled(j.who) # {} \/ Repairing(j.who)
                        THEN suspect \cup {j.who} ELSE suspect
      BY <2>2 DEF Confirm
    <2>4. job'[p].who = j.who /\ job'[p].kind = j.kind
      BY <1>1, <2>3
    <2>5. Handled(u) = {}
      BY <2>1, <2>3, <2>4
    <2>6. \A q \in Handled(u)' : q = p
      BY <1>10, <2>5
    <2>7. Agree(u)'
      BY <1>5, <1>8, <2>5
    <2>8. todo'[p] = Calls(j)
      BY <1>1, <2>3
    <2>9. Calls(job'[p]) = Calls(j)
      BY <2>4 DEF Calls
    <2>10. todo'[p] # <<>> /\ todo'[p] # Tail(Calls(j))
      <3> HIDE DEF j
      <3>1. j.who \in Users /\ j.kind \in {"join", "expel"}
        BY <2>1, <2>4
      <3> QED BY <1>1, <2>8, <3>1, TwoJob
    <2>11. Along(p)'
      <3>1. Calls(job[p])' = Calls(job'[p])
        BY DEF Calls
      <3> HIDE DEF j
      <3> QED BY <2>1, <2>7, <2>8, <2>9, <2>10, <3>1 DEF Along
    <2> QED BY <1>12, <2>6, <2>11
  <1>13. CASE p \in Handled(u)
    <2>1. job[p].run /\ job[p].who = u /\ job[p].kind \in {"join", "expel"}
      BY <1>13 DEF Handled
    <2>2. Finish(p)
      <3>1. ~(Ask(p) \/ Decline(p) \/ Confirm(p))
        BY <2>1 DEF Ask, Decline, Confirm, NoJob
      <3>2. Hang(p) => u \in suspect'
        BY <2>1 DEF Hang
      <3> QED BY <3>1, <3>2
    <2>3. todo[p] = <<>> /\ ~job'[p].run
      BY <1>1, <2>2 DEF Finish, NoJob
    <2>4. Handled(u)' = {}
      <3>1. p \notin Handled(u)'
        BY <2>3 DEF Handled
      <3> QED BY <1>8, <1>10, <1>13, <3>1
    <2>5. Along(p)
      BY <1>8, <1>13
    <2>6. Agree(u)
      BY <2>1, <2>3, <2>5 DEF Along, Made, Told, Agree
    <2> QED BY <1>5, <2>4, <2>6
  <1> QED BY <1>11, <1>12, <1>13

LEMMA ListsNext ==
  ASSUME Base, ListsInv, [Next]_vars
  PROVE  ListsInv'
  <1>1. /\ Users \subseteq Paths /\ "club_users" \in Paths /\ "club_users" # "deny_users"
        /\ \A u \in Users : u # "deny_users"
        /\ Managers \subseteq Procs /\ Managers \cap Sessions = {}
    BY PathsAre, NameListsAssumption
  <1>2. ASSUME \A g \in Paths : g # "deny_users" => Keeps(g), job' = job,
               \A q \in Managers : todo'[q] = todo[q], suspect \subseteq suspect'
        PROVE  ListsInv'
    BY <1>1, <1>2, ListsIdle
  <1>3. ASSUME UNCHANGED files, job' = job, \A q \in Managers : todo'[q] = todo[q],
               suspect \subseteq suspect'
        PROVE  ListsInv'
    BY <1>2, <1>3 DEF files, Keeps, Content
  <1>4. ASSUME NEW w \in Web, WebLoad(w) \/ WebEmpty(w) \/ WebWrite(w) \/ WebKilled(w)
        PROVE  ListsInv'
    BY <1>2, <1>4, WebKeeps DEF calls
  <1>5. ASSUME Cron PROVE ListsInv'
    BY <1>2, <1>5, CronKeeps DEF calls
  <1>6. ASSUME NEW u \in Sessions, Login(u) \/ Visit(u) PROVE ListsInv'
    <2>1. UNCHANGED files /\ job' = job /\ suspect \subseteq suspect'
      BY <1>6 DEF Login, Visit
    <2>2. \A q \in Managers : todo'[q] = todo[q]
      <3>1. \A q \in Managers : q # u /\ q \in Procs
        BY <1>1
      <3>2. todo' = todo \/ todo' = [todo EXCEPT ![u] = Repair(u)]
        BY <1>6 DEF Login, Visit, calls
      <3> QED BY <3>1, <3>2 DEF Base, CallsOK
    <2> QED BY <1>3, <2>1, <2>2
  <1>7. CASE Tick
    BY <1>3, <1>7 DEF Tick, calls, history
  <1>8. CASE UNCHANGED vars
    BY <1>3, <1>8 DEF vars, calls, history
  <1> QED BY <1>4, <1>5, <1>6, <1>7, <1>8, ListsManager, ListsStep DEF Next

\* Who stands in a list of bare words.
LEMMA SeekBares ==
  ASSUME NEW f, NEW words \in Seq(Word), Content(f) = Text(Bares(words)), NEW w
  PROVE  Seek(f, w) <=> w \in ToSet(words)
  <1> DEFINE b == Bares(words)
             n == Len(words)
  <1>1. Text(b).rest = <<>> /\ Text(b).lines = b /\ DOMAIN b = 1 .. n
        /\ \A i \in 1 .. n : b[i] = Line(words[i], Bare)
    BY BaresAre
  <1>2. DOMAIN words = 1 .. n
    BY LenProperties
  <1> HIDE DEF b, n
  <1>3. Read(Content(f)) = b
    BY <1>1 DEF Read, b
  <1>4. Seek(f, w) <=> \E i \in 1 .. n : b[i].word = w
    BY <1>1, <1>3 DEF Seek
  <1>5. \A i \in 1 .. n : b[i].word = words[i]
    BY <1>1 DEF Line
  <1> QED BY <1>2, <1>4, <1>5 DEF ToSet

LEMMA InitLists ==
  ASSUME Init
  PROVE  \A u \in Users : Agree(u)
  <1>1. PICK start \in Seq(Users) : \E both \in BOOLEAN :
           /\ FilesOK
           /\ path["deny_users"] = NoFile /\ path["club_users"] = 1
           /\ \A u \in Users : path[u] \in 2 .. Len(text)
           /\ \A u, v \in Users : path[u] = path[v] => u = v
           /\ text[1] = Text(Bares(Ids(start)))
           /\ \A u \in Users : text[path[u]] = Text(Bares(Rights(u, start, both)))
    BY InitFiles
  <1>2. PICK both \in BOOLEAN :
           /\ FilesOK
           /\ path["club_users"] = 1
           /\ \A u \in Users : path[u] \in 2 .. Len(text)
           /\ text[1] = Text(Bares(Ids(start)))
           /\ \A u \in Users : text[path[u]] = Text(Bares(Rights(u, start, both)))
    BY <1>1
  <1> SUFFICES ASSUME NEW u \in Users PROVE Agree(u)
    OBVIOUS
  <1>3. /\ Ids(start) \in Seq(Word) /\ Len(Ids(start)) = Len(start)
        /\ \A i \in 1 .. Len(start) : Ids(start)[i] = Spelling[start[i]]
    BY IdsAre
  <1>4. DOMAIN start = 1 .. Len(start) /\ DOMAIN Ids(start) = 1 .. Len(start)
        /\ \A i \in 1 .. Len(start) : start[i] \in Users
    BY <1>3, LenProperties, ElementOfSeq
  <1>5. Spelling[u] \in ToSet(Ids(start)) <=> u \in ToSet(start)
    BY <1>3, <1>4, NameListsAssumption DEF ToSet
  <1>6. Content("club_users") = Text(Bares(Ids(start)))
    BY <1>2 DEF Content, NoFile
  <1>7. Member(u) <=> u \in ToSet(start)
    BY <1>3, <1>5, <1>6, SeekBares DEF Member
  <1>8. Content(u) = Text(Bares(Rights(u, start, both)))
    BY <1>2 DEF Content, NoFile
  <1>9. HasRight(u) <=> u \in ToSet(start)
    BY <1>8, RightsAre, SeekBares DEF HasRight
  <1> QED BY <1>7, <1>9 DEF Agree

LEMMA AlwaysLists == Spec => [](Base /\ ListsInv)
  <1>1. Init => ListsInv
    <2> SUFFICES ASSUME Init PROVE ListsInv
      OBVIOUS
    <2>1. \A p \in Managers : ~job[p].run
      BY DEF Init, NoJob
    <2>2. \A u \in Users : Handled(u) = {}
      BY <2>1 DEF Handled
    <2> QED BY <2>2, InitLists DEF ListsInv
  <1>2. Base /\ ListsInv /\ [Next]_vars => ListsInv'
    BY ListsNext
  <1> QED BY <1>1, <1>2, AlwaysBase, PTL DEF Spec

LEMMA TypeOKHolds ==
  ASSUME Base
  PROVE  TypeOK
  <1>1. /\ FilesOK /\ CallsOK /\ LocksOK /\ HandsOK
        /\ path \in [Paths -> 0 .. Len(text)]
    BY DEF Base, FilesOK
  <1>2. /\ DOMAIN text = 1 .. Len(text) /\ DOMAIN stamp = 1 .. Len(text)
        /\ DOMAIN lock = 1 .. Len(text) /\ Len(text) \in Nat
        /\ \A i \in 1 .. Len(text) : text[i] \in TextSet(now) /\ stamp[i] \in 1 .. now
    BY <1>1, FilesAre
  <1>3. ASSUME NEW i \in DOMAIN text
        PROVE  /\ DOMAIN text[i].lines = 1 .. Len(text[i].lines)
               /\ \A k \in DOMAIN text[i].lines :
                     /\ text[i].lines[k].word # <<>>
                     /\ text[i].lines[k].tail \in Tails(now)
    <2> DEFINE ls == text[i].lines
    <2>1. ls \in Seq(LineSet(now))
      BY <1>2 DEF TextSet
    <2>2. DOMAIN ls = 1 .. Len(ls) /\ \A k \in 1 .. Len(ls) : ls[k] \in LineSet(now)
      BY <2>1, LenProperties, ElementOfSeq
    <2> HIDE DEF ls
    <2>3. \A k \in DOMAIN ls : ls[k].word # <<>> /\ ls[k].tail \in Tails(now)
      BY <2>2 DEF LineSet, Word
    <2> QED BY <2>2, <2>3 DEF ls
  <1>4. \A i \in DOMAIN text : lock[i] = (IF cron.at = "read" /\ cron.fd = i THEN "cron" ELSE NoProc)
    BY <1>1, <1>2 DEF LocksOK
  <1>5. ASSUME NEW p \in Procs
        PROVE  hand[p].fd \in 0 .. Len(text) /\ (hand[p].at # "out" => todo[p] # <<>>)
    BY <1>1, <1>2 DEF HandsOK, NoHand, NoFile
  <1> QED BY <1>1, <1>2, <1>3, <1>4, <1>5 DEF TypeOK

\* The list of the board and the rights of a user agree whenever nobody is
\* handling him and nothing recorded in suspect has happened to him:
\* addclubmember and delclubmember keep two files in step without a lock.
THEOREM ListsAgreeHolds == Spec => []ListsAgree
  <1>1. Base /\ ListsInv => ListsAgree
    <2> SUFFICES ASSUME Base, ListsInv PROVE ListsAgree
      OBVIOUS
    <2>1. \A u \in Users : Settled(u) /\ u \notin suspect => (Member(u) <=> HasRight(u))
      BY DEF Settled, ListsInv, Agree
    <2> QED BY <2>1, TypeOKHolds DEF ListsAgree
  <1> QED BY <1>1, AlwaysLists, PTL

-----------------------------------------------------------------------------
(* What a session of a member remembers                                    *)

\* The rights file of a user is written by one process at a time.
LEMMA OneHandler ==
  ASSUME Base, ListsInv, NEW u \in Users, u \notin suspect, NEW p \in Procs, NEW q \in Procs,
         todo[p] # <<>>, Head(todo[p]).file = u, todo[q] # <<>>, Head(todo[q]).file = u
  PROVE  p = q
  <1>1. ASSUME NEW r \in Procs, todo[r] # <<>>, Head(todo[r]).file = u PROVE r \in Handled(u)
    <2>1. FilesOK /\ JobsOK
      BY DEF Base
    <2>2. Fits(Head(todo[r]), Who(r))
      BY <1>1, <2>1, CallFits
    <2>3. subject = "club" /\ Who(r) = u
      BY <1>1, <2>2, PathsAre DEF Fits
    <2>4. r \in Managers
      <3>1. r \notin Managers => r \in Sessions /\ r = u /\ r \in suspect
        BY <1>1, <2>1, <2>3, CallFits, NameListsAssumption DEF Who
      <3> QED BY <3>1
    <2>5. job[r].run /\ job[r].who = u /\ job[r].kind \in {"join", "expel"}
      BY <1>1, <2>1, <2>3, <2>4, CallFits DEF JobOK, JobSet, Kinds
    <2> QED BY <2>4, <2>5 DEF Handled
  <1>2. p \in Handled(u) /\ q \in Handled(u)
    BY <1>1
  <1> QED BY <1>2 DEF ListsInv

\* What a session knows: its user's rights file is there, and when it read it.
LEMMA MemIs ==
  ASSUME Base, NEW u \in Sessions
  PROVE  /\ u \in Users /\ u \in Paths /\ path[u] # NoFile
         /\ now \in Nat /\ stamp[path[u]] \in 1 .. now
         /\ mem[u] \in [right : BOOLEAN, rtime : 0 .. now] /\ mem[u].rtime \in 0 .. now
  <1>1. u \in Users /\ u \in Paths
    BY NameListsAssumption
  <1>2. path[u] # NoFile /\ FilesOK /\ RestOK
    BY <1>1 DEF Base, Seated
  <1>3. stamp[path[u]] \in 1 .. now
    BY <1>1, <1>2, FilesAre DEF NoFile
  <1>4. mem[u] \in [right : BOOLEAN, rtime : 0 .. now]
    BY <1>2 DEF RestOK
  <1> QED BY <1>1, <1>2, <1>3, <1>4 DEF FilesOK

LEMMA VisitStep ==
  ASSUME Base, ListsInv, VisitInv, NEW p \in Procs, Step(p)
  PROVE  VisitInv'
  <1>1. PICK c \in CallSet(now) : c = Head(todo[p])
    BY StepIs
  <1>2. PICK f \in Paths : f = c.file
    BY <1>1 DEF CallSet
  <1>3. PICK h : h = hand[p]
    OBVIOUS
  <1>4. todo[p] # <<>> /\ mem' = mem /\ FilesOK /\ HandsOK /\ now' = now
    BY StepIs DEF Base
  <1>5. /\ \A g \in Paths : g # f => Keeps(g)
        /\ \/ GoesOn(p, c, f, h) \/ Fails(p, c, f, h)
           \/ Appends(p, c, f, h) \/ Renames(p, c, f, h)
        /\ \A q \in Procs \ {p} : todo'[q] = todo[q] /\ hand'[q] = hand[q]
    BY <1>1, <1>2, <1>3, StepContent
  <1>6. /\ suspect \subseteq suspect'
        /\ blur' = blur \cup {u \in Sessions : /\ Content(u)' # Content(u)
                                               /\ stamp'[path'[u]] = mem[u].rtime}
    BY DEF Step
  <1> SUFFICES ASSUME NEW u \in Sessions, u \notin suspect'
               PROVE  /\ mem[u].rtime <= stamp'[path'[u]]
                      /\ u \notin blur' /\ mem[u].rtime = stamp'[path'[u]]
                           => mem[u].right = HasRight(u)'
                      /\ \A q \in Procs :
                           hand'[q].at = "copied" /\ Head(todo'[q]).file = u
                             => stamp'[path'[u]] <= hand'[q].mtime
    BY <1>4 DEF VisitInv
  <1>7. /\ u \in Users /\ u \in Paths /\ path[u] # NoFile /\ now \in Nat
        /\ stamp[path[u]] \in 1 .. now /\ mem[u].rtime \in 0 .. now
    BY MemIs
  <1>8. /\ u \notin suspect /\ mem[u].rtime <= stamp[path[u]]
        /\ u \notin blur /\ mem[u].rtime = stamp[path[u]] => mem[u].right = HasRight(u)
        /\ \A q \in Procs : hand[q].at = "copied" /\ Head(todo[q]).file = u
                              => stamp[path[u]] <= hand[q].mtime
    BY <1>6 DEF VisitInv
  <1>9. hand'[p].at = "copied" => GoesOn(p, c, f, h)
    BY <1>5 DEF Fails, Appends, Renames, NoHand
  <1>10. Keeps(u) => stamp'[path'[u]] = stamp[path[u]]
    BY <1>7 DEF Keeps
  <1>11. /\ stamp[path[u]] <= stamp'[path'[u]]
         /\ \A q \in Procs : hand'[q].at = "copied" /\ Head(todo'[q]).file = u
                               => stamp'[path'[u]] <= hand'[q].mtime
    <2>1. CASE u # f
      <3>1. stamp'[path'[u]] = stamp[path[u]]
        BY <1>5, <1>7, <1>10, <2>1
      <3>2. ASSUME hand'[p].at = "copied" PROVE Head(todo'[p]).file # u
        BY <1>1, <1>2, <1>9, <2>1, <3>2 DEF GoesOn
      <3>3. \A q \in Procs : hand'[q].at = "copied" /\ Head(todo'[q]).file = u
                               => stamp[path[u]] <= hand'[q].mtime
        BY <1>5, <1>8, <3>2
      <3> QED BY <1>7, <3>1, <3>3
    <2>2. CASE u = f
      <3>1. ASSUME NEW q \in Procs \ {p}, hand'[q].at = "copied", Head(todo'[q]).file = u
            PROVE  FALSE
        <4>1. hand[q].at = "copied" /\ Head(todo[q]).file = u
          BY <1>5, <3>1
        <4>2. todo[q] # <<>>
          BY <1>4, <4>1 DEF HandsOK
        <4> QED BY <1>1, <1>2, <1>4, <1>7, <1>8, <2>2, <4>1, <4>2, OneHandler
      <3>2. ASSUME hand'[p].at = "copied"
            PROVE  stamp'[path'[u]] <= hand'[p].mtime
        <4>1. Keeps(u) /\ hand'[p].mtime = now
          BY <1>9, <2>2, <3>2 DEF GoesOn
        <4> QED BY <1>7, <1>10, <4>1
      <3>3. stamp[path[u]] <= stamp'[path'[u]]
        <4>1. CASE GoesOn(p, c, f, h) \/ Fails(p, c, f, h)
          BY <1>7, <1>10, <2>2, <4>1 DEF GoesOn, Fails
        <4>2. CASE Appends(p, c, f, h)
          <5>1. stamp'[path'[u]] = now \/ stamp'[path'[u]] = stamp[path[u]]
            BY <1>10, <2>2, <4>2 DEF Appends
          <5> QED BY <1>7, <5>1
        <4>3. CASE Renames(p, c, f, h)
          <5>1. stamp'[path'[u]] = hand[p].mtime /\ hand[p].at = "copied"
            BY <1>3, <2>2, <4>3 DEF Renames
          <5>2. Head(todo[p]).file = u
            BY <1>1, <1>2, <2>2
          <5> QED BY <1>8, <5>1, <5>2
        <4> QED BY <1>5, <4>1, <4>2, <4>3
      <3> QED BY <3>1, <3>2, <3>3
    <2> QED BY <2>1, <2>2
  <1> DEFINE s == stamp[path[u]]
             s1 == stamp'[path'[u]]
             r == mem[u].rtime
  <1>12. r \in Int /\ s \in Int /\ r <= s /\ s <= s1 /\ s1 \in Int
    <2>1. s1 \in 1 .. now
      <3>1. FilesOK'
        BY StepFiles
      <3>2. path'[u] # NoFile
        BY <1>7, StepFiles DEF Seated
      <3>3. /\ stamp' \in Seq(1 .. now) /\ Len(stamp') = Len(text')
            /\ path'[u] \in 0 .. Len(text')
        BY <1>4, <1>7, <3>1 DEF FilesOK
      <3>4. Len(stamp') \in Nat
        BY <3>3, LenProperties
      <3>5. path'[u] \in 1 .. Len(stamp')
        BY <3>2, <3>3, <3>4 DEF NoFile
      <3> QED BY <3>3, <3>5, ElementOfSeq
    <2> QED BY <1>7, <1>8, <1>11, <2>1
  <1> HIDE DEF s, s1, r
  <1>13. r <= s1
    BY <1>12
  <1>14. ASSUME u \notin blur', r = s1 PROVE mem[u].right = HasRight(u)'
    <2>1. Content(u)' = Content(u) /\ u \notin blur
      BY <1>6, <1>14 DEF r, s1
    <2>2. r = s
      BY <1>12, <1>14
    <2>3. HasRight(u)' = HasRight(u)
      BY <2>1 DEF HasRight, Seek
    <2> QED BY <1>8, <2>1, <2>2, <2>3 DEF r, s
  <1> QED BY <1>11, <1>13, <1>14 DEF r, s1

LEMMA VisitIdle ==
  ASSUME VisitInv, Base, \A u \in Users : Keeps(u), suspect \subseteq suspect',
         mem' = mem, blur' = blur,
         \A q \in Procs : hand'[q].at = "copied" => hand'[q] = hand[q] /\ todo'[q] = todo[q]
  PROVE  VisitInv'
  <1> SUFFICES ASSUME NEW u \in Sessions, u \notin suspect'
               PROVE  /\ mem[u].rtime <= stamp'[path'[u]]
                      /\ u \notin blur /\ mem[u].rtime = stamp'[path'[u]]
                           => mem[u].right = HasRight(u)'
                      /\ \A q \in Procs :
                           hand'[q].at = "copied" /\ Head(todo'[q]).file = u
                             => stamp'[path'[u]] <= hand'[q].mtime
    BY DEF VisitInv
  <1>1. u \in Users /\ path[u] # NoFile
    BY MemIs
  <1>2. stamp'[path'[u]] = stamp[path[u]] /\ (HasRight(u)' <=> HasRight(u))
    BY <1>1, SeekKeeps DEF Keeps, HasRight
  <1>3. /\ u \notin suspect /\ mem[u].rtime <= stamp[path[u]]
        /\ u \notin blur /\ mem[u].rtime = stamp[path[u]] => mem[u].right = HasRight(u)
        /\ \A q \in Procs : hand[q].at = "copied" /\ Head(todo[q]).file = u
                              => stamp[path[u]] <= hand[q].mtime
    BY DEF VisitInv
  <1>4. HasRight(u) \in BOOLEAN /\ HasRight(u)' \in BOOLEAN
    BY DEF HasRight, Seek
  <1> QED BY <1>2, <1>3, <1>4

\* What a visit leaves in the session when the list did not overrule the file.
LEMMA VisitedRight ==
  ASSUME Base, NEW u \in Sessions
  PROVE  /\ Visited(u).rtime = Reread(u).rtime
         /\ Repair(u) = <<>> => Visited(u).right = Reread(u).right
         /\ Newer(u, mem[u].rtime) => Reread(u).right = HasRight(u) /\ Reread(u).rtime = stamp[path[u]]
         /\ ~Newer(u, mem[u].rtime) => Reread(u) = mem[u]
         /\ Newer("club_users", Reread(u).rtime) => Visited(u).right = Member(u)
         /\ ~Newer("club_users", Reread(u).rtime) => Visited(u) = Reread(u)
  <1>1. path[u] # NoFile /\ FilesOK /\ RestOK
    BY MemIs DEF Base
  <1> DEFINE m == Reread(u)
  <1>2. m \in [right : BOOLEAN, rtime : 0 .. now]
    BY <1>1, VisitedIs
  <1>3. m = IF Newer(u, mem[u].rtime) THEN [right |-> HasRight(u), rtime |-> stamp[path[u]]]
            ELSE mem[u]
    BY <1>1 DEF Reread
  <1>4. Visited(u) = IF Newer("club_users", m.rtime) THEN [m EXCEPT !.right = Member(u)] ELSE m
    BY DEF Visited
  <1>5. Repair(u) = <<>> => m.right = Visited(u).right
    <2>1. \A x : <<x>> # <<>>
      OBVIOUS
    <2> QED BY <2>1 DEF Repair
  <1> HIDE DEF m
  <1>6. [m EXCEPT !.right = Member(u)].rtime = m.rtime
        /\ [m EXCEPT !.right = Member(u)].right = Member(u)
    BY <1>2
  <1>7. Newer(u, mem[u].rtime) => m.right = HasRight(u) /\ m.rtime = stamp[path[u]]
    BY <1>3
  <1> QED BY <1>3, <1>4, <1>5, <1>6, <1>7 DEF m

LEMMA VisitSession ==
  ASSUME Base, VisitInv, NEW v \in Sessions, Login(v) \/ Visit(v)
  PROVE  VisitInv'
  <1>1. UNCHANGED files /\ hand' = hand /\ todo[v] = <<>> /\ v \in Procs /\ suspect \subseteq suspect'
    BY NameListsAssumption DEF Login, Visit, calls
  <1>2. path' = path /\ stamp' = stamp /\ text' = text
    BY <1>1 DEF files
  <1>3. todo \in [Procs -> Seq(CallSet(now))] /\ RestOK /\ HandsOK
        /\ mem \in [Sessions -> [right : BOOLEAN, rtime : 0 .. now]]
    BY DEF Base, CallsOK, RestOK
  <1>4. hand[v].at # "copied"
    BY <1>1, <1>3 DEF HandsOK
  <1>5. \A q \in Procs \ {v} : todo'[q] = todo[q]
    BY <1>3 DEF Login, Visit, calls
  <1>6. \A u \in Sessions \ {v} : mem'[u] = mem[u] /\ (u \in blur' <=> u \in blur)
    BY <1>3 DEF Login, Visit
  <1> SUFFICES ASSUME NEW u \in Sessions, u \notin suspect'
               PROVE  /\ mem'[u].rtime <= stamp[path[u]]
                      /\ u \notin blur' /\ mem'[u].rtime = stamp[path[u]]
                           => mem'[u].right = HasRight(u)
                      /\ \A q \in Procs :
                           hand[q].at = "copied" /\ Head(todo'[q]).file = u
                             => stamp[path[u]] <= hand[q].mtime
    <2>1. \A u : HasRight(u)' = HasRight(u)
      BY <1>2 DEF HasRight, Seek, Content
    <2> QED BY <1>1, <1>2, <2>1 DEF VisitInv
  <1>7. /\ mem[u].rtime <= stamp[path[u]]
        /\ u \notin blur /\ mem[u].rtime = stamp[path[u]] => mem[u].right = HasRight(u)
        /\ \A q \in Procs : hand[q].at = "copied" /\ Head(todo[q]).file = u
                              => stamp[path[u]] <= hand[q].mtime
    BY <1>1 DEF VisitInv
  <1>8. \A q \in Procs : hand[q].at = "copied" /\ Head(todo'[q]).file = u
                           => stamp[path[u]] <= hand[q].mtime
    BY <1>4, <1>5, <1>7
  <1>9. /\ path[u] # NoFile /\ now \in Nat /\ stamp[path[u]] \in 1 .. now
        /\ mem[u].rtime \in 0 .. now
    BY MemIs
  <1>10. CASE u # v
    BY <1>6, <1>7, <1>8, <1>10
  <1>11. CASE u = v /\ Login(v)
    <2>1. mem'[u].rtime = 0
      BY <1>3, <1>11 DEF Login
    <2> QED BY <1>8, <1>9, <2>1
  <1>12. CASE u = v /\ Visit(v)
    <2>1. mem'[u] = Visited(u)
      BY <1>3, <1>12 DEF Visit
    <2>2. Repair(u) = <<>>
      BY <1>12 DEF Visit
    <2>3. Visited(u).rtime = Reread(u).rtime /\ Visited(u).right = Reread(u).right
      BY <2>2, VisitedRight
    <2>4. CASE Newer(u, mem[u].rtime)
      <3>1. Reread(u).right = HasRight(u) /\ Reread(u).rtime = stamp[path[u]]
        BY <2>4, VisitedRight
      <3> QED BY <1>8, <1>9, <2>1, <2>3, <3>1
    <2>5. CASE ~Newer(u, mem[u].rtime)
      <3>1. Reread(u) = mem[u]
        BY <2>5, VisitedRight
      <3>2. blur' = blur
        BY <1>9, <1>12, <2>5 DEF Visit
      <3> QED BY <1>7, <1>8, <2>1, <2>3, <3>1, <3>2
    <2> QED BY <2>4, <2>5
  <1> QED BY <1>10, <1>11, <1>12

LEMMA VisitNext ==
  ASSUME Base, ListsInv, VisitInv, [Next]_vars
  PROVE  VisitInv'
  <1>1. \A u \in Users : u \in Paths /\ u # "deny_users"
    BY PathsAre
  <1>2. ASSUME UNCHANGED files PROVE \A u \in Users : Keeps(u)
    BY <1>2 DEF files, Keeps, Content
  <1>3. ASSUME NEW p \in Managers, Ask(p) \/ Decline(p) \/ Confirm(p) \/ Finish(p) \/ Hang(p)
        PROVE  VisitInv'
    <2>1. UNCHANGED files /\ suspect \subseteq suspect' /\ mem' = mem /\ blur' = blur
      BY <1>3 DEF Ask, Decline, Confirm, Finish, Hang, history
    <2>2. /\ p \in Procs /\ todo \in [Procs -> Seq(CallSet(now))]
          /\ hand \in [Procs -> HandSet(now)] /\ JobsOK /\ HandsOK
      BY NameListsAssumption DEF Base, CallsOK
    <2>3. \A q \in Procs \ {p} : hand'[q] = hand[q] /\ todo'[q] = todo[q]
      BY <1>3, <2>2 DEF Ask, Decline, Confirm, Finish, Hang, calls
    <2>4. hand'[p].at = "copied" => hand'[p] = hand[p] /\ todo'[p] = todo[p]
      <3>1. CASE Ask(p) \/ Decline(p) \/ Finish(p)
        BY <3>1 DEF Ask, Decline, Finish, calls
      <3>2. CASE Confirm(p)
        <4>1. todo[p] = <<>> /\ hand' = hand
          BY <2>2, <3>2 DEF Confirm, JobsOK
        <4>2. hand[p].at # "copied"
          BY <2>2, <4>1 DEF HandsOK
        <4> QED BY <4>1, <4>2
      <3>3. CASE Hang(p)
        BY <2>2, <3>3 DEF Hang, NoHand
      <3> QED BY <1>3, <3>1, <3>2, <3>3
    <2> QED BY <1>2, <2>1, <2>3, <2>4, VisitIdle
  <1>4. ASSUME NEW w \in Web, WebLoad(w) \/ WebEmpty(w) \/ WebWrite(w) \/ WebKilled(w)
        PROVE  VisitInv'
    BY <1>1, <1>4, WebKeeps, VisitIdle DEF calls
  <1>5. ASSUME Cron PROVE VisitInv'
    BY <1>1, <1>5, CronKeeps, VisitIdle DEF calls
  <1>6. ASSUME Tick PROVE VisitInv'
    BY <1>2, <1>6, VisitIdle DEF Tick, calls, history
  <1>7. CASE UNCHANGED vars
    BY <1>2, <1>7, VisitIdle DEF vars, calls, history
  <1> QED BY <1>3, <1>4, <1>5, <1>6, <1>7, VisitStep, VisitSession DEF Next

\* Whenever a session would enter the board, clubsync lets the user in exactly
\* if the list of the board has him, although it rereads a file only when its
\* mtime is newer than what it remembers.
THEOREM VisitHonoursListHolds == Spec => []VisitHonoursList
  <1>1. Init => VisitInv
    <2> SUFFICES ASSUME Init PROVE VisitInv
      OBVIOUS
    <2>1. Base
      BY InitBase
    <2>2. \A p \in Procs : hand[p].at # "copied"
      BY DEF Init, NoHand
    <2>3. ASSUME NEW u \in Sessions PROVE mem[u].rtime = 0 /\ mem[u].rtime < stamp[path[u]]
      <3>1. mem[u].rtime = 0
        BY DEF Init
      <3>2. stamp[path[u]] \in 1 .. now /\ now \in Nat
        BY <2>1, MemIs
      <3> QED BY <3>1, <3>2
    <2>4. \A u \in Sessions : stamp[path[u]] \in 1 .. now /\ now \in Nat
      BY <2>1, MemIs
    <2> QED BY <2>2, <2>3, <2>4 DEF VisitInv
  <1>2. Base /\ ListsInv /\ VisitInv /\ [Next]_vars => VisitInv'
    BY VisitNext
  <1>3. Base /\ ListsInv /\ VisitInv => VisitHonoursList
    <2> SUFFICES ASSUME Base, ListsInv, VisitInv, NEW u \in Sessions, Settled(u),
                        u \notin suspect \cup blur
                 PROVE  Visited(u).right <=> Member(u)
      BY DEF VisitHonoursList
    <2>1. /\ u \in Users /\ path[u] # NoFile /\ now \in Nat
          /\ stamp[path[u]] \in 1 .. now /\ mem[u].rtime \in 0 .. now
      BY MemIs
    <2>2. /\ mem[u].rtime <= stamp[path[u]]
          /\ mem[u].rtime = stamp[path[u]] => mem[u].right = HasRight(u)
      BY DEF VisitInv
    <2>3. Member(u) <=> HasRight(u)
      BY <2>1 DEF ListsInv, Settled, Agree
    <2>4. Reread(u).right = HasRight(u)
      <3>1. CASE Newer(u, mem[u].rtime)
        BY <3>1, VisitedRight
      <3>2. CASE ~Newer(u, mem[u].rtime)
        <4>1. mem[u].rtime = stamp[path[u]]
          BY <2>1, <2>2, <3>2 DEF Newer
        <4> QED BY <2>2, <3>2, <4>1, VisitedRight
      <3> QED BY <3>1, <3>2
    <2>5. Visited(u).right = Member(u) \/ Visited(u).right = HasRight(u)
      BY <2>4, VisitedRight
    <2> QED BY <2>3, <2>5
  <1> QED BY <1>1, <1>2, <1>3, AlwaysLists, PTL DEF Spec

-----------------------------------------------------------------------------
(* What a call does to the other members                                   *)

Has(txt, v) == \E i \in DOMAIN Read(txt) : Read(txt)[i].word = v

LEMMA HasIs ==
  ASSUME NEW t \in Nat, NEW txt \in TextSet(t), NEW v
  PROVE  Has(txt, v) <=> \/ \E k \in 1 .. Len(txt.lines) : txt.lines[k].word = v
                         \/ txt.rest # <<>> /\ txt.rest = v
  <1> DEFINE ls == txt.lines
             n == Len(ls)
             last == Line(txt.rest, Bare)
  <1>1. ls \in Seq(LineSet(t)) /\ n \in Nat /\ DOMAIN ls = 1 .. n
    BY LenProperties DEF TextSet
  <1>2. CASE txt.rest = <<>>
    <2>1. Read(txt) = ls
      BY <1>2 DEF Read
    <2> QED BY <1>1, <1>2, <2>1 DEF Has
  <1>3. CASE txt.rest # <<>>
    <2>1. Read(txt) = Append(ls, last)
      BY <1>3 DEF Read
    <2>2. last.word = txt.rest
      BY DEF Line
    <2> DEFINE S == LineSet(t) \cup {last}
               new == Append(ls, last)
    <2>3. ls \in Seq(S) /\ last \in S
      BY <1>1, SeqMonotonic
    <2> HIDE DEF S, last, ls
    <2>4. /\ new \in Seq(S) /\ Len(new) = Len(ls) + 1
          /\ \A k \in 1 .. Len(ls) : new[k] = ls[k]
          /\ new[Len(ls) + 1] = last
      BY <2>3, AppendProperties
    <2>5. DOMAIN new = 1 .. Len(new)
      BY <2>4, LenProperties
    <2> HIDE DEF new, n
    <2>6. DOMAIN new = 1 .. n + 1
      BY <2>4, <2>5 DEF n
    <2>7. 1 .. n + 1 = (1 .. n) \cup {n + 1}
      BY <1>1
    <2>8. \A k \in 1 .. n : new[k] = ls[k]
      BY <2>4 DEF n
    <2>9. new[n + 1] = last
      BY <2>4 DEF n
    <2>10. Has(txt, v) <=> \E k \in (1 .. n) \cup {n + 1} : new[k].word = v
      BY <2>1, <2>6, <2>7 DEF Has, new
    <2>11. Has(txt, v) <=> (\E k \in 1 .. n : ls[k].word = v) \/ txt.rest = v
      BY <2>2, <2>8, <2>9, <2>10
    <2> QED BY <1>3, <2>11 DEF n, ls
  <1> QED BY <1>2, <1>3

LEMMA HasAppended ==
  ASSUME NEW t \in Nat, NEW txt \in TextSet(t), NEW w \in Word, NEW e \in Tails(t),
         txt.rest = <<>>, NEW v, v # w
  PROVE  Has(Appended(txt, Line(w, e)), v) <=> Has(txt, v)
  <1> DEFINE new == Appended(txt, Line(w, e))
             ls == txt.lines
             n == Len(ls)
             line == Line(txt.rest \o w, e)
  <1>1. /\ new \in TextSet(t) /\ new.rest = <<>> /\ new.lines = Append(ls, line)
        /\ line \in LineSet(t)
    BY AppendedText
  <1>2. line.word = w
    BY JoinWords DEF Line, Word
  <1>3. ls \in Seq(LineSet(t))
    BY DEF TextSet
  <1> HIDE DEF new, line, ls
  <1>4. /\ Len(new.lines) = Len(ls) + 1 /\ \A k \in 1 .. Len(ls) : new.lines[k] = ls[k]
        /\ new.lines[Len(ls) + 1] = line
    BY <1>1, <1>3, AppendProperties
  <1>5. n \in Nat
    BY <1>3, LenProperties
  <1> DEFINE m == Len(new.lines)
  <1> HIDE DEF n, m
  <1>6. m = n + 1 /\ 1 .. n + 1 = (1 .. n) \cup {n + 1}
    BY <1>4, <1>5 DEF n, m
  <1>7. (\A k \in 1 .. n : new.lines[k] = ls[k]) /\ new.lines[n + 1] = line
    BY <1>4 DEF n
  <1>8. Has(new, v) <=> \E k \in 1 .. m : new.lines[k].word = v
    BY <1>1, HasIs DEF m
  <1>9. Has(txt, v) <=> \E k \in 1 .. n : ls[k].word = v
    BY HasIs DEF n, ls
  <1>10. (\E k \in (1 .. n) \cup {n + 1} : new.lines[k].word = v)
           <=> \E k \in 1 .. n : ls[k].word = v
    BY <1>2, <1>7
  <1> QED BY <1>6, <1>8, <1>9, <1>10 DEF new

LEMMA HasWithout ==
  ASSUME NEW t \in Nat, NEW txt \in TextSet(t), NEW w \in Word, Occurrences(txt, w) # {},
         Stub(txt, w) = <<>>, NEW v, v # w
  PROVE  Has(Without(txt, w), v) <=> Has(txt, v)
  <1> DEFINE new == Without(txt, w)
             ls == txt.lines
             i == First(txt, w)
             n == Len(ls)
             m == Len(new.lines)
  <1>1. i \in 1 .. n /\ ls[i].word = w
    BY FirstIs
  <1>2. /\ new \in TextSet(t) /\ new.rest = txt.rest /\ m = n - 1
        /\ \A k \in 1 .. n - 1 : new.lines[k] = ls[IF k < i THEN k ELSE k + 1]
    BY WithoutIs
  <1>3. n \in Nat
    BY LenProperties DEF TextSet
  <1>4. Has(new, v) <=> \/ \E k \in 1 .. m : new.lines[k].word = v
                        \/ txt.rest # <<>> /\ txt.rest = v
    BY <1>2, HasIs
  <1>5. Has(txt, v) <=> \/ \E k \in 1 .. n : ls[k].word = v
                        \/ txt.rest # <<>> /\ txt.rest = v
    BY HasIs
  <1> HIDE DEF new, ls, i, n, m
  <1>6. ASSUME NEW k \in 1 .. m, new.lines[k].word = v PROVE \E q \in 1 .. n : ls[q].word = v
    <2> DEFINE q == IF k < i THEN k ELSE k + 1
    <2>1. q \in 1 .. n /\ k \in 1 .. n - 1
      BY <1>1, <1>2, <1>3
    <2>2. new.lines[k] = ls[q]
      BY <1>2, <2>1
    <2> QED BY <1>6, <2>1, <2>2
  <1>7. ASSUME NEW q \in 1 .. n, ls[q].word = v PROVE \E k \in 1 .. m : new.lines[k].word = v
    <2> DEFINE k == IF q < i THEN q ELSE q - 1
    <2>1. q # i
      BY <1>1, <1>7
    <2>2. k \in 1 .. m /\ k \in 1 .. n - 1 /\ q = IF k < i THEN k ELSE k + 1
      BY <1>1, <1>2, <1>3, <2>1
    <2> HIDE DEF k
    <2>3. new.lines[k] = ls[q]
      BY <1>2, <2>2
    <2> QED BY <1>7, <2>2, <2>3
  <1> QED BY <1>4, <1>5, <1>6, <1>7 DEF new

LEMMA BystanderStep ==
  ASSUME Base, NEW p \in Managers, Step(p), Bystanders(p) # {}
  PROVE  \/ hand[p].at = "copied" /\ (Glued(p) \/ Overtaken(p))
         \/ hand[p].at = "buffered" /\ text[hand[p].fd].rest # <<>>
  <1>1. p \in Procs /\ FilesOK /\ HandsOK /\ CallsOK /\ now \in Nat \ {0}
    BY NameListsAssumption DEF Base, FilesOK
  <1>2. PICK u \in Users \ {Who(p)} : Member(u) # Member(u)'
    BY DEF Bystanders
  <1>3. PICK c \in CallSet(now) : c = Head(todo[p])
    BY <1>1, StepIs
  <1>4. PICK f \in Paths : f = c.file
    BY <1>3 DEF CallSet
  <1>5. PICK h \in HandSet(now) : h = hand[p]
    BY <1>1 DEF CallsOK
  <1>6. /\ todo[p] # <<>> /\ Who(p) \in Users /\ Fits(c, Who(p))
    BY <1>1, <1>3, StepIs
  <1>7. /\ \A g \in Paths : g # f => Keeps(g)
        /\ \/ GoesOn(p, c, f, h) \/ Fails(p, c, f, h)
           \/ Appends(p, c, f, h) \/ Renames(p, c, f, h)
    BY <1>1, <1>3, <1>4, <1>5, StepContent
  <1>8. ~Keeps("club_users")
    <2>1. Keeps("club_users") => (Member(u)' <=> Member(u))
      BY SeekKeeps DEF Member
    <2>2. Member(u) \in BOOLEAN /\ Member(u)' \in BOOLEAN
      BY DEF Member, Seek
    <2> QED BY <1>2, <2>1, <2>2
  <1>9. f = "club_users"
    BY <1>7, <1>8, PathsAre
  <1>10. c.word = Spelling[Who(p)] /\ c.tail \in Tails(now) /\ c.word \in Word
    BY <1>3, <1>4, <1>6, <1>9, PathsAre DEF Fits, CallSet
  <1>11. Spelling[u] # c.word
    BY <1>2, <1>6, <1>10, NameListsAssumption
  <1>12. path[f] # NoFile /\ Content(f) = text[path[f]] /\ Content(f) \in TextSet(now)
    BY <1>1, <1>9, ContentIs DEF Base, Seated, Content
  <1>13. ~(Has(Content(f)', Spelling[u]) <=> Has(Content(f), Spelling[u]))
    BY <1>2, <1>9 DEF Member, Seek, Has
  <1>14. ~Keeps(f)
    BY <1>8, <1>9
  <1>15. CASE Appends(p, c, f, h)
    <2>1. path[f] = h.fd /\ h.at = "buffered"
          /\ Content(f)' = Appended(Content(f), Line(c.word, c.tail))
      BY <1>14, <1>15 DEF Appends
    <2>2. Content(f).rest # <<>>
      BY <1>1, <1>10, <1>11, <1>12, <1>13, <2>1, HasAppended
    <2> QED BY <1>5, <1>12, <2>1, <2>2
  <1>16. CASE Renames(p, c, f, h)
    <2>1. h.at = "copied" /\ Content(f)' = Without(h.src, c.word)
      BY <1>16 DEF Renames
    <2>2. h.src \in TextSet(now) /\ Occurrences(h.src, c.word) # {}
      BY <1>1, <1>3, <1>5, <2>1, HandIs DEF HandsOK
    <2>3. ASSUME ~Glued(p), ~Overtaken(p) PROVE FALSE
      <3>1. Stub(h.src, c.word) = <<>>
        BY <1>3, <1>5, <2>3 DEF Glued
      <3>2. Content(f) = h.src
        BY <1>3, <1>4, <1>5, <1>12, <2>3 DEF Overtaken
      <3> QED BY <1>1, <1>10, <1>11, <1>13, <2>1, <2>2, <3>1, <3>2, HasWithout
    <2> QED BY <1>5, <2>1, <2>3
  <1> QED BY <1>7, <1>14, <1>15, <1>16 DEF GoesOn, Fails

\* A call made for one user changes the membership of another only when the
\* removed id is the end of a longer line, when the file has lost its last
\* newline, or when the copy renamed over the list is older than the list
\* (ytht_del_from_file, ytht_add_to_file).
THEOREM BystandersKeptHolds == Spec => BystandersKept
  <1> DEFINE A(p) == /\ todo[p] # <<>>
                     /\ Bystanders(p) # {} /\ hand'[p] # hand[p]
                     => \/ hand[p].at = "copied" /\ (Glued(p) \/ Overtaken(p))
                        \/ hand[p].at = "buffered" /\ text[hand[p].fd].rest # <<>>
  <1>1. Base /\ [Next]_vars => [\A p \in Managers : A(p)]_vars
    <2> SUFFICES ASSUME Base, Next, NEW p \in Managers, todo[p] # <<>>, Bystanders(p) # {},
                        hand'[p] # hand[p]
                 PROVE  \/ hand[p].at = "copied" /\ (Glued(p) \/ Overtaken(p))
                        \/ hand[p].at = "buffered" /\ text[hand[p].fd].rest # <<>>
      OBVIOUS
    <2>1. p \in Procs /\ hand \in [Procs -> HandSet(now)]
      BY NameListsAssumption DEF Base, CallsOK
    <2>2. ~UNCHANGED files
      <3>1. ASSUME UNCHANGED files PROVE \A u : Member(u)' = Member(u)
        BY <3>1 DEF files, Member, Seek, Content
      <3> QED BY <3>1 DEF Bystanders
    <2>3. ASSUME NEW q \in Managers, Ask(q) \/ Decline(q) \/ Confirm(q) \/ Finish(q) \/ Hang(q)
          PROVE  FALSE
      BY <2>2, <2>3 DEF Ask, Decline, Confirm, Finish, Hang
    <2>4. ASSUME NEW u \in Sessions, Login(u) \/ Visit(u) PROVE FALSE
      BY <2>2, <2>4 DEF Login, Visit
    <2>5. ASSUME NEW w \in Web, WebLoad(w) \/ WebEmpty(w) \/ WebWrite(w) \/ WebKilled(w)
          PROVE  FALSE
      BY <2>5, WebKeeps DEF calls
    <2>6. ~Cron /\ ~Tick
      BY CronKeeps DEF calls, Tick
    <2>7. PICK q \in Procs : Step(q)
      BY <2>3, <2>4, <2>5, <2>6 DEF Next
    <2>8. q = p
      <3>1. PICK h : h = hand[q]
        OBVIOUS
      <3>2. PICK c : c = Head(todo[q])
        OBVIOUS
      <3>3. PICK f : f = c.file
        OBVIOUS
      <3>4. \A r \in Procs \ {q} : hand'[r] = hand[r]
        BY <2>7, <3>1, <3>2, <3>3, StepContent
      <3> QED BY <2>1, <3>4
    <2> QED BY <2>7, <2>8, BystanderStep
  <1> QED BY <1>1, AlwaysBase, PTL DEF Spec, BystandersKept

-----------------------------------------------------------------------------
(* The denials                                                             *)

\* What a step of a call does to the inodes.
LEMMA StepInodes ==
  ASSUME Base, NEW p \in Procs, Step(p), NEW c, c = Head(todo[p]), NEW f, f = c.file,
         NEW h, h = hand[p]
  PROVE  /\ \A i \in 1 .. Len(text) :
              \/ text'[i] = text[i]
              \/ /\ h.at = "buffered" /\ c.op = "add" /\ i = h.fd
                 /\ text'[i] = Appended(text[i], Line(c.word, c.tail))
         /\ \A i \in 1 .. Len(text') :
              i \notin 1 .. Len(text) => text'[i] = Text(<<>>) \/ h.at = "copied"
         /\ \A g \in Paths : path'[g] = path[g] \/ (g = f /\ (path[g] = NoFile \/ h.at = "copied"))
         /\ hand'[p].at = "copied" =>
              h.at = "opened" /\ Occurrences(text[h.fd], c.word) # {}
  <1> DEFINE n == Len(text)
  <1>1. /\ CallStep(p) /\ todo[p] # <<>> /\ (Moves(p) \/ Ends(p))
        /\ c \in CallSet(now) /\ f \in Paths /\ now' = now
    BY StepIs
  <1>2. FilesOK /\ CallsOK /\ HandsOK /\ now \in Nat /\ now \in 1 .. now
    BY DEF Base, FilesOK
  <1>3. /\ n \in Nat /\ path \in [Paths -> 0 .. n] /\ DOMAIN text = 1 .. n
        /\ \A i \in 1 .. n : text[i] \in TextSet(now)
    BY <1>2, FilesAre DEF FilesOK
  <1>4. hand \in [Procs -> HandSet(now)] /\ hand'[p] \in HandSet(now)
    BY <1>1, <1>2, MovedCalls DEF CallsOK
  <1>5. h.at # "out" => h.fd \in 1 .. n
    BY <1>2 DEF HandsOK
  <1>6. h.at = "copied" => /\ h.src \in TextSet(now) /\ h.mtime \in 1 .. now
                           /\ c.word \in Word /\ Occurrences(h.src, c.word) # {}
    <2>1. h \in HandSet(now) /\ c.word \in Word
      BY <1>1, <1>4 DEF CallSet
    <2>2. h.src \in TextSet(now) /\ h.mtime \in 0 .. now
      BY <1>2, <2>1, HandIs
    <2> QED BY <1>2, <2>1, <2>2 DEF HandsOK
  <1>7. ASSUME NEW r, Returns(p, r) PROVE hand'[p].at # "copied"
    BY <1>4, <1>7 DEF Returns, NoHand
  <1>8. ASSUME NEW got, Goes(p, got) PROVE hand'[p] = got
    BY <1>4, <1>8 DEF Goes
  <1>9. ASSUME UNCHANGED files
        PROVE  /\ \A i \in 1 .. Len(text) : text'[i] = text[i]
               /\ \A i \in 1 .. Len(text') : i \in 1 .. Len(text)
               /\ \A g \in Paths : path'[g] = path[g]
    BY <1>9 DEF files
  <1>10. ASSUME NEW txt \in TextSet(now), NEW m \in 1 .. now, NewInode(f, txt, m)
         PROVE  /\ \A i \in 1 .. Len(text) : text'[i] = text[i]
                /\ \A i \in 1 .. Len(text') : i \notin 1 .. Len(text) => text'[i] = txt
                /\ \A g \in Paths : path'[g] = path[g] \/ g = f
    <2>1. /\ \A i \in 1 .. n : text'[i] = text[i]
          /\ text'[n + 1] = txt /\ Len(text') = n + 1
          /\ path' = [path EXCEPT ![f] = n + 1]
      BY <1>1, <1>2, <1>10, PlacedIs
    <2>2. \A g \in Paths : path'[g] = path[g] \/ g = f
      BY <1>3, <2>1
    <2> DEFINE m2 == Len(text')
    <2> HIDE DEF n, m2
    <2>3. m2 = n + 1
      BY <2>1 DEF m2
    <2>4. \A i \in 1 .. m2 : i \notin 1 .. n => i = n + 1
      BY <1>3, <2>3
    <2> QED BY <2>1, <2>2, <2>4 DEF n, m2
  <1> HIDE DEF n
  <1>11. CASE AddOpen(p)
    <2>1. /\ Goes(p, [NoHand EXCEPT !.at = "opened", !.fd = path'[f]])
          /\ \/ path[f] = NoFile /\ NewInode(f, Text(<<>>), now)
             \/ UNCHANGED files
      BY <1>11 DEF AddOpen
    <2>2. hand'[p].at # "copied"
      <3>1. \A x : [NoHand EXCEPT !.at = "opened", !.fd = x].at = "opened"
        BY DEF NoHand
      <3> QED BY <1>8, <2>1, <3>1
    <2>3. Text(<<>>) \in TextSet(now)
      BY <1>2, NoHandIs
    <2> QED BY <1>2, <1>9, <1>10, <2>1, <2>2, <2>3
  <1>12. CASE AddLock(p)
    <2>1. Goes(p, [h EXCEPT !.at = "buffered"]) /\ UNCHANGED files
      BY <1>12 DEF AddLock
    <2>2. [h EXCEPT !.at = "buffered"].at = "buffered"
      <3>1. h \in HandSet(now)
        BY <1>4
      <3> QED BY <1>2, <3>1, BufferedHand
    <2> QED BY <1>8, <1>9, <2>1, <2>2
  <1>13. CASE AddWrite(p)
    <2> DEFINE new == Appended(text[h.fd], Line(c.word, c.tail))
    <2>1. /\ Returns(p, 1) /\ h.at = "buffered" /\ c.op = "add" /\ path' = path
          /\ text' = [text EXCEPT ![h.fd] = new] /\ stamp' = [stamp EXCEPT ![h.fd] = now]
          /\ lock' = lock
      <3>1. text' = [text EXCEPT ![h.fd] = Appended(@, Line(c.word, c.tail))]
        BY <1>13 DEF AddWrite
      <3>2. text' = [text EXCEPT ![h.fd] = new]
        BY <3>1
      <3> QED BY <1>13, <3>2 DEF AddWrite, Calling
    <2>2. h.fd \in 1 .. n /\ new \in TextSet(now)
      <3>1. h.fd \in 1 .. n /\ c.word \in Word /\ c.tail \in Tails(now)
        BY <1>1, <1>5, <2>1 DEF CallSet
      <3> QED BY <1>2, <1>3, <3>1, AppendedText
    <2> HIDE DEF new
    <2>3. Rewritten(h.fd, new)
      BY <2>1 DEF Rewritten
    <2>4. /\ Len(text') = Len(text)
          /\ \A i \in 1 .. Len(text) : text'[i] = IF i = h.fd THEN new ELSE text[i]
      BY <1>2, <2>2, <2>3, RewrittenIs DEF n
    <2>5. hand'[p].at # "copied"
      BY <1>7, <2>1
    <2> QED BY <2>1, <2>4, <2>5 DEF new
  <1>14. CASE DelOpen(p)
    <2>1. Goes(p, [NoHand EXCEPT !.at = "opened", !.fd = path[f]]) /\ UNCHANGED files
      BY <1>14 DEF DelOpen
    <2>2. [NoHand EXCEPT !.at = "opened", !.fd = path[f]].at = "opened"
      BY DEF NoHand
    <2> QED BY <1>8, <1>9, <2>1, <2>2
  <1>15. CASE DelCopy(p)
    <2>1. h.at = "opened" /\ Occurrences(text[h.fd], c.word) # {} /\ UNCHANGED files
      BY <1>15 DEF DelCopy, Calling
    <2> QED BY <1>9, <2>1
  <1>16. CASE DelFails(p) \/ DelRenameFails(p)
    <2>1. UNCHANGED files /\ \E r : Returns(p, r)
      BY <1>16 DEF DelFails, DelRenameFails
    <2> QED BY <1>7, <1>9, <2>1
  <1>17. CASE DelRename(p)
    <2> DEFINE new == Without(h.src, c.word)
    <2>1. Returns(p, 1) /\ h.at = "copied" /\ NewInode(f, new, h.mtime)
      BY <1>17 DEF DelRename, Calling
    <2>2. new \in TextSet(now) /\ h.mtime \in 1 .. now
      BY <1>2, <1>6, <2>1, WithoutIs
    <2> HIDE DEF new
    <2> QED BY <1>7, <1>10, <2>1, <2>2
  <1> QED BY <1>1, <1>11, <1>12, <1>13, <1>14, <1>15, <1>16, <1>17 DEF CallStep

LEMMA DatedSet ==
  ASSUME NEW lines
  PROVE  Dated(lines) <=> \A line \in ToSet(lines) : line.tail # Bare
  BY DEF Dated, ToSet

\* No line of denials is only a word: nothing in it is ever found or removed.
LEMMA CleanIs ==
  ASSUME NEW txt, Clean(txt), NEW w
  PROVE  Occurrences(txt, w) = {}
  BY DEF Clean, Occurrences, EndsIn

LEMMA CleanEmpty == Clean(Text(<<>>))
  BY DEF Clean, Text

LEMMA CleanAppended ==
  ASSUME NEW t \in Nat, NEW txt \in TextSet(t), Clean(txt), NEW w \in Word, NEW e \in Tails(t)
  PROVE  LET new == Appended(txt, Line(w, e)) IN
         /\ new.lines = Append(txt.lines, Line(w, e)) /\ Line(w, e) \in LineSet(t)
         /\ ToSet(new.lines) = ToSet(txt.lines) \cup {Line(w, e)}
         /\ e # Bare => Clean(new)
  <1> DEFINE new == Appended(txt, Line(w, e))
             line == Line(w, e)
  <1>1. txt.rest = <<>>
    BY DEF Clean
  <1>2. txt.rest \o w = w
    <2>1. <<>> \in Seq(STRING)
      OBVIOUS
    <2> QED BY <1>1, <2>1, JoinWords
  <1>3. new.rest = <<>> /\ new.lines = Append(txt.lines, line) /\ line \in LineSet(t)
    <2> DEFINE r == txt.rest \o w
    <2>1. new.rest = <<>> /\ new.lines = Append(txt.lines, Line(r, e)) /\ Line(r, e) \in LineSet(t)
      BY AppendedText
    <2>2. r = w
      BY <1>2
    <2> HIDE DEF r, new
    <2> QED BY <2>1, <2>2
  <1>4. txt.lines \in Seq(LineSet(t))
    BY DEF TextSet
  <1>5. line.tail = e
    BY DEF Line
  <1> HIDE DEF new, line
  <1>6. ToSet(new.lines) = ToSet(txt.lines) \cup {line}
    BY <1>3, <1>4, AppendSet
  <1>7. \A l \in ToSet(txt.lines) : l.tail # Bare
    BY DatedSet DEF Clean, Dated
  <1>8. e # Bare => Dated(new.lines)
    BY <1>5, <1>6, <1>7, DatedSet
  <1> QED BY <1>3, <1>6, <1>8 DEF Clean, Dated, new, line

LEMMA DenyStep ==
  ASSUME Base, DenyInv, NEW p \in Procs, Step(p)
  PROVE  DenyInv'
  <1>1. PICK c \in CallSet(now) : c = Head(todo[p])
    BY StepIs
  <1>2. PICK f \in Paths : f = c.file
    BY <1>1 DEF CallSet
  <1>3. PICK h : h = hand[p]
    OBVIOUS
  <1>4. /\ todo[p] # <<>> /\ web' = web /\ cron' = cron /\ FilesOK /\ HandsOK /\ CallsOK
        /\ CronOK /\ Apart /\ Touches(p) /\ (Moves(p) \/ Ends(p)) /\ now \in Nat
        /\ Fits(c, Who(p)) /\ Who(p) \in Users
    BY <1>1, StepIs DEF Base, FilesOK
  <1>5. /\ \/ GoesOn(p, c, f, h) \/ Fails(p, c, f, h)
           \/ Appends(p, c, f, h) \/ Renames(p, c, f, h)
        /\ \A q \in Procs \ {p} : todo'[q] = todo[q] /\ hand'[q] = hand[q]
    BY <1>1, <1>2, <1>3, StepContent
  <1>6. /\ \A i \in 1 .. Len(text) :
             \/ text'[i] = text[i]
             \/ /\ h.at = "buffered" /\ c.op = "add" /\ i = h.fd
                /\ text'[i] = Appended(text[i], Line(c.word, c.tail))
        /\ \A i \in 1 .. Len(text') :
             i \notin 1 .. Len(text) => text'[i] = Text(<<>>) \/ h.at = "copied"
        /\ \A g \in Paths : path'[g] = path[g] \/ (g = f /\ (path[g] = NoFile \/ h.at = "copied"))
        /\ hand'[p].at = "copied" =>
             h.at = "opened" /\ Occurrences(text[h.fd], c.word) # {}
    BY <1>1, <1>2, <1>3, StepInodes
  <1>7. /\ \A i \in 1 .. Len(text), g \in Paths : Holds(i, g)' => Holds(i, g)
        /\ \A i \in 1 .. Len(text'), g \in Paths :
             i \notin 1 .. Len(text) /\ Holds(i, g)' => g = f
    BY <1>1, <1>2, <1>4, StepApart
  <1>8. h.at # "out" => h.fd \in 1 .. Len(text) /\ Holds(h.fd, f)
    <2>1. h.at # "out" => HeldBy(p, h.fd, f)
      BY <1>1, <1>2, <1>3 DEF HeldBy
    <2> QED BY <1>3, <1>4, <2>1 DEF HandsOK, Holds
  <1>9. "deny_users" \in Paths
    BY PathsAre
  <1>10. f = "deny_users" => h.at # "copied"
    BY <1>1, <1>2, <1>3 DEF DenyInv
  <1>11. \A i \in 1 .. Len(text) : Holds(i, "deny_users") => Clean(text[i])
    BY DEF DenyInv
  <1>12. ASSUME NEW i \in 1 .. Len(text'), Holds(i, "deny_users")' PROVE Clean(text'[i])
    <2>1. CASE i \notin 1 .. Len(text)
      BY <1>6, <1>7, <1>9, <1>10, <1>12, <2>1, CleanEmpty
    <2>2. CASE i \in 1 .. Len(text)
      <3>1. Holds(i, "deny_users") /\ Clean(text[i]) /\ text[i] \in TextSet(now)
        BY <1>4, <1>7, <1>9, <1>11, <1>12, <2>2, FilesAre
      <3>2. CASE text'[i] = text[i]
        BY <3>1, <3>2
      <3>3. CASE /\ h.at = "buffered" /\ c.op = "add" /\ i = h.fd
                 /\ text'[i] = Appended(text[i], Line(c.word, c.tail))
        <4>1. f = "deny_users"
          BY <1>4, <1>8, <1>9, <2>2, <3>1, <3>3 DEF Apart
        <4>2. c.tail # Bare
          BY <1>2, <1>4, <3>3, <4>1, PathsAre DEF Fits
        <4>3. c.word \in Word /\ c.tail \in Tails(now)
          BY DEF CallSet
        <4> QED BY <1>4, <3>1, <3>3, <4>2, <4>3, CleanAppended
      <3> QED BY <1>6, <2>2, <3>2, <3>3
    <2> QED BY <2>1, <2>2
  <1>13. ASSUME NEW q \in Procs, hand'[q].at = "copied", Head(todo'[q]).file = "deny_users"
         PROVE  FALSE
    <2>1. CASE q # p
      BY <1>5, <1>13, <2>1 DEF DenyInv
    <2>2. CASE q = p
      <3>1. GoesOn(p, c, f, h)
        BY <1>5, <1>13, <2>2 DEF Fails, Appends, Renames, NoHand
      <3>2. f = "deny_users"
        BY <1>1, <1>2, <1>13, <2>2, <3>1 DEF GoesOn
      <3>3. Clean(text[h.fd])
        BY <1>6, <1>8, <1>11, <1>13, <2>2, <3>2
      <3> QED BY <1>6, <1>13, <2>2, <3>3, CleanIs
    <2> QED BY <2>1, <2>2
  <1> QED BY <1>4, <1>12, <1>13 DEF DenyInv

\* The list of denials is what it was, or one line longer.
LEMMA StepDenials ==
  ASSUME Base, DenyInv, NEW p \in Procs, Step(p)
  PROVE  /\ Content("deny_users")'.lines = Content("deny_users").lines
            \/ \E line \in Added(p) \cap LineSet(now) :
                 Content("deny_users")'.lines = Append(Content("deny_users").lines, line)
         /\ path["deny_users"] # NoFile => path'["deny_users"] = path["deny_users"]
         /\ missed' = [a \in DOMAIN missed |-> missed[a] \cup Added(p)]
  <1>1. PICK c \in CallSet(now) : c = Head(todo[p])
    BY StepIs
  <1>2. PICK f \in Paths : f = c.file
    BY <1>1 DEF CallSet
  <1>3. PICK h : h = hand[p]
    OBVIOUS
  <1>4. FilesOK /\ now \in Nat /\ "deny_users" \in Paths
    BY PathsAre DEF Base, FilesOK
  <1>5. /\ \A g \in Paths : g # f => Keeps(g)
        /\ \/ GoesOn(p, c, f, h) \/ Fails(p, c, f, h)
           \/ Appends(p, c, f, h) \/ Renames(p, c, f, h)
    BY <1>1, <1>2, <1>3, StepContent
  <1>6. missed' = [a \in DOMAIN missed |-> missed[a] \cup Added(p)]
    BY DEF Step, Misses
  <1>7. CASE Keeps("deny_users")
    BY <1>6, <1>7 DEF Keeps
  <1>8. CASE ~Keeps("deny_users")
    <2>1. f = "deny_users"
      BY <1>4, <1>5, <1>8
    <2>2. ~Renames(p, c, f, h)
      BY <1>1, <1>2, <1>3, <2>1 DEF Renames, DenyInv
    <2>3. Appends(p, c, f, h)
      BY <1>5, <1>8, <2>1, <2>2 DEF GoesOn, Fails
    <2>4. /\ h.at = "buffered" /\ path["deny_users"] = h.fd /\ path'["deny_users"] = path["deny_users"]
          /\ Content("deny_users")' = Appended(Content("deny_users"), Line(c.word, c.tail))
      BY <1>8, <2>1, <2>3 DEF Appends
    <2>5. Clean(Content("deny_users")) /\ Content("deny_users") \in TextSet(now)
      <3>1. path["deny_users"] # NoFile => path["deny_users"] \in 1 .. Len(text)
        BY <1>4, FilesAre DEF NoFile
      <3>2. path["deny_users"] # NoFile => Clean(text[path["deny_users"]])
        BY <3>1 DEF DenyInv, Holds
      <3> QED BY <1>4, <3>2, ContentIs, CleanEmpty DEF Content
    <2>6. c.word \in Word /\ c.tail \in Tails(now)
      BY DEF CallSet
    <2>7. /\ Content("deny_users")'.lines = Append(Content("deny_users").lines, Line(c.word, c.tail))
          /\ Line(c.word, c.tail) \in LineSet(now)
      BY <1>4, <2>4, <2>5, <2>6, CleanAppended
    <2>8. Line(c.word, c.tail) \in Added(p)
      BY <1>1, <1>3, <2>4 DEF Added
    <2> QED BY <1>6, <2>4, <2>7, <2>8
  <1> QED BY <1>7, <1>8

LEMMA ExcusedKept ==
  ASSUME NEW v \in Web, web'[v] = web[v], missed[v] \subseteq missed'[v], NEW line, Excused(v, line)
  PROVE  Excused(v, line)'
  BY DEF Excused, Brimful

\* autoundeny holds the inode of the list, so the path leads to one.
LEMMA CronFd ==
  ASSUME Base, CronInv, cron.at # "out"
  PROVE  cron.fd = path["deny_users"] /\ cron.fd \in 1 .. Len(text) /\ path["deny_users"] # NoFile
  BY DEF CronInv, Base, CronOK, NoFile

LEMMA WebCronStep ==
  ASSUME Base, DenyInv, WebInv, CronInv, NEW p \in Procs, Step(p)
  PROVE  WebInv' /\ CronInv'
  <1> DEFINE L  == Content("deny_users").lines
             L1 == Content("deny_users")'.lines
             S  == LineSet(now)
  <1>1. /\ L1 = L \/ \E line \in Added(p) \cap S : L1 = Append(L, line)
        /\ path["deny_users"] # NoFile => path'["deny_users"] = path["deny_users"]
        /\ missed' = [a \in DOMAIN missed |-> missed[a] \cup Added(p)]
    BY StepDenials
  <1>2. \A a \in Web \cup {"cron"} : missed'[a] = missed[a] \cup Added(p)
    BY <1>1 DEF Base, RestOK
  <1>3. web' = web /\ cron' = cron
    BY StepIs
  <1>4. L \in Seq(S)
    BY PathsAre, ContentIs DEF Base
  <1>5. Denials = ToSet(L) /\ Denials' = ToSet(L1)
    BY DEF Denials
  <1>6. CronInv <=>
          /\ cron.at # "out" => cron.fd = path["deny_users"]
          /\ cron.at = "stat" => \A k \in cron.size + 1 .. Len(L) : L[k] \in missed["cron"]
          /\ cron.at = "read" =>
               \A line \in ToSet(L) : \/ line \in ToSet(cron.keep) \/ Lapsed(line, cron.nowtime)
                                      \/ line \in missed["cron"]
    BY <1>5 DEF CronInv
  <1>7. CronInv' <=>
          /\ cron.at # "out" => cron.fd = path'["deny_users"]
          /\ cron.at = "stat" => \A k \in cron.size + 1 .. Len(L1) : L1[k] \in missed'["cron"]
          /\ cron.at = "read" =>
               \A line \in ToSet(L1) : \/ line \in ToSet(cron.keep) \/ Lapsed(line, cron.nowtime)
                                       \/ line \in missed'["cron"]
    BY <1>3, <1>5 DEF CronInv, Lapsed, Timed
  <1> HIDE DEF L, L1, S
  <1>8. /\ ToSet(L1) \subseteq ToSet(L) \cup Added(p)
        /\ \A k \in 1 .. Len(L1) : (k \in 1 .. Len(L) /\ L1[k] = L[k]) \/ L1[k] \in Added(p)
    <2>1. CASE L1 = L
      BY <2>1
    <2>2. CASE \E line \in Added(p) \cap S : L1 = Append(L, line)
      <3>1. PICK line \in Added(p) \cap S : L1 = Append(L, line)
        BY <2>2
      <3>2. ToSet(L1) = ToSet(L) \cup {line}
        BY <1>4, <3>1, AppendSet
      <3>3. /\ Len(L1) = Len(L) + 1 /\ \A k \in 1 .. Len(L) : L1[k] = L[k]
            /\ L1[Len(L) + 1] = line
        BY <1>4, <3>1, AppendProperties
      <3>4. Len(L) \in Nat
        BY <1>4, LenProperties
      <3> DEFINE n == Len(L)
                 m == Len(L1)
      <3> HIDE DEF n, m
      <3>5. n \in Nat /\ m = n + 1
        BY <3>3, <3>4 DEF n, m
      <3>6. \A k \in 1 .. m : k \in 1 .. n \/ k = n + 1
        BY <3>5
      <3> QED BY <3>1, <3>2, <3>3, <3>6 DEF n, m
    <2> QED BY <1>1, <2>1, <2>2
  <1>9. WebInv'
    <2> SUFFICES ASSUME NEW w \in Web, web[w].at # "out", NEW line \in ToSet(L1)
                 PROVE  Excused(w, line)'
      BY <1>3, <1>5 DEF WebInv
    <2>1. missed'[w] = missed[w] \cup Added(p)
      BY <1>2
    <2>2. CASE line \in Added(p)
      BY <2>1, <2>2 DEF Excused
    <2>3. CASE line \in ToSet(L)
      <3>1. Excused(w, line)
        BY <1>5, <2>3 DEF WebInv
      <3> QED BY <1>3, <2>1, <3>1, ExcusedKept
    <2> QED BY <1>8, <2>2, <2>3
  <1>10. ASSUME cron.at # "out" PROVE cron.fd = path'["deny_users"]
    BY <1>1, <1>10, CronFd
  <1>11. ASSUME cron.at = "stat", NEW k \in cron.size + 1 .. Len(L1) PROVE L1[k] \in missed'["cron"]
    <2>1. cron.size \in Nat
      BY CronIs DEF Base
    <2> DEFINE n == Len(L)
               m == Len(L1)
               z == cron.size
    <2>2. z \in Nat /\ n \in Nat /\ k \in z + 1 .. m /\ m \in Nat
      <3>1. m \in Nat
        BY <1>1, <1>4, LenProperties, AppendProperties
      <3> QED BY <1>4, <2>1, <3>1, LenProperties
    <2> HIDE DEF n, m, z
    <2>3. k \in 1 .. m /\ (k \in 1 .. n => k \in z + 1 .. n)
      BY <2>2
    <2>4. CASE k \in 1 .. n /\ L1[k] = L[k]
      <3>1. L[k] \in missed["cron"]
        BY <1>6, <1>11, <2>3, <2>4 DEF n, z
      <3> QED BY <1>2, <2>4, <3>1
    <2> QED BY <1>2, <1>8, <2>3, <2>4 DEF n, m
  <1>12. ASSUME cron.at = "read", NEW line \in ToSet(L1)
         PROVE  \/ line \in ToSet(cron.keep) \/ Lapsed(line, cron.nowtime)
                \/ line \in missed'["cron"]
    BY <1>2, <1>6, <1>8, <1>12
  <1> QED BY <1>7, <1>9, <1>10, <1>11, <1>12

DenialsInv == DenyInv /\ WebInv /\ CronInv

\* Nobody touches a file, and no call goes on.
LEMMA DenyIdle ==
  ASSUME DenialsInv, UNCHANGED <<files, web, cron, missed>>,
         \A q \in Procs : hand'[q].at # "out" => hand'[q] = hand[q] /\ todo'[q] = todo[q]
  PROVE  DenialsInv'
  <1>1. /\ path' = path /\ text' = text /\ web' = web /\ cron' = cron /\ missed' = missed
        /\ Content("deny_users")' = Content("deny_users")
    BY DEF files, Content
  <1>2. \A i : Holds(i, "deny_users")' => Holds(i, "deny_users")
    <2>1. \A q \in Procs : \A i : HeldBy(q, i, "deny_users")' => HeldBy(q, i, "deny_users")
      BY DEF HeldBy
    <2> QED BY <1>1, <2>1 DEF Holds
  <1>3. DenyInv'
    BY <1>1, <1>2 DEF DenialsInv, DenyInv
  <1>4. WebInv'
    BY <1>1 DEF DenialsInv, WebInv, Denials, Excused, Brimful
  <1>5. CronInv'
    BY <1>1 DEF DenialsInv, CronInv, Denials, Lapsed, Timed
  <1> QED BY <1>3, <1>4, <1>5 DEF DenialsInv

\* The web and cron come to hold nothing that the list was not led to by.
LEMMA OtherHolds ==
  ASSUME Base, calls' = calls,
         \/ path'["deny_users"] = path["deny_users"]
         \/ path'["deny_users"] = Len(text) + 1,
         \/ cron'.at = "out"
         \/ cron'.fd = path["deny_users"]
         \/ cron.at # "out" /\ cron'.fd = cron.fd,
         NEW i \in 1 .. Len(text), Holds(i, "deny_users")'
  PROVE  Holds(i, "deny_users")
  <1>1. todo' = todo /\ hand' = hand
    BY DEF calls
  <1>2. Len(text) \in Nat
    BY FilesAre DEF Base
  <1>3. i # Len(text) + 1
    BY <1>2
  <1>4. CASE path'["deny_users"] = i
    BY <1>3, <1>4 DEF Holds
  <1>5. CASE \E q \in Procs : HeldBy(q, i, "deny_users")'
    BY <1>1, <1>5 DEF HeldBy, Holds
  <1>6. CASE cron'.at # "out" /\ cron'.fd = i
    BY <1>6 DEF Holds
  <1> QED BY <1>4, <1>5, <1>6 DEF Holds

LEMMA DenialsClean ==
  ASSUME Base, DenyInv
  PROVE  \A line \in Denials : line.tail # Bare
  <1>1. path["deny_users"] # NoFile => path["deny_users"] \in 1 .. Len(text)
    BY FilesAre, PathsAre DEF Base, NoFile
  <1>2. path["deny_users"] # NoFile => Clean(text[path["deny_users"]])
    BY <1>1 DEF DenyInv, Holds
  <1>3. Clean(Content("deny_users"))
    BY <1>2, CleanEmpty DEF Content
  <1> QED BY <1>3, DatedSet DEF Clean, Dated, Denials

\* cron's view of a list that was rewritten by somebody who told it so.
LEMMA CronTold ==
  ASSUME CronInv, cron' = cron, FilesOK',
         cron.at # "out" => path'["deny_users"] = path["deny_users"],
         Denials' \subseteq missed'["cron"], cron.at # "out" => cron.size \in Nat
  PROVE  CronInv'
  <1> DEFINE ls == Content("deny_users")'.lines
  <1>1. cron.at # "out" => cron.fd = path'["deny_users"]
    BY DEF CronInv
  <1>2. DOMAIN ls = 1 .. Len(ls) /\ Len(ls) \in Nat
    <2>1. path'["deny_users"] # NoFile => path'["deny_users"] \in 1 .. Len(text')
      BY PathsAre, LenProperties DEF FilesOK, NoFile
    <2>2. text' \in Seq(TextSet(now'))
      BY DEF FilesOK
    <2>3. Text(<<>>) \in TextSet(now')
      BY NoHandIs DEF FilesOK
    <2>4. Content("deny_users")' \in TextSet(now')
      BY <2>1, <2>2, <2>3, ElementOfSeq DEF Content
    <2>5. ls \in Seq(LineSet(now'))
      BY <2>4 DEF TextSet
    <2> QED BY <2>5, LenProperties
  <1>3. Denials' = ToSet(ls)
    BY DEF Denials
  <1>4. CronInv' <=>
          /\ cron.at # "out" => cron.fd = path'["deny_users"]
          /\ cron.at = "stat" => \A k \in cron.size + 1 .. Len(ls) : ls[k] \in missed'["cron"]
          /\ cron.at = "read" =>
               \A line \in Denials' : \/ line \in ToSet(cron.keep) \/ Lapsed(line, cron.nowtime)
                                      \/ line \in missed'["cron"]
    BY DEF CronInv, Lapsed, Timed
  <1> HIDE DEF ls
  <1>5. ASSUME cron.at = "stat", NEW k \in cron.size + 1 .. Len(ls) PROVE ls[k] \in missed'["cron"]
    <2>1. k \in 1 .. Len(ls)
      BY <1>2, <1>5
    <2> QED BY <1>2, <1>3, <2>1 DEF ToSet
  <1> QED BY <1>1, <1>4, <1>5

LEMMA DenyWebLoad ==
  ASSUME Base, DenialsInv, NEW w \in Web, WebLoad(w)
  PROVE  DenialsInv'
  <1>1. FilesOK /\ RestOK /\ DenyInv /\ WebInv /\ CronInv
    BY DEF Base, DenialsInv
  <1>2. /\ missed' = [missed EXCEPT ![w] = {}]
        /\ UNCHANGED <<subject, files, calls, now, job, cron, mem, suspect>>
    BY <1>1, WebLoadIs
  <1>3. PICK r \in WebSet(now) :
          /\ web' = [web EXCEPT ![w] = r] /\ r.at = "loaded"
          /\ \A line \in ToSet(r.table) : line \in Denials \/ line.tail # Bare
          /\ \A line \in Denials :
               \/ line \in ToSet(r.table) \/ line.tail = Manual
               \/ r.op = "undeny" /\ line.word = Spelling[r.who]
               \/ Len(r.table) = IF r.op = "deny" THEN LoadMax + 1 ELSE LoadMax - 1
    BY <1>1, WebLoadIs
  <1>4. web'[w] = r /\ \A v \in Web \ {w} : web'[v] = web[v]
    BY <1>1, <1>3, OneWeb
  <1>5. "cron" \notin Web
    BY NameListsAssumption
  <1>6. \A a \in Web \cup {"cron"} : a # w => missed'[a] = missed[a]
    BY <1>1, <1>2 DEF RestOK
  <1>7. /\ path' = path /\ text' = text /\ cron' = cron /\ todo' = todo /\ hand' = hand
        /\ Content("deny_users")' = Content("deny_users") /\ Denials' = Denials
    BY <1>2 DEF files, calls, Content, Denials
  <1>8. \A i : Holds(i, "deny_users")' => Holds(i, "deny_users")
    BY <1>7 DEF Holds, HeldBy
  <1>9. Dated(r.table)
    BY <1>1, <1>3, DenialsClean, DatedSet
  <1>10. \A v \in Web : Dated(web'[v].table)
    BY <1>1, <1>4, <1>9 DEF DenyInv
  <1>11. DenyInv'
    BY <1>1, <1>7, <1>8, <1>10 DEF DenyInv
  <1>12. WebInv'
    <2> SUFFICES ASSUME NEW v \in Web, web'[v].at # "out", NEW line \in Denials
                 PROVE  Excused(v, line)'
      BY <1>7 DEF WebInv
    <2>1. CASE v = w
      BY <1>3, <1>4, <2>1 DEF Excused, Brimful
    <2>2. CASE v # w
      <3>1. Excused(v, line)
        BY <1>1, <1>4, <2>2 DEF WebInv
      <3> QED BY <1>4, <1>6, <2>2, <3>1, ExcusedKept
    <2> QED BY <2>1, <2>2
  <1>13. CronInv'
    <2>1. missed'["cron"] = missed["cron"]
      BY <1>5, <1>6
    <2> QED BY <1>1, <1>7, <2>1 DEF CronInv, Lapsed, Timed
  <1> QED BY <1>11, <1>12, <1>13 DEF DenialsInv

LEMMA DenyWebEmpty ==
  ASSUME Base, DenialsInv, NEW w \in Web, WebEmpty(w)
  PROVE  DenialsInv' /\ Denials' = {} /\ web[w].at # "out" /\ web'[w] # web[w]
  <1>1. FilesOK /\ RestOK /\ DenyInv /\ WebInv /\ CronInv /\ now \in 1 .. now
        /\ Len(text) \in Nat /\ now \in Nat
    BY FilesAre DEF Base, DenialsInv, FilesOK
  <1> DEFINE r == [web[w] EXCEPT !.at = "emptied"]
             fd == path["deny_users"]
  <1>2. /\ web[w].at = "loaded" /\ web' = [web EXCEPT ![w] = r]
        /\ UNCHANGED <<subject, calls, now, job, cron, mem, suspect>> /\ missed' = missed
        /\ \/ fd = NoFile /\ NewInode("deny_users", Text(<<>>), now)
           \/ fd # NoFile /\ Rewritten(fd, Text(<<>>))
    BY DEF WebEmpty, Rewritten, history
  <1>3. web[w] \in WebSet(now)
    BY <1>1, WebIs
  <1>4. r \in WebSet(now) /\ r.at = "emptied" /\ r.table = web[w].table
    BY <1>3 DEF WebSet
  <1> HIDE DEF r
  <1>5. web'[w] = r /\ \A v \in Web \ {w} : web'[v] = web[v]
    BY <1>1, <1>2, <1>4, OneWeb
  <1>6. Text(<<>>) \in TextSet(now) /\ Text(<<>>).lines = <<>>
    BY <1>1, NoHandIs
  <1>7. fd # NoFile => fd \in 1 .. Len(text)
    BY <1>1, FilesAre, PathsAre DEF NoFile
  <1>8. /\ path'["deny_users"] # NoFile /\ text'[path'["deny_users"]] = Text(<<>>)
        /\ fd # NoFile => path'["deny_users"] = fd
        /\ path'["deny_users"] = fd \/ path'["deny_users"] = Len(text) + 1
        /\ \A i \in 1 .. Len(text) : text'[i] = text[i] \/ text'[i] = Text(<<>>)
        /\ \A i \in 1 .. Len(text') : i \notin 1 .. Len(text) => text'[i] = Text(<<>>)
    <2>1. CASE fd = NoFile /\ NewInode("deny_users", Text(<<>>), now)
      <3>1. /\ \A i \in 1 .. Len(text) : text'[i] = text[i]
            /\ text'[Len(text) + 1] = Text(<<>>) /\ Len(text') = Len(text) + 1
            /\ path' = [path EXCEPT !["deny_users"] = Len(text) + 1]
        BY <1>1, <1>6, <2>1, PathsAre, PlacedIs
      <3>2. path'["deny_users"] = Len(text) + 1
        BY <1>1, <3>1, PathsAre DEF FilesOK
      <3>3. \A i \in 1 .. Len(text') : i \notin 1 .. Len(text) => i = Len(text) + 1
        <4> DEFINE n == Len(text)
                   m == Len(text')
        <4>1. n \in Nat /\ m = n + 1
          BY <1>1, <3>1
        <4> HIDE DEF n, m
        <4>2. \A i \in 1 .. m : i \notin 1 .. n => i = n + 1
          BY <4>1
        <4> QED BY <4>2 DEF n, m
      <3>4. Len(text) + 1 # NoFile
        BY <1>1 DEF NoFile
      <3> QED BY <2>1, <3>1, <3>2, <3>3, <3>4
    <2>2. CASE fd # NoFile /\ Rewritten(fd, Text(<<>>))
      <3>1. /\ Len(text') = Len(text) /\ path' = path
            /\ \A i \in 1 .. Len(text) : text'[i] = IF i = fd THEN Text(<<>>) ELSE text[i]
        BY <1>1, <1>6, <1>7, <2>2, RewrittenIs
      <3> QED BY <1>7, <2>2, <3>1
    <2> QED BY <1>2, <2>1, <2>2
  <1>9. Content("deny_users")' = Text(<<>>)
    BY <1>8 DEF Content
  <1>10. Denials' = {}
    BY <1>6, <1>9 DEF Denials, ToSet
  <1>11. \A i \in 1 .. Len(text) : Holds(i, "deny_users")' => Holds(i, "deny_users")
    BY <1>2, <1>8, OtherHolds
  <1>12. \A i \in 1 .. Len(text') : Holds(i, "deny_users")' => Clean(text'[i])
    <2> SUFFICES ASSUME NEW i \in 1 .. Len(text'), Holds(i, "deny_users")' PROVE Clean(text'[i])
      OBVIOUS
    <2>1. CASE i \in 1 .. Len(text)
      BY <1>1, <1>8, <1>11, <2>1, CleanEmpty DEF DenyInv
    <2>2. CASE i \notin 1 .. Len(text)
      BY <1>8, <2>2, CleanEmpty
    <2> QED BY <2>1, <2>2
  <1>13. DenyInv'
    <2>1. \A v \in Web : Dated(web'[v].table)
      BY <1>1, <1>4, <1>5 DEF DenyInv
    <2>2. todo' = todo /\ hand' = hand /\ cron' = cron
      BY <1>2 DEF calls
    <2> QED BY <1>1, <1>12, <2>1, <2>2 DEF DenyInv
  <1>14. WebInv'
    BY <1>10 DEF WebInv
  <1>15. CronInv'
    <2>1. FilesOK'
      BY WebStep DEF Base
    <2>2. cron.at # "out" => path'["deny_users"] = path["deny_users"]
      BY <1>1, <1>8, CronFd
    <2>3. cron.size \in Nat
      BY <1>1, CronIs
    <2> QED BY <1>1, <1>2, <1>10, <2>1, <2>2, <2>3, CronTold
  <1>16. web'[w] # web[w]
    BY <1>2, <1>4, <1>5
  <1> QED BY <1>2, <1>10, <1>13, <1>14, <1>15, <1>16 DEF DenialsInv

LEMMA DenyWebWrite ==
  ASSUME Base, DenialsInv, NEW w \in Web, WebWrite(w)
  PROVE  DenialsInv' /\ web[w].at # "out" /\ web'[w] # web[w]
  <1> DEFINE fd  == path["deny_users"]
             table == web[w].table
             new == [lines |-> Overlaid(text[fd].lines, table), rest |-> text[fd].rest]
  <1>1. FilesOK /\ RestOK /\ DenyInv /\ WebInv /\ CronInv
    BY DEF Base, DenialsInv
  <1>2. /\ web[w].at = "emptied" /\ fd \in 1 .. Len(text)
        /\ new \in TextSet(now) /\ Rewritten(fd, new)
        /\ web' = [web EXCEPT ![w] = NoWeb]
        /\ missed' = [a \in DOMAIN missed |-> missed[a] \cup Denials']
        /\ UNCHANGED <<subject, now, calls, job, cron, mem, suspect>>
    BY WebWriteIs
  <1>3. Clean(new)
    <2>1. Clean(text[fd]) /\ text[fd] \in TextSet(now)
      BY <1>1, <1>2, FilesAre DEF DenyInv, Holds
    <2>2. text[fd].lines \in Seq(LineSet(now)) /\ table \in Seq(LineSet(now))
      BY <1>1, <2>1, WebIs DEF TextSet
    <2> DEFINE old == text[fd].lines
               ls == Overlaid(old, table)
    <2>3. Dated(old) /\ Dated(table) /\ new.rest = <<>> /\ new.lines = ls
      BY <1>1, <2>1 DEF Clean, Dated, DenyInv
    <2> HIDE DEF old, table, new
    <2>4. ToSet(ls) \subseteq ToSet(table) \cup ToSet(old)
      BY <2>2, OverlaidIs DEF old
    <2> HIDE DEF ls
    <2>5. Dated(ls)
      BY <2>3, <2>4, DatedSet
    <2> QED BY <2>3, <2>5 DEF Clean, Dated
  <1> HIDE DEF new, table
  <1>4. NoWeb.at = "out" /\ NoWeb.table = <<>> /\ NoWeb \in WebSet(now)
    BY <1>1, WebIs
  <1>5. web'[w] = NoWeb /\ \A v \in Web \ {w} : web'[v] = web[v]
    BY <1>1, <1>2, <1>4, OneWeb
  <1>6. /\ Len(text') = Len(text) /\ path' = path
        /\ \A i \in 1 .. Len(text) : text'[i] = IF i = fd THEN new ELSE text[i]
    BY <1>1, <1>2, RewrittenIs
  <1>7. \A i \in 1 .. Len(text) : Holds(i, "deny_users")' => Holds(i, "deny_users")
    BY <1>2, <1>6, OtherHolds
  <1>8. \A i \in 1 .. Len(text') : Holds(i, "deny_users")' => Clean(text'[i])
    BY <1>1, <1>3, <1>6, <1>7 DEF DenyInv
  <1>9. DenyInv'
    <2>1. Dated(<<>>)
      BY DEF Dated
    <2>2. \A v \in Web : Dated(web'[v].table)
      BY <1>1, <1>4, <1>5, <2>1 DEF DenyInv
    <2>3. todo' = todo /\ hand' = hand /\ cron' = cron
      BY <1>2 DEF calls
    <2> QED BY <1>1, <1>8, <2>2, <2>3 DEF DenyInv
  <1>10. \A a \in Web \cup {"cron"} : missed'[a] = missed[a] \cup Denials'
    BY <1>1, <1>2 DEF RestOK
  <1>11. WebInv'
    BY <1>10 DEF WebInv, Excused
  <1>12. CronInv'
    <2>1. FilesOK'
      BY WebStep DEF Base
    <2>2. cron.size \in Nat
      BY <1>1, CronIs
    <2> QED BY <1>1, <1>2, <1>6, <1>10, <2>1, <2>2, CronTold
  <1>13. web'[w] # web[w]
    BY <1>2, <1>4, <1>5
  <1> QED BY <1>2, <1>9, <1>11, <1>12, <1>13 DEF DenialsInv

LEMMA DenyWebKilled ==
  ASSUME Base, DenialsInv, NEW w \in Web, WebKilled(w)
  PROVE  DenialsInv'
  <1>1. FilesOK /\ RestOK /\ DenyInv /\ WebInv /\ CronInv
    BY DEF Base, DenialsInv
  <1>2. /\ web' = [web EXCEPT ![w] = NoWeb] /\ missed' = missed
        /\ UNCHANGED <<files, calls, cron>>
    BY DEF WebKilled, history
  <1>3. NoWeb.at = "out" /\ NoWeb.table = <<>> /\ NoWeb \in WebSet(now)
    BY <1>1, WebIs
  <1>4. web'[w] = NoWeb /\ \A v \in Web \ {w} : web'[v] = web[v]
    BY <1>1, <1>2, <1>3, OneWeb
  <1>5. /\ path' = path /\ text' = text /\ cron' = cron /\ todo' = todo /\ hand' = hand
        /\ Content("deny_users")' = Content("deny_users") /\ Denials' = Denials
    BY <1>2 DEF files, calls, Content, Denials
  <1>6. \A i : Holds(i, "deny_users")' => Holds(i, "deny_users")
    BY <1>5 DEF Holds, HeldBy
  <1>7. Dated(<<>>)
    BY DEF Dated
  <1>8. \A v \in Web : Dated(web'[v].table)
    BY <1>1, <1>3, <1>4, <1>7 DEF DenyInv
  <1>9. DenyInv'
    BY <1>1, <1>5, <1>6, <1>8 DEF DenyInv
  <1>10. WebInv'
    <2> SUFFICES ASSUME NEW v \in Web, web'[v].at # "out", NEW line \in Denials
                 PROVE  Excused(v, line)'
      BY <1>5 DEF WebInv
    <2>1. v # w
      BY <1>3, <1>4
    <2>2. Excused(v, line)
      BY <1>1, <1>4, <2>1 DEF WebInv
    <2> QED BY <1>2, <1>4, <2>1, <2>2, ExcusedKept
  <1>11. CronInv'
    BY <1>1, <1>2, <1>5 DEF CronInv, Lapsed, Timed
  <1> QED BY <1>9, <1>10, <1>11 DEF DenialsInv

LEMMA DenyCronStat ==
  ASSUME Base, DenialsInv, CronStat
  PROVE  DenialsInv'
  <1> DEFINE fd == path["deny_users"]
  <1>1. FilesOK /\ RestOK /\ DenyInv /\ WebInv /\ CronInv
    BY DEF Base, DenialsInv
  <1>2. /\ cron.at = "out" /\ fd \in 1 .. Len(text)
        /\ cron'.at = "stat" /\ cron'.fd = fd
        /\ cron'.size = Len(text[fd].lines) /\ cron'.keep = <<>>
        /\ missed' = [missed EXCEPT !["cron"] = {}]
        /\ UNCHANGED <<files, calls, web>>
    BY CronStatIs
  <1>3. /\ path' = path /\ text' = text /\ web' = web /\ todo' = todo /\ hand' = hand
        /\ Content("deny_users")' = Content("deny_users") /\ Denials' = Denials
    BY <1>2 DEF files, calls, Content, Denials
  <1>4. \A i \in 1 .. Len(text) : Holds(i, "deny_users")' => Holds(i, "deny_users")
    BY <1>2, <1>3, OtherHolds
  <1>5. Dated(cron'.keep)
    BY <1>2 DEF Dated
  <1>6. DenyInv'
    BY <1>1, <1>3, <1>4, <1>5 DEF DenyInv
  <1>7. WebInv'
    <2> SUFFICES ASSUME NEW v \in Web, web[v].at # "out", NEW line \in Denials
                 PROVE  Excused(v, line)'
      BY <1>3 DEF WebInv
    <2>1. Excused(v, line)
      BY <1>1 DEF WebInv
    <2>2. missed'[v] = missed[v]
      BY <1>1, <1>2, NameListsAssumption DEF RestOK
    <2> QED BY <1>3, <2>1, <2>2, ExcusedKept
  <1>8. CronInv'
    <2> DEFINE ls == text[fd].lines
    <2>1. Content("deny_users").lines = ls
      BY <1>2 DEF Content, NoFile
    <2>2. ls \in Seq(LineSet(now))
      BY <1>1, <1>2, FilesAre DEF TextSet
    <2>3. /\ cron'.fd = path'["deny_users"] /\ cron'.at = "stat"
          /\ Content("deny_users")'.lines = ls /\ cron'.size = Len(ls)
      BY <1>2, <1>3, <2>1
    <2> HIDE DEF ls
    <2>4. Len(ls) \in Nat
      BY <2>2, LenProperties
    <2> DEFINE n == Len(ls)
    <2> HIDE DEF n
    <2>5. n \in Nat
      BY <2>4 DEF n
    <2>6. \A k : k \notin n + 1 .. n
      BY <2>5
    <2> QED BY <2>3, <2>6 DEF CronInv, n
  <1> QED BY <1>6, <1>7, <1>8 DEF DenialsInv

LEMMA DenyCronRead ==
  ASSUME Base, DenialsInv, CronRead
  PROVE  DenialsInv'
  <1> DEFINE fd == cron.fd
             lines == text[fd].lines
  <1>1. FilesOK /\ RestOK /\ DenyInv /\ WebInv /\ CronInv /\ CronOK
    BY DEF Base, DenialsInv
  <1>2. /\ path' = path /\ text' = text /\ web' = web /\ missed' = missed
        /\ UNCHANGED calls /\ cron.at = "stat"
    BY DEF CronRead, history
  <1>3. /\ Content("deny_users")' = Content("deny_users") /\ Denials' = Denials
        /\ todo' = todo /\ hand' = hand
    BY <1>2 DEF Content, Denials, calls
  <1>4. /\ cron'.at = "out" \/ cron'.fd = fd
        /\ Dated(cron'.keep)
    <2>1. CASE cron' = NoCron
      <3>1. NoCron.at = "out" /\ NoCron.keep = <<>>
        BY <1>1, CronIs
      <3> QED BY <2>1, <3>1 DEF Dated
    <2>2. CASE cron' # NoCron
      <3>1. cron'.fd = fd /\ ToSet(cron'.keep) \subseteq ToSet(lines) /\ fd \in 1 .. Len(text)
        BY <2>2, CronReadIs
      <3>2. Clean(text[fd])
        BY <1>1, <1>2, <3>1 DEF DenyInv, Holds, CronOK
      <3>3. Dated(lines)
        BY <3>2 DEF Clean, Dated
      <3> QED BY <3>1, <3>3, DatedSet
    <2> QED BY <2>1, <2>2
  <1>5. \A i \in 1 .. Len(text) : Holds(i, "deny_users")' => Holds(i, "deny_users")
    BY <1>2, <1>4, OtherHolds
  <1>6. DenyInv'
    BY <1>1, <1>2, <1>3, <1>4, <1>5 DEF DenyInv
  <1>7. WebInv'
    BY <1>1, <1>2, <1>3 DEF WebInv, Excused, Brimful
  <1>8. CronInv'
    <2>1. CASE cron' = NoCron
      <3>1. NoCron.at = "out"
        BY <1>1, CronIs
      <3> QED BY <2>1, <3>1 DEF CronInv
    <2>2. CASE cron' # NoCron
      <3>1. /\ cron'.at = "read" /\ cron'.fd = fd /\ cron'.nowtime = cron.nowtime
            /\ \A k \in 1 .. cron.size :
                 lines[k] \in ToSet(cron'.keep) \/ Lapsed(lines[k], cron.nowtime)
        BY <2>2, CronReadIs
      <3>2. fd = path["deny_users"] /\ fd \in 1 .. Len(text) /\ path["deny_users"] # NoFile
        BY <1>1, <1>2, CronFd
      <3>3. Content("deny_users").lines = lines
        BY <3>2 DEF Content
      <3>4. lines \in Seq(LineSet(now))
        BY <1>1, <3>2, FilesAre DEF TextSet
      <3>5. \A k \in cron.size + 1 .. Len(lines) : lines[k] \in missed["cron"]
        BY <1>1, <1>2, <3>3 DEF CronInv
      <3>6. cron.size \in Nat
        BY <1>1, CronIs
      <3>7. Denials = ToSet(lines)
        BY <3>3 DEF Denials
      <3> HIDE DEF lines
      <3>8. \A line \in Denials : \/ line \in ToSet(cron'.keep) \/ Lapsed(line, cron.nowtime)
                                  \/ line \in missed["cron"]
        <4> SUFFICES ASSUME NEW line \in ToSet(lines)
                     PROVE  \/ line \in ToSet(cron'.keep) \/ Lapsed(line, cron.nowtime)
                            \/ line \in missed["cron"]
          BY <3>7
        <4>1. PICK k \in 1 .. Len(lines) : line = lines[k]
          BY <3>4, LenProperties DEF ToSet
        <4> DEFINE n == Len(lines)
                   z == cron.size
        <4> HIDE DEF n, z
        <4>2. k \in 1 .. n /\ z \in Nat
          BY <3>6 DEF n, z
        <4>3. k \in 1 .. z \/ k \in z + 1 .. n
          BY <4>2
        <4> QED BY <3>1, <3>5, <4>1, <4>3 DEF n, z
      <3>9. CronInv' <=>
              /\ cron'.at # "out" => cron'.fd = path["deny_users"]
              /\ cron'.at = "stat" =>
                   \A k \in cron'.size + 1 .. Len(Content("deny_users").lines) :
                      Content("deny_users").lines[k] \in missed["cron"]
              /\ cron'.at = "read" =>
                   \A line \in Denials : \/ line \in ToSet(cron'.keep) \/ Lapsed(line, cron'.nowtime)
                                         \/ line \in missed["cron"]
        BY <1>2, <1>3 DEF CronInv, Lapsed, Timed
      <3> QED BY <3>1, <3>2, <3>8, <3>9
    <2> QED BY <2>1, <2>2
  <1> QED BY <1>6, <1>7, <1>8 DEF DenialsInv

LEMMA DenyCronWrite ==
  ASSUME Base, DenialsInv, CronWrite
  PROVE  /\ DenialsInv' /\ cron.at = "read" /\ cron'.at = "out"
         /\ \A line \in Denials \ Denials' : Lapsed(line, cron.nowtime) \/ line \in missed["cron"]
  <1> DEFINE fd == cron.fd
             new == Text(cron.keep)
  <1>1. FilesOK /\ RestOK /\ DenyInv /\ WebInv /\ CronInv
    BY DEF Base, DenialsInv
  <1>2. /\ cron.at = "read" /\ text' = [text EXCEPT ![fd] = new]
        /\ cron' = NoCron /\ missed' = [a \in DOMAIN missed |-> missed[a] \cup Denials']
        /\ UNCHANGED <<path, calls, web>>
    BY DEF CronWrite, Misses
  <1>3. fd = path["deny_users"] /\ fd \in 1 .. Len(text) /\ path["deny_users"] # NoFile
    BY <1>1, <1>2, CronFd
  <1>4. /\ new \in TextSet(now) /\ new.lines = cron.keep /\ new.rest = <<>>
        /\ NoCron.at = "out" /\ NoCron.keep = <<>>
    BY <1>1, KeepText, CronIs
  <1> HIDE DEF fd, new
  <1>5. /\ Len(text') = Len(text)
        /\ \A i \in 1 .. Len(text) : text'[i] = IF i = fd THEN new ELSE text[i]
    <2>1. text \in Seq(TextSet(now))
      BY <1>1 DEF FilesOK
    <2> DEFINE t == [text EXCEPT ![fd] = new]
    <2>2. Len(t) = Len(text) /\ \A i \in 1 .. Len(text) : t[i] = IF i = fd THEN new ELSE text[i]
      BY <1>3, <1>4, <2>1, ExceptSeq
    <2> HIDE DEF t
    <2> QED BY <1>2, <2>2 DEF t
  <1>6. /\ path' = path /\ web' = web /\ todo' = todo /\ hand' = hand
        /\ cron'.at = "out" /\ cron'.keep = <<>>
    BY <1>2, <1>4 DEF calls
  <1>7. Content("deny_users")' = new /\ Denials' = ToSet(cron.keep)
    BY <1>3, <1>4, <1>5, <1>6 DEF Content, Denials
  <1>8. \A i \in 1 .. Len(text) : Holds(i, "deny_users")' => Holds(i, "deny_users")
    BY <1>2, <1>6, OtherHolds
  <1>9. Clean(new)
    BY <1>1, <1>4 DEF DenyInv, Dated, Clean
  <1>10. \A i \in 1 .. Len(text') : Holds(i, "deny_users")' => Clean(text'[i])
    BY <1>1, <1>5, <1>8, <1>9 DEF DenyInv
  <1>11. Dated(<<>>)
    BY DEF Dated
  <1>12. DenyInv'
    BY <1>1, <1>6, <1>10, <1>11 DEF DenyInv
  <1>13. \A a \in Web \cup {"cron"} : missed'[a] = missed[a] \cup Denials'
    BY <1>1, <1>2 DEF RestOK
  <1>14. WebInv'
    BY <1>13 DEF WebInv, Excused
  <1>15. CronInv'
    BY <1>6 DEF CronInv
  <1>16. \A line \in Denials \ Denials' : Lapsed(line, cron.nowtime) \/ line \in missed["cron"]
    BY <1>1, <1>2, <1>7 DEF CronInv
  <1> QED BY <1>2, <1>6, <1>12, <1>14, <1>15, <1>16 DEF DenialsInv

\* The invariant of the denials is inductive.
LEMMA DenyManager ==
  ASSUME Base, DenialsInv, NEW p \in Managers,
         Ask(p) \/ Decline(p) \/ Confirm(p) \/ Finish(p) \/ Hang(p)
  PROVE  DenialsInv'
  <1>1. /\ p \in Procs /\ job \in [Managers -> JobSet(now) \cup {NoJob}]
        /\ todo \in [Procs -> Seq(CallSet(now))] /\ hand \in [Procs -> HandSet(now)]
    BY NameListsAssumption DEF Base, JobsOK, CallsOK
  <1>2. UNCHANGED <<files, web, cron, missed>>
    BY DEF Ask, Decline, Confirm, Finish, Hang, history
  <1>3. \A q \in Procs \ {p} : hand'[q] = hand[q] /\ todo'[q] = todo[q]
    BY <1>1 DEF Ask, Decline, Confirm, Finish, Hang, calls
  <1>4. hand'[p].at # "out" => hand'[p] = hand[p] /\ todo'[p] = todo[p]
    <2>1. CASE Ask(p) \/ Decline(p) \/ Finish(p)
      BY <2>1 DEF Ask, Decline, Finish, calls
    <2>2. CASE Confirm(p)
      <3>1. job[p] \in JobSet(now) /\ ~job[p].run /\ hand' = hand
        BY <1>1, <2>2 DEF Confirm
      <3>2. todo[p] = <<>>
        BY <3>1 DEF Base, JobsOK
      <3>3. hand[p].at = "out"
        BY <1>1, <3>2 DEF Base, HandsOK
      <3> QED BY <3>1, <3>3
    <2>3. CASE Hang(p)
      <3>1. hand'[p] = NoHand
        BY <1>1, <2>3 DEF Hang
      <3> QED BY <3>1 DEF NoHand
    <2> QED BY <2>1, <2>2, <2>3
  <1> QED BY <1>2, <1>3, <1>4, DenyIdle

LEMMA DenyNext ==
  ASSUME Base, DenialsInv, [Next]_vars
  PROVE  DenialsInv'
  <1>1. ASSUME NEW p \in Procs, Step(p) PROVE DenialsInv'
    BY <1>1, DenyStep, WebCronStep DEF DenialsInv
  <1>2. ASSUME NEW u \in Sessions, Login(u) \/ Visit(u) PROVE DenialsInv'
    <2>1. u \in Procs /\ todo \in [Procs -> Seq(CallSet(now))]
      BY NameListsAssumption DEF Base, CallsOK
    <2>2. UNCHANGED <<files, web, cron, missed>> /\ hand' = hand /\ todo[u] = <<>>
      BY <1>2 DEF Login, Visit, calls, history
    <2>3. hand[u].at = "out"
      BY <2>1, <2>2 DEF Base, HandsOK
    <2>4. \A q \in Procs \ {u} : todo'[q] = todo[q]
      BY <1>2, <2>1 DEF Login, Visit, calls
    <2> QED BY <2>2, <2>3, <2>4, DenyIdle
  <1>3. CASE UNCHANGED vars \/ Tick
    <2>1. UNCHANGED <<files, calls, web, cron, missed>>
      BY <1>3 DEF vars, Tick, history
    <2> QED BY <2>1, DenyIdle DEF calls
  <1>4. ASSUME NEW w \in Web, WebLoad(w) \/ WebEmpty(w) \/ WebWrite(w) \/ WebKilled(w)
        PROVE  DenialsInv'
    BY <1>4, DenyWebLoad, DenyWebEmpty, DenyWebWrite, DenyWebKilled
  <1>5. Cron => DenialsInv'
    BY DenyCronStat, DenyCronRead, DenyCronWrite DEF Cron
  <1> QED BY <1>1, <1>2, <1>3, <1>4, <1>5, DenyManager DEF Next

LEMMA InitDenials ==
  ASSUME Init
  PROVE  DenialsInv
  <1>1. path["deny_users"] = NoFile
    BY InitFiles
  <1>2. /\ hand = [p \in Procs |-> NoHand] /\ web = [w \in Web |-> NoWeb] /\ cron = NoCron
    BY DEF Init
  <1>3. NoHand.at = "out" /\ NoWeb.at = "out" /\ NoWeb.table = <<>> /\ NoCron.at = "out"
        /\ NoCron.keep = <<>>
    BY DEF NoHand, NoWeb, NoCron
  <1>4. \A i \in 1 .. Len(text) : ~Holds(i, "deny_users")
    BY <1>1, <1>2, <1>3 DEF Holds, HeldBy, NoFile
  <1>5. Dated(<<>>)
    BY DEF Dated
  <1>6. DenyInv
    BY <1>2, <1>3, <1>4, <1>5 DEF DenyInv
  <1> QED BY <1>2, <1>3, <1>6 DEF DenialsInv, WebInv, CronInv

LEMMA AlwaysDenials == Spec => []DenialsInv
  <1>1. Init => DenialsInv
    BY InitDenials
  <1>2. Base /\ DenialsInv /\ [Next]_vars => DenialsInv'
    BY DenyNext
  <1> QED BY <1>1, <1>2, AlwaysBase, PTL DEF Spec

LEMMA StepKeepsDenials ==
  ASSUME Base, DenialsInv, NEW p \in Procs, Step(p)
  PROVE  Denials \subseteq Denials'
  <1> DEFINE L  == Content("deny_users").lines
             L1 == Content("deny_users")'.lines
  <1>1. L1 = L \/ \E l \in LineSet(now) : L1 = Append(L, l)
    BY StepDenials DEF DenialsInv
  <1>2. L \in Seq(LineSet(now))
    BY PathsAre, ContentIs DEF Base
  <1>3. Denials = ToSet(L) /\ Denials' = ToSet(L1)
    BY DEF Denials
  <1> HIDE DEF L, L1
  <1>4. \A l \in LineSet(now) : ToSet(Append(L, l)) = ToSet(L) \cup {l}
    BY <1>2, AppendSet
  <1> QED BY <1>1, <1>3, <1>4

\* deldeny looks for the id with a newline behind it, and a denial has its
\* reason there: no manager on telnet ever lifts one, or replaces one when he
\* changes it, though the menu of deny_user announces that it was done.
TelnetLiftsNothing == [][\A p \in Procs : Step(p) => Denials \subseteq Denials']_vars

\* No step of addtodeny or deldeny takes a line off deny_users.
THEOREM TelnetLiftsNothingHolds == Spec => TelnetLiftsNothing
  <1>1. Base /\ DenialsInv /\ [Next]_vars
        => [\A p \in Procs : Step(p) => Denials \subseteq Denials']_vars
    BY StepKeepsDenials
  <1> QED BY <1>1, AlwaysBase, AlwaysDenials, PTL DEF Spec, TelnetLiftsNothing

\* A denial leaves deny_users only because its date has passed when autoundeny
\* runs, because a web manager lifts that user, or through the ways in which
\* bbsdenyadd, bbsdenydel and autoundeny lose one: a line without a date, one
\* past the table, one that was added after the list was read.
THEOREM DenialEndsByRightHolds == Spec => DenialEndsByRight
  <1> DEFINE A(line) ==
         \/ /\ cron.at = "read" /\ cron'.at = "out"
            /\ Lapsed(line, cron.nowtime) \/ line \in missed["cron"]
         \/ \E w \in Web :
               /\ web'[w] # web[w] /\ web[w].at # "out"
               /\ \/ line \in ToSet(web[w].table)
                  \/ line \in missed[w]
                  \/ line.tail = Manual
                  \/ web[w].op = "undeny" /\ line.word = Spelling[web[w].who]
                  \/ Brimful(w)
  <1>1. Base /\ DenialsInv /\ [Next]_vars => [\A line \in Denials \ Denials' : A(line)]_vars
    <2> SUFFICES ASSUME Base, DenialsInv, Next, NEW line \in Denials \ Denials'
                 PROVE  A(line)
      OBVIOUS
    <2>1. ~UNCHANGED files
      BY DEF files, Denials, Content
    <2>2. ASSUME NEW q \in Managers, Ask(q) \/ Decline(q) \/ Confirm(q) \/ Finish(q) \/ Hang(q)
          PROVE  FALSE
      BY <2>1, <2>2 DEF Ask, Decline, Confirm, Finish, Hang
    <2>3. ASSUME NEW u \in Sessions, Login(u) \/ Visit(u) PROVE FALSE
      BY <2>1, <2>3 DEF Login, Visit
    <2>4. ~Tick
      BY <2>1 DEF Tick
    <2>5. ASSUME NEW p \in Procs, Step(p) PROVE FALSE
      BY <2>5, StepKeepsDenials
    <2>6. ASSUME NEW w \in Web, WebLoad(w) \/ WebEmpty(w) \/ WebWrite(w) \/ WebKilled(w)
          PROVE  A(line)
      <3>1. ~WebLoad(w) /\ ~WebKilled(w)
        BY <2>1 DEF WebLoad, WebKilled
      <3>2. web[w].at # "out" /\ web'[w] # web[w]
        BY <2>6, <3>1, DenyWebEmpty, DenyWebWrite
      <3>3. Excused(w, line)
        BY <3>2 DEF DenialsInv, WebInv
      <3> QED BY <3>2, <3>3 DEF Excused
    <2>7. Cron => A(line)
      <3>1. ~CronStat
        BY <2>1 DEF CronStat
      <3>2. ~CronRead
        BY DEF CronRead, Denials, Content
      <3> QED BY <3>1, <3>2, DenyCronWrite DEF Cron
    <2> QED BY <2>2, <2>3, <2>4, <2>5, <2>6, <2>7 DEF Next
  <1> QED BY <1>1, AlwaysBase, AlwaysDenials, PTL DEF Spec, DenialEndsByRight
=============================================================================
