-------------------------- MODULE RecordFileProofs --------------------------
(***************************************************************************)
(* For any number of processes and calls: the index file stays well typed, *)
(* the rewriters exclude each other, no lock outlives its call, and the    *)
(* index keeps its entries, their order and their flags.                   *)
(***************************************************************************)
EXTENDS RecordFile, SequenceTheorems, WellFoundedInduction, TLAPS

Locking == {"scan", "shift", "truncate", "read", "put"}
Rewrite == {"copy", "retire", "promote"}

\* The flock is held from the step that takes it to the one that closes the
\* file, and by one call per inode.
LockHeld == locked = {w \in Workers : w \notin dead /\ pc[w] \in Locking}
LockExclusive ==
  \A v, w \in locked : job[v].file = job[w].file => v = w

\* What a call at step s with job j has in hand, the files being fs.
Opened(s, j, fs) ==
  /\ s \notin {"idle", "stat", "open"} => j.file \in 1 .. Len(fs)
  /\ s \in {"load", "sift", "flush"} => j.out \in 1 .. Len(fs)
Aimed(s, j) ==
  /\ s \in {"stat", "store"} => j.op = "substitute"
  /\ s = "read" => j.op = "update_file"
  /\ s = "write" => j.op = "append"
  /\ j.op \in {"append", "update_file"} => j.key # 0
  /\ j.op \in {"substitute", "update_file"} => j.ids # {}
  /\ j.op = "substitute" => \A p \in j.ids : p \in DOMAIN j.look /\ j.look[p].key # 0
Shifts(s, j, fs) ==
  s \in {"shift", "truncate"} =>
    j.pos \in 1 .. Len(j.buf) /\ Len(j.buf) <= Len(fs[j.file])
Reads(s, j) ==
  /\ s \in {"copy", "sift"} => j.pos >= 1
  /\ s = "put" => Len(j.buf) = 1
  /\ s \notin {"shift", "truncate"} => 0 \notin j.gone
Fits(s, j, fs) == Opened(s, j, fs) /\ Aimed(s, j) /\ Shifts(s, j, fs) /\ Reads(s, j)
InHand == \A w \in Workers \ dead : Fits(pc[w], job[w], files)

\* .DIR.tmp has not been .DIR: nobody has it open to change it in place.
Apart ==
  name.web # 0 =>
    /\ name.web # name.dir /\ name.web # name.tmp
    /\ \A w \in Workers \ dead : job[w].file # name.web

IInv == TypeOK /\ LockHeld /\ LockExclusive /\ InHand /\ OneRewriter /\ Apart

-----------------------------------------------------------------------------
\* The types, with their bounds as parameters: filetimes up to c, n inodes.
EntriesTo(c) == [key : 0 .. c, flags : SUBSET Flags]
JobsTo(c, n) == [op : Ops, look : Seq(EntriesTo(c)), ids : SUBSET (Nat \ {0}), key : 0 .. c,
                 flag : Flags, file : 0 .. n, out : 0 .. n, pos : Nat, buf : Seq(EntriesTo(c)),
                 gone : SUBSET (0 .. c), stale : BOOLEAN]
Names(n) == [dir : 0 .. n, tmp : 0 .. n, web : 0 .. n]

LEMMA TypesTo ==
  /\ Entries = EntriesTo(created) /\ Jobs = JobsTo(created, Len(files))
  /\ Entries' = EntriesTo(created') /\ Jobs' = JobsTo(created', Len(files'))
  BY DEF Entries, EntriesTo, Jobs, JobsTo

LEMMA EntriesGrow ==
  ASSUME NEW c \in Nat, NEW d \in Nat, c <= d
  PROVE  EntriesTo(c) \subseteq EntriesTo(d)
  BY DEF EntriesTo

LEMMA JobsGrow ==
  ASSUME NEW c \in Nat, NEW d \in Nat, c <= d,
         NEW m \in Nat, NEW n \in Nat, m <= n, NEW j \in JobsTo(c, m)
  PROVE  j \in JobsTo(d, n)
  <1>1. EntriesTo(c) \subseteq EntriesTo(d)
    BY EntriesGrow
  <1>2. j.look \in Seq(EntriesTo(d)) /\ j.buf \in Seq(EntriesTo(d))
    BY <1>1, SeqMonotonic DEF JobsTo
  <1>3. j.gone \subseteq 0 .. d /\ j.key \in 0 .. d /\ j.file \in 0 .. n /\ j.out \in 0 .. n
    BY DEF JobsTo
  <1> QED BY <1>2, <1>3 DEF JobsTo

\* A non-empty set of positions has a least one.
LEMMA LeastIn ==
  ASSUME NEW S \in SUBSET Nat, S # {}
  PROVE  Least(S) \in S
  <1> DEFINE R == {ss \in Nat \X Nat : ss[1] < ss[2]}
  <1>1. IsWellFoundedOn(R, Nat)
    BY NatLessThanWellFounded DEF OpToRel
  <1>2. PICK p \in S : \A q \in S : ~ (<<q, p>> \in R)
    <2> HIDE DEF R
    <2> QED BY <1>1, WFMin
  <1>3. \A q \in S : p <= q
    <2>1. SUFFICES ASSUME NEW q \in S, q < p PROVE FALSE
      OBVIOUS
    <2>2. <<q, p>> \in R
      BY <2>1
    <2> QED BY <1>2, <2>2
  <1> QED BY <1>3 DEF Least

LEMMA SameRange ==
  ASSUME NEW m \in Nat, NEW n \in Nat, 1 .. m = 1 .. n
  PROVE  m = n
  <1>1. ASSUME m < n PROVE FALSE
    <2>1. n \in 1 .. n /\ n \notin 1 .. m
      BY <1>1
    <2> QED BY <2>1
  <1>2. ASSUME n < m PROVE FALSE
    <2>1. m \in 1 .. m /\ m \notin 1 .. n
      BY <1>2
    <2> QED BY <2>1
  <1> QED BY <1>1, <1>2

LEMMA StoredType ==
  ASSUME NEW E, NEW s \in Seq(E), NEW p \in Nat \ {0}, NEW e \in E, Hole \in E
  PROVE  Stored(s, p, e) \in Seq(E) /\ Len(Stored(s, p, e)) >= Len(s)
  <1> DEFINE n == IF p > Len(s) THEN p ELSE Len(s)
  <1>1. n \in Nat /\ n >= Len(s)
    BY LenProperties
  <1>2. Stored(s, p, e) \in [1 .. n -> E]
    BY ElementOfSeq, LenProperties DEF Stored
  <1>3. Stored(s, p, e) \in Seq(E)
    BY <1>1, <1>2, SeqDef
  <1>4. DOMAIN Stored(s, p, e) = 1 .. Len(Stored(s, p, e)) /\ Len(Stored(s, p, e)) \in Nat
    BY <1>3, LenProperties
  <1>5. 1 .. n = 1 .. Len(Stored(s, p, e))
    BY <1>2, <1>4
  <1> HIDE DEF n
  <1>6. n = Len(Stored(s, p, e))
    BY <1>1, <1>4, <1>5, SameRange
  <1> QED BY <1>1, <1>3, <1>6

\* The histories only ever name the seven harms.
LEMMA HarmType ==
  ASSUME NEW w \in Workers, NEW b
  PROVE  /\ Exposed(w) \subseteq Races /\ Truncated(w) \subseteq Races
         /\ Copied(w) \subseteq Races /\ Mistaken(w, b) \subseteq Races
         /\ Overtaken(w) \subseteq Races /\ Mingled(w) \subseteq Races
  BY DEF Exposed, Truncated, Copied, Mistaken, Overtaken, Mingled, Races

-----------------------------------------------------------------------------
\* One worker moves to step s with job j; of the others' jobs nothing but
\* stale may change.
After(w, s, j) ==
  /\ pc' = [pc EXCEPT ![w] = s]
  /\ job' = [job EXCEPT ![w] = j] \/ job' = [Outdated(w) EXCEPT ![w] = j]

SameAim(i, j) ==
  /\ i.op = j.op /\ i.look = j.look /\ i.ids = j.ids /\ i.key = j.key
  /\ i.file = j.file /\ i.out = j.out
SameJob(i, j) == SameAim(i, j) /\ i.pos = j.pos /\ i.buf = j.buf /\ i.gone = j.gone

\* What that comes to.
Moved(w, s, j) ==
  /\ pc'[w] = s /\ job'[w] = j
  /\ \A v \in Workers \ {w} : pc'[v] = pc[v] /\ SameJob(job'[v], job[v])

LEMMA StaleOnly ==
  ASSUME NEW c, NEW n, NEW i \in JobsTo(c, n), NEW b \in BOOLEAN
  PROVE  /\ [i EXCEPT !.stale = b] \in JobsTo(c, n)
         /\ SameJob([i EXCEPT !.stale = b], i)
  BY DEF JobsTo, SameAim, SameJob

LEMMA AfterOthers ==
  ASSUME NEW c \in Nat, NEW n \in Nat, job \in [Workers -> JobsTo(c, n)],
         pc \in [Workers -> Steps],
         NEW w \in Workers, NEW s \in Steps, NEW j \in JobsTo(c, n), After(w, s, j)
  PROVE  /\ pc' \in [Workers -> Steps] /\ job' \in [Workers -> JobsTo(c, n)]
         /\ Moved(w, s, j)
  <1>1. pc' \in [Workers -> Steps] /\ pc'[w] = s /\ \A v \in Workers \ {w} : pc'[v] = pc[v]
    BY DEF After
  <1>2. CASE job' = [job EXCEPT ![w] = j]
    BY <1>1, <1>2 DEF SameAim, SameJob, Moved
  <1>3. CASE job' = [Outdated(w) EXCEPT ![w] = j]
    <2>1. ASSUME NEW v \in Workers \ {w}
          PROVE  job'[v] = [job[v] EXCEPT !.stale = job[v].op # "none"]
      BY <1>3 DEF Outdated
    <2>2. ASSUME NEW v \in Workers \ {w}
          PROVE  job'[v] \in JobsTo(c, n) /\ SameJob(job'[v], job[v])
      <3>1. (job[v].op # "none") \in BOOLEAN /\ job[v] \in JobsTo(c, n)
        OBVIOUS
      <3> DEFINE b == job[v].op # "none"
                 i == job[v]
      <3>2. b \in BOOLEAN /\ i \in JobsTo(c, n) /\ job'[v] = [i EXCEPT !.stale = b]
        BY <2>1, <3>1
      <3>3. SUFFICES job'[v] \in JobsTo(c, n) /\ SameJob(job'[v], i)
        OBVIOUS
      <3> HIDE DEF b, i
      <3> QED BY <3>2, StaleOnly
    <2>3. job'[w] = j /\ DOMAIN job' = Workers /\ job' = [v \in Workers |-> job'[v]]
      BY <1>3 DEF Outdated
    <2> QED BY <1>1, <2>2, <2>3 DEF Moved
  <1> QED BY <1>2, <1>3 DEF After

\* A step by w keeps the locks as they should be: it lets go of them, keeps
\* them, or takes the one on a file nobody else holds.
LockStep(w, s, j) ==
  \/ s \notin Locking /\ locked' = locked \ {w}
  \/ s \notin Locking /\ pc[w] \notin Locking /\ locked' = locked
  \/ s \in Locking /\ pc[w] \in Locking /\ locked' = locked /\ j.file = job[w].file
  \/ s \in Locking /\ locked' = locked \cup {w} /\ \A v \in locked : job[v].file # j.file

LEMMA LocksKept ==
  ASSUME LockHeld, LockExclusive,
         NEW w \in Workers \ dead, NEW s, NEW j, Moved(w, s, j), dead' = dead,
         LockStep(w, s, j)
  PROVE  LockHeld' /\ LockExclusive'
  <1>1. locked \subseteq Workers
    BY DEF LockHeld
  <1>2. \A v \in Workers \ {w} : pc'[v] = pc[v] /\ job'[v].file = job[v].file
    BY DEF Moved, SameAim, SameJob
  <1>3. LockHeld'
    BY <1>2 DEF LockHeld, LockStep, Moved
  <1>4. LockExclusive'
    <2>1. CASE w \notin locked'
      BY <1>1, <1>2, <2>1 DEF LockExclusive, LockStep
    <2>2. CASE w \in locked' /\ w \in locked
      <3>1. pc[w] \in Locking
        BY <2>2 DEF LockHeld
      <3>2. locked' = locked
        BY <2>2, <3>1 DEF LockStep
      <3>3. j.file = job[w].file \/ \A v \in locked : job[v].file # j.file
        BY <2>2, <3>1 DEF LockStep
      <3> QED BY <1>1, <1>2, <2>2, <3>2, <3>3 DEF LockExclusive, Moved
    <2>3. CASE w \in locked' /\ w \notin locked
      BY <1>1, <1>2, <2>3 DEF LockExclusive, LockHeld, LockStep, Moved
    <2> QED BY <2>1, <2>2, <2>3
  <1> QED BY <1>3, <1>4

\* What the other calls have in hand stays good as long as no file they are
\* about to shift or cut gets shorter.
LEMMA HandKept ==
  ASSUME InHand, NEW w \in Workers \ dead, NEW s, NEW j, Moved(w, s, j), dead' = dead,
         Len(files) \in Nat, Len(files') \in Nat, Len(files) <= Len(files'),
         \A v \in Workers \ dead :
           v # w /\ pc[v] \in {"shift", "truncate"} /\ job[v].file \in 1 .. Len(files)
             => /\ Len(files[job[v].file]) \in Nat /\ Len(files'[job[v].file]) \in Nat
                /\ Len(files[job[v].file]) <= Len(files'[job[v].file])
                /\ Len(job[v].buf) \in Nat,
         Fits(s, j, files')
  PROVE  InHand'
  <1> SUFFICES ASSUME NEW v \in Workers \ dead, v # w
               PROVE  Fits(pc'[v], job'[v], files')
    BY DEF InHand, Moved
  <1>1. pc'[v] = pc[v] /\ SameJob(job'[v], job[v])
    BY DEF Moved
  <1>2. Fits(pc[v], job[v], files)
    BY DEF InHand
  <1>3. Opened(pc'[v], job'[v], files') /\ Aimed(pc'[v], job'[v]) /\ Reads(pc'[v], job'[v])
    BY <1>1, <1>2 DEF Fits, Opened, Aimed, Reads, SameAim, SameJob
  <1>4. Shifts(pc'[v], job'[v], files')
    <2>1. SUFFICES ASSUME pc[v] \in {"shift", "truncate"}
                   PROVE  /\ job[v].pos \in 1 .. Len(job[v].buf)
                          /\ Len(job[v].buf) <= Len(files'[job[v].file])
      BY <1>1 DEF Shifts, SameAim, SameJob
    <2>2. /\ job[v].file \in 1 .. Len(files)
          /\ job[v].pos \in 1 .. Len(job[v].buf)
          /\ Len(job[v].buf) <= Len(files[job[v].file])
      BY <1>2, <2>1 DEF Fits, Shifts, Opened
    <2> QED BY <2>1, <2>2
  <1> QED BY <1>3, <1>4 DEF Fits

\* The rewriters: w is none before and after; or goes on; or becomes one when
\* there is no .tmpfile; or stops being one.
RewriteStep(w, s) ==
  \/ /\ pc[w] \notin Rewrite /\ s \notin Rewrite
     /\ name.tmp # 0 => name'.tmp # 0
     /\ name'.dir = 0 => name.dir = 0
  \/ /\ pc[w] \in Rewrite /\ s \in Rewrite
     /\ name.tmp # 0 => name'.tmp # 0
     /\ name'.dir = 0 => s = "promote" \/ (name.dir = 0 /\ pc[w] # "promote")
  \/ /\ pc[w] \notin Rewrite /\ s \in Rewrite
     /\ name.tmp = 0 /\ name'.tmp # 0 /\ name'.dir = name.dir
  \/ /\ pc[w] \in Rewrite /\ s \notin Rewrite
     /\ name'.dir = 0 => name.dir = 0 /\ pc[w] # "promote"

LEMMA RewritersKept ==
  ASSUME OneRewriter, NEW w \in Workers \ dead, NEW s, NEW j, Moved(w, s, j), dead' = dead,
         RewriteStep(w, s)
  PROVE  OneRewriter'
  <1>1. \A v \in Workers \ {w} : pc'[v] = pc[v] /\ (Rewriting(v)' <=> Rewriting(v))
    BY DEF Moved, Rewriting
  <1>2. Rewriting(w) <=> pc[w] \in Rewrite
    BY DEF Rewriting, Rewrite
  <1>3. Rewriting(w)' <=> s \in Rewrite
    BY DEF Rewriting, Moved, Rewrite
  <1>4. pc'[w] = s
    BY DEF Moved
  <1>5. (name'.dir = 0 => \E v \in Workers : pc'[v] = "promote")
    BY <1>1, <1>4 DEF OneRewriter, RewriteStep, Rewrite
  <1>6. \A v \in Workers : Rewriting(v)' => name'.tmp # 0
    BY <1>1, <1>2, <1>3 DEF OneRewriter, RewriteStep
  <1>7. \A u, v \in Workers : Rewriting(u)' /\ Rewriting(v)' => u = v
    BY <1>1, <1>2, <1>3 DEF OneRewriter, RewriteStep
  <1> QED BY <1>5, <1>6, <1>7 DEF OneRewriter

\* A call opens no other file than .DIR or a new one; .DIR.tmp is left alone,
\* created or renamed.
Clear(w, j) == j.file \in {0, job[w].file, name.dir, Len(files) + 1}
ApartStep(w, j) ==
  \/ name'.web = 0
  \/ /\ name'.web = name.web /\ Clear(w, j)
     /\ name'.dir \in {0, name.dir, name.tmp, Len(files) + 1}
     /\ name'.tmp \in {0, name.tmp, Len(files) + 1}
  \/ /\ name'.web = Len(files) + 1 /\ name'.dir = name.dir /\ name'.tmp = name.tmp
     /\ j.file = job[w].file

LEMMA ApartKept ==
  ASSUME TypeOK, Apart, NEW w \in Workers \ dead, NEW s, NEW j, Moved(w, s, j), dead' = dead,
         ApartStep(w, j)
  PROVE  Apart'
  <1>1. /\ name \in Names(Len(files)) /\ Len(files) \in Nat
        /\ \A v \in Workers : job[v].file \in 0 .. Len(files)
    BY LenProperties DEF TypeOK, Jobs, Names
  <1>2. job'[w].file = j.file /\ \A v \in Workers \ {w} : job'[v].file = job[v].file
    BY DEF Moved, SameJob, SameAim
  <1>3. SUFFICES ASSUME name'.web # 0
                 PROVE  /\ name'.web # name'.dir /\ name'.web # name'.tmp /\ name'.web # j.file
                        /\ \A v \in Workers \ dead : v # w => job[v].file # name'.web
    BY <1>2 DEF Apart
  <1>4. CASE name'.web = name.web
    <2>1. name.web \in 1 .. Len(files)
      BY <1>1, <1>3, <1>4 DEF Names
    <2>2. /\ name.web # name.dir /\ name.web # name.tmp /\ name.web # Len(files) + 1
          /\ \A v \in Workers \ dead : job[v].file # name.web
      BY <1>1, <2>1 DEF Apart
    <2>3. name'.web # Len(files) + 1
      BY <1>4, <2>2
    <2> QED BY <1>3, <1>4, <2>1, <2>2, <2>3 DEF ApartStep, Clear
  <1>5. CASE name'.web = Len(files) + 1
    BY <1>1, <1>3, <1>4, <1>5 DEF ApartStep, Names
  <1> QED BY <1>3, <1>4, <1>5 DEF ApartStep

-----------------------------------------------------------------------------
LEMMA TypeKept ==
  ASSUME TypeOK, NEW w \in Workers, NEW s \in Steps,
         NEW j \in JobsTo(created', Len(files')), After(w, s, j),
         created' \in Nat, created <= created',
         files' \in Seq(Seq(EntriesTo(created'))), Len(files) <= Len(files'),
         name' \in Names(Len(files')),
         locked' \subseteq Workers, dead' \subseteq Workers, calls' \in 0 .. MaxCalls,
         sent' \in Seq(1 .. created'), done' \subseteq 1 .. created',
         flagged' \subseteq (1 .. created') \X Flags, harm' \subseteq Races
  PROVE  TypeOK' /\ Moved(w, s, j)
  <1>1. Len(files) \in Nat /\ Len(files') \in Nat /\ created \in Nat
    BY LenProperties DEF TypeOK
  <1>2. job \in [Workers -> JobsTo(created', Len(files'))]
    <2>1. job \in [Workers -> JobsTo(created, Len(files))]
      BY TypesTo DEF TypeOK
    <2>2. \A v \in Workers : job[v] \in JobsTo(created', Len(files'))
      BY <1>1, <2>1, JobsGrow
    <2> QED BY <2>1, <2>2
  <1>3. pc \in [Workers -> Steps]
    BY DEF TypeOK
  <1>4. /\ pc' \in [Workers -> Steps] /\ job' \in [Workers -> JobsTo(created', Len(files'))]
        /\ Moved(w, s, j)
    BY <1>1, <1>2, <1>3, AfterOthers
  <1> QED BY <1>4, TypesTo DEF TypeOK, Names

\* Other calls that are about to shift or cut a file find it no shorter.
NoneCut(w) ==
  \A v \in Workers \ dead :
    v # w /\ pc[v] \in {"shift", "truncate"} /\ job[v].file \in 1 .. Len(files)
      => Len(files[job[v].file]) <= Len(files'[job[v].file])

LEMMA AnyStep ==
  ASSUME IInv, NEW w \in Workers \ dead, NEW s \in Steps,
         NEW j \in JobsTo(created', Len(files')), After(w, s, j), dead' = dead,
         created' \in Nat, created <= created',
         files' \in Seq(Seq(EntriesTo(created'))), Len(files) <= Len(files'),
         name' \in Names(Len(files')),
         calls' \in 0 .. MaxCalls, sent' \in Seq(1 .. created'), done' \subseteq 1 .. created',
         flagged' \subseteq (1 .. created') \X Flags, harm' \subseteq Races,
         LockStep(w, s, j), RewriteStep(w, s), ApartStep(w, j), NoneCut(w), Fits(s, j, files')
  PROVE  IInv'
  <1>1. Len(files) \in Nat /\ Len(files') \in Nat
    BY LenProperties DEF IInv, TypeOK
  <1>2. locked' \subseteq Workers /\ dead' \subseteq Workers
    BY DEF LockStep, IInv, TypeOK
  <1>3. TypeOK' /\ Moved(w, s, j)
    BY <1>2, TypeKept DEF IInv
  <1>4. LockHeld' /\ LockExclusive'
    BY <1>3, LocksKept DEF IInv
  <1>5. ASSUME NEW v \in Workers, job[v].file \in 1 .. Len(files)
        PROVE  /\ Len(files[job[v].file]) \in Nat /\ Len(files'[job[v].file]) \in Nat
               /\ Len(job[v].buf) \in Nat
    <2>1. files[job[v].file] \in Seq(Entries) /\ job[v].buf \in Seq(Entries)
      BY <1>5, ElementOfSeq DEF IInv, TypeOK, Jobs
    <2>2. files'[job[v].file] \in Seq(EntriesTo(created'))
      BY <1>1, <1>5, ElementOfSeq
    <2> QED BY <2>1, <2>2, LenProperties
  <1>6. InHand'
    BY <1>1, <1>3, <1>5, HandKept DEF IInv, NoneCut
  <1>7. OneRewriter'
    BY <1>3, RewritersKept DEF IInv
  <1>8. Apart'
    BY <1>3, ApartKept DEF IInv
  <1> QED BY <1>3, <1>4, <1>6, <1>7, <1>8 DEF IInv

\* A step that changes no file.
LEMMA NameStep ==
  ASSUME IInv, NEW w \in Workers \ dead, NEW s \in Steps,
         NEW j \in JobsTo(created, Len(files)), After(w, s, j),
         UNCHANGED <<files, dead, calls, created, sent, flagged>>,
         name' \in Names(Len(files)),
         done' \subseteq 1 .. created, harm' \subseteq Races,
         LockStep(w, s, j), RewriteStep(w, s), ApartStep(w, j), Fits(s, j, files)
  PROVE  IInv'
  <1>1. Len(files) \in Nat /\ created \in Nat
    BY LenProperties DEF IInv, TypeOK
  <1>2. files' \in Seq(Seq(EntriesTo(created')))
    BY TypesTo DEF IInv, TypeOK
  <1>3. /\ j \in JobsTo(created', Len(files')) /\ created' \in Nat /\ created <= created'
        /\ Len(files) <= Len(files') /\ dead' = dead
    BY <1>1
  <1>4. /\ name' \in Names(Len(files'))
        /\ calls' \in 0 .. MaxCalls
        /\ sent' \in Seq(1 .. created') /\ done' \subseteq 1 .. created'
        /\ flagged' \subseteq (1 .. created') \X Flags
    BY DEF IInv, TypeOK
  <1>5. NoneCut(w)
    <2>1. \A v \in Workers : job[v].file \in 1 .. Len(files) => Len(files[job[v].file]) \in Nat
      BY LenProperties, ElementOfSeq DEF IInv, TypeOK
    <2> QED BY <2>1 DEF NoneCut
  <1> QED BY <1>2, <1>3, <1>4, <1>5, AnyStep

\* A step that changes no file and no name.
LEMMA PlainStep ==
  ASSUME IInv, NEW w \in Workers \ dead, NEW s \in Steps,
         NEW j \in JobsTo(created, Len(files)), After(w, s, j),
         UNCHANGED <<files, name, dead, calls, created, sent, flagged>>,
         done' \subseteq 1 .. created, harm' \subseteq Races,
         pc[w] \notin Rewrite, s \notin Rewrite, LockStep(w, s, j), Clear(w, j), Fits(s, j, files)
  PROVE  IInv'
  <1>1. name' \in Names(Len(files))
    BY DEF IInv, TypeOK, Names
  <1>2. RewriteStep(w, s) /\ ApartStep(w, j)
    BY DEF RewriteStep, ApartStep
  <1> QED BY <1>1, <1>2, NameStep

-----------------------------------------------------------------------------
\* What IInv says of a worker at some step.
LEMMA Known ==
  ASSUME IInv, NEW w \in Workers
  PROVE  /\ created \in Nat /\ Len(files) \in Nat /\ files \in Seq(Seq(EntriesTo(created)))
         /\ job[w] \in JobsTo(created, Len(files)) /\ pc[w] \in Steps
         /\ \A f \in 1 .. Len(files) :
              files[f] \in Seq(EntriesTo(created)) /\ Len(files[f]) \in Nat
         /\ w \notin dead => Fits(pc[w], job[w], files)
         /\ Hole \in EntriesTo(created)
  <1>1. created \in Nat /\ Len(files) \in Nat /\ files \in Seq(Seq(EntriesTo(created)))
    BY TypesTo, LenProperties DEF IInv, TypeOK
  <1>2. job[w] \in JobsTo(created, Len(files)) /\ pc[w] \in Steps
    BY TypesTo DEF IInv, TypeOK
  <1>3. \A f \in 1 .. Len(files) :
          files[f] \in Seq(EntriesTo(created)) /\ Len(files[f]) \in Nat
    BY <1>1, ElementOfSeq, LenProperties
  <1>4. Hole \in EntriesTo(created)
    BY <1>1 DEF Hole, EntriesTo
  <1> QED BY <1>1, <1>2, <1>3, <1>4 DEF IInv, InHand

\* An idle call has nothing in hand, whatever the files are.
LEMMA IdleFits ==
  ASSUME NEW c \in Nat, NEW n \in Nat, NEW fs
  PROVE  NoJob \in JobsTo(c, n) /\ Fits("idle", NoJob, fs)
  <1>1. <<>> \in Seq(EntriesTo(c))
    BY EmptySeq
  <1>2. NoJob \in JobsTo(c, n)
    BY <1>1, RecordAssumption DEF NoJob, JobsTo, Ops
  <1>3. Fits("idle", NoJob, fs)
    BY DEF NoJob, Fits, Opened, Aimed, Shifts, Reads
  <1> QED BY <1>2, <1>3

LEMMA FinishAfter ==
  ASSUME NEW w \in Workers, Finish(w) \/ FinishChange(w)
  PROVE  After(w, "idle", NoJob) /\ LockStep(w, "idle", NoJob) /\ Clear(w, NoJob)
  <1>0. Clear(w, NoJob)
    BY DEF Clear, NoJob
  <1>1. CASE Finish(w)
    BY <1>0, <1>1 DEF Finish, Goto, After, LockStep, Locking
  <1>2. CASE FinishChange(w)
    <2>1. Outdated(w) = [Outdated(w) EXCEPT ![w] = NoJob]
      BY DEF Outdated
    <2> QED BY <1>0, <1>2, <2>1 DEF FinishChange, Goto, After, LockStep, Locking
  <1> QED BY <1>0, <1>1, <1>2

\* A call takes note of an entry it read.
Noted(i, p, b, k) == [i EXCEPT !.pos = p, !.buf = b, !.gone = {k}]

LEMMA NotedType ==
  ASSUME NEW c, NEW n, NEW i \in JobsTo(c, n), NEW p \in Nat,
         NEW b \in Seq(EntriesTo(c)), NEW k \in 0 .. c
  PROVE  /\ Noted(i, p, b, k) \in JobsTo(c, n) /\ SameAim(Noted(i, p, b, k), i)
         /\ Noted(i, p, b, k).pos = p /\ Noted(i, p, b, k).buf = b
         /\ Noted(i, p, b, k).gone = {k}
  BY DEF JobsTo, Noted, SameAim

LEMMA FlockKeeps ==
  ASSUME IInv, NEW w \in Workers, Flock(w)
  PROVE  IInv'
  <1> DEFINE s == IF job[w].op = "update_file" THEN "read" ELSE "scan"
             j == job[w]
  <1>1. w \in Workers \ dead /\ pc[w] = "flock"
    BY DEF Flock, At
  <1>2. s \in Steps /\ s \in Locking /\ s \notin Rewrite /\ pc[w] \notin Rewrite
    BY <1>1 DEF Steps, Locking, Rewrite
  <1>3. j \in JobsTo(created, Len(files)) /\ Fits(pc[w], j, files)
    BY <1>1, Known
  <1>4. After(w, s, j)
    BY DEF Flock, Goto, After, IInv, TypeOK
  <1>5. LockStep(w, s, j) /\ Clear(w, j)
    BY <1>2 DEF Flock, LockStep, Clear
  <1>6. Fits(s, j, files)
    BY <1>1, <1>3 DEF Fits, Opened, Aimed, Shifts, Reads
  <1>7. /\ UNCHANGED <<files, name, dead, calls, created, sent, flagged>>
        /\ done' \subseteq 1 .. created /\ harm' \subseteq Races
    BY DEF Flock, IInv, TypeOK
  <1> HIDE DEF s, j
  <1> QED BY <1>1, <1>2, <1>3, <1>4, <1>5, <1>6, <1>7, PlainStep

LEMMA StatKeeps ==
  ASSUME IInv, NEW w \in Workers, Stat(w)
  PROVE  IInv'
  <1>1. w \in Workers \ dead /\ pc[w] = "stat"
    BY DEF Stat, At
  <1>2. /\ UNCHANGED <<files, name, dead, calls, created, sent, flagged>>
        /\ done' \subseteq 1 .. created /\ harm' \subseteq Races
    BY DEF Stat, IInv, TypeOK
  <1>3. job[w] \in JobsTo(created, Len(files)) /\ Fits(pc[w], job[w], files)
    BY <1>1, Known
  <1>4. pc[w] \notin Rewrite /\ pc[w] \notin Locking
    BY <1>1 DEF Rewrite, Locking
  <1>5. CASE Goto(w, "open") /\ UNCHANGED <<job, locked>>
    <2>1. "open" \in Steps /\ "open" \notin Rewrite /\ "open" \notin Locking
      BY DEF Steps, Rewrite, Locking
    <2>2. After(w, "open", job[w]) /\ LockStep(w, "open", job[w])
          /\ Clear(w, job[w])
      BY <1>4, <1>5, <2>1 DEF Goto, After, LockStep, Clear, IInv, TypeOK
    <2>3. Fits("open", job[w], files)
      BY <1>1, <1>3 DEF Fits, Opened, Aimed, Shifts, Reads
    <2> QED BY <1>1, <1>2, <1>3, <1>4, <2>1, <2>2, <2>3, PlainStep
  <1>6. CASE Finish(w)
    <2>1. "idle" \in Steps /\ "idle" \notin Rewrite
      BY DEF Steps, Rewrite
    <2>2. NoJob \in JobsTo(created, Len(files)) /\ Fits("idle", NoJob, files)
      BY Known, IdleFits
    <2> QED BY <1>1, <1>2, <1>4, <1>6, <2>1, <2>2, FinishAfter, PlainStep
  <1> QED BY <1>5, <1>6 DEF Stat

LEMMA ScanKeeps ==
  ASSUME IInv, NEW w \in Workers, Scan(w)
  PROVE  IInv'
  <1>1. w \in Workers \ dead /\ pc[w] = "scan"
    BY DEF Scan, At
  <1>2. /\ UNCHANGED <<files, name, dead, calls, created, sent, flagged>>
        /\ done' \subseteq 1 .. created
    BY DEF Scan, IInv, TypeOK
  <1>3. job[w] \in JobsTo(created, Len(files)) /\ Fits(pc[w], job[w], files)
    BY <1>1, Known
  <1>4. pc[w] \notin Rewrite /\ pc[w] \in Locking
    BY <1>1 DEF Rewrite, Locking
  <1>5. CASE Candidates(w) = {}
    <2>1. "idle" \in Steps /\ "idle" \notin Rewrite
      BY DEF Steps, Rewrite
    <2>2. NoJob \in JobsTo(created, Len(files)) /\ Fits("idle", NoJob, files)
      BY Known, IdleFits
    <2>3. Finish(w) /\ harm' \subseteq Races
      BY <1>5 DEF Scan, IInv, TypeOK
    <2> QED BY <1>1, <1>2, <1>4, <2>1, <2>2, <2>3, FinishAfter, PlainStep
  <1>6. CASE Candidates(w) # {}
    <2> DEFINE p == Least(Candidates(w))
               j == Noted(job[w], p, Content(w), job[w].key)
    <2>1. job[w].file \in 1 .. Len(files)
      BY <1>1, <1>3 DEF Fits, Opened
    <2>2. Content(w) \in Seq(EntriesTo(created)) /\ Len(Content(w)) \in Nat
          /\ DOMAIN Content(w) = 1 .. Len(Content(w))
      BY <2>1, Known, LenProperties DEF Content
    <2>3. p \in 1 .. Len(Content(w))
      <3>1. Candidates(w) \subseteq DOMAIN Content(w)
        BY DEF Candidates
      <3>2. Candidates(w) \in SUBSET Nat
        BY <2>2, <3>1
      <3> QED BY <1>6, <2>2, <3>1, <3>2, LeastIn
    <2>5. job[w].key \in 0 .. created
      BY <1>3 DEF JobsTo
    <2>6. /\ After(w, "shift", j)
          /\ UNCHANGED locked
          /\ harm' = harm \cup Mistaken(w, Content(w)[p].key # job[w].key)
      BY <1>6 DEF Scan, After, Goto, Noted
    <2>7. p \in Nat
      BY <2>2, <2>3
    <2> HIDE DEF p
    <2>8. /\ j \in JobsTo(created, Len(files))
          /\ SameAim(j, job[w]) /\ j.pos = p /\ j.buf = Content(w)
      <3> DEFINE i == job[w]
                 b == Content(w)
                 k == job[w].key
                 n == Len(files)
      <3>1. /\ i \in JobsTo(created, n) /\ p \in Nat /\ b \in Seq(EntriesTo(created))
            /\ k \in 0 .. created /\ j = Noted(i, p, b, k)
        BY <1>3, <2>2, <2>5, <2>7
      <3> HIDE DEF i, b, k, n, j
      <3>2. j \in JobsTo(created, n) /\ SameAim(j, i) /\ j.pos = p /\ j.buf = b
        BY ONLY <3>1, NotedType
      <3> QED BY <3>2 DEF i, b, n
    <2>9. Fits("shift", j, files)
      <3>1. job[w].file \in 1 .. Len(files) /\ Content(w) = files[job[w].file]
        BY <2>1 DEF Content
      <3> HIDE DEF j
      <3>2. j.file = job[w].file /\ j.pos \in 1 .. Len(j.buf) /\ Len(j.buf) <= Len(files[j.file])
        BY <2>2, <2>3, <2>8, <3>1 DEF SameAim
      <3>3. Aimed("shift", j)
        BY <1>1, <1>3, <2>8 DEF Fits, Aimed, SameAim
      <3> QED BY <3>1, <3>2, <3>3 DEF Fits, Opened, Shifts, Reads
    <2>10. LockStep(w, "shift", j) /\ Clear(w, j) /\ "shift" \in Steps /\ "shift" \notin Rewrite
      BY <1>4, <2>6, <2>8 DEF LockStep, Locking, Steps, Rewrite, SameAim, Clear
    <2>11. harm' \subseteq Races
      BY <2>6, HarmType DEF IInv, TypeOK
    <2> HIDE DEF j
    <2> QED BY <1>1, <1>2, <1>4, <2>6, <2>8, <2>9, <2>10, <2>11, PlainStep
  <1> QED BY <1>5, <1>6

LEMMA ReadKeeps ==
  ASSUME IInv, NEW w \in Workers, Read(w)
  PROVE  IInv'
  <1> DEFINE hits == {p \in DOMAIN Content(w) : Content(w)[p].key = job[w].key}
             p == IF job[w].ids \subseteq hits THEN Least(job[w].ids) ELSE Least(hits)
             j == Noted(job[w], p, <<Content(w)[p]>>, Content(w)[p].key)
  <1>1. w \in Workers \ dead /\ pc[w] = "read"
    BY DEF Read, At
  <1>2. /\ UNCHANGED <<files, name, dead, calls, created, sent, flagged>>
        /\ done' \subseteq 1 .. created /\ harm' \subseteq Races
    BY DEF Read, IInv, TypeOK
  <1>3. job[w] \in JobsTo(created, Len(files)) /\ Fits(pc[w], job[w], files)
    BY <1>1, Known
  <1>4. pc[w] \notin Rewrite /\ pc[w] \in Locking
    BY <1>1 DEF Rewrite, Locking
  <1>5. CASE hits = {}
    <2>1. "idle" \in Steps /\ "idle" \notin Rewrite
      BY DEF Steps, Rewrite
    <2>2. NoJob \in JobsTo(created, Len(files)) /\ Fits("idle", NoJob, files)
      BY Known, IdleFits
    <2>3. Finish(w)
      BY <1>5 DEF Read
    <2> QED BY <1>1, <1>2, <1>4, <2>1, <2>2, <2>3, FinishAfter, PlainStep
  <1>6. CASE hits # {}
    <2>1. job[w].file \in 1 .. Len(files)
      BY <1>1, <1>3 DEF Fits, Opened
    <2>2. Content(w) \in Seq(EntriesTo(created)) /\ Len(Content(w)) \in Nat
          /\ DOMAIN Content(w) = 1 .. Len(Content(w))
      BY <2>1, Known, LenProperties DEF Content
    <2>3. p \in hits
      <3>1. hits \in SUBSET Nat
        BY <2>2
      <3>2. job[w].ids # {} /\ job[w].ids \in SUBSET Nat
        BY <1>1, <1>3 DEF Fits, Aimed, JobsTo
      <3> HIDE DEF hits
      <3>3. Least(hits) \in hits /\ Least(job[w].ids) \in job[w].ids
        BY <1>6, <3>1, <3>2, LeastIn
      <3> QED BY <3>3
    <2>4. p \in Nat /\ Content(w)[p] \in EntriesTo(created)
          /\ Content(w)[p].key = job[w].key
      BY <2>2, <2>3, ElementOfSeq
    <2>5. Content(w)[p].key \in 0 .. created /\ Content(w)[p].key # 0
      BY <1>1, <1>3, <2>4 DEF EntriesTo, Fits, Aimed
    <2>6. After(w, "put", j) /\ UNCHANGED locked
      BY <1>6 DEF Read, After, Goto, Noted
    <2> HIDE DEF p, hits
    <2>7. <<Content(w)[p]>> \in Seq(EntriesTo(created)) /\ Len(<<Content(w)[p]>>) = 1
      BY <2>4
    <2>8. /\ j \in JobsTo(created, Len(files))
          /\ SameAim(j, job[w]) /\ Len(j.buf) = 1 /\ j.gone = {Content(w)[p].key}
      <3> DEFINE b == <<Content(w)[p]>>
                 k == Content(w)[p].key
      <3>1. b \in Seq(EntriesTo(created)) /\ Len(b) = 1 /\ k \in 0 .. created
        BY <2>5, <2>7
      <3>2. j = Noted(job[w], p, b, k)
        OBVIOUS
      <3> HIDE DEF b, k, j
      <3>3. j \in JobsTo(created, Len(files)) /\ SameAim(j, job[w]) /\ j.buf = b /\ j.gone = {k}
        BY <1>3, <2>4, <3>1, <3>2, NotedType
      <3> QED BY <3>1, <3>3 DEF k
    <2>9. Fits("put", j, files)
      BY <1>1, <1>3, <2>1, <2>5, <2>8 DEF Fits, Opened, Aimed, Shifts, Reads, SameAim
    <2>10. LockStep(w, "put", j) /\ Clear(w, j) /\ "put" \in Steps /\ "put" \notin Rewrite
      BY <1>4, <2>6, <2>8 DEF LockStep, Locking, Steps, Rewrite, SameAim, Clear
    <2> HIDE DEF j
    <2> QED BY <1>1, <1>2, <1>4, <2>6, <2>8, <2>9, <2>10, PlainStep
  <1> QED BY <1>5, <1>6

-----------------------------------------------------------------------------
\* A step that changes one file: nobody else is cut short by it, because the
\* file does not shrink or because w holds the lock.
LEMMA WriteStep ==
  ASSUME IInv, NEW w \in Workers \ dead, NEW s \in Steps,
         NEW j \in JobsTo(created, Len(files)), After(w, s, j),
         NEW f \in 1 .. Len(files), NEW c \in Seq(EntriesTo(created)),
         files' = [files EXCEPT ![f] = c],
         Len(files[f]) <= Len(c) \/ (f = job[w].file /\ pc[w] \in Locking) \/ f = name.web,
         UNCHANGED <<name, dead, calls, created>>,
         sent' \in Seq(1 .. created), done' \subseteq 1 .. created,
         flagged' \subseteq (1 .. created) \X Flags, harm' \subseteq Races,
         LockStep(w, s, j), RewriteStep(w, s), Clear(w, j), Fits(s, j, files')
  PROVE  IInv'
  <1>1. created \in Nat /\ Len(files) \in Nat /\ files \in Seq(Seq(EntriesTo(created)))
    BY Known
  <1>2. /\ files' \in Seq(Seq(EntriesTo(created))) /\ Len(files') = Len(files)
        /\ \A g \in 1 .. Len(files) : files'[g] = IF g = f THEN c ELSE files[g]
    BY <1>1, ExceptSeq
  <1>3. NoneCut(w)
    <2>1. SUFFICES ASSUME NEW v \in Workers \ dead, v # w, pc[v] \in {"shift", "truncate"},
                          job[v].file \in 1 .. Len(files)
                   PROVE  Len(files[job[v].file]) <= Len(files'[job[v].file])
      BY DEF NoneCut
    <2>2. Len(files[job[v].file]) \in Nat
      BY <2>1, Known
    <2>3. CASE job[v].file # f
      BY <1>2, <2>1, <2>2, <2>3
    <2>4. CASE job[v].file = f
      <3>1. v \in locked
        BY <2>1 DEF IInv, LockHeld, Locking
      <3>2. ~ (f = job[w].file /\ pc[w] \in Locking)
        BY <2>1, <2>4, <3>1 DEF IInv, LockHeld, LockExclusive
      <3>3. f # name.web
        BY <2>1, <2>4 DEF IInv, Apart
      <3> QED BY <1>2, <2>4, <3>2, <3>3
    <2> QED BY <2>3, <2>4
  <1>4. /\ j \in JobsTo(created', Len(files')) /\ created' \in Nat /\ created <= created'
        /\ files' \in Seq(Seq(EntriesTo(created'))) /\ Len(files) <= Len(files')
        /\ dead' = dead
    BY <1>1, <1>2
  <1>5. /\ name' \in Names(Len(files')) /\ ApartStep(w, j)
        /\ calls' \in 0 .. MaxCalls
    BY <1>2 DEF IInv, TypeOK, Names, ApartStep
  <1>6. /\ sent' \in Seq(1 .. created') /\ done' \subseteq 1 .. created'
        /\ flagged' \subseteq (1 .. created') \X Flags
    OBVIOUS
  <1> QED BY <1>3, <1>4, <1>5, <1>6, AnyStep

LEMMA WriteKeeps ==
  ASSUME IInv, NEW w \in Workers, Write(w)
  PROVE  IInv'
  <1> DEFINE f == job[w].file
             e == [key |-> job[w].key, flags |-> {}]
             c == Append(files[f], e)
  <1>1. w \in Workers \ dead /\ pc[w] = "write"
    BY DEF Write, At
  <1>2. job[w] \in JobsTo(created, Len(files)) /\ Fits(pc[w], job[w], files) /\ created \in Nat
    BY <1>1, Known
  <1>3. f \in 1 .. Len(files) /\ job[w].key \in 1 .. created
    BY <1>1, <1>2 DEF Fits, Opened, Aimed, JobsTo
  <1>4. e \in EntriesTo(created)
    BY <1>3 DEF EntriesTo
  <1>5. files[f] \in Seq(EntriesTo(created)) /\ Len(files[f]) \in Nat
    BY <1>3, Known
  <1>6. c \in Seq(EntriesTo(created)) /\ Len(files[f]) <= Len(c)
    <2> HIDE DEF e, f
    <2> QED BY <1>4, <1>5, AppendProperties
  <1>7. /\ files' = [files EXCEPT ![f] = c] /\ sent' = Append(sent, job[w].key)
        /\ UNCHANGED <<name, dead, calls, created, done, flagged>>
    BY DEF Write
  <1>8. sent' \in Seq(1 .. created)
    <2>1. sent \in Seq(1 .. created)
      BY DEF IInv, TypeOK
    <2> QED BY <1>3, <1>7, <2>1, AppendProperties
  <1>9. harm' \subseteq Races
    BY HarmType DEF Write, IInv, TypeOK
  <1>10. After(w, "idle", NoJob) /\ LockStep(w, "idle", NoJob) /\ Clear(w, NoJob)
    BY FinishAfter DEF Write
  <1>11. NoJob \in JobsTo(created, Len(files)) /\ Fits("idle", NoJob, files') /\ "idle" \in Steps
    BY Known, IdleFits DEF Steps
  <1>12. RewriteStep(w, "idle")
    BY <1>1, <1>7 DEF RewriteStep, Rewrite
  <1>13. done' \subseteq 1 .. created /\ flagged' \subseteq (1 .. created) \X Flags
    BY <1>7 DEF IInv, TypeOK
  <1>14. UNCHANGED <<name, dead, calls, created>>
    BY <1>7
  <1> HIDE DEF f, c
  <1> QED BY <1>1, <1>3, <1>6, <1>7, <1>8, <1>9, <1>10, <1>11, <1>12, <1>13, <1>14, WriteStep

LEMMA StoreKeeps ==
  ASSUME IInv, NEW w \in Workers, Store(w)
  PROVE  IInv'
  <1> DEFINE f == job[w].file
             p == Least(job[w].ids)
             seen == job[w].look[p]
             e == [seen EXCEPT !.flags = @ \cup {job[w].flag}]
             c == Stored(files[f], p, e)
  <1>1. w \in Workers \ dead /\ pc[w] = "store"
    BY DEF Store, At
  <1>2. job[w] \in JobsTo(created, Len(files)) /\ Fits(pc[w], job[w], files) /\ created \in Nat
        /\ Hole \in EntriesTo(created)
    BY <1>1, Known
  <1>3. f \in 1 .. Len(files) /\ job[w].ids # {} /\ job[w].flag \in Flags
        /\ job[w].ids \in SUBSET (Nat \ {0}) /\ job[w].look \in Seq(EntriesTo(created))
        /\ \A q \in job[w].ids : q \in DOMAIN job[w].look /\ job[w].look[q].key # 0
    BY <1>1, <1>2 DEF Fits, Opened, Aimed, JobsTo
  <1>4. p \in job[w].ids
    BY <1>3, LeastIn
  <1>5. seen \in EntriesTo(created) /\ seen.key # 0
    <2>1. p \in 1 .. Len(job[w].look)
      BY <1>3, <1>4, LenProperties
    <2> QED BY <1>3, <1>4, <2>1, ElementOfSeq
  <1>6. p \in Nat \ {0}
    BY <1>3, <1>4
  <1> HIDE DEF p
  <1>7. e \in EntriesTo(created) /\ seen.key \in 1 .. created
    BY <1>2, <1>3, <1>5 DEF EntriesTo
  <1>8. c \in Seq(EntriesTo(created)) /\ Len(files[f]) <= Len(c)
    <2>1. files[f] \in Seq(EntriesTo(created)) /\ Len(files[f]) \in Nat
      BY <1>3, Known
    <2>2. Stored(files[f], p, e) \in Seq(EntriesTo(created))
          /\ Len(Stored(files[f], p, e)) >= Len(files[f])
      <3> HIDE DEF e, f
      <3> QED BY <1>2, <1>6, <1>7, <2>1, StoredType
    <2> QED BY <2>1, <2>2, LenProperties
  <1>9. /\ files' = [files EXCEPT ![f] = c] /\ flagged' = flagged \cup {<<seen.key, job[w].flag>>}
        /\ UNCHANGED <<name, dead, calls, created, sent, done>> /\ FinishChange(w)
    BY DEF Store, p
  <1>10. flagged' \subseteq (1 .. created) \X Flags
    <2>1. flagged \subseteq (1 .. created) \X Flags
      BY DEF IInv, TypeOK
    <2>2. <<seen.key, job[w].flag>> \in (1 .. created) \X Flags
      BY <1>3, <1>7
    <2> HIDE DEF seen
    <2> QED BY <1>9, <2>1, <2>2
  <1>11. harm' \subseteq Races
    <2>1. \E b : harm' = harm \cup Exposed(w) \cup Truncated(w) \cup Mistaken(w, b)
      BY DEF Store
    <2> QED BY <2>1, HarmType DEF IInv, TypeOK
  <1>12. After(w, "idle", NoJob) /\ LockStep(w, "idle", NoJob) /\ Clear(w, NoJob)
    BY <1>9, FinishAfter
  <1>13. NoJob \in JobsTo(created, Len(files)) /\ Fits("idle", NoJob, files') /\ "idle" \in Steps
    BY Known, IdleFits DEF Steps
  <1>14. RewriteStep(w, "idle")
    BY <1>1, <1>9 DEF RewriteStep, Rewrite
  <1>15. done' \subseteq 1 .. created /\ sent' \in Seq(1 .. created)
    BY <1>9 DEF IInv, TypeOK
  <1>16. UNCHANGED <<name, dead, calls, created>> /\ files' = [files EXCEPT ![f] = c]
    BY <1>9
  <1> HIDE DEF f, c
  <1> QED BY <1>1, <1>3, <1>8, <1>10, <1>11, <1>12, <1>13, <1>14, <1>15, <1>16, WriteStep

LEMMA ShiftKeeps ==
  ASSUME IInv, NEW w \in Workers, Shift(w)
  PROVE  IInv'
  <1> DEFINE f == job[w].file
             dup == job[w].buf
             c == [p \in DOMAIN files[f] |-> IF p >= job[w].pos /\ p < Len(dup) THEN dup[p + 1]
                                             ELSE files[f][p]]
  <1>1. w \in Workers \ dead /\ pc[w] = "shift"
    BY DEF Shift, At
  <1>2. job[w] \in JobsTo(created, Len(files)) /\ Fits(pc[w], job[w], files) /\ created \in Nat
    BY <1>1, Known
  <1>3. /\ f \in 1 .. Len(files) /\ dup \in Seq(EntriesTo(created)) /\ job[w].pos \in Nat
        /\ job[w].pos \in 1 .. Len(dup) /\ Len(dup) <= Len(files[f])
    BY <1>1, <1>2 DEF Fits, Opened, Shifts, JobsTo
  <1>4. files[f] \in Seq(EntriesTo(created)) /\ Len(files[f]) \in Nat
        /\ DOMAIN files[f] = 1 .. Len(files[f]) /\ Len(dup) \in Nat
    BY <1>3, Known, LenProperties
  <1>5. c \in Seq(EntriesTo(created)) /\ Len(c) = Len(files[f])
    <2>1. ASSUME NEW p \in 1 .. Len(files[f])
          PROVE  c[p] \in EntriesTo(created)
      <3>1. CASE p >= job[w].pos /\ p < Len(dup)
        <4>1. p + 1 \in 1 .. Len(dup)
          BY <1>4, <3>1
        <4> QED BY <1>3, <1>4, <3>1, <4>1, ElementOfSeq
      <3>2. CASE ~ (p >= job[w].pos /\ p < Len(dup))
        BY <1>4, <3>2, ElementOfSeq
      <3> QED BY <3>1, <3>2
    <2>2. c \in [1 .. Len(files[f]) -> EntriesTo(created)]
      BY <1>4, <2>1
    <2>3. c \in Seq(EntriesTo(created))
      BY <1>4, <2>2, SeqDef
    <2>4. DOMAIN c = 1 .. Len(c) /\ Len(c) \in Nat
      BY <2>3, LenProperties
    <2> HIDE DEF c
    <2>5. 1 .. Len(c) = 1 .. Len(files[f])
      BY <2>2, <2>4
    <2> QED BY <1>4, <2>3, <2>4, <2>5, SameRange
  <1>6. /\ files' = [files EXCEPT ![f] = c] /\ LockStep(w, "truncate", job[w])
        /\ Clear(w, job[w])
        /\ UNCHANGED <<name, locked, dead, calls, created, sent, done, flagged>>
    BY <1>1 DEF Shift, LockStep, Locking, Clear
  <1>7. harm' \subseteq Races
    BY HarmType DEF Shift, IInv, TypeOK
  <1>8. After(w, "truncate", job[w]) /\ "truncate" \in Steps
    BY DEF Shift, After, Goto, Steps
  <1>9. Fits("truncate", job[w], files')
    <2>1. Len(files') = Len(files) /\ files'[f] = c
      <3>1. files \in Seq(Seq(EntriesTo(created)))
        BY Known
      <3>2. files' = [files EXCEPT ![f] = c] /\ f \in 1 .. Len(files)
            /\ c \in Seq(EntriesTo(created))
        BY <1>3, <1>5, <1>6
      <3> HIDE DEF c, f
      <3> QED BY <3>1, <3>2, ExceptSeq
    <2> HIDE DEF c
    <2> QED BY <1>1, <1>2, <1>3, <1>5, <2>1 DEF Fits, Opened, Aimed, Shifts, Reads
  <1>10. RewriteStep(w, "truncate")
    BY <1>1, <1>6 DEF RewriteStep, Rewrite
  <1>11. done' \subseteq 1 .. created /\ sent' \in Seq(1 .. created)
         /\ flagged' \subseteq (1 .. created) \X Flags
    BY <1>6 DEF IInv, TypeOK
  <1>12. UNCHANGED <<name, dead, calls, created>> /\ Len(files[f]) <= Len(c)
    BY <1>4, <1>5, <1>6
  <1> HIDE DEF f, c
  <1> QED BY <1>1, <1>2, <1>3, <1>5, <1>6, <1>7, <1>8, <1>9, <1>10, <1>11, <1>12, WriteStep

LEMMA TruncateKeeps ==
  ASSUME IInv, NEW w \in Workers, Truncate(w)
  PROVE  IInv'
  <1> DEFINE f == job[w].file
             n == Len(job[w].buf) - 1
             c == SubSeq(files[f], 1, n)
  <1>1. w \in Workers \ dead /\ pc[w] = "truncate"
    BY DEF Truncate, At
  <1>2. job[w] \in JobsTo(created, Len(files)) /\ Fits(pc[w], job[w], files) /\ created \in Nat
    BY <1>1, Known
  <1>3. /\ f \in 1 .. Len(files) /\ job[w].buf \in Seq(EntriesTo(created))
        /\ Len(job[w].buf) <= Len(files[f]) /\ job[w].gone \subseteq 0 .. created
    BY <1>1, <1>2 DEF Fits, Opened, Shifts, JobsTo
  <1>4. files[f] \in Seq(EntriesTo(created)) /\ Len(files[f]) \in Nat /\ Len(job[w].buf) \in Nat
    BY <1>3, Known, LenProperties
  <1>5. c \in Seq(EntriesTo(created))
    <2>1. n \in Int /\ \A i \in 1 .. n : i \in 1 .. Len(files[f])
      BY <1>3, <1>4
    <2>2. \A i \in 1 .. n : files[f][i] \in EntriesTo(created)
      BY <1>4, <2>1, ElementOfSeq
    <2> HIDE DEF n, f
    <2> QED BY <2>1, <2>2, SubSeqProperties
  <1>6. /\ files' = [files EXCEPT ![f] = c] /\ done' = done \cup (job[w].gone \ {0})
        /\ UNCHANGED <<name, dead, calls, created, sent, flagged>>
    BY DEF Truncate
  <1>7. harm' \subseteq Races
    BY HarmType DEF Truncate, IInv, TypeOK
  <1>8. After(w, "idle", NoJob) /\ LockStep(w, "idle", NoJob) /\ Clear(w, NoJob)
    BY FinishAfter DEF Truncate
  <1>9. NoJob \in JobsTo(created, Len(files)) /\ Fits("idle", NoJob, files') /\ "idle" \in Steps
    BY Known, IdleFits DEF Steps
  <1>10. RewriteStep(w, "idle")
    BY <1>1, <1>6 DEF RewriteStep, Rewrite
  <1>11. done' \subseteq 1 .. created /\ sent' \in Seq(1 .. created)
         /\ flagged' \subseteq (1 .. created) \X Flags
    <2>1. done \subseteq 1 .. created /\ job[w].gone \ {0} \subseteq 1 .. created
      BY <1>2, <1>3 DEF IInv, TypeOK
    <2>2. sent' \in Seq(1 .. created) /\ flagged' \subseteq (1 .. created) \X Flags
      BY <1>6 DEF IInv, TypeOK
    <2> QED BY <1>6, <2>1, <2>2
  <1>12. UNCHANGED <<name, dead, calls, created>> /\ f = job[w].file /\ pc[w] \in Locking
    BY <1>1, <1>6 DEF Locking
  <1> HIDE DEF f, c
  <1> QED BY <1>1, <1>3, <1>5, <1>6, <1>7, <1>8, <1>9, <1>10, <1>11, <1>12, WriteStep

LEMMA PutKeeps ==
  ASSUME IInv, NEW w \in Workers, Put(w)
  PROVE  IInv'
  <1> DEFINE f == job[w].file
             e == Tombstone(job[w].buf[1])
             c == [files[f] EXCEPT ![job[w].pos] = e]
  <1>1. w \in Workers \ dead /\ pc[w] = "put"
    BY DEF Put, At
  <1>2. job[w] \in JobsTo(created, Len(files)) /\ Fits(pc[w], job[w], files) /\ created \in Nat
    BY <1>1, Known
  <1>3. /\ f \in 1 .. Len(files) /\ job[w].buf \in Seq(EntriesTo(created))
        /\ Len(job[w].buf) = 1 /\ job[w].gone \subseteq 0 .. created /\ 0 \notin job[w].gone
    BY <1>1, <1>2 DEF Fits, Opened, Reads, JobsTo
  <1>4. e \in EntriesTo(created)
    <2>1. job[w].buf[1] \in EntriesTo(created)
      BY <1>3, ElementOfSeq
    <2> QED BY <1>2, <2>1 DEF Tombstone, EntriesTo
  <1>5. files[f] \in Seq(EntriesTo(created)) /\ Len(files[f]) \in Nat
        /\ DOMAIN files[f] = 1 .. Len(files[f])
    BY <1>3, Known, LenProperties
  <1>6. c \in Seq(EntriesTo(created)) /\ Len(c) = Len(files[f])
    <2> HIDE DEF e, f
    <2>1. CASE job[w].pos \in 1 .. Len(files[f])
      BY <1>4, <1>5, <2>1, ExceptSeq
    <2>2. CASE job[w].pos \notin 1 .. Len(files[f])
      <3>1. files[f] \in [1 .. Len(files[f]) -> EntriesTo(created)]
        BY <1>5, LenProperties
      <3>2. c = files[f]
        BY <2>2, <3>1
      <3> QED BY <1>5, <3>2
    <2> QED BY <2>1, <2>2
  <1>7. /\ files' = [files EXCEPT ![f] = c] /\ done' = done \cup job[w].gone
        /\ UNCHANGED <<name, dead, calls, created, sent, flagged>>
    BY DEF Put
  <1>8. harm' \subseteq Races
    <2>1. \E b : harm' = harm \cup Exposed(w) \cup Mistaken(w, b)
      BY DEF Put
    <2> QED BY <2>1, HarmType DEF IInv, TypeOK
  <1>9. After(w, "idle", NoJob) /\ LockStep(w, "idle", NoJob) /\ Clear(w, NoJob)
    BY FinishAfter DEF Put
  <1>10. NoJob \in JobsTo(created, Len(files)) /\ Fits("idle", NoJob, files') /\ "idle" \in Steps
    BY Known, IdleFits DEF Steps
  <1>11. RewriteStep(w, "idle")
    BY <1>1, <1>7 DEF RewriteStep, Rewrite
  <1>12. done' \subseteq 1 .. created /\ sent' \in Seq(1 .. created)
         /\ flagged' \subseteq (1 .. created) \X Flags
    BY <1>2, <1>3, <1>7 DEF IInv, TypeOK
  <1>13. UNCHANGED <<name, dead, calls, created>> /\ Len(files[f]) <= Len(c)
    BY <1>5, <1>6, <1>7
  <1> HIDE DEF f, c
  <1> QED BY <1>1, <1>3, <1>6, <1>7, <1>8, <1>9, <1>10, <1>11, <1>12, <1>13, WriteStep

-----------------------------------------------------------------------------
\* A step that creates a file.
LEMMA CreateStep ==
  ASSUME IInv, NEW w \in Workers \ dead, NEW s \in Steps,
         NEW j \in JobsTo(created, Len(files) + 1), After(w, s, j),
         files' = Append(files, <<>>),
         name' \in Names(Len(files) + 1),
         UNCHANGED <<dead, calls, created, sent, done, flagged>>, harm' \subseteq Races,
         LockStep(w, s, j), RewriteStep(w, s), ApartStep(w, j), Fits(s, j, files')
  PROVE  IInv'
  <1>1. created \in Nat /\ Len(files) \in Nat /\ files \in Seq(Seq(EntriesTo(created)))
    BY Known
  <1>2. /\ files' \in Seq(Seq(EntriesTo(created))) /\ Len(files') = Len(files) + 1
        /\ \A g \in 1 .. Len(files) : files'[g] = files[g]
    BY <1>1, AppendProperties, EmptySeq
  <1>3. NoneCut(w)
    <2>1. \A v \in Workers : job[v].file \in 1 .. Len(files) => Len(files[job[v].file]) \in Nat
      BY Known
    <2> QED BY <1>2, <2>1 DEF NoneCut
  <1>4. /\ j \in JobsTo(created', Len(files')) /\ created' \in Nat /\ created <= created'
        /\ files' \in Seq(Seq(EntriesTo(created'))) /\ Len(files) <= Len(files')
        /\ dead' = dead
    BY <1>1, <1>2
  <1>5. /\ name' \in Names(Len(files'))
        /\ calls' \in 0 .. MaxCalls
        /\ sent' \in Seq(1 .. created') /\ done' \subseteq 1 .. created'
        /\ flagged' \subseteq (1 .. created') \X Flags
    BY <1>2 DEF IInv, TypeOK
  <1> QED BY <1>3, <1>4, <1>5, AnyStep

Renewed(i, look, ids, b) ==
  [i EXCEPT !.op = "m_new", !.look = look, !.ids = ids, !.stale = b]

LEMMA RenewedType ==
  ASSUME NEW c, NEW n, NEW i \in JobsTo(c, n), NEW look \in Seq(EntriesTo(c)),
         NEW ids \in SUBSET (Nat \ {0}), NEW b \in BOOLEAN
  PROVE  /\ Renewed(i, look, ids, b) \in JobsTo(c, n)
         /\ Renewed(i, look, ids, b).op = "m_new" /\ Renewed(i, look, ids, b).gone = i.gone
         /\ Renewed(i, look, ids, b).file = i.file
  BY DEF Renewed, JobsTo, Ops

\* A call that ends, or the next one of m_new's, has nothing in hand.
LEMMA EndRewriteAfter ==
  ASSUME IInv, NEW w \in Workers \ dead, pc[w] \notin Locking,
         EndRewrite(w, job) \/ EndRewrite(w, Outdated(w))
  PROVE  \E s \in {"open", "idle"}, j \in JobsTo(created, Len(files)) :
           /\ After(w, s, j) /\ LockStep(w, s, j) /\ j.file = 0
           /\ \A fs : Fits(s, j, fs)
  <1>1. job[w] \in JobsTo(created, Len(files)) /\ created \in Nat /\ Len(files) \in Nat
    BY Known
  <1>2. UNCHANGED locked
    BY DEF EndRewrite
  <1>3. CASE Goto(w, "idle") /\ (job' = [job EXCEPT ![w] = NoJob]
                                 \/ job' = [Outdated(w) EXCEPT ![w] = NoJob])
    <2>1. After(w, "idle", NoJob) /\ LockStep(w, "idle", NoJob)
      BY <1>2, <1>3 DEF After, Goto, LockStep, Locking
    <2>2. NoJob.file = 0
      BY DEF NoJob
    <2> QED BY <1>1, <2>1, <2>2, IdleFits
  <1>4. CASE Goto(w, "open") /\ (job' = [job EXCEPT ![w] = Continued(w)]
                                 \/ job' = [Outdated(w) EXCEPT ![w] = Continued(w)])
    <2>1. After(w, "open", Continued(w)) /\ LockStep(w, "open", Continued(w))
      BY <1>2, <1>4 DEF After, Goto, LockStep, Locking
    <2>2. /\ Continued(w) \in JobsTo(created, Len(files))
          /\ Continued(w).op = "m_new" /\ Continued(w).gone = {} /\ Continued(w).file = 0
      <3> DEFINE ids == job[w].ids \ {Current(w)}
      <3>1. job[w].look \in Seq(EntriesTo(created)) /\ job[w].stale \in BOOLEAN
            /\ ids \in SUBSET (Nat \ {0})
        BY <1>1 DEF JobsTo
      <3>2. Continued(w) = Renewed(NoJob, job[w].look, ids, job[w].stale)
        BY DEF Continued, Renewed
      <3>3. NoJob \in JobsTo(created, Len(files)) /\ NoJob.gone = {} /\ NoJob.file = 0
        BY <1>1, IdleFits DEF NoJob
      <3> HIDE DEF ids
      <3> QED BY <3>1, <3>2, <3>3, RenewedType
    <2>3. \A fs : Fits("open", Continued(w), fs)
      BY <2>2 DEF Fits, Opened, Aimed, Shifts, Reads
    <2> QED BY <2>1, <2>2, <2>3
  <1> QED BY <1>3, <1>4 DEF EndRewrite

LEMMA OpenedType ==
  ASSUME NEW c, NEW n \in Nat, NEW m \in Nat, NEW i \in JobsTo(c, n), NEW f \in 0 .. m
  PROVE  /\ n <= m => [i EXCEPT !.file = f] \in JobsTo(c, m)
         /\ [i EXCEPT !.file = f].file = f /\ [i EXCEPT !.file = f].op = i.op
         /\ [i EXCEPT !.file = f].ids = i.ids /\ [i EXCEPT !.file = f].look = i.look
         /\ [i EXCEPT !.file = f].key = i.key /\ [i EXCEPT !.file = f].gone = i.gone
  <1>1. n <= m => i.out \in 0 .. m
    BY DEF JobsTo
  <1>2. ASSUME n <= m PROVE [i EXCEPT !.file = f] \in JobsTo(c, m)
    BY <1>1, <1>2 DEF JobsTo
  <1> QED BY <1>2 DEF JobsTo

\* The first step after opening fits the operation, whatever file it is.
LEMMA FirstFits ==
  ASSUME IInv, NEW w \in Workers \ dead, pc[w] = "open",
         NEW fs, NEW m \in Nat, Len(files) <= m, NEW f \in 1 .. m, Len(fs) = m
  PROVE  LET s == FirstStep(job[w].op)
             j == [job[w] EXCEPT !.file = f]
         IN  /\ s \in Steps \ {"scan", "shift", "truncate", "read", "put",
                               "copy", "retire", "promote", "load", "sift", "flush"}
             /\ j \in JobsTo(created, m) /\ Fits(s, j, fs)
  <1> DEFINE s == FirstStep(job[w].op)
             j == [job[w] EXCEPT !.file = f]
  <1>1. job[w] \in JobsTo(created, Len(files)) /\ Fits(pc[w], job[w], files)
    BY Known
  <1>2. job[w].op \in Ops
    BY <1>1 DEF JobsTo
  <1>3. /\ s \in {"write", "store", "flock", "excl", "wipe"}
        /\ s = "write" => job[w].op = "append"
        /\ s = "store" => job[w].op = "substitute"
    BY <1>2 DEF FirstStep, Ops
  <1>4. /\ j \in JobsTo(created, m) /\ j.file = f /\ j.op = job[w].op /\ j.ids = job[w].ids
        /\ j.look = job[w].look /\ j.key = job[w].key /\ j.gone = job[w].gone
    <2>1. f \in 0 .. m /\ Len(files) \in Nat
      BY Known
    <2> QED BY <1>1, <2>1, OpenedType
  <1> HIDE DEF s, j
  <1>5. Fits(s, j, fs)
    BY <1>1, <1>3, <1>4 DEF Fits, Opened, Aimed, Shifts, Reads
  <1>6. s \in Steps \ {"scan", "shift", "truncate", "read", "put", "copy", "retire", "promote",
                        "load", "sift", "flush"}
    BY <1>3 DEF Steps
  <1>7. /\ s \in Steps \ {"scan", "shift", "truncate", "read", "put",
                          "copy", "retire", "promote", "load", "sift", "flush"}
        /\ j \in JobsTo(created, m) /\ Fits(s, j, fs)
    BY <1>4, <1>5, <1>6
  <1> QED BY <1>7 DEF s, j

LEMMA OpenKeeps ==
  ASSUME IInv, NEW w \in Workers, Open(w)
  PROVE  IInv'
  <1> DEFINE s == FirstStep(job[w].op)
  <1>1. w \in Workers \ dead /\ pc[w] = "open" /\ pc[w] \notin Rewrite /\ pc[w] \notin Locking
    BY DEF Open, At, Rewrite, Locking
  <1>2. /\ UNCHANGED <<dead, calls, created, sent, done, flagged>>
        /\ done' \subseteq 1 .. created
    BY DEF Open, IInv, TypeOK
  <1>3. Len(files) \in Nat /\ name.dir \in 0 .. Len(files) /\ name.tmp \in 0 .. Len(files)
        /\ files \in Seq(Seq(EntriesTo(created)))
        /\ name \in Names(Len(files))
    BY Known DEF IInv, TypeOK, Names
  <1>4. CASE /\ name.dir # 0
             /\ job' = [job EXCEPT ![w].file = name.dir]
             /\ Goto(w, s)
             /\ UNCHANGED <<files, name, locked, harm>>
    <2> DEFINE j == [job[w] EXCEPT !.file = name.dir]
    <2>1. name.dir \in 1 .. Len(files) /\ Len(files) <= Len(files)
      BY <1>3, <1>4
    <2>2. /\ s \in Steps \ {"scan", "shift", "truncate", "read", "put",
                            "copy", "retire", "promote", "load", "sift", "flush"}
          /\ j \in JobsTo(created, Len(files)) /\ Fits(s, j, files)
      BY <1>1, <1>3, <2>1, FirstFits
    <2>3. After(w, s, j) /\ Clear(w, j)
      <3>1. j.file = name.dir
        BY <1>1, <1>3, <2>1, Known, OpenedType
      <3> HIDE DEF j
      <3>2. job' = [job EXCEPT ![w] = j]
        BY <1>4 DEF j
      <3> QED BY <1>4, <3>1, <3>2 DEF After, Goto, Clear
    <2>4. LockStep(w, s, j) /\ s \notin Rewrite
      BY <1>1, <1>4, <2>2 DEF LockStep, Locking, Rewrite
    <2>5. harm' \subseteq Races
      BY <1>4 DEF IInv, TypeOK
    <2> HIDE DEF s, j
    <2> QED BY <1>1, <1>2, <1>4, <2>2, <2>3, <2>4, <2>5, PlainStep
  <1>5. CASE /\ name.dir = 0
             /\ files' = Append(files, <<>>)
             /\ name' = [name EXCEPT !.dir = Len(files) + 1]
             /\ job' = [job EXCEPT ![w].file = Len(files) + 1]
             /\ harm' = harm \cup {"overtaken"}
             /\ Goto(w, s)
             /\ UNCHANGED locked
    <2> DEFINE n == Len(files) + 1
               j == [job[w] EXCEPT !.file = n]
    <2>1. n \in 1 .. n /\ Len(files') = n /\ n \in Nat /\ Len(files) <= n
      BY <1>3, <1>5, AppendProperties, EmptySeq
    <2>2. /\ s \in Steps \ {"scan", "shift", "truncate", "read", "put",
                            "copy", "retire", "promote", "load", "sift", "flush"}
          /\ j \in JobsTo(created, n) /\ Fits(s, j, files')
      BY <1>1, <1>3, <2>1, FirstFits
    <2>3. After(w, s, j)
      BY <1>5 DEF After, Goto
    <2>8. ApartStep(w, j)
      <3>1. j.file = n
        BY <1>1, <1>3, <2>1, Known, OpenedType
      <3>2. name'.web = name.web /\ name'.tmp = name.tmp /\ name'.dir = n
        BY <1>3, <1>5 DEF Names
      <3> HIDE DEF j
      <3> QED BY <3>1, <3>2 DEF ApartStep, Clear
    <2>4. LockStep(w, s, j) /\ s \notin Rewrite
      BY <1>1, <1>5, <2>2 DEF LockStep, Locking, Rewrite
    <2>5. harm' \subseteq Races
      BY <1>5 DEF IInv, TypeOK, Races
    <2>6. name' \in Names(n) /\ name'.tmp = name.tmp /\ name'.dir = n
      <3>1. name' = [name EXCEPT !.dir = n] /\ n \in 0 .. n
            /\ name \in Names(n)
        BY <1>3, <1>5 DEF Names
      <3> HIDE DEF n
      <3> QED BY <3>1 DEF Names
    <2>7. RewriteStep(w, s)
      BY <1>1, <1>3, <2>4, <2>6 DEF RewriteStep
    <2> HIDE DEF s, j
    <2> QED BY <1>1, <1>2, <1>5, <2>2, <2>3, <2>4, <2>5, <2>6, <2>7, <2>8, CreateStep
  <1>6. CASE /\ EndRewrite(w, job) \/ Finish(w)
             /\ UNCHANGED <<files, name, harm>>
    <2>1. harm' \subseteq Races
      BY <1>6 DEF IInv, TypeOK
    <2>2. CASE EndRewrite(w, job)
      <3>1. PICK t \in {"open", "idle"}, j \in JobsTo(created, Len(files)) :
              After(w, t, j) /\ LockStep(w, t, j) /\ Clear(w, j) /\ Fits(t, j, files)
        BY <1>1, <2>2, EndRewriteAfter DEF Clear
      <3>2. t \in Steps /\ t \notin Rewrite
        BY DEF Steps, Rewrite
      <3> QED BY <1>1, <1>2, <1>6, <2>1, <3>1, <3>2, PlainStep
    <2>3. CASE Finish(w)
      <3>1. "idle" \in Steps /\ "idle" \notin Rewrite
        BY DEF Steps, Rewrite
      <3>2. NoJob \in JobsTo(created, Len(files)) /\ Fits("idle", NoJob, files)
        BY Known, IdleFits
      <3> QED BY <1>1, <1>2, <1>6, <2>1, <2>3, <3>1, <3>2, FinishAfter, PlainStep
    <2> QED BY <1>6, <2>2, <2>3
  <1> HIDE DEF s
  <1>7. /\ At(w, "open")
        /\ \/ /\ name.dir # 0
              /\ job' = [job EXCEPT ![w].file = name.dir]
              /\ Goto(w, s)
              /\ UNCHANGED <<files, name, locked, harm>>
           \/ /\ name.dir = 0
              /\ files' = Append(files, <<>>)
              /\ name' = [name EXCEPT !.dir = Len(files) + 1]
              /\ job' = [job EXCEPT ![w].file = Len(files) + 1]
              /\ harm' = harm \cup {"overtaken"}
              /\ Goto(w, s)
              /\ UNCHANGED locked
           \/ /\ EndRewrite(w, job) \/ Finish(w)
              /\ UNCHANGED <<files, name, harm>>
    BY DEF Open, s
  <1> QED BY <1>4, <1>5, <1>6, <1>7

-----------------------------------------------------------------------------
\* The rewriters.
LEMMA ExclKeeps ==
  ASSUME IInv, NEW w \in Workers, Excl(w)
  PROVE  IInv'
  <1>1. w \in Workers \ dead /\ pc[w] = "excl" /\ pc[w] \notin Rewrite /\ pc[w] \notin Locking
    BY DEF Excl, At, Rewrite, Locking
  <1>2. /\ UNCHANGED <<dead, calls, created, sent, done, flagged>>
        /\ done' \subseteq 1 .. created
    BY DEF Excl, IInv, TypeOK
  <1>3. /\ Len(files) \in Nat /\ files \in Seq(Seq(EntriesTo(created)))
        /\ name \in Names(Len(files))
        /\ job[w] \in JobsTo(created, Len(files)) /\ Fits(pc[w], job[w], files)
    BY <1>1, Known DEF IInv, TypeOK, Names
  <1>4. CASE EndRewrite(w, job) /\ UNCHANGED <<files, name, harm>>
    <2>1. PICK s \in {"open", "idle"}, j \in JobsTo(created, Len(files)) :
            After(w, s, j) /\ LockStep(w, s, j) /\ Clear(w, j) /\ Fits(s, j, files)
      BY <1>1, <1>4, EndRewriteAfter DEF Clear
    <2>2. s \in Steps /\ s \notin Rewrite
      BY DEF Steps, Rewrite
    <2>3. harm' \subseteq Races
      BY <1>4 DEF IInv, TypeOK
    <2> QED BY <1>1, <1>2, <1>4, <2>1, <2>2, <2>3, PlainStep
  <1>5. CASE /\ name.tmp = 0
             /\ files' = Append(files, <<>>)
             /\ name' = [name EXCEPT !.tmp = Len(files) + 1]
             /\ job' = [job EXCEPT ![w].pos = 1]
             /\ harm' = harm \cup Copied(w)
             /\ Goto(w, "copy")
             /\ UNCHANGED locked
    <2> DEFINE n == Len(files) + 1
               j == [job[w] EXCEPT !.pos = 1]
    <2>1. Len(files') = n /\ n \in 1 .. n
      BY <1>3, <1>5, AppendProperties, EmptySeq
    <2>2. job[w] \in JobsTo(created, n)
      BY <1>3, JobsGrow, Known
    <2>3. j \in JobsTo(created, n) /\ SameAim(j, job[w]) /\ j.pos = 1 /\ j.gone = job[w].gone
      BY <2>2 DEF JobsTo, SameAim
    <2>4. Fits("copy", j, files')
      BY <1>1, <1>3, <2>1, <2>3 DEF Fits, Opened, Aimed, Shifts, Reads, SameAim
    <2>5. After(w, "copy", j)
      BY <1>5 DEF After, Goto
    <2>6. LockStep(w, "copy", j) /\ "copy" \in Steps /\ "copy" \in Rewrite
      BY <1>1, <1>5 DEF LockStep, Locking, Steps, Rewrite
    <2>7. name' \in Names(n) /\ name'.tmp = n /\ name'.dir = name.dir
      <3>1. name' = [name EXCEPT !.tmp = n] /\ n \in 0 .. n
            /\ name \in Names(n)
        BY <1>3, <1>5 DEF Names
      <3> HIDE DEF n
      <3> QED BY <3>1 DEF Names
    <2>8. RewriteStep(w, "copy")
      BY <1>1, <1>3, <1>5, <2>6, <2>7 DEF RewriteStep
    <2>10. ApartStep(w, j)
      <3>1. name'.web = name.web /\ name'.tmp = n /\ name'.dir = name.dir
        BY <1>3, <1>5 DEF Names
      <3> HIDE DEF j
      <3> QED BY <2>3, <3>1 DEF ApartStep, Clear, SameAim
    <2>9. harm' \subseteq Races
      BY <1>5, HarmType DEF IInv, TypeOK
    <2> HIDE DEF j
    <2> QED BY <1>1, <1>2, <1>5, <2>3, <2>4, <2>5, <2>6, <2>7, <2>8, <2>9, <2>10, CreateStep
  <1> QED BY <1>4, <1>5 DEF Excl

LEMMA CopyFailsKeeps ==
  ASSUME IInv, NEW w \in Workers, CopyFails(w)
  PROVE  IInv'
  <1>1. w \in Workers \ dead /\ pc[w] = "copy" /\ pc[w] \in Rewrite /\ pc[w] \notin Locking
    BY DEF CopyFails, At, Rewrite, Locking
  <1>2. PICK s \in {"open", "idle"}, j \in JobsTo(created, Len(files)) :
          After(w, s, j) /\ LockStep(w, s, j) /\ Clear(w, j) /\ Fits(s, j, files)
    BY <1>1, EndRewriteAfter DEF Clear, CopyFails
  <1>3. s \in Steps /\ s \notin Rewrite
    BY DEF Steps, Rewrite
  <1>4. name \in Names(Len(files)) /\ Len(files) \in Nat
    BY Known DEF IInv, TypeOK, Names
  <1>5. name' = [name EXCEPT !.tmp = 0]
    BY DEF CopyFails
  <1>6. name' \in Names(Len(files)) /\ name'.dir = name.dir
        /\ name'.tmp = 0 /\ name'.web = name.web
    BY <1>4, <1>5 DEF Names
  <1>7. RewriteStep(w, s) /\ ApartStep(w, j)
    BY <1>1, <1>2, <1>3, <1>6 DEF RewriteStep, ApartStep
  <1>8. /\ UNCHANGED <<files, dead, calls, created, sent, flagged>>
        /\ done' \subseteq 1 .. created /\ harm' \subseteq Races
    BY DEF CopyFails, IInv, TypeOK
  <1> QED BY <1>1, <1>2, <1>3, <1>6, <1>7, <1>8, NameStep

LEMMA RetireKeeps ==
  ASSUME IInv, NEW w \in Workers, Retire(w)
  PROVE  IInv'
  <1>1. w \in Workers \ dead /\ pc[w] = "retire" /\ pc[w] \in Rewrite /\ pc[w] \notin Locking
    BY DEF Retire, At, Rewrite, Locking
  <1>2. "promote" \in Steps /\ "promote" \in Rewrite /\ "promote" \notin Locking
    BY DEF Steps, Rewrite, Locking
  <1>3. job[w] \in JobsTo(created, Len(files)) /\ Fits(pc[w], job[w], files)
    BY <1>1, Known
  <1>4. After(w, "promote", job[w]) /\ LockStep(w, "promote", job[w])
    BY <1>1, <1>2 DEF Retire, After, Goto, LockStep, IInv, TypeOK
  <1>5. Fits("promote", job[w], files)
    BY <1>1, <1>3 DEF Fits, Opened, Aimed, Shifts, Reads
  <1>6. name \in Names(Len(files)) /\ Len(files) \in Nat
    BY Known DEF IInv, TypeOK, Names
  <1>7. name' = [name EXCEPT !.dir = 0]
    BY DEF Retire
  <1>8. name' \in Names(Len(files)) /\ name'.tmp = name.tmp
        /\ name'.dir = 0 /\ name'.web = name.web
    BY <1>6, <1>7 DEF Names
  <1>9. RewriteStep(w, "promote") /\ ApartStep(w, job[w])
    BY <1>1, <1>2, <1>8 DEF RewriteStep, ApartStep, Clear
  <1>10. /\ UNCHANGED <<files, dead, calls, created, sent, flagged>>
         /\ done' \subseteq 1 .. created /\ harm' \subseteq Races
    BY DEF Retire, IInv, TypeOK
  <1> QED BY <1>1, <1>2, <1>3, <1>4, <1>5, <1>8, <1>9, <1>10, NameStep

LEMMA PromoteKeeps ==
  ASSUME IInv, NEW w \in Workers, Promote(w)
  PROVE  IInv'
  <1>1. w \in Workers \ dead /\ pc[w] = "promote" /\ pc[w] \in Rewrite /\ pc[w] \notin Locking
    BY DEF Promote, At, Rewrite, Locking
  <1>2. PICK s \in {"open", "idle"}, j \in JobsTo(created, Len(files)) :
          After(w, s, j) /\ LockStep(w, s, j) /\ Clear(w, j) /\ Fits(s, j, files)
    BY <1>1, EndRewriteAfter DEF Clear, Promote
  <1>3. s \in Steps /\ s \notin Rewrite
    BY DEF Steps, Rewrite
  <1>4. name \in Names(Len(files)) /\ Len(files) \in Nat
    BY Known DEF IInv, TypeOK, Names
  <1>5. name.tmp # 0
    BY <1>1 DEF IInv, OneRewriter, Rewriting
  <1>6. name' \in Names(Len(files)) /\ name'.dir # 0
        /\ name'.dir = name.tmp /\ name'.tmp = 0 /\ name'.web = name.web
    <2>1. name' = [name EXCEPT !.dir = name.tmp, !.tmp = 0]
      BY DEF Promote
    <2>2. name.tmp \in 0 .. Len(files) /\ 0 \in 0 .. Len(files)
      BY <1>4 DEF Names
    <2> QED BY <1>4, <1>5, <2>1, <2>2 DEF Names
  <1>7. RewriteStep(w, s) /\ ApartStep(w, j)
    BY <1>1, <1>2, <1>3, <1>6 DEF RewriteStep, ApartStep
  <1>8. done' \subseteq 1 .. created
    <2>1. job[w].gone \subseteq 0 .. created /\ 0 \notin job[w].gone /\ created \in Nat
      BY <1>1, Known DEF JobsTo, Fits, Reads
    <2>2. job[w].gone \subseteq 1 .. created
      BY <2>1
    <2> QED BY <2>2 DEF Promote, IInv, TypeOK
  <1>9. /\ UNCHANGED <<files, dead, calls, created, sent, flagged>> /\ harm' \subseteq Races
    BY HarmType DEF Promote, IInv, TypeOK
  <1> QED BY <1>1, <1>2, <1>3, <1>6, <1>7, <1>8, <1>9, NameStep

\* The loop of a rewriter moves on, leaving out the entries with keys gs.
Passed(i, gs) == [i EXCEPT !.pos = i.pos + 1, !.gone = i.gone \cup gs]

LEMMA PassedType ==
  ASSUME NEW c \in Nat, NEW n, NEW i \in JobsTo(c, n), NEW gs \in SUBSET (1 .. c)
  PROVE  /\ Passed(i, gs) \in JobsTo(c, n) /\ SameAim(Passed(i, gs), i)
         /\ Passed(i, gs).pos = i.pos + 1 /\ Passed(i, gs).gone = i.gone \cup gs
  <1>1. i.gone \in SUBSET (0 .. c) /\ i.pos \in Nat
    BY DEF JobsTo
  <1>2. gs \in SUBSET (0 .. c)
    <2>1. 1 .. c \subseteq 0 .. c
      OBVIOUS
    <2> QED BY <2>1
  <1>3. i.gone \cup gs \in SUBSET (0 .. c)
    <2> DEFINE g == i.gone
               r == 0 .. c
    <2>1. g \in SUBSET r /\ gs \in SUBSET r
      BY <1>1, <1>2
    <2>2. SUFFICES g \cup gs \in SUBSET r
      OBVIOUS
    <2> HIDE DEF g, r
    <2> QED BY <2>1
  <1>4. i.pos + 1 \in Nat
    BY <1>1
  <1> QED BY <1>3, <1>4 DEF JobsTo, SameAim, Passed

\* Only keys that the caller saw are recorded as deleted.
LEMMA HitType ==
  ASSUME NEW w, NEW p, NEW e, NEW c \in Nat, job[w].look \in Seq(EntriesTo(c))
  PROVE  Hit(w, p, e) \in SUBSET (1 .. c) /\ 0 \notin Hit(w, p, e)
  <1> DEFINE look == job[w].look
  <1>1. ASSUME NEW k \in Hit(w, p, e)
        PROVE  k \in 1 .. c
    <2>1. PICK q \in DOMAIN look : k = look[q].key /\ k # 0
      BY <1>1 DEF Hit
    <2>2. look[q] \in EntriesTo(c)
      BY LenProperties, ElementOfSeq
    <2>3. k \in 0 .. c
      BY <2>1, <2>2 DEF EntriesTo
    <2> QED BY <2>1, <2>3
  <1>2. 0 \notin Hit(w, p, e)
    BY DEF Hit
  <1> QED BY <1>1, <1>2

LEMMA CopyKeeps ==
  ASSUME IInv, NEW w \in Workers, Copy(w)
  PROVE  IInv'
  <1> DEFINE p == job[w].pos
             e == Content(w)[p]
  <1>1. w \in Workers \ dead /\ pc[w] = "copy" /\ pc[w] \in Rewrite /\ pc[w] \notin Locking
    BY DEF Copy, At, Rewrite, Locking
  <1>2. /\ UNCHANGED <<name, locked, dead, calls, created, sent, done, flagged>>
        /\ done' \subseteq 1 .. created /\ sent' \in Seq(1 .. created)
        /\ flagged' \subseteq (1 .. created) \X Flags
        /\ name' \in Names(Len(files))
    BY DEF Copy, IInv, TypeOK, Names
  <1>3. /\ job[w] \in JobsTo(created, Len(files)) /\ Fits(pc[w], job[w], files)
        /\ created \in Nat /\ Len(files) \in Nat
    BY <1>1, Known
  <1>4. /\ job[w].file \in 1 .. Len(files) /\ p \in Nat /\ p >= 1 /\ 0 \notin job[w].gone
    BY <1>1, <1>3 DEF Fits, Opened, Reads, JobsTo
  <1>5. Content(w) \in Seq(EntriesTo(created)) /\ Len(Content(w)) \in Nat
    BY <1>4, Known DEF Content
  <1>6. CASE p > Len(Content(w))
    <2>1. Goto(w, "retire") /\ UNCHANGED <<files, job, harm>>
      BY <1>6 DEF Copy
    <2>2. "retire" \in Steps /\ "retire" \in Rewrite /\ "retire" \notin Locking
      BY DEF Steps, Rewrite, Locking
    <2>3. After(w, "retire", job[w]) /\ LockStep(w, "retire", job[w])
      BY <1>1, <1>2, <2>1, <2>2 DEF After, Goto, LockStep, IInv, TypeOK
    <2>4. Fits("retire", job[w], files)
      BY <1>1, <1>3 DEF Fits, Opened, Aimed, Shifts, Reads
    <2>5. RewriteStep(w, "retire") /\ ApartStep(w, job[w])
      BY <1>1, <1>2, <2>2 DEF RewriteStep, ApartStep, Clear
    <2>6. harm' \subseteq Races
      BY <2>1 DEF IInv, TypeOK
    <2> QED BY <1>1, <1>2, <1>3, <2>1, <2>2, <2>3, <2>4, <2>5, <2>6, NameStep
  <1>7. CASE ~ (p > Len(Content(w)))
    <2>1. e \in EntriesTo(created)
      BY <1>4, <1>5, <1>7, ElementOfSeq
    <2>2. e.key \in 0 .. created
      BY <2>1 DEF EntriesTo
    <2>3. "copy" \in Steps /\ "copy" \in Rewrite /\ "copy" \notin Locking
      BY DEF Steps, Rewrite, Locking
    <2>4. UNCHANGED pc
      BY <1>7 DEF Copy
    <2>5. RewriteStep(w, "copy")
      BY <1>1, <1>2, <2>3 DEF RewriteStep
    <2>6. CASE Dropped(w, p, e)
      <3> DEFINE gs == Hit(w, p, e)
                 j == Passed(job[w], gs)
      <3>1. /\ job' = [job EXCEPT ![w] = j] /\ UNCHANGED files
            /\ harm' = harm \cup Mistaken(w, Hit(w, p, e) # {e.key} \ {0})
        BY <1>7, <2>6 DEF Copy, Passed
      <3>2. gs \in SUBSET (1 .. created) /\ 0 \notin gs
        BY <1>3, HitType DEF JobsTo
      <3> HIDE DEF gs
      <3>6. /\ j \in JobsTo(created, Len(files)) /\ SameAim(j, job[w]) /\ j.pos = p + 1
            /\ 0 \notin j.gone
        BY <1>3, <1>4, <3>2, PassedType
      <3>3. After(w, "copy", j) /\ LockStep(w, "copy", j)
        BY <1>1, <1>2, <2>3, <2>4, <3>1 DEF After, LockStep, IInv, TypeOK
      <3>4. Fits("copy", j, files)
        BY <1>1, <1>3, <1>4, <3>6 DEF Fits, Opened, Aimed, Shifts, Reads, SameAim
      <3>5. harm' \subseteq Races
        BY <3>1, HarmType DEF IInv, TypeOK
      <3> HIDE DEF j
      <3>7. ApartStep(w, j)
        BY <1>2, <3>6 DEF ApartStep, Clear, SameAim
      <3> QED BY <1>1, <1>2, <2>3, <2>5, <3>7, <3>1, <3>3, <3>4, <3>5, <3>6, NameStep
    <2>7. CASE ~ Dropped(w, p, e)
      <3> DEFINE j == Passed(job[w], {})
                 f == name.tmp
                 c == Append(files[f], e)
      <3>1. /\ job' = [job EXCEPT ![w] = j] /\ files' = [files EXCEPT ![f] = c]
            /\ UNCHANGED harm
        <4>1. job[w] = [job[w] EXCEPT !.gone = job[w].gone \cup {}]
          BY <1>3 DEF JobsTo
        <4>2. j = [job[w] EXCEPT !.pos = p + 1]
          BY <1>3, <4>1 DEF JobsTo, Passed
        <4> QED BY <1>7, <2>7, <4>2 DEF Copy
      <3>2. /\ j \in JobsTo(created, Len(files)) /\ SameAim(j, job[w]) /\ j.pos = p + 1
            /\ j.gone = job[w].gone
        <4> DEFINE gs == {}
        <4>1. gs \in SUBSET (1 .. created) /\ j = Passed(job[w], gs)
          OBVIOUS
        <4> HIDE DEF gs, j
        <4>2. /\ j \in JobsTo(created, Len(files)) /\ SameAim(j, job[w]) /\ j.pos = p + 1
              /\ j.gone = job[w].gone \cup gs
          <5> DEFINE i == job[w]
                     n == Len(files)
          <5>1. i \in JobsTo(created, n) /\ created \in Nat /\ i.pos = p
            BY <1>3
          <5> HIDE DEF i, n, p, e, f, c
          <5>2. /\ Passed(i, gs) \in JobsTo(created, n) /\ SameAim(Passed(i, gs), i)
                /\ Passed(i, gs).pos = i.pos + 1 /\ Passed(i, gs).gone = i.gone \cup gs
            BY ONLY <4>1, <5>1, PassedType
          <5>3. j = Passed(i, gs)
            BY <4>1 DEF i
          <5>4. /\ j \in JobsTo(created, n) /\ SameAim(j, i) /\ j.pos = p + 1
                /\ j.gone = i.gone \cup gs
            BY ONLY <5>1, <5>2, <5>3
          <5> QED BY <5>4 DEF i, n
        <4> QED BY <4>2 DEF gs
      <3>3. f \in 1 .. Len(files)
        BY <1>1 DEF IInv, OneRewriter, Rewriting, TypeOK, Names
      <3>4. c \in Seq(EntriesTo(created)) /\ Len(files[f]) <= Len(c)
        <4>1. files[f] \in Seq(EntriesTo(created)) /\ Len(files[f]) \in Nat
          BY <3>3, Known
        <4> HIDE DEF e, f
        <4> QED BY <2>1, <4>1, AppendProperties
      <3>5. After(w, "copy", j) /\ LockStep(w, "copy", j)
        BY <1>1, <1>2, <2>3, <2>4, <3>1 DEF After, LockStep, IInv, TypeOK
      <3>6. Fits("copy", j, files')
        <4>1. Len(files') = Len(files)
          <5>1. files \in Seq(Seq(EntriesTo(created)))
            BY Known
          <5> HIDE DEF c, f
          <5> QED BY <3>1, <3>3, <3>4, <5>1, ExceptSeq
        <4> QED BY <1>1, <1>3, <1>4, <3>2, <4>1 DEF Fits, Opened, Aimed, Shifts, Reads, SameAim
      <3>7. harm' \subseteq Races
        BY <3>1 DEF IInv, TypeOK
      <3>8. Clear(w, j)
        BY <3>2 DEF Clear, SameAim
      <3> HIDE DEF j, f, c
      <3> QED BY <3>8, <1>1, <1>2, <2>3, <2>5, <3>1, <3>2, <3>3, <3>4, <3>5, <3>6, <3>7, WriteStep
    <2> QED BY <2>6, <2>7
  <1> QED BY <1>6, <1>7

-----------------------------------------------------------------------------
\* bbsdelmail.
LEMMA OutType ==
  ASSUME NEW c, NEW n, NEW i \in JobsTo(c, n), NEW f \in 0 .. n
  PROVE  /\ [i EXCEPT !.out = f] \in JobsTo(c, n) /\ [i EXCEPT !.out = f].out = f
         /\ [i EXCEPT !.out = f].op = i.op /\ [i EXCEPT !.out = f].ids = i.ids
         /\ [i EXCEPT !.out = f].look = i.look /\ [i EXCEPT !.out = f].key = i.key
         /\ [i EXCEPT !.out = f].gone = i.gone /\ [i EXCEPT !.out = f].file = i.file
  BY DEF JobsTo

LEMMA WipeKeeps ==
  ASSUME IInv, NEW w \in Workers, Wipe(w)
  PROVE  IInv'
  <1>1. w \in Workers \ dead /\ pc[w] = "wipe" /\ pc[w] \notin Rewrite /\ pc[w] \notin Locking
    BY DEF Wipe, At, Rewrite, Locking
  <1>2. /\ UNCHANGED <<dead, calls, created, sent, done, flagged>>
        /\ done' \subseteq 1 .. created /\ sent' \in Seq(1 .. created)
        /\ flagged' \subseteq (1 .. created) \X Flags /\ harm' \subseteq Races
    BY HarmType DEF Wipe, IInv, TypeOK
  <1>3. /\ Len(files) \in Nat /\ files \in Seq(Seq(EntriesTo(created))) /\ created \in Nat
        /\ name \in Names(Len(files))
        /\ job[w] \in JobsTo(created, Len(files)) /\ Fits(pc[w], job[w], files)
    BY <1>1, Known DEF IInv, TypeOK, Names
  <1>4. "load" \in Steps /\ "load" \notin Rewrite /\ "load" \notin Locking /\ UNCHANGED locked
    BY DEF Steps, Rewrite, Locking, Wipe
  <1>5. CASE name.web = 0
    <2> DEFINE n == Len(files) + 1
               j == [job[w] EXCEPT !.out = n]
    <2>1. /\ files' = Append(files, <<>>) /\ name' = [name EXCEPT !.web = n]
          /\ After(w, "load", j)
      BY <1>5 DEF Wipe, After, Goto
    <2>2. n \in 0 .. n /\ n \in 1 .. n /\ Len(files') = n /\ n \in Nat
      BY <1>3, <2>1, AppendProperties, EmptySeq
    <2>3. name' \in Names(n) /\ name'.web = n /\ name'.dir = name.dir /\ name'.tmp = name.tmp
      <3>1. name \in Names(n)
        BY <1>3 DEF Names
      <3> HIDE DEF n
      <3> QED BY <2>1, <2>2, <3>1 DEF Names
    <2>4. job[w] \in JobsTo(created, n)
      BY <1>3, JobsGrow
    <2>5. /\ j \in JobsTo(created, n) /\ j.out = n /\ j.file = job[w].file /\ j.op = job[w].op
          /\ j.ids = job[w].ids /\ j.look = job[w].look /\ j.key = job[w].key
          /\ j.gone = job[w].gone
      <3> HIDE DEF n
      <3> QED BY <2>2, <2>4, OutType
    <2> HIDE DEF j
    <2>6. Fits("load", j, files')
      BY <1>1, <1>3, <2>2, <2>5 DEF Fits, Opened, Aimed, Shifts, Reads
    <2>7. LockStep(w, "load", j) /\ RewriteStep(w, "load") /\ ApartStep(w, j)
      BY <1>1, <1>4, <2>3, <2>5 DEF LockStep, RewriteStep, ApartStep
    <2> QED BY <1>1, <1>2, <1>4, <2>1, <2>3, <2>5, <2>6, <2>7, CreateStep
  <1>6. CASE name.web # 0
    <2> DEFINE f == name.web
               c == <<>>
               j == [job[w] EXCEPT !.out = f]
    <2>1. /\ files' = [files EXCEPT ![f] = c] /\ UNCHANGED name
          /\ After(w, "load", j)
      BY <1>6 DEF Wipe, After, Goto
    <2>2. f \in 1 .. Len(files) /\ f \in 0 .. Len(files) /\ c \in Seq(EntriesTo(created))
      BY <1>3, <1>6, EmptySeq DEF Names
    <2> HIDE DEF c
    <2>3. Len(files') = Len(files)
      <3> HIDE DEF f
      <3> QED BY <1>3, <2>1, <2>2, ExceptSeq
    <2>5. /\ j \in JobsTo(created, Len(files)) /\ j.out = f /\ j.file = job[w].file
          /\ j.op = job[w].op /\ j.ids = job[w].ids /\ j.look = job[w].look
          /\ j.key = job[w].key /\ j.gone = job[w].gone
      <3> HIDE DEF f
      <3> QED BY <1>3, <2>2, OutType
    <2> HIDE DEF j
    <2>6. Fits("load", j, files')
      BY <1>1, <1>3, <2>2, <2>3, <2>5 DEF Fits, Opened, Aimed, Shifts, Reads
    <2>7. LockStep(w, "load", j) /\ RewriteStep(w, "load") /\ Clear(w, j)
      BY <1>1, <1>4, <2>1, <2>5 DEF LockStep, RewriteStep, Clear
    <2>8. f = name.web
      OBVIOUS
    <2>9. UNCHANGED <<name, dead, calls, created>>
      BY <1>2, <2>1
    <2> HIDE DEF f
    <2> QED BY <1>1, <1>2, <1>4, <2>1, <2>2, <2>5, <2>6, <2>7, <2>8, <2>9, WriteStep
  <1> QED BY <1>5, <1>6

\* A job with the entries and the position of the loop.
Held(i, b, p, gs) == [i EXCEPT !.buf = b, !.pos = p, !.gone = gs]

LEMMA HeldType ==
  ASSUME NEW c, NEW n, NEW i \in JobsTo(c, n), NEW b \in Seq(EntriesTo(c)), NEW p \in Nat,
         NEW gs \in SUBSET (0 .. c)
  PROVE  /\ Held(i, b, p, gs) \in JobsTo(c, n) /\ SameAim(Held(i, b, p, gs), i)
         /\ Held(i, b, p, gs).buf = b /\ Held(i, b, p, gs).pos = p
         /\ Held(i, b, p, gs).gone = gs
  BY DEF JobsTo, Held, SameAim

LEMMA LoadKeeps ==
  ASSUME IInv, NEW w \in Workers, Load(w)
  PROVE  IInv'
  <1> DEFINE b == Content(w)
             gs == job[w].gone
             j == Held(job[w], b, 1, gs)
  <1>1. w \in Workers \ dead /\ pc[w] = "load" /\ pc[w] \notin Rewrite /\ pc[w] \notin Locking
    BY DEF Load, At, Rewrite, Locking
  <1>2. /\ UNCHANGED <<files, name, locked, dead, calls, created, sent, flagged>>
        /\ done' \subseteq 1 .. created /\ harm' \subseteq Races
    BY HarmType DEF Load, IInv, TypeOK
  <1>3. job[w] \in JobsTo(created, Len(files)) /\ Fits(pc[w], job[w], files)
    BY <1>1, Known
  <1>4. b \in Seq(EntriesTo(created)) /\ gs \in SUBSET (0 .. created) /\ 0 \notin gs
    BY <1>1, <1>3, Known DEF Fits, Opened, Reads, Content, JobsTo
  <1>5. job' = [job EXCEPT ![w] = j]
    <2>1. job[w] = [job[w] EXCEPT !.gone = gs]
      BY <1>3 DEF JobsTo
    <2>2. j = [job[w] EXCEPT !.buf = b, !.pos = 1]
      BY <1>3, <2>1 DEF JobsTo, Held
    <2> QED BY <2>2 DEF Load
  <1> HIDE DEF b, gs
  <1>6. j \in JobsTo(created, Len(files)) /\ SameAim(j, job[w]) /\ j.pos = 1 /\ j.gone = gs
    <2> DEFINE i == job[w]
               n == Len(files)
               p == 1
    <2>1. i \in JobsTo(created, n) /\ p \in Nat /\ j = Held(i, b, p, gs)
      BY <1>3
    <2>2. SUFFICES j \in JobsTo(created, n) /\ SameAim(j, i) /\ j.pos = p /\ j.gone = gs
      OBVIOUS
    <2> HIDE DEF i, n, p, j
    <2>3. /\ Held(i, b, p, gs) \in JobsTo(created, n) /\ SameAim(Held(i, b, p, gs), i)
          /\ Held(i, b, p, gs).pos = p /\ Held(i, b, p, gs).gone = gs
      BY ONLY <1>4, <2>1, HeldType
    <2> QED BY ONLY <2>1, <2>3
  <1>7. "sift" \in Steps /\ "sift" \notin Rewrite /\ "sift" \notin Locking
    BY DEF Steps, Rewrite, Locking
  <1> HIDE DEF j
  <1>8. After(w, "sift", j) /\ LockStep(w, "sift", j) /\ Clear(w, j)
    BY <1>1, <1>2, <1>5, <1>6, <1>7 DEF Load, After, Goto, LockStep, Clear, SameAim
  <1>9. Fits("sift", j, files)
    BY <1>1, <1>3, <1>4, <1>6 DEF Fits, Opened, Aimed, Shifts, Reads, SameAim
  <1> QED BY <1>1, <1>2, <1>6, <1>7, <1>8, <1>9, PlainStep

\* Without(s, p) is a sequence of the same entries.
LEMMA WithoutType ==
  ASSUME NEW E, NEW s \in Seq(E), NEW p \in 1 .. Len(s)
  PROVE  Without(s, p) \in Seq(E)
  <1>1. Len(s) \in Nat /\ p \in Int
    BY LenProperties
  <1>2. SubSeq(s, 1, p - 1) \in Seq(E)
    <2>1. \A i \in 1 .. p - 1 : s[i] \in E
      BY <1>1, ElementOfSeq
    <2> QED BY <1>1, <2>1, SubSeqProperties
  <1>3. SubSeq(s, p + 1, Len(s)) \in Seq(E)
    <2>1. \A i \in p + 1 .. Len(s) : s[i] \in E
      BY <1>1, ElementOfSeq
    <2> QED BY <1>1, <2>1, SubSeqProperties
  <1> QED BY <1>2, <1>3, ConcatProperties DEF Without

LEMMA SiftKeeps ==
  ASSUME IInv, NEW w \in Workers, Sift(w)
  PROVE  IInv'
  <1> DEFINE i == job[w]
             p == i.pos
             b == i.buf
             k == b[p].key
  <1>1. w \in Workers \ dead /\ pc[w] = "sift" /\ pc[w] \notin Rewrite /\ pc[w] \notin Locking
    BY DEF Sift, At, Rewrite, Locking
  <1>2. /\ UNCHANGED <<files, name, locked, dead, calls, created, sent, flagged>>
        /\ done' \subseteq 1 .. created /\ harm' \subseteq Races
    BY DEF Sift, IInv, TypeOK
  <1>3. i \in JobsTo(created, Len(files)) /\ Fits("sift", i, files)
    BY <1>1, Known
  <1>4. /\ p \in Nat /\ p >= 1 /\ b \in Seq(EntriesTo(created)) /\ Len(b) \in Nat
        /\ i.gone \in SUBSET (0 .. created) /\ 0 \notin i.gone
    BY <1>3, LenProperties DEF Fits, Reads, JobsTo
  <1>5. "sift" \in Steps /\ "flush" \in Steps /\ {"sift", "flush"} \cap (Rewrite \cup Locking) = {}
    BY DEF Steps, Rewrite, Locking
  <1>6. CASE p > Len(b)
    <2>1. After(w, "flush", i) /\ LockStep(w, "flush", i) /\ Clear(w, i)
      BY <1>1, <1>2, <1>5, <1>6 DEF Sift, After, Goto, LockStep, Clear, IInv, TypeOK
    <2>2. Fits("flush", i, files)
      BY <1>3 DEF Fits, Opened, Aimed, Shifts, Reads
    <2> QED BY <1>1, <1>2, <1>3, <1>5, <2>1, <2>2, PlainStep
  <1>7. CASE ~ (p > Len(b))
    <2>1. p \in 1 .. Len(b) /\ k \in 0 .. created
      <3>1. p \in 1 .. Len(b)
        BY <1>4, <1>7
      <3>2. b[p] \in EntriesTo(created)
        BY <1>4, <3>1, ElementOfSeq
      <3> QED BY <3>1, <3>2 DEF EntriesTo
    <2>2. CASE k \in Asked(w)
      <3> DEFINE c == Without(b, p)
                 gs == i.gone \cup {k}
                 j == Held(i, c, p, gs)
      <3>1. c \in Seq(EntriesTo(created)) /\ gs \in SUBSET (0 .. created) /\ 0 \notin gs
        BY <1>4, <2>1, <2>2, WithoutType DEF Asked
      <3>2. job' = [job EXCEPT ![w] = j] /\ UNCHANGED pc
        <4>1. i = [i EXCEPT !.pos = p]
          BY <1>3 DEF JobsTo
        <4>2. j = [i EXCEPT !.buf = c, !.gone = gs]
          BY <1>3, <4>1 DEF JobsTo, Held
        <4> QED BY <1>7, <2>2, <4>2 DEF Sift
      <3> HIDE DEF c, gs, p, i
      <3>3. /\ j \in JobsTo(created, Len(files)) /\ SameAim(j, i) /\ j.pos = p /\ j.gone = gs
        BY <1>3, <1>4, <3>1, HeldType
      <3> HIDE DEF j
      <3>4. Fits("sift", j, files)
        BY <1>3, <1>4, <3>1, <3>3 DEF Fits, Opened, Aimed, Shifts, Reads, SameAim
      <3>5. After(w, "sift", j) /\ LockStep(w, "sift", j) /\ Clear(w, j)
        BY <1>1, <1>2, <1>5, <3>2, <3>3
           DEF After, LockStep, Clear, SameAim, IInv, TypeOK, i
      <3> QED BY <1>1, <1>2, <1>5, <3>3, <3>4, <3>5, PlainStep
    <2>3. CASE k \notin Asked(w)
      <3> DEFINE j == Held(i, b, p + 1, i.gone)
      <3>2. job' = [job EXCEPT ![w] = j] /\ UNCHANGED pc
        <4>1. i = [i EXCEPT !.buf = b, !.gone = i.gone]
          BY <1>3 DEF JobsTo
        <4>2. j = [i EXCEPT !.pos = p + 1]
          BY <1>3, <4>1 DEF JobsTo, Held
        <4> QED BY <1>7, <2>3, <4>2 DEF Sift
      <3>3. /\ j \in JobsTo(created, Len(files)) /\ SameAim(j, i) /\ j.pos = p + 1
            /\ j.gone = i.gone
        <4> DEFINE g == i.gone
                   q == p + 1
        <4>1. q \in Nat /\ g \in SUBSET (0 .. created)
          BY <1>4
        <4> HIDE DEF b, g, q, i
        <4> QED BY <1>3, <1>4, <4>1, HeldType
      <3> HIDE DEF j
      <3>4. Fits("sift", j, files)
        BY <1>3, <1>4, <3>3 DEF Fits, Opened, Aimed, Shifts, Reads, SameAim
      <3>5. After(w, "sift", j) /\ LockStep(w, "sift", j) /\ Clear(w, j)
        BY <1>1, <1>2, <1>5, <3>2, <3>3 DEF After, LockStep, Clear, SameAim, IInv, TypeOK
      <3> QED BY <1>1, <1>2, <1>5, <3>3, <3>4, <3>5, PlainStep
    <2> QED BY <2>2, <2>3
  <1> QED BY <1>6, <1>7

LEMMA OverwrittenType ==
  ASSUME NEW E, NEW s \in Seq(E), NEW t \in Seq(E), NEW n \in 0 .. Len(t)
  PROVE  Overwritten(s, t, n) \in Seq(E) /\ Len(s) <= Len(Overwritten(s, t, n))
  <1> DEFINE m == IF n > Len(s) THEN n ELSE Len(s)
             c == Overwritten(s, t, n)
  <1>1. m \in Nat /\ m >= Len(s) /\ Len(s) \in Nat /\ Len(t) \in Nat /\ n \in Nat
    BY LenProperties
  <1>2. c \in [1 .. m -> E]
    <2>1. ASSUME NEW q \in 1 .. m
          PROVE  (IF q <= n THEN t[q] ELSE s[q]) \in E
      <3>1. CASE q <= n
        BY <1>1, <2>1, <3>1, ElementOfSeq
      <3>2. CASE ~ (q <= n)
        BY <1>1, <2>1, <3>2, ElementOfSeq
      <3> QED BY <3>1, <3>2
    <2> QED BY <2>1 DEF Overwritten
  <1> HIDE DEF m, c
  <1>3. c \in Seq(E)
    BY ONLY <1>1, <1>2, SeqDef
  <1>4. DOMAIN c = 1 .. Len(c) /\ Len(c) \in Nat
    BY <1>3, LenProperties
  <1>5. m = Len(c)
    <2>1. 1 .. m = 1 .. Len(c)
      BY <1>2, <1>4
    <2> QED BY <1>1, <1>4, <2>1, SameRange
  <1> QED BY <1>1, <1>3, <1>5 DEF c

LEMMA FlushKeeps ==
  ASSUME IInv, NEW w \in Workers, Flush(w)
  PROVE  IInv'
  <1>1. w \in Workers \ dead /\ pc[w] = "flush" /\ pc[w] \notin Rewrite /\ pc[w] \notin Locking
    BY DEF Flush, At, Rewrite, Locking
  <1>2. /\ UNCHANGED <<name, job, locked, dead, calls, created, sent, done, flagged>>
        /\ done' \subseteq 1 .. created /\ sent' \in Seq(1 .. created)
        /\ flagged' \subseteq (1 .. created) \X Flags /\ harm' \subseteq Races
    BY DEF Flush, IInv, TypeOK, Races
  <1>3. job[w] \in JobsTo(created, Len(files)) /\ Fits(pc[w], job[w], files)
    BY <1>1, Known
  <1>4. PICK n \in 0 .. Len(job[w].buf) :
          files' = [files EXCEPT ![job[w].out] = Overwritten(files[job[w].out], job[w].buf, n)]
    BY DEF Flush
  <1> DEFINE f == job[w].out
             c == Overwritten(files[f], job[w].buf, n)
  <1>5. f \in 1 .. Len(files) /\ job[w].buf \in Seq(EntriesTo(created))
    BY <1>1, <1>3 DEF Fits, Opened, JobsTo
  <1>6. c \in Seq(EntriesTo(created)) /\ Len(files[f]) <= Len(c)
    <2>1. files[f] \in Seq(EntriesTo(created))
      BY <1>5, Known
    <2> HIDE DEF f
    <2> QED BY <1>5, <2>1, OverwrittenType
  <1>7. files' = [files EXCEPT ![f] = c]
    BY <1>4
  <1> HIDE DEF f, c
  <1>8. Len(files') = Len(files)
    BY <1>5, <1>6, <1>7, Known, ExceptSeq
  <1>9. "swap" \in Steps /\ "swap" \notin Rewrite /\ "swap" \notin Locking
    BY DEF Steps, Rewrite, Locking
  <1>10. After(w, "swap", job[w])
    BY <1>2 DEF Flush, After, Goto, IInv, TypeOK
  <1>11. LockStep(w, "swap", job[w]) /\ RewriteStep(w, "swap") /\ Clear(w, job[w])
    BY <1>1, <1>2, <1>9 DEF LockStep, RewriteStep, Clear
  <1>12. Fits("swap", job[w], files')
    BY <1>1, <1>3, <1>8 DEF Fits, Opened, Aimed, Shifts, Reads
  <1>13. UNCHANGED <<name, dead, calls, created>>
    BY <1>2
  <1> QED BY <1>1, <1>2, <1>3, <1>5, <1>6, <1>7, <1>9, <1>10, <1>11, <1>12, <1>13, WriteStep

LEMMA SwapKeeps ==
  ASSUME IInv, NEW w \in Workers, Swap(w)
  PROVE  IInv'
  <1>1. w \in Workers \ dead /\ pc[w] = "swap" /\ pc[w] \notin Rewrite
    BY DEF Swap, At, Rewrite
  <1>2. /\ UNCHANGED <<files, dead, calls, created, sent, flagged>> /\ harm' \subseteq Races
    BY HarmType DEF Swap, IInv, TypeOK
  <1>3. name \in Names(Len(files)) /\ Len(files) \in Nat
    BY Known DEF IInv, TypeOK, Names
  <1>4. /\ name' \in Names(Len(files)) /\ name'.tmp = name.tmp /\ name'.web = 0
        /\ name'.dir = 0 => name.dir = 0
    <2>1. name.web \in 0 .. Len(files) /\ 0 \in 0 .. Len(files)
      BY <1>3 DEF Names
    <2>2. CASE name.web = 0
      BY <1>3, <2>2 DEF Swap
    <2>3. CASE name.web # 0
      <3>1. name' = [name EXCEPT !.dir = name.web, !.web = 0]
        BY <2>3 DEF Swap
      <3> QED BY <1>3, <2>1, <2>3, <3>1 DEF Names
    <2> QED BY <2>2, <2>3
  <1>5. done' \subseteq 1 .. created
    <2>1. job[w].gone \subseteq 0 .. created /\ 0 \notin job[w].gone /\ created \in Nat
      BY <1>1, Known DEF JobsTo, Fits, Reads
    <2>2. job[w].gone \subseteq 1 .. created
      BY <2>1
    <2> QED BY <2>2 DEF Swap, IInv, TypeOK
  <1>6. After(w, "idle", NoJob) /\ LockStep(w, "idle", NoJob)
    BY FinishAfter DEF Swap
  <1>7. NoJob \in JobsTo(created, Len(files)) /\ Fits("idle", NoJob, files)
    BY Known, IdleFits
  <1>8. "idle" \in Steps /\ RewriteStep(w, "idle") /\ ApartStep(w, NoJob)
    BY <1>1, <1>4 DEF Steps, Rewrite, RewriteStep, ApartStep
  <1> QED BY <1>1, <1>2, <1>4, <1>5, <1>6, <1>7, <1>8, NameStep

-----------------------------------------------------------------------------
\* Beginning a call.
Begun(i, op, ids, key, flag, look) ==
  [i EXCEPT !.op = op, !.ids = ids, !.key = key, !.flag = flag, !.look = look]

LEMMA BegunType ==
  ASSUME NEW c, NEW n, NEW i \in JobsTo(c, n), NEW op \in Ops,
         NEW ids \in SUBSET (Nat \ {0}), NEW key \in 0 .. c, NEW flag \in Flags,
         NEW look \in Seq(EntriesTo(c)), NEW j, j = Begun(i, op, ids, key, flag, look)
  PROVE  /\ j \in JobsTo(c, n) /\ j.op = op /\ j.ids = ids /\ j.key = key
         /\ j.look = look /\ j.gone = i.gone
  BY DEF JobsTo, Begun

\* What a caller saw of the file.
Look == IF name.dir = 0 THEN <<>> ELSE files[name.dir]

LEMMA LookType ==
  ASSUME IInv
  PROVE  Look \in Seq(EntriesTo(created)) /\ DOMAIN Look = 1 .. Len(Look) /\ Len(Look) \in Nat
  <1>1. name.dir \in 0 .. Len(files) /\ Len(files) \in Nat
        /\ files \in Seq(Seq(EntriesTo(created)))
    BY TypesTo, LenProperties DEF IInv, TypeOK
  <1>2. Look \in Seq(EntriesTo(created))
    <2>1. CASE name.dir = 0
      BY <2>1, EmptySeq DEF Look
    <2>2. CASE name.dir # 0
      <3>1. name.dir \in 1 .. Len(files)
        BY <1>1, <2>2
      <3> QED BY <1>1, <2>2, <3>1, ElementOfSeq DEF Look
    <2> QED BY <2>1, <2>2
  <1> QED BY <1>2, LenProperties

LEMMA BeginKeeps ==
  ASSUME IInv, NEW w \in Workers, created' \in Nat, created <= created',
         NEW op \in Ops, NEW ids \in SUBSET (Nat \ {0}), NEW key \in 0 .. created',
         NEW flag \in Flags, Begin(w, op, ids, key, flag),
         op \in {"substitute", "update_file"} => ids # {},
         op \in {"append", "update_file"} => key # 0,
         op = "substitute" => \A p \in ids : p \in DOMAIN Look /\ Look[p].key # 0
  PROVE  IInv'
  <1> DEFINE s == IF op = "substitute" THEN "stat" ELSE "open"
             j == Begun(NoJob, op, ids, key, flag, Look)
  <1>1. w \in Workers \ dead /\ pc[w] = "idle" /\ pc[w] \notin Rewrite /\ pc[w] \notin Locking
    BY DEF Begin, At, Rewrite, Locking
  <1>2. /\ created \in Nat /\ Len(files) \in Nat /\ files \in Seq(Seq(EntriesTo(created)))
    BY Known
  <1>3. EntriesTo(created) \subseteq EntriesTo(created')
    BY <1>2, EntriesGrow
  <1>4. Look \in Seq(EntriesTo(created'))
    BY <1>3, LookType, SeqMonotonic
  <1>5. NoJob \in JobsTo(created', Len(files)) /\ NoJob.gone = {}
    BY <1>2, IdleFits DEF NoJob
  <1>6. /\ j \in JobsTo(created', Len(files)) /\ j.op = op /\ j.ids = ids /\ j.key = key
        /\ j.look = Look /\ j.gone = {}
    <2> DEFINE i == NoJob
               l == Look
               n == Len(files)
    <2>1. j = Begun(i, op, ids, key, flag, l)
      OBVIOUS
    <2>2. i \in JobsTo(created', n) /\ i.gone = {} /\ l \in Seq(EntriesTo(created'))
      BY <1>4, <1>5
    <2> HIDE DEF j, i, l, n
    <2>3. /\ j \in JobsTo(created', n) /\ j.op = op /\ j.ids = ids /\ j.key = key
          /\ j.look = l /\ j.gone = i.gone
      BY ONLY <2>1, <2>2, BegunType, op \in Ops, ids \in SUBSET (Nat \ {0}),
              key \in 0 .. created', flag \in Flags
    <2> QED BY <2>2, <2>3 DEF l, n
  <1>7. s \in {"stat", "open"} /\ (s = "stat" => op = "substitute")
    OBVIOUS
  <1>8. After(w, s, j)
    BY DEF Begin, After, Goto, Begun, Look
  <1> HIDE DEF s, j
  <1>9. Fits(s, j, files)
    BY <1>6, <1>7 DEF Fits, Opened, Aimed, Shifts, Reads
  <1>10. s \in Steps /\ s \notin Rewrite /\ s \notin Locking
    BY <1>7 DEF Steps, Rewrite, Locking
  <1>11. /\ UNCHANGED <<files, name, locked, dead, sent, done, flagged, harm>>
         /\ calls < MaxCalls /\ calls' = calls + 1
    BY DEF Begin
  <1>12. LockStep(w, s, j) /\ RewriteStep(w, s) /\ NoneCut(w)
    <2>1. LockStep(w, s, j) /\ RewriteStep(w, s)
      BY <1>1, <1>10, <1>11 DEF LockStep, RewriteStep
    <2>2. \A v \in Workers : job[v].file \in 1 .. Len(files) => Len(files[job[v].file]) \in Nat
      BY Known
    <2> QED BY <1>11, <2>1, <2>2 DEF NoneCut
  <1>13. calls' \in 0 .. MaxCalls
    BY <1>11, RecordAssumption DEF IInv, TypeOK
  <1>14. files' \in Seq(Seq(EntriesTo(created')))
    <2>1. Seq(EntriesTo(created)) \subseteq Seq(EntriesTo(created'))
      BY <1>3, SeqMonotonic
    <2> QED BY <1>2, <1>11, <2>1, SeqMonotonic
  <1>15. sent' \in Seq(1 .. created')
    <2>1. sent \in Seq(1 .. created) /\ 1 .. created \subseteq 1 .. created'
      BY <1>2 DEF IInv, TypeOK
    <2> QED BY <1>11, <2>1, SeqMonotonic
  <1>16. done' \subseteq 1 .. created' /\ flagged' \subseteq (1 .. created') \X Flags
    <2>1. done \subseteq 1 .. created /\ flagged \subseteq (1 .. created) \X Flags
          /\ 1 .. created \subseteq 1 .. created'
      BY <1>2 DEF IInv, TypeOK
    <2> QED BY <1>11, <2>1
  <1>17. harm' \subseteq Races /\ name' \in Names(Len(files'))
         /\ Len(files) <= Len(files') /\ dead' = dead
    BY <1>2, <1>11 DEF IInv, TypeOK, Names
  <1>18. j \in JobsTo(created', Len(files')) /\ Fits(s, j, files')
    BY <1>6, <1>9, <1>11
  <1>19. ApartStep(w, j)
    <2>1. j.file = 0
      BY DEF j, Begun, NoJob
    <2> QED BY <1>11, <2>1 DEF ApartStep, Clear
  <1> QED BY <1>19, <1>1, <1>8, <1>10, <1>12, <1>13, <1>14, <1>15, <1>16, <1>17, <1>18, AnyStep

LEMMA BeginAppendKeeps ==
  ASSUME IInv, NEW w \in Workers, BeginAppend(w)
  PROVE  IInv'
  <1>1. created \in Nat
    BY DEF IInv, TypeOK
  <1>2. created' = created + 1 /\ Begin(w, "append", {}, created + 1, Marked)
    BY DEF BeginAppend
  <1>3. /\ created' \in Nat /\ created <= created' /\ created + 1 \in 0 .. created'
        /\ created + 1 # 0 /\ Marked \in Flags /\ "append" \in Ops
    BY <1>1, <1>2, RecordAssumption DEF Ops
  <1>4. {} \in SUBSET (Nat \ {0})
    OBVIOUS
  <1> QED BY <1>2, <1>3, <1>4, BeginKeeps

LEMMA BeginChangeKeeps ==
  ASSUME IInv, NEW w \in Workers, BeginChange(w)
  PROVE  IInv'
  <1>1. created \in Nat /\ created' = created /\ Marked \in Flags
    BY RecordAssumption DEF IInv, TypeOK, BeginChange
  <1>2. created' \in Nat /\ created <= created'
    BY <1>1
  <1>3. ASSUME NEW p \in Seen
        PROVE  /\ p \in DOMAIN Look /\ Look[p].key # 0 /\ p \in Nat \ {0}
               /\ files[name.dir][p].key \in 0 .. created' /\ files[name.dir][p].key # 0
    <2>1. name.dir # 0 /\ p \in DOMAIN files[name.dir] /\ files[name.dir][p].key # 0
          /\ Look = files[name.dir]
      BY DEF Seen, Look
    <2>2. p \in 1 .. Len(Look) /\ Len(Look) \in Nat
      BY <2>1, LookType
    <2>3. Look[p] \in EntriesTo(created)
      BY <2>2, LookType, ElementOfSeq
    <2> QED BY <1>1, <2>1, <2>2, <2>3 DEF EntriesTo
  <1>4. CASE \E p \in Seen, op \in {"delete_file", "del_record", "update_file"} :
               Begin(w, op, {p}, files[name.dir][p].key, Marked)
    <2>1. PICK p \in Seen, op \in {"delete_file", "del_record", "update_file"} :
            Begin(w, op, {p}, files[name.dir][p].key, Marked)
      BY <1>4
    <2>2. {p} \in SUBSET (Nat \ {0}) /\ op \in Ops /\ {p} # {}
      BY <1>3 DEF Ops
    <2> QED BY <1>1, <1>2, <1>3, <2>1, <2>2, BeginKeeps
  <1>5. CASE \E p \in Seen, f \in Flags :
               Begin(w, "substitute", {p}, files[name.dir][p].key, f)
    <2>1. PICK p \in Seen, f \in Flags :
            Begin(w, "substitute", {p}, files[name.dir][p].key, f)
      BY <1>5
    <2>2. {p} \in SUBSET (Nat \ {0}) /\ "substitute" \in Ops /\ {p} # {}
      BY <1>3 DEF Ops
    <2>3. \A q \in {p} : q \in DOMAIN Look /\ Look[q].key # 0
      BY <1>3
    <2> QED BY <1>1, <1>2, <1>3, <2>1, <2>2, <2>3, BeginKeeps
  <1>6. CASE \E ids \in SUBSET Seen, op \in {"m_new", "bbsdelmail"} :
               ids # {} /\ Begin(w, op, ids, 0, Marked)
    <2>1. PICK ids \in SUBSET Seen, op \in {"m_new", "bbsdelmail"} :
            Begin(w, op, ids, 0, Marked)
      BY <1>6
    <2>2. ids \in SUBSET (Nat \ {0}) /\ op \in Ops /\ 0 \in 0 .. created'
      BY <1>1, <1>3 DEF Ops
    <2> QED BY <1>1, <1>2, <2>1, <2>2, BeginKeeps
  <1>7. CASE \E p, q \in Seen : p <= q /\ Begin(w, "delete_range", p .. q, 0, Marked)
    <2>1. PICK p \in Seen, q \in Seen : Begin(w, "delete_range", p .. q, 0, Marked)
      BY <1>7
    <2>2. p .. q \in SUBSET (Nat \ {0}) /\ "delete_range" \in Ops /\ 0 \in 0 .. created'
      BY <1>1, <1>3 DEF Ops
    <2> QED BY <1>1, <1>2, <2>1, <2>2, BeginKeeps
  <1> QED BY <1>4, <1>5, <1>6, <1>7 DEF BeginChange

-----------------------------------------------------------------------------
\* A killed process loses its lock, and is no rewriter any more.
LEMMA CrashKeeps ==
  ASSUME IInv, NEW w \in Workers, Crash(w)
  PROVE  IInv'
  <1>1. /\ dead' = dead \cup {w} /\ locked' = locked \ {w} /\ job' = [job EXCEPT ![w] = NoJob]
        /\ UNCHANGED <<files, name, pc, calls, created, sent, done, flagged>>
        /\ harm' \subseteq Races
    BY DEF Crash, IInv, TypeOK, Races
  <1>2. TypeOK'
    <2>1. NoJob \in JobsTo(created, Len(files))
      BY Known, IdleFits
    <2>2. job' \in [Workers -> JobsTo(created', Len(files'))]
      BY <1>1, <2>1, TypesTo DEF IInv, TypeOK
    <2>3. job' \in [Workers -> Jobs']
      BY <2>2, TypesTo
    <2>4. files' \in Seq(Seq(Entries'))
      BY <1>1, TypesTo DEF IInv, TypeOK
    <2> QED BY <1>1, <2>3, <2>4 DEF IInv, TypeOK
  <1>3. \A v \in Workers \ {w} : job'[v] = job[v]
    BY <1>1 DEF IInv, TypeOK
  <1>4. LockHeld'
    BY <1>1 DEF IInv, LockHeld
  <1>5. LockExclusive'
    BY <1>1, <1>3 DEF IInv, TypeOK, LockExclusive
  <1>6. InHand'
    <2>1. SUFFICES ASSUME NEW v \in Workers \ dead' PROVE Fits(pc'[v], job'[v], files')
      BY DEF InHand
    <2>2. v \in Workers \ dead /\ v # w
      BY <1>1, <2>1
    <2> QED BY <1>1, <1>3, <2>2 DEF IInv, InHand
  <1>7. OneRewriter'
    BY <1>1 DEF IInv, OneRewriter, Rewriting
  <1>8. Apart'
    BY <1>1, <1>3 DEF IInv, Apart
  <1> QED BY <1>2, <1>4, <1>5, <1>6, <1>7, <1>8 DEF IInv

LEMMA InitIInv == Init => IInv
  <1> SUFFICES ASSUME Init PROVE IInv
    OBVIOUS
  <1>1. created = Initial /\ Initial \in Nat
    BY RecordAssumption DEF Init
  <1>2. TypeOK
    <2> DEFINE dir == [p \in 1 .. Initial |-> [key |-> p, flags |-> {}]]
    <2>1. dir \in [1 .. Initial -> EntriesTo(Initial)]
      BY <1>1 DEF EntriesTo
    <2>2. dir \in Seq(EntriesTo(Initial))
      BY <1>1, <2>1, SeqDef
    <2>3. files = <<dir>>
      BY DEF Init
    <2>4. files \in Seq(Seq(EntriesTo(created))) /\ Len(files) = 1
      <3> HIDE DEF dir
      <3> QED BY <1>1, <2>2, <2>3
    <2>5. name \in Names(Len(files))
      BY <2>4 DEF Init, Names
    <2>6. sent \in Seq(1 .. created)
      <3>1. sent \in [1 .. Initial -> 1 .. Initial]
        BY <1>1 DEF Init
      <3> QED BY <1>1, <3>1, SeqDef
    <2>7. NoJob \in JobsTo(created, Len(files))
      BY <1>1, <2>4, IdleFits
    <2>8. job \in [Workers -> Jobs] /\ files \in Seq(Seq(Entries))
      BY <2>4, <2>7, TypesTo DEF Init
    <2>9. /\ pc \in [Workers -> Steps] /\ locked \subseteq Workers /\ dead \subseteq Workers
          /\ calls \in 0 .. MaxCalls /\ created \in Nat /\ done \subseteq 1 .. created
          /\ flagged \subseteq (1 .. created) \X Flags /\ harm \subseteq Races
      BY <1>1, RecordAssumption DEF Init, Steps
    <2> QED BY <2>5, <2>6, <2>8, <2>9 DEF TypeOK, Names
  <1>3. LockHeld /\ LockExclusive
    BY DEF Init, LockHeld, LockExclusive, Locking
  <1>4. InHand
    <2>1. \A w \in Workers : pc[w] = "idle" /\ job[w] = NoJob
      BY DEF Init
    <2>2. \A fs : Fits("idle", NoJob, fs)
      <3>1. 0 \in Nat
        OBVIOUS
      <3> QED BY <3>1, IdleFits
    <2> QED BY <2>1, <2>2 DEF InHand
  <1>5. OneRewriter
    BY DEF Init, OneRewriter, Rewriting
  <1>6. Apart
    BY DEF Init, Apart
  <1> QED BY <1>2, <1>3, <1>4, <1>5, <1>6 DEF IInv

LEMMA NextIInv == IInv /\ [Next]_vars => IInv'
  <1> SUFFICES ASSUME IInv, [Next]_vars PROVE IInv'
    OBVIOUS
  <1>1. ASSUME NEW w \in Workers, Step(w) PROVE IInv'
    BY <1>1, OpenKeeps, WriteKeeps, StatKeeps, StoreKeeps, FlockKeeps, ScanKeeps, ShiftKeeps,
       TruncateKeeps, ReadKeeps, PutKeeps, ExclKeeps, CopyKeeps, CopyFailsKeeps, RetireKeeps,
       PromoteKeeps, WipeKeeps, LoadKeeps, SiftKeeps, FlushKeeps, SwapKeeps DEF Step
  <1>2. CASE UNCHANGED vars
    <2>1. Entries' = Entries /\ Jobs' = Jobs
      BY <1>2 DEF vars, Entries, Jobs
    <2>2. TypeOK'
      BY <1>2, <2>1 DEF IInv, TypeOK, vars
    <2> QED BY <1>2, <2>2 DEF IInv, vars, LockHeld, LockExclusive, InHand, OneRewriter, Rewriting,
       Apart
  <1>3. CASE Quiet
    BY <1>2, <1>3 DEF Quiet
  <1> QED BY <1>1, <1>2, <1>3, CrashKeeps, BeginAppendKeeps, BeginChangeKeeps DEF Next

-----------------------------------------------------------------------------
\* TypeOK always holds: a call uses no inode, position or filetime that was
\* not given out, and no ftruncate makes a file longer (record.c).
THEOREM RecordTypes == Spec => []TypeOK
  <1>1. IInv => TypeOK
    BY DEF IInv
  <1> QED BY InitIInv, NextIInv, <1>1, PTL DEF Spec

\* OneRewriter always holds: O_EXCL on .tmpfile keeps delete_record and
\* delete_range from mixing their copies, for any number of processes, killed
\* at any moment; .DIR is missing only between the two renames.
THEOREM RewritersExclude == Spec => []OneRewriter
  <1>1. IInv => OneRewriter
    BY DEF IInv
  <1> QED BY InitIInv, NextIInv, <1>1, PTL DEF Spec

\* LocksReleased always holds: every path of delete_file and update_file, and
\* every kill, gives the flock back.
THEOREM NoLockLeft == Spec => []LocksReleased
  <1>1. IInv => LocksReleased
    BY DEF IInv, LockHeld, LocksReleased, Locking, Busy
  <1> QED BY InitIInv, NextIInv, <1>1, PTL DEF Spec

-----------------------------------------------------------------------------
(* The index: as long as none of the seven harms has happened, .DIR has    *)
(* every entry that was appended and not deleted, in order and with its    *)
(* flags.                                                                  *)
Posted(log) == {log[i] : i \in DOMAIN log}

\* s has its entries in the order of log, and the flags that fl has for them.
InOrder(s, log) ==
  \A p, q \in DOMAIN s : \A i, k \in DOMAIN log :
    p < q /\ s[p].key = log[i] /\ s[q].key = log[k] => i < k
RightFlags(s, fl) ==
  \A p \in DOMAIN s : s[p].key # 0 => s[p].flags = {f \in Flags : <<s[p].key, f>> \in fl}

\* s is what .DIR should be when the entries in log were appended, those in
\* d deleted and the flags in fl set.
Good(s, d, log, fl) ==
  /\ Keys(s) = Posted(log) \ d /\ d \subseteq Posted(log)
  /\ InOrder(s, log) /\ RightFlags(s, fl)

\* delete_file moves the entries behind n one down, before it cuts the last.
Squeezed(s, n) == [p \in DOMAIN s |-> IF p >= n /\ p < Len(s) THEN s[p + 1] ELSE s[p]]

\* t is what a rewriter has made of the entries of s before position n when
\* it left out those in g, and tombstones perhaps.
Copies(t, s, n, g, log) ==
  /\ \A a \in DOMAIN t : \E p \in DOMAIN s : p < n /\ t[a] = s[p]
  /\ \A p \in DOMAIN s : p < n /\ s[p].key \notin g \cup {0} => s[p].key \in Keys(t)
  /\ Keys(t) \cap g = {}
  /\ \A k \in g : \E p \in DOMAIN s : p < n /\ s[p].key = k
  /\ InOrder(t, log)

Dir == files[name.dir]
Tmp == files[name.tmp]
GoodNow(s, d) == Good(s, d, sent, flagged)

\* What a call at step s may be, and what it was given.
Looking == {"stat", "open", "store", "flock", "scan", "read", "excl", "copy"}
Untouched == (Looking \ {"copy"}) \cup {"wipe", "load"}
Named == {"delete_file", "del_record", "update_file"}
Intent(s, j) ==
  /\ s # "idle" => j.op # "none"
  /\ j.op \in Ops \ {"none", "append"} => j.ids # {} /\ j.ids \subseteq DOMAIN j.look
  /\ j.op \in Named => j.key # 0 /\ \A p \in j.ids : j.look[p].key = j.key
  /\ s = "flock" => j.op \in Named
  /\ s = "scan" => j.op \in Named \ {"update_file"}
  /\ s \in {"excl", "copy", "retire", "promote"} => j.op \in {"m_new", "delete_range"}
  /\ s \in Untouched => j.gone = {}
AllIntent == \A w \in Workers \ dead : Intent(pc[w], job[w])

\* .tmpfile has not been .DIR yet, and nobody has opened it to change it.
TmpApart ==
  name.tmp # 0 =>
    name.tmp # name.dir /\ \A w \in Workers \ dead : job[w].file # name.tmp

\* Unless it was told to be stale, what a call saw is still there.
Saw(w) ==
  w \notin dead /\ pc[w] \in Looking /\ name.dir # 0 /\ ~job[w].stale =>
    \A p \in job[w].ids : p \in DOMAIN Dir /\ Dir[p] = job[w].look[p]

\* The in-place deletion, before it moves the entries and before it cuts.
ToShift(w) ==
  At(w, "shift") /\ job[w].file = name.dir =>
    /\ Dir = job[w].buf /\ job[w].buf[job[w].pos].key = job[w].key
    /\ job[w].gone = {job[w].key} /\ job[w].key # 0
ToCut(w) ==
  At(w, "truncate") =>
    /\ job[w].file = name.dir /\ Dir = Squeezed(job[w].buf, job[w].pos)
    /\ GoodNow(job[w].buf, done) /\ job[w].buf[job[w].pos].key = job[w].key
    /\ job[w].gone = {job[w].key} /\ job[w].key # 0
    /\ \A v \in Workers : ~Replacing(v)

\* update_file, before it writes the tombstone.
ToPut(w) ==
  At(w, "put") =>
    /\ job[w].gone = {job[w].buf[1].key} /\ job[w].buf[1].key # 0
    /\ job[w].pos \in DOMAIN Content(w)
    /\ ~job[w].stale => Content(w)[job[w].pos] = job[w].buf[1]

\* m_new has the entries before the one it deletes where they were in s.
Aligned(w, s, t) ==
  job[w].op = "m_new" =>
    /\ \A q \in 1 .. job[w].pos - 1 : q < Current(w) =>
         q \in DOMAIN s /\ q \in DOMAIN t /\ t[q] = s[q]
    /\ job[w].pos <= Current(w) => Len(t) = job[w].pos - 1
Copying(w) ==
  At(w, "copy") =>
    /\ job[w].file = name.dir
    /\ Copies(Tmp, Dir, job[w].pos, job[w].gone, sent)
    /\ Aligned(w, Dir, Tmp)
Replaced(w) ==
  At(w, "retire") \/ At(w, "promote") =>
    /\ IF pc[w] = "retire" THEN job[w].file = name.dir ELSE name.dir = 0
    /\ GoodNow(Tmp, done \cup job[w].gone)
    /\ job[w].op = "m_new" /\ ~job[w].stale =>
         \A q \in job[w].ids \ {Current(w)} : q \in DOMAIN Tmp /\ Tmp[q] = job[w].look[q]

\* bbsdelmail has .DIR.tmp for itself, and in its buffer what it will be.
Webs == {"load", "sift", "flush", "swap"}
Web(w) == w \notin dead /\ pc[w] \in Webs
OnWeb(w) ==
  Web(w) =>
    /\ job[w].out = name.web /\ name.web # 0
    /\ files[name.web] = IF pc[w] = "swap" THEN job[w].buf ELSE <<>>
    /\ pc[w] # "load" => GoodNow(job[w].buf, done \cup job[w].gone)
OneWeb == \A v, w \in Workers : Web(v) /\ Web(w) => v = w

Facts(w) == /\ Saw(w) /\ ToShift(w) /\ ToCut(w) /\ ToPut(w)
            /\ Copying(w) /\ Replaced(w) /\ OnWeb(w)

HistoryOK == done \subseteq Posted(sent) /\ \A m \in flagged : m[1] \in Posted(sent)

\* The entries still to be appended are new.
Appends(w) == w \notin dead /\ job[w].op = "append"
NewKeys ==
  /\ \A w \in Workers : Appends(w) => job[w].key \notin Posted(sent)
  /\ \A v, w \in Workers : Appends(v) /\ Appends(w) /\ job[v].key = job[w].key => v = w

\* .DIR is as it should be, but between a shift and its cut; it is missing
\* only while its rewriter lives.
DirGood ==
  IF name.dir = 0 THEN \E w \in Workers : At(w, "promote")
  ELSE (\A w \in Workers : ~At(w, "truncate")) => GoodNow(Dir, done)

Calm == HistoryOK /\ NewKeys /\ DirGood /\ OneWeb /\ \A w \in Workers : Facts(w)

Sound == TmpApart /\ AllIntent /\ (harm = {} => Calm)
SInv == IInv /\ Sound

-----------------------------------------------------------------------------
\* No filetime is in a good sequence twice.
LEMMA Distinct ==
  ASSUME NEW s, NEW log, DOMAIN s \subseteq Nat, DOMAIN log \subseteq Nat, InOrder(s, log),
         NEW p \in DOMAIN s, NEW q \in DOMAIN s, p # q, s[p].key \in Posted(log)
  PROVE  s[q].key # s[p].key
  <1>1. PICK i \in DOMAIN log : s[p].key = log[i]
    BY DEF Posted
  <1>2. p \in Nat /\ q \in Nat /\ i \in Nat /\ ~(i < i)
    OBVIOUS
  <1> QED BY <1>1, <1>2 DEF InOrder

\* append_record: a new entry, without flags, at the end.
LEMMA GoodAppend ==
  ASSUME NEW c, NEW s \in Seq(EntriesTo(c)), NEW d, NEW log \in Seq(Nat \ {0}), NEW fl,
         NEW k \in Nat \ {0}, k \in 0 .. c, Good(s, d, log, fl), k \notin Posted(log),
         \A m \in fl : m[1] \in Posted(log)
  PROVE  Good(Append(s, [key |-> k, flags |-> {}]), d, Append(log, k), fl)
  <1> DEFINE e == [key |-> k, flags |-> {}]
             t == Append(s, e)
             l == Append(log, k)
             n == Len(s)
             m == Len(log)
  <1>1. /\ n \in Nat /\ m \in Nat /\ DOMAIN s = 1 .. n /\ DOMAIN log = 1 .. m
    BY LenProperties
  <1>2. /\ DOMAIN t = 1 .. n + 1 /\ t[n + 1] = e /\ \A p \in 1 .. n : t[p] = s[p]
    <2>1. e \in EntriesTo(c)
      BY DEF EntriesTo
    <2> HIDE DEF e
    <2> QED BY <2>1, AppendProperties, LenProperties
  <1>3. /\ DOMAIN l = 1 .. m + 1 /\ l[m + 1] = k /\ \A i \in 1 .. m : l[i] = log[i]
    BY AppendProperties, LenProperties
  <1>4. e.key = k /\ e.flags = {}
    OBVIOUS
  <1> HIDE DEF t, l, n, m, e
  <1>5. \A i \in 1 .. m + 1 : i \in 1 .. m \/ i = m + 1
    BY <1>1
  <1>6. \A p \in 1 .. n + 1 : p \in 1 .. n \/ p = n + 1
    BY <1>1
  <1>7. 1 .. n \subseteq 1 .. n + 1 /\ 1 .. m \subseteq 1 .. m + 1
        /\ n + 1 \in 1 .. n + 1 /\ m + 1 \in 1 .. m + 1
    BY <1>1
  <1>8. Posted(l) = Posted(log) \cup {k}
    BY <1>1, <1>3, <1>5, <1>7 DEF Posted
  <1>9. Keys(t) = Keys(s) \cup {k}
    BY <1>1, <1>2, <1>4, <1>6, <1>7 DEF Keys
  <1>10. InOrder(t, l)
    <2> SUFFICES ASSUME NEW p \in DOMAIN t, NEW q \in DOMAIN t, NEW i \in DOMAIN l,
                        NEW j \in DOMAIN l, p < q, t[p].key = l[i], t[q].key = l[j]
                 PROVE  i < j
      BY DEF InOrder
    <2>1. p \in 1 .. n /\ t[p] = s[p]
      BY <1>1, <1>2, <1>6
    <2>2. t[p].key # 0 => t[p].key \in Posted(log)
      BY <1>1, <2>1 DEF Good, Keys
    <2>3. l[i] # 0
      BY <1>1, <1>3, <1>5, ElementOfSeq DEF m
    <2>4. i \in 1 .. m /\ log[i] = s[p].key
      BY <1>3, <1>5, <2>1, <2>2, <2>3
    <2>5. CASE q = n + 1
      <3>1. j = m + 1
        BY <1>1, <1>2, <1>3, <1>4, <1>5, <2>5 DEF Posted
      <3> QED BY <1>1, <2>4, <3>1
    <2>6. CASE q \in 1 .. n
      <3>1. t[q] = s[q] /\ t[q].key = l[j]
        BY <1>2, <2>6
      <3>2. l[j] # 0
        BY <1>1, <1>3, <1>5, ElementOfSeq DEF m
      <3>3. l[j] \in Posted(log)
        BY <1>1, <2>6, <3>1, <3>2 DEF Good, Keys
      <3>4. j \in 1 .. m /\ log[j] = s[q].key
        BY <1>3, <1>5, <3>1, <3>3
      <3> QED BY <1>1, <2>1, <2>4, <2>6, <3>4 DEF Good, InOrder
    <2> QED BY <1>2, <1>6, <2>5, <2>6
  <1>11. RightFlags(t, fl)
    <2> SUFFICES ASSUME NEW p \in DOMAIN t, t[p].key # 0
                 PROVE  t[p].flags = {f \in Flags : <<t[p].key, f>> \in fl}
      BY DEF RightFlags
    <2>1. CASE p \in 1 .. n
      BY <1>1, <1>2, <2>1 DEF Good, RightFlags
    <2>2. CASE p = n + 1
      <3>1. \A f : <<k, f>> \notin fl
        OBVIOUS
      <3> QED BY <1>2, <1>4, <2>2, <3>1
    <2> QED BY <1>2, <1>6, <2>1, <2>2
  <1>12. Good(t, d, l, fl)
    BY <1>8, <1>9, <1>10, <1>11 DEF Good
  <1> QED BY <1>12 DEF t, l, e

\* substitute_record: the flag f is added to entry p, and to its history.
LEMMA GoodStore ==
  ASSUME NEW c, NEW s \in Seq(EntriesTo(c)), NEW d, NEW log \in Seq(Nat \ {0}), NEW fl,
         NEW p \in DOMAIN s, NEW f \in Flags, s[p].key # 0, Good(s, d, log, fl),
         NEW t, DOMAIN t = DOMAIN s, \A q \in DOMAIN s : q # p => t[q] = s[q],
         t[p].key = s[p].key, t[p].flags = s[p].flags \cup {f}
  PROVE  Good(t, d, log, fl \cup {<<s[p].key, f>>})
  <1> DEFINE gl == fl \cup {<<s[p].key, f>>}
  <1>1. \A q \in DOMAIN s : t[q].key = s[q].key
    OBVIOUS
  <1>2. Keys(t) = Keys(s)
    BY <1>1 DEF Keys
  <1>3. InOrder(t, log)
    BY <1>1 DEF Good, InOrder
  <1>4. RightFlags(t, gl)
    <2> SUFFICES ASSUME NEW q \in DOMAIN s, t[q].key # 0
                 PROVE  t[q].flags = {g \in Flags : <<t[q].key, g>> \in gl}
      BY DEF RightFlags
    <2>1. CASE q = p
      <3>1. s[p].flags = {g \in Flags : <<s[p].key, g>> \in fl}
        BY DEF Good, RightFlags
      <3>2. \A g : <<s[p].key, g>> \in gl <=> <<s[p].key, g>> \in fl \/ g = f
        OBVIOUS
      <3> HIDE DEF gl
      <3> QED BY <2>1, <3>1, <3>2
    <2>2. CASE q # p
      <3>1. s[p].key \in Posted(log)
        BY DEF Good, Keys
      <3>2. DOMAIN s \subseteq Nat /\ DOMAIN log \subseteq Nat
        BY LenProperties
      <3>3. s[q].key # s[p].key
        BY <2>2, <3>1, <3>2, Distinct DEF Good
      <3>4. t[q] = s[q] /\ s[q].flags = {g \in Flags : <<s[q].key, g>> \in fl}
        BY <2>2 DEF Good, RightFlags
      <3>5. \A g : <<s[q].key, g>> \in gl <=> <<s[q].key, g>> \in fl
        BY <3>3
      <3> HIDE DEF gl
      <3> QED BY <3>4, <3>5
    <2> QED BY <2>1, <2>2
  <1> QED BY <1>2, <1>3, <1>4 DEF Good

\* update_file: entry p becomes a tombstone.
LEMMA GoodTombstone ==
  ASSUME NEW c, NEW s \in Seq(EntriesTo(c)), NEW d, NEW log \in Seq(Nat \ {0}), NEW fl,
         NEW p \in DOMAIN s, NEW k, s[p].key = k, k # 0, Good(s, d, log, fl),
         NEW t, DOMAIN t = DOMAIN s, \A q \in DOMAIN s : q # p => t[q] = s[q], t[p].key = 0
  PROVE  Good(t, d \cup {k}, log, fl)
  <1>1. DOMAIN s \subseteq Nat /\ DOMAIN log \subseteq Nat /\ \A i \in DOMAIN log : log[i] # 0
    BY LenProperties, ElementOfSeq
  <1>2. k \in Posted(log)
    BY DEF Good, Keys
  <1>3. \A q \in DOMAIN s : q # p => s[q].key # k
    BY <1>1, <1>2, Distinct DEF Good
  <1>4. Keys(t) = Keys(s) \ {k}
    BY <1>3 DEF Keys
  <1>5. InOrder(t, log)
    <2>1. \A q \in DOMAIN t, i \in DOMAIN log : t[q].key = log[i] => s[q].key = log[i]
      BY <1>1
    <2> QED BY <2>1 DEF Good, InOrder
  <1>6. RightFlags(t, fl)
    BY DEF Good, RightFlags
  <1> QED BY <1>2, <1>4, <1>5, <1>6 DEF Good

\* t is s without entry p.
Lacks(t, s, p) ==
  /\ DOMAIN t = 1 .. Len(s) - 1
  /\ \A q \in 1 .. Len(s) - 1 : t[q] = IF q < p THEN s[q] ELSE s[q + 1]

LEMMA GoodWithout ==
  ASSUME NEW c, NEW s \in Seq(EntriesTo(c)), NEW d, NEW log \in Seq(Nat \ {0}), NEW fl,
         NEW p \in 1 .. Len(s), NEW k, s[p].key = k, k # 0, Good(s, d, log, fl),
         NEW t, Lacks(t, s, p)
  PROVE  Good(t, d \cup {k}, log, fl)
  <1> DEFINE n == Len(s)
             from(q) == IF q < p THEN q ELSE q + 1
  <1>1. DOMAIN s = 1 .. n /\ n \in Nat /\ p \in Nat /\ DOMAIN log \subseteq Nat
    BY LenProperties
  <1>2. DOMAIN t = 1 .. n - 1
    BY DEF Lacks
  <1>3. ASSUME NEW q \in 1 .. n - 1
        PROVE  from(q) \in 1 .. n /\ from(q) # p /\ t[q] = s[from(q)]
    BY <1>1 DEF Lacks
  <1>4. ASSUME NEW q \in 1 .. n, q # p
        PROVE  \E r \in 1 .. n - 1 : from(r) = q
    <2>1. CASE q < p
      BY <1>1, <2>1
    <2>2. CASE q > p
      <3>1. q - 1 \in 1 .. n - 1 /\ from(q - 1) = q
        BY <1>1, <2>2
      <3> QED BY <3>1
    <2> QED BY <1>1, <1>4, <2>1, <2>2
  <1>5. \A q, r \in 1 .. n - 1 : q < r => from(q) < from(r)
    BY <1>1
  <1> HIDE DEF n, from
  <1>6. k \in Posted(log)
    BY <1>1 DEF Good, Keys
  <1>7. \A q \in 1 .. n : q # p => s[q].key # k
    <2>1. DOMAIN s \subseteq Nat /\ p \in DOMAIN s /\ InOrder(s, log) /\ s[p].key \in Posted(log)
      BY <1>1, <1>6 DEF Good, n
    <2>2. \A q \in DOMAIN s : q # p => s[q].key # s[p].key
      BY <1>1, <2>1, Distinct
    <2> QED BY <1>1, <2>2
  <1>8. Keys(t) = Keys(s) \ {k}
    <2>1. \A x \in Keys(t) : x \in Keys(s) \ {k}
      BY <1>1, <1>2, <1>3, <1>7 DEF Keys
    <2>2. ASSUME NEW x \in Keys(s) \ {k} PROVE x \in Keys(t)
      <3>1. PICK q \in 1 .. n : s[q].key = x /\ x # 0 /\ q # p
        BY <1>1 DEF Keys
      <3>2. PICK r \in 1 .. n - 1 : from(r) = q
        BY <1>4, <3>1
      <3>3. t[r].key = x
        BY <1>3, <3>1, <3>2
      <3> QED BY <1>2, <3>1, <3>3 DEF Keys
    <2> QED BY <2>1, <2>2
  <1>9. InOrder(t, log)
    BY <1>1, <1>2, <1>3, <1>5 DEF Good, InOrder
  <1>10. RightFlags(t, fl)
    BY <1>1, <1>2, <1>3 DEF Good, RightFlags
  <1> QED BY <1>6, <1>8, <1>9, <1>10 DEF Good

LEMMA WithoutLacks ==
  ASSUME NEW E, NEW s \in Seq(E), NEW p \in 1 .. Len(s)
  PROVE  Lacks(Without(s, p), s, p)
  <1> DEFINE n == Len(s)
             a == SubSeq(s, 1, p - 1)
             b == SubSeq(s, p + 1, n)
  <1>1. n \in Nat /\ p \in Nat /\ p >= 1 /\ p <= n
    BY LenProperties
  <1>2. /\ a \in Seq(E) /\ Len(a) = p - 1 /\ \A q \in 1 .. p - 1 : a[q] = s[q]
    <2>1. \A i \in 1 .. p - 1 : s[i] \in E
      BY <1>1, ElementOfSeq
    <2> QED BY <1>1, <2>1, SubSeqProperties
  <1>3. /\ b \in Seq(E) /\ Len(b) = n - p /\ \A q \in 1 .. n - p : b[q] = s[q + p]
    <2>1. \A i \in p + 1 .. n : s[i] \in E
      BY <1>1, ElementOfSeq
    <2>2. /\ b \in Seq(E) /\ Len(b) = (IF p + 1 <= n THEN n - (p + 1) + 1 ELSE 0)
          /\ \A i \in 1 .. n - (p + 1) + 1 : b[i] = s[p + 1 + i - 1]
      BY <1>1, <2>1, SubSeqProperties
    <2>3. ASSUME NEW q \in 1 .. n - p PROVE b[q] = s[q + p]
      <3>1. q \in 1 .. n - (p + 1) + 1 /\ p + 1 + q - 1 = q + p
        BY <1>1
      <3> QED BY <2>2, <3>1
    <2> QED BY <1>1, <2>2, <2>3
  <1>4. Without(s, p) = a \o b
    BY DEF Without
  <1> HIDE DEF n, a, b
  <1>5. /\ DOMAIN (a \o b) = 1 .. n - 1
        /\ \A q \in 1 .. n - 1 : (a \o b)[q] = IF q <= p - 1 THEN a[q] ELSE b[q - (p - 1)]
    <2>2. Len(a) + Len(b) = n - 1
      BY <1>1, <1>2, <1>3
    <2>1. /\ Len(a \o b) = n - 1 /\ a \o b \in Seq(E)
          /\ \A q \in 1 .. Len(a) + Len(b) : (a \o b)[q] = IF q <= Len(a) THEN a[q] ELSE b[q - Len(a)]
      <3>1. a \in Seq(E) /\ b \in Seq(E)
        BY <1>2, <1>3
      <3> QED BY <2>2, <3>1, ConcatProperties
    <2> QED BY <1>2, <2>1, <2>2, LenProperties
  <1>6. ASSUME NEW q \in 1 .. n - 1
        PROVE  (a \o b)[q] = IF q < p THEN s[q] ELSE s[q + 1]
    <2>1. CASE q < p
      BY <1>1, <1>2, <1>5, <2>1
    <2>2. CASE ~ (q < p)
      <3>1. q - (p - 1) \in 1 .. n - p /\ q - (p - 1) + p = q + 1 /\ ~ (q <= p - 1)
        BY <1>1, <2>2
      <3> QED BY <1>3, <1>5, <2>2, <3>1
    <2> QED BY <2>1, <2>2
  <1> QED BY <1>4, <1>5, <1>6 DEF Lacks, n

LEMMA SqueezedLacks ==
  ASSUME NEW E, NEW s \in Seq(E), NEW p \in 1 .. Len(s)
  PROVE  Lacks(SubSeq(Squeezed(s, p), 1, Len(s) - 1), s, p)
  <1> DEFINE n == Len(s)
             c == Squeezed(s, p)
             t == SubSeq(c, 1, n - 1)
  <1>1. n \in Nat /\ n - 1 \in Int /\ 1 \in Int /\ p \in Nat /\ DOMAIN s = 1 .. n
    BY LenProperties
  <1>2. \A q \in 1 .. n - 1 : c[q] = IF q < p THEN s[q] ELSE s[q + 1]
    BY <1>1 DEF Squeezed
  <1>3. \A q \in 1 .. n - 1 : c[q] \in E
    BY <1>1, <1>2, ElementOfSeq
  <1> HIDE DEF c, n
  <1>4. /\ t \in Seq(E) /\ Len(t) = (IF 1 <= n - 1 THEN n - 1 - 1 + 1 ELSE 0)
        /\ \A q \in 1 .. n - 1 - 1 + 1 : t[q] = c[1 + q - 1]
    BY <1>1, <1>3, SubSeqProperties
  <1>5. DOMAIN t = 1 .. n - 1
    <2>1. 1 .. Len(t) = 1 .. n - 1
      BY <1>1, <1>4
    <2> QED BY <1>4, <2>1, LenProperties
  <1>6. ASSUME NEW q \in 1 .. n - 1 PROVE t[q] = c[q]
    <2>1. q \in 1 .. n - 1 - 1 + 1 /\ 1 + q - 1 = q
      BY <1>1
    <2> QED BY <1>4, <2>1
  <1> HIDE DEF t
  <1>7. \A q \in 1 .. n - 1 : t[q] = IF q < p THEN s[q] ELSE s[q + 1]
    BY <1>2, <1>6
  <1>8. Lacks(t, s, p)
    BY <1>5, <1>7 DEF Lacks, n
  <1> QED BY <1>8 DEF t, c, n

\* What pwrite does to a position that is there.
LEMMA StoredThere ==
  ASSUME NEW E, NEW s \in Seq(E), NEW p \in DOMAIN s, NEW e
  PROVE  /\ DOMAIN Stored(s, p, e) = DOMAIN s /\ Stored(s, p, e)[p] = e
         /\ \A q \in DOMAIN s : q # p => Stored(s, p, e)[q] = s[q]
  <1>1. DOMAIN s = 1 .. Len(s) /\ Len(s) \in Nat /\ ~ (p > Len(s))
    BY LenProperties
  <1> QED BY <1>1 DEF Stored

\* fclose on an empty file, when the disk has room for all.
LEMMA OverwrittenAll ==
  ASSUME NEW E, NEW t \in Seq(E), NEW s, s = <<>>
  PROVE  Overwritten(s, t, Len(t)) = t
  <1> DEFINE n == Len(t)
  <1>1. Len(s) = 0 /\ n \in Nat /\ t = [q \in 1 .. n |-> t[q]]
    BY LenProperties
  <1> HIDE DEF n
  <1>2. (IF n > Len(s) THEN n ELSE Len(s)) = n
    BY <1>1
  <1>3. Overwritten(s, t, n) = [q \in 1 .. n |-> IF q <= n THEN t[q] ELSE s[q]]
    BY <1>2 DEF Overwritten
  <1>4. \A q \in 1 .. n : q <= n
    BY <1>1
  <1>5. Overwritten(s, t, n) = [q \in 1 .. n |-> t[q]]
    BY <1>3, <1>4
  <1> QED BY <1>1, <1>5 DEF n

-----------------------------------------------------------------------------
\* The loop of a rewriter.
LEMMA CopyStart ==
  ASSUME NEW s, NEW log, DOMAIN s \subseteq Nat \ {0}, NEW t, t = <<>>
  PROVE  Copies(t, s, 1, {}, log)
  <1>1. DOMAIN t = {} /\ \A p \in DOMAIN s : ~ (p < 1)
    OBVIOUS
  <1> QED BY <1>1 DEF Copies, InOrder, Keys

\* An entry of s that comes later is not among those before n.
LEMMA NotEarlier ==
  ASSUME NEW s, NEW log, DOMAIN s \subseteq Nat, DOMAIN log \subseteq Nat, InOrder(s, log),
         NEW n \in DOMAIN s, s[n].key \in Posted(log)
  PROVE  \A p \in DOMAIN s : p < n => s[p].key # s[n].key
  BY Distinct

LEMMA CopyDrop ==
  ASSUME NEW c, NEW s \in Seq(EntriesTo(c)), NEW log \in Seq(Nat \ {0}), NEW d, NEW fl,
         Good(s, d, log, fl), NEW t, NEW g, NEW n \in DOMAIN s, Copies(t, s, n, g, log),
         NEW h, h = g \cup ({s[n].key} \ {0})
  PROVE  Copies(t, s, n + 1, h, log)
  <1>1. DOMAIN s = 1 .. Len(s) /\ Len(s) \in Nat /\ DOMAIN log \subseteq Nat /\ n \in Nat
    BY LenProperties
  <1>2. \A p \in DOMAIN s : p < n + 1 <=> p < n \/ p = n
    BY <1>1
  <1>3. s[n].key # 0 => \A p \in DOMAIN s : p < n => s[p].key # s[n].key
    <2>1. s[n].key # 0 => s[n].key \in Posted(log)
      BY DEF Good, Keys
    <2> QED BY <1>1, <2>1, NotEarlier DEF Good
  <1>4. Keys(t) \cap h = {}
    <2>1. s[n].key # 0 => s[n].key \notin Keys(t)
      BY <1>3 DEF Copies, Keys
    <2> QED BY <2>1 DEF Copies
  <1>5. \A a \in DOMAIN t : \E p \in DOMAIN s : p < n + 1 /\ t[a] = s[p]
    BY <1>2 DEF Copies
  <1>6. \A p \in DOMAIN s : p < n + 1 /\ s[p].key \notin h \cup {0} => s[p].key \in Keys(t)
    BY <1>2 DEF Copies
  <1>7. \A k \in h : \E p \in DOMAIN s : p < n + 1 /\ s[p].key = k
    BY <1>2 DEF Copies
  <1> QED BY <1>4, <1>5, <1>6, <1>7 DEF Copies

LEMMA CopyKeep ==
  ASSUME NEW c, NEW s \in Seq(EntriesTo(c)), NEW log \in Seq(Nat \ {0}), NEW d, NEW fl,
         Good(s, d, log, fl), NEW t \in Seq(EntriesTo(c)), NEW g, NEW n \in DOMAIN s,
         Copies(t, s, n, g, log), 0 \notin g
  PROVE  Copies(Append(t, s[n]), s, n + 1, g, log)
  <1> DEFINE u == Append(t, s[n])
             m == Len(t)
             e == s[n]
  <1>1. /\ DOMAIN s = 1 .. Len(s) /\ Len(s) \in Nat /\ DOMAIN log \subseteq Nat /\ n \in Nat
        /\ m \in Nat /\ DOMAIN t = 1 .. m /\ e \in EntriesTo(c)
    BY LenProperties, ElementOfSeq
  <1>2. DOMAIN u = 1 .. m + 1 /\ u[m + 1] = e /\ \A a \in 1 .. m : u[a] = t[a]
    <2> HIDE DEF e
    <2> QED BY <1>1, AppendProperties, LenProperties DEF e
  <1> HIDE DEF u, m
  <1>3. \A a \in 1 .. m + 1 : a \in 1 .. m \/ a = m + 1
    BY <1>1
  <1>4. 1 .. m \subseteq 1 .. m + 1 /\ m + 1 \in 1 .. m + 1
    BY <1>1
  <1>5. \A p \in DOMAIN s : p < n + 1 <=> p < n \/ p = n
    BY <1>1
  <1>6. Keys(u) = Keys(t) \cup ({e.key} \ {0})
    BY <1>1, <1>2, <1>3, <1>4 DEF Keys
  <1>7. e.key # 0 => \A p \in DOMAIN s : p < n => s[p].key # e.key
    <2>1. s[n].key # 0 => s[n].key \in Posted(log)
      BY DEF Good, Keys
    <2>2. DOMAIN s \subseteq Nat /\ DOMAIN log \subseteq Nat /\ InOrder(s, log)
      BY <1>1 DEF Good
    <2>3. ASSUME s[n].key # 0 PROVE \A p \in DOMAIN s : p < n => s[p].key # s[n].key
      BY <2>1, <2>2, <2>3, NotEarlier
    <2> QED BY <2>3
  <1>8. Keys(u) \cap g = {}
    BY <1>6, <1>7 DEF Copies
  <1>9. \A a \in DOMAIN u : \E p \in DOMAIN s : p < n + 1 /\ u[a] = s[p]
    BY <1>1, <1>2, <1>3, <1>5 DEF Copies
  <1>10. \A p \in DOMAIN s : p < n + 1 /\ s[p].key \notin g \cup {0} => s[p].key \in Keys(u)
    BY <1>5, <1>6 DEF Copies
  <1>11. \A k \in g : \E p \in DOMAIN s : p < n + 1 /\ s[p].key = k
    BY <1>5 DEF Copies
  <1>12. InOrder(u, log)
    <2> SUFFICES ASSUME NEW a \in DOMAIN u, NEW b \in DOMAIN u, NEW i \in DOMAIN log,
                        NEW k \in DOMAIN log, a < b, u[a].key = log[i], u[b].key = log[k]
                 PROVE  i < k
      BY DEF InOrder
    <2>1. a \in 1 .. m /\ u[a] = t[a]
      BY <1>1, <1>2, <1>3
    <2>2. CASE b \in 1 .. m
      BY <1>1, <1>2, <2>1, <2>2 DEF Copies, InOrder
    <2>3. CASE b = m + 1
      <3>1. PICK p \in DOMAIN s : p < n /\ t[a] = s[p]
        BY <1>1, <2>1 DEF Copies
      <3> QED BY <1>2, <2>1, <2>3, <3>1 DEF Good, InOrder
    <2> QED BY <1>2, <1>3, <2>2, <2>3
  <1>13. Copies(u, s, n + 1, g, log)
    BY <1>8, <1>9, <1>10, <1>11, <1>12 DEF Copies
  <1> QED BY <1>13 DEF u, e

\* The copy is complete: it is what .DIR should be once g is deleted.
LEMMA CopyEnd ==
  ASSUME NEW c, NEW s \in Seq(EntriesTo(c)), NEW log, NEW d, NEW fl, Good(s, d, log, fl),
         NEW t, NEW g, NEW n \in Nat, n > Len(s), Copies(t, s, n, g, log), 0 \notin g
  PROVE  Good(t, d \cup g, log, fl)
  <1>1. \A p \in DOMAIN s : p < n
    BY LenProperties
  <1>2. \A k \in Keys(t) : k \in Keys(s) \ g
    BY DEF Copies, Keys
  <1>3. \A k \in Keys(s) \ g : k \in Keys(t)
    BY <1>1 DEF Copies, Keys
  <1>4. g \subseteq Keys(s)
    BY DEF Copies, Keys
  <1>5. RightFlags(t, fl)
    BY DEF Copies, Good, RightFlags
  <1> QED BY <1>2, <1>3, <1>4, <1>5 DEF Good, Copies

-----------------------------------------------------------------------------
\* Nobody but w does anything.
Rest(w) ==
  \A v \in Workers \ {w} : pc'[v] = pc[v] /\ job'[v] = job[v] /\ (v \in dead' <=> v \in dead)

\* w leaves .DIR alone, and what the others have in hand.
Undisturbed(w) ==
  /\ UNCHANGED <<done, sent, flagged>> /\ name'.dir = name.dir
  /\ name'.tmp = name.tmp \/ name.tmp = 0 \/ Rewriting(w)
  /\ name'.web = name.web \/ name.web = 0
  /\ \A g \in 1 .. Len(files) :
       \/ files'[g] = files[g]
       \/ g = name.tmp /\ Rewriting(w)
       \/ g = name.web /\ \A v \in Workers \ {w} : ~Web(v)
  /\ Replacing(w)' => Replacing(w) \/ \A v \in Workers : ~At(v, "truncate")

\* What IInv says of the files that have a name.
LEMMA NamedFiles ==
  ASSUME IInv, TmpApart
  PROVE  /\ Len(files) \in Nat /\ created \in Nat
         /\ name.dir # 0 => name.dir \in 1 .. Len(files)
         /\ name.tmp # 0 => name.tmp \in 1 .. Len(files)
         /\ name.web # 0 => name.web \in 1 .. Len(files)
         /\ name.tmp # 0 => name.tmp # name.dir /\ name.tmp # name.web
         /\ name.web # 0 => name.web # name.dir
         /\ \A v \in Workers : Rewriting(v) => name.tmp # 0
         /\ \A u, v \in Workers : Rewriting(u) /\ Rewriting(v) => u = v
         /\ \A g \in 1 .. Len(files) : files[g] \in Seq(EntriesTo(created))
         /\ sent \in Seq(Nat \ {0})
  <1>1. Len(files) \in Nat /\ created \in Nat /\ files \in Seq(Seq(EntriesTo(created)))
    BY TypesTo, LenProperties DEF IInv, TypeOK
  <1>2. sent \in Seq(Nat \ {0})
    <2>1. sent \in Seq(1 .. created) /\ 1 .. created \subseteq Nat \ {0}
      BY <1>1 DEF IInv, TypeOK
    <2> QED BY <2>1, SeqMonotonic
  <1>3. \A g \in 1 .. Len(files) : files[g] \in Seq(EntriesTo(created))
    BY <1>1, ElementOfSeq
  <1>4. name.dir \in 0 .. Len(files) /\ name.tmp \in 0 .. Len(files) /\ name.web \in 0 .. Len(files)
    BY DEF IInv, TypeOK
  <1>5. \A i \in 0 .. Len(files) : i # 0 => i \in 1 .. Len(files)
    BY <1>1
  <1>6. /\ \A v \in Workers : Rewriting(v) => name.tmp # 0
        /\ \A u, v \in Workers : Rewriting(u) /\ Rewriting(v) => u = v
    BY DEF IInv, OneRewriter
  <1> QED BY <1>1, <1>2, <1>3, <1>4, <1>5, <1>6 DEF IInv, Apart, TmpApart

LEMMA OthersUndisturbed ==
  ASSUME IInv, TmpApart, Calm, NEW w \in Workers, Rest(w), Undisturbed(w)
  PROVE  \A v \in Workers \ {w} : Facts(v)'
  <1> SUFFICES ASSUME NEW v \in Workers \ {w}, v \notin dead
               PROVE  Facts(v)'
    <2>1. ASSUME NEW v \in Workers \ {w}, v \in dead PROVE Facts(v)'
      <3>1. v \in dead'
        BY <2>1 DEF Rest
      <3> QED BY <3>1 DEF Facts, Saw, ToShift, ToCut, ToPut, Copying, Replaced, OnWeb, Web, At
    <2> QED BY <2>1
  <1>1. pc'[v] = pc[v] /\ job'[v] = job[v] /\ v \notin dead'
    BY DEF Rest
  <1>2. Facts(v)
    BY DEF Calm
  <1>3. UNCHANGED <<done, sent, flagged>> /\ name'.dir = name.dir
    BY DEF Undisturbed
  <1>4. name.dir # 0 => files'[name.dir] = files[name.dir]
    BY NamedFiles DEF Undisturbed
  <1>5. Rewriting(v) => name'.tmp = name.tmp /\ files'[name.tmp] = files[name.tmp]
    <2>1. Rewriting(v) => name.tmp # 0 /\ ~ Rewriting(w)
      BY NamedFiles
    <2> QED BY <2>1, NamedFiles DEF Undisturbed
  <1>6. Web(v) => name'.web = name.web /\ files'[name.web] = files[name.web]
    <2>1. Web(v) => name.web # 0
      BY <1>2 DEF Facts, OnWeb
    <2> QED BY <2>1, NamedFiles DEF Undisturbed
  <1>7. pc[v] \in {"shift", "truncate", "put", "copy", "retire", "promote"} =>
          job[v].file \in 1 .. Len(files) /\ files'[job[v].file] = files[job[v].file]
    <2>1. pc[v] \in {"shift", "truncate", "put", "copy", "retire", "promote"} =>
            job[v].file \in 1 .. Len(files)
      BY DEF IInv, InHand, Fits, Opened
    <2>2. name.tmp # 0 => job[v].file # name.tmp
      BY DEF TmpApart
    <2>3. name.web # 0 => job[v].file # name.web
      BY DEF IInv, Apart
    <2>4. ASSUME job[v].file \in 1 .. Len(files)
          PROVE  job[v].file # name.tmp /\ job[v].file # name.web
      BY <2>2, <2>3, <2>4, NamedFiles
    <2> QED BY <2>1, <2>4 DEF Undisturbed
  <1>8. Saw(v)'
    BY <1>1, <1>2, <1>3, <1>4 DEF Facts, Saw, Dir
  <1>9. ToShift(v)'
    BY <1>1, <1>2, <1>3, <1>7 DEF Facts, ToShift, Dir, At
  <1>10. ToCut(v)'
    <2>1. SUFFICES ASSUME At(v, "truncate") PROVE ToCut(v)'
      BY <1>1 DEF ToCut, At
    <2>2. \A u \in Workers : ~Replacing(u)'
      <3>1. \A u \in Workers : ~Replacing(u)
        BY <1>2, <2>1 DEF Facts, ToCut
      <3>2. \A u \in Workers \ {w} : ~Replacing(u)'
        BY <3>1 DEF Rest, Replacing, Rewriting
      <3>3. ~Replacing(w)'
        BY <2>1, <3>1 DEF Undisturbed
      <3> QED BY <3>2, <3>3
    <2>3. Dir' = Dir
      BY <1>2, <1>3, <1>7, <2>1 DEF Facts, ToCut, Dir, At
    <2> QED BY <1>1, <1>2, <1>3, <2>1, <2>2, <2>3 DEF Facts, ToCut, GoodNow
  <1>11. ToPut(v)'
    BY <1>1, <1>2, <1>7 DEF Facts, ToPut, Content, At
  <1>12. Copying(v)'
    <2>1. SUFFICES ASSUME At(v, "copy") PROVE Copying(v)'
      BY <1>1 DEF Copying, At
    <2>2. Dir' = Dir /\ Tmp' = Tmp
      BY <1>2, <1>3, <1>5, <1>7, <2>1 DEF Facts, Copying, Dir, Tmp, At, Rewriting
    <2>3. Aligned(v, Dir, Tmp)'
      BY <1>1, <1>2, <2>1, <2>2 DEF Facts, Copying, Aligned, Current
    <2> QED BY <1>1, <1>2, <1>3, <2>1, <2>2, <2>3 DEF Facts, Copying
  <1>13. Replaced(v)'
    <2>1. SUFFICES ASSUME At(v, "retire") \/ At(v, "promote") PROVE Replaced(v)'
      BY <1>1 DEF Replaced, At
    <2>2. Tmp' = Tmp
      BY <1>5, <2>1 DEF Tmp, At, Rewriting
    <2>3. Current(v)' = Current(v)
      BY <1>1 DEF Current
    <2> QED BY <1>1, <1>2, <1>3, <2>1, <2>2, <2>3 DEF Facts, Replaced, GoodNow
  <1>14. OnWeb(v)'
    BY <1>1, <1>2, <1>3, <1>6 DEF Facts, OnWeb, Web, GoodNow
  <1> QED BY <1>8, <1>9, <1>10, <1>11, <1>12, <1>13, <1>14 DEF Facts

\* A step after which .DIR is as good as before.
LEMMA QuietStep ==
  ASSUME IInv, TmpApart, Calm, NEW w \in Workers, Rest(w), Undisturbed(w), Facts(w)',
         pc[w] \notin {"promote", "truncate"},
         Web(w)' => Web(w) \/ \A v \in Workers \ {w} : ~Web(v),
         Appends(w)' => \/ Appends(w) /\ job'[w].key = job[w].key
                        \/ job'[w].key \notin 0 .. created
  PROVE  Calm'
  <1>1. \A v \in Workers : Facts(v)'
    BY OthersUndisturbed
  <1>2. UNCHANGED <<done, sent, flagged>> /\ name'.dir = name.dir
    BY DEF Undisturbed
  <1>3. HistoryOK'
    BY <1>2 DEF Calm, HistoryOK, Posted
  <1>4. \A v \in Workers \ {w} : (Appends(v)' <=> Appends(v)) /\ job'[v].key = job[v].key
    BY DEF Rest, Appends
  <1>5. \A v \in Workers : job[v].key \in 0 .. created
    BY Known DEF JobsTo
  <1>6. \A k \in Posted(sent) : k \in 0 .. created
    <2>1. sent \in Seq(1 .. created) /\ created \in Nat
      BY NamedFiles DEF IInv, TypeOK
    <2>2. \A i \in DOMAIN sent : sent[i] \in 1 .. created
      BY <2>1, ElementOfSeq
    <2> QED BY <2>1, <2>2 DEF Posted
  <1>7. NewKeys'
    <2>1. NewKeys /\ Posted(sent)' = Posted(sent)
      BY <1>2 DEF Calm, Posted
    <2>2. \A v \in Workers : Appends(v)' => job'[v].key \notin Posted(sent)
      BY <1>4, <1>6, <2>1 DEF NewKeys
    <2>3. \A u, v \in Workers : Appends(u)' /\ Appends(v)' /\ job'[u].key = job'[v].key => u = v
      BY <1>4, <1>5, <2>1 DEF NewKeys
    <2> QED BY <2>1, <2>2, <2>3 DEF NewKeys
  <1>8. \A v \in Workers \ {w} : \A s : At(v, s) => pc'[v] = s /\ v \notin dead'
    BY DEF Rest, At
  <1>9. \A v \in Workers \ {w} : pc'[v] = pc[v] /\ (v \in dead' <=> v \in dead)
    BY DEF Rest
  <1>10. DirGood'
    <2>1. CASE name.dir = 0
      <3>1. PICK v \in Workers : At(v, "promote")
        BY <2>1 DEF Calm, DirGood
      <3>2. v # w
        BY <3>1 DEF At
      <3> QED BY <1>2, <1>8, <2>1, <3>1, <3>2 DEF DirGood, At
    <2>2. CASE name.dir # 0
      <3>1. SUFFICES ASSUME \A v \in Workers : ~At(v, "truncate")'
                     PROVE  GoodNow(Dir, done)'
        BY <1>2, <2>2 DEF DirGood
      <3>2. \A v \in Workers : ~At(v, "truncate")
        BY <1>9, <3>1 DEF At
      <3>3. GoodNow(Dir, done)
        BY <2>2, <3>2 DEF Calm, DirGood
      <3>4. Dir' = Dir
        BY <1>2, <2>2, NamedFiles DEF Undisturbed, Dir
      <3> QED BY <1>2, <3>3, <3>4 DEF GoodNow
    <2> QED BY <2>1, <2>2
  <1>11. OneWeb'
    <2>1. \A v \in Workers \ {w} : Web(v)' <=> Web(v)
      BY DEF Rest, Web
    <2> QED BY <2>1 DEF Calm, OneWeb
  <1> QED BY <1>1, <1>3, <1>7, <1>10, <1>11 DEF Calm

\* What a call has in hand after a step, before it copies anything and when
\* it is over.
LEMMA LittleInHand ==
  ASSUME NEW w \in Workers, Saw(w)',
         pc'[w] \notin {"shift", "truncate", "put", "copy", "retire", "promote",
                        "load", "sift", "flush", "swap"}
  PROVE  Facts(w)'
  <1>1. ToShift(w)' /\ ToCut(w)' /\ ToPut(w)'
    BY DEF ToShift, ToCut, ToPut, At
  <1>2. Copying(w)' /\ Replaced(w)' /\ OnWeb(w)'
    BY DEF Copying, Replaced, OnWeb, At, Web, Webs
  <1> QED BY <1>1, <1>2 DEF Facts

LEMMA NothingInHand ==
  ASSUME NEW w \in Workers, w \in dead' \/ pc'[w] \in {"idle", "write"}
  PROVE  Facts(w)'
  <1>1. Saw(w)'
    BY DEF Saw, Looking
  <1>2. CASE w \notin dead'
    BY <1>1, <1>2, LittleInHand
  <1>3. CASE w \in dead'
    <2>1. ToShift(w)' /\ ToCut(w)' /\ ToPut(w)'
      BY <1>3 DEF ToShift, ToCut, ToPut, At
    <2>2. Copying(w)' /\ Replaced(w)' /\ OnWeb(w)'
      BY <1>3 DEF Copying, Replaced, OnWeb, At, Web
    <2> QED BY <1>1, <2>1, <2>2 DEF Facts
  <1> QED BY <1>2, <1>3

-----------------------------------------------------------------------------
\* The steps of those who will replace .DIR, from when they have read it on.
Writing == Rewrite \cup {"sift", "flush", "swap"}

\* What a step by w may do to the names, and to the file w has open.
TmpStep(w, j) ==
  \/ name'.tmp = 0
  \/ /\ name'.tmp = name.tmp /\ Clear(w, j)
     /\ name'.dir \in {0, name.dir, name.web, Len(files) + 1}
  \/ name'.tmp = Len(files) + 1 /\ name'.dir = name.dir /\ j.file = job[w].file

LEMMA ShapeKept ==
  ASSUME IInv, TmpApart, AllIntent, NEW w \in Workers \ dead, NEW s, NEW j, Moved(w, s, j),
         dead' = dead, TmpStep(w, j), Intent(s, j)
  PROVE  TmpApart' /\ AllIntent'
  <1>1. \A v \in Workers \ {w} : pc'[v] = pc[v] /\ SameJob(job'[v], job[v])
    BY DEF Moved
  <1>2. AllIntent'
    <2>1. SUFFICES ASSUME NEW v \in Workers \ dead, v # w PROVE Intent(pc'[v], job'[v])
      BY DEF AllIntent, Moved
    <2>2. Intent(pc[v], job[v])
      BY DEF AllIntent
    <2> QED BY <1>1, <2>1, <2>2 DEF Intent, SameJob, SameAim
  <1>3. TmpApart'
    <2>1. /\ \A v \in Workers : job[v].file \in 0 .. Len(files)
          /\ name.tmp \in 0 .. Len(files) /\ name.dir \in 0 .. Len(files)
          /\ name.web \in 0 .. Len(files) /\ Len(files) \in Nat
      BY Known DEF JobsTo, IInv, TypeOK
    <2>2. \A i \in 0 .. Len(files) : i # Len(files) + 1
      BY <2>1
    <2>3. job'[w].file = j.file /\ \A v \in Workers \ {w} : job'[v].file = job[v].file
      BY <1>1 DEF Moved, SameJob, SameAim
    <2>4. name.tmp # 0 => name.tmp # name.web
      BY DEF IInv, Apart
    <2>5. SUFFICES ASSUME name'.tmp # 0
                   PROVE  /\ name'.tmp # name'.dir /\ name'.tmp # j.file
                          /\ \A v \in Workers \ dead : v # w => job[v].file # name'.tmp
      BY <2>3 DEF TmpApart
    <2>6. CASE name'.tmp = name.tmp
      <3>1. name'.tmp # Len(files) + 1
        BY <2>1, <2>2, <2>6
      <3> QED BY <2>1, <2>2, <2>4, <2>5, <2>6, <3>1 DEF TmpApart, TmpStep, Clear
    <2>7. CASE name'.tmp # name.tmp
      BY <2>1, <2>2, <2>5, <2>7 DEF TmpStep
    <2> QED BY <2>6, <2>7
  <1> QED BY <1>2, <1>3

\* A step by w alone, which leaves .DIR as it was.
LEMMA StepAlone ==
  ASSUME SInv, NEW w \in Workers \ dead, NEW s, NEW j, Rest(w), pc'[w] = s, job'[w] = j,
         dead' = dead, harm \subseteq harm', TmpStep(w, j), Intent(s, j),
         pc[w] \notin {"promote", "truncate"},
         harm' = {} /\ Calm =>
           /\ Facts(w)' /\ Undisturbed(w)
           /\ s \in Webs => pc[w] \in Webs \/ \A v \in Workers \ {w} : ~Web(v),
         j.op = "append" => \/ job[w].op = "append" /\ j.key = job[w].key
                            \/ j.key \notin 0 .. created
  PROVE  Sound'
  <1>1. IInv /\ TmpApart /\ AllIntent /\ (harm = {} => Calm)
    BY DEF SInv, Sound
  <1>2. Moved(w, s, j)
    BY DEF Moved, Rest, SameJob, SameAim
  <1>3. TmpApart' /\ AllIntent'
    BY <1>1, <1>2, ShapeKept
  <1>4. ASSUME harm' = {} PROVE Calm'
    <2>1. Calm
      BY <1>1, <1>4
    <2>2. Web(w)' => Web(w) \/ \A v \in Workers \ {w} : ~Web(v)
      BY <1>4, <2>1 DEF Web
    <2>3. Appends(w)' => \/ Appends(w) /\ job'[w].key = job[w].key
                         \/ job'[w].key \notin 0 .. created
      BY DEF Appends
    <2> QED BY <1>1, <1>4, <2>1, <2>2, <2>3, QuietStep
  <1> QED BY <1>3, <1>4 DEF Sound

\* A step of w that changes neither the files nor their names.
LEMMA StepInside ==
  ASSUME SInv, NEW w \in Workers \ dead, NEW s, NEW j, Rest(w), pc'[w] = s, job'[w] = j,
         dead' = dead, harm \subseteq harm', UNCHANGED <<files, name, done, sent, flagged>>,
         Clear(w, j), Intent(s, j),
         pc[w] \notin {"promote", "truncate"}, s \in Webs => pc[w] \in Webs,
         harm' = {} /\ Calm =>
           /\ Facts(w)'
           /\ s \in Writing => pc[w] \in Writing \/ \A v \in Workers : ~At(v, "truncate"),
         j.op = "append" => \/ job[w].op = "append" /\ j.key = job[w].key
                            \/ j.key \notin 0 .. created
  PROVE  Sound'
  <1>1. TmpStep(w, j)
    BY DEF TmpStep
  <1>2. (Replacing(w)' => s \in Writing) /\ (pc[w] \in Writing => Replacing(w))
    BY DEF Replacing, Rewriting, Writing, Rewrite
  <1>3. UNCHANGED <<files, name, done, sent, flagged>>
    OBVIOUS
  <1>4. harm' = {} /\ Calm => Facts(w)' /\ Undisturbed(w)
    BY <1>2 DEF Undisturbed
  <1> QED BY <1>1, <1>4, StepAlone

LEMMA Ours ==
  ASSUME SInv, NEW w \in Workers
  PROVE  /\ IInv /\ TmpApart /\ AllIntent /\ (harm = {} => Calm)
         /\ w \notin dead => Intent(pc[w], job[w]) /\ Fits(pc[w], job[w], files)
         /\ job[w] \in JobsTo(created, Len(files)) /\ pc[w] \in Steps
         /\ DOMAIN pc = Workers /\ DOMAIN job = Workers
  <1>1. IInv /\ TmpApart /\ AllIntent /\ (harm = {} => Calm)
    BY DEF SInv, Sound
  <1>2. DOMAIN pc = Workers /\ DOMAIN job = Workers
    BY <1>1 DEF IInv, TypeOK
  <1> QED BY <1>1, <1>2, Known DEF AllIntent

LEMMA Alone ==
  ASSUME SInv, NEW w \in Workers, NEW s, NEW j, pc' = [pc EXCEPT ![w] = s] \/ (pc' = pc /\ s = pc[w]),
         job' = [job EXCEPT ![w] = j] \/ (job' = job /\ j = job[w]), dead' = dead
  PROVE  Rest(w) /\ pc'[w] = s /\ job'[w] = j
  BY Ours DEF Rest

LEMMA FinishSound ==
  ASSUME SInv, NEW w \in Workers \ dead, Finish(w), pc[w] \notin {"promote", "truncate"},
         UNCHANGED <<files, name, dead, done, sent, flagged>>, harm \subseteq harm'
  PROVE  Sound'
  <1>1. Rest(w) /\ pc'[w] = "idle" /\ job'[w] = NoJob
    BY Alone DEF Finish, Goto
  <1>2. Intent("idle", NoJob) /\ Clear(w, NoJob) /\ NoJob.op # "append"
    BY DEF Intent, NoJob, Clear, Named, Untouched, Looking
  <1>3. Facts(w)'
    BY <1>1, NothingInHand
  <1>4. "idle" \notin Webs /\ "idle" \notin Writing
    BY DEF Webs, Writing, Rewrite
  <1> QED BY <1>1, <1>2, <1>3, <1>4, StepInside

LEMMA FlockSound ==
  ASSUME SInv, NEW w \in Workers, Flock(w)
  PROVE  Sound'
  <1> DEFINE s == IF job[w].op = "update_file" THEN "read" ELSE "scan"
  <1>1. w \in Workers \ dead /\ pc[w] = "flock" /\ dead' = dead
        /\ UNCHANGED <<files, name, done, sent, flagged, harm, job>>
    BY DEF Flock, At
  <1>2. Rest(w) /\ pc'[w] = s /\ job'[w] = job[w]
    BY <1>1, Alone DEF Flock, Goto
  <1>3. s \in {"read", "scan"} /\ s \in Looking /\ pc[w] \in Looking
    BY <1>1 DEF Looking
  <1>4. Intent(s, job[w])
    BY <1>1, Ours DEF Intent, Named, Untouched, Looking
  <1>5. Clear(w, job[w])
    BY DEF Clear
  <1>6. s \notin Webs /\ s \notin Writing
    BY <1>3 DEF Webs, Writing, Rewrite
  <1> HIDE DEF s
  <1>7. ASSUME Calm PROVE Facts(w)'
    <2>1. Saw(w)
      BY <1>7 DEF Calm, Facts
    <2>2. Saw(w)'
      BY <1>1, <1>2, <1>3, <2>1 DEF Saw, Dir
    <2> QED BY <1>2, <1>3, <2>2, LittleInHand
  <1> QED BY <1>1, <1>2, <1>4, <1>5, <1>6, <1>7, StepInside

LEMMA StatSound ==
  ASSUME SInv, NEW w \in Workers, Stat(w)
  PROVE  Sound'
  <1>1. w \in Workers \ dead /\ pc[w] = "stat" /\ dead' = dead
        /\ UNCHANGED <<files, name, done, sent, flagged, harm>>
    BY DEF Stat, At
  <1>2. CASE Goto(w, "open") /\ UNCHANGED <<job, locked>>
    <2>1. Rest(w) /\ pc'[w] = "open" /\ job'[w] = job[w]
      BY <1>1, <1>2, Alone DEF Goto
    <2>2. Intent("open", job[w])
      BY <1>1, Ours DEF Intent, Untouched, Looking
    <2>3. Clear(w, job[w]) /\ "open" \notin Webs /\ "open" \notin Writing
      BY DEF Clear, Webs, Writing, Rewrite
    <2>4. ASSUME Calm PROVE Facts(w)'
      <3>1. Saw(w)
        BY <2>4 DEF Calm, Facts
      <3>2. Saw(w)'
        BY <1>1, <2>1, <3>1 DEF Saw, Dir, Looking
      <3> QED BY <2>1, <3>2, LittleInHand
    <2> QED BY <1>1, <2>1, <2>2, <2>3, <2>4, StepInside
  <1>3. CASE Finish(w)
    BY <1>1, <1>3, FinishSound
  <1> QED BY <1>2, <1>3 DEF Stat

\* m_new goes on to the next of the mails it was given.
LEMMA ContinuedIntent ==
  ASSUME SInv, NEW w \in Workers \ dead, pc[w] # "idle", job[w].op = "m_new",
         job[w].ids # {Current(w)}
  PROVE  /\ Intent("open", Continued(w)) /\ Continued(w).op = "m_new" /\ Continued(w).file = 0
         /\ Continued(w).look = job[w].look /\ Continued(w).stale = job[w].stale
         /\ Continued(w).ids = job[w].ids \ {Current(w)} /\ Continued(w).gone = {}
  <1> DEFINE ids == job[w].ids \ {Current(w)}
             c == Continued(w)
  <1>1. /\ c.op = "m_new" /\ c.file = 0 /\ c.look = job[w].look /\ c.stale = job[w].stale
        /\ c.ids = ids /\ c.gone = {}
    BY DEF Continued, NoJob
  <1>2. job[w].ids # {} /\ job[w].ids \subseteq DOMAIN job[w].look
    BY Ours DEF Intent, Ops
  <1>3. ids # {} /\ ids \subseteq DOMAIN job[w].look
    BY <1>2
  <1> HIDE DEF ids, c
  <1>4. Intent("open", c)
    BY <1>1, <1>3 DEF Intent, Named
  <1> QED BY <1>1, <1>4 DEF c, ids

\* A rewriter gives up.
LEMMA EndSound ==
  ASSUME SInv, NEW w \in Workers \ dead, pc[w] \in {"open", "excl", "copy"}, EndRewrite(w, job),
         UNCHANGED <<files, dead, sent, done, flagged>>, harm \subseteq harm',
         name' = name \/ (name' = [name EXCEPT !.tmp = 0] /\ pc[w] = "copy")
  PROVE  Sound'
  <1>1. UNCHANGED <<files, dead, sent, done, flagged>> /\ name'.dir = name.dir
        /\ name'.web = name.web /\ name'.tmp \in {0, name.tmp}
        /\ (name'.tmp = name.tmp \/ pc[w] = "copy")
    <2>1. name \in Names(Len(files))
      BY Ours DEF IInv, TypeOK, Names
    <2> QED BY <2>1 DEF Names
  <1>2. \E s, j : /\ Rest(w) /\ pc'[w] = s /\ job'[w] = j
                  /\ s \in {"idle", "open"} /\ Intent(s, j) /\ j.op # "append" /\ j.file = 0
                  /\ s = "open" => /\ j.look = job[w].look /\ j.stale = job[w].stale
                                   /\ j.ids \subseteq job[w].ids
    <2>1. CASE job[w].op = "m_new" /\ job[w].ids # {Current(w)}
      <3>1. Rest(w) /\ pc'[w] = "open" /\ job'[w] = Continued(w)
        BY <2>1, <1>1, Alone DEF EndRewrite, Goto
      <3> QED BY <2>1, <3>1, ContinuedIntent
    <2>2. CASE ~(job[w].op = "m_new" /\ job[w].ids # {Current(w)})
      <3>1. Rest(w) /\ pc'[w] = "idle" /\ job'[w] = NoJob
        BY <2>2, <1>1, Alone DEF EndRewrite, Goto
      <3>2. Intent("idle", NoJob) /\ NoJob.op # "append" /\ NoJob.file = 0
        BY DEF Intent, NoJob, Named, Untouched, Looking
      <3> QED BY <3>1, <3>2
    <2> QED BY <2>1, <2>2
  <1>3. PICK s, j : /\ Rest(w) /\ pc'[w] = s /\ job'[w] = j
                    /\ s \in {"idle", "open"} /\ Intent(s, j) /\ j.op # "append" /\ j.file = 0
                    /\ s = "open" => /\ j.look = job[w].look /\ j.stale = job[w].stale
                                     /\ j.ids \subseteq job[w].ids
    BY <1>2
  <1>4. s \notin Webs /\ s \notin Writing /\ pc[w] \notin {"promote", "truncate"}
    BY <1>3 DEF Webs, Writing, Rewrite
  <1>5. TmpStep(w, j)
    BY <1>1, <1>3 DEF TmpStep, Clear
  <1>6. ASSUME Calm PROVE Facts(w)'
    <2>1. CASE s = "idle"
      BY <1>3, <2>1, NothingInHand
    <2>2. CASE s = "open"
      <3>1. Saw(w) /\ pc[w] \in Looking
        BY <1>6 DEF Calm, Facts, Looking
      <3>2. Saw(w)'
        BY <1>1, <1>3, <2>2, <3>1 DEF Saw, Dir
      <3> QED BY <1>3, <2>2, <3>2, LittleInHand
    <2> QED BY <1>3, <2>1, <2>2
  <1>7. Undisturbed(w)
    <2>1. name'.tmp = name.tmp \/ Rewriting(w)
      BY <1>1 DEF Rewriting
    <2>2. ~Replacing(w)'
      BY <1>3 DEF Replacing, Rewriting
    <2> QED BY <1>1, <2>1, <2>2 DEF Undisturbed
  <1> QED BY <1>1, <1>3, <1>4, <1>5, <1>6, <1>7, StepAlone

LEMMA OpenSound ==
  ASSUME SInv, NEW w \in Workers, Open(w)
  PROVE  Sound'
  <1>1. w \in Workers \ dead /\ pc[w] = "open" /\ dead' = dead
        /\ UNCHANGED <<done, sent, flagged>>
    BY DEF Open, At
  <1>2. /\ job[w].op \in Ops /\ Intent("open", job[w]) /\ Len(files) \in Nat
        /\ job[w] \in JobsTo(created, Len(files))
    BY <1>1, Ours, Known DEF JobsTo
  <1>3. ASSUME NEW f \in Nat
        PROVE  LET s == FirstStep(job[w].op)
                   j == [job[w] EXCEPT !.file = f]
               IN  /\ Intent(s, j) /\ s \in {"write", "store", "flock", "excl", "wipe"}
                   /\ j.file = f /\ j.look = job[w].look /\ j.ids = job[w].ids
                   /\ j.stale = job[w].stale /\ j.op = job[w].op /\ j.key = job[w].key
    <2> DEFINE s == FirstStep(job[w].op)
               j == [job[w] EXCEPT !.file = f]
    <2>1. /\ s \in {"write", "store", "flock", "excl", "wipe"}
          /\ s = "flock" => job[w].op \in Named
          /\ s = "excl" => job[w].op \in {"none", "m_new", "delete_range"}
      BY <1>2 DEF FirstStep, Ops, Named
    <2>2. /\ j.file = f /\ j.look = job[w].look /\ j.ids = job[w].ids /\ j.gone = job[w].gone
          /\ j.stale = job[w].stale /\ j.op = job[w].op /\ j.key = job[w].key
      BY <1>2 DEF JobsTo
    <2> HIDE DEF s, j
    <2>3. Intent(s, j)
      BY <1>2, <2>1, <2>2 DEF Intent, Untouched, Looking
    <2>4. /\ Intent(s, j) /\ s \in {"write", "store", "flock", "excl", "wipe"}
          /\ j.file = f /\ j.look = job[w].look /\ j.ids = job[w].ids
          /\ j.stale = job[w].stale /\ j.op = job[w].op /\ j.key = job[w].key
      BY <2>1, <2>2, <2>3
    <2> QED BY <2>4 DEF s, j
  <1>4. CASE /\ name.dir # 0
             /\ job' = [job EXCEPT ![w].file = name.dir]
             /\ Goto(w, FirstStep(job[w].op))
             /\ UNCHANGED <<files, name, locked, harm>>
    <2> DEFINE s == FirstStep(job[w].op)
               j == [job[w] EXCEPT !.file = name.dir]
    <2>1. /\ Intent(s, j) /\ s \in {"write", "store", "flock", "excl", "wipe"}
          /\ j.file = name.dir /\ j.look = job[w].look /\ j.ids = job[w].ids
          /\ j.stale = job[w].stale /\ j.op = job[w].op /\ j.key = job[w].key
      <3>1. name.dir \in Nat
        BY <1>2, Ours DEF IInv, TypeOK
      <3> QED BY <1>3, <3>1
    <2>2. Rest(w) /\ pc'[w] = s /\ job'[w] = j
      BY <1>1, <1>4, Alone DEF Goto
    <2> HIDE DEF s, j
    <2>3. s \notin Webs /\ s \notin Writing
      BY <2>1 DEF Webs, Writing, Rewrite
    <2>4. Clear(w, j)
      BY <2>1 DEF Clear
    <2>5. ASSUME Calm PROVE Facts(w)'
      <3>1. Saw(w) /\ pc[w] \in Looking
        BY <1>1, <2>5 DEF Calm, Facts, Looking
      <3>2. Saw(w)'
        BY <1>1, <1>4, <2>1, <2>2, <3>1 DEF Saw, Dir
      <3> QED BY <2>1, <2>2, <3>2, LittleInHand
    <2> QED BY <1>1, <1>4, <2>1, <2>2, <2>3, <2>4, <2>5, StepInside
  <1>5. CASE /\ name.dir = 0
             /\ files' = Append(files, <<>>)
             /\ name' = [name EXCEPT !.dir = Len(files) + 1]
             /\ job' = [job EXCEPT ![w].file = Len(files) + 1]
             /\ harm' = harm \cup {"overtaken"}
             /\ Goto(w, FirstStep(job[w].op))
    <2> DEFINE s == FirstStep(job[w].op)
               j == [job[w] EXCEPT !.file = Len(files) + 1]
    <2>1. Intent(s, j) /\ j.file = Len(files) + 1
      <3>1. Len(files) + 1 \in Nat
        BY <1>2
      <3> QED BY <1>3, <3>1
    <2>2. Rest(w) /\ pc'[w] = s /\ job'[w] = j
      BY <1>1, <1>5, Alone DEF Goto
    <2>3. name'.dir = Len(files) + 1 /\ name'.tmp = name.tmp
      BY <1>5, Ours DEF IInv, TypeOK
    <2> HIDE DEF s, j
    <2>4. TmpStep(w, j) /\ Moved(w, s, j)
      BY <2>1, <2>2, <2>3 DEF TmpStep, Clear, Moved, Rest, SameJob, SameAim
    <2>5. TmpApart' /\ AllIntent'
      BY <1>1, <2>1, <2>4, Ours, ShapeKept
    <2> QED BY <1>5, <2>5 DEF Sound
  <1>6. CASE /\ name.dir = 0
             /\ IF job[w].op = "m_new" THEN EndRewrite(w, job) ELSE Finish(w)
             /\ UNCHANGED <<files, name, harm>>
    <2>1. CASE job[w].op = "m_new"
      BY <1>1, <1>6, <2>1, EndSound
    <2>2. CASE job[w].op # "m_new"
      BY <1>1, <1>6, <2>2, FinishSound
    <2> QED BY <2>1, <2>2
  <1> QED BY <1>4, <1>5, <1>6 DEF Open

\* A call may take note of what it reads.
LEMMA IntentKept ==
  ASSUME NEW i, NEW j, NEW s, NEW t, Intent(s, i), s # "idle", SameAim(j, i),
         \/ t \in {"shift", "put", "sift", "flush"}
         \/ s \in {"excl", "copy", "retire"} /\ t \in {"copy", "retire", "promote"}
  PROVE  Intent(t, j)
  BY DEF Intent, SameAim, Untouched, Looking

\* The file a call has open.
LEMMA OpenFile ==
  ASSUME IInv, NEW w \in Workers \ dead, pc[w] \notin {"idle", "stat", "open"}
  PROVE  /\ job[w].file \in 1 .. Len(files) /\ job[w].file # 0
         /\ Content(w) \in Seq(EntriesTo(created)) /\ Len(Content(w)) \in Nat
         /\ DOMAIN Content(w) = 1 .. Len(Content(w))
  <1>1. job[w].file \in 1 .. Len(files)
    BY Known DEF Fits, Opened
  <1>2. Content(w) \in Seq(EntriesTo(created))
    BY <1>1, Known DEF Content
  <1>3. job[w].file # 0
    <2>1. Len(files) \in Nat
      BY Known
    <2> QED BY <1>1, <2>1
  <1> QED BY <1>1, <1>2, <1>3, LenProperties

LEMMA ScanSound ==
  ASSUME SInv, NEW w \in Workers, Scan(w)
  PROVE  Sound'
  <1>1. w \in Workers \ dead /\ pc[w] = "scan" /\ dead' = dead
        /\ UNCHANGED <<files, name, done, sent, flagged>> /\ harm \subseteq harm'
    BY DEF Scan, At
  <1>2. CASE Candidates(w) = {}
    BY <1>1, <1>2, FinishSound DEF Scan
  <1>3. CASE Candidates(w) # {}
    <2> DEFINE p == Least(Candidates(w))
               j == Noted(job[w], p, Content(w), job[w].key)
               b == Content(w)
    <2>1. /\ b \in Seq(EntriesTo(created)) /\ Len(b) \in Nat /\ DOMAIN b = 1 .. Len(b)
      BY <1>1, Ours, OpenFile
    <2>2. p \in Candidates(w) /\ p \in DOMAIN b /\ p \in Nat
      <3>1. Candidates(w) \subseteq DOMAIN b
        BY DEF Candidates
      <3>2. Candidates(w) \in SUBSET Nat
        BY <2>1, <3>1
      <3>3. p \in Candidates(w)
        BY <1>3, <3>2, LeastIn
      <3> QED BY <3>1, <3>2, <3>3
    <2>3. /\ Goto(w, "shift") /\ job' = [job EXCEPT ![w] = j]
          /\ harm' = harm \cup Mistaken(w, Content(w)[p].key # job[w].key)
      BY <1>3 DEF Scan, Noted
    <2>4. Rest(w) /\ pc'[w] = "shift" /\ job'[w] = j
      BY <1>1, <2>3, Alone DEF Goto
    <2>5. /\ SameAim(j, job[w]) /\ j.pos = p /\ j.buf = b /\ j.gone = {job[w].key}
      <3> DEFINE i == job[w]
                 k == job[w].key
                 n == Len(files)
      <3>1. /\ i \in JobsTo(created, n) /\ p \in Nat /\ b \in Seq(EntriesTo(created))
            /\ k \in 0 .. created /\ j = Noted(i, p, b, k)
        BY <1>1, <2>1, <2>2, Ours DEF JobsTo
      <3> HIDE DEF i, b, k, n, j, p
      <3>2. SameAim(j, i) /\ j.pos = p /\ j.buf = b /\ j.gone = {k}
        BY ONLY <3>1 DEF Noted, SameAim, JobsTo
      <3> QED BY <3>2 DEF i, k
    <2> HIDE DEF p, j
    <2>6. Intent(pc[w], job[w])
      BY <1>1, Ours
    <2>7. Intent("shift", j)
      BY <1>1, <2>5, <2>6, IntentKept
    <2>8. Clear(w, j) /\ (j.op = "append" => job[w].op = "append" /\ j.key = job[w].key)
      BY <2>5 DEF Clear, SameAim
    <2>9. "shift" \notin Webs /\ "shift" \notin Writing
      BY DEF Webs, Writing, Rewrite
    <2>10. ASSUME harm' = {}, Calm PROVE Facts(w)'
      <3>1. job[w].file = name.dir => b = Dir /\ name.dir # 0
        BY <1>1, Ours, OpenFile DEF Content, Dir
      <3>2. /\ job[w].op \in Named \ {"update_file"} /\ job[w].key # 0
            /\ \A q \in job[w].ids : job[w].look[q].key = job[w].key
            /\ job[w].ids # {}
        BY <1>1, <2>6, Ours DEF Intent, Named, Ops
      <3>3. ASSUME job[w].file = name.dir PROVE b[p].key = job[w].key
        <4>1. CASE job[w].op # "del_record"
          BY <2>2, <4>1 DEF Candidates
        <4>2. CASE job[w].stale
          BY <2>3, <2>10, <4>2 DEF Mistaken
        <4>3. CASE job[w].op = "del_record" /\ ~job[w].stale
          <5>1. p = Least(job[w].ids)
            BY <2>2, <4>3 DEF Candidates
          <5>2. p \in job[w].ids
            <6>1. job[w].ids # {} /\ job[w].ids \in SUBSET Nat
              BY <1>1, <3>2, Ours DEF JobsTo
            <6> QED BY <5>1, <6>1, LeastIn
          <5>3. Dir[p] = job[w].look[p]
            BY <1>1, <2>10, <3>1, <3>3, <4>3, <5>2 DEF Calm, Facts, Saw, Looking
          <5> QED BY <3>1, <3>2, <3>3, <5>2, <5>3
        <4> QED BY <4>1, <4>2, <4>3
      <3>4. ToShift(w)'
        BY <1>1, <2>4, <2>5, <3>1, <3>2, <3>3 DEF ToShift, Dir, SameAim
      <3>5. Saw(w)' /\ ToCut(w)' /\ ToPut(w)' /\ Copying(w)' /\ Replaced(w)' /\ OnWeb(w)'
        BY <2>4 DEF Saw, ToCut, ToPut, Copying, Replaced, OnWeb, At, Web, Webs, Looking
      <3> QED BY <3>4, <3>5 DEF Facts
    <2> QED BY <1>1, <2>4, <2>7, <2>8, <2>9, <2>10, StepInside
  <1> QED BY <1>2, <1>3

LEMMA ReadSound ==
  ASSUME SInv, NEW w \in Workers, Read(w)
  PROVE  Sound'
  <1> DEFINE b == Content(w)
             hits == {p \in DOMAIN b : b[p].key = job[w].key}
  <1>1. w \in Workers \ dead /\ pc[w] = "read" /\ dead' = dead
        /\ UNCHANGED <<files, name, done, sent, flagged>> /\ harm \subseteq harm'
    BY DEF Read, At
  <1>2. CASE hits = {}
    BY <1>1, <1>2, FinishSound DEF Read
  <1>3. CASE hits # {}
    <2> DEFINE p == IF job[w].ids \subseteq hits THEN Least(job[w].ids) ELSE Least(hits)
               e == b[p]
               j == Noted(job[w], p, <<e>>, e.key)
    <2>1. /\ b \in Seq(EntriesTo(created)) /\ Len(b) \in Nat /\ DOMAIN b = 1 .. Len(b)
      BY <1>1, Ours, OpenFile
    <2>2. Intent(pc[w], job[w]) /\ Fits(pc[w], job[w], files)
      BY <1>1, Ours
    <2>3. job[w].ids # {} /\ job[w].ids \in SUBSET Nat /\ job[w].key # 0
      BY <1>1, <2>2, Ours DEF Fits, Aimed, JobsTo
    <2>4. p \in DOMAIN b /\ e.key = job[w].key /\ p \in Nat
      <3>1. hits \in SUBSET Nat
        BY <2>1
      <3> HIDE DEF hits
      <3>2. Least(hits) \in hits /\ Least(job[w].ids) \in job[w].ids
        BY <1>3, <2>3, <3>1, LeastIn
      <3>3. p \in hits
        BY <3>2
      <3> QED BY <3>1, <3>3 DEF hits
    <2>5. Goto(w, "put") /\ job' = [job EXCEPT ![w] = j]
      BY <1>3 DEF Read, Noted
    <2>6. Rest(w) /\ pc'[w] = "put" /\ job'[w] = j
      <3> HIDE DEF j
      <3> QED BY <1>1, <2>5, Alone DEF Goto
    <2> HIDE DEF p, hits
    <2>7. SameAim(j, job[w]) /\ j.pos = p /\ j.buf = <<e>> /\ j.gone = {e.key}
      <3> DEFINE c == <<e>>
                 k == e.key
                 i == job[w]
                 n == Len(files)
      <3>1. j = Noted(i, p, c, k) /\ i \in JobsTo(created, n)
        BY <1>1, Ours
      <3> HIDE DEF c, k, j, i, n, e, b
      <3>2. SameAim(j, i) /\ j.pos = p /\ j.buf = c /\ j.gone = {k}
        BY ONLY <3>1 DEF Noted, SameAim, JobsTo
      <3> QED BY <3>2 DEF c, k, i
    <2> HIDE DEF j
    <2>8. Intent("put", j)
      BY <1>1, <2>2, <2>7, IntentKept
    <2>9. Clear(w, j) /\ (j.op = "append" => job[w].op = "append" /\ j.key = job[w].key)
      BY <2>7 DEF Clear, SameAim
    <2>10. "put" \notin Webs /\ "put" \notin Writing
      BY DEF Webs, Writing, Rewrite
    <2>11. Facts(w)'
      <3>1. files'[job'[w].file] = b /\ j.buf[1] = e
        BY <1>1, <2>6, <2>7 DEF Content, SameAim
      <3>2. Content(w)' = b
        BY <3>1 DEF Content
      <3> HIDE DEF b, e
      <3>3. ToPut(w)'
        BY <2>3, <2>4, <2>6, <2>7, <3>1, <3>2 DEF ToPut, b, e
      <3>4. Saw(w)' /\ ToCut(w)' /\ ToShift(w)' /\ Copying(w)' /\ Replaced(w)' /\ OnWeb(w)'
        BY <2>6 DEF Saw, ToCut, ToShift, Copying, Replaced, OnWeb, At, Web, Webs, Looking
      <3> QED BY <3>3, <3>4 DEF Facts
    <2> QED BY <1>1, <2>6, <2>8, <2>9, <2>10, <2>11, StepInside
  <1> QED BY <1>2, <1>3

LEMMA CopyFailsSound ==
  ASSUME SInv, NEW w \in Workers, CopyFails(w)
  PROVE  Sound'
  <1>1. w \in Workers \ dead /\ pc[w] = "copy"
    BY DEF CopyFails, At
  <1> QED BY <1>1, EndSound DEF CopyFails

LEMMA ExclSound ==
  ASSUME SInv, NEW w \in Workers, Excl(w)
  PROVE  Sound'
  <1>1. /\ w \in Workers \ dead /\ pc[w] = "excl" /\ dead' = dead
        /\ UNCHANGED <<done, sent, flagged>>
    BY DEF Excl, At
  <1>2. CASE name.tmp # 0 /\ EndRewrite(w, job) /\ UNCHANGED <<files, name, harm>>
    BY <1>1, <1>2, EndSound
  <1>3. CASE /\ name.tmp = 0 /\ files' = Append(files, <<>>)
             /\ name' = [name EXCEPT !.tmp = Len(files) + 1]
             /\ job' = [job EXCEPT ![w].pos = 1]
             /\ harm' = harm \cup Copied(w) /\ Goto(w, "copy")
    <2> DEFINE j == [job[w] EXCEPT !.pos = 1]
    <2>1. SameAim(j, job[w]) /\ j.pos = 1 /\ j.gone = job[w].gone /\ j.stale = job[w].stale
      BY Ours DEF JobsTo, SameAim
    <2>2. job' = [job EXCEPT ![w] = j]
      BY <1>3
    <2> HIDE DEF j
    <2>3. Rest(w) /\ pc'[w] = "copy" /\ job'[w] = j
      BY <1>1, <1>3, <2>2, Alone DEF Goto
    <2>4. /\ name'.dir = name.dir /\ name'.web = name.web /\ name'.tmp = Len(files) + 1
          /\ Len(files) \in Nat /\ files \in Seq(Seq(EntriesTo(created)))
      BY <1>3, Known, Ours DEF IInv, TypeOK
    <2>5. /\ \A g \in 1 .. Len(files) : files'[g] = files[g]
          /\ files'[Len(files) + 1] = <<>>
      BY <1>3, <2>4, AppendProperties, EmptySeq
    <2>6. Intent("excl", job[w])
      BY <1>1, Ours
    <2>7. Intent("copy", j)
      BY <2>1, <2>6, IntentKept
    <2>8. TmpStep(w, j) /\ j.op = job[w].op /\ j.key = job[w].key
      BY <2>1, <2>4 DEF TmpStep, SameAim
    <2>9. ASSUME harm' = {}, Calm
          PROVE  Facts(w)' /\ Undisturbed(w)
      <3>1. job[w].file = name.dir /\ ~ \E v \in Workers : Shifting(v) /\ job[v].file = job[w].file
        BY <1>3, <2>9 DEF Copied
      <3>2. \A v \in Workers : ~At(v, "truncate")
        BY <2>9, <3>1 DEF Calm, Facts, ToCut, Shifting, At
      <3>3. Undisturbed(w)
        BY <1>1, <1>3, <2>4, <2>5, <3>2 DEF Undisturbed
      <3>4. Dir' = Dir /\ Tmp' = <<>> /\ name.dir # 0
        BY <1>1, <2>4, <2>5, <3>1, Ours, OpenFile DEF Dir, Tmp
      <3>5. Saw(w)'
        <4>1. Saw(w)
          BY <2>9 DEF Calm, Facts
        <4> QED BY <1>1, <2>1, <2>3, <2>4, <3>4, <4>1 DEF Saw, Looking, SameAim
      <3>6. Copying(w)'
        <4>1. j.gone = {} /\ j.file = name.dir
          BY <2>1, <2>6, <3>1 DEF Intent, Untouched, Looking, SameAim
        <4>2. DOMAIN Dir \subseteq Nat \ {0}
          <5>1. Dir \in Seq(EntriesTo(created))
            BY <2>4, <3>4, Ours, NamedFiles DEF Dir
          <5> QED BY <5>1, LenProperties
        <4>3. Copies(Tmp', Dir', 1, {}, sent')
          <5> DEFINE t == Tmp'
                     d == Dir
                     l == sent
          <5>1. t = <<>> /\ DOMAIN d \subseteq Nat \ {0}
            BY <3>4, <4>2
          <5> HIDE DEF t, d, l
          <5>2. Copies(t, d, 1, {}, l)
            BY <5>1, CopyStart
          <5> QED BY <1>1, <3>4, <5>2 DEF t, d, l
        <4>4. Aligned(w, Dir, Tmp)'
          <5>1. Len(Tmp') = 0 /\ 1 .. 1 - 1 = {}
            BY <3>4
          <5> QED BY <2>1, <2>3, <5>1 DEF Aligned
        <4> QED BY <2>1, <2>3, <2>4, <4>1, <4>3, <4>4 DEF Copying
      <3>7. ToShift(w)' /\ ToCut(w)' /\ ToPut(w)' /\ Replaced(w)' /\ OnWeb(w)'
        BY <2>3 DEF ToShift, ToCut, ToPut, Replaced, OnWeb, At, Web, Webs
      <3> QED BY <3>3, <3>5, <3>6, <3>7 DEF Facts
    <2>10. "copy" \notin Webs
      BY DEF Webs
    <2> QED BY <1>1, <1>3, <2>3, <2>7, <2>8, <2>9, <2>10, StepAlone
  <1> QED BY <1>2, <1>3 DEF Excl

LEMMA GreatestIn ==
  ASSUME NEW n \in Nat, NEW S \in SUBSET (1 .. n), S # {}
  PROVE  Greatest(S) \in S /\ \A q \in S : q <= Greatest(S)
  <1> DEFINE R == {ss \in Nat \X Nat : ss[1] < ss[2]}
             T == {n - q : q \in S}
  <1>1. IsWellFoundedOn(R, Nat)
    BY NatLessThanWellFounded DEF OpToRel
  <1>2. T \subseteq Nat /\ T # {}
    <2>1. \A q \in S : n - q \in Nat
      OBVIOUS
    <2>2. PICK q \in S : TRUE
      OBVIOUS
    <2>3. n - q \in T
      OBVIOUS
    <2> QED BY <2>1, <2>3
  <1>3. PICK m \in T : \A k \in T : ~ (<<k, m>> \in R)
    <2> HIDE DEF R, T
    <2> QED BY <1>1, <1>2, WFMin
  <1>4. PICK p \in S : m = n - p
    BY <1>3
  <1>5. \A q \in S : q <= p
    <2>1. SUFFICES ASSUME NEW q \in S, p < q PROVE FALSE
      OBVIOUS
    <2>2. n - q \in T /\ n - q \in Nat /\ m \in Nat /\ n - q < m
      BY <1>4, <2>1
    <2>3. <<n - q, m>> \in R
      BY <2>2
    <2> QED BY <1>3, <2>2, <2>3
  <1>6. \E r \in S : \A q \in S : q <= r
    BY <1>5
  <1> QED BY <1>6 DEF Greatest

\* What a rewriter knows of .DIR while it copies it.
LEMMA CopyKnown ==
  ASSUME SInv, Calm, NEW w \in Workers \ dead, pc[w] = "copy"
  PROVE  /\ job[w].file = name.dir /\ name.dir # 0 /\ Content(w) = Dir
         /\ name.dir \in 1 .. Len(files) /\ name.tmp \in 1 .. Len(files) /\ name.tmp # name.dir
         /\ Dir \in Seq(EntriesTo(created)) /\ Tmp \in Seq(EntriesTo(created))
         /\ DOMAIN Dir = 1 .. Len(Dir) /\ Len(Dir) \in Nat
         /\ sent \in Seq(Nat \ {0})
         /\ Good(Dir, done, sent, flagged)
         /\ Copies(Tmp, Dir, job[w].pos, job[w].gone, sent) /\ Aligned(w, Dir, Tmp)
         /\ job[w].pos \in Nat \ {0} /\ 0 \notin job[w].gone
         /\ job[w].op \in {"m_new", "delete_range"}
         /\ job[w].ids # {} /\ job[w].ids \subseteq DOMAIN job[w].look
         /\ job[w].op = "m_new" =>
              Current(w) \in job[w].ids /\ \A q \in job[w].ids : q <= Current(w)
         /\ ~job[w].stale => \A q \in job[w].ids : q \in DOMAIN Dir /\ Dir[q] = job[w].look[q]
  <1>1. /\ job[w].file = name.dir /\ Aligned(w, Dir, Tmp)
        /\ Copies(Tmp, Dir, job[w].pos, job[w].gone, sent)
    BY DEF Calm, Facts, Copying, At
  <1>2. name.dir # 0 /\ name.dir \in 1 .. Len(files) /\ Content(w) = Dir
    BY <1>1, Ours, OpenFile DEF Content, Dir
  <1>3. Rewriting(w)
    BY DEF Rewriting
  <1>4. name.tmp \in 1 .. Len(files) /\ name.tmp # name.dir /\ sent \in Seq(Nat \ {0})
        /\ Dir \in Seq(EntriesTo(created)) /\ Tmp \in Seq(EntriesTo(created))
    <2>1. name.tmp # 0
      BY <1>3, Ours, NamedFiles
    <2> QED BY <1>2, <2>1, Ours, NamedFiles DEF Dir, Tmp
  <1>5. DOMAIN Dir = 1 .. Len(Dir) /\ Len(Dir) \in Nat
    BY <1>4, LenProperties
  <1>6. Good(Dir, done, sent, flagged)
    <2>1. \A v \in Workers : ~At(v, "truncate")
      BY <1>3 DEF Calm, Facts, ToCut, Replacing
    <2> QED BY <1>2, <2>1 DEF Calm, DirGood, GoodNow
  <1>7. job[w].pos \in Nat \ {0} /\ 0 \notin job[w].gone
    BY Ours DEF Fits, Reads, JobsTo
  <1>8. job[w].op \in {"m_new", "delete_range"} /\ job[w].ids # {}
        /\ job[w].ids \subseteq DOMAIN job[w].look
    BY Ours DEF Intent, Ops
  <1>9. Current(w) \in job[w].ids /\ \A q \in job[w].ids : q <= Current(w)
    <2> DEFINE n == Len(job[w].look)
               S == job[w].ids
    <2>1. n \in Nat /\ DOMAIN job[w].look = 1 .. n
      BY Ours, LenProperties DEF JobsTo
    <2>2. S \in SUBSET (1 .. n) /\ S # {}
      BY <1>8, <2>1
    <2> HIDE DEF n, S
    <2>3. Greatest(S) \in S /\ \A q \in S : q <= Greatest(S)
      BY <2>1, <2>2, GreatestIn
    <2> QED BY <2>3 DEF S, Current
  <1>10. ~job[w].stale => \A q \in job[w].ids : q \in DOMAIN Dir /\ Dir[q] = job[w].look[q]
    BY <1>2 DEF Calm, Facts, Saw, Looking
  <1> QED BY <1>1, <1>2, <1>4, <1>5, <1>6, <1>7, <1>8, <1>9, <1>10

\* The loop ends.
LEMMA CopyDoneSound ==
  ASSUME SInv, NEW w \in Workers \ dead, pc[w] = "copy", job[w].pos > Len(Content(w)),
         Goto(w, "retire"), UNCHANGED <<files, job, harm, name, dead, sent, done, flagged>>
  PROVE  Sound'
  <1>1. Rest(w) /\ pc'[w] = "retire" /\ job'[w] = job[w]
    BY Alone DEF Goto
  <1>2. Intent("retire", job[w])
    <2>1. Intent("copy", job[w]) /\ SameAim(job[w], job[w])
      BY Ours DEF SameAim
    <2> QED BY <2>1, IntentKept
  <1>3. Clear(w, job[w]) /\ "retire" \notin Webs /\ pc[w] \in Writing
    BY DEF Clear, Webs, Writing, Rewrite
  <1>4. ASSUME Calm PROVE Facts(w)'
    <2> DEFINE s == Dir
               t == Tmp
               n == job[w].pos
               g == job[w].gone
               l == sent
               d == done
               fl == flagged
    <2>1. /\ s \in Seq(EntriesTo(created)) /\ Good(s, d, l, fl) /\ n \in Nat /\ n > Len(s)
          /\ Copies(t, s, n, g, l) /\ 0 \notin g
      BY <1>4, CopyKnown
    <2>2. Good(t, d \cup g, l, fl)
      <3> HIDE DEF s, t, n, g, l, d, fl
      <3> QED BY ONLY <2>1, CopyEnd
    <2>3. job[w].op = "m_new" /\ ~job[w].stale =>
            \A q \in job[w].ids \ {Current(w)} : q \in DOMAIN t /\ t[q] = job[w].look[q]
      <3> SUFFICES ASSUME job[w].op = "m_new", ~job[w].stale, NEW q \in job[w].ids \ {Current(w)}
                   PROVE  q \in DOMAIN t /\ t[q] = job[w].look[q]
        OBVIOUS
      <3>1. /\ q \in DOMAIN s /\ s[q] = job[w].look[q] /\ q <= Current(w) /\ q # Current(w)
            /\ Current(w) \in DOMAIN s /\ DOMAIN s = 1 .. Len(s) /\ Len(s) \in Nat
        BY <1>4, CopyKnown
      <3>2. q \in 1 .. n - 1 /\ q < Current(w)
        BY <2>1, <3>1
      <3>3. q \in DOMAIN t /\ t[q] = s[q]
        <4>1. Aligned(w, s, t)
          BY <1>4, CopyKnown
        <4> QED BY <3>2, <4>1 DEF Aligned
      <3> QED BY <3>1, <3>3
    <2>4. job[w].file = name.dir
      BY <1>4, CopyKnown
    <2>5. Replaced(w)'
      BY <1>1, <2>2, <2>3, <2>4 DEF Replaced, GoodNow, Tmp, Current
    <2>6. Saw(w)' /\ ToShift(w)' /\ ToCut(w)' /\ ToPut(w)' /\ Copying(w)' /\ OnWeb(w)'
      BY <1>1 DEF Saw, Looking, ToShift, ToCut, ToPut, Copying, OnWeb, At, Web, Webs
    <2> QED BY <2>5, <2>6 DEF Facts
  <1> QED BY <1>1, <1>2, <1>3, <1>4, StepInside

\* The rewriter leaves an entry out.
LEMMA CopyDropSound ==
  ASSUME SInv, NEW w \in Workers \ dead, pc[w] = "copy", NEW p, p = job[w].pos,
         p <= Len(Content(w)), NEW e, e = Content(w)[p], Dropped(w, p, e),
         job' = [job EXCEPT ![w] = Passed(job[w], Hit(w, p, e))],
         harm' = harm \cup Mistaken(w, Hit(w, p, e) # {e.key} \ {0}),
         UNCHANGED <<files, name, pc, dead, sent, done, flagged>>
  PROVE  Sound'
  <1> DEFINE j == Passed(job[w], Hit(w, p, e))
  <1>1. Rest(w) /\ pc'[w] = "copy" /\ job'[w] = j
    BY Alone
  <1>2. SameAim(j, job[w]) /\ j.pos = p + 1 /\ j.gone = job[w].gone \cup Hit(w, p, e)
        /\ j.stale = job[w].stale
    <2>1. j.stale = job[w].stale
      BY Ours DEF JobsTo, Passed
    <2>2. Hit(w, p, e) \in SUBSET (1 .. created) /\ created \in Nat
      BY Ours, Known, HitType DEF JobsTo
    <2> HIDE DEF j
    <2>3. SameAim(j, job[w]) /\ j.pos = job[w].pos + 1 /\ j.gone = job[w].gone \cup Hit(w, p, e)
      <3> DEFINE i == job[w]
                 h == Hit(w, p, e)
                 n == Len(files)
      <3>1. j = Passed(i, h) /\ i \in JobsTo(created, n) /\ h \in SUBSET (1 .. created)
        BY <2>2, Ours DEF j
      <3> HIDE DEF i, h, n
      <3>2. SameAim(j, i) /\ j.pos = i.pos + 1 /\ j.gone = i.gone \cup h
        BY <2>2, <3>1, PassedType
      <3> QED BY <3>2 DEF i, h
    <2> QED BY <2>1, <2>3
  <1> HIDE DEF j
  <1>3. Intent("copy", j)
    <2>1. Intent("copy", job[w])
      BY Ours
    <2> QED BY <1>2, <2>1, IntentKept
  <1>4. Clear(w, j) /\ "copy" \notin Webs /\ pc[w] \in Writing
        /\ j.op = job[w].op /\ j.key = job[w].key
    BY <1>2 DEF Clear, Webs, Writing, Rewrite, SameAim
  <1>5. ASSUME harm' = {}, Calm PROVE Facts(w)'
    <2> DEFINE s == Dir
               t == Tmp
               g == job[w].gone
               l == sent
               h == j.gone
    <2>1. /\ s \in Seq(EntriesTo(created)) /\ Good(s, done, l, flagged) /\ p \in DOMAIN s
          /\ Copies(t, s, p, g, l) /\ l \in Seq(Nat \ {0}) /\ e = s[p]
      <3>1. /\ s \in Seq(EntriesTo(created)) /\ Good(s, done, l, flagged) /\ Content(w) = s
            /\ Copies(t, s, p, g, l) /\ l \in Seq(Nat \ {0})
            /\ p \in Nat \ {0} /\ DOMAIN s = 1 .. Len(s) /\ Len(s) \in Nat
        BY <1>5, CopyKnown
      <3> HIDE DEF s
      <3>2. p \in DOMAIN s /\ e = s[p]
        BY <3>1
      <3> QED BY <3>1, <3>2
    <2>2. Hit(w, p, e) = {e.key} \ {0}
      <3>1. CASE job[w].stale
        BY <1>5, <3>1 DEF Mistaken
      <3>2. CASE e.key = 0
        BY <3>2 DEF Hit
      <3>3. CASE ~job[w].stale /\ e.key # 0
        <4>1. p \in job[w].ids
          BY <1>5, <3>3, CopyKnown DEF Dropped
        <4>2. p \in DOMAIN job[w].look /\ s[p] = job[w].look[p]
          BY <1>5, <3>3, <4>1, CopyKnown
        <4> HIDE DEF s
        <4> QED BY <2>1, <3>3, <4>2 DEF Hit
      <3> QED BY <3>1, <3>2, <3>3
    <2>3. h = g \cup ({s[p].key} \ {0})
      BY <1>2, <2>1, <2>2
    <2>4. Copies(t, s, p + 1, h, l)
      <3> DEFINE d == done
                 fl == flagged
      <3> HIDE DEF s, t, g, l, h
      <3>1. Good(s, d, l, fl)
        BY <2>1
      <3> HIDE DEF d, fl
      <3> QED BY <2>1, <2>3, <3>1, CopyDrop
    <2>5. Current(w)' = Current(w) /\ job'[w].op = job[w].op
      BY <1>1, <1>2 DEF Current, SameAim
    <2>6. ASSUME job[w].op = "m_new"
          PROVE  /\ \A q \in 1 .. p + 1 - 1 : q < Current(w) => q \in DOMAIN s /\ q \in DOMAIN t /\ t[q] = s[q]
                 /\ ~(p + 1 <= Current(w))
      <3>1. Aligned(w, s, t) /\ p \in Nat
        BY <1>5, CopyKnown
      <3>2. p = Current(w)
        BY <2>6 DEF Dropped
      <3>3. \A q \in 1 .. p + 1 - 1 : q < p => q \in 1 .. p - 1
        BY <3>1
      <3> HIDE DEF s, t
      <3> QED BY <2>6, <3>1, <3>2, <3>3 DEF Aligned
    <2>7. Aligned(w, Dir, Tmp)'
      <3>1. Dir' = s /\ Tmp' = t /\ job'[w].pos = p + 1
        BY <1>1, <1>2 DEF Dir, Tmp
      <3>2. SUFFICES ASSUME job'[w].op = "m_new"
                     PROVE  /\ \A q \in 1 .. job'[w].pos - 1 : q < Current(w)' =>
                                 q \in DOMAIN Dir' /\ q \in DOMAIN Tmp' /\ Tmp'[q] = Dir'[q]
                            /\ job'[w].pos <= Current(w)' => Len(Tmp') = job'[w].pos - 1
        BY DEF Aligned
      <3> HIDE DEF s, t
      <3>3. /\ \A q \in 1 .. p + 1 - 1 : q < Current(w) => q \in DOMAIN s /\ q \in DOMAIN t /\ t[q] = s[q]
            /\ ~(p + 1 <= Current(w))
        BY <2>5, <2>6, <3>2
      <3>4. job'[w].pos - 1 = p + 1 - 1 /\ ~(job'[w].pos <= Current(w)')
        <4>1. p = Current(w) /\ p \in Nat
          BY <1>5, <2>5, <3>2, CopyKnown DEF Dropped
        <4>2. job'[w].pos = p + 1 /\ Current(w)' = p
          BY <2>5, <3>1, <4>1
        <4> QED BY <4>1, <4>2
      <3>5. ASSUME NEW q \in 1 .. job'[w].pos - 1, q < Current(w)'
            PROVE  q \in DOMAIN Dir' /\ q \in DOMAIN Tmp' /\ Tmp'[q] = Dir'[q]
        BY <2>5, <3>1, <3>3, <3>4, <3>5
      <3> QED BY <3>4, <3>5
    <2>8. Copying(w)'
      <3>1. job[w].file = name.dir
        BY <1>5, CopyKnown
      <3> QED BY <1>1, <1>2, <2>4, <2>7, <3>1 DEF Copying, Dir, Tmp, SameAim
    <2>9. Saw(w)'
      BY <1>1, <1>2, <1>5 DEF Calm, Facts, Saw, Dir, SameAim, Looking
    <2>10. ToShift(w)' /\ ToCut(w)' /\ ToPut(w)' /\ Replaced(w)' /\ OnWeb(w)'
      BY <1>1 DEF ToShift, ToCut, ToPut, Replaced, OnWeb, At, Web, Webs
    <2> QED BY <2>8, <2>9, <2>10 DEF Facts
  <1> QED BY <1>1, <1>3, <1>4, <1>5, StepInside

\* The rewriter copies an entry.
LEMMA CopyKeepSound ==
  ASSUME SInv, NEW w \in Workers \ dead, pc[w] = "copy", NEW p, p = job[w].pos,
         p <= Len(Content(w)), NEW e, e = Content(w)[p], ~Dropped(w, p, e),
         job' = [job EXCEPT ![w].pos = p + 1],
         files' = [files EXCEPT ![name.tmp] = Append(@, e)],
         UNCHANGED <<name, pc, dead, sent, done, flagged, harm>>
  PROVE  Sound'
  <1> DEFINE j == [job[w] EXCEPT !.pos = p + 1]
  <1>1. Rest(w) /\ pc'[w] = "copy" /\ job'[w] = j
    BY Alone
  <1>2. SameAim(j, job[w]) /\ j.pos = p + 1 /\ j.gone = job[w].gone /\ j.stale = job[w].stale
    BY Ours DEF JobsTo, SameAim
  <1> HIDE DEF j
  <1>3. Intent("copy", j)
    <2>1. Intent("copy", job[w])
      BY Ours
    <2> QED BY <1>2, <2>1, IntentKept
  <1>4. TmpStep(w, j) /\ "copy" \notin Webs /\ j.op = job[w].op /\ j.key = job[w].key
    BY <1>2 DEF Clear, Webs, TmpStep, SameAim
  <1>5. ASSUME Calm PROVE Facts(w)' /\ Undisturbed(w)
    <2> DEFINE s == Dir
               t == Tmp
               g == job[w].gone
               l == sent
    <2>1. /\ s \in Seq(EntriesTo(created)) /\ t \in Seq(EntriesTo(created))
          /\ Good(s, done, l, flagged) /\ p \in Nat \ {0} /\ p \in DOMAIN s /\ 0 \notin g
          /\ Copies(t, s, p, g, l) /\ l \in Seq(Nat \ {0}) /\ e = s[p] /\ Aligned(w, s, t)
      <3>1. /\ s \in Seq(EntriesTo(created)) /\ Good(s, done, l, flagged) /\ Content(w) = s
            /\ t \in Seq(EntriesTo(created)) /\ 0 \notin g /\ Aligned(w, s, t)
            /\ Copies(t, s, p, g, l) /\ l \in Seq(Nat \ {0})
            /\ p \in Nat \ {0} /\ DOMAIN s = 1 .. Len(s) /\ Len(s) \in Nat
        BY <1>5, CopyKnown
      <3> HIDE DEF s, t
      <3>2. p \in DOMAIN s /\ e = s[p]
        BY <3>1
      <3> QED BY <3>1, <3>2
    <2>2. /\ files'[name.tmp] = Append(t, s[p])
          /\ \A f \in 1 .. Len(files) : f # name.tmp => files'[f] = files[f]
          /\ name.dir \in 1 .. Len(files) /\ name.dir # name.tmp
      <3>1. /\ name.tmp \in 1 .. Len(files) /\ name.dir \in 1 .. Len(files)
            /\ name.dir # name.tmp /\ files \in Seq(Seq(EntriesTo(created)))
        BY <1>5, CopyKnown, Ours, Known
      <3>2. DOMAIN files = 1 .. Len(files)
        BY <3>1, LenProperties
      <3> HIDE DEF s
      <3> QED BY <2>1, <3>1, <3>2 DEF Tmp
    <2>3. Dir' = s /\ Tmp' = Append(t, s[p])
      BY <2>2 DEF Dir, Tmp
    <2>4. Copies(Append(t, s[p]), s, p + 1, g, l)
      <3> DEFINE d == done
                 fl == flagged
      <3> HIDE DEF s, t, g, l
      <3>1. Good(s, d, l, fl)
        BY <2>1
      <3> HIDE DEF d, fl
      <3> QED BY <2>1, <3>1, CopyKeep
    <2>5. Current(w)' = Current(w) /\ job'[w].op = job[w].op /\ job'[w].pos = p + 1
      BY <1>1, <1>2 DEF Current, SameAim
    <2>6. ASSUME job[w].op = "m_new"
          PROVE  /\ \A q \in 1 .. p : q < Current(w) =>
                      q \in DOMAIN s /\ q \in DOMAIN Append(t, s[p]) /\ Append(t, s[p])[q] = s[q]
                 /\ p + 1 <= Current(w) => Len(Append(t, s[p])) = p
      <3> DEFINE x == s[p]
      <3>1. Current(w) \in job[w].ids /\ job[w].ids \subseteq Nat
        BY <1>5, <2>6, CopyKnown, Ours DEF JobsTo
      <3>2. p \in Nat \ {0} /\ Current(w) \in Nat
        BY <2>1, <3>1
      <3>3. x \in EntriesTo(created) /\ Len(t) \in Nat /\ DOMAIN t = 1 .. Len(t)
        <4> HIDE DEF s, t
        <4> QED BY <2>1, ElementOfSeq, LenProperties
      <3> HIDE DEF x, s, t
      <3>4. /\ Len(Append(t, x)) = Len(t) + 1 /\ Append(t, x)[Len(t) + 1] = x
            /\ DOMAIN Append(t, x) = 1 .. Len(t) + 1
            /\ \A q \in 1 .. Len(t) : Append(t, x)[q] = t[q]
        BY <2>1, <3>3, AppendProperties, LenProperties
      <3>5. p <= Current(w) => Len(t) = p - 1
        BY <2>1, <2>6 DEF Aligned
      <3>6. ASSUME NEW q \in 1 .. p, q < Current(w)
            PROVE  q \in DOMAIN s /\ q \in DOMAIN Append(t, x) /\ Append(t, x)[q] = s[q]
        <4>1. CASE q = p
          <5>1. Len(t) + 1 = p /\ p \in 1 .. Len(t) + 1
            BY <3>2, <3>3, <3>5, <3>6, <4>1
          <5> QED BY <2>1, <3>4, <4>1, <5>1 DEF x
        <4>2. CASE q # p
          <5>1. q \in 1 .. p - 1
            BY <3>2, <4>2
          <5>2. q \in DOMAIN s /\ q \in DOMAIN t /\ t[q] = s[q]
            BY <2>1, <2>6, <3>6, <5>1 DEF Aligned
          <5>3. q \in 1 .. Len(t) /\ q \in 1 .. Len(t) + 1
            BY <3>3, <5>2
          <5> QED BY <3>4, <5>2, <5>3
        <4> QED BY <4>1, <4>2
      <3>7. p + 1 <= Current(w) => Len(Append(t, x)) = p
        BY <3>2, <3>3, <3>4, <3>5
      <3> QED BY <3>6, <3>7 DEF x
    <2>7. Aligned(w, Dir, Tmp)'
      <3> DEFINE u == Append(t, s[p])
      <3>1. SUFFICES ASSUME job'[w].op = "m_new"
                     PROVE  /\ \A q \in 1 .. job'[w].pos - 1 : q < Current(w)' =>
                                 q \in DOMAIN Dir' /\ q \in DOMAIN Tmp' /\ Tmp'[q] = Dir'[q]
                            /\ job'[w].pos <= Current(w)' => Len(Tmp') = job'[w].pos - 1
        BY DEF Aligned
      <3>2. /\ \A q \in 1 .. p : q < Current(w) => q \in DOMAIN s /\ q \in DOMAIN u /\ u[q] = s[q]
            /\ p + 1 <= Current(w) => Len(u) = p
        BY <2>5, <2>6, <3>1
      <3>3. job'[w].pos = p + 1 /\ p + 1 - 1 = p /\ p \in Nat /\ Current(w)' = Current(w)
        BY <2>1, <2>5
      <3>4. Dir' = s /\ Tmp' = u
        BY <2>3
      <3> HIDE DEF u, s, t
      <3> QED BY <3>2, <3>3, <3>4
    <2>8. Copying(w)'
      <3>1. job[w].file = name.dir
        BY <1>5, CopyKnown
      <3>2. Copies(Tmp', Dir', p + 1, g, l)
        BY <2>3, <2>4
      <3> QED BY <1>1, <1>2, <2>7, <3>1, <3>2 DEF Copying, SameAim
    <2>9. Saw(w)'
      <3>1. Saw(w)
        BY <1>5 DEF Calm, Facts
      <3> QED BY <1>1, <1>2, <2>3, <3>1 DEF Saw, SameAim, Looking
    <2>10. ToShift(w)' /\ ToCut(w)' /\ ToPut(w)' /\ Replaced(w)' /\ OnWeb(w)'
      BY <1>1 DEF ToShift, ToCut, ToPut, Replaced, OnWeb, At, Web, Webs
    <2>11. Undisturbed(w)
      <3>1. Rewriting(w) /\ Replacing(w)
        BY DEF Rewriting, Replacing
      <3> QED BY <2>2, <3>1 DEF Undisturbed
    <2> QED BY <2>8, <2>9, <2>10, <2>11 DEF Facts
  <1> QED BY <1>1, <1>3, <1>4, <1>5, StepAlone

LEMMA CopySound ==
  ASSUME SInv, NEW w \in Workers, Copy(w)
  PROVE  Sound'
  <1> DEFINE p == job[w].pos
             e == Content(w)[p]
  <1>1. w \in Workers \ dead /\ pc[w] = "copy" /\ UNCHANGED <<name, dead, sent, done, flagged>>
    BY DEF Copy, At
  <1>2. CASE p > Len(Content(w))
    BY <1>1, <1>2, CopyDoneSound DEF Copy
  <1>3. CASE ~(p > Len(Content(w)))
    <2>1. p <= Len(Content(w)) /\ UNCHANGED pc
      <3>1. p \in Nat /\ Len(Content(w)) \in Nat
        BY <1>1, Ours, OpenFile DEF JobsTo
      <3> QED BY <1>3, <3>1 DEF Copy
    <2>2. CASE Dropped(w, p, e)
      <3>1. /\ job' = [job EXCEPT ![w] = Passed(job[w], Hit(w, p, e))] /\ UNCHANGED files
            /\ harm' = harm \cup Mistaken(w, Hit(w, p, e) # {e.key} \ {0})
        BY <1>3, <2>2 DEF Copy, Passed
      <3> HIDE DEF p, e
      <3> QED BY <1>1, <2>1, <2>2, <3>1, CopyDropSound DEF p, e
    <2>3. CASE ~Dropped(w, p, e)
      <3>1. /\ job' = [job EXCEPT ![w].pos = p + 1] /\ UNCHANGED harm
            /\ files' = [files EXCEPT ![name.tmp] = Append(@, e)]
        BY <1>3, <2>3 DEF Copy
      <3> QED BY <1>1, <2>1, <2>3, <3>1, CopyKeepSound
    <2> QED BY <2>2, <2>3
  <1> QED BY <1>2, <1>3

-----------------------------------------------------------------------------
\* bbsdelmail.
LEMMA WipeSound ==
  ASSUME SInv, NEW w \in Workers, Wipe(w)
  PROVE  Sound'
  <1>1. /\ w \in Workers \ dead /\ pc[w] = "wipe" /\ dead' = dead
        /\ UNCHANGED <<done, sent, flagged>> /\ harm' = harm \cup Mingled(w)
    BY DEF Wipe, At
  <1>2. Len(files) \in Nat /\ files \in Seq(Seq(EntriesTo(created))) /\ DOMAIN files = 1 .. Len(files)
        /\ name \in Names(Len(files))
    BY Ours, Known, LenProperties DEF IInv, TypeOK, Names
  <1>3. \E f \in 1 .. Len(files) + 1 :
          /\ job' = [job EXCEPT ![w].out = f]
          /\ name'.web = f /\ name'.dir = name.dir /\ name'.tmp = name.tmp
          /\ name.web = f \/ name.web = 0
          /\ files'[f] = <<>>
          /\ \A g \in 1 .. Len(files) : g = f \/ files'[g] = files[g]
          /\ f \in 1 .. Len(files) => f = name.web
    <2>1. CASE name.web = 0
      <3>1. /\ files' = Append(files, <<>>) /\ name' = [name EXCEPT !.web = Len(files) + 1]
            /\ job' = [job EXCEPT ![w].out = Len(files) + 1]
        BY <2>1 DEF Wipe
      <3>2. files'[Len(files) + 1] = <<>> /\ \A g \in 1 .. Len(files) : files'[g] = files[g]
        BY <1>2, <3>1, AppendProperties, EmptySeq
      <3>3. Len(files) + 1 \in 1 .. Len(files) + 1 /\ Len(files) + 1 \notin 1 .. Len(files)
        BY <1>2
      <3>4. name'.web = Len(files) + 1 /\ name'.dir = name.dir /\ name'.tmp = name.tmp
        BY <1>2, <3>1 DEF Names
      <3> QED BY <2>1, <3>1, <3>2, <3>3, <3>4
    <2>2. CASE name.web # 0
      <3>1. /\ files' = [files EXCEPT ![name.web] = <<>>] /\ name' = name
            /\ job' = [job EXCEPT ![w].out = name.web]
        BY <2>2 DEF Wipe
      <3>2. name.web \in 1 .. Len(files) /\ name.web \in 1 .. Len(files) + 1
        BY <1>2, <2>2 DEF Names
      <3>3. files'[name.web] = <<>> /\ \A g \in 1 .. Len(files) : g = name.web \/ files'[g] = files[g]
        BY <1>2, <3>1, <3>2
      <3> QED BY <3>1, <3>2, <3>3
    <2> QED BY <2>1, <2>2
  <1>4. PICK f \in 1 .. Len(files) + 1 :
          /\ job' = [job EXCEPT ![w].out = f]
          /\ name'.web = f /\ name'.dir = name.dir /\ name'.tmp = name.tmp
          /\ name.web = f \/ name.web = 0
          /\ files'[f] = <<>>
          /\ \A g \in 1 .. Len(files) : g = f \/ files'[g] = files[g]
          /\ f \in 1 .. Len(files) => f = name.web
    BY <1>3
  <1> DEFINE j == [job[w] EXCEPT !.out = f]
  <1>5. Rest(w) /\ pc'[w] = "load" /\ job'[w] = j
    <2>1. Goto(w, "load") /\ job' = [job EXCEPT ![w] = j]
      BY <1>4 DEF Wipe
    <2> HIDE DEF j
    <2> QED BY <1>1, <2>1, Alone DEF Goto
  <1>6. /\ j.out = f /\ j.op = job[w].op /\ j.ids = job[w].ids /\ j.look = job[w].look
        /\ j.key = job[w].key /\ j.gone = job[w].gone /\ j.file = job[w].file
    BY Ours DEF JobsTo
  <1> HIDE DEF j
  <1>7. Intent("load", j)
    <2>1. Intent("wipe", job[w])
      BY <1>1, Ours
    <2> QED BY <1>6, <2>1 DEF Intent, Untouched, Looking
  <1>8. TmpStep(w, j)
    BY <1>4, <1>6 DEF TmpStep, Clear
  <1>9. ASSUME harm' = {}, Calm
        PROVE  Facts(w)' /\ Undisturbed(w) /\ \A v \in Workers \ {w} : ~Web(v)
    <2>1. \A v \in Workers \ {w} : ~Web(v)
      BY <1>1, <1>9 DEF Calm, Facts, OnWeb, Mingled
    <2>2. f # 0
      BY <1>2
    <2>3. OnWeb(w)'
      BY <1>4, <1>5, <1>6, <2>2 DEF OnWeb
    <2>4. Saw(w)' /\ ToShift(w)' /\ ToCut(w)' /\ ToPut(w)' /\ Replaced(w)' /\ Copying(w)'
      BY <1>5 DEF Saw, Looking, ToShift, ToCut, ToPut, Replaced, Copying, At
    <2>5. ~Replacing(w)'
      BY <1>5 DEF Replacing, Rewriting
    <2>6. Undisturbed(w)
      BY <1>1, <1>4, <2>1, <2>5 DEF Undisturbed
    <2> QED BY <2>1, <2>3, <2>4, <2>6 DEF Facts
  <1>10. harm \subseteq harm' /\ pc[w] \notin {"promote", "truncate"}
    BY <1>1
  <1> QED BY <1>1, <1>5, <1>6, <1>7, <1>8, <1>9, <1>10, StepAlone

LEMMA LoadSound ==
  ASSUME SInv, NEW w \in Workers, Load(w)
  PROVE  Sound'
  <1> DEFINE j == [job[w] EXCEPT !.buf = Content(w), !.pos = 1]
  <1>1. /\ w \in Workers \ dead /\ pc[w] = "load" /\ dead' = dead
        /\ UNCHANGED <<files, name, done, sent, flagged>> /\ harm' = harm \cup Copied(w)
        /\ Goto(w, "sift") /\ job' = [job EXCEPT ![w] = j]
    BY DEF Load, At
  <1>2. Rest(w) /\ pc'[w] = "sift" /\ job'[w] = j
    BY <1>1, Alone DEF Goto
  <1>3. SameAim(j, job[w]) /\ j.gone = job[w].gone /\ j.buf = Content(w)
    BY Ours DEF JobsTo, SameAim
  <1> HIDE DEF j
  <1>4. Intent("load", job[w])
    BY <1>1, Ours
  <1>5. Intent("sift", j)
    BY <1>3, <1>4, IntentKept
  <1>6. Clear(w, j) /\ j.op = job[w].op /\ j.key = job[w].key /\ pc[w] \in Webs
    BY <1>1, <1>3 DEF Clear, SameAim, Webs
  <1>7. ASSUME harm' = {}, Calm
        PROVE  Facts(w)' /\ \A v \in Workers : ~At(v, "truncate")
    <2>1. job[w].file = name.dir /\ ~ \E v \in Workers : Shifting(v) /\ job[v].file = job[w].file
      BY <1>1, <1>7 DEF Copied
    <2>2. \A v \in Workers : ~At(v, "truncate")
      BY <1>7, <2>1 DEF Calm, Facts, ToCut, Shifting, At
    <2>3. name.dir # 0 /\ Content(w) = Dir
      BY <1>1, <2>1, Ours, OpenFile DEF Content, Dir
    <2>4. GoodNow(Dir, done)
      BY <1>7, <2>2, <2>3 DEF Calm, DirGood
    <2>5. j.gone = {} /\ done \cup j.gone = done
      BY <1>3, <1>4 DEF Intent, Untouched
    <2>7. OnWeb(w)
      BY <1>7 DEF Calm, Facts
    <2>8. OnWeb(w)'
      BY <1>1, <1>2, <1>3, <2>3, <2>4, <2>5, <2>7 DEF OnWeb, Web, Webs, GoodNow, SameAim
    <2>9. Saw(w)' /\ ToShift(w)' /\ ToCut(w)' /\ ToPut(w)' /\ Replaced(w)' /\ Copying(w)'
      BY <1>2 DEF Saw, Looking, ToShift, ToCut, ToPut, Replaced, Copying, At
    <2> QED BY <2>2, <2>8, <2>9 DEF Facts
  <1>8. harm \subseteq harm' /\ pc[w] \notin {"promote", "truncate"}
    BY <1>1
  <1> QED BY <1>1, <1>2, <1>5, <1>6, <1>7, <1>8, StepInside

LEMMA SiftSound ==
  ASSUME SInv, NEW w \in Workers, Sift(w)
  PROVE  Sound'
  <1> DEFINE i == job[w]
             p == i.pos
             b == i.buf
             k == b[p].key
  <1>1. /\ w \in Workers \ dead /\ pc[w] = "sift" /\ dead' = dead
        /\ UNCHANGED <<files, name, done, sent, flagged, harm>>
    BY DEF Sift, At
  <1>2. Intent("sift", i) /\ pc[w] \in Webs /\ pc[w] \in Writing /\ i \in JobsTo(created, Len(files))
    BY <1>1, Ours DEF Webs, Writing
  <1>3. b \in Seq(EntriesTo(created)) /\ p \in Nat /\ p >= 1 /\ Len(b) \in Nat
    BY <1>1, Ours, LenProperties DEF JobsTo, Fits, Reads
  <1>4. Calm => /\ i.out = name.web /\ name.web # 0 /\ files[name.web] = <<>>
                /\ Good(b, done \cup i.gone, sent, flagged)
    BY <1>1 DEF Calm, Facts, OnWeb, Web, Webs, GoodNow
  \* What w has in hand afterwards.
  <1>5. ASSUME NEW s \in {"sift", "flush"}, NEW j, Rest(w), pc'[w] = s, job'[w] = j,
               SameAim(j, i), Calm => Good(j.buf, done \cup j.gone, sent, flagged)
        PROVE  Sound'
    <2>1. Intent(s, j)
      BY <1>2, <1>5, IntentKept
    <2>2. Clear(w, j) /\ j.op = job[w].op /\ j.key = job[w].key
      BY <1>5 DEF Clear, SameAim
    <2>3. ASSUME Calm PROVE Facts(w)'
      <3>1. OnWeb(w)'
        BY <1>1, <1>4, <1>5, <2>3 DEF OnWeb, GoodNow, SameAim
      <3>2. Saw(w)' /\ ToShift(w)' /\ ToCut(w)' /\ ToPut(w)' /\ Replaced(w)' /\ Copying(w)'
        BY <1>5 DEF Saw, Looking, ToShift, ToCut, ToPut, Replaced, Copying, At
      <3> QED BY <3>1, <3>2 DEF Facts
    <2>4. harm \subseteq harm' /\ pc[w] \notin {"promote", "truncate"}
      BY <1>1
    <2> QED BY <1>1, <1>2, <1>5, <2>1, <2>2, <2>3, <2>4, StepInside
  <1>6. CASE p > Len(b)
    <2>1. Rest(w) /\ pc'[w] = "flush" /\ job'[w] = job[w]
      BY <1>1, <1>6, Alone DEF Sift, Goto
    <2>2. SameAim(i, i)
      BY DEF SameAim
    <2> QED BY <1>4, <1>5, <2>1, <2>2
  <1>7. CASE ~(p > Len(b)) /\ k \in Asked(w)
    <2> DEFINE t == Without(b, p)
               g == i.gone \cup {k}
               j == [i EXCEPT !.buf = t, !.gone = g]
    <2>1. job' = [job EXCEPT ![w] = j] /\ UNCHANGED pc
      BY <1>7 DEF Sift
    <2>2. SameAim(j, i) /\ j.buf = t /\ j.gone = g
      BY <1>2 DEF JobsTo, SameAim
    <2> HIDE DEF j
    <2>3. Rest(w) /\ pc'[w] = "sift" /\ job'[w] = j
      BY <1>1, <2>1, Alone
    <2>4. ASSUME Calm PROVE Good(j.buf, done \cup j.gone, sent, flagged)
      <3> DEFINE d == done \cup i.gone
                 l == sent
                 fl == flagged
      <3>1. p \in 1 .. Len(b) /\ k # 0 /\ l \in Seq(Nat \ {0}) /\ Good(b, d, l, fl)
        BY <1>3, <1>4, <1>7, <2>4, Ours, NamedFiles DEF Asked
      <3>2. Lacks(t, b, p)
        <4> HIDE DEF b, p
        <4> QED BY <1>3, <3>1, WithoutLacks
      <3>3. Good(t, d \cup {k}, l, fl)
        <4>1. b[p].key = k
          OBVIOUS
        <4> HIDE DEF b, p, k, t, d, l, fl
        <4> QED BY <1>3, <3>1, <3>2, <4>1, GoodWithout
      <3>4. d \cup {k} = done \cup g
        OBVIOUS
      <3> QED BY <2>2, <3>3, <3>4
    <2> QED BY <1>5, <2>2, <2>3, <2>4
  <1>8. CASE ~(p > Len(b)) /\ k \notin Asked(w)
    <2> DEFINE j == [i EXCEPT !.pos = p + 1]
    <2>1. job' = [job EXCEPT ![w] = j] /\ UNCHANGED pc
      BY <1>8 DEF Sift
    <2>2. SameAim(j, i) /\ j.buf = b /\ j.gone = i.gone
      BY <1>2 DEF JobsTo, SameAim
    <2> HIDE DEF j
    <2>3. Rest(w) /\ pc'[w] = "sift" /\ job'[w] = j
      BY <1>1, <2>1, Alone
    <2> QED BY <1>4, <1>5, <2>2, <2>3
  <1> QED BY <1>6, <1>7, <1>8

LEMMA FlushSound ==
  ASSUME SInv, NEW w \in Workers, Flush(w)
  PROVE  Sound'
  <1> DEFINE i == job[w]
             b == i.buf
  <1>1. /\ w \in Workers \ dead /\ pc[w] = "flush" /\ dead' = dead
        /\ UNCHANGED <<name, job, done, sent, flagged>>
    BY DEF Flush, At
  <1>2. PICK n \in 0 .. Len(b) :
          /\ files' = [files EXCEPT ![i.out] = Overwritten(@, b, n)]
          /\ harm' = harm \cup (IF n < Len(b) THEN {"short"} ELSE {})
    BY DEF Flush
  <1>3. Rest(w) /\ pc'[w] = "swap" /\ job'[w] = i
    BY <1>1, Alone DEF Flush, Goto
  <1>4. Intent("swap", i) /\ Clear(w, i) /\ TmpStep(w, i)
    <2>1. Intent("flush", i)
      BY <1>1, Ours
    <2> QED BY <1>1, <2>1 DEF Intent, Clear, TmpStep, Untouched, Looking
  <1>5. b \in Seq(EntriesTo(created)) /\ Len(b) \in Nat
    BY <1>1, Ours, LenProperties DEF JobsTo
  <1>6. ASSUME harm' = {}, Calm PROVE Facts(w)' /\ Undisturbed(w)
    <2>1. /\ i.out = name.web /\ name.web # 0 /\ files[name.web] = <<>>
          /\ GoodNow(b, done \cup i.gone)
      BY <1>1, <1>6 DEF Calm, Facts, OnWeb, Web, Webs
    <2>2. n = Len(b)
      <3>1. ~(n < Len(b))
        BY <1>2, <1>6, Zenon
      <3> HIDE DEF b
      <3> QED BY <1>5, <3>1
    <2>3. /\ DOMAIN files = 1 .. Len(files) /\ name.web \in 1 .. Len(files)
      BY <1>1, <2>1, Ours, NamedFiles, Known, LenProperties
    <2>4. Overwritten(files[name.web], b, n) = b
      <3> DEFINE s == files[name.web]
      <3>1. s = <<>>
        BY <2>1
      <3> HIDE DEF s, b
      <3>2. Overwritten(s, b, Len(b)) = b
        BY <1>5, <3>1, OverwrittenAll
      <3> QED BY <2>2, <3>2 DEF s
    <2>5. /\ files'[name.web] = b
          /\ \A g \in 1 .. Len(files) : g # name.web => files'[g] = files[g]
      BY <1>2, <2>1, <2>3, <2>4
    <2>6. \A v \in Workers \ {w} : ~Web(v)
      BY <1>1, <1>6 DEF Calm, OneWeb, Web, Webs
    <2>7. OnWeb(w)'
      BY <1>1, <1>3, <2>1, <2>5 DEF OnWeb, GoodNow
    <2>8. Saw(w)' /\ ToShift(w)' /\ ToCut(w)' /\ ToPut(w)' /\ Replaced(w)' /\ Copying(w)'
      BY <1>3 DEF Saw, Looking, ToShift, ToCut, ToPut, Replaced, Copying, At
    <2>9. Undisturbed(w)
      <3>1. Replacing(w)
        BY <1>1 DEF Replacing
      <3> QED BY <1>1, <2>5, <2>6, <3>1 DEF Undisturbed
    <2> QED BY <2>7, <2>8, <2>9 DEF Facts
  <1>7. harm \subseteq harm' /\ pc[w] \notin {"promote", "truncate"} /\ pc[w] \in Webs
    BY <1>1, <1>2 DEF Webs
  <1> QED BY <1>1, <1>3, <1>4, <1>6, <1>7, StepAlone

-----------------------------------------------------------------------------
\* A call begins, having seen .DIR as it is.
LEMMA BeginSound ==
  ASSUME SInv, NEW w \in Workers, NEW op \in Ops \ {"none"}, NEW ids, NEW key, NEW flag,
         Begin(w, op, ids, key, flag), ids \subseteq DOMAIN Look,
         op # "append" => ids # {},
         op = "append" => key \notin 0 .. created,
         op \in Named => key # 0 /\ \A p \in ids : Look[p].key = key
  PROVE  Sound'
  <1> DEFINE s == IF op = "substitute" THEN "stat" ELSE "open"
             j == Begun(NoJob, op, ids, key, flag, Look)
  <1>1. /\ w \in Workers \ dead /\ pc[w] = "idle" /\ dead' = dead
        /\ UNCHANGED <<files, name, done, sent, flagged, harm>>
        /\ Goto(w, s) /\ job' = [job EXCEPT ![w] = j]
    BY DEF Begin, At, Begun, Look
  <1>2. /\ j.op = op /\ j.ids = ids /\ j.key = key /\ j.look = Look /\ j.gone = {} /\ j.file = 0
    BY DEF Begun, NoJob
  <1>3. s \in {"stat", "open"}
    OBVIOUS
  <1> HIDE DEF s, j
  <1>4. Rest(w) /\ pc'[w] = s /\ job'[w] = j
    BY <1>1, Alone DEF Goto
  <1>5. Intent(s, j)
    BY <1>2, <1>3 DEF Intent, Untouched, Looking
  <1>6. Clear(w, j) /\ s \notin Webs /\ s \notin Writing
    BY <1>2, <1>3 DEF Clear, Webs, Writing, Rewrite
  <1>7. Facts(w)'
    <2>1. Saw(w)'
      BY <1>1, <1>2, <1>4 DEF Saw, Look, Dir
    <2> QED BY <1>3, <1>4, <2>1, LittleInHand
  <1> QED BY <1>1, <1>2, <1>4, <1>5, <1>6, <1>7, StepInside

LEMMA BeginAppendSound ==
  ASSUME SInv, NEW w \in Workers, BeginAppend(w)
  PROVE  Sound'
  <1>1. created + 1 \notin 0 .. created
    BY Ours, NamedFiles
  <1>2. Begin(w, "append", {}, created + 1, Marked)
    BY DEF BeginAppend
  <1>3. "append" \in Ops \ {"none"} /\ "append" \notin Named /\ {} \subseteq DOMAIN Look
    BY DEF Ops, Named
  <1> QED BY <1>1, <1>2, <1>3, BeginSound

LEMMA BeginChangeSound ==
  ASSUME SInv, NEW w \in Workers, BeginChange(w)
  PROVE  Sound'
  <1>1. Seen \subseteq DOMAIN Look /\ Seen \subseteq Nat
        /\ \A p \in Seen : Look[p] = files[name.dir][p] /\ Look[p].key # 0
    BY Ours, LookType DEF Seen, Look
  <1>2. ASSUME NEW p \in Seen, NEW op \in {"delete_file", "del_record", "update_file"},
               Begin(w, op, {p}, files[name.dir][p].key, Marked)
        PROVE  Sound'
    <2>1. op \in Ops \ {"none"} /\ op # "append"
      BY DEF Ops
    <2>2. /\ {p} \subseteq DOMAIN Look /\ {p} # {}
          /\ files[name.dir][p].key # 0 /\ \A q \in {p} : Look[q].key = files[name.dir][p].key
      BY <1>1
    <2> QED BY <1>2, <2>1, <2>2, BeginSound
  <1>3. ASSUME NEW p \in Seen, NEW f \in Flags,
               Begin(w, "substitute", {p}, files[name.dir][p].key, f)
        PROVE  Sound'
    <2>1. "substitute" \in Ops \ {"none"} /\ "substitute" \notin Named
      BY DEF Ops, Named
    <2>2. {p} \subseteq DOMAIN Look /\ {p} # {}
      BY <1>1
    <2> QED BY <1>3, <2>1, <2>2, BeginSound
  <1>4. ASSUME NEW ids \in SUBSET Seen, NEW op \in {"m_new", "bbsdelmail"}, ids # {},
               Begin(w, op, ids, 0, Marked)
        PROVE  Sound'
    <2>1. op \in Ops \ {"none"} /\ op \notin Named /\ op # "append"
      BY DEF Ops, Named
    <2>2. ids \subseteq DOMAIN Look
      BY <1>1
    <2> QED BY <1>4, <2>1, <2>2, BeginSound
  <1>5. ASSUME NEW p \in Seen, NEW q \in Seen, p <= q, Begin(w, "delete_range", p .. q, 0, Marked)
        PROVE  Sound'
    <2>1. "delete_range" \in Ops \ {"none"} /\ "delete_range" \notin Named
      BY DEF Ops, Named
    <2>2. p .. q \subseteq DOMAIN Look /\ p .. q # {}
      <3>1. DOMAIN Look = 1 .. Len(Look) /\ Len(Look) \in Nat
        BY Ours, LookType
      <3>2. p \in 1 .. Len(Look) /\ q \in 1 .. Len(Look)
        BY <1>1, <3>1
      <3>3. p \in p .. q /\ \A r \in p .. q : r \in 1 .. Len(Look)
        BY <1>5, <3>1, <3>2
      <3> QED BY <3>1, <3>3
    <2> QED BY <1>5, <2>1, <2>2, BeginSound
  <1> QED BY <1>2, <1>3, <1>4, <1>5 DEF BeginChange

\* A process that is killed leaves .DIR as it was, but between a shift and
\* its cut or between two renames, which is the harm "crashed".
LEMMA CrashSound ==
  ASSUME SInv, NEW w \in Workers, Crash(w)
  PROVE  Sound'
  <1>1. /\ dead' = dead \cup {w} /\ job' = [job EXCEPT ![w] = NoJob] /\ w \notin dead
        /\ UNCHANGED <<files, name, pc, sent, done, flagged>> /\ harm \subseteq harm'
    BY DEF Crash
  <1>2. Rest(w) /\ job'[w] = NoJob
    BY <1>1, Ours DEF Rest
  <1>3. TmpApart'
    BY <1>1, <1>2, Ours DEF TmpApart, Rest
  <1>4. AllIntent'
    BY <1>1, <1>2, Ours DEF AllIntent, Rest
  <1>5. ASSUME harm' = {} PROVE Calm'
    <2>1. pc[w] \notin {"promote", "truncate"}
      BY <1>5 DEF Crash
    <2>2. Undisturbed(w)
      BY <1>1 DEF Undisturbed, Replacing, Rewriting
    <2>3. Facts(w)'
      BY <1>1, NothingInHand
    <2>4. ~Web(w)' /\ ~Appends(w)'
      BY <1>1 DEF Web, Appends
    <2> QED BY <1>1, <1>2, <1>5, <2>1, <2>2, <2>3, <2>4, Ours, QuietStep
  <1> QED BY <1>3, <1>4, <1>5 DEF Sound

\* .DIR is renamed: there is none until its rewriter renames .tmpfile.
LEMMA RetireSound ==
  ASSUME SInv, NEW w \in Workers, Retire(w)
  PROVE  Sound'
  <1>1. /\ w \in Workers \ dead /\ pc[w] = "retire" /\ dead' = dead /\ name.dir # 0
        /\ UNCHANGED <<files, job, sent, done, flagged, harm>>
        /\ Goto(w, "promote") /\ name' = [name EXCEPT !.dir = 0]
    BY DEF Retire, At
  <1>2. Rest(w) /\ pc'[w] = "promote" /\ job'[w] = job[w]
    BY <1>1, Alone DEF Goto
  <1>3. name'.dir = 0 /\ name'.tmp = name.tmp /\ name'.web = name.web
    BY <1>1, Ours DEF IInv, TypeOK
  <1>4. TmpApart' /\ AllIntent'
    <2>1. SameAim(job[w], job[w]) /\ Intent("retire", job[w])
      BY <1>1, Ours DEF SameAim
    <2>2. Intent("promote", job[w])
      BY <2>1, IntentKept
    <2>3. Moved(w, "promote", job[w]) /\ TmpStep(w, job[w])
      BY <1>2, <1>3 DEF Moved, Rest, SameJob, SameAim, TmpStep, Clear
    <2> QED BY <1>1, <2>2, <2>3, Ours, ShapeKept
  <1>5. ASSUME harm = {} PROVE Calm'
    <2>1. IInv /\ TmpApart /\ Calm
      BY <1>5, Ours
    <2>2. Rewriting(w) /\ Replacing(w)
      BY <1>1 DEF Rewriting, Replacing
    <2>3. \A v \in Workers : ~At(v, "truncate")
      BY <2>1, <2>2 DEF Calm, Facts, ToCut
    <2>4. \A v \in Workers \ {w} : ~Rewriting(v)
      BY <2>1, <2>2, NamedFiles
    <2>5. \A v \in Workers : Facts(v)
      BY <2>1 DEF Calm
    <2>6. ASSUME NEW v \in Workers PROVE Saw(v)'
      BY <1>3 DEF Saw
    <2>7. ASSUME NEW v \in Workers PROVE ToShift(v)'
      <3>1. pc'[v] = "shift" /\ v \notin dead' => v # w /\ pc[v] = "shift" /\ v \in Workers \ dead
                                                  /\ job'[v] = job[v]
        BY <1>1, <1>2 DEF Rest
      <3>2. v \in Workers \ dead /\ pc[v] = "shift" => job[v].file # 0
        BY <2>1, OpenFile
      <3> QED BY <1>3, <3>1, <3>2 DEF ToShift, At
    <2>8. ASSUME NEW v \in Workers PROVE ToCut(v)'
      BY <1>2, <2>3 DEF ToCut, At, Rest
    <2>9. ASSUME NEW v \in Workers PROVE ToPut(v)'
      <3>1. CASE v = w
        BY <1>2, <3>1 DEF ToPut, At
      <3>2. CASE v # w
        BY <1>1, <1>2, <2>5, <3>2 DEF Facts, ToPut, At, Rest, Content
      <3> QED BY <3>1, <3>2
    <2>10. ASSUME NEW v \in Workers PROVE Copying(v)'
      BY <1>2, <2>4 DEF Copying, At, Rest, Rewriting
    <2>11. ASSUME NEW v \in Workers PROVE Replaced(v)'
      <3>1. CASE v = w
        <4>1. Replaced(w)
          BY <2>5 DEF Facts
        <4> QED BY <1>1, <1>2, <1>3, <3>1, <4>1 DEF Replaced, At, Tmp, GoodNow, Current
      <3>2. CASE v # w
        BY <1>2, <2>4, <3>2 DEF Replaced, At, Rest, Rewriting
      <3> QED BY <3>1, <3>2
    <2>12. ASSUME NEW v \in Workers PROVE OnWeb(v)'
      <3>1. CASE v = w
        BY <1>2, <3>1 DEF OnWeb, Web, Webs
      <3>2. CASE v # w
        BY <1>1, <1>2, <1>3, <2>5, <3>2 DEF Facts, OnWeb, Web, Rest, GoodNow
      <3> QED BY <3>1, <3>2
    <2>13. DirGood'
      BY <1>1, <1>2, <1>3 DEF DirGood, At
    <2>14. HistoryOK' /\ NewKeys'
      <3>1. \A v \in Workers : (Appends(v)' <=> Appends(v)) /\ job'[v].key = job[v].key
        BY <1>1 DEF Appends
      <3> QED BY <1>1, <2>1, <3>1 DEF Calm, HistoryOK, NewKeys, Posted
    <2>15. OneWeb'
      BY <1>1, <1>2, <2>1 DEF Calm, OneWeb, Web, Webs, Rest
    <2> QED BY <2>6, <2>7, <2>8, <2>9, <2>10, <2>11, <2>12, <2>13, <2>14, <2>15 DEF Calm, Facts
  <1> QED BY <1>1, <1>4, <1>5 DEF Sound

-----------------------------------------------------------------------------
\* A step that changes .DIR: those who have seen it are told, or find what
\* they saw where it was.
Told(w) ==
  \A v \in Workers \ {w} : v \notin dead /\ pc[v] # "idle" => job'[v].stale

LEMMA OutdatedTells ==
  ASSUME SInv, NEW w \in Workers, NEW s, NEW j, pc' = [pc EXCEPT ![w] = s],
         job' = [Outdated(w) EXCEPT ![w] = j]
  PROVE  Moved(w, s, j) /\ Told(w)
  <1>1. pc'[w] = s /\ \A v \in Workers \ {w} : pc'[v] = pc[v]
    BY Ours
  <1>2. job'[w] = j /\ \A v \in Workers \ {w} : job'[v] = [job[v] EXCEPT !.stale = job[v].op # "none"]
    BY DEF Outdated
  <1>3. ASSUME NEW v \in Workers \ {w}
        PROVE  SameJob(job'[v], job[v])
               /\ (v \notin dead /\ pc[v] # "idle" => job'[v].stale)
    <2> DEFINE i == job[v]
               b == i.op # "none"
               k == job'[v]
    <2>1. i \in JobsTo(created, Len(files)) /\ b \in BOOLEAN /\ k = [i EXCEPT !.stale = b]
      BY <1>2, Ours
    <2>2. SameJob(k, i)
      <3> HIDE DEF i, b, k
      <3> QED BY <2>1, StaleOnly
    <2>3. k.stale = b
      <3>1. "stale" \in DOMAIN i
        BY <2>1 DEF JobsTo
      <3> HIDE DEF i, b, k
      <3> QED BY <2>1, <3>1
    <2>4. v \notin dead /\ pc[v] # "idle" => b
      BY Ours DEF Intent
    <2>5. v \notin dead /\ pc[v] # "idle" => k.stale
      <3> HIDE DEF b, k
      <3> QED BY <2>3, <2>4
    <2> QED BY <2>2, <2>5
  <1> QED BY <1>1, <1>2, <1>3 DEF Moved, Told

LEMMA LoudStep ==
  ASSUME SInv, Calm, NEW w \in Workers \ dead, NEW s, NEW j, Moved(w, s, j), dead' = dead,
         \A v \in Workers \ {w} :
           /\ ~Replacing(v) /\ ~At(v, "truncate")
           /\ At(v, "shift") => job[v].file # name'.dir,
         \/ Told(w)
         \/ /\ Rest(w) /\ name'.dir = name.dir /\ name.dir # 0
            /\ \A q \in DOMAIN Dir : q \in DOMAIN Dir' /\ Dir'[q] = Dir[q],
         \A v \in Workers \ {w} : At(v, "put") =>
           /\ job[v].pos \in DOMAIN files'[job[v].file]
           /\ Told(w) \/ files'[job[v].file][job[v].pos] = Content(v)[job[v].pos],
         \A v \in Workers \ {w} : At(v, "load") =>
           name'.web = name.web /\ files'[name.web] = files[name.web],
         Facts(w)', HistoryOK', NewKeys', DirGood', s \notin Webs
  PROVE  Calm'
  <1>1. \A v \in Workers : Facts(v)
    BY DEF Calm
  <1>2. ASSUME NEW v \in Workers \ {w} PROVE Facts(v)'
    <2>1. pc'[v] = pc[v] /\ SameJob(job'[v], job[v]) /\ (v \in dead' <=> v \in dead)
      BY DEF Moved
    <2>2. Told(w) => (v \notin dead /\ pc[v] # "idle" => job'[v].stale)
      BY DEF Told
    <2>3. Saw(v)'
      <3>1. CASE Told(w)
        BY <2>1, <2>2, <3>1 DEF Saw, Looking
      <3>2. CASE Rest(w) /\ name'.dir = name.dir /\ name.dir # 0
                 /\ \A q \in DOMAIN Dir : q \in DOMAIN Dir' /\ Dir'[q] = Dir[q]
        BY <1>1, <2>1, <3>2 DEF Facts, Saw, Rest
      <3> QED BY <3>1, <3>2
    <2>4. ToShift(v)'
      BY <2>1 DEF ToShift, At, SameJob, SameAim
    <2>5. ToCut(v)' /\ Copying(v)' /\ Replaced(v)'
      BY <2>1 DEF ToCut, Copying, Replaced, At, Replacing, Rewriting
    <2>6. ToPut(v)'
      <3>1. SUFFICES ASSUME At(v, "put") PROVE ToPut(v)'
        BY <2>1 DEF ToPut, At
      <3>2. ToPut(v)
        BY <1>1 DEF Facts
      <3>3. job'[v].file = job[v].file /\ job'[v].pos = job[v].pos /\ job'[v].buf = job[v].buf
            /\ job'[v].gone = job[v].gone
        BY <2>1 DEF SameJob, SameAim
      <3>4. Content(v)' = files'[job[v].file]
        BY <3>3 DEF Content
      <3>5. job[v].pos \in DOMAIN Content(v)'
        BY <3>1, <3>4
      <3>6. ~job'[v].stale => Content(v)'[job[v].pos] = job[v].buf[1]
        <4>1. CASE Told(w)
          BY <2>2, <3>1, <4>1 DEF At
        <4>2. CASE ~Told(w)
          <5>1. job'[v] = job[v]
            BY <4>2 DEF Rest
          <5>2. files'[job[v].file][job[v].pos] = Content(v)[job[v].pos]
            BY <3>1, <4>2
          <5> QED BY <3>1, <3>2, <3>4, <5>1, <5>2 DEF ToPut
        <4> QED BY <4>1, <4>2
      <3> QED BY <3>1, <3>2, <3>3, <3>5, <3>6 DEF ToPut
    <2>7. OnWeb(v)'
      <3>1. Web(v)' => At(v, "load") /\ Web(v)
        BY <2>1 DEF Web, Webs, At, Replacing
      <3> QED BY <1>1, <2>1, <3>1 DEF Facts, OnWeb, At, SameJob, SameAim
    <2> QED BY <2>3, <2>4, <2>5, <2>6, <2>7 DEF Facts
  <1>3. OneWeb'
    <2>1. ~Web(w)' /\ \A v \in Workers \ {w} : Web(v)' => Web(v)
      BY DEF Moved, Web
    <2> QED BY <2>1 DEF Calm, OneWeb
  <1> QED BY <1>2, <1>3 DEF Calm

\* The entries still to be appended stay new.
LEMMA KeysKept ==
  ASSUME NewKeys, NEW w \in Workers, NEW s, NEW j, Moved(w, s, j), dead' = dead, sent' = sent,
         j.op # "append"
  PROVE  NewKeys'
  <1>1. \A v \in Workers : Appends(v)' => Appends(v) /\ job'[v].key = job[v].key
    BY DEF Moved, Appends, SameJob, SameAim
  <1> QED BY <1>1 DEF NewKeys, Posted

\* What follows when .DIR, as it is now, is good.
LEMMA GoodHistory ==
  ASSUME name'.dir # 0, GoodNow(Dir, done)', \A m \in flagged' : m[1] \in Posted(sent)'
  PROVE  DirGood' /\ HistoryOK'
  BY DEF DirGood, GoodNow, Good, HistoryOK

\* A call that is over, whether it changed .DIR or not.
LEMMA FinishMoves ==
  ASSUME SInv, NEW w \in Workers \ dead, Finish(w) \/ FinishChange(w), dead' = dead
  PROVE  /\ Moved(w, "idle", NoJob) /\ Facts(w)' /\ Intent("idle", NoJob)
         /\ FinishChange(w) => Told(w)
         /\ Finish(w) => Rest(w)
         /\ NoJob.op # "append" /\ Clear(w, NoJob) /\ "idle" \notin Webs
         /\ name'.tmp = name.tmp /\ name'.dir \in {name.dir, name.web} => TmpApart' /\ AllIntent'
  <1>1. Intent("idle", NoJob) /\ NoJob.op # "append" /\ Clear(w, NoJob) /\ "idle" \notin Webs
    BY DEF Intent, NoJob, Clear, Named, Untouched, Looking, Webs
  <1>2. Finish(w) => Rest(w) /\ Moved(w, "idle", NoJob)
    <2>1. Finish(w) => Rest(w) /\ pc'[w] = "idle" /\ job'[w] = NoJob
      BY Alone DEF Finish, Goto
    <2> QED BY <2>1 DEF Moved, Rest, SameJob, SameAim
  <1>3. FinishChange(w) => Told(w) /\ Moved(w, "idle", NoJob)
    <2>1. FinishChange(w) => /\ pc' = [pc EXCEPT ![w] = "idle"]
                             /\ job' = [Outdated(w) EXCEPT ![w] = NoJob]
      <3>1. Outdated(w) = [Outdated(w) EXCEPT ![w] = NoJob]
        BY DEF Outdated
      <3> QED BY <3>1 DEF FinishChange, Goto
    <2> QED BY <2>1, OutdatedTells
  <1>4. Facts(w)'
    <2>1. pc'[w] = "idle"
      BY <1>2, <1>3 DEF Moved
    <2> QED BY <2>1, NothingInHand
  <1>5. ASSUME name'.tmp = name.tmp, name'.dir \in {name.dir, name.web} PROVE TmpApart' /\ AllIntent'
    <2>1. TmpStep(w, NoJob)
      BY <1>1, <1>5 DEF TmpStep
    <2> QED BY <1>1, <1>2, <1>3, <2>1, Ours, ShapeKept
  <1> QED BY <1>1, <1>2, <1>3, <1>4, <1>5

\* Before a step that may change .DIR: it is good, and of a good sequence.
LEMMA GoodBefore ==
  ASSUME SInv, Calm, name.dir # 0, \A v \in Workers : ~At(v, "truncate")
  PROVE  /\ Good(Dir, done, sent, flagged) /\ Dir \in Seq(EntriesTo(created))
         /\ DOMAIN Dir = 1 .. Len(Dir) /\ Len(Dir) \in Nat
         /\ sent \in Seq(Nat \ {0}) /\ created \in Nat
         /\ DOMAIN files = 1 .. Len(files) /\ name.dir \in 1 .. Len(files)
         /\ \A p \in DOMAIN Dir : Dir[p].key # 0 => Dir[p].key \in Posted(sent)
         /\ \A m \in flagged : m[1] \in Posted(sent)
  <1>1. Good(Dir, done, sent, flagged)
    BY DEF Calm, DirGood, GoodNow
  <1>2. PICK w \in Workers \cup {0} : TRUE
    OBVIOUS
  <1>3. /\ Dir \in Seq(EntriesTo(created)) /\ sent \in Seq(Nat \ {0}) /\ created \in Nat
        /\ name.dir \in 1 .. Len(files)
    BY NamedFiles DEF SInv, Sound, Dir
  <1>4. DOMAIN files = 1 .. Len(files)
    BY LenProperties DEF SInv, IInv, TypeOK
  <1>5. \A p \in DOMAIN Dir : Dir[p].key # 0 => Dir[p].key \in Posted(sent)
    BY <1>1 DEF Good, Keys
  <1>6. \A m \in flagged : m[1] \in Posted(sent)
    BY DEF Calm, HistoryOK
  <1>7. DOMAIN Dir = 1 .. Len(Dir) /\ Len(Dir) \in Nat
    BY <1>3, LenProperties
  <1> QED BY <1>1, <1>3, <1>4, <1>5, <1>6, <1>7

LEMMA WriteSound ==
  ASSUME SInv, NEW w \in Workers, Write(w)
  PROVE  Sound'
  <1> DEFINE k == job[w].key
             x == [key |-> k, flags |-> {}]
  <1>1. /\ w \in Workers \ dead /\ pc[w] = "write" /\ dead' = dead /\ Finish(w)
        /\ UNCHANGED <<name, done, flagged>> /\ sent' = Append(sent, k)
        /\ harm' = harm \cup Exposed(w) \cup Truncated(w)
        /\ files' = [files EXCEPT ![job[w].file] = Append(@, x)]
    BY DEF Write, At
  <1>2. /\ Moved(w, "idle", NoJob) /\ Facts(w)' /\ Rest(w) /\ TmpApart' /\ AllIntent'
        /\ "idle" \notin Webs
    BY <1>1, FinishMoves
  <1>3. ASSUME harm' = {} PROVE Calm'
    <2>1. IInv /\ TmpApart /\ Calm
      BY <1>1, <1>3, Ours
    <2>2. job[w].file = name.dir /\ \A v \in Workers \ {w} : ~Replacing(v)
      BY <1>1, <1>3 DEF Exposed
    <2>3. \A v \in Workers \ {w} : ~(Shifting(v) /\ job[v].file = name.dir)
      BY <1>1, <1>3, <2>2 DEF Truncated
    <2>4. name.dir # 0 /\ \A v \in Workers : ~At(v, "truncate")
      <3>1. name.dir # 0
        BY <1>1, <2>1, <2>2, OpenFile
      <3>2. \A v \in Workers \ {w} : ~At(v, "truncate")
        BY <2>1, <2>3 DEF Calm, Facts, ToCut, Shifting, At
      <3> QED BY <1>1, <3>1, <3>2 DEF At
    <2>5. /\ Good(Dir, done, sent, flagged) /\ Dir \in Seq(EntriesTo(created))
          /\ DOMAIN Dir = 1 .. Len(Dir) /\ Len(Dir) \in Nat
          /\ sent \in Seq(Nat \ {0}) /\ created \in Nat
          /\ DOMAIN files = 1 .. Len(files) /\ name.dir \in 1 .. Len(files)
          /\ \A m \in flagged : m[1] \in Posted(sent)
      BY <2>1, <2>4, GoodBefore
    <2>6. Dir' = Append(Dir, x) /\ \A f \in 1 .. Len(files) : f # name.dir => files'[f] = files[f]
      BY <1>1, <2>2, <2>5 DEF Dir
    <2>7. k # 0 /\ k \in 0 .. created /\ k \in Nat \ {0} /\ job[w].op = "append"
      <3>1. job[w].op = "append" /\ k # 0
        BY <1>1, Ours DEF Fits, Aimed
      <3>2. k \in 0 .. created
        BY Ours DEF JobsTo
      <3> QED BY <2>5, <3>1, <3>2
    <2>8. k \notin Posted(sent) /\ \A v \in Workers \ {w} : Appends(v) => job[v].key # k
      BY <1>1, <2>1, <2>7 DEF Calm, NewKeys, Appends
    <2>9. Good(Append(Dir, x), done, Append(sent, k), flagged)
      <3> DEFINE s == Dir
                 l == sent
                 d == done
                 fl == flagged
      <3>1. /\ s \in Seq(EntriesTo(created)) /\ l \in Seq(Nat \ {0}) /\ Good(s, d, l, fl)
            /\ k \notin Posted(l) /\ \A m \in fl : m[1] \in Posted(l)
        BY <2>5, <2>8
      <3> HIDE DEF s, l, d, fl, k
      <3>2. Good(Append(s, [key |-> k, flags |-> {}]), d, Append(l, k), fl)
        BY <2>7, <3>1, GoodAppend
      <3> QED BY <3>2 DEF s, l, d, fl
    <2>10. Posted(sent)' = Posted(sent) \cup {k}
      <3> DEFINE l == sent
                 m == Len(l)
      <3>1. l \in Seq(Nat \ {0}) /\ m \in Nat /\ DOMAIN l = 1 .. m
        BY <2>5, LenProperties
      <3>2. /\ DOMAIN Append(l, k) = 1 .. m + 1 /\ Append(l, k)[m + 1] = k
            /\ \A i \in 1 .. m : Append(l, k)[i] = l[i]
        <4> HIDE DEF l, k
        <4> QED BY <2>7, <3>1, AppendProperties, LenProperties DEF m
      <3>3. \A i \in 1 .. m + 1 : i \in 1 .. m \/ i = m + 1
        BY <3>1
      <3>4. 1 .. m \subseteq 1 .. m + 1 /\ m + 1 \in 1 .. m + 1
        BY <3>1
      <3> HIDE DEF m, k
      <3>5. Posted(Append(l, k)) = Posted(l) \cup {k}
        BY <3>1, <3>2, <3>3, <3>4 DEF Posted
      <3> QED BY <1>1, <3>5 DEF k
    <2>11. GoodNow(Dir, done)'
      BY <1>1, <2>6, <2>9 DEF GoodNow
    <2>12. DirGood' /\ HistoryOK'
      <3>1. name'.dir # 0 /\ \A m \in flagged' : m[1] \in Posted(sent)'
        BY <1>1, <2>4, <2>5, <2>10
      <3> QED BY <2>11, <3>1, GoodHistory
    <2>13. NewKeys'
      <3>1. \A v \in Workers \ {w} : (Appends(v)' <=> Appends(v)) /\ job'[v].key = job[v].key
        BY <1>2 DEF Rest, Appends
      <3>2. ~Appends(w)'
        BY <1>2 DEF Moved, Appends, NoJob
      <3> QED BY <2>1, <2>8, <2>10, <3>1, <3>2 DEF Calm, NewKeys
    <2>14. \A q \in DOMAIN Dir : q \in DOMAIN Dir' /\ Dir'[q] = Dir[q]
      <3>1. x \in EntriesTo(created)
        BY <2>7 DEF EntriesTo
      <3> DEFINE d == Dir
                 n == Len(Dir)
      <3>2. d \in Seq(EntriesTo(created)) /\ n \in Nat /\ DOMAIN d = 1 .. n /\ n = Len(d)
        BY <2>5
      <3> HIDE DEF x, d, n
      <3>3. DOMAIN Append(d, x) = 1 .. n + 1 /\ \A q \in 1 .. n : Append(d, x)[q] = d[q]
        BY <3>1, <3>2, AppendProperties, LenProperties
      <3>4. 1 .. n \subseteq 1 .. n + 1
        BY <3>2
      <3> QED BY <2>6, <3>2, <3>3, <3>4 DEF d
    <2>15. \A v \in Workers \ {w} :
             /\ ~Replacing(v) /\ ~At(v, "truncate")
             /\ At(v, "shift") => job[v].file # name'.dir
      BY <1>1, <2>2, <2>3, <2>4 DEF Shifting, At
    <2>16. ASSUME NEW v \in Workers \ {w}, At(v, "put")
           PROVE  /\ job[v].pos \in DOMAIN files'[job[v].file]
                  /\ files'[job[v].file][job[v].pos] = Content(v)[job[v].pos]
      <3>1. job[v].pos \in DOMAIN Content(v)
        BY <2>1, <2>16 DEF Calm, Facts, ToPut
      <3>2. job[v].file \in 1 .. Len(files)
        BY <2>1, <2>16, OpenFile DEF At
      <3>3. Content(v) = files[job[v].file]
        BY DEF Content
      <3>4. CASE job[v].file = name.dir
        <4>1. Content(v) = Dir /\ files'[job[v].file] = Dir'
          BY <1>1, <3>3, <3>4 DEF Dir
        <4> HIDE DEF x, k
        <4> QED BY <2>14, <3>1, <4>1
      <3>5. CASE job[v].file # name.dir
        <4>1. files'[job[v].file] = Content(v)
          BY <2>6, <3>2, <3>3, <3>5
        <4> QED BY <3>1, <4>1
      <3> QED BY <3>4, <3>5
    <2>17. \A v \in Workers \ {w} : At(v, "load") =>
             name'.web = name.web /\ files'[name.web] = files[name.web]
      BY <1>1, <2>1, <2>6, NamedFiles DEF Calm, Facts, OnWeb, Web, Webs, At
    <2>18. name'.dir = name.dir
      BY <1>1
    <2> QED BY <1>1, <1>2, <2>1, <2>4, <2>12, <2>13, <2>14, <2>15, <2>16, <2>17, <2>18, LoudStep
  <1> QED BY <1>2, <1>3 DEF Sound

\* Who holds the flock on a file has it for itself.
LEMMA LockedOut ==
  ASSUME IInv, NEW w \in Workers \ dead, pc[w] \in Locking,
         NEW v \in Workers \ dead, v # w, pc[v] \in Locking
  PROVE  job[v].file # job[w].file
  <1>1. v \in locked /\ w \in locked
    BY DEF IInv, LockHeld
  <1> QED BY <1>1 DEF IInv, LockExclusive

\* The end of a call that changed .DIR in place.
LEMMA ChangedInPlace ==
  ASSUME SInv, Calm, NEW w \in Workers \ dead, FinishChange(w), UNCHANGED <<name, dead, sent>>,
         name.dir # 0,
         \A v \in Workers \ {w} : ~Replacing(v),
         \A v \in Workers \ {w} : ~(Shifting(v) /\ job[v].file = name.dir),
         \A f \in 1 .. Len(files) : f # name.dir => files'[f] = files[f],
         \A v \in Workers \ {w} : At(v, "put") /\ job[v].file = name.dir =>
           DOMAIN Dir \subseteq DOMAIN Dir',
         GoodNow(Dir, done)', \A m \in flagged' : m[1] \in Posted(sent)
  PROVE  Calm'
  <1>1. IInv /\ TmpApart
    BY Ours
  <1>2. /\ Moved(w, "idle", NoJob) /\ Facts(w)' /\ Told(w) /\ "idle" \notin Webs
        /\ NoJob.op # "append"
    BY FinishMoves
  <1>3. \A v \in Workers \ {w} : ~At(v, "truncate")
    BY DEF Calm, Facts, ToCut, Shifting, At
  <1>4. \A v \in Workers \ {w} : At(v, "shift") => job[v].file # name'.dir
    BY DEF Shifting, At
  <1>5. ASSUME NEW v \in Workers \ {w}, At(v, "put")
        PROVE  job[v].pos \in DOMAIN files'[job[v].file]
    <2>1. job[v].pos \in DOMAIN Content(v) /\ Content(v) = files[job[v].file]
      BY <1>5 DEF Calm, Facts, ToPut, Content
    <2>2. job[v].file \in 1 .. Len(files)
      BY <1>1, <1>5, OpenFile DEF At
    <2>3. CASE job[v].file = name.dir
      <3>1. Content(v) = Dir /\ files'[job[v].file] = Dir'
        BY <2>1, <2>3 DEF Dir
      <3> QED BY <1>5, <2>1, <2>3, <3>1
    <2>4. CASE job[v].file # name.dir
      BY <2>1, <2>2, <2>4
    <2> QED BY <2>3, <2>4
  <1>6. \A v \in Workers \ {w} : At(v, "load") =>
          name'.web = name.web /\ files'[name.web] = files[name.web]
    BY <1>1, NamedFiles DEF Calm, Facts, OnWeb, Web, Webs, At
  <1>7. NewKeys'
    BY <1>2, KeysKept DEF Calm
  <1>8. DirGood' /\ HistoryOK'
    <2>1. name'.dir # 0 /\ \A m \in flagged' : m[1] \in Posted(sent)'
      BY DEF Posted
    <2> QED BY <2>1, GoodHistory
  <1> QED BY <1>2, <1>3, <1>4, <1>5, <1>6, <1>7, <1>8, LoudStep

LEMMA StoreSound ==
  ASSUME SInv, NEW w \in Workers, Store(w)
  PROVE  Sound'
  <1> DEFINE p == Least(job[w].ids)
             seen == job[w].look[p]
             fg == job[w].flag
             e == [seen EXCEPT !.flags = @ \cup {fg}]
  <1>1. /\ w \in Workers \ dead /\ pc[w] = "store" /\ dead' = dead /\ FinishChange(w)
        /\ UNCHANGED <<name, done, sent>> /\ flagged' = flagged \cup {<<seen.key, fg>>}
        /\ harm' = harm \cup Exposed(w) \cup Truncated(w)
                     \cup Mistaken(w, p > Len(Content(w)) \/ Content(w)[p] # seen)
        /\ files' = [files EXCEPT ![job[w].file] = Stored(@, p, e)]
    BY DEF Store, At
  <1>2. TmpApart' /\ AllIntent'
    BY <1>1, FinishMoves
  <1>3. ASSUME harm' = {} PROVE Calm'
    <2>1. IInv /\ TmpApart /\ Calm
      BY <1>1, <1>3, Ours
    <2>2. job[w].file = name.dir /\ \A v \in Workers \ {w} : ~Replacing(v)
      BY <1>1, <1>3 DEF Exposed
    <2>3. \A v \in Workers \ {w} : ~(Shifting(v) /\ job[v].file = name.dir)
      BY <1>1, <1>3, <2>2 DEF Truncated
    <2>4. name.dir # 0 /\ \A v \in Workers : ~At(v, "truncate")
      <3>1. name.dir # 0
        BY <1>1, <2>1, <2>2, OpenFile
      <3>2. \A v \in Workers \ {w} : ~At(v, "truncate")
        BY <2>1, <2>3 DEF Calm, Facts, ToCut, Shifting, At
      <3> QED BY <1>1, <3>1, <3>2 DEF At
    <2>5. /\ Good(Dir, done, sent, flagged) /\ Dir \in Seq(EntriesTo(created))
          /\ DOMAIN Dir = 1 .. Len(Dir) /\ Len(Dir) \in Nat
          /\ sent \in Seq(Nat \ {0}) /\ created \in Nat
          /\ DOMAIN files = 1 .. Len(files) /\ name.dir \in 1 .. Len(files)
          /\ \A q \in DOMAIN Dir : Dir[q].key # 0 => Dir[q].key \in Posted(sent)
          /\ \A m \in flagged : m[1] \in Posted(sent)
      BY <2>1, <2>4, GoodBefore
    <2>6. Content(w) = Dir
      BY <2>2 DEF Content, Dir
    <2>7. /\ job[w].op = "substitute" /\ p \in job[w].ids /\ seen.key # 0 /\ p \in Nat
          /\ p >= 1 /\ fg \in Flags
      <3>1. job[w].ids \in SUBSET Nat /\ job[w].ids # {} /\ fg \in Flags
            /\ job[w].ids \subseteq Nat \ {0}
        BY <1>1, Ours DEF JobsTo, Fits, Aimed
      <3>2. p \in job[w].ids
        BY <3>1, LeastIn
      <3>3. job[w].op = "substitute" /\ seen.key # 0
        BY <1>1, <3>2, Ours DEF Fits, Aimed
      <3> QED BY <3>1, <3>2, <3>3
    <2>8. p \in DOMAIN Dir /\ Dir[p] = seen
      <3>1. CASE job[w].stale
        <4>1. ~(p > Len(Dir) \/ Dir[p] # seen)
          BY <1>1, <1>3, <2>6, <3>1 DEF Mistaken
        <4> HIDE DEF p, seen
        <4> QED BY <2>5, <2>7, <4>1
      <3>2. CASE ~job[w].stale
        <4>1. Saw(w)
          BY <2>1 DEF Calm, Facts
        <4> QED BY <1>1, <2>4, <2>7, <3>2, <4>1 DEF Saw, Looking
      <3> QED BY <3>1, <3>2
    <2>9. /\ Dir' = Stored(Dir, p, e)
          /\ \A f \in 1 .. Len(files) : f # name.dir => files'[f] = files[f]
      BY <1>1, <2>2, <2>5 DEF Dir
    <2>10. /\ DOMAIN Dir' = DOMAIN Dir /\ Dir'[p] = e
           /\ \A q \in DOMAIN Dir : q # p => Dir'[q] = Dir[q]
      <3> DEFINE s == Dir
      <3>1. s \in Seq(EntriesTo(created)) /\ p \in DOMAIN s
        BY <2>5, <2>8
      <3> HIDE DEF p, e, s
      <3>2. /\ DOMAIN Stored(s, p, e) = DOMAIN s /\ Stored(s, p, e)[p] = e
            /\ \A q \in DOMAIN s : q # p => Stored(s, p, e)[q] = s[q]
        BY <3>1, StoredThere
      <3> QED BY <2>9, <3>2 DEF s
    <2>11. e.key = Dir[p].key /\ e.flags = Dir[p].flags \cup {fg} /\ Dir[p].key # 0
      <3>1. seen \in EntriesTo(created)
        BY <2>5, <2>8, ElementOfSeq
      <3>2. "key" \in DOMAIN seen /\ "flags" \in DOMAIN seen
        BY <3>1 DEF EntriesTo
      <3> HIDE DEF seen
      <3> QED BY <2>7, <2>8, <3>2
    <2>12. Good(Dir', done, sent, flagged \cup {<<seen.key, fg>>})
      <3> DEFINE s == Dir
                 t == Dir'
                 c == created
      <3>1. /\ s \in Seq(EntriesTo(c)) /\ sent \in Seq(Nat \ {0}) /\ p \in DOMAIN s /\ fg \in Flags
            /\ s[p].key # 0 /\ Good(s, done, sent, flagged) /\ DOMAIN t = DOMAIN s
            /\ \A q \in DOMAIN s : q # p => t[q] = s[q]
        BY <2>5, <2>7, <2>8, <2>10, <2>11
      <3>2. t[p].key = s[p].key /\ t[p].flags = s[p].flags \cup {fg} /\ s[p] = seen
        BY <2>8, <2>10, <2>11
      <3> HIDE DEF s, t, c, p, fg, seen
      <3>3. Good(t, done, sent, flagged \cup {<<s[p].key, fg>>})
        BY <3>1, <3>2, GoodStore
      <3> QED BY <3>2, <3>3 DEF t
    <2>13. GoodNow(Dir, done)'
      BY <1>1, <2>12 DEF GoodNow
    <2>14. \A m \in flagged' : m[1] \in Posted(sent)
      BY <1>1, <2>5, <2>8, <2>7
    <2> HIDE DEF p, e, fg, seen
    <2> QED BY <1>1, <2>1, <2>2, <2>3, <2>4, <2>9, <2>10, <2>13, <2>14, ChangedInPlace
  <1> QED BY <1>2, <1>3 DEF Sound

LEMMA PutSound ==
  ASSUME SInv, NEW w \in Workers, Put(w)
  PROVE  Sound'
  <1> DEFINE p == job[w].pos
             b == job[w].buf[1]
             e == Tombstone(b)
  <1>1. /\ w \in Workers \ dead /\ pc[w] = "put" /\ dead' = dead /\ FinishChange(w)
        /\ UNCHANGED <<name, sent, flagged>> /\ done' = done \cup job[w].gone
        /\ harm' = harm \cup Exposed(w) \cup Mistaken(w, Content(w)[p] # b)
        /\ files' = [files EXCEPT ![job[w].file][p] = e]
    BY DEF Put, At
  <1>2. TmpApart' /\ AllIntent'
    BY <1>1, FinishMoves
  <1>3. ASSUME harm' = {} PROVE Calm'
    <2>1. IInv /\ TmpApart /\ Calm
      BY <1>1, <1>3, Ours
    <2>2. job[w].file = name.dir /\ \A v \in Workers \ {w} : ~Replacing(v)
      BY <1>1, <1>3 DEF Exposed
    <2>3. \A v \in Workers \ {w} : v \notin dead /\ pc[v] \in Locking => job[v].file # name.dir
      BY <1>1, <2>1, <2>2, LockedOut DEF Locking
    <2>4. name.dir # 0 /\ \A v \in Workers : ~At(v, "truncate")
      <3>1. name.dir # 0
        BY <1>1, <2>1, <2>2, OpenFile
      <3>2. \A v \in Workers \ {w} : ~At(v, "truncate")
        BY <2>1, <2>3 DEF Calm, Facts, ToCut, Locking, At
      <3> QED BY <1>1, <3>1, <3>2 DEF At
    <2>5. /\ Good(Dir, done, sent, flagged) /\ Dir \in Seq(EntriesTo(created))
          /\ sent \in Seq(Nat \ {0})
          /\ DOMAIN files = 1 .. Len(files) /\ name.dir \in 1 .. Len(files)
          /\ \A m \in flagged : m[1] \in Posted(sent)
      BY <2>1, <2>4, GoodBefore
    <2>6. Content(w) = Dir
      BY <2>2 DEF Content, Dir
    <2>7. job[w].gone = {b.key} /\ b.key # 0 /\ p \in DOMAIN Dir /\ Dir[p] = b
      <3>1. ToPut(w) /\ At(w, "put")
        BY <1>1, <2>1 DEF Calm, Facts, At
      <3>2. job[w].stale => Dir[p] = b
        BY <1>1, <1>3, <2>6 DEF Mistaken
      <3> QED BY <2>6, <3>1, <3>2 DEF ToPut
    <2>8. /\ Dir' = [Dir EXCEPT ![p] = e]
          /\ \A f \in 1 .. Len(files) : f # name.dir => files'[f] = files[f]
      BY <1>1, <2>2, <2>5 DEF Dir
    <2>9. e.key = 0
      <3>1. b \in EntriesTo(created)
        BY <2>5, <2>7, ElementOfSeq
      <3> HIDE DEF b
      <3> QED BY <3>1 DEF EntriesTo, Tombstone
    <2>10. /\ DOMAIN Dir' = DOMAIN Dir /\ Dir'[p].key = 0
           /\ \A q \in DOMAIN Dir : q # p => Dir'[q] = Dir[q]
      <3> HIDE DEF p, e
      <3> QED BY <2>7, <2>8, <2>9
    <2>11. Good(Dir', done \cup {b.key}, sent, flagged)
      <3> DEFINE s == Dir
                 t == Dir'
                 c == created
                 k == b.key
      <3>1. /\ s \in Seq(EntriesTo(c)) /\ sent \in Seq(Nat \ {0}) /\ p \in DOMAIN s
            /\ s[p].key = k /\ k # 0 /\ Good(s, done, sent, flagged) /\ DOMAIN t = DOMAIN s
            /\ \A q \in DOMAIN s : q # p => t[q] = s[q]
        BY <2>5, <2>7, <2>10
      <3>2. t[p].key = 0
        BY <2>10
      <3> HIDE DEF s, t, c, p, k
      <3>3. Good(t, done \cup {k}, sent, flagged)
        BY <3>1, <3>2, GoodTombstone
      <3> QED BY <3>3 DEF t, k
    <2>12. GoodNow(Dir, done)'
      BY <1>1, <2>7, <2>11 DEF GoodNow
    <2>13. \A v \in Workers \ {w} : ~(Shifting(v) /\ job[v].file = name.dir)
      BY <2>3 DEF Shifting, Locking
    <2>14. \A m \in flagged' : m[1] \in Posted(sent)
      BY <1>1, <2>5
    <2> HIDE DEF p, e, b
    <2> QED BY <1>1, <2>1, <2>2, <2>4, <2>8, <2>10, <2>12, <2>13, <2>14, ChangedInPlace
  <1> QED BY <1>2, <1>3 DEF Sound

LEMMA TruncateSound ==
  ASSUME SInv, NEW w \in Workers, Truncate(w)
  PROVE  Sound'
  <1> DEFINE b == job[w].buf
             p == job[w].pos
             k == job[w].key
  <1>1. /\ w \in Workers \ dead /\ pc[w] = "truncate" /\ dead' = dead /\ FinishChange(w)
        /\ UNCHANGED <<name, sent, flagged>> /\ done' = done \cup (job[w].gone \ {0})
        /\ harm' = harm \cup Exposed(w)
        /\ files' = [files EXCEPT ![job[w].file] = SubSeq(@, 1, Len(b) - 1)]
    BY DEF Truncate, At
  <1>2. TmpApart' /\ AllIntent'
    BY <1>1, FinishMoves
  <1>3. ASSUME harm' = {} PROVE Calm'
    <2>1. IInv /\ TmpApart /\ Calm
      BY <1>1, <1>3, Ours
    <2>2. /\ job[w].file = name.dir /\ Dir = Squeezed(b, p)
          /\ GoodNow(b, done) /\ b[p].key = k
          /\ job[w].gone = {k} /\ k # 0
          /\ \A v \in Workers : ~Replacing(v)
      BY <1>1, <2>1 DEF Calm, Facts, ToCut, At
    <2>3. \A v \in Workers \ {w} : v \notin dead /\ pc[v] \in Locking => job[v].file # name.dir
      BY <1>1, <2>1, <2>2, LockedOut DEF Locking
    <2>4. name.dir # 0
      BY <1>1, <2>1, <2>2, OpenFile
    <2>5. /\ DOMAIN files = 1 .. Len(files) /\ name.dir \in 1 .. Len(files)
          /\ sent \in Seq(Nat \ {0}) /\ b \in Seq(EntriesTo(created))
          /\ \A m \in flagged : m[1] \in Posted(sent)
      <3>1. DOMAIN files = 1 .. Len(files)
        BY <2>1, LenProperties DEF IInv, TypeOK
      <3>2. b \in Seq(EntriesTo(created))
        BY Ours DEF JobsTo
      <3> QED BY <2>1, <2>4, <3>1, <3>2, NamedFiles DEF Calm, HistoryOK
    <2>6. p \in 1 .. Len(b)
      BY <1>1, Ours DEF Fits, Shifts
    <2>7. /\ Dir' = SubSeq(Squeezed(b, p), 1, Len(b) - 1)
          /\ \A f \in 1 .. Len(files) : f # name.dir => files'[f] = files[f]
      BY <1>1, <2>2, <2>5 DEF Dir
    <2>8. Lacks(Dir', b, p)
      <3> HIDE DEF b, p
      <3> QED BY <2>5, <2>6, <2>7, SqueezedLacks
    <2>9. Good(Dir', done \cup {k}, sent, flagged)
      <3> DEFINE t == Dir'
                 c == created
      <3>1. /\ b \in Seq(EntriesTo(c)) /\ sent \in Seq(Nat \ {0}) /\ p \in 1 .. Len(b)
            /\ b[p].key = k /\ k # 0 /\ Good(b, done, sent, flagged) /\ Lacks(t, b, p)
        BY <2>2, <2>5, <2>6, <2>8 DEF GoodNow
      <3> HIDE DEF t, c, b, p, k
      <3>2. Good(t, done \cup {k}, sent, flagged)
        BY <3>1, GoodWithout
      <3> QED BY <3>2 DEF t
    <2>10. GoodNow(Dir, done)'
      <3>1. done' = done \cup {k}
        BY <1>1, <2>2
      <3> QED BY <1>1, <2>9, <3>1 DEF GoodNow
    <2>11. \A v \in Workers \ {w} :
             /\ ~(Shifting(v) /\ job[v].file = name.dir)
             /\ ~(At(v, "put") /\ job[v].file = name.dir)
      BY <2>3 DEF Shifting, Locking, At
    <2>12. \A m \in flagged' : m[1] \in Posted(sent)
      BY <1>1, <2>5
    <2> QED BY <1>1, <2>1, <2>2, <2>4, <2>7, <2>10, <2>11, <2>12, ChangedInPlace
  <1> QED BY <1>2, <1>3 DEF Sound

LEMMA ShiftSound ==
  ASSUME SInv, NEW w \in Workers, Shift(w)
  PROVE  Sound'
  <1> DEFINE b == job[w].buf
             n == job[w].pos
             j == job[w]
             s == files[job[w].file]
             t == [p \in DOMAIN s |-> IF p >= n /\ p < Len(b) THEN b[p + 1] ELSE s[p]]
  <1>1. /\ w \in Workers \ dead /\ pc[w] = "shift" /\ dead' = dead
        /\ pc' = [pc EXCEPT ![w] = "truncate"] /\ job' = [Outdated(w) EXCEPT ![w] = j]
        /\ UNCHANGED <<name, sent, done, flagged>>
        /\ harm' = harm \cup Exposed(w)
        /\ files' = [files EXCEPT ![job[w].file] = t]
    <2>1. w \notin dead /\ pc[w] = "shift" /\ Goto(w, "truncate")
      BY DEF Shift, At
    <2>2. files' = [files EXCEPT ![job[w].file] = t]
      BY DEF Shift
    <2> QED BY <2>1, <2>2 DEF Shift, Goto
  <1>2. Moved(w, "truncate", j) /\ Told(w)
    <2> HIDE DEF j
    <2> QED BY <1>1, OutdatedTells
  <1>3. TmpApart' /\ AllIntent'
    <2>1. Intent("truncate", j)
      BY <1>1, Ours DEF Intent, Untouched, Looking
    <2>2. TmpStep(w, j)
      BY <1>1 DEF TmpStep, Clear
    <2> HIDE DEF j
    <2> QED BY <1>1, <1>2, <2>1, <2>2, Ours, ShapeKept
  <1>4. ASSUME harm' = {} PROVE Calm'
    <2>1. IInv /\ TmpApart /\ Calm
      BY <1>1, <1>4, Ours
    <2>2. j.file = name.dir /\ \A v \in Workers \ {w} : ~Replacing(v)
      BY <1>1, <1>4 DEF Exposed
    <2>3. \A v \in Workers \ {w} : v \notin dead /\ pc[v] \in Locking => job[v].file # name.dir
      BY <1>1, <2>1, <2>2, LockedOut DEF Locking
    <2>4. name.dir # 0 /\ \A v \in Workers : ~At(v, "truncate")
      <3>1. name.dir # 0
        BY <1>1, <2>1, <2>2, OpenFile
      <3>2. \A v \in Workers \ {w} : ~At(v, "truncate")
        BY <2>1, <2>3 DEF Calm, Facts, ToCut, Locking, At
      <3> QED BY <1>1, <3>1, <3>2 DEF At
    <2>5. /\ Good(Dir, done, sent, flagged)
          /\ DOMAIN files = 1 .. Len(files) /\ name.dir \in 1 .. Len(files)
          /\ \A m \in flagged : m[1] \in Posted(sent)
      BY <2>1, <2>4, GoodBefore
    <2>6. Dir = b /\ b[n].key = j.key /\ j.gone = {j.key} /\ j.key # 0
      BY <1>1, <2>1, <2>2 DEF Calm, Facts, ToShift, At
    <2>7. /\ Dir' = Squeezed(b, n)
          /\ \A f \in 1 .. Len(files) : f # name.dir => files'[f] = files[f]
      <3>1. s = b
        BY <2>2, <2>6 DEF Dir
      <3>2. t = Squeezed(b, n)
        BY <3>1 DEF Squeezed
      <3> HIDE DEF t, j, b, n
      <3>3. Dir' = t
        BY <1>1, <2>2, <2>5 DEF Dir, j
      <3>4. \A f \in 1 .. Len(files) : f # name.dir => files'[f] = files[f]
        BY <1>1, <2>2, <2>5 DEF j
      <3> QED BY <3>2, <3>3, <3>4
    <2>8. \A v \in Workers : ~Replacing(v)'
      <3>1. \A v \in Workers \ {w} : ~Replacing(v)'
        BY <1>1, <1>2, <2>2 DEF Replacing, Rewriting, Moved
      <3>2. ~Replacing(w)'
        BY <1>2 DEF Replacing, Rewriting, Moved
      <3> QED BY <3>1, <3>2
    <2>9. Facts(w)'
      <3>1. pc'[w] = "truncate" /\ job'[w] = j
        BY <1>2 DEF Moved
      <3>2. ToCut(w)'
        <4>1. /\ job'[w].file = name'.dir /\ Dir' = Squeezed(job'[w].buf, job'[w].pos)
              /\ job'[w].buf[job'[w].pos].key = job'[w].key
              /\ job'[w].gone = {job'[w].key} /\ job'[w].key # 0
          BY <1>1, <2>2, <2>6, <2>7, <3>1
        <4>2. GoodNow(job[w].buf, done)'
          BY <1>1, <2>5, <2>6, <3>1 DEF GoodNow
        <4> QED BY <2>8, <4>1, <4>2 DEF ToCut
      <3>3. Saw(w)' /\ ToShift(w)' /\ ToPut(w)'
        BY <3>1 DEF Saw, ToShift, ToPut, At, Looking
      <3>4. Copying(w)' /\ Replaced(w)' /\ OnWeb(w)'
        BY <3>1 DEF Copying, Replaced, OnWeb, At, Web, Webs
      <3> QED BY <3>2, <3>3, <3>4 DEF Facts
    <2>10. \A v \in Workers \ {w} :
             /\ ~Replacing(v) /\ ~At(v, "truncate")
             /\ At(v, "shift") => job[v].file # name'.dir
      BY <1>1, <2>2, <2>3, <2>4 DEF Locking, At
    <2>11. ASSUME NEW v \in Workers \ {w}, At(v, "put")
           PROVE  job[v].pos \in DOMAIN files'[job[v].file]
      <3>1. job[v].pos \in DOMAIN Content(v) /\ Content(v) = files[job[v].file]
        BY <2>1, <2>11 DEF Calm, Facts, ToPut, Content
      <3>2. job[v].file \in 1 .. Len(files)
        BY <2>1, <2>11, OpenFile DEF At
      <3>3. job[v].file # name.dir
        BY <2>3, <2>11 DEF Locking, At
      <3> QED BY <2>7, <3>1, <3>2, <3>3
    <2>12. \A v \in Workers \ {w} : At(v, "load") =>
             name'.web = name.web /\ files'[name.web] = files[name.web]
      BY <1>1, <2>1, <2>7, NamedFiles DEF Calm, Facts, OnWeb, Web, Webs, At
    <2>13. NewKeys'
      <3>1. \A v \in Workers : Appends(v)' => Appends(v) /\ job'[v].key = job[v].key
        BY <1>1, <1>2 DEF Moved, Appends, SameJob, SameAim
      <3> QED BY <1>1, <2>1, <3>1 DEF Calm, NewKeys, Posted
    <2>14. HistoryOK'
      BY <1>1, <2>1 DEF Calm, HistoryOK, Posted
    <2>15. DirGood'
      <3>1. name'.dir # 0 /\ At(w, "truncate")'
        BY <1>1, <1>2, <2>4 DEF Moved, At
      <3> QED BY <3>1 DEF DirGood
    <2>16. "truncate" \notin Webs
      BY DEF Webs
    <2> HIDE DEF j
    <2> QED BY <1>1, <1>2, <2>1, <2>9, <2>10, <2>11, <2>12, <2>13, <2>14, <2>15, <2>16, LoudStep
  <1> QED BY <1>3, <1>4 DEF Sound

\* A step that puts another file in the place of .DIR.
LEMMA Exchanged ==
  ASSUME SInv, Calm, NEW w \in Workers \ dead, Replacing(w), NEW s, NEW j, Moved(w, s, j),
         Told(w), UNCHANGED <<files, dead, sent, flagged>>,
         \A v \in Workers \ {w} : ~Replacing(v),
         name'.dir \in {name.tmp, name.web} \ {0},
         \A v \in Workers \ {w} : At(v, "load") => name'.web = name.web,
         GoodNow(Dir, done)', Facts(w)', s \notin Webs, j.op # "append"
  PROVE  Calm'
  <1>1. IInv /\ TmpApart
    BY Ours
  <1>2. \A v \in Workers : ~At(v, "truncate")
    BY DEF Calm, Facts, ToCut
  <1>3. ASSUME NEW v \in Workers \ {w}, At(v, "shift") PROVE job[v].file # name'.dir
    BY <1>1, <1>3 DEF IInv, Apart, TmpApart, At
  <1>4. ASSUME NEW v \in Workers \ {w}, At(v, "put")
        PROVE  job[v].pos \in DOMAIN files'[job[v].file]
    BY <1>4 DEF Calm, Facts, ToPut, Content
  <1>5. NewKeys'
    BY KeysKept DEF Calm
  <1>6. DirGood' /\ HistoryOK'
    <2>1. name'.dir # 0 /\ \A m \in flagged' : m[1] \in Posted(sent)'
      BY DEF Calm, HistoryOK, Posted
    <2> QED BY <2>1, GoodHistory
  <1> QED BY <1>2, <1>3, <1>4, <1>5, <1>6, LoudStep

LEMMA SwapSound ==
  ASSUME SInv, NEW w \in Workers, Swap(w)
  PROVE  Sound'
  <1>1. /\ w \in Workers \ dead /\ pc[w] = "swap" /\ dead' = dead /\ FinishChange(w)
        /\ UNCHANGED <<files, sent, flagged>> /\ done' = done \cup job[w].gone
        /\ harm' = harm \cup Overtaken(w)
        /\ name' = IF name.web = 0 THEN name ELSE [name EXCEPT !.dir = name.web, !.web = 0]
    BY DEF Swap, At
  <1>2. /\ Moved(w, "idle", NoJob) /\ Facts(w)' /\ Told(w) /\ "idle" \notin Webs
        /\ NoJob.op # "append"
        /\ name'.tmp = name.tmp /\ name'.dir \in {name.dir, name.web} => TmpApart' /\ AllIntent'
    BY <1>1, FinishMoves
  <1>3. name \in Names(Len(files))
    BY Ours DEF IInv, TypeOK, Names
  <1>4. name.web # 0 => name'.dir = name.web
    BY <1>1, <1>3 DEF Names
  <1>5. TmpApart' /\ AllIntent'
    <2>1. name'.tmp = name.tmp /\ name'.dir \in {name.dir, name.web}
      BY <1>1, <1>3 DEF Names
    <2> QED BY <1>2, <2>1
  <1>6. ASSUME harm' = {} PROVE Calm'
    <2>1. IInv /\ TmpApart /\ Calm
      BY <1>1, <1>6, Ours
    <2>2. Web(w) /\ Replacing(w)
      BY <1>1 DEF Web, Webs, Replacing
    <2>3. name.web # 0 /\ files[name.web] = job[w].buf /\ GoodNow(job[w].buf, done \cup job[w].gone)
      BY <1>1, <2>1, <2>2 DEF Calm, Facts, OnWeb
    <2>4. \A v \in Workers \ {w} : ~Replacing(v)
      BY <1>1, <1>6 DEF Overtaken
    <2>5. GoodNow(Dir, done)'
      BY <1>1, <1>4, <2>3 DEF GoodNow, Dir
    <2>6. \A v \in Workers \ {w} : ~At(v, "load")
      BY <2>1, <2>2 DEF Calm, OneWeb, At, Web, Webs
    <2>7. name'.dir \in {name.tmp, name.web} \ {0}
      BY <1>4, <2>3
    <2> QED BY <1>1, <1>2, <2>1, <2>2, <2>4, <2>5, <2>6, <2>7, Exchanged
  <1> QED BY <1>5, <1>6 DEF Sound

LEMMA PromoteSound ==
  ASSUME SInv, NEW w \in Workers, Promote(w)
  PROVE  Sound'
  <1> DEFINE more == job[w].op = "m_new" /\ job[w].ids # {Current(w)}
             s == IF more THEN "open" ELSE "idle"
             j == IF more THEN Continued(w) ELSE NoJob
  <1>1. /\ w \in Workers \ dead /\ pc[w] = "promote" /\ dead' = dead
        /\ UNCHANGED <<files, sent, flagged>> /\ done' = done \cup job[w].gone
        /\ harm' = harm \cup Overtaken(w)
        /\ name' = [name EXCEPT !.dir = name.tmp, !.tmp = 0]
        /\ pc' = [pc EXCEPT ![w] = s] /\ job' = [Outdated(w) EXCEPT ![w] = j]
    BY DEF Promote, At, EndRewrite, Goto
  <1>2. Moved(w, s, j) /\ Told(w)
    <2> HIDE DEF s, j
    <2> QED BY <1>1, OutdatedTells
  <1>3. name'.dir = name.tmp /\ name'.tmp = 0 /\ name'.web = name.web
    <2>1. name \in Names(Len(files))
      BY Ours DEF IInv, TypeOK, Names
    <2> QED BY <1>1, <2>1 DEF Names
  <1>4. Intent(s, j) /\ s \notin Webs /\ j.op # "append" /\ s \in {"open", "idle"}
    <2>1. CASE more
      BY <1>1, <2>1, ContinuedIntent DEF Webs
    <2>2. CASE ~more
      BY <2>2 DEF Intent, NoJob, Named, Untouched, Looking, Webs
    <2> QED BY <2>1, <2>2
  <1>5. TmpApart' /\ AllIntent'
    <2>1. TmpStep(w, j)
      BY <1>3 DEF TmpStep
    <2> HIDE DEF s, j
    <2> QED BY <1>1, <1>2, <1>4, <2>1, Ours, ShapeKept
  <1>6. ASSUME harm' = {} PROVE Calm'
    <2>1. IInv /\ TmpApart /\ Calm
      BY <1>1, <1>6, Ours
    <2>2. Rewriting(w) /\ Replacing(w)
      BY <1>1 DEF Rewriting, Replacing
    <2>3. name.tmp # 0
      BY <2>1, <2>2, NamedFiles
    <2>4. \A v \in Workers \ {w} : ~Replacing(v)
      BY <1>1, <1>6 DEF Overtaken
    <2>5. Replaced(w) /\ At(w, "promote")
      BY <1>1, <2>1 DEF Calm, Facts, At
    <2>6. Dir' = Tmp
      BY <1>1, <1>3 DEF Dir, Tmp
    <2>7. GoodNow(Dir, done)'
      BY <1>1, <2>5, <2>6 DEF Replaced, GoodNow
    <2>8. Facts(w)'
      <3>1. CASE more
        <4>1. job'[w] = Continued(w) /\ pc'[w] = "open"
          BY <1>2, <3>1 DEF Moved
        <4>2. /\ Continued(w).look = job[w].look /\ Continued(w).stale = job[w].stale
              /\ Continued(w).ids = job[w].ids \ {Current(w)}
          BY <1>1, <3>1, ContinuedIntent
        <4>3. Saw(w)'
          BY <2>5, <2>6, <3>1, <4>1, <4>2 DEF Saw, Replaced
        <4> QED BY <4>1, <4>3, LittleInHand
      <3>2. CASE ~more
        <4>1. pc'[w] = "idle"
          BY <1>2, <3>2 DEF Moved
        <4> QED BY <4>1, NothingInHand
      <3> QED BY <3>1, <3>2
    <2>9. name'.dir \in {name.tmp, name.web} \ {0}
      BY <1>3, <2>3
    <2> HIDE DEF s, j, more
    <2> QED BY <1>1, <1>2, <1>3, <1>4, <2>1, <2>2, <2>4, <2>7, <2>8, <2>9, Exchanged
  <1> QED BY <1>5, <1>6 DEF Sound

-----------------------------------------------------------------------------
(* The invariant holds, and says what is to be shown.                      *)

LEMMA InitSInv == Init => SInv
  <1> SUFFICES ASSUME Init PROVE SInv
    OBVIOUS
  <1>1. \A w \in Workers : pc[w] = "idle" /\ job[w] = NoJob
    BY DEF Init
  <1>2. TmpApart /\ AllIntent
    <2>1. Intent("idle", NoJob)
      BY DEF Intent, NoJob, Named, Untouched, Looking
    <2> QED BY <1>1, <2>1 DEF Init, TmpApart, AllIntent
  <1>3. NewKeys
    BY <1>1 DEF NewKeys, Appends, NoJob
  <1>4. ASSUME NEW w \in Workers PROVE Facts(w)
    <2>1. Saw(w) /\ ToShift(w) /\ ToCut(w) /\ ToPut(w)
      BY <1>1 DEF Saw, ToShift, ToCut, ToPut, At, Looking
    <2>2. Copying(w) /\ Replaced(w) /\ OnWeb(w)
      BY <1>1 DEF Copying, Replaced, OnWeb, Web, Webs, At
    <2> QED BY <2>1, <2>2 DEF Facts
  <1>5. OneWeb
    BY <1>1 DEF OneWeb, Web, Webs
  <1>6. HistoryOK
    BY DEF Init, HistoryOK
  <1>7. DirGood
    <2>1. /\ DOMAIN Dir = 1 .. Initial /\ DOMAIN sent = 1 .. Initial /\ Initial \in Nat
          /\ \A p \in 1 .. Initial : Dir[p].key = p /\ Dir[p].flags = {} /\ sent[p] = p
          /\ done = {} /\ flagged = {} /\ name.dir # 0
      BY RecordAssumption DEF Init, Dir
    <2>2. Keys(Dir) = Posted(sent) \ done
      <3>1. Keys(Dir) = 1 .. Initial
        BY <2>1 DEF Keys
      <3>2. Posted(sent) = 1 .. Initial
        BY <2>1 DEF Posted
      <3> QED BY <2>1, <3>1, <3>2
    <2>3. InOrder(Dir, sent)
      BY <2>1 DEF InOrder
    <2>4. RightFlags(Dir, flagged)
      BY <2>1 DEF RightFlags
    <2> QED BY <2>1, <2>2, <2>3, <2>4 DEF DirGood, GoodNow, Good
  <1> QED BY <1>2, <1>3, <1>4, <1>5, <1>6, <1>7, InitIInv DEF SInv, Sound, Calm

LEMMA NextSInv == SInv /\ [Next]_vars => SInv'
  <1> SUFFICES ASSUME SInv, [Next]_vars PROVE SInv'
    OBVIOUS
  <1>1. ASSUME NEW w \in Workers, Step(w) PROVE Sound'
    BY <1>1, OpenSound, WriteSound, StatSound, StoreSound, FlockSound, ScanSound, ShiftSound,
       TruncateSound, ReadSound, PutSound, ExclSound, CopySound, CopyFailsSound, RetireSound,
       PromoteSound, WipeSound, LoadSound, SiftSound, FlushSound, SwapSound DEF Step
  <1>2. CASE UNCHANGED vars
    <2>1. TmpApart' /\ AllIntent'
      BY <1>2 DEF SInv, Sound, vars, TmpApart, AllIntent
    <2>2. HistoryOK' = HistoryOK /\ NewKeys' = NewKeys /\ OneWeb' = OneWeb
      BY <1>2 DEF vars, HistoryOK, NewKeys, OneWeb, Posted, Appends, Web
    <2>3. DirGood' = DirGood
      BY <1>2 DEF vars, DirGood, GoodNow, Dir, At
    <2>4. ASSUME NEW w \in Workers PROVE Facts(w)' = Facts(w)
      <3>1. Saw(w)' = Saw(w) /\ ToShift(w)' = ToShift(w) /\ ToPut(w)' = ToPut(w)
        BY <1>2 DEF vars, Saw, ToShift, ToPut, Dir, At, Content
      <3>2. ToCut(w)' = ToCut(w)
        BY <1>2 DEF vars, ToCut, Dir, At, GoodNow, Replacing, Rewriting
      <3>3. Copying(w)' = Copying(w)
        BY <1>2 DEF vars, Copying, Dir, Tmp, At, Aligned, Current
      <3>4. Replaced(w)' = Replaced(w)
        BY <1>2 DEF vars, Replaced, Tmp, At, GoodNow, Current
      <3>5. OnWeb(w)' = OnWeb(w)
        BY <1>2 DEF vars, OnWeb, Web, GoodNow
      <3> QED BY <3>1, <3>2, <3>3, <3>4, <3>5 DEF Facts
    <2>5. Calm => Calm'
      BY <2>2, <2>3, <2>4 DEF Calm
    <2>6. IInv'
      BY NextIInv DEF SInv
    <2> QED BY <1>2, <2>1, <2>5, <2>6 DEF SInv, Sound, vars
  <1>3. CASE Quiet
    BY <1>2, <1>3 DEF Quiet
  <1>4. ASSUME NEW w \in Workers, Crash(w) \/ BeginAppend(w) \/ BeginChange(w) PROVE Sound'
    BY <1>4, CrashSound, BeginAppendSound, BeginChangeSound
  <1>5. IInv'
    BY NextIInv DEF SInv
  <1> QED BY <1>1, <1>2, <1>3, <1>4, <1>5 DEF Next, SInv

\* What is in a file between the shift and the cut.
LEMMA SqueezedHas ==
  ASSUME NEW E, NEW s \in Seq(E), NEW n \in 1 .. Len(s)
  PROVE  /\ DOMAIN Squeezed(s, n) = DOMAIN s
         /\ \A p \in DOMAIN s : \E q \in DOMAIN s : Squeezed(s, n)[p] = s[q]
         /\ \A q \in DOMAIN s : q # n => \E p \in DOMAIN s : Squeezed(s, n)[p] = s[q]
  <1>1. DOMAIN s = 1 .. Len(s) /\ Len(s) \in Nat /\ n \in Nat
    BY LenProperties
  <1>2. ASSUME NEW p \in DOMAIN s PROVE \E q \in DOMAIN s : Squeezed(s, n)[p] = s[q]
    <2>1. CASE p >= n /\ p < Len(s)
      <3>1. p + 1 \in DOMAIN s
        BY <1>1, <2>1
      <3> QED BY <2>1, <3>1 DEF Squeezed
    <2>2. CASE ~(p >= n /\ p < Len(s))
      BY <2>2 DEF Squeezed
    <2> QED BY <2>1, <2>2
  <1>3. ASSUME NEW q \in DOMAIN s, q # n PROVE \E p \in DOMAIN s : Squeezed(s, n)[p] = s[q]
    <2>1. CASE q < n
      <3>1. ~(q >= n)
        BY <1>1, <2>1
      <3> QED BY <3>1 DEF Squeezed
    <2>2. CASE ~(q < n)
      <3>1. q - 1 \in DOMAIN s /\ q - 1 >= n /\ q - 1 < Len(s) /\ q - 1 + 1 = q
        BY <1>1, <1>3, <2>2
      <3>2. Squeezed(s, n)[q - 1] = s[q - 1 + 1]
        BY <3>1 DEF Squeezed
      <3> QED BY <3>1, <3>2
    <2> QED BY <2>1, <2>2
  <1> QED BY <1>2, <1>3 DEF Squeezed

\* The cut that is about to be made, by one who holds the lock.
LEMMA CutAhead ==
  ASSUME SInv, Calm, NEW w \in Workers, At(w, "truncate")
  PROVE  \E s : /\ GoodNow(s, done)
                /\ \A p \in DOMAIN Dir : \E q \in DOMAIN s : Dir[p] = s[q]
                /\ \A q \in DOMAIN s : s[q].key # job[w].key =>
                     \E p \in DOMAIN Dir : Dir[p] = s[q]
  <1> DEFINE s == job[w].buf
             n == job[w].pos
  <1>1. GoodNow(s, done) /\ Dir = Squeezed(s, n) /\ s[n].key = job[w].key
    BY DEF Calm, Facts, ToCut
  <1>2. s \in Seq(EntriesTo(created)) /\ n \in 1 .. Len(s)
    BY Ours DEF JobsTo, Fits, Shifts, At
  <1>3. /\ DOMAIN Dir = DOMAIN s
        /\ \A p \in DOMAIN s : \E q \in DOMAIN s : Dir[p] = s[q]
        /\ \A q \in DOMAIN s : q # n => \E p \in DOMAIN s : Dir[p] = s[q]
    <2> HIDE DEF s, n
    <2> QED BY <1>1, <1>2, SqueezedHas
  <1> QED BY <1>1, <1>3

LEMMA SoundFlags == SInv => FlagsKept
  <1> SUFFICES ASSUME SInv, harm = {}, name.dir # 0, NEW p \in DOMAIN Dir, Dir[p].key # 0
               PROVE  Dir[p].flags = {f \in Flags : <<Dir[p].key, f>> \in flagged}
    BY DEF FlagsKept, Dir
  <1>1. Calm
    BY DEF SInv, Sound
  <1>2. CASE \A w \in Workers : ~At(w, "truncate")
    BY <1>1, <1>2 DEF Calm, DirGood, GoodNow, Good, RightFlags
  <1>3. ASSUME NEW w \in Workers, At(w, "truncate")
        PROVE  Dir[p].flags = {f \in Flags : <<Dir[p].key, f>> \in flagged}
    <2>1. PICK s : /\ GoodNow(s, done)
                   /\ \A r \in DOMAIN Dir : \E q \in DOMAIN s : Dir[r] = s[q]
      BY <1>1, <1>3, CutAhead
    <2> QED BY <2>1 DEF GoodNow, Good, RightFlags
  <1> QED BY <1>2, <1>3

LEMMA SoundPosts == SInv => IndexKeepsPosts
  <1> SUFFICES ASSUME SInv PROVE IndexKeepsPosts
    OBVIOUS
  <1>1. TypeOK
    BY DEF SInv, IInv
  <1> SUFFICES ASSUME harm = {}, name.dir # 0
               PROVE  /\ Posted(sent) \ (done \cup Pending) \subseteq Keys(Dir)
                      /\ Keys(Dir) \cap done = {}
                      /\ (\A w \in Workers : ~At(w, "truncate")) =>
                           \A p, q \in DOMAIN Dir :
                             p < q /\ Dir[p].key # 0 /\ Dir[q].key # 0 =>
                               Rank(Dir[p].key) < Rank(Dir[q].key)
    BY <1>1 DEF IndexKeepsPosts, Dir, Posted
  <1>2. Calm
    BY DEF SInv, Sound
  <1>3. CASE \A w \in Workers : ~At(w, "truncate")
    <2>1. Good(Dir, done, sent, flagged)
      BY <1>2, <1>3 DEF Calm, DirGood, GoodNow
    <2>2. ASSUME NEW k \in Posted(sent) PROVE Rank(k) \in DOMAIN sent /\ sent[Rank(k)] = k
      BY DEF Rank, Posted
    <2>3. ASSUME NEW p \in DOMAIN Dir, NEW q \in DOMAIN Dir,
                 p < q, Dir[p].key # 0, Dir[q].key # 0
          PROVE  Rank(Dir[p].key) < Rank(Dir[q].key)
      <3>1. Dir[p].key \in Posted(sent) /\ Dir[q].key \in Posted(sent)
        BY <2>1, <2>3 DEF Good, Keys
      <3> QED BY <2>1, <2>2, <2>3, <3>1 DEF Good, InOrder
    <2> QED BY <1>3, <2>1, <2>3 DEF Good
  <1>4. ASSUME NEW w \in Workers, At(w, "truncate")
        PROVE  /\ Posted(sent) \ (done \cup Pending) \subseteq Keys(Dir)
               /\ Keys(Dir) \cap done = {}
    <2>1. PICK s : /\ GoodNow(s, done)
                   /\ \A p \in DOMAIN Dir : \E q \in DOMAIN s : Dir[p] = s[q]
                   /\ \A q \in DOMAIN s : s[q].key # job[w].key =>
                        \E p \in DOMAIN Dir : Dir[p] = s[q]
      BY <1>2, <1>4, CutAhead
    <2>2. Keys(s) = Posted(sent) \ done
      BY <2>1 DEF GoodNow, Good
    <2>3. Keys(Dir) \subseteq Keys(s)
      BY <2>1 DEF Keys
    <2>4. job[w].key \in Pending
      <3>1. job[w].gone = {job[w].key}
        BY <1>2, <1>4 DEF Calm, Facts, ToCut
      <3>2. w \in {v \in Workers : Busy(v)}
        BY <1>4 DEF At, Busy
      <3> QED BY <3>1, <3>2 DEF Pending
    <2>5. \A k \in Keys(s) : k # job[w].key => k \in Keys(Dir)
      BY <2>1 DEF Keys
    <2> QED BY <2>2, <2>3, <2>4, <2>5
  <1> QED BY <1>3, <1>4

\* IndexKeepsPosts always holds: whatever processes do to .DIR side by side
\* (record.c), unless one of the seven harms has happened an entry that was
\* appended is in it until somebody asks for its deletion, one whose deletion
\* succeeded does not come back, and entries keep their order.
THEOREM RecordKeepsPosts == Spec => []IndexKeepsPosts
  BY InitSInv, NextSInv, SoundPosts, PTL DEF Spec

\* FlagsKept always holds: unless one of the seven harms has happened, an
\* entry has the flags that substitute_record set on it and no other.
THEOREM RecordKeepsFlags == Spec => []FlagsKept
  BY InitSInv, NextSInv, SoundFlags, PTL DEF Spec
=============================================================================
