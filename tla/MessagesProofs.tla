--------------------------- MODULE MessagesProofs ---------------------------
(***************************************************************************)
(* Proofs about Messages, for any sessions, senders and numbers of         *)
(* messages: what the counter of msgindex2 passes is shown, what is shown  *)
(* is what was taken and has its own text, a message is taken twice only   *)
(* when two readers overlapped, and messages stay blocked for two reasons. *)
(***************************************************************************)
EXTENDS Messages, FiniteSetTheorems, FunctionTheorems, SequenceTheorems, TLAPS

Looping == {"count", "read", "write", "head", "text", "done"}
Shut == {"idle", "clear2", "clear3"}      \* no message is being shown

\* What a session at a step with a goal can be.
Wired(s, x) ==
  /\ x.pc \in {"head", "text"} => x.goal # "login"
  /\ x.pc \in {"count", "done", "enter", "browse"} => s \in Telnet
  /\ x.pc \in {"count", "done"} => x.goal = "r_msg"
  /\ x.pc \in {"read", "write", "head", "text"} =>
       x.goal \in {"login", IF s \in Telnet THEN "r_msg" ELSE "bbsgetmsg"}
  /\ x.pc \in {"clear2", "clear3"} => x.goal \in {"clear", "exit"}
  /\ x.goal = "exit" => s \in Telnet /\ x.pc \in {"clear2", "clear3"}

\* What a sender at work has in hand.
Loaded(x, n) ==
  /\ x.pc # "idle" => x.msg \in 1 .. n
  /\ x.pc = "notify" => x.to \in Telnet

\* Each clear_msg under way, and each that took the file away, is counted.
Clearers == {s \in Sessions : At(s, "clear2")}
Counted == IsFiniteSet(Clearers) /\ inbox.gen + Cardinality(Clearers) <= used.clears

\* Each message is listed, or being sent, once.
EachOnce ==
  /\ \A i \in DOMAIN inbox.heads : inbox.heads[i].msg <= used.msgs
  /\ \A i, j \in DOMAIN inbox.heads : inbox.heads[i].msg = inbox.heads[j].msg => i = j
  /\ \A i \in DOMAIN inbox.heads : inbox.heads[i].msg \notin Sending
  /\ \A p, q \in Senders :
       snd[p].pc = "post" /\ snd[q].pc = "post" /\ snd[p].msg = snd[q].msg => p = q

\* A session between its read and its write of the counter, of the same file.
Writing(s) == At(s, "write") /\ ses[s].fd = inbox.gen

\* The counter is within the list, also when a session writes it.
AckWithin ==
  /\ inbox.ack <= Len(inbox.heads)
  /\ \A s \in Sessions : At(s, "write") => ses[s].fd <= inbox.gen
  /\ \A s \in Sessions : Writing(s) => ses[s].idx + 1 \in DOMAIN inbox.heads

Structure ==
  /\ TypeOK
  /\ \A s \in Sessions : Wired(s, ses[s])
  /\ \A p \in Senders : Loaded(snd[p], used.msgs)
  /\ Counted /\ EachOnce /\ AckWithin

\* Heads, and sends under way, have their text, and before msgcontent is
\* unlinked no head is left that would miss it.
Texts ==
  /\ \A i \in DOMAIN inbox.heads :
       inbox.heads[i].msg \in hist.torn \/ TextAt(inbox.heads[i]) = inbox.heads[i].msg
  /\ \A p \in Senders :
       snd[p].pc = "post" => snd[p].msg \in hist.torn \/ TextAt(snd[p]) = snd[p].msg
  /\ (\E s \in Sessions : At(s, "clear3")) =>
       \A i \in DOMAIN inbox.heads : inbox.heads[i].msg \in hist.torn

\* On its way from get_unreadcount to the text, a session that nobody has
\* raced holds what it needs next.
Fresh(s) ==
  /\ At(s, "read") /\ ses[s].goal = "r_msg" => Unread # 0
  /\ At(s, "write") => ses[s].fd = inbox.gen
  /\ ses[s].pc \in {"head", "text"} => ses[s].idx + 1 \in DOMAIN inbox.heads
  /\ At(s, "text") => ses[s].cur = inbox.heads[ses[s].idx + 1]
AllFresh == \A s \in Sessions \ hist.raced : Fresh(s)

\* Number i of the list was shown, or a session has it in hand.
Holds(s, i) ==
  /\ ses[s].idx = i - 1
  /\ At(s, "head") \/ (At(s, "text") /\ ses[s].cur = inbox.heads[i])
Covered(i) == inbox.heads[i].msg \in hist.seen \/ \E s \in Sessions : Holds(s, i)
AllCovered ==
  /\ \A i \in 1 .. inbox.ack : Covered(i)
  /\ \A s \in Sessions : Writing(s) => \A i \in 1 .. ses[s].idx : Covered(i)

\* Until two readers overlap, the counter is where the last one put it.
InTurn ==
  ~hist.overlap =>
    /\ ~hist.twice
    /\ \A m \in hist.taken : \E i \in 1 .. inbox.ack : inbox.heads[i].msg = m
    /\ \A s \in Sessions : Writing(s) => ses[s].idx = inbox.ack
    /\ \A s, r \in Sessions : Writing(s) /\ Writing(r) => s = r

\* Whether messages are blocked, in r_msg2 and when a loop of r_msg is over.
FlagsOf(x, f) ==
  /\ x.pc \in Shut => (f.blocked => f.editing \/ f.stuck) /\ (f.have => f.blocked)
  /\ x.pc = "browse" => f.blocked
  /\ x.pc \in Looping /\ x.goal = "r_msg" => (f.old => f.editing \/ f.stuck)
Flags == \A t \in Telnet : FlagsOf(ses[t], tty[t])

IInv == Structure /\ Texts /\ AllFresh /\ AllCovered /\ InTurn /\ Flags

-----------------------------------------------------------------------------
(* Types                                                                   *)

Jobs == [pc : SessionSteps, goal : Goals, fd : 0 .. MaxClears, idx : -1 .. MaxMsgs,
         cur : Heads \cup {Garbage}]
Sends == [pc : SendSteps, msg : 0 .. MaxMsgs, pos : Nat, to : Telnet \cup {NoSession}]
Ttys == [blocked : BOOLEAN, have : BOOLEAN, old : BOOLEAN, editing : BOOLEAN,
         handler : {"r_msg", "ignore"}, masked : BOOLEAN, pending : BOOLEAN, stuck : BOOLEAN]
Histories == [taken : SUBSET Msgs, twice : BOOLEAN, overlap : BOOLEAN,
              seen : SUBSET Msgs, torn : SUBSET Msgs,
              raced : SUBSET Sessions, told : SUBSET (Msgs \X Telnet)]
Counts == [msgs : 0 .. MaxMsgs, clears : 0 .. MaxClears, logins : 0 .. MaxLogins]

LEMMA TypesNamed ==
  TypeOK <=> /\ inbox \in Files /\ content \in Seq(Msgs) /\ snd \in [Senders -> Sends]
             /\ ses \in [Sessions -> Jobs] /\ tty \in [Telnet -> Ttys]
             /\ used \in Counts /\ hist \in Histories
  BY DEF TypeOK, Jobs, Sends, Ttys, Histories, Counts

\* The same one step later.
LEMMA TypesNamedNext ==
  TypeOK' <=> /\ inbox' \in Files /\ content' \in Seq(Msgs) /\ snd' \in [Senders -> Sends]
              /\ ses' \in [Sessions -> Jobs] /\ tty' \in [Telnet -> Ttys]
              /\ used' \in Counts /\ hist' \in Histories
  BY DEF TypeOK, Jobs, Sends, Ttys, Histories, Counts

LEMMA BoundsNat == MaxMsgs \in Nat /\ MaxClears \in Nat /\ MaxLogins \in Nat
  BY MessagesAssumption

LEMMA InboxType ==
  ASSUME TypeOK
  PROVE  /\ inbox.gen \in 0 .. MaxClears /\ inbox.ack \in Nat /\ inbox.heads \in Seq(Heads)
         /\ inbox.state \in {"none", "empty", "ready"}
         /\ Len(inbox.heads) \in Nat /\ DOMAIN inbox.heads = 1 .. Len(inbox.heads)
         /\ \A i \in DOMAIN inbox.heads :
              /\ inbox.heads[i] \in Heads /\ inbox.heads[i].msg \in Msgs
              /\ inbox.heads[i].pos \in Nat /\ inbox.heads[i].msg # 0
         /\ used.msgs \in 0 .. MaxMsgs /\ used.clears \in 0 .. MaxClears
  <1>1. /\ inbox.gen \in 0 .. MaxClears /\ inbox.ack \in Nat /\ inbox.heads \in Seq(Heads)
        /\ inbox.state \in {"none", "empty", "ready"}
    BY DEF TypeOK, Files
  <1>2. Len(inbox.heads) \in Nat /\ DOMAIN inbox.heads = 1 .. Len(inbox.heads)
    BY <1>1, LenProperties
  <1>3. \A i \in DOMAIN inbox.heads : inbox.heads[i] \in Heads
    BY <1>1, <1>2, ElementOfSeq
  <1>4. \A h \in Heads : h.msg \in Msgs /\ h.pos \in Nat /\ h.msg # 0
    BY BoundsNat DEF Heads, Msgs
  <1>5. used.msgs \in 0 .. MaxMsgs /\ used.clears \in 0 .. MaxClears
    BY DEF TypeOK
  <1> QED BY <1>1, <1>2, <1>3, <1>4, <1>5

\* Each message is listed once, so the list is no longer than the messages.
LEMMA ListBounded ==
  ASSUME TypeOK, EachOnce
  PROVE  Len(inbox.heads) <= used.msgs
  <1> DEFINE n == Len(inbox.heads)
             f == [i \in 1 .. n |-> inbox.heads[i].msg]
  <1>1. n \in Nat /\ used.msgs \in Nat /\ DOMAIN inbox.heads = 1 .. n
    BY InboxType, BoundsNat
  <1>2. \A i \in 1 .. n : inbox.heads[i].msg \in 1 .. used.msgs
    BY <1>1, InboxType, BoundsNat DEF EachOnce, Msgs
  <1>3. f \in [1 .. n -> 1 .. used.msgs]
    BY <1>2
  <1>4. \A i, j \in 1 .. n : f[i] = f[j] => i = j
    BY <1>1 DEF EachOnce
  <1> HIDE DEF f
  <1>5. f \in Injection(1 .. n, 1 .. used.msgs)
    BY <1>3, <1>4 DEF Injection, IsInjective
  <1>6. IsFiniteSet(1 .. used.msgs) /\ Cardinality(1 .. used.msgs) = used.msgs
        /\ Cardinality(1 .. n) = n
    <2>1. \A k \in Nat : IsFiniteSet(1 .. k) /\ Cardinality(1 .. k) = k
      <3> SUFFICES ASSUME NEW k \in Nat PROVE IsFiniteSet(1 .. k) /\ Cardinality(1 .. k) = k
        OBVIOUS
      <3>1. 1 \in Int /\ k \in Int
        OBVIOUS
      <3>2. IsFiniteSet(1 .. k) /\ Cardinality(1 .. k) = IF 1 > k THEN 0 ELSE k - 1 + 1
        BY <3>1, FS_Interval
      <3> QED BY <3>2
    <2> QED BY <1>1, <2>1
  <1>7. Cardinality(1 .. n) <= Cardinality(1 .. used.msgs)
    BY <1>5, <1>6, FS_Injection
  <1> QED BY <1>6, <1>7

-----------------------------------------------------------------------------
(* One session moves                                                       *)

LEMMA Moved ==
  ASSUME TypeOK, NEW s \in Sessions, NEW x \in Jobs, ses' = [ses EXCEPT ![s] = x]
  PROVE  /\ ses' \in [Sessions -> Jobs] /\ ses'[s] = x
         /\ \A r \in Sessions \ {s} : ses'[r] = ses[r]
  BY TypesNamed

LEMMA Fixed == Garbage \in Heads \cup {Garbage} /\ Garbage.msg = 0 /\ Offline \in Jobs /\ Rest \in Jobs
               /\ Offline.pc = "off" /\ Rest.pc = "idle" /\ Offline.goal = "none" /\ Rest.goal = "none"
               /\ NoSend \in Sends /\ NoSend.pc = "idle" /\ NewTty \in Ttys
               /\ NoFile \in Files /\ NoFile.ack = 0 /\ NoFile.heads = <<>>
  <1>1. 0 \in 0 .. MaxClears /\ -1 \in -1 .. MaxMsgs /\ 0 \in 0 .. MaxMsgs
    BY BoundsNat
  <1>2. Garbage \in Heads \cup {Garbage} /\ Garbage.msg = 0
    BY DEF Garbage
  <1>3. Offline \in Jobs /\ Rest \in Jobs /\ Offline.pc = "off" /\ Rest.pc = "idle"
        /\ Offline.goal = "none" /\ Rest.goal = "none"
    BY <1>1, <1>2 DEF Offline, Rest, Jobs, SessionSteps, Goals
  <1>4. NoSend \in Sends /\ NoSend.pc = "idle"
    BY <1>1 DEF NoSend, Sends, SendSteps
  <1>5. NewTty \in Ttys
    BY DEF NewTty, Ttys
  <1>6. <<>> \in Seq(Heads)
    BY EmptySeq
  <1>7. NoFile \in Files /\ NoFile.ack = 0 /\ NoFile.heads = <<>>
    BY <1>1, <1>6 DEF NoFile, Files
  <1> QED BY <1>2, <1>3, <1>4, <1>5, <1>7

\* Nobody else is moved into or out of the first half of a clear_msg.
LEMMA ClearersSame ==
  ASSUME NEW s \in Sessions, \A r \in Sessions \ {s} : ses'[r] = ses[r],
         At(s, "clear2") <=> At(s, "clear2")'
  PROVE  Clearers' = Clearers
  <1>1. \A r \in Sessions : At(r, "clear2") <=> At(r, "clear2")'
    BY DEF At
  <1> QED BY <1>1 DEF Clearers

\* A step of s at a place where it has no message in hand and clears nothing.
Quiet(s, x) ==
  /\ UNCHANGED <<inbox, content, snd>>
  /\ used'.msgs = used.msgs /\ used'.clears = used.clears
  /\ hist'.taken = hist.taken /\ hist'.twice = hist.twice /\ hist'.overlap = hist.overlap
  /\ hist'.seen = hist.seen /\ hist'.torn = hist.torn /\ hist.raced \ {s} \subseteq hist'.raced
  /\ ses' = [ses EXCEPT ![s] = x]
  /\ ses[s].pc \notin {"write", "head", "text", "clear2", "clear3"}
  /\ x.pc \notin {"write", "head", "text", "clear2", "clear3"}
  /\ x.pc = "read" /\ x.goal = "r_msg" => Unread # 0

Sure == Structure /\ Texts /\ AllFresh /\ AllCovered /\ InTurn

LEMMA QuietInv ==
  ASSUME Sure, NEW s \in Sessions, NEW x \in Jobs, Wired(s, x), Quiet(s, x),
         tty' \in [Telnet -> Ttys], used' \in Counts, hist' \in Histories
  PROVE  Sure'
  <1>1. TypeOK /\ EachOnce /\ Counted /\ AckWithin
    BY DEF Sure, Structure
  <1>2. ses' \in [Sessions -> Jobs] /\ ses'[s] = x /\ \A r \in Sessions \ {s} : ses'[r] = ses[r]
    BY <1>1, Moved DEF Quiet
  <1>3. TypeOK'
    BY <1>1, <1>2, TypesNamed, TypesNamedNext DEF Quiet
  <1>4. \A r \in Sessions : \A c \in {"write", "head", "text", "clear2", "clear3"} :
          /\ At(r, c) <=> At(r, c)'
          /\ At(r, c) => ses'[r] = ses[r]
    BY <1>2 DEF Quiet, At
  <1>5. Counted'
    BY <1>1, <1>2, <1>4, ClearersSame DEF Counted, Quiet
  <1>6. EachOnce'
    BY <1>1 DEF EachOnce, Sending, Quiet
  <1>7. AckWithin'
    BY <1>1, <1>4 DEF AckWithin, Writing, Quiet
  <1>8. Structure'
    BY <1>2, <1>3, <1>5, <1>6, <1>7 DEF Sure, Structure, Quiet
  <1>9. Texts'
    BY <1>4 DEF Sure, Texts, TextAt, Quiet
  <1>10. AllFresh'
    <2> SUFFICES ASSUME NEW r \in Sessions, r \notin hist'.raced PROVE Fresh(r)'
      BY DEF AllFresh
    <2>1. CASE r = s
      BY <1>2, <2>1 DEF Fresh, Quiet, At, Unread
    <2>2. CASE r # s
      <3>1. r \notin hist.raced /\ ses'[r] = ses[r]
        BY <1>2, <2>2 DEF Quiet
      <3> QED BY <3>1 DEF Sure, AllFresh, Fresh, Quiet, At, Unread
    <2> QED BY <2>1, <2>2
  <1>11. AllCovered'
    <2>1. \A i : \A r \in Sessions : Holds(r, i) => Holds(r, i)'
      BY <1>4 DEF Holds, At, Quiet
    <2>2. \A i : Covered(i) => Covered(i)'
      BY <2>1 DEF Covered, Quiet
    <2> QED BY <1>4, <2>2 DEF Sure, AllCovered, Writing, Quiet
  <1>12. InTurn'
    BY <1>4 DEF Sure, InTurn, Writing, Quiet
  <1> QED BY <1>8, <1>9, <1>10, <1>11, <1>12 DEF Sure

\* The flags of sessions that are not moved between the two kinds of places.
SameFlags(f, g) ==
  /\ f.blocked = g.blocked /\ f.have = g.have /\ f.old = g.old
  /\ f.editing = g.editing /\ f.stuck = g.stuck

SamePlace(x, y) ==
  /\ y.pc \in Shut => x.pc \in Shut
  /\ y.pc # "browse"
  /\ y.pc \in Looping /\ y.goal = "r_msg" => x.pc \in Looping /\ x.goal = "r_msg"

LEMMA SameFlagsOf ==
  ASSUME NEW x, NEW f, NEW g, FlagsOf(x, f), SameFlags(f, g)
  PROVE  FlagsOf(x, g)
  BY Zenon DEF FlagsOf, SameFlags

LEMMA FlagsStay ==
  ASSUME TypeOK, Flags, NEW s \in Sessions, NEW x \in Jobs, ses' = [ses EXCEPT ![s] = x],
         \A t \in Telnet : SameFlags(tty[t], tty'[t]),
         s \in Telnet => SamePlace(ses[s], x)
  PROVE  Flags'
  <1>1. ses'[s] = x /\ \A r \in Sessions \ {s} : ses'[r] = ses[r]
    BY Moved
  <1> SUFFICES ASSUME NEW t \in Telnet PROVE FlagsOf(ses'[t], tty'[t])
    BY DEF Flags
  <1>2. t \in Sessions /\ FlagsOf(ses[t], tty[t])
    BY DEF Sessions, Flags
  <1>3. FlagsOf(ses'[t], tty[t])
    <2>1. CASE t = s
      <3>1. SamePlace(ses[t], ses'[t])
        BY <1>1, <2>1
      <3> QED BY <1>2, <3>1, Zenon DEF SamePlace, FlagsOf
    <2>2. CASE t # s
      BY <1>1, <1>2, <2>2
    <2> QED BY <2>1, <2>2
  <1> QED BY <1>3, SameFlagsOf

-----------------------------------------------------------------------------
(* Steps of a session with no message in hand                              *)

LEMMA Sites == Telnet \subseteq Sessions /\ Web \subseteq Sessions /\ Telnet \cap Web = {}
  BY MessagesAssumption DEF Sessions

\* A loop of r_msg starts.
LEMMA StartLoopInv ==
  ASSUME IInv, NEW t \in Telnet, NEW f \in Ttys, StartLoop(t, f),
         UNCHANGED <<inbox, content, snd, used, hist>>,
         ses[t].pc \in {"enter", "idle", "browse"}, f.old => f.editing \/ f.stuck
  PROVE  IInv'
  <1> DEFINE x == [ses[t] EXCEPT !.pc = "count", !.goal = "r_msg", !.cur = Garbage]
             g == [f EXCEPT !.handler = "ignore", !.pending = FALSE]
  <1>1. Sure /\ TypeOK /\ t \in Sessions
    BY Sites DEF IInv, Sure, Structure
  <1>2. x \in Jobs /\ x.pc = "count" /\ x.goal = "r_msg"
    BY <1>1, TypesNamed, Fixed DEF Jobs, SessionSteps, Goals
  <1>3. g \in Ttys
    BY DEF Ttys
  <1>4. SameFlags(f, g)
    BY DEF Ttys, SameFlags
  <1>5. ses' = [ses EXCEPT ![t] = x] /\ tty' = [tty EXCEPT ![t] = g]
    BY <1>1, TypesNamed DEF StartLoop, Jobs
  <1> HIDE DEF x, g
  <1>6. tty' \in [Telnet -> Ttys] /\ tty'[t] = g /\ \A r \in Telnet \ {t} : tty'[r] = tty[r]
    BY <1>1, <1>3, <1>5, TypesNamed
  <1>7. used' \in Counts /\ hist' \in Histories
    BY <1>1, TypesNamed
  <1>8. Wired(t, x)
    BY <1>2 DEF Wired
  <1>9. Quiet(t, x)
    BY <1>2, <1>5 DEF Quiet
  <1>10. Sure'
    BY <1>1, <1>2, <1>6, <1>7, <1>8, <1>9, QuietInv
  <1>11. ses'[t] = x /\ \A r \in Sessions \ {t} : ses'[r] = ses[r]
    BY <1>1, <1>2, <1>5, Moved
  <1>12. Flags'
    <2> SUFFICES ASSUME NEW r \in Telnet PROVE FlagsOf(ses'[r], tty'[r])
      BY DEF Flags
    <2>1. FlagsOf(x, g)
      BY <1>2, <1>4, Zenon DEF FlagsOf, SameFlags, Shut
    <2> QED BY <1>6, <1>11, <2>1, Sites DEF IInv, Flags
  <1> QED BY <1>10, <1>12 DEF IInv, Sure

LEMMA FromMainType ==
  ASSUME TypeOK, NEW t \in Telnet
  PROVE  FromMain(t) \in Ttys /\ FromMain(t).old = FALSE
  BY TypesNamed DEF FromMain, Ttys

LEMMA EnterLoopInv ==
  ASSUME IInv, NEW t \in Telnet, EnterLoop(t)
  PROVE  IInv'
  <1>1. TypeOK
    BY DEF IInv, Structure
  <1> QED BY <1>1, FromMainType, StartLoopInv DEF EnterLoop, At

LEMMA EndBrowseInv ==
  ASSUME IInv, NEW t \in Telnet, EndBrowse(t)
  PROVE  IInv'
  <1>1. TypeOK
    BY DEF IInv, Structure
  <1> QED BY <1>1, FromMainType, StartLoopInv DEF EndBrowse, At

LEMMA EndEditInv ==
  ASSUME IInv, NEW t \in Telnet, EndEdit(t)
  PROVE  IInv'
  <1> DEFINE f == [FromMain(t) EXCEPT !.editing = FALSE, !.stuck = FALSE]
  <1>1. TypeOK
    BY DEF IInv, Structure
  <1>2. f \in Ttys /\ ~f.old
    BY <1>1, FromMainType DEF Ttys
  <1>3. StartLoop(t, f) /\ UNCHANGED <<inbox, content, snd, used, hist>> /\ ses[t].pc = "idle"
    BY DEF EndEdit, At
  <1> HIDE DEF f
  <1> QED BY <1>2, <1>3, StartLoopInv

\* A session keeps its place and only its flags change.
LEMMA FlagsOnlyInv ==
  ASSUME IInv, NEW t \in Telnet, NEW f \in Ttys, tty' = [tty EXCEPT ![t] = f], FlagsOf(ses[t], f),
         UNCHANGED <<inbox, content, snd, ses, used, hist>>
  PROVE  IInv'
  <1>1. Structure /\ TypeOK /\ Counted /\ EachOnce /\ AckWithin
    BY DEF IInv, Structure
  <1>2. tty' \in [Telnet -> Ttys] /\ tty'[t] = f /\ \A r \in Telnet \ {t} : tty'[r] = tty[r]
    BY <1>1, TypesNamed
  <1>3. TypeOK'
    BY <1>1, <1>2, TypesNamed, TypesNamedNext
  <1>4. Counted' /\ EachOnce' /\ AckWithin'
    BY <1>1 DEF Counted, Clearers, EachOnce, Sending, AckWithin, Writing, At
  <1>5. Structure'
    BY <1>1, <1>3, <1>4 DEF Structure
  <1>6. Texts' /\ AllFresh' /\ AllCovered' /\ InTurn'
    BY DEF IInv, Texts, TextAt, AllFresh, Fresh, Unread, AllCovered, Covered, Holds, Writing, InTurn, At
  <1>7. Flags'
    BY <1>2 DEF IInv, Flags
  <1> QED BY <1>5, <1>6, <1>7 DEF IInv

LEMMA HandleSignalInv ==
  ASSUME IInv, NEW t \in Telnet, HandleSignal(t)
  PROVE  IInv'
  <1>1. TypeOK /\ FlagsOf(ses[t], tty[t]) /\ ses[t].pc \in {"idle", "browse"} /\ tty[t] \in Ttys
    BY TypesNamed DEF IInv, Structure, Flags, HandleSignal
  <1>2. CASE tty[t].blocked
    <2> DEFINE f == [tty[t] EXCEPT !.have = TRUE, !.pending = FALSE]
    <2>1. f \in Ttys /\ f.have /\ f.blocked = tty[t].blocked /\ f.old = tty[t].old
          /\ f.editing = tty[t].editing /\ f.stuck = tty[t].stuck
      BY <1>1 DEF Ttys
    <2>2. tty' = [tty EXCEPT ![t] = f] /\ UNCHANGED <<inbox, content, snd, ses, used, hist>>
      BY <1>1, <1>2, TypesNamed DEF HandleSignal, Ttys
    <2> HIDE DEF f
    <2>3. FlagsOf(ses[t], f)
      BY <1>1, <1>2, <2>1, Zenon DEF FlagsOf
    <2> QED BY <2>1, <2>2, <2>3, FlagsOnlyInv
  <1>3. CASE ~tty[t].blocked
    <2> DEFINE f == [tty[t] EXCEPT !.masked = TRUE, !.old = FALSE]
    <2>1. f \in Ttys /\ ~f.old
      BY <1>1 DEF Ttys
    <2>2. StartLoop(t, f) /\ UNCHANGED <<inbox, content, snd, used, hist>>
      BY <1>3 DEF HandleSignal
    <2> HIDE DEF f
    <2> QED BY <1>1, <2>1, <2>2, StartLoopInv
  <1> QED BY <1>2, <1>3

LEMMA BeginEditInv ==
  ASSUME IInv, NEW t \in Telnet, BeginEdit(t)
  PROVE  IInv'
  <1> DEFINE f == [tty[t] EXCEPT !.blocked = TRUE, !.editing = TRUE]
  <1>1. TypeOK /\ FlagsOf(ses[t], tty[t]) /\ ses[t].pc = "idle" /\ tty[t] \in Ttys
    BY TypesNamed DEF IInv, Structure, Flags, BeginEdit, At
  <1>2. f \in Ttys /\ f.blocked /\ f.editing
    BY <1>1 DEF Ttys
  <1>3. tty' = [tty EXCEPT ![t] = f] /\ UNCHANGED <<inbox, content, snd, ses, used, hist>>
    BY <1>1, TypesNamed DEF BeginEdit, Ttys
  <1> HIDE DEF f
  <1>4. FlagsOf(ses[t], f)
    <2>1. ses[t].pc \notin {"browse"} \cup Looping
      BY <1>1 DEF Looping
    <2> QED BY <1>2, <2>1, Zenon DEF FlagsOf
  <1> QED BY <1>2, <1>3, <1>4, FlagsOnlyInv

LEMMA CtrlZInv ==
  ASSUME IInv, NEW t \in Telnet, CtrlZ(t)
  PROVE  IInv'
  <1>1. TypeOK /\ FlagsOf(ses[t], tty[t]) /\ ses[t].pc = "idle" /\ tty[t] \in Ttys /\ t \in Sessions
    BY TypesNamed, Sites DEF IInv, Structure, Flags, CtrlZ, At
  <1>2. CASE tty[t].have
    <2> DEFINE f == [FromMain(t) EXCEPT !.old = tty[t].blocked]
    <2>1. f \in Ttys
      BY <1>1, FromMainType DEF Ttys
    <2>2. f.old = tty[t].blocked /\ f.editing = tty[t].editing /\ f.stuck = tty[t].stuck
      BY <1>1 DEF FromMain, Ttys
    <2>3. StartLoop(t, f) /\ UNCHANGED <<inbox, content, snd, used, hist>>
      BY <1>2 DEF CtrlZ
    <2> HIDE DEF f
    <2>4. ses[t].pc \in Shut
      BY <1>1 DEF Shut
    <2>5. f.old => f.editing \/ f.stuck
      BY <1>1, <2>2, <2>4, Zenon DEF FlagsOf
    <2> QED BY <1>1, <2>1, <2>3, <2>5, StartLoopInv
  <1>3. CASE ~tty[t].have
    <2> DEFINE pc == IF inbox.state = "none" THEN "idle" ELSE "browse"
               x == [ses[t] EXCEPT !.pc = pc]
               f == [tty[t] EXCEPT !.blocked = TRUE, !.stuck = inbox.state = "none"]
    <2>1. f \in Ttys /\ f.blocked /\ (inbox.state = "none" => f.stuck) /\ f.old = tty[t].old
      BY <1>1 DEF Ttys
    <2>2. x \in Jobs /\ x.pc = pc /\ x.goal = ses[t].goal
      BY <1>1, TypesNamed DEF Jobs, SessionSteps
    <2>3. ses' = [ses EXCEPT ![t] = x] /\ tty' = [tty EXCEPT ![t] = f]
          /\ UNCHANGED <<inbox, content, snd, used, hist>>
      BY <1>1, <1>3, TypesNamed DEF CtrlZ, Goto, Jobs, Ttys
    <2>4. pc \in {"idle", "browse"} /\ (pc = "idle" => inbox.state = "none")
      OBVIOUS
    <2> HIDE DEF x, f, pc
    <2>5. tty' \in [Telnet -> Ttys] /\ tty'[t] = f /\ \A r \in Telnet \ {t} : tty'[r] = tty[r]
      BY <1>1, <2>1, <2>3, TypesNamed
    <2>6. used' \in Counts /\ hist' \in Histories
      BY <1>1, <2>3, TypesNamed
    <2>7. Wired(t, ses[t])
      BY <1>1 DEF IInv, Structure
    <2>8. Wired(t, x)
      BY <1>1, <2>2, <2>4, <2>7 DEF Wired
    <2>9. Quiet(t, x)
      BY <1>1, <2>2, <2>3, <2>4 DEF Quiet
    <2>10. Sure /\ Sure'
      BY <1>1, <2>2, <2>5, <2>6, <2>8, <2>9, QuietInv DEF IInv, Sure
    <2>11. ses'[t] = x /\ \A r \in Sessions \ {t} : ses'[r] = ses[r]
      BY <1>1, <2>2, <2>3, Moved
    <2>12. FlagsOf(x, f)
      <3>1. x.pc \notin Looping /\ (x.pc \in Shut => inbox.state = "none")
        BY <2>2, <2>4 DEF Looping, Shut
      <3> QED BY <2>1, <3>1, Zenon DEF FlagsOf
    <2>13. Flags'
      BY <2>5, <2>11, <2>12, Sites DEF IInv, Flags
    <2> QED BY <2>10, <2>13 DEF IInv, Sure
  <1> QED BY <1>2, <1>3

LEMMA DoneInv ==
  ASSUME IInv, NEW t \in Telnet, Done(t)
  PROVE  IInv'
  <1> DEFINE f == [tty[t] EXCEPT !.handler = "r_msg", !.have = FALSE, !.blocked = tty[t].old,
                                 !.masked = FALSE]
  <1>1. TypeOK /\ FlagsOf(ses[t], tty[t]) /\ ses[t].pc = "done" /\ tty[t] \in Ttys /\ t \in Sessions
        /\ Wired(t, ses[t])
    BY TypesNamed, Sites DEF IInv, Structure, Flags, Done, At
  <1>2. f \in Ttys /\ ~f.have /\ f.blocked = tty[t].old /\ f.editing = tty[t].editing
        /\ f.stuck = tty[t].stuck
    BY <1>1 DEF Ttys
  <1>3. Rest \in Jobs /\ Rest.pc = "idle" /\ Rest.goal = "none"
    BY Fixed
  <1>4. ses' = [ses EXCEPT ![t] = Rest] /\ tty' = [tty EXCEPT ![t] = f]
        /\ UNCHANGED <<inbox, content, snd, used, hist>>
    BY <1>1, TypesNamed DEF Done, Ttys
  <1> HIDE DEF f
  <1>5. tty' \in [Telnet -> Ttys] /\ tty'[t] = f /\ \A r \in Telnet \ {t} : tty'[r] = tty[r]
    BY <1>1, <1>2, <1>4, TypesNamed
  <1>6. used' \in Counts /\ hist' \in Histories
    BY <1>1, <1>4, TypesNamed
  <1>7. Wired(t, Rest)
    BY <1>3 DEF Wired
  <1>8. Quiet(t, Rest)
    BY <1>1, <1>3, <1>4 DEF Quiet
  <1>9. Sure'
    BY <1>1, <1>3, <1>5, <1>6, <1>7, <1>8, QuietInv DEF IInv, Sure
  <1>10. ses'[t] = Rest /\ \A r \in Sessions \ {t} : ses'[r] = ses[r]
    BY <1>1, <1>3, <1>4, Moved
  <1>11. FlagsOf(Rest, f)
    <2>1. ses[t].pc \in Looping /\ ses[t].goal = "r_msg" /\ Rest.pc \notin {"browse"} \cup Looping
      BY <1>1, <1>3 DEF Looping, Wired
    <2> QED BY <1>1, <1>2, <2>1, Zenon DEF FlagsOf
  <1>12. Flags'
    BY <1>5, <1>10, <1>11, Sites DEF IInv, Flags
  <1> QED BY <1>9, <1>12 DEF IInv, Sure

LEMMA SelfSame == \A f : SameFlags(f, f)
  BY DEF SameFlags

\* A quiet step that leaves the flags alone.
LEMMA QuietSame ==
  ASSUME IInv, NEW s \in Sessions, NEW x \in Jobs, Wired(s, x), Quiet(s, x), tty' = tty,
         used' \in Counts, hist' \in Histories, s \in Telnet => SamePlace(ses[s], x)
  PROVE  IInv'
  <1>1. TypeOK /\ Sure /\ Flags /\ tty' \in [Telnet -> Ttys]
    BY TypesNamed DEF IInv, Sure, Structure
  <1>2. Sure'
    BY <1>1, QuietInv
  <1>3. \A t \in Telnet : SameFlags(tty[t], tty'[t])
    BY SelfSame
  <1>4. Flags'
    BY <1>1, <1>3, FlagsStay DEF Quiet
  <1> QED BY <1>2, <1>4 DEF IInv, Sure

LEMMA CountInv ==
  ASSUME IInv, NEW t \in Telnet, Count(t)
  PROVE  IInv'
  <1> DEFINE pc == IF Unread = 0 THEN "done" ELSE "read"
             x == [ses[t] EXCEPT !.pc = pc]
  <1>1. TypeOK /\ t \in Sessions /\ ses[t].pc = "count" /\ Wired(t, ses[t])
    BY Sites DEF IInv, Structure, Count, At
  <1>2. x \in Jobs /\ x.pc = pc /\ x.goal = ses[t].goal /\ pc \in {"done", "read"}
        /\ (pc = "read" => Unread # 0)
    BY <1>1, TypesNamed DEF Jobs, SessionSteps
  <1>3. ses' = [ses EXCEPT ![t] = x] /\ hist' = [hist EXCEPT !.raced = @ \ {t}]
        /\ UNCHANGED <<inbox, content, snd, tty, used>>
    BY <1>1, TypesNamed DEF Count, Goto, Jobs
  <1> HIDE DEF x, pc
  <1>4. hist' \in Histories /\ hist'.raced = hist.raced \ {t}
        /\ hist'.taken = hist.taken /\ hist'.twice = hist.twice /\ hist'.overlap = hist.overlap
        /\ hist'.seen = hist.seen /\ hist'.torn = hist.torn
    BY <1>1, <1>3, TypesNamed DEF Histories
  <1>5. ses[t].goal = "r_msg"
    BY <1>1 DEF Wired
  <1>6. Wired(t, x)
    BY <1>2, <1>5 DEF Wired
  <1>7. Quiet(t, x)
    BY <1>1, <1>2, <1>3, <1>4 DEF Quiet
  <1>8. SamePlace(ses[t], x)
    BY <1>1, <1>2, <1>5 DEF SamePlace, Shut, Looping
  <1>9. used' \in Counts
    BY <1>1, <1>3, TypesNamed
  <1> QED BY <1>1, <1>2, <1>3, <1>4, <1>6, <1>7, <1>8, <1>9, QuietSame

LEMMA LoginInv ==
  ASSUME IInv, NEW s \in Sessions, Login(s)
  PROVE  IInv'
  <1> DEFINE x == [ses[s] EXCEPT !.pc = "read", !.goal = "login"]
  <1>1. TypeOK /\ ses[s].pc = "off"
    BY DEF IInv, Structure, Login, At
  <1>2. x \in Jobs /\ x.pc = "read" /\ x.goal = "login"
    BY <1>1, TypesNamed DEF Jobs, SessionSteps, Goals
  <1>3. ses' = [ses EXCEPT ![s] = x] /\ UNCHANGED <<inbox, content, snd, tty, hist>>
    BY <1>1, TypesNamed DEF Login, Jobs
  <1> HIDE DEF x
  <1>4. used' \in Counts /\ used'.msgs = used.msgs /\ used'.clears = used.clears
    <2>1. used \in Counts /\ used.logins < MaxLogins /\ used' = [used EXCEPT !.logins = @ + 1]
      BY <1>1, TypesNamed DEF Login
    <2>2. used.logins + 1 \in 0 .. MaxLogins
      BY <2>1, BoundsNat DEF Counts
    <2> QED BY <2>1, <2>2 DEF Counts
  <1>5. hist' \in Histories
    BY <1>1, <1>3, TypesNamed
  <1>6. Wired(s, x)
    BY <1>2 DEF Wired
  <1>7. Quiet(s, x)
    BY <1>1, <1>2, <1>3, <1>4 DEF Quiet
  <1>8. SamePlace(ses[s], x)
    BY <1>2 DEF SamePlace, Shut, Looping
  <1> QED BY <1>1, <1>2, <1>3, <1>4, <1>5, <1>6, <1>7, <1>8, QuietSame

LEMMA GetMsgInv ==
  ASSUME IInv, NEW w \in Web, GetMsg(w)
  PROVE  IInv'
  <1> DEFINE x == [ses[w] EXCEPT !.pc = "read", !.goal = "bbsgetmsg", !.cur = Garbage]
  <1>1. TypeOK /\ ses[w].pc = "idle" /\ w \in Sessions /\ w \notin Telnet
    BY Sites DEF IInv, Structure, GetMsg, At
  <1>2. x \in Jobs /\ x.pc = "read" /\ x.goal = "bbsgetmsg"
    BY <1>1, TypesNamed, Fixed DEF Jobs, SessionSteps, Goals
  <1>3. ses' = [ses EXCEPT ![w] = x] /\ hist' = [hist EXCEPT !.raced = @ \ {w}]
        /\ UNCHANGED <<inbox, content, snd, tty, used>>
    BY <1>1, TypesNamed DEF GetMsg, Jobs
  <1> HIDE DEF x
  <1>4. hist' \in Histories /\ hist'.raced = hist.raced \ {w}
        /\ hist'.taken = hist.taken /\ hist'.twice = hist.twice /\ hist'.overlap = hist.overlap
        /\ hist'.seen = hist.seen /\ hist'.torn = hist.torn
    BY <1>1, <1>3, TypesNamed DEF Histories
  <1>5. used' \in Counts
    BY <1>1, <1>3, TypesNamed
  <1>6. Wired(w, x)
    BY <1>1, <1>2 DEF Wired
  <1>7. Quiet(w, x)
    BY <1>1, <1>2, <1>3, <1>4 DEF Quiet
  <1> QED BY <1>1, <1>2, <1>3, <1>4, <1>5, <1>6, <1>7, QuietSame

-----------------------------------------------------------------------------
(* Steps of a sender                                                       *)

\* What the sessions' invariants read of the history is as it was, but for
\* messages newly torn.
SameHist ==
  /\ hist'.taken = hist.taken /\ hist'.twice = hist.twice /\ hist'.overlap = hist.overlap
  /\ hist'.seen = hist.seen /\ hist'.raced = hist.raced

LEMMA SenderTypes ==
  ASSUME TypeOK, NEW p \in Senders, NEW x \in Sends, snd' = [snd EXCEPT ![p] = x]
  PROVE  snd' \in [Senders -> Sends] /\ snd'[p] = x /\ \A q \in Senders \ {p} : snd'[q] = snd[q]
  BY TypesNamed

\* A sender is done, or dies.
LEMMA SenderStops ==
  ASSUME IInv, NEW p \in Senders, snd' = [snd EXCEPT ![p] = NoSend],
         UNCHANGED <<inbox, content, ses, used>>,
         tty' \in [Telnet -> Ttys], \A t \in Telnet : SameFlags(tty[t], tty'[t]),
         hist' \in Histories, SameHist, hist'.torn = hist.torn
  PROVE  IInv'
  <1>1. Structure /\ TypeOK /\ Counted /\ EachOnce /\ AckWithin
    BY DEF IInv, Structure
  <1>2. NoSend \in Sends /\ NoSend.pc = "idle"
    BY Fixed
  <1>3. snd' \in [Senders -> Sends] /\ snd'[p] = NoSend /\ \A q \in Senders \ {p} : snd'[q] = snd[q]
    BY <1>1, <1>2, SenderTypes
  <1>4. \A q \in Senders : snd'[q].pc # "idle" => q # p /\ snd'[q] = snd[q]
    BY <1>2, <1>3
  <1>5. TypeOK'
    BY <1>1, <1>3, TypesNamed, TypesNamedNext
  <1>6. \A q \in Senders : Loaded(snd[q], used.msgs)'
    BY <1>1, <1>4 DEF Structure, Loaded
  <1>7. EachOnce'
    <2>1. Sending' \subseteq Sending
      BY <1>4 DEF Sending
    <2> QED BY <1>1, <1>4, <2>1 DEF EachOnce
  <1>8. Counted' /\ AckWithin'
    BY <1>1 DEF Counted, Clearers, AckWithin, Writing, At
  <1>9. \A s \in Sessions : Wired(s, ses[s])'
    BY <1>1 DEF Structure
  <1>10. Structure'
    BY <1>5, <1>6, <1>7, <1>8, <1>9 DEF Structure
  <1>11. Texts'
    <2>1. \A q \in Senders : snd'[q].pc = "post" => snd[q].pc = "post" /\ snd'[q] = snd[q]
      BY <1>4
    <2> QED BY <2>1 DEF IInv, Texts, TextAt, At
  <1>12. AllFresh' /\ AllCovered' /\ InTurn'
    BY DEF IInv, SameHist, AllFresh, Fresh, Unread, AllCovered, Covered, Holds, Writing, InTurn, At
  <1>13. Flags'
    BY SameFlagsOf DEF IInv, Flags
  <1> QED BY <1>10, <1>11, <1>12, <1>13 DEF IInv

LEMMA SenderDiesInv ==
  ASSUME IInv, NEW p \in Senders, SenderDies(p)
  PROVE  IInv'
  <1>1. tty' \in [Telnet -> Ttys] /\ hist' \in Histories
    BY TypesNamed DEF SenderDies, IInv, Structure
  <1>2. \A t \in Telnet : SameFlags(tty[t], tty'[t])
    BY SelfSame DEF SenderDies
  <1> QED BY <1>1, <1>2, SenderStops DEF SenderDies, SameHist

LEMMA KillInv ==
  ASSUME IInv, NEW p \in Senders, Kill(p)
  PROVE  IInv'
  <1> DEFINE t == snd[p].to
             f == [tty[t] EXCEPT !.pending =
                     @ \/ (Online(t) /\ ~(tty[t].handler = "ignore" /\ ~tty[t].masked))]
             new == (({snd[p].msg} \cap Waiting) \X
                      {r \in {t} : Online(t) /\ ~(tty[t].handler = "ignore" /\ ~tty[t].masked /\ At(t, "done"))})
  <1>1. TypeOK /\ snd[p].pc = "notify" /\ Loaded(snd[p], used.msgs)
    BY DEF IInv, Structure, Kill
  <1>2. t \in Telnet /\ tty[t] \in Ttys
    BY <1>1, TypesNamed DEF Loaded
  <1>3. f \in Ttys /\ SameFlags(tty[t], f)
    BY <1>2 DEF Ttys, SameFlags
  <1>4. tty' = [tty EXCEPT ![t] = f]
    BY <1>2, <1>1, TypesNamed DEF Kill, Ttys
  <1>5. snd' = [snd EXCEPT ![p] = NoSend] /\ UNCHANGED <<inbox, content, ses, used>>
        /\ hist' = [hist EXCEPT !.told = @ \cup new]
    BY DEF Kill
  <1>6. new \subseteq Msgs \X Telnet
    <2>1. \A m \in Waiting : m \in Msgs
      BY <1>1, InboxType DEF Waiting
    <2> QED BY <1>2, <2>1
  <1> HIDE DEF f, new, t
  <1>7. tty' \in [Telnet -> Ttys] /\ \A u \in Telnet : SameFlags(tty[u], tty'[u])
    <2>1. tty' \in [Telnet -> Ttys] /\ tty'[t] = f /\ \A r \in Telnet \ {t} : tty'[r] = tty[r]
      BY <1>1, <1>2, <1>3, <1>4, TypesNamed
    <2> QED BY <1>3, <2>1, SelfSame
  <1>8. hist' \in Histories /\ SameHist /\ hist'.torn = hist.torn
    BY <1>1, <1>5, <1>6, TypesNamed DEF Histories, SameHist
  <1> QED BY <1>5, <1>7, <1>8, SenderStops

\* What TextAt finds stays where it is when texts are added.
LEMMA TextsGrow ==
  ASSUME content \in Seq(Msgs), NEW m \in Msgs, content' = Append(content, m),
         NEW h, h.pos \in Nat, TextAt(h) # 0
  PROVE  (IF h.pos < Len(content') THEN content'[h.pos + 1] ELSE 0) = TextAt(h)
  <1>1. Len(content) \in Nat /\ Len(content') = Len(content) + 1
        /\ \A i \in 1 .. Len(content) : content'[i] = content[i]
    BY AppendProperties, LenProperties
  <1>2. h.pos < Len(content)
    BY <1>1 DEF TextAt
  <1> QED BY <1>1, <1>2 DEF TextAt

LEMMA SendInv ==
  ASSUME IInv, NEW p \in Senders, NEW mode, NEW to \in Telnet \cup {NoSession}, Send(p, mode, to)
  PROVE  IInv'
  <1> DEFINE m == used.msgs + 1
             x == [pc |-> "post", msg |-> m, pos |-> Len(content), to |-> to]
  <1>1. TypeOK /\ Structure /\ Counted /\ EachOnce /\ AckWithin /\ used \in Counts
    BY TypesNamed DEF IInv, Structure
  <1>2. used.msgs < MaxMsgs /\ snd[p].pc = "idle" /\ snd' = [snd EXCEPT ![p] = x]
        /\ content' = Append(content, m) /\ UNCHANGED <<inbox, ses, tty, hist>>
        /\ used' = [used EXCEPT !.msgs = @ + 1]
    BY DEF Send, AddText, TextEnd
  <1>3. m \in Msgs /\ m \in 0 .. MaxMsgs /\ m \in 1 .. m /\ m - 1 = used.msgs /\ m > used.msgs /\ m # 0
    BY <1>1, <1>2, InboxType, BoundsNat DEF Msgs
  <1>4. content \in Seq(Msgs) /\ content' \in Seq(Msgs) /\ Len(content) \in Nat
        /\ Len(content') = Len(content) + 1 /\ content'[Len(content) + 1] = m
        /\ Len(content) < Len(content')
    BY <1>1, <1>2, <1>3, AppendProperties, LenProperties, TypesNamed
  <1>5. x \in Sends /\ x.pc = "post" /\ x.msg = m /\ x.pos = Len(content)
    BY <1>3, <1>4 DEF Sends, SendSteps
  <1>6. used' \in Counts /\ used'.msgs = m /\ used'.clears = used.clears
    BY <1>1, <1>2, <1>3 DEF Counts
  <1> HIDE DEF x, m
  <1>7. snd' \in [Senders -> Sends] /\ snd'[p] = x /\ \A q \in Senders \ {p} : snd'[q] = snd[q]
    BY <1>1, <1>2, <1>5, SenderTypes
  <1>8. TypeOK'
    BY <1>1, <1>2, <1>4, <1>6, <1>7, TypesNamed, TypesNamedNext
  <1>9. \A q \in Senders : snd[q].pc # "idle" => q # p /\ snd[q].msg \in 1 .. used.msgs
    BY <1>1, <1>2 DEF Structure, Loaded
  <1>10. \A q \in Senders : Loaded(snd[q], used.msgs)'
    <2> SUFFICES ASSUME NEW q \in Senders PROVE Loaded(snd'[q], used'.msgs)
      OBVIOUS
    <2>1. CASE q = p
      BY <1>3, <1>5, <1>6, <1>7, <2>1 DEF Loaded
    <2>2. CASE q # p
      <3>1. Loaded(snd[q], used.msgs) /\ snd'[q] = snd[q]
        BY <1>1, <1>7, <2>2 DEF Structure
      <3>2. \A k \in 1 .. used.msgs : k \in 1 .. m
        BY <1>1, <1>3, InboxType
      <3> QED BY <1>6, <3>1, <3>2 DEF Loaded
    <2> QED BY <2>1, <2>2
  <1>11. EachOnce'
    <2>1. Sending' \subseteq Sending \cup {m}
      BY <1>5, <1>7 DEF Sending
    <2>2. \A i \in DOMAIN inbox.heads : inbox.heads[i].msg <= used.msgs /\ inbox.heads[i].msg \in Msgs
      BY <1>1, InboxType DEF EachOnce
    <2>3. \A i \in DOMAIN inbox.heads : inbox.heads[i].msg < m
      BY <1>1, <1>3, <2>2, InboxType, BoundsNat DEF Msgs
    <2>4. \A i \in DOMAIN inbox.heads : inbox.heads[i].msg <= m /\ inbox.heads[i].msg # m
      BY <2>2, <2>3, <1>3, BoundsNat DEF Msgs
    <2>5. \A q \in Senders : snd[q].pc = "post" => snd[q].msg # m
      BY <1>3, <1>9, <1>1, InboxType
    <2>6. \A q, r \in Senders :
            snd'[q].pc = "post" /\ snd'[r].pc = "post" /\ snd'[q].msg = snd'[r].msg => q = r
      <3> SUFFICES ASSUME NEW q \in Senders, NEW r \in Senders, snd'[q].pc = "post",
                          snd'[r].pc = "post", snd'[q].msg = snd'[r].msg, q # r
                   PROVE  FALSE
        OBVIOUS
      <3>1. CASE q = p
        BY <1>5, <1>7, <2>5, <3>1
      <3>2. CASE r = p
        BY <1>5, <1>7, <2>5, <3>2
      <3>3. CASE q # p /\ r # p
        BY <1>1, <1>7, <3>3 DEF EachOnce
      <3> QED BY <3>1, <3>2, <3>3
    <2> QED BY <1>1, <1>2, <1>6, <2>1, <2>4, <2>6 DEF EachOnce
  <1>12. Counted' /\ AckWithin'
    BY <1>1, <1>2, <1>6 DEF Counted, Clearers, AckWithin, Writing, At
  <1>13. Structure'
    BY <1>1, <1>2, <1>8, <1>10, <1>11, <1>12 DEF Structure
  <1>14. Texts'
    <2>1. \A h : h.pos \in Nat /\ TextAt(h) # 0 =>
            (IF h.pos < Len(content') THEN content'[h.pos + 1] ELSE 0) = TextAt(h)
      BY <1>2, <1>3, <1>4, TextsGrow
    <2>2. \A i \in DOMAIN inbox.heads :
            inbox.heads[i].msg \in hist.torn \/
            (IF inbox.heads[i].pos < Len(content') THEN content'[inbox.heads[i].pos + 1] ELSE 0)
              = inbox.heads[i].msg
      BY <1>1, <2>1, InboxType DEF IInv, Texts
    <2>3. ASSUME NEW q \in Senders, snd'[q].pc = "post"
          PROVE  snd'[q].msg \in hist.torn \/
                 (IF snd'[q].pos < Len(content') THEN content'[snd'[q].pos + 1] ELSE 0) = snd'[q].msg
      <3>1. CASE q = p
        BY <1>4, <1>5, <1>7, <3>1
      <3>2. CASE q # p
        <4>1. snd'[q] = snd[q] /\ snd[q] \in Sends /\ snd[q].pc = "post"
          BY <1>1, <1>7, <2>3, <3>2, TypesNamed
        <4>2. snd[q].pos \in Nat
          BY <4>1 DEF Sends
        <4>3. snd[q].msg # 0
          BY <1>1, <1>9, <4>1, InboxType
        <4> QED BY <2>1, <2>3, <4>1, <4>2, <4>3 DEF IInv, Texts
      <3> QED BY <3>1, <3>2
    <2> QED BY <1>2, <2>2, <2>3 DEF IInv, Texts, TextAt, At
  <1>15. AllFresh' /\ AllCovered' /\ InTurn' /\ Flags'
    BY <1>2 DEF IInv, AllFresh, Fresh, Unread, AllCovered, Covered, Holds, Writing, InTurn, Flags, At
  <1> QED BY <1>13, <1>14, <1>15 DEF IInv

\* What a message more does to the list.
LEMMA Appending ==
  ASSUME TypeOK, NEW h \in Heads, inbox' = Appended(inbox, h)
  PROVE  /\ inbox' \in Files /\ inbox'.gen = inbox.gen /\ inbox'.ack = inbox.ack
         /\ Len(inbox'.heads) = Len(inbox.heads) + 1
         /\ DOMAIN inbox'.heads = DOMAIN inbox.heads \cup {Len(inbox.heads) + 1}
         /\ \A i \in DOMAIN inbox.heads : inbox'.heads[i] = inbox.heads[i]
         /\ inbox'.heads[Len(inbox.heads) + 1] = h
  <1>1. inbox \in Files /\ inbox.heads \in Seq(Heads) /\ Len(inbox.heads) \in Nat
        /\ DOMAIN inbox.heads = 1 .. Len(inbox.heads)
    BY InboxType, TypesNamed
  <1>2. inbox'.heads = Append(inbox.heads, h) /\ inbox'.gen = inbox.gen /\ inbox'.ack = inbox.ack
    BY <1>1 DEF Appended, Files
  <1>3. Append(inbox.heads, h) \in Seq(Heads)
    BY <1>1, AppendProperties
  <1>4. inbox' \in Files
    BY <1>1, <1>3 DEF Appended, Files
  <1>5. Len(Append(inbox.heads, h)) = Len(inbox.heads) + 1
        /\ \A i \in 1 .. Len(inbox.heads) : Append(inbox.heads, h)[i] = inbox.heads[i]
        /\ Append(inbox.heads, h)[Len(inbox.heads) + 1] = h
    BY <1>1, AppendProperties
  <1>6. DOMAIN inbox'.heads = 1 .. Len(inbox.heads) + 1
    BY <1>2, <1>3, <1>5, LenProperties
  <1>7. 1 .. Len(inbox.heads) + 1 = 1 .. Len(inbox.heads) \cup {Len(inbox.heads) + 1}
    BY <1>1
  <1> QED BY <1>1, <1>2, <1>4, <1>5, <1>6, <1>7

LEMMA PostInv ==
  ASSUME IInv, NEW p \in Senders, Post(p)
  PROVE  IInv'
  <1> DEFINE h == [msg |-> snd[p].msg, pos |-> snd[p].pos]
             x == IF snd[p].to = NoSession THEN NoSend ELSE [snd[p] EXCEPT !.pc = "notify"]
             n == Len(inbox.heads)
             torn == IF Clearing THEN hist.torn \cup {snd[p].msg} ELSE hist.torn
  <1>1. TypeOK /\ Structure /\ Counted /\ EachOnce /\ AckWithin /\ Texts
    BY DEF IInv, Structure
  <1>2. snd[p] \in Sends /\ snd[p].pc = "post" /\ snd[p].msg \in 1 .. used.msgs
    BY <1>1, TypesNamed DEF Post, Structure, Loaded
  <1>3. snd[p].msg \in Msgs
    BY <1>2, <1>1, InboxType, BoundsNat DEF Msgs
  <1>4. h \in Heads /\ h.msg = snd[p].msg /\ h.pos = snd[p].pos
    BY <1>2, <1>3 DEF Heads, Sends
  <1>5. inbox' = Appended(inbox, h) /\ snd' = [snd EXCEPT ![p] = x]
        /\ hist' = [hist EXCEPT !.torn = torn] /\ UNCHANGED <<content, ses, tty, used>>
    <2>1. [snd EXCEPT ![p] = IF @.to = NoSession THEN NoSend ELSE [@ EXCEPT !.pc = "notify"]]
            = [snd EXCEPT ![p] = x]
      BY <1>1, TypesNamed
    <2>2. [hist EXCEPT !.torn = IF Clearing THEN @ \cup {snd[p].msg} ELSE @]
            = [hist EXCEPT !.torn = torn]
      BY <1>1, TypesNamed DEF Histories
    <2> QED BY <2>1, <2>2 DEF Post
  <1>6. x \in Sends /\ x.pc # "post" /\ (x.pc # "idle" => x.msg = snd[p].msg /\ x.to \in Telnet)
    <2>1. snd[p].to \in Telnet \cup {NoSession}
      BY <1>2 DEF Sends
    <2> QED BY <1>2, <2>1, Fixed DEF Sends, SendSteps
  <1>7. hist' \in Histories /\ SameHist /\ hist'.torn = torn
    BY <1>1, <1>3, <1>5, TypesNamed DEF Histories, SameHist
  <1>8. torn = hist.torn \/ torn = hist.torn \cup {snd[p].msg}
    OBVIOUS
  <1>9. hist.torn \subseteq torn /\ (Clearing => snd[p].msg \in torn)
    OBVIOUS
  <1> HIDE DEF h, x, torn
  <1>10. snd' \in [Senders -> Sends] /\ snd'[p] = x /\ \A q \in Senders \ {p} : snd'[q] = snd[q]
    BY <1>1, <1>5, <1>6, SenderTypes
  <1>11. /\ inbox' \in Files /\ inbox'.gen = inbox.gen /\ inbox'.ack = inbox.ack
         /\ Len(inbox'.heads) = n + 1 /\ DOMAIN inbox'.heads = DOMAIN inbox.heads \cup {n + 1}
         /\ \A i \in DOMAIN inbox.heads : inbox'.heads[i] = inbox.heads[i]
         /\ inbox'.heads[n + 1] = h
    BY <1>1, <1>4, <1>5, Appending
  <1>12. n \in Nat /\ DOMAIN inbox.heads = 1 .. n /\ inbox.ack \in Nat /\ inbox.ack <= n
    BY <1>1, InboxType DEF AckWithin
  <1>13. TypeOK'
    BY <1>1, <1>5, <1>7, <1>10, <1>11, TypesNamed, TypesNamedNext
  <1>14. \A q \in Senders : snd'[q].pc = "post" => q # p /\ snd'[q] = snd[q]
    BY <1>6, <1>10
  <1>15. \A q \in Senders : Loaded(snd[q], used.msgs)'
    BY <1>1, <1>2, <1>5, <1>6, <1>10 DEF Structure, Loaded
  <1>16. EachOnce'
    <2>1. snd[p].msg \in Sending
      BY <1>2 DEF Sending
    <2>2. \A i \in DOMAIN inbox.heads : inbox.heads[i].msg # snd[p].msg
      BY <1>1, <2>1 DEF EachOnce
    <2>3. Sending' \subseteq Sending \ {snd[p].msg}
      BY <1>1, <1>2, <1>14 DEF Sending, EachOnce
    <2>4. \A i \in DOMAIN inbox'.heads : inbox'.heads[i].msg <= used.msgs
      BY <1>1, <1>2, <1>4, <1>11, InboxType DEF EachOnce
    <2>5. \A i \in DOMAIN inbox'.heads : inbox'.heads[i].msg \notin Sending'
      BY <1>1, <1>4, <1>11, <2>3 DEF EachOnce
    <2>6. ASSUME NEW i \in DOMAIN inbox'.heads, NEW j \in DOMAIN inbox'.heads,
                 inbox'.heads[i].msg = inbox'.heads[j].msg
          PROVE  i = j
      <3>1. CASE i \in DOMAIN inbox.heads /\ j \in DOMAIN inbox.heads
        BY <1>1, <1>11, <2>6, <3>1 DEF EachOnce
      <3>2. CASE i = n + 1 \/ j = n + 1
        BY <1>4, <1>11, <2>2, <2>6, <3>2
      <3> QED BY <1>11, <3>1, <3>2
    <2>7. \A q, r \in Senders :
            snd'[q].pc = "post" /\ snd'[r].pc = "post" /\ snd'[q].msg = snd'[r].msg => q = r
      BY <1>1, <1>14 DEF EachOnce
    <2> QED BY <1>5, <2>4, <2>5, <2>6, <2>7 DEF EachOnce
  <1>17. Counted' /\ AckWithin'
    <2>1. Counted'
      BY <1>1, <1>5, <1>11 DEF Counted, Clearers, At
    <2>2. AckWithin'
      BY <1>1, <1>5, <1>11, <1>12 DEF AckWithin, Writing, At
    <2> QED BY <2>1, <2>2
  <1>18. Structure'
    BY <1>1, <1>5, <1>13, <1>15, <1>16, <1>17 DEF Structure
  <1>19. Texts'
    <2>1. TextAt(h) = TextAt(snd[p])
      BY <1>4 DEF TextAt
    <2>2. \A i \in DOMAIN inbox'.heads :
            inbox'.heads[i].msg \in torn \/ TextAt(inbox'.heads[i]) = inbox'.heads[i].msg
      BY <1>1, <1>2, <1>4, <1>9, <1>11, <2>1 DEF Texts
    <2>3. (\E s \in Sessions : At(s, "clear3")) =>
             \A i \in DOMAIN inbox'.heads : inbox'.heads[i].msg \in torn
      BY <1>1, <1>4, <1>9, <1>11 DEF Texts, Clearing, At
    <2>4. \A q \in Senders : snd'[q].pc = "post" => snd'[q].msg \in torn \/ TextAt(snd'[q]) = snd'[q].msg
      BY <1>1, <1>9, <1>14 DEF Texts
    <2> QED BY <1>5, <1>7, <2>2, <2>3, <2>4 DEF Texts, TextAt, At
  <1>20. AllFresh'
    <2>1. Unread # 0 => Unread' # 0
      BY <1>11, <1>12 DEF Unread
    <2> SUFFICES ASSUME NEW s \in Sessions, s \notin hist.raced PROVE Fresh(s)'
      BY <1>7 DEF AllFresh, SameHist
    <2>2. Fresh(s)
      BY DEF IInv, AllFresh
    <2> QED BY <1>5, <1>11, <2>1, <2>2 DEF Fresh, At
  <1>21. AllCovered'
    <2>1. ASSUME NEW i \in DOMAIN inbox.heads, Covered(i) PROVE Covered(i)'
      BY <1>5, <1>7, <1>11, <2>1 DEF Covered, Holds, At, SameHist
    <2>2. \A i \in 1 .. inbox.ack : i \in DOMAIN inbox.heads
      BY <1>12
    <2>3. \A s \in Sessions : Writing(s) => \A i \in 1 .. ses[s].idx : i \in DOMAIN inbox.heads
      <3> SUFFICES ASSUME NEW s \in Sessions, Writing(s), NEW i \in 1 .. ses[s].idx
                   PROVE  i \in DOMAIN inbox.heads
        OBVIOUS
      <3>1. ses[s].idx + 1 \in 1 .. n /\ ses[s].idx \in -1 .. MaxMsgs
        BY <1>1, <1>12 DEF AckWithin, TypeOK
      <3> QED BY <1>12, <3>1, BoundsNat
    <2> QED BY <1>5, <1>11, <2>1, <2>2, <2>3 DEF IInv, AllCovered, Writing, At
  <1>22. InTurn'
    <2>1. \A i \in 1 .. inbox.ack : inbox'.heads[i] = inbox.heads[i]
      BY <1>11, <1>12
    <2> QED BY <1>5, <1>7, <1>11, <2>1 DEF IInv, InTurn, SameHist, Writing, At
  <1>23. Flags'
    BY <1>5 DEF IInv, Flags
  <1> QED BY <1>18, <1>19, <1>20, <1>21, <1>22, <1>23 DEF IInv

-----------------------------------------------------------------------------
(* A session takes a message and shows it                                  *)

\* The numbers AllCovered is about are in the list.
LEMMA Listed ==
  ASSUME TypeOK, AckWithin
  PROVE  /\ \A i \in 1 .. inbox.ack : i \in DOMAIN inbox.heads
         /\ \A s \in Sessions : Writing(s) =>
              ses[s].idx \in Nat /\ \A i \in 1 .. ses[s].idx : i \in DOMAIN inbox.heads
  <1> DEFINE n == Len(inbox.heads)
  <1>1. n \in Nat /\ DOMAIN inbox.heads = 1 .. n /\ inbox.ack \in Nat /\ inbox.ack <= n
    BY InboxType DEF AckWithin
  <1>2. ASSUME NEW s \in Sessions, Writing(s)
        PROVE  ses[s].idx \in Nat /\ \A i \in 1 .. ses[s].idx : i \in DOMAIN inbox.heads
    <2>1. ses[s].idx + 1 \in 1 .. n /\ ses[s].idx \in -1 .. MaxMsgs
      BY <1>1, <1>2 DEF AckWithin, TypeOK
    <2> QED BY <1>1, <2>1, BoundsNat
  <1> QED BY <1>1, <1>2

\* A session moves, and none enters the first half of a clear_msg.
LEMMA StructureMoves ==
  ASSUME Structure, NEW s \in Sessions, NEW x \in Jobs, Wired(s, x), ses' = [ses EXCEPT ![s] = x],
         x.pc # "clear2", UNCHANGED <<snd, used>>, content' \in Seq(Msgs),
         inbox' \in Files, inbox'.gen = inbox.gen, inbox'.heads = inbox.heads,
         inbox'.ack <= Len(inbox.heads),
         x.pc = "write" => x.fd = inbox.gen /\ x.idx + 1 \in DOMAIN inbox.heads,
         tty' \in [Telnet -> Ttys], hist' \in Histories
  PROVE  Structure'
  <1>1. TypeOK /\ EachOnce /\ Counted /\ AckWithin
    BY DEF Structure
  <1>2. ses' \in [Sessions -> Jobs] /\ ses'[s] = x /\ \A r \in Sessions \ {s} : ses'[r] = ses[r]
    BY <1>1, Moved
  <1>3. TypeOK'
    BY <1>1, <1>2, TypesNamed, TypesNamedNext
  <1>4. EachOnce'
    BY <1>1 DEF EachOnce, Sending
  <1>5. AckWithin'
    <2>1. inbox.gen \in Nat
      BY <1>1, InboxType
    <2> QED BY <1>1, <1>2, <2>1 DEF AckWithin, Writing, At
  <1>6. Counted'
    <2>1. Clearers' \subseteq Clearers
      BY <1>2 DEF Clearers, At
    <2>2. IsFiniteSet(Clearers) /\ inbox.gen + Cardinality(Clearers) <= used.clears
      BY <1>1 DEF Counted
    <2>3. IsFiniteSet(Clearers') /\ Cardinality(Clearers') <= Cardinality(Clearers)
      BY <2>1, <2>2, FS_Subset
    <2>4. Cardinality(Clearers) \in Nat /\ Cardinality(Clearers') \in Nat
      BY <2>2, <2>3, FS_CardinalityType
    <2>5. inbox.gen \in Nat /\ used.clears \in Nat
      BY <1>1, InboxType
    <2> QED BY <2>2, <2>3, <2>4, <2>5 DEF Counted
  <1> QED BY <1>2, <1>3, <1>4, <1>5, <1>6 DEF Structure

\* It neither sends nor clears.
LEMMA TextsMoves ==
  ASSUME Texts, NEW s \in Sessions, NEW x, \A r \in Sessions \ {s} : ses'[r] = ses[r],
         ses'[s] = x, x.pc # "clear3", UNCHANGED <<snd, content>>,
         inbox'.heads = inbox.heads, hist'.torn = hist.torn
  PROVE  Texts'
  <1>1. (\E r \in Sessions : At(r, "clear3"))' => \E r \in Sessions : At(r, "clear3")
    BY DEF At
  <1> QED BY <1>1 DEF Texts, TextAt

\* The session is back where it came from, or has a message in hand.
LEMMA AfterTakeIs ==
  ASSUME TypeOK, NEW s \in Sessions, Wired(s, ses[s]), ses[s].pc \in {"read", "write"},
         NEW i \in -1 .. MaxMsgs, NEW x, x = AfterTake(s, i)
  PROVE  /\ x \in Jobs /\ Wired(s, x) /\ (s \in Telnet => SamePlace(ses[s], x))
         /\ Shown(s, i) => x.pc = "head" /\ x.idx = i /\ (i = -1 => ses[s].goal = "r_msg")
         /\ ~Shown(s, i) => x.pc \in {"enter", "idle"}
  <1>1. ses[s] \in Jobs /\ Rest \in Jobs /\ Rest.pc = "idle" /\ Rest.goal = "none" /\ 0 \in 0 .. MaxClears
    BY TypesNamed, Fixed, BoundsNat
  <1>2. CASE Shown(s, i)
    <2>1. x = [ses[s] EXCEPT !.pc = "head", !.idx = i, !.fd = 0]
      BY <1>2 DEF AfterTake
    <2>2. x \in Jobs /\ x.pc = "head" /\ x.idx = i /\ x.goal = ses[s].goal
      BY <1>1, <2>1 DEF Jobs, SessionSteps
    <2>3. ses[s].goal # "login" /\ (i = -1 => ses[s].goal = "r_msg")
      BY <1>2 DEF Shown
    <2>4. Wired(s, x)
      BY <2>2, <2>3 DEF Wired
    <2>5. SamePlace(ses[s], x)
      BY <2>2 DEF SamePlace, Shut, Looping
    <2> QED BY <1>2, <2>2, <2>3, <2>4, <2>5
  <1>3. CASE ~Shown(s, i) /\ s \in Telnet
    <2>1. x = [Rest EXCEPT !.pc = "enter"]
      BY <1>3 DEF AfterTake
    <2>2. x \in Jobs /\ x.pc = "enter" /\ x.goal = "none"
      BY <1>1, <2>1 DEF Jobs, SessionSteps
    <2>3. Wired(s, x)
      BY <1>3, <2>2 DEF Wired
    <2>4. SamePlace(ses[s], x)
      BY <2>2 DEF SamePlace, Shut, Looping
    <2> QED BY <1>3, <2>2, <2>3, <2>4
  <1>4. CASE ~Shown(s, i) /\ s \notin Telnet
    <2>1. x = Rest
      BY <1>4 DEF AfterTake
    <2>2. Wired(s, x)
      BY <1>1, <2>1 DEF Wired
    <2> QED BY <1>1, <1>4, <2>1, <2>2
  <1> QED BY <1>2, <1>3, <1>4

LEMMA TakeReadInv ==
  ASSUME IInv, NEW s \in Sessions, TakeRead(s)
  PROVE  IInv'
  <1> DEFINE w == [ses[s] EXCEPT !.pc = "write", !.idx = inbox.ack, !.fd = inbox.gen]
             x == IF Unread = 0 THEN AfterTake(s, -1) ELSE w
             over == hist.overlap \/ \E r \in Sessions : At(r, "write")
             n == Len(inbox.heads)
  <1>1. TypeOK /\ Structure /\ EachOnce /\ AckWithin /\ Wired(s, ses[s]) /\ ses[s].pc = "read"
        /\ ses[s] \in Jobs /\ inbox \in Files
    BY TypesNamed DEF IInv, Structure, TakeRead, At
  <1>2. n \in Nat /\ DOMAIN inbox.heads = 1 .. n /\ inbox.ack \in Nat /\ inbox.ack <= n
        /\ inbox.gen \in 0 .. MaxClears /\ n <= MaxMsgs
    BY <1>1, InboxType, ListBounded, BoundsNat DEF AckWithin
  <1>3. inbox' \in Files /\ inbox'.gen = inbox.gen /\ inbox'.heads = inbox.heads
        /\ inbox'.ack = inbox.ack
    BY <1>1 DEF TakeRead, Created, Files
  <1>4. -1 \in -1 .. MaxMsgs /\ inbox.ack \in -1 .. MaxMsgs
    BY <1>2, BoundsNat
  <1>5. w \in Jobs /\ w.pc = "write" /\ w.idx = inbox.ack /\ w.fd = inbox.gen /\ w.goal = ses[s].goal
    BY <1>1, <1>2, <1>4 DEF Jobs, SessionSteps
  <1>6. Wired(s, w) /\ SamePlace(ses[s], w)
    <2>1. Wired(s, w)
      BY <1>1, <1>5 DEF Wired
    <2>2. SamePlace(ses[s], w)
      BY <1>1, <1>5 DEF SamePlace, Shut, Looping
    <2> QED BY <2>1, <2>2
  <1>7. Unread = 0 => /\ x \in Jobs /\ Wired(s, x) /\ (s \in Telnet => SamePlace(ses[s], x))
                      /\ x.pc \in {"head", "enter", "idle"}
                      /\ x.pc = "head" => ses[s].goal = "r_msg"
    <2> SUFFICES ASSUME Unread = 0
                 PROVE  /\ x \in Jobs /\ Wired(s, x) /\ (s \in Telnet => SamePlace(ses[s], x))
                        /\ x.pc \in {"head", "enter", "idle"}
                        /\ x.pc = "head" => ses[s].goal = "r_msg"
      OBVIOUS
    <2>1. x = AfterTake(s, -1)
      OBVIOUS
    <2> HIDE DEF x
    <2>2. /\ x \in Jobs /\ Wired(s, x) /\ (s \in Telnet => SamePlace(ses[s], x))
          /\ Shown(s, -1) => x.pc = "head" /\ x.idx = -1 /\ (-1 = -1 => ses[s].goal = "r_msg")
          /\ ~Shown(s, -1) => x.pc \in {"enter", "idle"}
      BY <1>1, <1>4, <2>1, AfterTakeIs
    <2> QED BY <2>2
  <1>8. Unread # 0 => x = w
    OBVIOUS
  <1>9. ses' = [ses EXCEPT ![s] = x] /\ UNCHANGED <<content, snd, tty, used>>
        /\ hist' = [hist EXCEPT !.overlap = over]
    <2>1. [ses EXCEPT ![s] = IF Unread = 0 THEN AfterTake(s, -1)
               ELSE [@ EXCEPT !.pc = "write", !.idx = inbox.ack, !.fd = inbox.gen]]
            = [ses EXCEPT ![s] = x]
      BY <1>1, TypesNamed
    <2>2. [hist EXCEPT !.overlap = @ \/ \E r \in Sessions : At(r, "write")]
            = [hist EXCEPT !.overlap = over]
      BY <1>1, TypesNamed DEF Histories
    <2> QED BY <2>1, <2>2 DEF TakeRead
  <1>10. over \in BOOLEAN /\ (~over => ~hist.overlap /\ \A r \in Sessions : ~At(r, "write"))
    <2>1. hist.overlap \in BOOLEAN
      BY <1>1, TypesNamed DEF Histories
    <2> QED BY <2>1
  <1>11. Unread # 0 => inbox.ack + 1 \in DOMAIN inbox.heads
    BY <1>2 DEF Unread
  <1> HIDE DEF x, w, over
  <1>12. hist' \in Histories /\ hist'.taken = hist.taken /\ hist'.twice = hist.twice
         /\ hist'.overlap = over /\ hist'.seen = hist.seen /\ hist'.torn = hist.torn
         /\ hist'.raced = hist.raced
    BY <1>1, <1>9, <1>10, TypesNamed DEF Histories
  <1>13. x \in Jobs /\ Wired(s, x) /\ (s \in Telnet => SamePlace(ses[s], x))
         /\ x.pc \in {"write", "head", "enter", "idle"}
         /\ (x.pc = "head" => ses[s].goal = "r_msg" /\ Unread = 0)
         /\ (x.pc = "write" => x.idx = inbox.ack /\ x.fd = inbox.gen /\ Unread # 0)
    BY <1>5, <1>6, <1>7, <1>8
  <1>14. ses' \in [Sessions -> Jobs] /\ ses'[s] = x /\ \A r \in Sessions \ {s} : ses'[r] = ses[r]
    BY <1>1, <1>9, <1>13, Moved
  <1>15. content' \in Seq(Msgs) /\ tty' \in [Telnet -> Ttys]
    BY <1>1, <1>9, TypesNamed
  <1>16. Structure'
    BY <1>1, <1>2, <1>3, <1>9, <1>11, <1>12, <1>13, <1>15, StructureMoves
  <1>17. Texts'
    BY <1>3, <1>9, <1>12, <1>13, <1>14, TextsMoves DEF IInv
  <1>18. Unread' = Unread
    BY <1>3 DEF Unread
  <1>19. AllFresh'
    <2> SUFFICES ASSUME NEW r \in Sessions, r \notin hist.raced PROVE Fresh(r)'
      BY <1>12 DEF AllFresh
    <2>1. Fresh(r)
      BY DEF IInv, AllFresh
    <2>2. CASE r = s
      <3>1. x.pc # "head"
        BY <1>1, <1>13, <2>1, <2>2 DEF Fresh, At
      <3> QED BY <1>3, <1>13, <1>14, <2>2, <3>1 DEF Fresh, At
    <2>3. CASE r # s
      BY <1>3, <1>14, <1>18, <2>1, <2>3 DEF Fresh, At
    <2> QED BY <2>2, <2>3
  <1>20. \A i : Covered(i) => Covered(i)'
    <2>1. \A i : \A r \in Sessions : Holds(r, i) => Holds(r, i)'
      BY <1>1, <1>3, <1>14 DEF Holds, At
    <2> QED BY <1>3, <1>12, <2>1 DEF Covered
  <1>21. AllCovered'
    <2>1. \A i \in 1 .. inbox'.ack : Covered(i)'
      BY <1>3, <1>20 DEF IInv, AllCovered
    <2>2. ASSUME NEW r \in Sessions, Writing(r)', NEW i \in 1 .. ses'[r].idx PROVE Covered(i)'
      <3>1. CASE r = s
        BY <1>3, <1>13, <1>14, <2>1, <2>2, <3>1 DEF Writing, At
      <3>2. CASE r # s
        BY <1>3, <1>14, <1>20, <2>2, <3>2 DEF IInv, AllCovered, Writing, At
      <3> QED BY <3>1, <3>2
    <2> QED BY <2>1, <2>2 DEF AllCovered
  <1>22. InTurn'
    <2> SUFFICES ASSUME ~hist'.overlap
                 PROVE  /\ ~hist'.twice
                        /\ \A m \in hist'.taken : \E i \in 1 .. inbox'.ack : inbox'.heads[i].msg = m
                        /\ \A r \in Sessions : Writing(r)' => ses'[r].idx = inbox'.ack
                        /\ \A r, q \in Sessions : Writing(r)' /\ Writing(q)' => r = q
      BY DEF InTurn
    <2>1. ~hist.overlap /\ \A r \in Sessions : ~At(r, "write")
      BY <1>10, <1>12
    <2>2. \A r \in Sessions : Writing(r)' => r = s /\ ses'[r].idx = inbox'.ack
      BY <1>3, <1>13, <1>14, <2>1 DEF Writing, At
    <2> QED BY <1>3, <1>12, <2>1, <2>2 DEF IInv, InTurn
  <1>23. Flags'
    <2>1. \A t \in Telnet : SameFlags(tty[t], tty'[t])
      BY <1>9, SelfSame
    <2> QED BY <1>1, <1>9, <1>13, <2>1, FlagsStay DEF IInv
  <1> QED BY <1>16, <1>17, <1>19, <1>21, <1>22, <1>23 DEF IInv

LEMMA TakeWriteInv ==
  ASSUME IInv, NEW s \in Sessions, TakeWrite(s)
  PROVE  IInv'
  <1> DEFINE i == ses[s].idx
             live == ses[s].fd = inbox.gen
             took == IF live THEN {inbox.heads[i + 1].msg} ELSE {}
             x == AfterTake(s, i)
             behind == {r \in Sessions \ {s} : At(r, "read")}
             n == Len(inbox.heads)
  <1>1. TypeOK /\ Structure /\ EachOnce /\ AckWithin /\ Wired(s, ses[s]) /\ ses[s].pc = "write"
        /\ ses[s] \in Jobs /\ inbox \in Files /\ hist \in Histories
    BY TypesNamed DEF IInv, Structure, TakeWrite, At
  <1>2. n \in Nat /\ DOMAIN inbox.heads = 1 .. n /\ inbox.ack \in Nat /\ inbox.ack <= n
    BY <1>1, InboxType DEF AckWithin
  <1>3. i \in -1 .. MaxMsgs
    BY <1>1 DEF Jobs
  <1>4. live => /\ Writing(s) /\ i + 1 \in DOMAIN inbox.heads /\ i \in Nat
                /\ inbox.heads[i + 1].msg \in Msgs
    <2> SUFFICES ASSUME live PROVE /\ Writing(s) /\ i + 1 \in DOMAIN inbox.heads /\ i \in Nat
                                   /\ inbox.heads[i + 1].msg \in Msgs
      OBVIOUS
    <2>1. Writing(s)
      BY <1>1 DEF Writing, At
    <2>2. i + 1 \in DOMAIN inbox.heads
      BY <1>1, <2>1 DEF AckWithin
    <2>3. i \in Nat
      BY <1>2, <1>3, <2>2, BoundsNat
    <2> QED BY <1>1, <2>1, <2>2, <2>3, InboxType
  <1>5. /\ x \in Jobs /\ Wired(s, x) /\ (s \in Telnet => SamePlace(ses[s], x))
        /\ Shown(s, i) => x.pc = "head" /\ x.idx = i
        /\ ~Shown(s, i) => x.pc \in {"enter", "idle"}
    BY <1>1, <1>3, AfterTakeIs
  <1>6. /\ inbox' = IF live THEN [inbox EXCEPT !.ack = i + 1] ELSE inbox
        /\ ses' = [ses EXCEPT ![s] = x] /\ UNCHANGED <<content, snd, tty, used>>
        /\ hist' = [hist EXCEPT !.taken = @ \cup took, !.twice = @ \/ took \cap hist.taken # {},
                                !.seen = IF Shown(s, i) THEN @ ELSE @ \cup took,
                                !.told = {y \in @ : y[1] \notin took},
                                !.raced = @ \cup behind]
    BY DEF TakeWrite, Acked
  <1>7. inbox' \in Files /\ inbox'.gen = inbox.gen /\ inbox'.heads = inbox.heads
        /\ inbox'.ack = (IF live THEN i + 1 ELSE inbox.ack) /\ inbox'.ack <= n
    <2>1. CASE live
      <3>1. i + 1 \in Nat /\ i + 1 <= n
        BY <1>2, <1>4, <2>1
      <3> QED BY <1>1, <1>6, <2>1, <3>1 DEF Files
    <2>2. CASE ~live
      BY <1>1, <1>2, <1>6, <2>2
    <2> QED BY <2>1, <2>2
  <1>8. took \subseteq Msgs /\ behind \subseteq Sessions
        /\ (live => took = {inbox.heads[i + 1].msg}) /\ (~live => took = {})
    BY <1>4
  <1> HIDE DEF x, took, behind
  <1>9. /\ hist' \in Histories
        /\ hist'.taken = hist.taken \cup took /\ hist'.overlap = hist.overlap
        /\ hist'.twice = (hist.twice \/ took \cap hist.taken # {})
        /\ hist'.seen = (IF Shown(s, i) THEN hist.seen ELSE hist.seen \cup took)
        /\ hist'.torn = hist.torn /\ hist'.raced = hist.raced \cup behind
    <2>1. hist.twice \in BOOLEAN /\ (hist.twice \/ took \cap hist.taken # {}) \in BOOLEAN
      BY <1>1 DEF Histories
    <2>2. hist.taken \cup took \subseteq Msgs /\ hist.seen \cup took \subseteq Msgs
          /\ hist.raced \cup behind \subseteq Sessions
          /\ {y \in hist.told : y[1] \notin took} \subseteq Msgs \X Telnet
      BY <1>1, <1>8 DEF Histories
    <2> QED BY <1>1, <1>6, <2>1, <2>2 DEF Histories
  <1>10. ses' \in [Sessions -> Jobs] /\ ses'[s] = x /\ \A r \in Sessions \ {s} : ses'[r] = ses[r]
    BY <1>1, <1>5, <1>6, Moved
  <1>11. content' \in Seq(Msgs) /\ tty' \in [Telnet -> Ttys]
    BY <1>1, <1>6, TypesNamed
  <1>12. x.pc \in {"head", "enter", "idle"}
    BY <1>5
  <1>13. Structure'
    BY <1>1, <1>5, <1>6, <1>7, <1>9, <1>11, <1>12, StructureMoves
  <1>14. Texts'
    BY <1>6, <1>7, <1>9, <1>10, <1>12, TextsMoves DEF IInv
  <1>15. AllFresh'
    <2> SUFFICES ASSUME NEW r \in Sessions, r \notin hist'.raced PROVE Fresh(r)'
      BY DEF AllFresh
    <2>1. Fresh(r) /\ (r # s => ses[r].pc # "read")
      BY <1>9 DEF IInv, AllFresh, behind, At
    <2>2. CASE r = s
      <3>1. live
        BY <1>1, <2>1, <2>2 DEF Fresh, At
      <3> QED BY <1>4, <1>5, <1>7, <1>10, <2>2, <3>1 DEF Fresh, At
    <2>3. CASE r # s
      BY <1>7, <1>10, <2>1, <2>3 DEF Fresh, At
    <2> QED BY <2>2, <2>3
  <1>16. \A j : Covered(j) => Covered(j)'
    <2>1. \A j : \A r \in Sessions : Holds(r, j) => Holds(r, j)'
      BY <1>1, <1>7, <1>10 DEF Holds, At
    <2> QED BY <1>7, <1>9, <2>1 DEF Covered
  <1>17. \A j \in 1 .. inbox'.ack : Covered(j)'
    <2>1. CASE ~live
      BY <1>7, <1>16, <2>1 DEF IInv, AllCovered
    <2>2. CASE live
      <3>1. \A j \in 1 .. i : Covered(j)'
        BY <1>4, <1>16, <2>2 DEF IInv, AllCovered
      <3>2. ASSUME NEW j, j = i + 1 PROVE Covered(j)'
        <4>1. CASE Shown(s, i)
          <5>1. Holds(s, j)'
            BY <1>4, <1>5, <1>10, <2>2, <3>2, <4>1 DEF Holds, At
          <5> QED BY <5>1 DEF Covered
        <4>2. CASE ~Shown(s, i)
          <5>1. inbox.heads[j].msg \in hist'.seen
            BY <1>8, <1>9, <2>2, <3>2, <4>2
          <5> QED BY <1>7, <5>1 DEF Covered
        <4> QED BY <4>1, <4>2
      <3>3. \A j \in 1 .. i + 1 : j \in 1 .. i \/ j = i + 1
        BY <1>4, <2>2
      <3> QED BY <1>7, <2>2, <3>1, <3>2, <3>3
    <2> QED BY <2>1, <2>2
  <1>18. \A r \in Sessions : Writing(r)' => r # s /\ Writing(r) /\ ses'[r] = ses[r]
    BY <1>7, <1>10, <1>12 DEF Writing, At
  <1>19. AllCovered'
    BY <1>16, <1>17, <1>18 DEF IInv, AllCovered
  <1>20. InTurn'
    <2> SUFFICES ASSUME ~hist.overlap
                 PROVE  /\ ~hist'.twice
                        /\ \A m \in hist'.taken : \E j \in 1 .. inbox'.ack : inbox'.heads[j].msg = m
                        /\ \A r \in Sessions : Writing(r)' => ses'[r].idx = inbox'.ack
                        /\ \A r, q \in Sessions : Writing(r)' /\ Writing(q)' => r = q
      BY <1>9 DEF InTurn
    <2>1. /\ ~hist.twice
          /\ \A m \in hist.taken : \E j \in 1 .. inbox.ack : inbox.heads[j].msg = m
          /\ \A r \in Sessions : Writing(r) => ses[r].idx = inbox.ack
          /\ \A r, q \in Sessions : Writing(r) /\ Writing(q) => r = q
      BY DEF IInv, InTurn
    <2>2. CASE ~live
      <3>1. took = {} /\ inbox'.ack = inbox.ack
        BY <1>7, <1>8, <2>2
      <3>2. ~hist'.twice /\ hist'.taken = hist.taken
        BY <1>9, <2>1, <3>1
      <3> QED BY <1>7, <1>18, <2>1, <3>1, <3>2
    <2>3. CASE live
      <3>1. i = inbox.ack /\ \A r \in Sessions : ~Writing(r)'
        BY <1>4, <1>18, <2>1, <2>3
      <3>2. \A j \in 1 .. inbox.ack : j \in DOMAIN inbox.heads /\ j # i + 1
        BY <1>2, <1>4, <2>3, <3>1
      <3>3. inbox.heads[i + 1].msg \notin hist.taken
        BY <1>1, <1>4, <2>1, <2>3, <3>2 DEF EachOnce
      <3>4. ~hist'.twice
        BY <1>8, <1>9, <2>1, <2>3, <3>3
      <3>5. ASSUME NEW m \in hist'.taken PROVE \E j \in 1 .. inbox'.ack : inbox'.heads[j].msg = m
        <4>1. inbox'.ack = i + 1 /\ \A j \in 1 .. i : j \in 1 .. i + 1
          BY <1>4, <1>7, <2>3
        <4>2. i + 1 \in 1 .. i + 1
          BY <1>4, <2>3
        <4>3. CASE m \in hist.taken
          BY <1>7, <2>1, <3>1, <4>1, <4>3
        <4>4. CASE m = inbox.heads[i + 1].msg
          BY <1>7, <4>1, <4>2, <4>4
        <4> QED BY <1>8, <1>9, <2>3, <4>3, <4>4
      <3> QED BY <3>1, <3>4, <3>5
    <2> QED BY <2>2, <2>3
  <1>21. Flags'
    <2>1. \A t \in Telnet : SameFlags(tty[t], tty'[t])
      BY <1>6, SelfSame
    <2> QED BY <1>1, <1>5, <1>6, <2>1, FlagsStay DEF IInv
  <1> QED BY <1>13, <1>14, <1>15, <1>19, <1>20, <1>21 DEF IInv

LEMMA LoadHeadInv ==
  ASSUME IInv, NEW s \in Sessions, LoadHead(s)
  PROVE  IInv'
  <1> DEFINE k == ses[s].idx + 1
             c == IF k \in DOMAIN inbox.heads THEN inbox.heads[k] ELSE ses[s].cur
             x == [ses[s] EXCEPT !.pc = "text", !.cur = c]
  <1>1. TypeOK /\ Structure /\ EachOnce /\ AckWithin /\ Wired(s, ses[s]) /\ ses[s].pc = "head"
        /\ ses[s] \in Jobs
    BY TypesNamed DEF IInv, Structure, LoadHead, At
  <1>2. c \in Heads \cup {Garbage} /\ (k \in DOMAIN inbox.heads => c = inbox.heads[k])
    BY <1>1, InboxType DEF Jobs
  <1>3. ses' = [ses EXCEPT ![s] = x] /\ UNCHANGED <<inbox, content, snd, tty, used, hist>>
    BY <1>1, TypesNamed DEF LoadHead, Jobs
  <1> HIDE DEF c
  <1>4. x \in Jobs /\ x.pc = "text" /\ x.cur = c /\ x.idx = ses[s].idx /\ x.goal = ses[s].goal
    BY <1>1, <1>2 DEF Jobs, SessionSteps
  <1> HIDE DEF x
  <1>5. Wired(s, x) /\ SamePlace(ses[s], x)
    <2>1. Wired(s, x)
      BY <1>1, <1>4 DEF Wired
    <2>2. SamePlace(ses[s], x)
      BY <1>1, <1>4 DEF SamePlace, Shut, Looping
    <2> QED BY <2>1, <2>2
  <1>6. ses' \in [Sessions -> Jobs] /\ ses'[s] = x /\ \A r \in Sessions \ {s} : ses'[r] = ses[r]
    BY <1>1, <1>3, <1>4, Moved
  <1>7. inbox' \in Files /\ content' \in Seq(Msgs) /\ tty' \in [Telnet -> Ttys] /\ hist' \in Histories
    BY <1>1, <1>3, TypesNamed
  <1>8. inbox'.ack <= Len(inbox.heads)
    BY <1>1, <1>3 DEF AckWithin
  <1>9. Structure'
    BY <1>1, <1>3, <1>4, <1>5, <1>7, <1>8, StructureMoves
  <1>10. Texts'
    BY <1>3, <1>4, <1>6, TextsMoves DEF IInv
  <1>11. AllFresh'
    <2> SUFFICES ASSUME NEW r \in Sessions, r \notin hist.raced PROVE Fresh(r)'
      BY <1>3 DEF AllFresh
    <2>1. Fresh(r)
      BY DEF IInv, AllFresh
    <2>2. CASE r = s
      BY <1>1, <1>2, <1>3, <1>4, <1>6, <2>1, <2>2 DEF Fresh, At
    <2>3. CASE r # s
      BY <1>3, <1>6, <2>1, <2>3 DEF Fresh, At, Unread
    <2> QED BY <2>2, <2>3
  <1>12. \A r \in Sessions : ~At(r, "write") \/ ses'[r] = ses[r]
    BY <1>1, <1>6 DEF At
  <1>13. \A r \in Sessions : Writing(r)' => Writing(r) /\ ses'[r] = ses[r]
    BY <1>3, <1>4, <1>6 DEF Writing, At
  <1>14. ASSUME NEW i \in DOMAIN inbox.heads, Covered(i) PROVE Covered(i)'
    <2>1. \A r \in Sessions : Holds(r, i) => Holds(r, i)'
      <3> SUFFICES ASSUME NEW r \in Sessions, Holds(r, i) PROVE Holds(r, i)'
        OBVIOUS
      <3>1. CASE r = s
        <4>1. i = k
          <5>1. ses[s].idx = i - 1 /\ i \in Int
            BY <1>1, <3>1, InboxType DEF Holds
          <5> QED BY <5>1
        <4>2. c = inbox.heads[i]
          BY <1>2, <4>1
        <4> QED BY <1>3, <1>4, <1>6, <3>1, <4>2 DEF Holds, At
      <3>2. CASE r # s
        BY <1>3, <1>6, <3>2 DEF Holds, At
      <3> QED BY <3>1, <3>2
    <2> QED BY <1>3, <1>14, <2>1 DEF Covered
  <1>15. AllCovered'
    BY <1>1, <1>3, <1>13, <1>14, Listed DEF IInv, AllCovered
  <1>16. InTurn'
    BY <1>3, <1>13 DEF IInv, InTurn
  <1>17. Flags'
    <2>1. \A t \in Telnet : SameFlags(tty[t], tty'[t])
      BY <1>3, SelfSame
    <2> QED BY <1>1, <1>3, <1>4, <1>5, <2>1, FlagsStay DEF IInv
  <1> QED BY <1>9, <1>10, <1>11, <1>15, <1>16, <1>17 DEF IInv

\* A session ends what it does with the message in hand, which counts as seen.
LEMMA ShownInv ==
  ASSUME IInv, NEW s \in Sessions, NEW x \in Jobs, Wired(s, x), ses' = [ses EXCEPT ![s] = x],
         x.pc \in {"off", "idle", "count"}, UNCHANGED <<inbox, content, snd, used>>,
         ses[s].pc # "clear2" \/ x.pc = "off",
         tty' \in [Telnet -> Ttys], hist' \in Histories,
         hist'.taken = hist.taken, hist'.twice = hist.twice, hist'.overlap = hist.overlap,
         hist.seen \subseteq hist'.seen, hist'.torn = hist.torn, hist'.raced = hist.raced,
         \A i \in DOMAIN inbox.heads : Holds(s, i) => inbox.heads[i].msg \in hist'.seen,
         Flags'
  PROVE  IInv'
  <1>1. TypeOK /\ Structure /\ EachOnce /\ AckWithin
    BY DEF IInv, Structure
  <1>2. ses' \in [Sessions -> Jobs] /\ ses'[s] = x /\ \A r \in Sessions \ {s} : ses'[r] = ses[r]
    BY <1>1, Moved
  <1>3. inbox' \in Files /\ content' \in Seq(Msgs) /\ inbox'.ack <= Len(inbox.heads)
    BY <1>1, TypesNamed DEF AckWithin
  <1>4. Structure'
    BY <1>1, <1>3, StructureMoves
  <1>5. Texts'
    BY <1>2, TextsMoves DEF IInv
  <1>6. AllFresh'
    <2> SUFFICES ASSUME NEW r \in Sessions, r \notin hist.raced PROVE Fresh(r)'
      BY DEF AllFresh
    <2>1. Fresh(r)
      BY DEF IInv, AllFresh
    <2>2. CASE r = s
      BY <1>2, <2>2 DEF Fresh, At
    <2>3. CASE r # s
      BY <1>2, <2>1, <2>3 DEF Fresh, At, Unread
    <2> QED BY <2>2, <2>3
  <1>7. \A r \in Sessions : Writing(r)' => Writing(r) /\ ses'[r] = ses[r]
    BY <1>2 DEF Writing, At
  <1>8. ASSUME NEW i \in DOMAIN inbox.heads, Covered(i) PROVE Covered(i)'
    <2>1. \A r \in Sessions \ {s} : Holds(r, i) => Holds(r, i)'
      BY <1>2 DEF Holds, At
    <2> QED BY <1>8, <2>1 DEF Covered
  <1>9. AllCovered'
    BY <1>1, <1>7, <1>8, Listed DEF IInv, AllCovered
  <1>10. InTurn'
    BY <1>7 DEF IInv, InTurn
  <1> QED BY <1>4, <1>5, <1>6, <1>9, <1>10 DEF IInv

LEMMA LoadTextInv ==
  ASSUME IInv, NEW s \in Sessions, LoadText(s)
  PROVE  IInv'
  <1> DEFINE y == [ses[s] EXCEPT !.pc = "count"]
             x == IF s \in Telnet THEN y ELSE Rest
             got == {ses[s].cur.msg} \ {0}
  <1>1. TypeOK /\ Structure /\ Wired(s, ses[s]) /\ ses[s].pc = "text" /\ ses[s] \in Jobs
    BY TypesNamed DEF IInv, Structure, LoadText, At
  <1>2. ses[s].cur.msg \in Msgs \cup {0}
    BY <1>1, Fixed DEF Jobs, Heads
  <1>3. ses' = [ses EXCEPT ![s] = x] /\ UNCHANGED <<inbox, content, snd, tty, used>>
        /\ hist' = [hist EXCEPT !.seen = @ \cup got]
    <2>1. [ses EXCEPT ![s] = IF s \in Telnet THEN [@ EXCEPT !.pc = "count"] ELSE Rest]
            = [ses EXCEPT ![s] = x]
      BY <1>1, TypesNamed
    <2> QED BY <2>1 DEF LoadText
  <1>4. y \in Jobs /\ y.pc = "count" /\ y.goal = ses[s].goal
    BY <1>1 DEF Jobs, SessionSteps
  <1>5. s \in Telnet => ses[s].goal = "r_msg"
    BY <1>1 DEF Wired
  <1>6. s \in Telnet => Wired(s, y) /\ SamePlace(ses[s], y)
    <2>1. s \in Telnet => Wired(s, y)
      BY <1>4, <1>5 DEF Wired
    <2>2. s \in Telnet => SamePlace(ses[s], y)
      BY <1>1, <1>4, <1>5 DEF SamePlace, Shut, Looping
    <2> QED BY <2>1, <2>2
  <1>7. Rest \in Jobs /\ Rest.pc = "idle" /\ Wired(s, Rest)
    <2>1. Rest \in Jobs /\ Rest.pc = "idle" /\ Rest.goal = "none"
      BY Fixed
    <2> QED BY <2>1 DEF Wired
  <1>8. x \in Jobs /\ Wired(s, x) /\ x.pc \in {"idle", "count"} /\ (s \in Telnet => SamePlace(ses[s], x))
    BY <1>4, <1>6, <1>7
  <1> HIDE DEF x, y
  <1>9. got \subseteq Msgs
    BY <1>2
  <1>10. hist' \in Histories /\ hist'.taken = hist.taken /\ hist'.twice = hist.twice
         /\ hist'.overlap = hist.overlap /\ hist'.seen = hist.seen \cup got
         /\ hist'.torn = hist.torn /\ hist'.raced = hist.raced
    BY <1>1, <1>3, <1>9, TypesNamed DEF Histories
  <1>11. \A i \in DOMAIN inbox.heads : Holds(s, i) => inbox.heads[i].msg \in hist'.seen
    <2> SUFFICES ASSUME NEW i \in DOMAIN inbox.heads, Holds(s, i)
                 PROVE  inbox.heads[i].msg \in hist'.seen
      OBVIOUS
    <2>1. ses[s].cur = inbox.heads[i] /\ inbox.heads[i].msg # 0
      BY <1>1, InboxType DEF Holds, At
    <2> QED BY <1>10, <2>1
  <1>12. Flags'
    <2>1. \A t \in Telnet : SameFlags(tty[t], tty'[t])
      BY <1>3, SelfSame
    <2> QED BY <1>1, <1>3, <1>8, <2>1, FlagsStay DEF IInv
  <1>13. tty' \in [Telnet -> Ttys]
    BY <1>1, <1>3, TypesNamed
  <1>14. hist.seen \subseteq hist'.seen
    BY <1>10
  <1> QED BY <1>1, <1>3, <1>8, <1>10, <1>11, <1>12, <1>13, <1>14, ShownInv

LEMMA LeaveInv ==
  ASSUME IInv, NEW s \in Sessions, Leave(s)
  PROVE  IInv'
  <1> DEFINE places == IF ses[s].pc \in {"head", "text"}
                         THEN {ses[s].idx + 1} \cap DOMAIN inbox.heads ELSE {}
             got == {inbox.heads[i].msg : i \in places}
             left == {x \in hist.told : x[2] # s}
  <1>1. TypeOK /\ Structure
    BY DEF IInv, Structure
  <1>2. ses' = [ses EXCEPT ![s] = Offline] /\ UNCHANGED <<inbox, content, snd, used>>
        /\ hist' = [hist EXCEPT !.told = left, !.seen = @ \cup got]
        /\ tty' = IF s \in Telnet THEN [tty EXCEPT ![s] = NewTty] ELSE tty
    <2>1. hist' = [hist EXCEPT !.told = {x \in @ : x[2] # s}, !.seen = @ \cup got]
      BY DEF Leave
    <2> QED BY <1>1, <2>1, TypesNamed DEF Leave, Histories
  <1>3. Offline \in Jobs /\ Offline.pc = "off" /\ Wired(s, Offline)
    <2>1. Offline \in Jobs /\ Offline.pc = "off" /\ Offline.goal = "none"
      BY Fixed
    <2> QED BY <2>1 DEF Wired
  <1>4. places \subseteq DOMAIN inbox.heads
    OBVIOUS
  <1>5. got \subseteq Msgs
    BY <1>1, <1>4, InboxType
  <1>6. left \subseteq hist.told
    OBVIOUS
  <1>7. \A i \in DOMAIN inbox.heads : Holds(s, i) => inbox.heads[i].msg \in got
    <2> SUFFICES ASSUME NEW i \in DOMAIN inbox.heads, Holds(s, i) PROVE inbox.heads[i].msg \in got
      OBVIOUS
    <2>1. ses[s].idx = i - 1 /\ ses[s].pc \in {"head", "text"} /\ i \in Int
      BY <1>1, InboxType DEF Holds, At
    <2>2. i = ses[s].idx + 1
      BY <2>1
    <2> QED BY <2>1, <2>2
  <1> HIDE DEF places, got, left
  <1>8. hist' \in Histories /\ hist'.taken = hist.taken /\ hist'.twice = hist.twice
        /\ hist'.overlap = hist.overlap /\ hist'.seen = hist.seen \cup got
        /\ hist'.torn = hist.torn /\ hist'.raced = hist.raced
    BY <1>1, <1>2, <1>5, <1>6, TypesNamed DEF Histories
  <1>9. tty' \in [Telnet -> Ttys] /\ \A t \in Telnet : t # s => tty'[t] = tty[t]
    BY <1>1, <1>2, TypesNamed, Fixed
  <1>10. ses'[s] = Offline /\ \A r \in Sessions \ {s} : ses'[r] = ses[r]
    BY <1>1, <1>2, <1>3, Moved
  <1>11. Flags'
    <2> SUFFICES ASSUME NEW t \in Telnet PROVE FlagsOf(ses'[t], tty'[t])
      BY DEF Flags
    <2>1. CASE t = s
      <3>1. Offline.pc \notin Shut \cup {"browse"} \cup Looping
        BY <1>3 DEF Shut, Looping
      <3>2. FlagsOf(Offline, tty'[t])
        BY <3>1 DEF FlagsOf
      <3> QED BY <1>10, <2>1, <3>2
    <2>2. CASE t # s
      BY <1>9, <1>10, <2>2, Sites DEF IInv, Flags
    <2> QED BY <2>1, <2>2
  <1>12. hist.seen \subseteq hist'.seen
         /\ \A i \in DOMAIN inbox.heads : Holds(s, i) => inbox.heads[i].msg \in hist'.seen
    BY <1>7, <1>8
  <1> QED BY <1>2, <1>3, <1>8, <1>9, <1>11, <1>12, ShownInv

-----------------------------------------------------------------------------
(* clear_msg                                                               *)

LEMMA SendingMsgs ==
  ASSUME Structure
  PROVE  Sending \subseteq Msgs
  <1>1. TypeOK /\ \A q \in Senders : snd[q].pc = "post" => snd[q].msg \in 1 .. used.msgs
    BY DEF Structure, Loaded
  <1>2. \A k \in 1 .. used.msgs : k \in Msgs
    BY <1>1, InboxType, BoundsNat DEF Msgs
  <1> QED BY <1>1, <1>2 DEF Sending

LEMMA Clear1Inv ==
  ASSUME IInv, NEW s \in Sessions, NEW goal \in {"clear", "exit"}, Clear1(s, goal)
  PROVE  IInv'
  <1> DEFINE x == [ses[s] EXCEPT !.pc = "clear2", !.goal = goal]
  <1>1. TypeOK /\ Structure /\ Counted /\ EachOnce /\ AckWithin /\ ses[s].pc = "idle" /\ ses[s] \in Jobs
    BY TypesNamed DEF IInv, Structure, Clear1, At
  <1>2. x \in Jobs /\ x.pc = "clear2" /\ x.goal = goal
    BY <1>1 DEF Jobs, SessionSteps, Goals
  <1>3. ses' = [ses EXCEPT ![s] = x] /\ UNCHANGED <<inbox, content, snd, tty>>
        /\ used' = [used EXCEPT !.clears = @ + 1] /\ used.clears < MaxClears
        /\ hist' = [hist EXCEPT !.torn = @ \cup Sending] /\ (goal = "exit" => s \in Telnet)
    BY <1>1, TypesNamed DEF Clear1, Jobs
  <1> HIDE DEF x
  <1>4. hist' \in Histories /\ SameHist /\ hist'.torn = hist.torn \cup Sending
    BY <1>1, <1>3, SendingMsgs, TypesNamed DEF Histories, SameHist
  <1>5. used' \in Counts /\ used'.msgs = used.msgs /\ used'.clears = used.clears + 1
    <2>1. used \in Counts /\ used.clears + 1 \in 0 .. MaxClears
      BY <1>1, <1>3, InboxType, BoundsNat, TypesNamed
    <2> QED BY <1>3, <2>1 DEF Counts
  <1>6. ses' \in [Sessions -> Jobs] /\ ses'[s] = x /\ \A r \in Sessions \ {s} : ses'[r] = ses[r]
    BY <1>1, <1>2, <1>3, Moved
  <1>7. TypeOK'
    BY <1>1, <1>3, <1>4, <1>5, <1>6, TypesNamed, TypesNamedNext
  <1>8. Wired(s, x)
    BY <1>2, <1>3 DEF Wired
  <1>9. Counted'
    <2>1. IsFiniteSet(Clearers) /\ inbox.gen + Cardinality(Clearers) <= used.clears
      BY <1>1 DEF Counted
    <2>2. Clearers' = Clearers \cup {s} /\ s \notin Clearers
      BY <1>1, <1>2, <1>6 DEF Clearers, At
    <2>3. IsFiniteSet(Clearers \cup {s}) /\ Cardinality(Clearers \cup {s}) = Cardinality(Clearers) + 1
      BY <2>1, <2>2, FS_AddElement
    <2>4. inbox.gen \in Nat /\ used.clears \in Nat /\ Cardinality(Clearers) \in Nat
      BY <1>1, <2>1, InboxType, FS_CardinalityType
    <2> QED BY <1>3, <1>5, <2>1, <2>2, <2>3, <2>4 DEF Counted
  <1>10. EachOnce'
    BY <1>1, <1>3, <1>5 DEF EachOnce, Sending
  <1>11. \A r \in Sessions : Writing(r)' => Writing(r) /\ ses'[r] = ses[r]
    BY <1>2, <1>3, <1>6 DEF Writing, At
  <1>12. AckWithin'
    BY <1>1, <1>2, <1>3, <1>6, <1>11 DEF AckWithin, At
  <1>13. Structure'
    BY <1>1, <1>3, <1>5, <1>6, <1>7, <1>8, <1>9, <1>10, <1>12 DEF Structure
  <1>14. Texts'
    <2>1. (\E r \in Sessions : At(r, "clear3"))' => \E r \in Sessions : At(r, "clear3")
      BY <1>2, <1>6 DEF At
    <2> QED BY <1>3, <1>4, <2>1 DEF IInv, Texts, TextAt
  <1>15. AllFresh'
    <2> SUFFICES ASSUME NEW r \in Sessions, r \notin hist.raced PROVE Fresh(r)'
      BY <1>4 DEF AllFresh, SameHist
    <2>1. Fresh(r)
      BY DEF IInv, AllFresh
    <2>2. CASE r = s
      BY <1>2, <1>6, <2>2 DEF Fresh, At
    <2>3. CASE r # s
      BY <1>3, <1>6, <2>1, <2>3 DEF Fresh, At, Unread
    <2> QED BY <2>2, <2>3
  <1>16. AllCovered'
    <2>1. \A i : \A r \in Sessions : Holds(r, i) => Holds(r, i)'
      BY <1>1, <1>3, <1>6 DEF Holds, At
    <2>2. \A i : Covered(i) => Covered(i)'
      BY <1>3, <1>4, <2>1 DEF Covered, SameHist
    <2> QED BY <1>3, <1>11, <2>2 DEF IInv, AllCovered
  <1>17. InTurn'
    BY <1>3, <1>4, <1>11 DEF IInv, InTurn, SameHist
  <1>18. Flags'
    <2>1. SamePlace(ses[s], x)
      BY <1>1, <1>2 DEF SamePlace, Shut, Looping
    <2>2. \A t \in Telnet : SameFlags(tty[t], tty'[t])
      BY <1>3, SelfSame
    <2> QED BY <1>1, <1>2, <1>3, <2>1, <2>2, FlagsStay DEF IInv
  <1> QED BY <1>13, <1>14, <1>15, <1>16, <1>17, <1>18 DEF IInv

LEMMA Clear2Inv ==
  ASSUME IInv, NEW s \in Sessions, Clear2(s)
  PROVE  IInv'
  <1> DEFINE x == [ses[s] EXCEPT !.pc = "clear3"]
             torn == hist.torn \cup Sending
             raced == hist.raced \cup
                        {r \in Sessions \ {s} : ses[r].pc \in {"read", "write", "head", "text"}}
  <1>1. TypeOK /\ Structure /\ Counted /\ EachOnce /\ AckWithin /\ ses[s].pc = "clear2"
        /\ ses[s] \in Jobs /\ Wired(s, ses[s])
    BY TypesNamed DEF IInv, Structure, Clear2, At
  <1>2. x \in Jobs /\ x.pc = "clear3" /\ x.goal = ses[s].goal
    BY <1>1 DEF Jobs, SessionSteps
  <1>3. ses' = [ses EXCEPT ![s] = x] /\ UNCHANGED <<content, snd, tty, used>>
        /\ inbox' = [NoFile EXCEPT !.gen = inbox.gen + 1]
    BY <1>1, TypesNamed DEF Clear2, Goto, Jobs
  <1>4. hist' \in Histories /\ hist'.taken = {} /\ hist'.twice = FALSE /\ hist'.torn = torn
        /\ hist'.raced = raced
    <2>1. hist \in Histories /\ torn \subseteq Msgs /\ raced \subseteq Sessions
      BY <1>1, SendingMsgs, TypesNamed DEF Histories
    <2>2. Disturbed(s) = [hist EXCEPT !.torn = torn, !.raced = raced]
      BY <2>1 DEF Disturbed, Histories
    <2>3. Disturbed(s) \in Histories /\ Disturbed(s).torn = torn /\ Disturbed(s).raced = raced
      BY <2>1, <2>2 DEF Histories
    <2>4. hist' = [Disturbed(s) EXCEPT !.taken = {}, !.twice = FALSE, !.overlap = FALSE, !.seen = {},
                                       !.told = {}]
      BY DEF Clear2
    <2> HIDE DEF torn, raced
    <2> QED BY <2>3, <2>4 DEF Histories
  <1> HIDE DEF x
  <1>5. ses' \in [Sessions -> Jobs] /\ ses'[s] = x /\ \A r \in Sessions \ {s} : ses'[r] = ses[r]
    BY <1>1, <1>2, <1>3, Moved
  <1>6. IsFiniteSet(Clearers) /\ inbox.gen + Cardinality(Clearers) <= used.clears
    BY <1>1 DEF Counted
  <1>7. Clearers' = Clearers \ {s} /\ s \in Clearers
    BY <1>1, <1>2, <1>5 DEF Clearers, At
  <1>8. IsFiniteSet(Clearers \ {s}) /\ Cardinality(Clearers \ {s}) = Cardinality(Clearers) - 1
    BY <1>6, <1>7, FS_RemoveElement
  <1>9. inbox.gen \in Nat /\ used.clears \in 0 .. MaxClears /\ Cardinality(Clearers) \in Nat
        /\ Cardinality(Clearers \ {s}) \in Nat
    BY <1>1, <1>6, <1>8, InboxType, FS_CardinalityType
  <1>10. inbox.gen + 1 \in 0 .. MaxClears
    BY <1>6, <1>8, <1>9, BoundsNat
  <1>11. NoFile \in Files /\ NoFile.ack = 0 /\ NoFile.heads = <<>>
    BY Fixed
  <1>12. inbox' \in Files /\ inbox'.gen = inbox.gen + 1 /\ inbox'.ack = 0 /\ inbox'.heads = <<>>
    BY <1>3, <1>10, <1>11 DEF Files
  <1>13. DOMAIN inbox'.heads = {} /\ Len(inbox'.heads) = 0
    BY <1>12
  <1>14. TypeOK'
    BY <1>1, <1>3, <1>4, <1>5, <1>12, TypesNamed, TypesNamedNext
  <1>15. Wired(s, x)
    BY <1>1, <1>2 DEF Wired
  <1>16. Counted'
    BY <1>3, <1>6, <1>7, <1>8, <1>9, <1>12 DEF Counted
  <1>17. EachOnce'
    BY <1>1, <1>3, <1>13 DEF EachOnce, Sending
  <1>18. \A r \in Sessions : At(r, "write")' => ses'[r] = ses[r] /\ ses[r].fd \in Nat /\ ses[r].fd <= inbox.gen
    BY <1>1, <1>2, <1>5, BoundsNat DEF AckWithin, At, TypeOK
  <1>19. \A r \in Sessions : ~Writing(r)'
    BY <1>9, <1>12, <1>18 DEF Writing
  <1>20. AckWithin'
    BY <1>9, <1>12, <1>13, <1>18, <1>19 DEF AckWithin
  <1>21. Structure'
    BY <1>1, <1>3, <1>5, <1>14, <1>15, <1>16, <1>17, <1>20 DEF Structure
  <1>22. Texts'
    <2>1. \A p \in Senders : snd'[p].pc = "post" => snd'[p].msg \in hist'.torn
      BY <1>3, <1>4 DEF Sending
    <2> QED BY <1>13, <2>1 DEF Texts
  <1>23. AllFresh'
    <2> SUFFICES ASSUME NEW r \in Sessions, r \notin hist'.raced PROVE Fresh(r)'
      BY DEF AllFresh
    <2>1. ses'[r].pc \notin {"read", "write", "head", "text"}
      BY <1>2, <1>4, <1>5
    <2> QED BY <2>1 DEF Fresh, At
  <1>24. AllCovered'
    BY <1>12, <1>19 DEF AllCovered
  <1>25. InTurn'
    BY <1>4, <1>19 DEF InTurn
  <1>26. Flags'
    <2>1. SamePlace(ses[s], x)
      BY <1>1, <1>2 DEF SamePlace, Shut, Looping
    <2>2. \A t \in Telnet : SameFlags(tty[t], tty'[t])
      BY <1>3, SelfSame
    <2> QED BY <1>1, <1>2, <1>3, <2>1, <2>2, FlagsStay DEF IInv
  <1> QED BY <1>21, <1>22, <1>23, <1>24, <1>25, <1>26 DEF IInv

LEMMA Clear3Inv ==
  ASSUME IInv, NEW s \in Sessions, Clear3(s)
  PROVE  IInv'
  <1> DEFINE exit == ses[s].goal = "exit"
             x == IF exit THEN Offline ELSE Rest
             torn == hist.torn \cup Sending
             raced == hist.raced \cup
                        {r \in Sessions \ {s} : ses[r].pc \in {"read", "write", "head", "text"}}
  <1>1. TypeOK /\ Structure /\ EachOnce /\ AckWithin /\ Wired(s, ses[s]) /\ ses[s].pc = "clear3"
        /\ hist \in Histories
    BY TypesNamed DEF IInv, Structure, Clear3, At
  <1>2. x \in Jobs /\ x.goal = "none" /\ x.pc = (IF exit THEN "off" ELSE "idle") /\ x.pc \in {"off", "idle"}
    BY Fixed
  <1>3. Wired(s, x)
    BY <1>2 DEF Wired
  <1>4. ses' = [ses EXCEPT ![s] = x] /\ UNCHANGED <<inbox, snd, used>> /\ content' = <<>>
        /\ tty' = IF exit THEN [tty EXCEPT ![s] = NewTty] ELSE tty
    BY <1>1, TypesNamed DEF Clear3
  <1>5. hist' \in Histories /\ hist'.taken = hist.taken /\ hist'.twice = hist.twice
        /\ hist'.overlap = hist.overlap /\ hist'.seen = hist.seen /\ hist'.torn = torn
        /\ hist'.raced = raced
    <2>1. torn \subseteq Msgs /\ raced \subseteq Sessions
      BY <1>1, SendingMsgs DEF Histories
    <2>2. Disturbed(s) = [hist EXCEPT !.torn = torn, !.raced = raced]
      BY <1>1 DEF Disturbed, Histories
    <2> HIDE DEF torn, raced
    <2>3. Disturbed(s) \in Histories /\ Disturbed(s).torn = torn /\ Disturbed(s).raced = raced
          /\ Disturbed(s).taken = hist.taken /\ Disturbed(s).twice = hist.twice
          /\ Disturbed(s).overlap = hist.overlap /\ Disturbed(s).seen = hist.seen
      BY <1>1, <2>1, <2>2 DEF Histories
    <2>4. PICK told \in SUBSET (Msgs \X Telnet) : hist' = [Disturbed(s) EXCEPT !.told = told]
      <3>1. Disturbed(s).told \subseteq Msgs \X Telnet
        BY <2>3 DEF Histories
      <3>2. hist' = [Disturbed(s) EXCEPT !.told = IF exit THEN {y \in @ : y[2] # s} ELSE @]
        BY DEF Clear3
      <3>3. hist' = [Disturbed(s) EXCEPT !.told =
                       IF exit THEN {y \in Disturbed(s).told : y[2] # s} ELSE Disturbed(s).told]
        BY <2>3, <3>2 DEF Histories
      <3>4. (IF exit THEN {y \in Disturbed(s).told : y[2] # s} ELSE Disturbed(s).told)
              \in SUBSET (Msgs \X Telnet)
        BY <3>1
      <3> QED BY <3>3, <3>4
    <2> QED BY <2>3, <2>4 DEF Histories
  <1>6. exit => s \in Telnet
    BY <1>1 DEF Wired
  <1> HIDE DEF x, exit
  <1>7. ses' \in [Sessions -> Jobs] /\ ses'[s] = x /\ \A r \in Sessions \ {s} : ses'[r] = ses[r]
    BY <1>1, <1>2, <1>4, Moved
  <1>8. tty' \in [Telnet -> Ttys] /\ (\A t \in Telnet : t # s => tty'[t] = tty[t])
        /\ (~exit => tty' = tty)
    BY <1>1, <1>4, <1>6, TypesNamed, Fixed
  <1>9. content' \in Seq(Msgs) /\ inbox' \in Files /\ inbox'.ack <= Len(inbox.heads)
    BY <1>1, <1>4, TypesNamed DEF AckWithin
  <1>10. Structure'
    BY <1>1, <1>2, <1>3, <1>4, <1>5, <1>8, <1>9, StructureMoves
  <1>11. Texts'
    <2>1. \A p \in Senders : snd'[p].pc = "post" => snd'[p].msg \in hist'.torn
      BY <1>4, <1>5 DEF Sending
    <2>2. \A i \in DOMAIN inbox.heads : inbox.heads[i].msg \in hist.torn
      BY <1>1 DEF IInv, Texts, At
    <2>3. \A i \in DOMAIN inbox.heads : inbox.heads[i].msg \in hist'.torn
      BY <1>5, <2>2
    <2> QED BY <1>4, <2>1, <2>3 DEF Texts
  <1>12. AllFresh'
    <2> SUFFICES ASSUME NEW r \in Sessions, r \notin hist'.raced PROVE Fresh(r)'
      BY DEF AllFresh
    <2>1. ses'[r].pc \notin {"read", "write", "head", "text"}
      BY <1>2, <1>5, <1>7
    <2> QED BY <2>1 DEF Fresh, At
  <1>13. \A r \in Sessions : Writing(r)' => Writing(r) /\ ses'[r] = ses[r]
    BY <1>2, <1>4, <1>7 DEF Writing, At
  <1>14. AllCovered'
    <2>1. \A i : \A r \in Sessions : Holds(r, i) => Holds(r, i)'
      BY <1>1, <1>4, <1>7 DEF Holds, At
    <2>2. \A i : Covered(i) => Covered(i)'
      BY <1>4, <1>5, <2>1 DEF Covered
    <2> QED BY <1>4, <1>13, <2>2 DEF IInv, AllCovered
  <1>15. InTurn'
    BY <1>4, <1>5, <1>13 DEF IInv, InTurn
  <1>16. Flags'
    <2> SUFFICES ASSUME NEW t \in Telnet PROVE FlagsOf(ses'[t], tty'[t])
      BY DEF Flags
    <2>1. FlagsOf(ses[t], tty[t]) /\ t \in Sessions
      BY Sites DEF IInv, Flags
    <2>2. CASE t # s
      BY <1>7, <1>8, <2>1, <2>2
    <2>3. CASE t = s /\ exit
      <3>1. x.pc \notin Shut \cup {"browse"} \cup Looping
        BY <1>2, <2>3 DEF Shut, Looping
      <3>2. FlagsOf(x, tty'[t])
        BY <3>1 DEF FlagsOf
      <3> QED BY <1>7, <2>3, <3>2
    <2>4. CASE t = s /\ ~exit
      <3>1. x.pc \notin {"browse"} \cup Looping /\ ses[t].pc \in Shut
        BY <1>1, <1>2, <2>4 DEF Shut, Looping
      <3>2. FlagsOf(x, tty[t])
        BY <2>1, <3>1, Zenon DEF FlagsOf
      <3> QED BY <1>7, <1>8, <2>4, <3>2
    <2> QED BY <2>2, <2>3, <2>4
  <1> QED BY <1>10, <1>11, <1>12, <1>14, <1>15, <1>16 DEF IInv

-----------------------------------------------------------------------------
(* The invariant                                                           *)

LEMMA InitInv == Init => IInv
  <1> SUFFICES ASSUME Init PROVE IInv
    OBVIOUS
  <1>1. /\ inbox = NoFile /\ content = <<>> /\ used = [msgs |-> 0, clears |-> 0, logins |-> 0]
        /\ \A p \in Senders : snd[p] = NoSend
        /\ \A s \in Sessions : ses[s] = Offline
        /\ snd \in [Senders -> Sends] /\ ses \in [Sessions -> Jobs]
        /\ hist = [taken |-> {}, twice |-> FALSE, overlap |-> FALSE, seen |-> {}, torn |-> {},
                   raced |-> {}, told |-> {}]
    BY Fixed DEF Init
  <1>2. tty \in [Telnet -> Ttys]
    BY Fixed DEF Init
  <1>3. used \in Counts /\ hist \in Histories /\ inbox \in Files /\ content \in Seq(Msgs)
    <2>1. 0 \in 0 .. MaxMsgs /\ 0 \in 0 .. MaxClears /\ 0 \in 0 .. MaxLogins
      BY BoundsNat
    <2>2. content \in Seq(Msgs)
      BY <1>1, EmptySeq
    <2> QED BY <1>1, <2>1, <2>2, Fixed DEF Counts, Histories
  <1>4. TypeOK
    BY <1>1, <1>2, <1>3, TypesNamed
  <1>5. \A s \in Sessions : ses[s].pc = "off" /\ ses[s].goal = "none"
    BY <1>1, Fixed
  <1>6. \A p \in Senders : snd[p].pc = "idle"
    BY <1>1, Fixed
  <1>7. inbox.gen = 0 /\ inbox.ack = 0 /\ inbox.heads = <<>> /\ DOMAIN inbox.heads = {}
        /\ Len(inbox.heads) = 0
    BY <1>1 DEF NoFile
  <1>8. Counted
    <2>1. Clearers = {}
      BY <1>5 DEF Clearers, At
    <2> QED BY <1>1, <1>7, <2>1, FS_EmptySet DEF Counted
  <1>9. Structure
    <2>1. \A s \in Sessions : Wired(s, ses[s])
      BY <1>5 DEF Wired
    <2>2. EachOnce /\ \A p \in Senders : Loaded(snd[p], used.msgs)
      BY <1>6, <1>7 DEF EachOnce, Loaded
    <2>3. AckWithin
      BY <1>5, <1>7 DEF AckWithin, Writing, At
    <2> QED BY <1>4, <1>8, <2>1, <2>2, <2>3 DEF Structure
  <1>10. Texts /\ AllFresh /\ AllCovered
    BY <1>5, <1>6, <1>7 DEF Texts, AllFresh, Fresh, AllCovered, Writing, At
  <1>11. InTurn
    BY <1>1, <1>5 DEF InTurn, Writing, At
  <1>12. Flags
    <2> SUFFICES ASSUME NEW t \in Telnet PROVE FlagsOf(ses[t], tty[t])
      BY DEF Flags
    <2>1. ses[t].pc \notin Shut \cup {"browse"} \cup Looping
      BY <1>5, Sites DEF Shut, Looping
    <2> QED BY <2>1 DEF FlagsOf
  <1> QED BY <1>9, <1>10, <1>11, <1>12 DEF IInv

LEMMA StepInv == IInv /\ [Next]_vars => IInv'
  <1> SUFFICES ASSUME IInv, [Next]_vars PROVE IInv'
    OBVIOUS
  <1>1. ASSUME NEW p \in Senders, SendStep(p) PROVE IInv'
    <2>1. CASE \E mode \in {0, 2}, to \in {NoSession} \cup {t \in Telnet : Online(t)} : Send(p, mode, to)
      BY <2>1, SendInv
    <2>2. CASE Post(p)
      BY <2>2, PostInv
    <2>3. CASE Kill(p)
      BY <2>3, KillInv
    <2>4. CASE SenderDies(p)
      BY <2>4, SenderDiesInv
    <2> QED BY <1>1, <2>1, <2>2, <2>3, <2>4 DEF SendStep
  <1>2. ASSUME NEW s \in Sessions, Login(s) \/ Take(s) \/ Clear(s) \/ Leave(s) PROVE IInv'
    <2>1. CASE Login(s)
      BY <2>1, LoginInv
    <2>2. CASE Take(s)
      BY <2>2, TakeReadInv, TakeWriteInv, LoadHeadInv, LoadTextInv DEF Take
    <2>3. CASE Clear(s)
      BY <2>3, Clear2Inv, Clear3Inv DEF Clear
    <2>4. CASE Leave(s)
      BY <2>4, LeaveInv
    <2> QED BY <1>2, <2>1, <2>2, <2>3, <2>4
  <1>3. ASSUME NEW s \in Sessions, NEW goal \in {"clear", "exit"}, Clear1(s, goal) PROVE IInv'
    BY <1>3, Clear1Inv
  <1>4. ASSUME NEW t \in Telnet, Loop(t) \/ BeginEdit(t) \/ EndEdit(t) \/ CtrlZ(t) \/ EndBrowse(t)
        PROVE  IInv'
    BY <1>4, EnterLoopInv, HandleSignalInv, CountInv, DoneInv, BeginEditInv, EndEditInv, CtrlZInv,
       EndBrowseInv DEF Loop
  <1>5. ASSUME NEW w \in Web, GetMsg(w) PROVE IInv'
    BY <1>5, GetMsgInv
  <1>6. CASE UNCHANGED vars
    <2>1. UNCHANGED <<inbox, content, snd, ses, tty, used, hist>>
      BY <1>6 DEF vars
    <2>2. Structure'
      BY <2>1 DEF IInv, Structure, TypeOK, Counted, Clearers, EachOnce, Sending, AckWithin, Writing, At
    <2>3. Texts' /\ AllFresh' /\ AllCovered' /\ InTurn' /\ Flags'
      BY <2>1 DEF IInv, Texts, TextAt, AllFresh, Fresh, Unread, AllCovered, Covered, Holds, Writing,
                  InTurn, Flags, At
    <2> QED BY <2>2, <2>3 DEF IInv
  <1> QED BY <1>1, <1>2, <1>3, <1>4, <1>5, <1>6 DEF Next

LEMMA Invariance == Spec => []IInv
  <1>1. Init => IInv
    BY InitInv
  <1>2. IInv /\ [Next]_vars => IInv'
    BY StepInv
  <1> QED BY <1>1, <1>2, PTL DEF Spec

-----------------------------------------------------------------------------
(* Theorems                                                                *)

\* MessagesText: every head in msgindex2 leads to its own text in msgcontent
\* (save_msgtext), and so does a head a session loaded (load_msghead,
\* load_msgtext), but for the messages a clear_msg tore apart while they were
\* sent and the sessions it ran into.
THEOREM MessagesText == Spec => []RightText
  <1>1. IInv => RightText
    <2> SUFFICES ASSUME IInv PROVE RightText
      OBVIOUS
    <2>1. TypeOK /\ Texts /\ AllFresh
      BY DEF IInv, Structure
    <2>2. ASSUME NEW s \in Sessions \ hist.raced, At(s, "text")
          PROVE  ses[s].cur.msg \in hist.torn \/ TextAt(ses[s].cur) = ses[s].cur.msg
      <3>1. ses[s].pc = "text" /\ Fresh(s)
        BY <2>1, <2>2 DEF At, AllFresh
      <3>2. ses[s].idx + 1 \in DOMAIN inbox.heads /\ ses[s].cur = inbox.heads[ses[s].idx + 1]
        BY <2>2, <3>1 DEF Fresh
      <3> QED BY <2>1, <3>2 DEF Texts
    <2> QED BY <2>1, <2>2 DEF RightText, Texts
  <1> QED BY <1>1, Invariance, PTL

\* MessagesFresh: what r_msg and bbsgetmsg show is the message get_unreadmsg
\* numbered, unless another session came between the two calls, or the files
\* were cleared.
THEOREM MessagesFresh == Spec => []FreshHead
  <1>1. IInv => FreshHead
    <2> SUFFICES ASSUME IInv, NEW s \in Sessions \ hist.raced, At(s, "text")
                 PROVE  /\ ses[s].idx + 1 \in DOMAIN inbox.heads
                        /\ ses[s].cur = inbox.heads[ses[s].idx + 1]
      BY DEF FreshHead
    <2>1. ses[s].pc = "text" /\ Fresh(s)
      BY DEF At, IInv, AllFresh
    <2> QED BY <2>1 DEF Fresh
  <1> QED BY <1>1, Invariance, PTL

\* MessagesShown: get_unreadmsg passes over no message that nobody shows, but
\* for the ones its callers drop.
THEOREM MessagesShown == Spec => []NoneSkipped
  <1>1. IInv => NoneSkipped
    BY DEF IInv, AllCovered, Covered, Holds, At, NoneSkipped
  <1> QED BY <1>1, Invariance, PTL

\* MessagesOnce: as long as no call of get_unreadmsg reads the counter while
\* another is about to write it, no message is handed out twice.
THEOREM MessagesOnce == Spec => []OnceUnlessOverlap
  <1>1. IInv => OnceUnlessOverlap
    BY DEF IInv, InTurn, OnceUnlessOverlap
  <1> QED BY <1>1, Invariance, PTL

\* MessagesBlocked: between commands a session blocks messages only in the
\* editor or since a Ctrl-Z before the first message ever came, and
\* have_msg_unread is set only while they are blocked (block_msg, r_msg, r_msg2).
THEOREM MessagesBlocked == Spec => []BlockedHasCause
  <1>1. IInv => BlockedHasCause
    <2> SUFFICES ASSUME IInv, NEW t \in Telnet, At(t, "idle")
                 PROVE  /\ tty[t].blocked => tty[t].editing \/ tty[t].stuck
                        /\ tty[t].have => tty[t].blocked
      BY DEF BlockedHasCause
    <2>1. ses[t].pc \in Shut /\ FlagsOf(ses[t], tty[t])
      BY DEF At, Shut, IInv, Flags
    <2> QED BY <2>1, Zenon DEF FlagsOf
  <1> QED BY <1>1, Invariance, PTL

=============================================================================
