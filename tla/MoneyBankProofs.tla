-------------------------- MODULE MoneyBankProofs --------------------------
(***************************************************************************)
(* MoneyBank, for any users, windows, sums, days and lengths of terms:     *)
(* nobody gets two salaries between two pay days (SalaryOnce), whoever     *)
(* owes money has dates at which he is asked for it (LoanFallsDue), a term *)
(* in jail ends only when it is over or paid for (TermServed), and all the *)
(* money comes to what it should (BooksBalance).                           *)
(*                                                                         *)
(* Every action keeps Base: the numbers are within their limits, and each  *)
(* window has at its place only the saves that its operation may still     *)
(* have to make, and has loaded the first of them or not. On top of it are *)
(* four invariants about the saves ahead of the windows: SalaryInv (one    *)
(* window of a user at most is inside, and its mark or the list keeps the  *)
(* next one out), TermFine (one arrest at a time, of somebody free),       *)
(* LoanFine (one script about a loan at a time, and how far it is) and     *)
(* Books (what is stored and what is still to be stored make the ledger,   *)
(* and no save takes more than it has loaded, unless the money that was    *)
(* checked is gone). A lemma per action says what it leaves of the saves;  *)
(* the invariants are then kept by the kinds of actions.                   *)
(*                                                                         *)
(* The sums of Books are those of MapThenSumSet, a fold over a function    *)
(* that is chosen. That there is one, and that it does not matter in which *)
(* order it adds, is proved with the smallest subset for which it failed.  *)
(***************************************************************************)
EXTENDS MoneyBank, FiniteSetTheorems, SequenceTheorems, WellFoundedInduction, TLAPS

\* What a saveValue may be asked to do, and what a window may remember.
Moves == [who : Accounts, key : Keys \cup {"salary_list"}, add : Int, dated : BOOLEAN]
Places == {"unused", "off", "home", "bail", "debt", "due", "menu", "loans", "repay", "ask", "save"}
Wins == [at : Places, op : {"none", "repay", "salary", "lend", "hunt", "catch"},
         who : Users \cup {"none"}, num : Nat, days : Nat, seen : Nat, todo : Seq(Moves),
         had : Nat,
         reg : [base : Int, sum : Int],
         next : {"menu", "bail", "debt", "repay", "home", "off"}]
Values == [Accounts -> [Keys -> Nat]]

Typed ==
  /\ val \in Values /\ \A u \in Accounts, k \in Keys : val[u][k] \in 0 .. Sup(k)
  /\ salary_list \subseteq Users /\ isSalaryTime \in BOOLEAN
  /\ win \in [Windows -> Wins]
  /\ now \in 0 .. MaxTime
  /\ paid \in [Users -> Nat]

LEMMA SupType ==
  /\ \A k \in Keys : Sup(k) \in Nat /\ Sup(k) <= IntMax
  /\ Sup("freeTime") = TimeSup /\ Sup("lend_time") = TimeSup /\ Sup("back_time") = TimeSup
  /\ Sup("lend_money") = MaxMoney /\ Sup("multex") = MaxMultex
  <1>1. MaxMoney <= IntMax
    BY MoneyAssumption
  <1> QED BY <1>1, MoneyAssumption DEF Sup, Keys, Dates

LEMMA LimitType ==
  ASSUME NEW v \in Int, NEW sup \in Nat, sup <= IntMax
  PROVE  /\ limitValue(v, sup) \in 0 .. sup
         /\ v \in 0 .. sup => limitValue(v, sup) = v
         /\ v < 0 => limitValue(v, sup) = 0
         /\ v \in 1 .. IntMax /\ sup > 0 => limitValue(v, sup) > 0
  <1> IntMax \in Nat
    BY MoneyAssumption
  <1> QED BY DEF limitValue

LEMMA LoadIs ==
  ASSUME Typed, NEW u \in Accounts, NEW k \in Keys
  PROVE  /\ loadValue(u, k) = val[u][k] /\ limitValue(val[u][k], Sup(k)) = val[u][k]
         /\ val[u][k] \in Nat /\ val[u][k] <= Sup(k)
  <1>1. val[u][k] \in 0 .. Sup(k) /\ Sup(k) \in Nat /\ Sup(k) <= IntMax
    BY SupType DEF Typed
  <1> QED BY <1>1, LimitType DEF loadValue

LEMMA Accounted ==
  /\ \A w \in Windows : Me(w) \in Users /\ Me(w) \in Accounts
  /\ \A u \in Users : u \in Accounts
  /\ House \in Accounts
  BY MoneyAssumption DEF Me, Accounts

LEMMA Clock ==
  ASSUME Typed
  PROVE  /\ time \in Nat /\ time <= Epoch + MaxTime /\ time > 0 /\ Epoch \in Nat /\ now \in Nat
         /\ \A d \in Days : d \in Nat /\ d <= Far /\ time + d <= TimeSup
  <1>1. /\ Epoch \in Nat /\ MaxTime \in Nat /\ IntMax \in Nat /\ Far \in Nat
        /\ 2 * Epoch > IntMax + Far
    BY MoneyAssumption
  <1>2. now \in 0 .. MaxTime
    BY DEF Typed
  <1>3. time \in Nat /\ time <= Epoch + MaxTime /\ time > 0
    BY <1>1, <1>2 DEF time
  <1>4. \A d \in Days : d \in Nat /\ d <= Far /\ Epoch + MaxTime + d <= TimeSup
    BY MoneyAssumption
  <1>5. TimeSup \in Nat
    BY MoneyAssumption
  <1> QED BY <1>1, <1>2, <1>3, <1>4, <1>5

\* What a script may hold: elements of Seq(Moves).
LEMMA MoveTypes ==
  /\ \A u \in Accounts, k \in Keys, n \in Int : Save(u, k, n) \in Moves /\ SaveDate(u, k, n) \in Moves
  /\ \A u \in Accounts, k \in Keys : Erase(u, k) \in Moves
  /\ \A u \in Accounts : Enlist(u) \in Moves /\ Mark(u) \in Moves
  <1>1. \A u \in Accounts, k \in Keys, n \in Int : Save(u, k, n) \in Moves /\ SaveDate(u, k, n) \in Moves
    BY DEF Save, SaveDate, Moves
  <1>2. \A k \in Keys : -Sup(k) \in Int
    BY SupType
  <1>3. "multex" \in Keys
    BY DEF Keys
  <1> QED BY <1>1, <1>2, <1>3 DEF Erase, Enlist, Mark, Save, Moves

LEMMA AwayType ==
  ASSUME NEW at \in Places
  PROVE  /\ Away(at) \in Wins /\ Away(at).at = at /\ Away(at).todo = <<>>
         /\ Away(at).next = "menu" /\ Away(at).op = "none"
  <1>1. <<>> \in Seq(Moves)
    OBVIOUS
  <1> QED BY <1>1 DEF Away, Wins, NoReg

-----------------------------------------------------------------------------
Bounded(v) == v \in Values /\ \A u \in Accounts, k \in Keys : v[u][k] \in 0 .. Sup(k)

\* What the saveValue that comes first has loaded, at the time t at the latest.
RegOK(x, t) ==
  x.reg # NoReg /\ x.todo # <<>> /\ x.todo[1].key \in Keys =>
    /\ x.reg.base \in 0 .. Sup(x.todo[1].key)
    /\ IF x.todo[1].dated THEN x.reg.sum - x.reg.base - x.todo[1].add \in Epoch .. t
                          ELSE x.reg.sum = x.reg.base + x.todo[1].add

\* What a saveValue of a window of u may be about, seen from the end of the
\* script: marks and the salary list are the user's own, terms come last.
Proper(x, i, u) ==
  LET s == x.todo[i] IN
  /\ s.key = "multex" =>
       /\ s.who = u /\ ~s.dated /\ i = Len(x.todo)
       /\ s.add = 1 \/ (s.add = -MaxMultex /\ i = 1 /\ x.next = "home")
  /\ s.key = "salary_list" => s.who = u
  /\ s.key = "freeTime" => s.who \in Users /\ i = Len(x.todo)
  /\ s.key = "freeTime" /\ ~s.dated =>
       /\ s.add = -TimeSup /\ s.who = u /\ x.next = "debt"
       /\ x.num > 0 \/ i = 1

Fits(x, u, t) ==
  /\ x.at = "save" <=> x.todo # <<>>
  /\ x.at # "save" => x.next = "menu"
  /\ x.at = "bail" \/ x.next = "bail" => x.num > 0
  /\ x.at = "ask" /\ x.op \in {"lend", "catch"} => x.who \in Users
  /\ x.at = "ask" /\ x.op = "hunt" => x.had >= Fine
  /\ RegOK(x, t)
  /\ \A i \in 1 .. Len(x.todo) : Proper(x, i, u)

Base == Typed /\ \A w \in Windows : Fits(win[w], Me(w), time)

Others(w) == \A v \in Windows \ {w} : win'[v] = win[v]

LEMMA LoadedOK ==
  ASSUME Typed, NEW s \in Moves, s.key \in Keys
  PROVE  /\ Loaded(s) \in [base : Int, sum : Int] /\ Loaded(s) # NoReg
         /\ Loaded(s).base = val[s.who][s.key]
         /\ Loaded(s).base \in 0 .. Sup(s.key)
         /\ Loaded(s).sum = Loaded(s).base + s.add + (IF s.dated THEN time ELSE 0)
  <1> DEFINE base == loadValue(s.who, s.key)
             sum  == base + s.add + (IF s.dated THEN time ELSE 0)
  <1>1. s.who \in Accounts /\ s.add \in Int /\ time \in Int
    BY Clock DEF Moves
  <1>2. base = val[s.who][s.key] /\ base \in 0 .. Sup(s.key) /\ base \in Nat
    <2>1. Sup(s.key) \in Nat
      BY SupType
    <2> QED BY <1>1, <2>1, LoadIs
  <1>3. Loaded(s) = [base |-> base, sum |-> sum]
    BY DEF Loaded
  <1> HIDE DEF base
  <1>4. sum \in Int
    BY <1>1, <1>2
  <1> HIDE DEF sum
  <1>5. [base |-> base, sum |-> sum] # NoReg
    BY <1>2 DEF NoReg
  <1>6. Loaded(s).base = base /\ Loaded(s).sum = sum
    BY <1>3
  <1> QED BY <1>2, <1>3, <1>4, <1>5, <1>6 DEF sum

LEMMA LoadedRegOK ==
  ASSUME Typed, NEW x, x.todo \in Seq(Moves), x.todo # <<>>, x.todo[1].key \in Keys,
         x.reg = Loaded(x.todo[1])
  PROVE  RegOK(x, time)
  <1> DEFINE s == x.todo[1]
             b == x.reg.base
  <1>1. s \in Moves
    BY HeadTailProperties
  <1>2. /\ b \in 0 .. Sup(s.key)
        /\ x.reg.sum = b + s.add + (IF s.dated THEN time ELSE 0)
    BY <1>1, LoadedOK
  <1>3. s.add \in Int /\ time \in Int /\ Epoch \in Int /\ Epoch <= time /\ b \in Int
    <2>1. now \in 0 .. MaxTime /\ MaxTime \in Nat /\ Epoch \in Nat
      BY MoneyAssumption DEF Typed
    <2>2. Sup(s.key) \in Nat
      BY SupType
    <2> QED BY <1>1, <1>2, <2>1, <2>2 DEF Moves, time
  <1> HIDE DEF s, b
  <1>4. s.dated => x.reg.sum - b - s.add \in Epoch .. time
    BY <1>2, <1>3
  <1>5. ~s.dated => x.reg.sum = b + s.add
    BY <1>2, <1>3
  <1> QED BY <1>2, <1>4, <1>5 DEF RegOK, s, b

LEMMA GoesEffect ==
  ASSUME Typed, NEW w \in Windows, NEW at \in Places, Goes(w, at)
  PROVE  win' \in [Windows -> Wins] /\ Others(w) /\ win'[w] = Away(at)
  BY AwayType DEF Goes, Typed, Others

Nexts   == {"menu", "bail", "debt", "repay", "home", "off"}
Scripts == Seq(Moves) \ {<<>>}

\* A script is begun, with a check of the money that it takes or without one.
Begins(w, todo, next) ==
  Saves(w, todo, next) \/ (Pays(w, todo, next) /\ todo[1].key \in Purse)

LEMMA HeadIs ==
  ASSUME NEW q \in Scripts
  PROVE  Head(q) = q[1] /\ q[1] \in Moves /\ 1 \in 1 .. Len(q) /\ Len(q) \in Nat
  <1>1. q \in Seq(Moves) /\ q # <<>>
    BY DEF Scripts
  <1> QED BY <1>1

LEMMA SavesEffect ==
  ASSUME Typed, NEW w \in Windows, NEW todo \in Scripts, NEW next \in Nexts,
         Begins(w, todo, next)
  PROVE  /\ win' \in [Windows -> Wins] /\ Others(w)
         /\ win'[w].at = "save" /\ win'[w].todo = todo /\ win'[w].next = next
         /\ win'[w].num = win[w].num /\ win'[w].op = win[w].op
         /\ win'[w].reg = NoReg /\ RegOK(win'[w], time)
  <1>1. win \in [Windows -> Wins]
    BY DEF Typed
  <1> DEFINE x == win[w]
             n == loadValue(Head(todo).who, Head(todo).key)
             y1 == [x EXCEPT !.at = "save", !.todo = todo, !.reg = NoReg, !.next = next]
             y2 == [x EXCEPT !.at = "save", !.todo = todo, !.reg = NoReg, !.next = next,
                             !.had = n]
  <1>2. \/ win' = [win EXCEPT ![w] = y1]
        \/ win' = [win EXCEPT ![w] = y2] /\ todo[1].key \in Purse
    <2>1. CASE Saves(w, todo, next)
      BY <1>1, <2>1 DEF Saves
    <2>2. CASE Pays(w, todo, next) /\ todo[1].key \in Purse
      BY <1>1, <2>2 DEF Pays
    <2> QED BY <2>1, <2>2 DEF Begins
  <1>3. todo[1].key \in Purse => n \in Nat
    <2>1. Head(todo) = todo[1] /\ todo[1].who \in Accounts
      BY HeadIs DEF Moves
    <2>2. Purse \subseteq Keys
      BY DEF Purse, Keys
    <2> QED BY <2>1, <2>2, LoadIs
  <1>4. x \in Wins
    BY <1>1
  <1>7. NoReg \in [base : Int, sum : Int] /\ todo \in Seq(Moves)
    BY DEF NoReg, Scripts
  <1> HIDE DEF x, n
  <1>5. PICK y \in Wins :
          /\ win' = [win EXCEPT ![w] = y]
          /\ y.at = "save" /\ y.todo = todo /\ y.next = next
          /\ y.num = x.num /\ y.op = x.op /\ y.reg = NoReg
    <2>1. CASE win' = [win EXCEPT ![w] = y1]
      <3>1. /\ y1 \in Wins /\ y1.at = "save" /\ y1.todo = todo /\ y1.next = next
            /\ y1.num = x.num /\ y1.op = x.op /\ y1.reg = NoReg
        BY <1>4, <1>7 DEF Wins, Places, Nexts
      <3> HIDE DEF y1
      <3> QED BY <2>1, <3>1
    <2>2. CASE win' = [win EXCEPT ![w] = y2] /\ todo[1].key \in Purse
      <3>1. /\ y2 \in Wins /\ y2.at = "save" /\ y2.todo = todo /\ y2.next = next
            /\ y2.num = x.num /\ y2.op = x.op /\ y2.reg = NoReg
        BY <1>3, <1>4, <1>7, <2>2 DEF Wins, Places, Nexts
      <3> HIDE DEF y2
      <3> QED BY <2>2, <3>1
    <2> QED BY <1>2, <2>1, <2>2
  <1>6. win'[w] = y /\ win' \in [Windows -> Wins] /\ Others(w)
    BY <1>1, <1>5 DEF Others
  <1> QED BY <1>5, <1>6 DEF RegOK, x

\* What is remembered of a check.
LEMMA HadEffect ==
  ASSUME Typed, NEW w \in Windows, NEW todo \in Scripts, NEW next \in Nexts
  PROVE  /\ Saves(w, todo, next) => win'[w].had = win[w].had
         /\ Pays(w, todo, next) /\ todo[1].key \in Keys =>
              win'[w].had = val[todo[1].who][todo[1].key]
  <1>1. win \in [Windows -> Wins]
    BY DEF Typed
  <1>2. ASSUME Saves(w, todo, next) PROVE win'[w].had = win[w].had
    BY <1>1, <1>2 DEF Saves, Wins
  <1>3. ASSUME Pays(w, todo, next), todo[1].key \in Keys
        PROVE  win'[w].had = val[todo[1].who][todo[1].key]
    <2>1. Head(todo) = todo[1] /\ todo[1].who \in Accounts
      BY HeadIs DEF Moves
    <2>2. loadValue(todo[1].who, todo[1].key) = val[todo[1].who][todo[1].key]
      BY <1>3, <2>1, LoadIs
    <2>3. win'[w].had = loadValue(Head(todo).who, Head(todo).key)
      BY <1>1, <1>3 DEF Pays, Wins
    <2> QED BY <2>1, <2>2, <2>3
  <1> QED BY <1>2, <1>3

-----------------------------------------------------------------------------
\* A step of one window.
LEMMA FitsAway ==
  ASSUME NEW at \in Places \ {"save", "bail"}, NEW u, NEW t
  PROVE  Fits(Away(at), u, t)
  BY AwayType DEF Fits, RegOK

LEMMA FitsScript ==
  ASSUME NEW x, NEW u, NEW t, x.at = "save", x.todo # <<>>, RegOK(x, t),
         x.next = "bail" => x.num > 0,
         \A i \in 1 .. Len(x.todo) : Proper(x, i, u)
  PROVE  Fits(x, u, t)
  BY DEF Fits

TypedRest ==
  /\ val' \in Values /\ \A u \in Accounts, k \in Keys : val'[u][k] \in 0 .. Sup(k)
  /\ salary_list' \subseteq Users /\ isSalaryTime' \in BOOLEAN
  /\ now' \in 0 .. MaxTime
  /\ paid' \in [Users -> Nat]

LEMMA StepBase ==
  ASSUME Base, NEW w \in Windows, TypedRest, now' = now,
         win' \in [Windows -> Wins], Others(w), Fits(win'[w], Me(w), time)
  PROVE  Base'
  <1>1. time' = time
    BY DEF time
  <1>2. Typed'
    BY DEF Typed, TypedRest
  <1>3. ASSUME NEW v \in Windows PROVE Fits(win'[v], Me(v), time)
    BY <1>3 DEF Others, Base
  <1>4. \A v \in Windows : Fits(win'[v], Me(v)', time')
    BY <1>1, <1>3 DEF Me
  <1> QED BY <1>2, <1>4 DEF Base

LEMMA RestSame ==
  ASSUME Typed, UNCHANGED <<val, salary_list, isSalaryTime, now, paid>>
  PROVE  TypedRest
  BY DEF Typed, TypedRest

\* A step that only goes somewhere.
LEMMA GoesBase ==
  ASSUME Base, NEW w \in Windows, NEW at \in Places \ {"save", "bail"}, Goes(w, at),
         UNCHANGED <<val, salary_list, isSalaryTime, now, paid>>
  PROVE  Base' /\ Others(w) /\ win'[w] = Away(at)
  <1>1. Typed
    BY DEF Base
  <1>2. win' \in [Windows -> Wins] /\ Others(w) /\ win'[w] = Away(at)
    BY <1>1, GoesEffect
  <1> QED BY <1>1, <1>2, FitsAway, RestSame, StepBase

\* A saveValue that Proper says nothing of.
Plain(s) == s.key \notin {"multex", "salary_list", "freeTime"}

LEMMA SavesBase ==
  ASSUME Base, NEW w \in Windows, NEW todo \in Scripts, NEW next \in Nexts \ {"bail"},
         Begins(w, todo, next), UNCHANGED <<val, salary_list, isSalaryTime, now>>,
         paid' \in [Users -> Nat],
         \A i \in 1 .. Len(todo) : Plain(todo[i]) \/ Proper(win'[w], i, Me(w))
  PROVE  /\ Base' /\ Others(w) /\ win'[w].at = "save" /\ win'[w].todo = todo
         /\ win'[w].next = next /\ win'[w].num = win[w].num /\ win'[w].op = win[w].op
         /\ win'[w].reg = NoReg
  <1>1. Typed
    BY DEF Base
  <1>2. /\ win' \in [Windows -> Wins] /\ Others(w)
        /\ win'[w].at = "save" /\ win'[w].todo = todo /\ win'[w].next = next
        /\ win'[w].num = win[w].num /\ win'[w].op = win[w].op
        /\ win'[w].reg = NoReg /\ RegOK(win'[w], time)
    BY <1>1, SavesEffect
  <1>3. \A i \in 1 .. Len(win'[w].todo) : Proper(win'[w], i, Me(w))
    BY <1>2 DEF Plain, Proper
  <1>4. win'[w].todo # <<>> /\ win'[w].next # "bail"
    BY <1>2 DEF Scripts
  <1>5. Fits(win'[w], Me(w), time)
    BY <1>2, <1>3, <1>4 DEF Fits
  <1>6. TypedRest
    BY <1>1 DEF Typed, TypedRest
  <1>7. now' = now
    OBVIOUS
  <1>8. Base'
    BY <1>2, <1>5, <1>6, <1>7, StepBase
  <1> QED BY <1>2, <1>8

\* The scripts.
LEMMA MoneyScripts ==
  /\ \A a, b \in Accounts, j, k \in Purse, m, n \in Int :
       LET todo == <<Save(a, j, m), Save(b, k, n)>> IN
       /\ todo \in Scripts /\ Len(todo) = 2 /\ \A i \in 1 .. Len(todo) : Plain(todo[i])
       /\ \A i \in 1 .. Len(todo) : todo[i].key \in Purse
  /\ \A u \in Accounts, n, d \in Int :
       /\ Granted(u, n, d) \in Scripts /\ Len(Granted(u, n, d)) = 4
       /\ \A i \in 1 .. Len(Granted(u, n, d)) : Plain(Granted(u, n, d)[i])
  /\ \A u \in Accounts, n \in Int :
       /\ Repaid(u, n) \in Scripts /\ Len(Repaid(u, n)) = 4
       /\ Repaid(u, n)[1].key \in Purse
       /\ \A i \in 1 .. Len(Repaid(u, n)) : Plain(Repaid(u, n)[i])
  <1>1. Purse \subseteq Keys /\ \A k \in Purse : k \notin {"multex", "salary_list", "freeTime"}
    BY DEF Purse, Keys
  <1>2. {"bmy_money", "lend_money", "lend_time", "back_time"} \subseteq Keys
    BY DEF Keys, Dates
  <1>3. ASSUME NEW a \in Accounts, NEW b \in Accounts, NEW j \in Purse, NEW k \in Purse,
               NEW m \in Int, NEW n \in Int
        PROVE  LET todo == <<Save(a, j, m), Save(b, k, n)>> IN
               /\ todo \in Scripts /\ Len(todo) = 2 /\ \A i \in 1 .. Len(todo) : Plain(todo[i])
               /\ \A i \in 1 .. Len(todo) : todo[i].key \in Purse
    <2> DEFINE s == Save(a, j, m)
               t == Save(b, k, n)
    <2>1. s \in Moves /\ t \in Moves
      BY <1>1, MoveTypes
    <2>2. Plain(s) /\ Plain(t) /\ s.key \in Purse /\ t.key \in Purse
      BY <1>1 DEF Save, Plain
    <2> HIDE DEF s, t
    <2>3. <<s, t>> \in Scripts /\ Len(<<s, t>>) = 2
      BY <2>1 DEF Scripts
    <2>4. \A i \in 1 .. 2 : <<s, t>>[i] \in {s, t}
      OBVIOUS
    <2> QED BY <2>2, <2>3, <2>4 DEF s, t
  <1>4. ASSUME NEW s \in Moves, NEW t \in Moves, NEW x \in Moves, NEW y \in Moves,
               Plain(s), Plain(t), Plain(x), Plain(y)
        PROVE  /\ <<s, t, x, y>> \in Scripts /\ Len(<<s, t, x, y>>) = 4
               /\ \A i \in 1 .. Len(<<s, t, x, y>>) : Plain(<<s, t, x, y>>[i])
    <2>1. <<s, t, x, y>> \in Seq(Moves) /\ Len(<<s, t, x, y>>) = 4
      BY <1>4
    <2>2. \A i \in 1 .. 4 : <<s, t, x, y>>[i] \in {s, t, x, y}
      OBVIOUS
    <2> QED BY <1>4, <2>1, <2>2 DEF Scripts
  <1>5. ASSUME NEW u \in Accounts, NEW n \in Int, NEW d \in Int
        PROVE  /\ Granted(u, n, d) \in Scripts /\ Len(Granted(u, n, d)) = 4
               /\ \A i \in 1 .. Len(Granted(u, n, d)) : Plain(Granted(u, n, d)[i])
    <2> DEFINE s == Save(u, "bmy_money", n)
               t == Save(u, "lend_money", n)
               x == SaveDate(u, "lend_time", 0)
               y == SaveDate(u, "back_time", d)
    <2>1. s \in Moves /\ t \in Moves /\ x \in Moves /\ y \in Moves
      BY <1>2, MoveTypes
    <2>2. Plain(s) /\ Plain(t) /\ Plain(x) /\ Plain(y)
      BY DEF Plain, Save, SaveDate
    <2>3. Granted(u, n, d) = <<s, t, x, y>>
      BY DEF Granted
    <2> HIDE DEF s, t, x, y
    <2> QED BY <2>1, <2>2, <2>3, <1>4
  <1>6. ASSUME NEW u \in Accounts, NEW n \in Int
        PROVE  /\ Repaid(u, n) \in Scripts /\ Len(Repaid(u, n)) = 4
               /\ Repaid(u, n)[1].key \in Purse
               /\ \A i \in 1 .. Len(Repaid(u, n)) : Plain(Repaid(u, n)[i])
    <2> DEFINE s == Save(u, "bmy_money", -n)
               t == Erase(u, "lend_money")
               x == Erase(u, "lend_time")
               y == Erase(u, "back_time")
    <2>1. s \in Moves /\ t \in Moves /\ x \in Moves /\ y \in Moves
      BY <1>2, MoveTypes
    <2>2. Plain(s) /\ Plain(t) /\ Plain(x) /\ Plain(y)
      BY DEF Plain, Save, Erase
    <2>3. Repaid(u, n) = <<s, t, x, y>>
      BY DEF Repaid
    <2>4. s.key \in Purse
      BY DEF Save, Purse
    <2> HIDE DEF s, t, x, y
    <2>5. <<s, t, x, y>>[1] = s
      OBVIOUS
    <2> QED BY <2>1, <2>2, <2>3, <2>4, <2>5, <1>4
  <1> QED BY <1>3, <1>5, <1>6

LEMMA MarkedScripts ==
  \A todo \in Seq(Moves), u \in Users :
    (\A i \in 1 .. Len(todo) : Plain(todo[i])) =>
      /\ Append(todo, Mark(u)) \in Scripts /\ Len(Append(todo, Mark(u))) = Len(todo) + 1
      /\ \A i \in 1 .. Len(todo) : Append(todo, Mark(u))[i] = todo[i] /\ Plain(Append(todo, Mark(u))[i])
      /\ Append(todo, Mark(u))[Len(todo) + 1] = Mark(u)
  <1> SUFFICES ASSUME NEW todo \in Seq(Moves), NEW u \in Users,
                      \A i \in 1 .. Len(todo) : Plain(todo[i])
               PROVE  /\ Append(todo, Mark(u)) \in Scripts
                      /\ Len(Append(todo, Mark(u))) = Len(todo) + 1
                      /\ \A i \in 1 .. Len(todo) : Append(todo, Mark(u))[i] = todo[i]
                                                   /\ Plain(Append(todo, Mark(u))[i])
                      /\ Append(todo, Mark(u))[Len(todo) + 1] = Mark(u)
    OBVIOUS
  <1> DEFINE m == Mark(u)
  <1>1. m \in Moves
    BY MoveTypes, Accounted
  <1> HIDE DEF m
  <1>2. /\ Append(todo, m) \in Seq(Moves) /\ Len(Append(todo, m)) = Len(todo) + 1
        /\ \A i \in 1 .. Len(todo) : Append(todo, m)[i] = todo[i]
        /\ Append(todo, m)[Len(todo) + 1] = m
    BY <1>1
  <1>3. Append(todo, m) # <<>>
    BY <1>2
  <1> QED BY <1>2, <1>3 DEF Scripts, m

-----------------------------------------------------------------------------
\* Base, action by action. Whoever is not saving has nothing to save.
LEMMA Idle ==
  ASSUME Base, NEW w \in Windows, win[w].at # "save"
  PROVE  win[w].todo = <<>> /\ win[w].next = "menu" /\ win[w] \in Wins
  BY DEF Base, Fits, Typed

LEMMA WalkBase ==
  ASSUME Base, NEW w \in Windows, win[w].at # "save",
         UNCHANGED <<val, salary_list, isSalaryTime, now, paid>>,
         NEW y \in Wins, win' = [win EXCEPT ![w] = y],
         y.todo = <<>>, y.next = "menu", y.at \notin {"save", "bail"},
         y.at = "ask" /\ y.op \in {"lend", "catch"} => y.who \in Users,
         y.at = "ask" /\ y.op = "hunt" => y.had >= Fine
  PROVE  Base' /\ Others(w) /\ win'[w] = y
  <1>1. Typed
    BY DEF Base
  <1>2. win' \in [Windows -> Wins] /\ Others(w) /\ win'[w] = y
    BY <1>1 DEF Typed, Others
  <1>3. Fits(y, Me(w), time)
    BY DEF Fits, RegOK
  <1> QED BY <1>1, <1>2, <1>3, RestSame, StepBase

LEMMA InitBase ==
  ASSUME Init
  PROVE  Base
  <1>1. PICK setup \in Setups :
          /\ val = setup.val /\ isSalaryTime = setup.isSalaryTime
          /\ win = [w \in Windows |-> Away(IF w \in setup.crew THEN "home" ELSE "unused")]
    BY DEF Init
  <1>2. val \in Values /\ \A u \in Accounts, k \in Keys : val[u][k] \in 0 .. Sup(k)
    <2>1. setup.val \in {s.val : s \in Setups}
      OBVIOUS
    <2>2. \A u \in Accounts : /\ setup.val \in [Accounts -> [Keys -> Nat]]
                              /\ \A key \in Keys : setup.val[u][key] \in 0 .. Sup(key)
      BY <2>1, MoneyAssumption
    <2>3. House \in Accounts
      BY DEF Accounts
    <2> QED BY <1>1, <2>2, <2>3 DEF Values
  <1>3. isSalaryTime \in BOOLEAN
    BY <1>1, MoneyAssumption
  <1>4. \A w \in Windows : \E at \in {"home", "unused"} : win[w] = Away(at)
    BY <1>1
  <1>5. {"home", "unused"} \subseteq Places \ {"save", "bail"}
    BY DEF Places
  <1>6. win \in [Windows -> Wins]
    <2>1. \A w \in Windows : win[w] \in Wins
      BY <1>4, <1>5, AwayType
    <2> QED BY <1>1, <2>1
  <1>7. \A w \in Windows : Fits(win[w], Me(w), time)
    BY <1>4, <1>5, FitsAway
  <1>8. now \in 0 .. MaxTime /\ paid \in [Users -> Nat] /\ salary_list \subseteq Users
    BY MoneyAssumption DEF Init
  <1> QED BY <1>2, <1>3, <1>6, <1>7, <1>8 DEF Base, Typed

LEMMA TickBase ==
  ASSUME Base, Tick
  PROVE  Base' /\ time' = time + 1
  <1>1. Typed /\ win' = win /\ now' = now + 1 /\ now < MaxTime /\ now \in 0 .. MaxTime /\ MaxTime \in Nat
    BY MoneyAssumption DEF Base, Typed, Tick
  <1>2. time' = time + 1 /\ time \in Int /\ Epoch \in Int
    BY <1>1, Clock DEF time
  <1>3. Typed'
    BY <1>1 DEF Typed, Tick, history
  <1>4. ASSUME NEW w \in Windows, Fits(win[w], Me(w), time)
        PROVE  Fits(win[w], Me(w), time + 1)
    <2> DEFINE x == win[w]
               s == x.todo[1]
    <2>2. RegOK(x, time + 1)
      <3> SUFFICES ASSUME x.reg # NoReg, x.todo # <<>>, s.key \in Keys PROVE RegOK(x, time + 1)
        BY DEF RegOK
      <3>1. RegOK(x, time)
        BY <1>4 DEF Fits
      <3> QED BY <1>2, <3>1 DEF RegOK
    <2> QED BY <1>4, <2>2 DEF Fits
  <1>5. \A w \in Windows : Fits(win'[w], Me(w)', time')
    BY <1>1, <1>2, <1>4 DEF Base, Me
  <1> QED BY <1>2, <1>3, <1>5 DEF Base

\* The rest of a script, or what follows it.
MovesOn(w) ==
  /\ Tail(win[w].todo) # <<>> =>
       /\ win'[w].at = "save" /\ win'[w].todo = Tail(win[w].todo)
       /\ win'[w].reg = NoReg
       /\ win'[w].num = win[w].num /\ win'[w].op = win[w].op /\ win'[w].next = win[w].next
  /\ Tail(win[w].todo) = <<>> => win'[w].todo = <<>> /\ win'[w].at = win[w].next

LEMMA SavedBase ==
  ASSUME Base, NEW w \in Windows, win[w].at = "save", now' = now, TypedRest,
         win' = [win EXCEPT ![w] = Saved(w)]
  PROVE  /\ Base' /\ Others(w) /\ win[w].todo \in Scripts
         /\ MovesOn(w)
  <1> DEFINE x == win[w]
             rest == Tail(x.todo)
             y == Saved(w)
  <1>1. Typed /\ Bounded(val') /\ x \in Wins /\ Fits(x, Me(w), time) /\ win \in [Windows -> Wins]
    BY DEF Base, Typed, TypedRest, Bounded
  <1>2. x.todo \in Seq(Moves) /\ x.todo # <<>> /\ rest \in Seq(Moves)
    <2>1. x.todo \in Seq(Moves) /\ x.todo # <<>>
      BY <1>1 DEF Wins, Fits
    <2> QED BY <2>1
  <1>3. /\ Len(rest) = Len(x.todo) - 1 /\ Len(x.todo) \in Nat
        /\ \A i \in 1 .. Len(rest) : rest[i] = x.todo[i + 1]
    BY <1>2
  <1>4. CASE rest # <<>>
    <2> DEFINE r == NoReg
    <2>1. y = [x EXCEPT !.todo = rest, !.reg = r]
      BY <1>4 DEF Saved
    <2>2. r \in [base : Int, sum : Int]
      BY DEF NoReg
    <2> HIDE DEF r, rest
    <2>3. /\ y \in Wins /\ y.at = "save" /\ y.todo = rest /\ y.reg = r /\ y.num = x.num
          /\ y.op = x.op /\ y.next = x.next
      <3> HIDE DEF x, y
      <3>1. x.at = "save"
        BY DEF x
      <3> QED BY <1>1, <1>2, <2>1, <2>2, <3>1 DEF Wins
    <2> HIDE DEF x, y
    <2>4. RegOK(y, time)
      BY <2>3 DEF RegOK, r
    <2>5. ASSUME NEW i \in 1 .. Len(rest) PROVE Proper(y, i, Me(w))
      <3>1. i + 1 \in 1 .. Len(x.todo) /\ i + 1 # 1 /\ i \in Int
        BY <1>3
      <3>2. Proper(x, i + 1, Me(w))
        BY <1>1, <3>1 DEF Fits
      <3>3. y.todo[i] = x.todo[i + 1] /\ Len(y.todo) = Len(x.todo) - 1
        BY <1>3, <2>3
      <3> QED BY <1>3, <2>3, <3>1, <3>2, <3>3 DEF Proper
    <2>6. y.next = "bail" => y.num > 0
      BY <1>1, <2>3 DEF Fits
    <2>7. Fits(y, Me(w), time)
      BY <1>4, <2>3, <2>4, <2>5, <2>6 DEF Fits
    <2>8. win' = [win EXCEPT ![w] = y]
      BY DEF y
    <2>9. win' \in [Windows -> Wins] /\ Others(w) /\ win'[w] = y
      BY <1>1, <2>3, <2>8 DEF Others
    <2>10. Base'
      BY <2>7, <2>9, StepBase
    <2> QED BY <1>2, <1>4, <2>3, <2>9, <2>10 DEF x, r, rest, Scripts, MovesOn
  <1>5. CASE rest = <<>>
    <2>1. y = IF x.next \in {"bail", "debt", "repay"}
              THEN [x EXCEPT !.todo = <<>>, !.reg = NoReg, !.at = x.next, !.next = "menu"]
              ELSE Away(x.next)
      BY <1>5 DEF Saved
    <2>2. x.next \in Nexts /\ x.next \in Places /\ x.next # "save"
      BY <1>1 DEF Wins, Nexts, Places
    <2>3. y \in Wins /\ y.todo = <<>> /\ y.at = x.next /\ Fits(y, Me(w), time)
      <3>1. CASE x.next \in {"bail", "debt", "repay"}
        <4> DEFINE z == [x EXCEPT !.todo = <<>>, !.reg = NoReg, !.at = x.next, !.next = "menu"]
        <4>1. <<>> \in Seq(Moves)
          OBVIOUS
        <4>2. z \in Wins /\ z.todo = <<>> /\ z.at = x.next /\ z.next = "menu" /\ z.num = x.num
          <5>1. NoReg \in [base : Int, sum : Int]
            BY DEF NoReg
          <5>2. x \in Wins
            BY <1>1
          <5> HIDE DEF x
          <5>3. z \in Wins
            BY <2>2, <4>1, <5>1, <5>2 DEF Wins
          <5>4. z.todo = <<>> /\ z.at = x.next /\ z.next = "menu" /\ z.num = x.num
            BY <5>2 DEF Wins
          <5> QED BY <5>3, <5>4
        <4>3. x.next = "bail" => x.num > 0
          BY <1>1 DEF Fits
        <4> HIDE DEF z
        <4>4. Fits(z, Me(w), time)
          BY <3>1, <4>2, <4>3 DEF Fits, RegOK
        <4> QED BY <2>1, <3>1, <4>2, <4>4 DEF z
      <3>2. CASE x.next \notin {"bail", "debt", "repay"}
        BY <2>1, <2>2, <3>2, AwayType, FitsAway
      <3> QED BY <3>1, <3>2
    <2> HIDE DEF y, x
    <2>4. win' = [win EXCEPT ![w] = y]
      BY DEF y
    <2>5. win' \in [Windows -> Wins] /\ Others(w) /\ win'[w] = y
      BY <1>1, <2>3, <2>4 DEF Others
    <2>6. Base'
      BY <2>3, <2>5, StepBase
    <2> QED BY <1>2, <1>5, <2>3, <2>5, <2>6 DEF x, Scripts, MovesOn
  <1> QED BY <1>4, <1>5

LEMMA FirstMove ==
  ASSUME Base, NEW w \in Windows, win[w].at = "save"
  PROVE  /\ win[w].todo \in Scripts /\ Head(win[w].todo) = win[w].todo[1]
         /\ win[w].todo[1] \in Moves /\ 1 \in 1 .. Len(win[w].todo)
         /\ win[w].reg \in [base : Int, sum : Int]
         /\ RegOK(win[w], time) /\ Proper(win[w], 1, Me(w))
  <1>1. win[w] \in Wins /\ Fits(win[w], Me(w), time)
    BY DEF Base, Typed
  <1>2. win[w].todo \in Seq(Moves) /\ win[w].todo # <<>> /\ win[w].reg \in [base : Int, sum : Int]
    BY <1>1 DEF Wins, Fits
  <1>3. /\ Head(win[w].todo) = win[w].todo[1] /\ win[w].todo[1] \in Moves
        /\ 1 \in 1 .. Len(win[w].todo)
    <2> DEFINE q == win[w].todo
    <2>1. q \in Seq(Moves) /\ q # <<>>
      BY <1>2
    <2> HIDE DEF q
    <2>2. Head(q) = q[1] /\ q[1] \in Moves /\ 1 \in 1 .. Len(q)
      BY <2>1
    <2> QED BY <2>2 DEF q
  <1> QED BY <1>1, <1>2, <1>3 DEF Fits, Scripts

LEMMA StoreBase ==
  ASSUME Base, NEW w \in Windows, Store(w)
  PROVE  LET s == win[w].todo[1] IN
         /\ Base' /\ Others(w) /\ s \in Moves /\ s.key \in Keys
         /\ val'[s.who][s.key] = limitValue(win[w].reg.sum, Sup(s.key))
         /\ \A u \in Accounts, k \in Keys :
              (u # s.who \/ k # s.key) => val'[u][k] = val[u][k]
         /\ s.key \in Loan /\ win[w].reg.base # val[s.who][s.key] => s.who \in muddled'
         /\ s.key = "freeTime" /\ win[w].reg.base # val[s.who][s.key] => s.who \in seized'
         /\ win[w].reg # NoReg /\ MovesOn(w)
  <1> DEFINE s == win[w].todo[1]
             n == limitValue(win[w].reg.sum, Sup(s.key))
  <1>1. win[w].at = "save" /\ Head(win[w].todo) = s /\ win[w].reg # NoReg
    BY FirstMove DEF Store
  <1>2. s \in Moves /\ s.key \in Keys /\ s.who \in Accounts
    BY <1>1, FirstMove DEF Store, Moves
  <1>3. n \in 0 .. Sup(s.key) /\ n \in Nat
    <2>1. win[w].reg.sum \in Int
      BY <1>1, FirstMove
    <2>2. Sup(s.key) \in Nat /\ Sup(s.key) <= IntMax
      BY <1>2, SupType
    <2> HIDE DEF s
    <2>3. n \in 0 .. Sup(s.key)
      BY <2>1, <2>2, LimitType
    <2> QED BY <2>2, <2>3
  <1>4. val' = [val EXCEPT ![s.who][s.key] = n]
    BY <1>1 DEF Store
  <1>5. val \in Values /\ \A u \in Accounts, k \in Keys : val[u][k] \in 0 .. Sup(k)
    BY DEF Base, Typed
  <1> HIDE DEF n
  <1>6. /\ val' \in Values /\ val'[s.who][s.key] = n
        /\ \A u \in Accounts, k \in Keys : (u # s.who \/ k # s.key) => val'[u][k] = val[u][k]
    <2> HIDE DEF s
    <2> QED BY <1>2, <1>3, <1>4, <1>5 DEF Values
  <1>7. TypedRest
    <2>1. \A u \in Accounts, k \in Keys : val'[u][k] \in 0 .. Sup(k)
      <3> HIDE DEF s
      <3> QED BY <1>2, <1>3, <1>5, <1>6
    <2> QED BY <1>6, <2>1 DEF TypedRest, Store, Base, Typed
  <1>8. now' = now /\ win' = [win EXCEPT ![w] = Saved(w)]
    BY DEF Store
  <1>9. /\ s.key \in Loan /\ win[w].reg.base # val[s.who][s.key] => s.who \in muddled'
        /\ s.key = "freeTime" /\ win[w].reg.base # val[s.who][s.key] => s.who \in seized'
    <2>1. Lost(w) <=> val[s.who][s.key] # win[w].reg.base
      BY <1>1 DEF Lost
    <2> QED BY <1>1, <2>1 DEF Store
  <1> HIDE DEF s
  <1>10. Base' /\ Others(w) /\ win[w].todo \in Scripts /\ MovesOn(w)
    BY <1>1, <1>7, <1>8, SavedBase
  <1> QED BY <1>1, <1>2, <1>6, <1>9, <1>10 DEF s, n

LEMMA ListBase ==
  ASSUME Base, NEW w \in Windows, List(w)
  PROVE  LET s == win[w].todo[1] IN
         /\ Base' /\ Others(w) /\ val' = val /\ s.key = "salary_list" /\ s.who = Me(w)
         /\ salary_list' = salary_list \cup {s.who}
         /\ MovesOn(w)
  <1> DEFINE s == win[w].todo[1]
  <1>1. /\ win[w].at = "save" /\ Head(win[w].todo) = s /\ val' = val /\ now' = now
        /\ s.key = "salary_list" /\ salary_list' = salary_list \cup {s.who}
    BY FirstMove DEF List
  <1>2. s.who = Me(w) /\ s.who \in Users
    BY <1>1, FirstMove, Accounted DEF Proper
  <1>3. TypedRest
    BY <1>1, <1>2 DEF TypedRest, List, Base, Typed, history
  <1>4. win' = [win EXCEPT ![w] = Saved(w)]
    BY <1>1 DEF List
  <1> HIDE DEF s
  <1>5. Base' /\ Others(w) /\ MovesOn(w)
    BY <1>1, <1>3, <1>4, SavedBase
  <1> QED BY <1>1, <1>2, <1>5 DEF s

\* What the files hold after a step that stores nothing.
Kept == val' = val /\ now' = now

\* A load leaves the script as it is.
LEMMA LoadBase ==
  ASSUME Base, NEW w \in Windows, Load(w)
  PROVE  /\ Base' /\ Others(w) /\ Kept /\ win[w].at = "save" /\ win[w].reg = NoReg
         /\ win[w].todo \in Scripts /\ win[w].todo[1] \in Moves
         /\ win[w].todo[1].key \in Keys
         /\ win'[w].at = win[w].at /\ win'[w].todo = win[w].todo
         /\ win'[w].next = win[w].next /\ win'[w].num = win[w].num
         /\ win'[w].op = win[w].op /\ win'[w].reg = Loaded(win[w].todo[1])
  <1> DEFINE x == win[w]
             s == x.todo[1]
             r == Loaded(s)
             y == [x EXCEPT !.reg = r, !.had = 0]
  <1>1. /\ x.at = "save" /\ x.reg = NoReg /\ Head(x.todo) = s /\ s \in Moves
        /\ x.todo \in Scripts /\ s.key \in Keys /\ \A i \in 1 .. Len(x.todo) : Proper(x, i, Me(w))
    BY FirstMove DEF Load, Base, Fits
  <1>2. Typed /\ win \in [Windows -> Wins] /\ x \in Wins /\ Fits(x, Me(w), time)
    BY DEF Base, Typed
  <1>3. win' = [win EXCEPT ![w] = y]
    BY <1>1, <1>2 DEF Load
  <1>4. UNCHANGED <<val, salary_list, isSalaryTime, now, paid>>
    BY DEF Load
  <1>5. r \in [base : Int, sum : Int]
    BY <1>1, <1>2, LoadedOK
  <1> HIDE DEF x, r
  <1>6. /\ y \in Wins /\ y.at = x.at /\ y.todo = x.todo /\ y.next = x.next /\ y.num = x.num
        /\ y.op = x.op /\ y.reg = r
    BY <1>2, <1>5 DEF Wins
  <1> HIDE DEF y
  <1>7. RegOK(y, time)
    BY <1>1, <1>2, <1>6, LoadedRegOK DEF r, Scripts
  <1>8. \A i \in 1 .. Len(y.todo) : Proper(y, i, Me(w))
    BY <1>1, <1>6 DEF Proper
  <1>9. Fits(y, Me(w), time)
    BY <1>1, <1>2, <1>6, <1>7, <1>8 DEF Fits
  <1>10. win' \in [Windows -> Wins] /\ Others(w) /\ win'[w] = y
    BY <1>2, <1>3, <1>6 DEF Others
  <1>11. Base'
    BY <1>2, <1>4, <1>9, <1>10, RestSame, StepBase
  <1> QED BY <1>1, <1>4, <1>6, <1>10, <1>11 DEF Kept, x, r

LEMMA KnockBase ==
  ASSUME Base, NEW w \in Windows, Knock(w)
  PROVE  /\ Base' /\ Others(w) /\ Kept /\ win[w].at = "home"
         /\ win'[w].at \in {"save", "bail", "debt"} /\ win'[w].op = "none"
         /\ \/ /\ win'[w].todo = <<Erase(Me(w), "freeTime")>> /\ win'[w].next = "debt"
               /\ 0 < val[Me(w)]["freeTime"] /\ val[Me(w)]["freeTime"] < time
            \/ /\ win'[w].todo = <<SaveDate(Me(w), "freeTime", 1)>> /\ win'[w].next = "bail"
               /\ val[Me(w)]["freeTime"] > time + Far
            \/ /\ win'[w].todo = <<>> /\ win'[w].next = "menu"
               /\ win'[w].at \in {"bail", "debt"}
  <1> DEFINE u    == Me(w)
             free == loadValue(u, "freeTime")
             left == free - time
             in   == [Away("debt") EXCEPT !.days = now]
             era  == <<Erase(u, "freeTime")>>
             dat  == <<SaveDate(u, "freeTime", 1)>>
             y1   == [in EXCEPT !.at = "save", !.todo = era, !.next = "debt"]
             y2   == [in EXCEPT !.at = "save", !.todo = dat, !.next = "bail", !.num = left + 1]
             y3   == [in EXCEPT !.at = "bail", !.num = left + 1]
  <1>1. Typed /\ win \in [Windows -> Wins] /\ u \in Users /\ u \in Accounts /\ "freeTime" \in Keys
    BY Accounted DEF Base, Typed, Keys, Dates
  <1>2. free = val[u]["freeTime"] /\ free \in Nat /\ free <= TimeSup
    <2>1. Sup("freeTime") = TimeSup
      BY SupType
    <2> QED BY <1>1, <2>1, LoadIs
  <1>3. time \in Nat /\ now \in Nat /\ Far \in Nat /\ TimeSup \in Nat
    BY <1>1, Clock, MoneyAssumption
  <1>4. /\ in \in Wins /\ in.at = "debt" /\ in.todo = <<>> /\ in.next = "menu" /\ in.op = "none"
        /\ in.num = 0 /\ in.reg = NoReg
    <2>1. <<>> \in Seq(Moves) /\ NoReg \in [base : Int, sum : Int]
      BY DEF NoReg
    <2> QED BY <1>3, <2>1 DEF Away, Wins, Places
  <1>5. /\ Len(era) = 1 /\ era[1] = Erase(u, "freeTime") /\ era \in Scripts
        /\ Len(dat) = 1 /\ dat[1] = SaveDate(u, "freeTime", 1) /\ dat \in Scripts
    <2> DEFINE e == Erase(u, "freeTime")
               d == SaveDate(u, "freeTime", 1)
    <2>1. e \in Moves /\ d \in Moves
      BY <1>1, MoveTypes
    <2> HIDE DEF e, d
    <2>2. <<e>> \in Scripts /\ <<d>> \in Scripts
      BY <2>1 DEF Scripts
    <2> QED BY <2>2 DEF e, d
  <1>8. era \in Seq(Moves) /\ dat \in Seq(Moves)
    BY <1>5 DEF Scripts
  <1>9. /\ y1 \in Wins /\ y1.at = "save" /\ y1.todo = era /\ y1.next = "debt" /\ y1.op = "none"
        /\ y1.num = 0 /\ y1.reg = NoReg
    <2> HIDE DEF in, era, dat
    <2> QED BY <1>4, <1>8 DEF Wins, Places
  <1>10. ASSUME left > 0
         PROVE  /\ y2 \in Wins /\ y2.at = "save" /\ y2.todo = dat /\ y2.next = "bail"
                /\ y2.op = "none" /\ y2.num = left + 1 /\ y2.reg = NoReg
                /\ y3 \in Wins /\ y3.at = "bail" /\ y3.todo = <<>> /\ y3.next = "menu"
                /\ y3.op = "none" /\ y3.num = left + 1
    <2>1. left + 1 \in Nat
      BY <1>2, <1>3, <1>10
    <2> HIDE DEF in, era, dat, left
    <2> QED BY <1>4, <1>8, <2>1 DEF Wins, Places
  <1> DEFINE y == CASE TermOver(time, free) -> y1
                    [] ~TermOver(time, free) /\ left > Far -> y2
                    [] ~TermOver(time, free) /\ left \in 1 .. Far -> y3
                    [] OTHER -> in
  <1>12. win' = [win EXCEPT ![w] = y] /\ Kept /\ win[w].at = "home" /\ TypedRest
    <2>1. UNCHANGED <<val, salary_list, isSalaryTime, now, paid>>
      BY DEF Knock
    <2>2. TypedRest
      BY <1>1, <2>1, RestSame
    <2> QED BY <2>1, <2>2 DEF Knock, Kept
  <1> HIDE DEF u, free, left, in
  <1>14. \/ y = y1 /\ TermOver(time, free)
         \/ y = y2 /\ left > Far
         \/ y = y3 /\ left \in 1 .. Far
         \/ y = in
    OBVIOUS
  <1>15. y \in Wins /\ Fits(y, u, time) /\ y.at \in {"save", "bail", "debt"} /\ y.op = "none"
         /\ \/ y.todo = era /\ y.next = "debt" /\ 0 < free /\ free < time
            \/ y.todo = dat /\ y.next = "bail" /\ free > time + Far
            \/ y.todo = <<>> /\ y.next = "menu" /\ y.at \in {"bail", "debt"}
    <2>1. CASE y = y1 /\ TermOver(time, free)
      <3> HIDE DEF y, y1, y2, y3
      <3>1. RegOK(y1, time)
        BY <1>9 DEF RegOK
      <3>2. 0 < free /\ free < time
        BY <1>2, <1>3, <2>1 DEF TermOver
      <3>3. y1.todo[1] = Erase(u, "freeTime") /\ Len(y1.todo) = 1
        BY <1>5, <1>9
      <3>4. \A i \in 1 .. Len(y1.todo) : Proper(y1, i, u)
        <4>1. Sup("freeTime") = TimeSup
          BY SupType
        <4>2. Proper(y1, 1, u)
          BY <1>1, <1>9, <3>3, <4>1 DEF Proper, Erase, Save
        <4> QED BY <3>3, <4>2
      <3>5. y1.todo # <<>>
        BY <1>5, <1>9
      <3>6. Fits(y1, u, time)
        BY <1>9, <3>1, <3>4, <3>5, FitsScript
      <3> QED BY <1>9, <2>1, <3>2, <3>6
    <2>2. CASE y = y2 /\ left > Far
      <3> HIDE DEF y, y1, y2, y3
      <3>1. left > 0 /\ left \in Int /\ free > time + Far
        BY <1>2, <1>3, <2>2 DEF left
      <3>2. RegOK(y2, time)
        BY <1>10, <3>1 DEF RegOK
      <3>3. y2.todo[1] = SaveDate(u, "freeTime", 1) /\ Len(y2.todo) = 1
        BY <1>5, <1>10, <3>1
      <3>4. \A i \in 1 .. Len(y2.todo) : Proper(y2, i, u)
        <4>1. Proper(y2, 1, u)
          BY <1>1, <3>3 DEF Proper, SaveDate
        <4> QED BY <3>3, <4>1
      <3>5. y2.todo # <<>> /\ y2.num > 0
        <4>1. y2.todo = dat /\ y2.num = left + 1
          BY <1>10, <3>1
        <4>2. dat # <<>>
          BY <1>5 DEF Scripts
        <4> QED BY <3>1, <4>1, <4>2
      <3>6. Fits(y2, u, time)
        BY <1>10, <3>1, <3>2, <3>4, <3>5, FitsScript
      <3> QED BY <1>10, <2>2, <3>1, <3>6
    <2>3. CASE y = y3 /\ left \in 1 .. Far
      <3>1. left > 0 /\ left \in Int
        BY <1>3, <2>3
      <3> HIDE DEF y, y1, y2, y3
      <3>2. Fits(y3, u, time)
        BY <1>10, <3>1 DEF Fits, RegOK
      <3> QED BY <1>10, <2>3, <3>1, <3>2
    <2>4. CASE y = in
      <3> HIDE DEF y, y1, y2, y3
      <3>1. Fits(in, u, time)
        BY <1>4 DEF Fits, RegOK
      <3> QED BY <1>4, <2>4, <3>1
    <2> QED BY <1>14, <2>1, <2>2, <2>3, <2>4
  <1> HIDE DEF y
  <1>16. win' \in [Windows -> Wins] /\ Others(w) /\ win'[w] = y
    BY <1>1, <1>12, <1>15 DEF Others
  <1>17. Base'
    BY <1>12, <1>15, <1>16, StepBase DEF Kept, u
  <1> QED BY <1>2, <1>12, <1>15, <1>16, <1>17 DEF u

\* Nothing but the windows changes.
LEMMA Quiet ==
  ASSUME Base, UNCHANGED <<val, salary_list, isSalaryTime, now>>
  PROVE  Kept
  BY DEF Kept

BailScript(u, num) ==
  <<Save(u, "bmy_money", -num), Save(House, "bmy_money", num), Erase(u, "freeTime")>>

LEMMA BailScripts ==
  \A u \in Users, num \in Int :
    /\ BailScript(u, num) \in Scripts /\ Len(BailScript(u, num)) = 3
    /\ Plain(BailScript(u, num)[1]) /\ Plain(BailScript(u, num)[2])
    /\ BailScript(u, num)[3] = Erase(u, "freeTime")
  <1> SUFFICES ASSUME NEW u \in Users, NEW num \in Int
               PROVE  /\ BailScript(u, num) \in Scripts /\ Len(BailScript(u, num)) = 3
                      /\ Plain(BailScript(u, num)[1]) /\ Plain(BailScript(u, num)[2])
                      /\ BailScript(u, num)[3] = Erase(u, "freeTime")
    OBVIOUS
  <1> DEFINE a == Save(u, "bmy_money", -num)
             b == Save(House, "bmy_money", num)
             c == Erase(u, "freeTime")
  <1>1. {"bmy_money", "freeTime"} \subseteq Keys
    BY DEF Keys, Dates
  <1>2. a \in Moves /\ b \in Moves /\ c \in Moves
    BY <1>1, MoveTypes, Accounted
  <1>3. Plain(a) /\ Plain(b)
    BY DEF Plain, Save
  <1>4. BailScript(u, num) = <<a, b, c>>
    BY DEF BailScript
  <1> HIDE DEF a, b, c
  <1>5. /\ <<a, b, c>> \in Seq(Moves) /\ <<a, b, c>> # <<>> /\ Len(<<a, b, c>>) = 3
        /\ <<a, b, c>>[1] = a /\ <<a, b, c>>[2] = b /\ <<a, b, c>>[3] = c
    BY <1>2
  <1> QED BY <1>3, <1>4, <1>5 DEF Scripts, c

LEMMA BailBase ==
  ASSUME Base, NEW w \in Windows, Bail(w)
  PROVE  /\ Base' /\ Others(w) /\ Kept /\ win[w].at = "bail"
         /\ \/ win'[w] = Away("home")
            \/ /\ win'[w].at = "save" /\ win'[w].next = "debt" /\ win'[w].num > 0
               /\ \E num \in Int : win'[w].todo = BailScript(Me(w), num)
  <1> DEFINE u   == Me(w)
             num == win[w].num
             todo == BailScript(u, num)
  <1>1. /\ Typed /\ win[w].at = "bail" /\ win[w] \in Wins /\ u \in Users
        /\ UNCHANGED <<val, salary_list, isSalaryTime, now, paid>>
    BY Accounted DEF Bail, Base, Typed, history
  <1>2. num \in Nat /\ num > 0
    BY <1>1 DEF Base, Fits, Wins
  <1>3. CASE Goes(w, "home")
    <2>1. "home" \in Places \ {"save", "bail"}
      BY DEF Places
    <2> QED BY <1>1, <1>3, <2>1, GoesBase DEF Kept
  <1>4. CASE Pays(w, todo, "debt")
    <2>1. todo \in Scripts /\ Len(todo) = 3 /\ Plain(todo[1]) /\ Plain(todo[2])
          /\ todo[3] = Erase(u, "freeTime")
      BY <1>1, <1>2, BailScripts
    <2>2. "debt" \in Nexts \ {"bail"} /\ paid' \in [Users -> Nat]
      BY <1>1 DEF Nexts, Typed
    <2>6. Begins(w, todo, "debt")
      <3>1. todo[1].key \in Purse
        BY DEF BailScript, Save, Purse
      <3> QED BY <1>4, <3>1 DEF Begins
    <2> HIDE DEF todo, u
    <2>3. /\ win'[w].todo = todo /\ win'[w].next = "debt" /\ win'[w].num = num
      BY <1>1, <2>1, <2>2, <2>6, SavesEffect
    <2>4. Proper(win'[w], 3, u)
      <3>1. Sup("freeTime") = TimeSup /\ u \in Users
        BY <1>1, SupType
      <3> QED BY <1>2, <2>1, <2>3, <3>1 DEF Proper, Erase, Save
    <2>5. \A i \in 1 .. Len(todo) : Plain(todo[i]) \/ Proper(win'[w], i, Me(w))
      BY <2>1, <2>4 DEF u
    <2>7. /\ Base' /\ Others(w) /\ win'[w].at = "save" /\ win'[w].todo = todo
          /\ win'[w].next = "debt" /\ win'[w].num = win[w].num
      BY <1>1, <2>1, <2>2, <2>5, <2>6, SavesBase
    <2> QED BY <1>1, <1>2, <2>7 DEF Kept, todo, u
  <1> QED BY <1>3, <1>4 DEF Bail, BailScript

DebtScript(u, back) ==
  Append(IF back - time > Far THEN <<SaveDate(u, "back_time", 1)>> ELSE <<>>, Mark(u))

LEMMA DebtScripts ==
  \A u \in Users, back \in Int :
    /\ DebtScript(u, back) \in Scripts /\ Len(DebtScript(u, back)) > 0
    /\ \A i \in 1 .. Len(DebtScript(u, back)) - 1 : Plain(DebtScript(u, back)[i])
    /\ DebtScript(u, back)[Len(DebtScript(u, back))] = Mark(u)
    /\ ~(back - time > Far) => DebtScript(u, back) = <<Mark(u)>>
  <1> SUFFICES ASSUME NEW u \in Users, NEW back \in Int
               PROVE  /\ DebtScript(u, back) \in Scripts /\ Len(DebtScript(u, back)) > 0
                      /\ \A i \in 1 .. Len(DebtScript(u, back)) - 1 : Plain(DebtScript(u, back)[i])
                      /\ DebtScript(u, back)[Len(DebtScript(u, back))] = Mark(u)
                      /\ ~(back - time > Far) => DebtScript(u, back) = <<Mark(u)>>
    OBVIOUS
  <1> DEFINE d   == SaveDate(u, "back_time", 1)
             far == IF back - time > Far THEN <<d>> ELSE <<>>
  <1>1. "back_time" \in Keys
    BY DEF Keys, Dates
  <1>2. d \in Moves /\ Plain(d)
    <2>1. d \in Moves
      BY <1>1, MoveTypes, Accounted
    <2>2. Plain(d)
      BY DEF Plain, SaveDate
    <2> QED BY <2>1, <2>2
  <1>3. DebtScript(u, back) = Append(far, Mark(u))
    BY DEF DebtScript
  <1>4. Append(<<>>, Mark(u)) = <<Mark(u)>>
    OBVIOUS
  <1> HIDE DEF d
  <1>5. far \in Seq(Moves) /\ \A i \in 1 .. Len(far) : Plain(far[i])
    <2>1. <<d>> \in Seq(Moves) /\ Len(<<d>>) = 1 /\ <<d>>[1] = d
      BY <1>2
    <2>2. <<>> \in Seq(Moves) /\ Len(<<>>) = 0
      OBVIOUS
    <2>3. far = <<d>> \/ far = <<>>
      OBVIOUS
    <2> HIDE DEF far
    <2>4. CASE far = <<d>>
      BY <1>2, <2>1, <2>4
    <2>5. CASE far = <<>>
      BY <2>2, <2>5
    <2> QED BY <2>3, <2>4, <2>5
  <1>6. ~(back - time > Far) => far = <<>>
    OBVIOUS
  <1> HIDE DEF far
  <1>7. /\ Append(far, Mark(u)) \in Scripts /\ Len(Append(far, Mark(u))) = Len(far) + 1
        /\ \A i \in 1 .. Len(far) : Plain(Append(far, Mark(u))[i])
        /\ Append(far, Mark(u))[Len(far) + 1] = Mark(u) /\ Len(far) \in Nat
    BY <1>5, MarkedScripts
  <1> DEFINE q == Append(far, Mark(u))
  <1>8. ~(back - time > Far) => q = <<Mark(u)>>
    BY <1>4, <1>6
  <1>9. q = DebtScript(u, back)
    BY <1>3
  <1>10. /\ q \in Scripts /\ Len(q) = Len(far) + 1 /\ Len(far) \in Nat
         /\ \A i \in 1 .. Len(far) : Plain(q[i])
         /\ q[Len(far) + 1] = Mark(u)
    BY <1>7
  <1> HIDE DEF q
  <1>11. /\ q \in Scripts /\ Len(q) > 0 /\ \A i \in 1 .. Len(q) - 1 : Plain(q[i])
         /\ q[Len(q)] = Mark(u)
    BY <1>10
  <1> QED BY <1>8, <1>9, <1>11

\* A script that ends in the mark of the window.
LEMMA MarkBase ==
  ASSUME Base, NEW w \in Windows, NEW todo \in Scripts, Begins(w, todo, "menu"),
         UNCHANGED <<val, salary_list, isSalaryTime, now>>, paid' \in [Users -> Nat],
         \A i \in 1 .. Len(todo) - 1 : Plain(todo[i]),
         todo[Len(todo)] = Mark(Me(w))
  PROVE  /\ Base' /\ Others(w) /\ Kept /\ win'[w].at = "save" /\ win'[w].todo = todo
         /\ win'[w].next = "menu" /\ win'[w].reg = NoReg
  <1>1. Typed /\ "menu" \in Nexts \ {"bail"}
    BY DEF Base, Nexts
  <1>2. win'[w].todo = todo /\ win'[w].next = "menu"
    BY <1>1, SavesEffect
  <1>3. Len(todo) \in Nat
    BY DEF Scripts
  <1>4. Proper(win'[w], Len(todo), Me(w))
    BY <1>2 DEF Proper, Mark, Save
  <1>5. \A i \in 1 .. Len(todo) : Plain(todo[i]) \/ Proper(win'[w], i, Me(w))
    BY <1>3, <1>4
  <1> QED BY <1>1, <1>5, SavesBase DEF Kept

LEMMA DebtBase ==
  ASSUME Base, NEW w \in Windows, Debt(w)
  PROVE  /\ Base' /\ Others(w) /\ Kept /\ win[w].at = "debt"
         /\ \/ win'[w].at = "due" /\ win'[w].todo = <<>> /\ win'[w].next = "menu"
            \/ /\ win'[w].at = "save" /\ win'[w].next = "menu"
               /\ win'[w].todo = DebtScript(Me(w), val[Me(w)]["back_time"])
               /\ win'[w].todo[Len(win'[w].todo)] = Mark(Me(w)) /\ Len(win'[w].todo) > 0
               /\ \A i \in 1 .. Len(win'[w].todo) - 1 : Plain(win'[w].todo[i])
               /\ val[Me(w)]["back_time"] <= time + Far => win'[w].todo = <<Mark(Me(w))>>
  <1> DEFINE u    == Me(w)
             back == loadValue(u, "back_time")
             todo == DebtScript(u, back)
  <1>1. /\ Typed /\ win[w].at = "debt" /\ win[w] \in Wins /\ u \in Users /\ u \in Accounts
        /\ UNCHANGED <<val, salary_list, isSalaryTime, now, paid>>
    BY Accounted DEF Debt, Base, Typed, history
  <1>2. back = val[u]["back_time"] /\ back \in Nat
    <2>1. "back_time" \in Keys
      BY DEF Keys, Dates
    <2> QED BY <1>1, <2>1, LoadIs
  <1>3. CASE win' = [win EXCEPT ![w].at = "due", ![w].seen = loadValue(Me(w), "lend_money")]
    <2> DEFINE n == loadValue(Me(w), "lend_money")
               y == [win[w] EXCEPT !.at = "due", !.seen = n]
    <2>1. n \in Nat
      <3>1. "lend_money" \in Keys
        BY DEF Keys
      <3> QED BY <1>1, <3>1, LoadIs
    <2>2. win[w].todo = <<>> /\ win[w].next = "menu" /\ win[w].at # "save"
      BY <1>1, Idle
    <2>3. y \in Wins /\ y.at = "due" /\ y.todo = <<>> /\ y.next = "menu"
      <3> HIDE DEF n
      <3> QED BY <1>1, <2>1, <2>2 DEF Wins, Places
    <2>4. win' = [win EXCEPT ![w] = y]
      BY <1>1, <1>3 DEF Typed
    <2> HIDE DEF y
    <2>5. Base' /\ Others(w) /\ win'[w] = y
      BY <1>1, <2>2, <2>3, <2>4, WalkBase
    <2> QED BY <1>1, <2>3, <2>5 DEF Kept
  <1>4. CASE Saves(w, todo, "menu")
    <2>1. /\ todo \in Scripts /\ Len(todo) > 0
          /\ \A i \in 1 .. Len(todo) - 1 : Plain(todo[i])
          /\ todo[Len(todo)] = Mark(u)
          /\ ~(back - time > Far) => todo = <<Mark(u)>>
      BY <1>1, <1>2, DebtScripts
    <2>2. paid' \in [Users -> Nat]
      BY <1>1 DEF Typed
    <2>3. time \in Int /\ Far \in Int
      BY <1>1, Clock, MoneyAssumption
    <2>4. back <= time + Far => ~(back - time > Far)
      BY <1>2, <2>3
    <2>5. todo = DebtScript(Me(w), val[Me(w)]["back_time"])
      BY <1>2
    <2> HIDE DEF todo, back
    <2>6. /\ Base' /\ Others(w) /\ Kept /\ win'[w].at = "save" /\ win'[w].todo = todo
          /\ win'[w].next = "menu"
      BY <1>1, <1>4, <2>1, <2>2, MarkBase DEF Begins
    <2> QED BY <1>1, <1>2, <2>1, <2>4, <2>5, <2>6
  <1> QED BY <1>3, <1>4 DEF Debt, DebtScript

LEMMA DueBase ==
  ASSUME Base, NEW w \in Windows, Due(w)
  PROVE  /\ Base' /\ Others(w) /\ Kept /\ win[w].at = "due"
         /\ \/ win'[w] = Away("home")
            \/ /\ win'[w].at = "save" /\ win'[w].next = "menu"
               /\ muddled' = Mixed(Me(w), w, FALSE)
               /\ \E n \in Int :
                    /\ win'[w].todo = Append(Repaid(Me(w), n), Mark(Me(w)))
                    /\ Len(win'[w].todo) = 5 /\ win'[w].todo[5] = Mark(Me(w))
                    /\ \A i \in 1 .. 4 : Plain(win'[w].todo[i])
                    /\ \A i \in 1 .. 4 : win'[w].todo[i] = Repaid(Me(w), n)[i]
  <1> DEFINE u    == Me(w)
             n    == win[w].seen
             back == Repaid(u, n)
             todo == Append(back, Mark(u))
  <1>1. /\ Typed /\ win[w].at = "due" /\ win[w] \in Wins /\ u \in Users /\ u \in Accounts
        /\ UNCHANGED <<val, salary_list, isSalaryTime, now, paid>>
    BY Accounted DEF Due, Base, Typed
  <1>2. n \in Int
    BY <1>1 DEF Wins
  <1>3. CASE Goes(w, "home")
    <2>1. "home" \in Places \ {"save", "bail"}
      BY DEF Places
    <2> QED BY <1>1, <1>3, <2>1, GoesBase DEF Kept
  <1>4. CASE Pays(w, todo, "menu") /\ muddled' = Mixed(Me(w), w, FALSE)
    <2>1. /\ back \in Scripts /\ Len(back) = 4 /\ back[1].key \in Purse
          /\ \A i \in 1 .. Len(back) : Plain(back[i])
      BY <1>1, <1>2, MoneyScripts
    <2> HIDE DEF back
    <2>2. /\ todo \in Scripts /\ Len(todo) = Len(back) + 1
          /\ \A i \in 1 .. Len(back) : todo[i] = back[i] /\ Plain(todo[i])
          /\ todo[Len(back) + 1] = Mark(u)
      BY <1>1, <2>1, MarkedScripts DEF Scripts
    <2>3. Len(todo) = 5 /\ Len(todo) - 1 = 4
      BY <2>1, <2>2
    <2>4. \A i \in 1 .. 4 : todo[i] = back[i] /\ Plain(todo[i])
      BY <2>1, <2>2
    <2>5. todo[5] = Mark(u)
      BY <2>1, <2>2
    <2>6. paid' \in [Users -> Nat]
      BY <1>1 DEF Typed
    <2> HIDE DEF todo
    <2>7. /\ Base' /\ Others(w) /\ Kept /\ win'[w].at = "save" /\ win'[w].todo = todo
          /\ win'[w].next = "menu"
      <3>1. Begins(w, todo, "menu")
        BY <1>4, <2>1, <2>4 DEF Begins
      <3> QED BY <1>1, <2>2, <2>3, <2>4, <2>5, <2>6, <3>1, MarkBase
    <2>8. todo = Append(Repaid(Me(w), n), Mark(Me(w)))
      BY DEF todo, back
    <2> QED BY <1>1, <1>2, <1>4, <2>3, <2>4, <2>5, <2>7, <2>8 DEF back
  <1> QED BY <1>3, <1>4 DEF Due

LEMMA PlainBase ==
  ASSUME Base, NEW w \in Windows, NEW todo \in Scripts, NEW next \in {"menu", "repay"},
         Begins(w, todo, next),
         UNCHANGED <<val, salary_list, isSalaryTime, now>>, paid' \in [Users -> Nat],
         \A i \in 1 .. Len(todo) : Plain(todo[i])
  PROVE  /\ Base' /\ Others(w) /\ Kept /\ win'[w].at = "save" /\ win'[w].todo = todo
         /\ win'[w].next = next
  <1>1. next \in Nexts \ {"bail"}
    BY DEF Nexts
  <1> QED BY <1>1, SavesBase DEF Kept

LEMMA PurseBase ==
  ASSUME Base, NEW w \in Windows,
         NEW a \in Accounts, NEW b \in Accounts, NEW j \in Purse, NEW k \in Purse,
         NEW m \in Int, NEW n \in Int,
         \/ Saves(w, <<Save(a, j, m), Save(b, k, n)>>, "menu")
         \/ Pays(w, <<Save(a, j, m), Save(b, k, n)>>, "menu"),
         UNCHANGED <<val, salary_list, isSalaryTime, now, paid>>
  PROVE  /\ Base' /\ Others(w) /\ Kept /\ win'[w].at = "save" /\ win'[w].next = "menu"
         /\ \A i \in 1 .. Len(win'[w].todo) : win'[w].todo[i].key \in Purse
  <1> DEFINE todo == <<Save(a, j, m), Save(b, k, n)>>
  <1>1. todo \in Scripts /\ \A i \in 1 .. Len(todo) : Plain(todo[i]) /\ todo[i].key \in Purse
    BY MoneyScripts
  <1>2. paid' \in [Users -> Nat] /\ (Saves(w, todo, "menu") \/ Pays(w, todo, "menu"))
    BY DEF Base, Typed
  <1>4. Begins(w, todo, "menu")
    BY <1>1, <1>2 DEF Begins
  <1> HIDE DEF todo
  <1>3. /\ Base' /\ Others(w) /\ Kept /\ win'[w].at = "save" /\ win'[w].todo = todo
        /\ win'[w].next = "menu"
    BY <1>1, <1>2, <1>4, PlainBase
  <1> QED BY <1>1, <1>3

LEMMA Numbers ==
  /\ \A n \in Amounts : n \in Nat /\ n > 0
  /\ \A n \in Days : n \in Nat /\ n > 0 /\ n <= Far
  /\ Fee \in Nat /\ Fine \in Nat /\ Salary \in Nat /\ Far \in Nat
  /\ "bmy_money" \in Purse /\ "bmy_credit" \in Purse
  /\ \A u \in Police : u \in Users
  <1>1. /\ Amounts \subseteq Nat \ {0} /\ Days \subseteq Nat \ {0} /\ \A d \in Days : d <= Far
        /\ {MaxMoney, MaxMultex, IntMax, TimeSup, Epoch, Far, Fee, Fine, Salary,
            MaxTime, MaxAsks, MaxGone} \subseteq Nat
        /\ Police \subseteq Users
    BY MoneyAssumption
  <1>2. Fee \in Nat /\ Fine \in Nat /\ Salary \in Nat /\ Far \in Nat
    BY <1>1
  <1>3. \A n \in Nat \ {0} : n > 0
    OBVIOUS
  <1>4. "bmy_money" \in Purse /\ "bmy_credit" \in Purse
    BY DEF Purse
  <1> QED BY <1>1, <1>2, <1>3, <1>4

LEMMA TransferBase ==
  ASSUME Base, NEW w \in Windows, NEW to \in Users, NEW num \in Amounts, Transfer(w, to, num)
  PROVE  /\ Base' /\ Others(w) /\ Kept /\ win[w].at = "menu"
         /\ win'[w].at = "save" /\ win'[w].next = "menu"
         /\ \A i \in 1 .. Len(win'[w].todo) : win'[w].todo[i].key \in Purse
  <1>1. Me(w) \in Accounts /\ to \in Accounts /\ -(num + Fee) \in Int /\ num \in Int
    BY Accounted, Numbers
  <1>2. /\ Pays(w, <<Save(Me(w), "bmy_money", -(num + Fee)), Save(to, "bmy_money", num)>>, "menu")
        /\ UNCHANGED <<val, salary_list, isSalaryTime, now, paid>> /\ win[w].at = "menu"
    BY DEF Transfer, Asks
  <1> DEFINE m == -(num + Fee)
  <1> HIDE DEF m
  <1>3. m \in Int /\ Pays(w, <<Save(Me(w), "bmy_money", m), Save(to, "bmy_money", num)>>, "menu")
    BY <1>1, <1>2 DEF m
  <1> QED BY <1>1, <1>2, <1>3, PurseBase, Numbers

LEMMA DepositBase ==
  ASSUME Base, NEW w \in Windows, NEW num \in Amounts, Deposit(w, num) \/ Withdraw(w, num)
  PROVE  /\ Base' /\ Others(w) /\ Kept /\ win[w].at = "menu"
         /\ win'[w].at = "save" /\ win'[w].next = "menu"
         /\ \A i \in 1 .. Len(win'[w].todo) : win'[w].todo[i].key \in Purse
  <1> DEFINE m == -num
  <1>1. Me(w) \in Accounts /\ m \in Int /\ num \in Int
    BY Accounted, Numbers
  <1>2. /\ \/ Pays(w, <<Save(Me(w), "bmy_money", m), Save(Me(w), "bmy_credit", num)>>, "menu")
           \/ Pays(w, <<Save(Me(w), "bmy_credit", m), Save(Me(w), "bmy_money", num)>>, "menu")
        /\ UNCHANGED <<val, salary_list, isSalaryTime, now, paid>> /\ win[w].at = "menu"
    BY DEF Deposit, Withdraw, Asks, history
  <1> HIDE DEF m
  <1> QED BY <1>1, <1>2, PurseBase, Numbers

LEMMA LoanBase ==
  ASSUME Base, NEW w \in Windows, NEW num \in Amounts, NEW days \in Days, NEW u \in Users,
         \/ TakeLoan(w, num, days) /\ u = Me(w)
         \/ SpecialLoan(w, num, days) /\ u = win[w].who
  PROVE  /\ Base' /\ Others(w) /\ Kept /\ win[w].at \in {"loans", "ask"}
         /\ win[w].at = "ask" => win[w].op = "lend"
         /\ win'[w].at = "save" /\ win'[w].next = "menu"
         /\ win'[w].todo = Granted(u, num, days)
         /\ \A i \in 1 .. Len(win'[w].todo) : Plain(win'[w].todo[i])
         /\ muddled' = Mixed(u, w, TRUE)
  <1> DEFINE todo == Granted(u, num, days)
  <1>1. /\ Saves(w, todo, "menu") /\ muddled' = Mixed(u, w, TRUE)
        /\ UNCHANGED <<val, salary_list, isSalaryTime, now, paid>> /\ win[w].at \in {"loans", "ask"}
        /\ win[w].at = "ask" => win[w].op = "lend"
    BY DEF TakeLoan, SpecialLoan
  <1>2. todo \in Scripts /\ \A i \in 1 .. Len(todo) : Plain(todo[i])
    <2>1. num \in Int /\ days \in Int /\ u \in Accounts
      BY Numbers, Accounted
    <2> QED BY <2>1, MoneyScripts
  <1>3. paid' \in [Users -> Nat]
    BY <1>1 DEF Base, Typed
  <1> HIDE DEF todo
  <1>4. /\ Base' /\ Others(w) /\ Kept /\ win'[w].at = "save" /\ win'[w].todo = todo
        /\ win'[w].next = "menu"
    BY <1>1, <1>2, <1>3, PlainBase DEF Begins
  <1> QED BY <1>1, <1>2, <1>4 DEF todo

LEMMA LenderKnown ==
  ASSUME Base, NEW w \in Windows, win[w].at = "ask", win[w].op \in {"lend", "catch"}
  PROVE  win[w].who \in Users
  BY DEF Base, Fits

LEMMA RepayBase ==
  ASSUME Base, NEW w \in Windows, Repay(w)
  PROVE  /\ Base' /\ Others(w) /\ Kept /\ win[w].at = "ask" /\ win[w].op = "repay"
         /\ \/ win'[w] = Away("menu")
            \/ /\ win'[w].at = "save" /\ win'[w].next = "menu"
               /\ muddled' = Mixed(Me(w), w, FALSE)
               /\ \E n \in Int : win'[w].todo = Repaid(Me(w), n)
               /\ \A i \in 1 .. Len(win'[w].todo) : Plain(win'[w].todo[i])
  <1> DEFINE n    == win[w].seen
             todo == Repaid(Me(w), n)
  <1>1. /\ Typed /\ win[w].at = "ask" /\ win[w].op = "repay" /\ win[w] \in Wins
        /\ Me(w) \in Accounts /\ UNCHANGED <<val, salary_list, isSalaryTime, now, paid>>
    BY Accounted DEF Repay, Base, Typed
  <1>2. n \in Int
    BY <1>1 DEF Wins
  <1>3. CASE Goes(w, "menu")
    <2>1. "menu" \in Places \ {"save", "bail"}
      BY DEF Places
    <2> QED BY <1>1, <1>3, <2>1, GoesBase DEF Kept
  <1>4. CASE Pays(w, todo, "menu") /\ muddled' = Mixed(Me(w), w, FALSE)
    <2>1. /\ todo \in Scripts /\ todo[1].key \in Purse
          /\ \A i \in 1 .. Len(todo) : Plain(todo[i])
      BY <1>1, <1>2, MoneyScripts
    <2>2. paid' \in [Users -> Nat]
      BY <1>1 DEF Typed
    <2> HIDE DEF todo
    <2>3. /\ Base' /\ Others(w) /\ Kept /\ win'[w].at = "save" /\ win'[w].todo = todo
          /\ win'[w].next = "menu"
      BY <1>1, <1>4, <2>1, <2>2, PlainBase DEF Begins
    <2> QED BY <1>1, <1>2, <1>4, <2>1, <2>3 DEF todo
  <1> QED BY <1>3, <1>4 DEF Repay

\* The steps that only ask: where to, and what about.
LEMMA ViewBase ==
  ASSUME Base, NEW w \in Windows, ViewLoans(w)
  PROVE  /\ Base' /\ Others(w) /\ Kept /\ win[w].at = "menu"
         /\ win'[w].at = "loans" /\ win'[w].todo = <<>> /\ win'[w].next = "menu"
  <1> DEFINE n == loadValue(Me(w), "lend_money")
             y == [win[w] EXCEPT !.at = "loans", !.seen = n]
  <1>1. /\ Typed /\ win[w].at = "menu" /\ win \in [Windows -> Wins] /\ win[w] \in Wins
        /\ win[w].todo = <<>> /\ win[w].next = "menu"
        /\ UNCHANGED <<val, salary_list, isSalaryTime, now, paid>>
    BY Idle DEF ViewLoans, Asks, Base, Typed, history
  <1>2. n \in Nat
    <2>1. "lend_money" \in Keys
      BY DEF Keys
    <2> QED BY <1>1, <2>1, LoadIs, Accounted
  <1>3. win' = [win EXCEPT ![w] = y]
    BY <1>1 DEF ViewLoans
  <1> HIDE DEF n
  <1>4. y \in Wins /\ y.at = "loans" /\ y.todo = <<>> /\ y.next = "menu"
    BY <1>1, <1>2 DEF Wins, Places
  <1> HIDE DEF y
  <1>5. Base' /\ Others(w) /\ win'[w] = y
    BY <1>1, <1>3, <1>4, WalkBase
  <1> QED BY <1>1, <1>4, <1>5 DEF Kept

LEMMA AskBase ==
  ASSUME Base, NEW w \in Windows, NEW op \in {"repay", "salary", "lend", "catch"},
         NEW who \in Users \cup {"none"}, op \in {"lend", "catch"} => who \in Users,
         win[w].at # "save",
         \/ win' = [win EXCEPT ![w].at = "ask", ![w].op = op, ![w].who = who]
         \/ op \notin {"lend", "catch"} /\ win' = [win EXCEPT ![w].at = "ask", ![w].op = op],
         UNCHANGED <<val, salary_list, isSalaryTime, now, paid>>
  PROVE  /\ Base' /\ Others(w) /\ Kept /\ win'[w].at = "ask" /\ win'[w].op = op
         /\ win'[w].todo = <<>> /\ win'[w].next = "menu"
  <1> DEFINE y == [win[w] EXCEPT !.at = "ask", !.op = op, !.who = who]
             z == [win[w] EXCEPT !.at = "ask", !.op = op]
  <1>1. /\ win \in [Windows -> Wins] /\ win[w] \in Wins
        /\ win[w].todo = <<>> /\ win[w].next = "menu"
    BY Idle DEF Base, Typed
  <1>2. /\ y \in Wins /\ y.at = "ask" /\ y.op = op /\ y.who = who
        /\ y.todo = <<>> /\ y.next = "menu"
    BY <1>1 DEF Wins, Places
  <1>3. /\ z \in Wins /\ z.at = "ask" /\ z.op = op /\ z.todo = <<>> /\ z.next = "menu"
    BY <1>1 DEF Wins, Places
  <1>4. \/ win' = [win EXCEPT ![w] = y]
        \/ op \notin {"lend", "catch"} /\ win' = [win EXCEPT ![w] = z]
    BY <1>1
  <1> HIDE DEF y, z
  <1>5. CASE win' = [win EXCEPT ![w] = y]
    <2>1. Base' /\ Others(w) /\ win'[w] = y
      BY <1>1, <1>2, <1>5, WalkBase
    <2> QED BY <1>2, <2>1 DEF Kept
  <1>6. CASE op \notin {"lend", "catch"} /\ win' = [win EXCEPT ![w] = z]
    <2>1. Base' /\ Others(w) /\ win'[w] = z
      BY <1>1, <1>3, <1>6, WalkBase
    <2> QED BY <1>3, <2>1 DEF Kept
  <1> QED BY <1>4, <1>5, <1>6

LEMMA RepayWalk ==
  ASSUME Base, NEW w \in Windows, win[w].at # "save",
         win' = [win EXCEPT ![w].at = "repay"],
         UNCHANGED <<val, salary_list, isSalaryTime, now, paid>>
  PROVE  /\ Base' /\ Others(w) /\ Kept /\ win'[w].at = "repay"
         /\ win'[w].todo = <<>> /\ win'[w].next = "menu"
  <1> DEFINE y == [win[w] EXCEPT !.at = "repay"]
  <1>1. /\ win \in [Windows -> Wins] /\ win[w] \in Wins
        /\ win[w].todo = <<>> /\ win[w].next = "menu"
    BY Idle DEF Base, Typed
  <1>2. y \in Wins /\ y.at = "repay" /\ y.todo = <<>> /\ y.next = "menu"
    BY <1>1 DEF Wins, Places
  <1>3. win' = [win EXCEPT ![w] = y]
    BY <1>1
  <1> HIDE DEF y
  <1>4. Base' /\ Others(w) /\ win'[w] = y
    BY <1>1, <1>2, <1>3, WalkBase
  <1> QED BY <1>2, <1>4 DEF Kept

LEMMA ChooseBase ==
  ASSUME Base, NEW w \in Windows, ChooseRepay(w)
  PROVE  /\ Base' /\ Others(w) /\ Kept /\ win[w].at = "loans"
         /\ \/ win'[w].at = "repay" /\ win'[w].todo = <<>> /\ win'[w].next = "menu"
            \/ /\ win'[w].at = "save" /\ win'[w].next = "repay"
               /\ \A i \in 1 .. Len(win'[w].todo) : /\ Plain(win'[w].todo[i])
                                                    /\ win'[w].todo[i].who = Me(w)
               /\ muddled' = muddled \cup {Me(w)}
  <1> DEFINE s    == SaveDate(Me(w), "back_time", 1)
             todo == Redated(Me(w))
  <1>1. /\ Typed /\ win[w].at = "loans" /\ Me(w) \in Accounts
        /\ UNCHANGED <<val, salary_list, isSalaryTime, now, paid>>
    BY Accounted DEF ChooseRepay, Base, Typed
  <1>2. todo \in {<<>>, <<s>>}
    BY DEF Redated
  <1>3. CASE todo = <<>>
    <2>1. win' = [win EXCEPT ![w].at = "repay"]
      BY <1>3 DEF ChooseRepay
    <2> QED BY <1>1, <2>1, RepayWalk
  <1>4. CASE todo # <<>>
    <2>1. Saves(w, todo, "repay") /\ muddled' = muddled \cup {Me(w)} /\ todo = <<s>>
      BY <1>2, <1>4 DEF ChooseRepay
    <2>2. s \in Moves /\ Plain(s) /\ s.who = Me(w)
      <3>1. "back_time" \in Keys
        BY DEF Keys, Dates
      <3>2. s \in Moves
        BY <1>1, <3>1, MoveTypes
      <3>3. Plain(s) /\ s.who = Me(w)
        BY DEF Plain, SaveDate
      <3> QED BY <3>2, <3>3
    <2> HIDE DEF s, todo
    <2>3. todo \in Scripts /\ \A i \in 1 .. Len(todo) : Plain(todo[i]) /\ todo[i].who = Me(w)
      <3>1. <<s>> \in Seq(Moves) /\ <<s>> # <<>> /\ Len(<<s>>) = 1 /\ <<s>>[1] = s
        BY <2>2
      <3> QED BY <2>1, <2>2, <3>1 DEF Scripts
    <2>4. paid' \in [Users -> Nat]
      BY <1>1 DEF Typed
    <2>5. /\ Base' /\ Others(w) /\ Kept /\ win'[w].at = "save" /\ win'[w].todo = todo
          /\ win'[w].next = "repay"
      BY <1>1, <2>1, <2>3, <2>4, PlainBase DEF Begins
    <2> QED BY <1>1, <2>1, <2>3, <2>5
  <1> QED BY <1>3, <1>4

LEMMA AskRepayBase ==
  ASSUME Base, NEW w \in Windows, AskRepay(w)
  PROVE  /\ Base' /\ Others(w) /\ Kept /\ win[w].at = "repay"
         /\ \/ win'[w] = Away("menu")
            \/ /\ win'[w].at = "ask" /\ win'[w].op = "repay" /\ win'[w].todo = <<>>
               /\ win'[w].next = "menu"
  <1>1. /\ Typed /\ win[w].at = "repay" /\ win[w] \in Wins
        /\ UNCHANGED <<val, salary_list, isSalaryTime, now, paid>>
        /\ Goes(w, "menu") \/ win' = [win EXCEPT ![w].at = "ask", ![w].op = "repay"]
    BY DEF AskRepay, Base, Typed, history
  <1>2. CASE Goes(w, "menu")
    <2>1. "menu" \in Places \ {"save", "bail"}
      BY DEF Places
    <2> QED BY <1>1, <1>2, <2>1, GoesBase DEF Kept
  <1>3. CASE win' = [win EXCEPT ![w].at = "ask", ![w].op = "repay"]
    BY <1>1, <1>3, AskBase
  <1> QED BY <1>1, <1>2, <1>3

LEMMA AskSalaryBase ==
  ASSUME Base, NEW w \in Windows, AskSalary(w)
  PROVE  /\ Base' /\ Others(w) /\ Kept /\ win[w].at = "menu" /\ Me(w) \notin salary_list
         /\ win'[w].at = "ask" /\ win'[w].op = "salary"
         /\ win'[w].todo = <<>> /\ win'[w].next = "menu"
  <1>1. /\ win[w].at = "menu" /\ Me(w) \notin salary_list
        /\ UNCHANGED <<val, salary_list, isSalaryTime, now, paid>>
        /\ win' = [win EXCEPT ![w].at = "ask", ![w].op = "salary"]
    BY DEF AskSalary, Asks, history
  <1> QED BY <1>1, AskBase

LEMMA AskSpecialBase ==
  ASSUME Base, NEW w \in Windows, NEW who \in Users, AskSpecialLoan(w, who)
  PROVE  /\ Base' /\ Others(w) /\ Kept /\ win[w].at = "menu"
         /\ win'[w].at = "ask" /\ win'[w].op = "lend"
         /\ win'[w].todo = <<>> /\ win'[w].next = "menu"
  <1>1. /\ win[w].at = "menu"
        /\ UNCHANGED <<val, salary_list, isSalaryTime, now, paid>>
        /\ win' = [win EXCEPT ![w].at = "ask", ![w].op = "lend", ![w].who = who]
    BY DEF AskSpecialLoan, Asks, history
  <1> QED BY <1>1, AskBase

LEMMA SuspectBase ==
  ASSUME Base, NEW w \in Windows, Suspect(w)
  PROVE  /\ Base' /\ Others(w) /\ Kept /\ win[w].at = "menu"
         /\ win'[w].at = "ask" /\ win'[w].op = "hunt"
         /\ win'[w].todo = <<>> /\ win'[w].next = "menu"
  <1> DEFINE n == loadValue(Me(w), "bmy_money")
             y == [win[w] EXCEPT !.at = "ask", !.op = "hunt", !.had = n]
  <1>1. /\ Typed /\ win[w].at = "menu" /\ win \in [Windows -> Wins] /\ win[w] \in Wins
        /\ win[w].todo = <<>> /\ win[w].next = "menu"
        /\ UNCHANGED <<val, salary_list, isSalaryTime, now, paid>>
    BY Idle DEF Suspect, Asks, Base, Typed, history
  <1>2. n \in Nat /\ n >= Fine
    <2>1. "bmy_money" \in Keys
      BY DEF Keys
    <2> QED BY <1>1, <2>1, LoadIs, Accounted DEF Suspect
  <1>3. win' = [win EXCEPT ![w] = y]
    BY <1>1 DEF Suspect
  <1> HIDE DEF n
  <1>4. /\ y \in Wins /\ y.at = "ask" /\ y.op = "hunt" /\ y.had = n
        /\ y.todo = <<>> /\ y.next = "menu"
    BY <1>1, <1>2 DEF Wins, Places
  <1> HIDE DEF y
  <1>5. Base' /\ Others(w) /\ win'[w] = y
    BY <1>1, <1>2, <1>3, <1>4, WalkBase
  <1> QED BY <1>1, <1>4, <1>5 DEF Kept

LEMMA AccuseBase ==
  ASSUME Base, NEW w \in Windows, NEW who \in Users, Accuse(w, who)
  PROVE  /\ Base' /\ Others(w) /\ Kept /\ win[w].at = "ask" /\ win[w].op = "hunt"
         /\ win[w].had >= Fine /\ win[w].todo = <<>> /\ win'[w].next = "menu"
         /\ \/ win'[w].at = "ask" /\ win'[w].op = "catch" /\ win'[w].todo = <<>>
            \/ /\ win'[w].at = "save"
               /\ \A i \in 1 .. Len(win'[w].todo) : win'[w].todo[i].key \in Purse
  <1> DEFINE m == -Fine
             y == [win[w] EXCEPT !.op = "catch", !.who = who, !.had = 0]
  <1>1. Me(w) \in Accounts /\ who \in Accounts /\ m \in Int /\ Fine \in Int
    BY Accounted, Numbers
  <1>2. /\ win[w].at = "ask" /\ win[w].op = "hunt"
        /\ UNCHANGED <<val, salary_list, isSalaryTime, now, paid>>
        /\ \/ Saves(w, <<Save(Me(w), "bmy_money", m), Save(who, "bmy_money", Fine)>>, "menu")
           \/ win' = [win EXCEPT ![w].op = "catch", ![w].who = who, ![w].had = 0]
    BY DEF Accuse, history
  <1>3. /\ win \in [Windows -> Wins] /\ win[w] \in Wins /\ win[w].had >= Fine
        /\ win[w].todo = <<>> /\ win[w].next = "menu"
    BY <1>2, Idle DEF Base, Typed, Fits
  <1> HIDE DEF m
  <1>4. CASE Saves(w, <<Save(Me(w), "bmy_money", m), Save(who, "bmy_money", Fine)>>, "menu")
    BY <1>1, <1>2, <1>3, <1>4, PurseBase, Numbers
  <1>5. CASE win' = [win EXCEPT ![w].op = "catch", ![w].who = who, ![w].had = 0]
    <2>1. /\ y \in Wins /\ y.at = "ask" /\ y.op = "catch" /\ y.who = who
          /\ y.todo = <<>> /\ y.next = "menu"
      BY <1>2, <1>3 DEF Wins
    <2>2. win' = [win EXCEPT ![w] = y]
      BY <1>3, <1>5
    <2> HIDE DEF y
    <2>3. Base' /\ Others(w) /\ win'[w] = y
      BY <1>2, <2>1, <2>2, WalkBase
    <2> QED BY <1>2, <1>3, <2>1, <2>3 DEF Kept
  <1> QED BY <1>2, <1>4, <1>5

LEMMA SalaryBase ==
  ASSUME Base, NEW w \in Windows, TakeSalary(w)
  PROVE  /\ Base' /\ Others(w) /\ Kept /\ win[w].at = "ask" /\ win[w].op = "salary"
         /\ win'[w].at = "save" /\ win'[w].next = "menu" /\ Len(win'[w].todo) = 2
         /\ win'[w].todo[1].key = "bmy_money" /\ win'[w].todo[2] = Enlist(Me(w))
         /\ paid' = [paid EXCEPT ![Me(w)] = @ + 1]
  <1> DEFINE u == Me(w)
             a == Save(u, "bmy_money", Salary)
             b == Enlist(u)
             todo == <<a, b>>
  <1>1. /\ Typed /\ win[w].at = "ask" /\ win[w].op = "salary" /\ u \in Users /\ u \in Accounts
        /\ Saves(w, todo, "menu") /\ paid' = [paid EXCEPT ![u] = @ + 1]
        /\ UNCHANGED <<val, salary_list, isSalaryTime, now>>
    BY Accounted DEF TakeSalary, Base
  <1>2. a \in Moves /\ b \in Moves /\ a.key = "bmy_money" /\ b.key = "salary_list" /\ b.who = u
    <2>1. a \in Moves /\ b \in Moves
      <3>1. "bmy_money" \in Keys
        BY DEF Keys
      <3> QED BY <1>1, <3>1, Numbers, MoveTypes
    <2>2. a.key = "bmy_money" /\ b.key = "salary_list" /\ b.who = u
      BY DEF Enlist, Save
    <2> QED BY <2>1, <2>2
  <1>3. paid' \in [Users -> Nat]
    BY <1>1 DEF Typed
  <1> HIDE DEF a, b
  <1>4. todo \in Scripts /\ Len(todo) = 2 /\ todo[1] = a /\ todo[2] = b
    BY <1>2 DEF Scripts
  <1> HIDE DEF todo
  <1>5. "menu" \in Nexts \ {"bail"}
    BY DEF Nexts
  <1>6. win'[w].todo = todo
    BY <1>1, <1>4, <1>5, SavesEffect DEF Begins
  <1>7. Plain(todo[1]) /\ Proper(win'[w], 2, u)
    BY <1>2, <1>4, <1>6 DEF Plain, Proper
  <1>8. \A i \in 1 .. Len(todo) : Plain(todo[i]) \/ Proper(win'[w], i, Me(w))
    <2>1. \A i \in 1 .. 2 : i = 1 \/ i = 2
      OBVIOUS
    <2> QED BY <1>4, <1>7, <2>1 DEF u
  <1>9. /\ Base' /\ Others(w) /\ win'[w].at = "save" /\ win'[w].todo = todo
        /\ win'[w].next = "menu"
    BY <1>1, <1>3, <1>4, <1>5, <1>8, SavesBase DEF Begins
  <1> QED BY <1>1, <1>2, <1>4, <1>9 DEF Kept, b, u

LEMMA PayDayBase ==
  ASSUME Base, NEW w \in Windows, PayDay(w)
  PROVE  /\ Base' /\ Others(w) /\ Kept /\ win' = win
  <1>1. /\ Typed /\ win' = win /\ val' = val /\ now' = now
        /\ Fits(win[w], Me(w), time)
    BY DEF PayDay, Base
  <1>2. TypedRest
    BY <1>1 DEF PayDay, Typed, TypedRest
  <1>3. win' \in [Windows -> Wins] /\ Others(w) /\ Fits(win'[w], Me(w), time)
    BY <1>1 DEF Typed, Others
  <1>4. Base'
    BY <1>1, <1>2, <1>3, StepBase
  <1> QED BY <1>1, <1>3, <1>4 DEF Kept

\* An arrest.
LEMMA ArrestBase ==
  ASSUME Base, NEW w \in Windows, NEW u \in Users, NEW days \in Days, NEW next \in {"menu", "off"},
         Saves(w, <<SaveDate(u, "freeTime", days)>>, next),
         UNCHANGED <<val, salary_list, isSalaryTime, now, paid>>
  PROVE  /\ Base' /\ Others(w) /\ Kept /\ win'[w].at = "save" /\ win'[w].next = next
         /\ win'[w].todo = <<SaveDate(u, "freeTime", days)>>
  <1> DEFINE s == SaveDate(u, "freeTime", days)
             todo == <<s>>
  <1>1. Typed /\ paid' \in [Users -> Nat] /\ next \in Nexts \ {"bail"}
    BY DEF Base, Typed, Nexts
  <1>2. s \in Moves /\ s.key = "freeTime" /\ s.who = u /\ s.dated = TRUE
    <2>1. s \in Moves
      <3>1. "freeTime" \in Keys
        BY DEF Keys, Dates
      <3> QED BY <3>1, Numbers, Accounted, MoveTypes
    <2>2. s.key = "freeTime" /\ s.who = u /\ s.dated = TRUE
      BY DEF SaveDate
    <2> QED BY <2>1, <2>2
  <1>3. Saves(w, todo, next)
    OBVIOUS
  <1> HIDE DEF s
  <1>4. todo \in Scripts /\ Len(todo) = 1 /\ todo[1] = s
    BY <1>2 DEF Scripts
  <1> HIDE DEF todo
  <1>5. win'[w].todo = todo
    BY <1>1, <1>3, <1>4, SavesEffect DEF Begins
  <1>6. Proper(win'[w], 1, Me(w))
    BY <1>2, <1>4, <1>5 DEF Proper
  <1>7. \A i \in 1 .. Len(todo) : Plain(todo[i]) \/ Proper(win'[w], i, Me(w))
    BY <1>4, <1>6
  <1>8. /\ Base' /\ Others(w) /\ win'[w].at = "save" /\ win'[w].todo = todo
        /\ win'[w].next = next
    BY <1>1, <1>3, <1>4, <1>7, SavesBase DEF Begins
  <1> QED BY <1>8 DEF Kept, todo, s

LEMMA CatchBase ==
  ASSUME Base, NEW w \in Windows, NEW days \in Days, Catch(w, days)
  PROVE  LET u == win[w].who IN
         /\ Base' /\ Others(w) /\ Kept /\ win[w].at = "ask" /\ win[w].op = "catch" /\ u \in Users
         /\ win'[w].at = "save" /\ win'[w].next = "menu"
         /\ win'[w].todo = <<SaveDate(u, "freeTime", days)>> /\ seized' = Twice(u, w)
  <1>1. win[w].at = "ask" /\ win[w].op = "catch" /\ win[w].who \in Users
    BY LenderKnown DEF Catch
  <1>2. /\ Saves(w, <<SaveDate(win[w].who, "freeTime", days)>>, "menu")
        /\ UNCHANGED <<val, salary_list, isSalaryTime, now, paid>>
        /\ seized' = Twice(win[w].who, w)
    BY DEF Catch
  <1> QED BY <1>1, <1>2, ArrestBase

LEMMA SurrenderBase ==
  ASSUME Base, NEW w \in Windows, NEW days \in Days, Surrender(w, days)
  PROVE  LET u == Me(w) IN
         /\ Base' /\ Others(w) /\ Kept /\ win[w].at = "menu"
         /\ \/ win'[w] = Away("off") /\ seized' = seized
            \/ /\ win'[w].at = "save" /\ win'[w].next = "off" /\ seized' = Twice(u, w)
               /\ win'[w].todo = <<SaveDate(u, "freeTime", days)>>
  <1>1. /\ win[w].at = "menu" /\ Me(w) \in Users
        /\ UNCHANGED <<val, salary_list, isSalaryTime, now, paid>>
        /\ \/ Goes(w, "off") /\ seized' = seized
           \/ /\ Saves(w, <<SaveDate(Me(w), "freeTime", days)>>, "off")
              /\ seized' = Twice(Me(w), w)
    BY Accounted DEF Surrender, Asks
  <1>2. "off" \in Places \ {"save", "bail"}
    BY DEF Places
  <1>3. CASE Goes(w, "off") /\ seized' = seized
    BY <1>1, <1>2, <1>3, GoesBase DEF Kept
  <1>4. CASE Saves(w, <<SaveDate(Me(w), "freeTime", days)>>, "off") /\ seized' = Twice(Me(w), w)
    BY <1>1, <1>4, ArrestBase
  <1> QED BY <1>1, <1>3, <1>4

LEMMA LeaveBase ==
  ASSUME Base, NEW w \in Windows, Leave(w)
  PROVE  /\ Base' /\ Others(w) /\ Kept /\ win[w].at = "menu"
         /\ win'[w].at = "save" /\ win'[w].next = "home"
         /\ win'[w].todo = <<Erase(Me(w), "multex")>>
  <1> DEFINE u == Me(w)
             s == Erase(u, "multex")
             todo == <<s>>
  <1>1. /\ Typed /\ paid' \in [Users -> Nat] /\ "home" \in Nexts \ {"bail"} /\ u \in Accounts
        /\ win[w].at = "menu" /\ Saves(w, todo, "home")
        /\ UNCHANGED <<val, salary_list, isSalaryTime, now>>
    BY Accounted DEF Base, Typed, Nexts, Leave, history
  <1>2. /\ s \in Moves /\ s.key = "multex" /\ s.who = u /\ s.dated = FALSE
        /\ s.add = -MaxMultex
    <2>1. s \in Moves
      <3>1. "multex" \in Keys
        BY DEF Keys
      <3> QED BY <1>1, <3>1, MoveTypes
    <2>2. s.key = "multex" /\ s.who = u /\ s.dated = FALSE /\ s.add = -MaxMultex
      BY SupType DEF Erase, Save
    <2> QED BY <2>1, <2>2
  <1> HIDE DEF s
  <1>4. todo \in Scripts /\ Len(todo) = 1 /\ todo[1] = s
    BY <1>2 DEF Scripts
  <1> HIDE DEF todo
  <1>5. win'[w].todo = todo /\ win'[w].next = "home"
    BY <1>1, <1>4, SavesEffect DEF Begins
  <1>6. Proper(win'[w], 1, u)
    BY <1>2, <1>4, <1>5 DEF Proper
  <1>7. \A i \in 1 .. Len(todo) : Plain(todo[i]) \/ Proper(win'[w], i, Me(w))
    BY <1>4, <1>6 DEF u
  <1>8. /\ Base' /\ Others(w) /\ win'[w].at = "save" /\ win'[w].todo = todo
        /\ win'[w].next = "home"
    BY <1>1, <1>4, <1>7, SavesBase DEF Begins
  <1> QED BY <1>1, <1>8 DEF Kept, todo, s, u

LEMMA AwayBase ==
  ASSUME Base, NEW w \in Windows, Decline(w) \/ Gone(w) \/ LogIn(w)
  PROVE  /\ Base' /\ Others(w) /\ Kept
         /\ \E at \in {"menu", "home", "off"} : win'[w] = Away(at)
         /\ Decline(w) => \/ win'[w] = Away("menu") /\ win[w].at \in {"ask", "loans"}
                          \/ win'[w] = Away("home")
         /\ Gone(w) => win'[w] = Away("off")
         /\ LogIn(w) => win'[w] = Away("home")
  <1>1. /\ UNCHANGED <<val, salary_list, isSalaryTime, now, paid>>
        /\ \E at \in {"menu", "home", "off"} : Goes(w, at)
    BY DEF Decline, Gone, LogIn, history
  <1>2. {"menu", "home", "off"} \subseteq Places \ {"save", "bail"}
    BY DEF Places
  <1>3. /\ Base' /\ Others(w) /\ Kept
        /\ \E at \in {"menu", "home", "off"} : win'[w] = Away(at)
    BY <1>1, <1>2, GoesBase DEF Kept
  <1>4. /\ Decline(w) => \/ Goes(w, "menu") /\ win[w].at \in {"ask", "loans"}
                         \/ Goes(w, "home")
        /\ Gone(w) => Goes(w, "off")
        /\ LogIn(w) => Goes(w, "home")
    BY DEF Decline, Gone, LogIn
  <1>5. \A at \in Places : Goes(w, at) => win'[w] = Away(at)
    BY GoesEffect DEF Base
  <1> QED BY <1>2, <1>3, <1>4, <1>5
-----------------------------------------------------------------------------
(* Salaries.                                                               *)

InsideNow(x)   == x.at \notin {"off", "unused", "home"}
MarkAhead(x)   == \E i \in 1 .. Len(x.todo) : x.todo[i].key = "multex" /\ x.todo[i].add = 1
UnmarkedNow(x) == \/ x.at \in {"bail", "debt", "due"}
                  \/ x.next \in {"bail", "debt"}
                  \/ MarkAhead(x)
Enlisting(x)   == \E i \in 1 .. Len(x.todo) : x.todo[i].key = "salary_list"

LEMMA UnmarkedIs ==
  ASSUME Typed
  PROVE  \A w \in Windows : Unmarked(w) <=> UnmarkedNow(win[w])
  <1> SUFFICES ASSUME NEW w \in Windows PROVE Unmarked(w) <=> UnmarkedNow(win[w])
    OBVIOUS
  <1> DEFINE q == win[w].todo
  <1>1. q \in Seq(Moves)
    BY DEF Typed, Wins
  <1>2. ToSet(q) = {q[i] : i \in 1 .. Len(q)}
    <2> HIDE DEF q
    <2> QED BY <1>1 DEF ToSet
  <1>3. (\E s \in ToSet(q) : s.key = "multex" /\ s.add = 1) <=> MarkAhead(win[w])
    BY <1>2 DEF MarkAhead
  <1> QED BY <1>3 DEF Unmarked, UnmarkedNow

\* What the marks and the list come to in a step of w.
MarkStep(w) ==
  \/ ~InsideNow(win'[w])
  \/ UnmarkedNow(win'[w])
  \/ /\ InsideNow(win[w]) /\ ~UnmarkedNow(win[w])
     /\ val'[Me(w)]["multex"] = val[Me(w)]["multex"]
  \/ val'[Me(w)]["multex"] > 0

OwnMark(w) ==
  \A u \in Users : u # Me(w) => val'[u]["multex"] = val[u]["multex"]

ListStep(w) ==
  Enlisting(win[w]) =>
    Enlisting(win'[w]) \/ Me(w) \in salary_list' \/ Me(w) \in slipped'

Stays(w) == InsideNow(win'[w]) => InsideNow(win[w])

NoSalaryAsked(w) == ~(win'[w].at = "ask" /\ win'[w].op = "salary")

Marking(w) == Others(w) /\ MarkStep(w) /\ OwnMark(w) /\ ListStep(w)

LEMMA KeptMark ==
  ASSUME Kept, NEW w \in Windows
  PROVE  OwnMark(w) /\ val'[Me(w)]["multex"] = val[Me(w)]["multex"]
  BY DEF Kept, OwnMark

\* From the menu on, nothing but Leave touches the mark.
LEMMA WithinMarks ==
  ASSUME Base, NEW w \in Windows, win[w].at \in {"menu", "loans", "repay", "ask"}, Kept, Others(w)
  PROVE  Marking(w) /\ Stays(w)
  <1>1. win[w].todo = <<>> /\ win[w].next = "menu"
    BY Idle
  <1>2. ~MarkAhead(win[w]) /\ ~Enlisting(win[w])
    BY <1>1 DEF MarkAhead, Enlisting
  <1>3. InsideNow(win[w]) /\ ~UnmarkedNow(win[w])
    BY <1>1, <1>2 DEF InsideNow, UnmarkedNow
  <1> QED BY <1>2, <1>3, KeptMark DEF Marking, MarkStep, ListStep, Stays

\* Before the menu, the mark is ahead.
LEMMA BeforeMarks ==
  ASSUME Base, NEW w \in Windows, win[w].at # "save", Kept, Others(w),
         UnmarkedNow(win'[w]) \/ ~InsideNow(win'[w])
  PROVE  Marking(w)
  <1>1. win[w].todo = <<>>
    BY Idle
  <1>2. ~Enlisting(win[w])
    BY <1>1 DEF Enlisting
  <1> QED BY <1>2, KeptMark DEF Marking, MarkStep, ListStep

LEMMA AwayMarks ==
  ASSUME NEW at \in Places
  PROVE  /\ InsideNow(Away(at)) <=> at \notin {"off", "unused", "home"}
         /\ ~(Away(at).at = "ask" /\ Away(at).op = "salary")
  BY AwayType DEF InsideNow

LEMMA MovesOnMarks ==
  ASSUME Base, NEW w \in Windows, win[w].at = "save", MovesOn(w), Others(w), OwnMark(w),
         \/ win[w].todo[1].key # "multex" /\ val'[Me(w)]["multex"] = val[Me(w)]["multex"]
         \/ win[w].todo[1].key = "multex" /\ (win[w].next = "home" \/ val'[Me(w)]["multex"] > 0),
         win[w].todo[1].key = "salary_list" => Me(w) \in salary_list'
  PROVE  Marking(w) /\ Stays(w) /\ NoSalaryAsked(w)
  <1> DEFINE x == win[w]
             y == win'[w]
             q == x.todo
             rest == Tail(q)
  <1>1. q \in Scripts /\ Proper(x, 1, Me(w)) /\ x \in Wins
    BY FirstMove DEF Base, Typed
  <1>2. InsideNow(x) /\ x.at = "save"
    BY DEF InsideNow
  <1>3. /\ q \in Seq(Moves) /\ q # <<>> /\ Len(q) \in Nat /\ Len(q) > 0
        /\ Len(rest) = Len(q) - 1 /\ \A i \in 1 .. Len(rest) : rest[i] = q[i + 1]
        /\ rest = <<>> <=> Len(q) = 1
    <2> HIDE DEF q
    <2>1. q \in Seq(Moves) /\ q # <<>>
      BY <1>1 DEF Scripts
    <2>2. /\ Len(q) \in Nat /\ Len(q) > 0 /\ rest \in Seq(Moves)
          /\ Len(rest) = Len(q) - 1 /\ \A i \in 1 .. Len(rest) : rest[i] = q[i + 1]
      BY <2>1
    <2> HIDE DEF rest
    <2>3. rest = <<>> <=> Len(rest) = 0
      BY <2>2
    <2> QED BY <2>1, <2>2, <2>3
  <1>4. CASE rest # <<>>
    <2>1. y.at = "save" /\ y.todo = rest /\ y.next = x.next
      BY <1>4 DEF MovesOn
    <2>2. q[1].key # "multex"
      BY <1>1, <1>3, <1>4 DEF Proper
    <2> HIDE DEF x, y, rest
    <2>3. MarkAhead(x) => MarkAhead(y)
      <3> SUFFICES ASSUME NEW i \in 1 .. Len(q), q[i].key = "multex", q[i].add = 1
                   PROVE  MarkAhead(y)
        BY DEF MarkAhead
      <3> HIDE DEF q
      <3>1. i - 1 \in 1 .. Len(rest) /\ rest[i - 1] = q[i]
        BY <1>3, <2>2
      <3> QED BY <2>1, <3>1 DEF MarkAhead
    <2>4. Enlisting(x) /\ q[1].key # "salary_list" => Enlisting(y)
      <3> SUFFICES ASSUME NEW i \in 1 .. Len(q), q[i].key = "salary_list", q[1].key # "salary_list"
                   PROVE  Enlisting(y)
        BY DEF Enlisting
      <3> HIDE DEF q
      <3>1. i - 1 \in 1 .. Len(rest) /\ rest[i - 1] = q[i]
        BY <1>3
      <3> QED BY <2>1, <3>1 DEF Enlisting
    <2>5. UnmarkedNow(x) => UnmarkedNow(y)
      BY <1>2, <2>1, <2>3 DEF UnmarkedNow
    <2>6. MarkStep(w)
      BY <1>2, <2>2, <2>5 DEF MarkStep, x, y
    <2>7. ListStep(w)
      BY <2>4 DEF ListStep, x, y
    <2> QED BY <1>2, <2>1, <2>6, <2>7 DEF Marking, Stays, NoSalaryAsked, x, y
  <1>5. CASE rest = <<>>
    <2>1. y.todo = <<>> /\ y.at = x.next /\ x.next \in Nexts
      BY <1>1, <1>5 DEF MovesOn, Wins, Nexts
    <2>2. Len(q) = 1
      BY <1>3, <1>5
    <2>3. Enlisting(x) => q[1].key = "salary_list"
      BY <2>2 DEF Enlisting
    <2>4. ListStep(w)
      BY <2>3 DEF ListStep
    <2>5. MarkAhead(x) => q[1].key = "multex"
      BY <2>2 DEF MarkAhead
    <2> HIDE DEF x, y, rest
    <2>6. x.next \in {"home", "off"} => ~InsideNow(y)
      BY <2>1 DEF InsideNow
    <2>7. x.next \in {"bail", "debt"} => UnmarkedNow(y)
      BY <2>1 DEF UnmarkedNow
    <2>8. x.next \notin {"bail", "debt"} /\ q[1].key # "multex" => ~UnmarkedNow(x)
      BY <1>2, <2>5 DEF UnmarkedNow
    <2>9. MarkStep(w)
      BY <1>2, <2>1, <2>6, <2>7, <2>8 DEF MarkStep, Nexts, x, y
    <2>10. y.at # "ask"
      BY <2>1 DEF Nexts
    <2> QED BY <1>2, <2>4, <2>9, <2>10 DEF Marking, Stays, NoSalaryAsked, x, y
  <1> QED BY <1>4, <1>5

LEMMA LoadMarks ==
  ASSUME Base, NEW w \in Windows, Load(w)
  PROVE  Marking(w) /\ Stays(w) /\ NoSalaryAsked(w)
  <1>1. /\ Others(w) /\ Kept /\ win[w].at = "save" /\ win'[w].at = win[w].at
        /\ win'[w].todo = win[w].todo /\ win'[w].next = win[w].next
    BY LoadBase
  <1>2. /\ UnmarkedNow(win'[w]) <=> UnmarkedNow(win[w])
        /\ Enlisting(win'[w]) <=> Enlisting(win[w])
        /\ InsideNow(win'[w]) <=> InsideNow(win[w])
    BY <1>1 DEF UnmarkedNow, MarkAhead, Enlisting, InsideNow
  <1> QED BY <1>1, <1>2, KeptMark DEF Marking, MarkStep, ListStep, Stays, NoSalaryAsked

LEMMA StoreMarks ==
  ASSUME Base, NEW w \in Windows, Store(w)
  PROVE  Marking(w) /\ Stays(w) /\ NoSalaryAsked(w)
  <1> DEFINE s == win[w].todo[1]
             u == Me(w)
  <1>1. /\ Others(w) /\ s \in Moves /\ s.key \in Keys /\ MovesOn(w) /\ win[w].reg # NoReg
        /\ val'[s.who][s.key] = limitValue(win[w].reg.sum, Sup(s.key))
        /\ \A v \in Accounts, k \in Keys : (v # s.who \/ k # s.key) => val'[v][k] = val[v][k]
    BY StoreBase
  <1>2. win[w].at = "save" /\ RegOK(win[w], time) /\ Proper(win[w], 1, u)
        /\ win[w].todo \in Scripts /\ win[w].reg \in [base : Int, sum : Int]
    BY FirstMove DEF Store
  <1>3. "multex" \in Keys /\ "salary_list" \notin Keys /\ u \in Accounts
        /\ \A v \in Users : v \in Accounts
    BY Accounted DEF Keys, Dates
  <1>4. CASE s.key # "multex"
    <2>1. \A v \in Accounts : val'[v]["multex"] = val[v]["multex"]
      BY <1>1, <1>3, <1>4
    <2>2. OwnMark(w) /\ val'[u]["multex"] = val[u]["multex"]
      BY <1>3, <2>1 DEF OwnMark
    <2> QED BY <1>1, <1>2, <1>3, <1>4, <2>2, MovesOnMarks
  <1>5. CASE s.key = "multex"
    <2>1. s.who = u /\ ~s.dated /\ (s.add = 1 \/ win[w].next = "home")
      BY <1>2, <1>5 DEF Proper
    <2>2. OwnMark(w)
      BY <1>1, <1>3, <1>5, <2>1 DEF OwnMark
    <2>3. s.add = 1 => val'[u]["multex"] > 0
      <3> SUFFICES ASSUME s.add = 1 PROVE val'[u]["multex"] > 0
        OBVIOUS
      <3> DEFINE b == win[w].reg.base
                 n == win[w].reg.sum
      <3>1. win[w].todo # <<>>
        BY <1>2 DEF Scripts
      <3>2. b \in 0 .. Sup("multex") /\ n = b + 1
        BY <1>1, <1>2, <1>3, <1>5, <2>1, <3>1 DEF RegOK
      <3>3. Sup("multex") = MaxMultex /\ MaxMultex \in 1 .. IntMax - 1 /\ IntMax \in Nat
        BY SupType, MoneyAssumption
      <3> HIDE DEF b, n
      <3>4. n \in 1 .. IntMax /\ MaxMultex \in Nat /\ MaxMultex <= IntMax /\ MaxMultex > 0
        BY <3>2, <3>3
      <3>5. limitValue(n, MaxMultex) > 0
        BY <3>4, LimitType
      <3> QED BY <1>1, <1>5, <2>1, <3>3, <3>5 DEF n
    <2> QED BY <1>1, <1>2, <1>5, <2>1, <2>2, <2>3, MovesOnMarks
  <1> QED BY <1>4, <1>5

LEMMA ListMarks ==
  ASSUME Base, NEW w \in Windows, List(w)
  PROVE  Marking(w) /\ Stays(w) /\ NoSalaryAsked(w)
  <1>1. /\ Others(w) /\ val' = val /\ win[w].todo[1].key = "salary_list" /\ MovesOn(w)
        /\ win[w].todo[1].who = Me(w) /\ salary_list' = salary_list \cup {Me(w)}
    BY ListBase
  <1>2. win[w].at = "save" /\ OwnMark(w) /\ val'[Me(w)]["multex"] = val[Me(w)]["multex"]
    BY <1>1 DEF List, OwnMark
  <1>3. win[w].todo[1].key # "multex" /\ Me(w) \in salary_list'
    BY <1>1
  <1> QED BY <1>1, <1>2, <1>3, MovesOnMarks

LEMMA GoneMarks ==
  ASSUME Base, NEW w \in Windows, Gone(w)
  PROVE  Marking(w) /\ Stays(w) /\ NoSalaryAsked(w)
  <1> DEFINE q == win[w].todo
  <1>1. Others(w) /\ Kept /\ win'[w] = Away("off") /\ "off" \in Places
    BY AwayBase DEF Places
  <1>2. ~InsideNow(win'[w]) /\ NoSalaryAsked(w)
    BY <1>1, AwayMarks DEF NoSalaryAsked
  <1>3. ListStep(w)
    <2> SUFFICES ASSUME NEW i \in 1 .. Len(q), q[i].key = "salary_list"
                 PROVE  Me(w) \in slipped'
      BY DEF ListStep, Enlisting
    <2>1. q \in Seq(Moves)
      BY DEF Base, Typed, Wins
    <2>2. q[i].who = Me(w)
      BY DEF Base, Fits, Proper
    <2>3. q[i] \in ToSet(q)
      <3> HIDE DEF q
      <3> QED BY <2>1 DEF ToSet
    <2>4. slipped' = slipped \cup {s.who : s \in {t \in ToSet(q) : t.key \in {"salary_list"}}}
      BY DEF Gone
    <2> QED BY <2>2, <2>3, <2>4
  <1> QED BY <1>1, <1>2, <1>3, KeptMark DEF Marking, MarkStep, Stays

LEMMA AskMarks ==
  ASSUME Base, NEW w \in Windows,
         \/ Bail(w) \/ Debt(w) \/ Due(w) \/ LogIn(w) \/ Decline(w)
  PROVE  Marking(w) /\ Stays(w) /\ NoSalaryAsked(w)
  <1>1. {"home", "off", "menu"} \subseteq Places
    BY DEF Places
  <1>2. CASE LogIn(w)
    <2>1. Others(w) /\ Kept /\ win'[w] = Away("home") /\ win[w].at # "save"
      BY <1>2, AwayBase DEF LogIn
    <2>2. ~InsideNow(win'[w]) /\ NoSalaryAsked(w)
      BY <1>1, <2>1, AwayMarks DEF NoSalaryAsked
    <2> QED BY <2>1, <2>2, BeforeMarks DEF Stays
  <1>3. CASE Decline(w)
    <2>1. /\ Others(w) /\ Kept /\ win[w].at # "save"
          /\ \/ win'[w] = Away("menu") /\ win[w].at \in {"ask", "loans"}
             \/ win'[w] = Away("home")
      BY <1>3, AwayBase DEF Decline
    <2>2. CASE win'[w] = Away("menu") /\ win[w].at \in {"ask", "loans"}
      <3>1. NoSalaryAsked(w)
        BY <1>1, <2>2, AwayMarks DEF NoSalaryAsked
      <3> QED BY <2>1, <2>2, <3>1, WithinMarks
    <2>3. CASE win'[w] = Away("home")
      <3>1. ~InsideNow(win'[w]) /\ NoSalaryAsked(w)
        BY <1>1, <2>3, AwayMarks DEF NoSalaryAsked
      <3> QED BY <2>1, <3>1, BeforeMarks DEF Stays
    <2> QED BY <2>1, <2>2, <2>3
  <1>4. CASE Bail(w)
    <2>1. Others(w) /\ Kept /\ win[w].at = "bail" /\ InsideNow(win[w])
      BY <1>4, BailBase DEF InsideNow
    <2>2. CASE win'[w] = Away("home")
      <3>1. ~InsideNow(win'[w]) /\ NoSalaryAsked(w)
        BY <1>1, <2>2, AwayMarks DEF NoSalaryAsked
      <3> QED BY <2>1, <3>1, BeforeMarks DEF Stays
    <2>3. CASE win'[w].at = "save" /\ win'[w].next = "debt"
      BY <2>1, <2>3, BeforeMarks DEF Stays, NoSalaryAsked, UnmarkedNow
    <2> QED BY <1>4, <2>2, <2>3, BailBase
  <1>5. CASE Debt(w)
    <2>1. Others(w) /\ Kept /\ win[w].at = "debt" /\ InsideNow(win[w])
      BY <1>5, DebtBase DEF InsideNow
    <2>2. CASE win'[w].at = "due"
      BY <2>1, <2>2, BeforeMarks DEF Stays, NoSalaryAsked, UnmarkedNow
    <2>3. CASE /\ win'[w].at = "save" /\ Len(win'[w].todo) > 0
               /\ win'[w].todo[Len(win'[w].todo)] = Mark(Me(w))
      <3>1. Len(win'[w].todo) \in Nat
        BY <1>5, DebtBase DEF Base, Typed, Wins
      <3>2. MarkAhead(win'[w])
        BY <2>3, <3>1 DEF MarkAhead, Mark, Save
      <3> QED BY <2>1, <2>3, <3>2, BeforeMarks DEF Stays, NoSalaryAsked, UnmarkedNow
    <2> QED BY <1>5, <2>2, <2>3, DebtBase
  <1>6. CASE Due(w)
    <2>1. Others(w) /\ Kept /\ win[w].at = "due" /\ InsideNow(win[w])
      BY <1>6, DueBase DEF InsideNow
    <2>2. CASE win'[w] = Away("home")
      <3>1. ~InsideNow(win'[w]) /\ NoSalaryAsked(w)
        BY <1>1, <2>2, AwayMarks DEF NoSalaryAsked
      <3> QED BY <2>1, <3>1, BeforeMarks DEF Stays
    <2>3. CASE win'[w].at = "save" /\ Len(win'[w].todo) = 5 /\ win'[w].todo[5] = Mark(Me(w))
      <3>1. MarkAhead(win'[w])
        BY <2>3 DEF MarkAhead, Mark, Save
      <3> QED BY <2>1, <2>3, <3>1, BeforeMarks DEF Stays, NoSalaryAsked, UnmarkedNow
    <2> QED BY <1>6, <2>2, <2>3, DueBase
  <1> QED BY <1>2, <1>3, <1>4, <1>5, <1>6

\* What the operations from the menu on leave, of whichever kind.
LEMMA OperateSteps ==
  ASSUME Base, NEW w \in Windows, Operate(w) \/ Leave(w)
  PROVE  /\ Base' /\ Others(w) /\ Kept
         /\ \/ win[w].at \in {"menu", "loans", "repay", "ask"}
            \/ PayDay(w) /\ win' = win
         /\ \/ win'[w].at # "ask" \/ win'[w].op # "salary"
            \/ AskSalary(w) \/ PayDay(w)
  <1>1. ASSUME NEW num \in Amounts, NEW to \in Users, Transfer(w, to, num)
        PROVE  Base' /\ Others(w) /\ Kept /\ win[w].at = "menu" /\ win'[w].at = "save"
    BY <1>1, TransferBase
  <1>2. ASSUME NEW num \in Amounts, Deposit(w, num) \/ Withdraw(w, num)
        PROVE  Base' /\ Others(w) /\ Kept /\ win[w].at = "menu" /\ win'[w].at = "save"
    BY <1>2, DepositBase
  <1>3. ASSUME NEW num \in Amounts, NEW days \in Days,
               TakeLoan(w, num, days) \/ SpecialLoan(w, num, days)
        PROVE  Base' /\ Others(w) /\ Kept /\ win[w].at \in {"loans", "ask"} /\ win'[w].at = "save"
    <2>1. CASE TakeLoan(w, num, days)
      BY <2>1, LoanBase, Accounted
    <2>2. CASE SpecialLoan(w, num, days)
      <3>1. win[w].who \in Users
        BY <2>2, LenderKnown DEF SpecialLoan
      <3> QED BY <2>2, <3>1, LoanBase
    <2> QED BY <1>3, <2>1, <2>2
  <1>4. ASSUME ViewLoans(w)
        PROVE  Base' /\ Others(w) /\ Kept /\ win[w].at = "menu" /\ win'[w].at = "loans"
    BY <1>4, ViewBase
  <1>5. ASSUME ChooseRepay(w)
        PROVE  Base' /\ Others(w) /\ Kept /\ win[w].at = "loans" /\ win'[w].at # "ask"
    BY <1>5, ChooseBase
  <1>6. ASSUME AskRepay(w)
        PROVE  /\ Base' /\ Others(w) /\ Kept /\ win[w].at = "repay"
               /\ win'[w].at # "ask" \/ win'[w].op # "salary"
    <2>1. Away("menu").at = "menu"
      BY AwayType DEF Places
    <2> QED BY <1>6, <2>1, AskRepayBase
  <1>7. ASSUME Repay(w)
        PROVE  Base' /\ Others(w) /\ Kept /\ win[w].at = "ask" /\ win'[w].at # "ask"
    <2>1. Away("menu").at = "menu"
      BY AwayType DEF Places
    <2> QED BY <1>7, <2>1, RepayBase
  <1>8. ASSUME AskSalary(w)
        PROVE  Base' /\ Others(w) /\ Kept /\ win[w].at = "menu"
    BY <1>8, AskSalaryBase
  <1>9. ASSUME TakeSalary(w)
        PROVE  Base' /\ Others(w) /\ Kept /\ win[w].at = "ask" /\ win'[w].at = "save"
    BY <1>9, SalaryBase
  <1>10. ASSUME PayDay(w)
         PROVE  Base' /\ Others(w) /\ Kept /\ win' = win
    BY <1>10, PayDayBase
  <1>11. ASSUME NEW who \in Users, AskSpecialLoan(w, who)
         PROVE  Base' /\ Others(w) /\ Kept /\ win[w].at = "menu" /\ win'[w].op = "lend"
    BY <1>11, AskSpecialBase
  <1>12. ASSUME NEW who \in Users, Accuse(w, who)
         PROVE  /\ Base' /\ Others(w) /\ Kept /\ win[w].at = "ask"
                /\ win'[w].at # "ask" \/ win'[w].op # "salary"
    BY <1>12, AccuseBase
  <1>16. ASSUME Suspect(w)
         PROVE  Base' /\ Others(w) /\ Kept /\ win[w].at = "menu" /\ win'[w].op = "hunt"
    BY <1>16, SuspectBase
  <1>13. ASSUME NEW days \in Days, Catch(w, days)
         PROVE  Base' /\ Others(w) /\ Kept /\ win[w].at = "ask" /\ win'[w].at = "save"
    BY <1>13, CatchBase
  <1>14. ASSUME NEW days \in Days, Surrender(w, days)
         PROVE  Base' /\ Others(w) /\ Kept /\ win[w].at = "menu" /\ win'[w].at # "ask"
    <2>1. Away("off").at = "off"
      BY AwayType DEF Places
    <2> QED BY <1>14, <2>1, SurrenderBase
  <1>15. ASSUME Leave(w)
         PROVE  Base' /\ Others(w) /\ Kept /\ win[w].at = "menu" /\ win'[w].at = "save"
    BY <1>15, LeaveBase
  <1> QED BY <1>1, <1>2, <1>3, <1>4, <1>5, <1>6, <1>7, <1>8, <1>9, <1>10, <1>11, <1>12, <1>13,
             <1>14, <1>15, <1>16 DEF Operate

LEMMA OperateHistory ==
  ASSUME NEW w \in Windows, Operate(w) \/ Leave(w)
  PROVE  /\ slipped' = slipped
         /\ salary_list' = salary_list \/ PayDay(w)
         /\ paid' = paid \/ TakeSalary(w) \/ PayDay(w)
  <1>1. ASSUME NEW num \in Amounts, NEW to \in Users, Transfer(w, to, num)
        PROVE  UNCHANGED <<slipped, salary_list, paid>>
    BY <1>1 DEF Transfer
  <1>2. ASSUME NEW num \in Amounts, Deposit(w, num) \/ Withdraw(w, num)
        PROVE  UNCHANGED <<slipped, salary_list, paid>>
    BY <1>2 DEF Deposit, Withdraw, history
  <1>3. ASSUME NEW num \in Amounts, NEW days \in Days,
               TakeLoan(w, num, days) \/ SpecialLoan(w, num, days)
        PROVE  UNCHANGED <<slipped, salary_list, paid>>
    BY <1>3 DEF TakeLoan, SpecialLoan
  <1>4. ASSUME \/ ViewLoans(w) \/ ChooseRepay(w) \/ AskRepay(w) \/ Repay(w) \/ AskSalary(w)
               \/ Suspect(w) \/ Leave(w)
        PROVE  UNCHANGED <<slipped, salary_list, paid>>
    BY <1>4 DEF ViewLoans, ChooseRepay, AskRepay, Repay, AskSalary, Suspect, Leave, history
  <1>5. ASSUME NEW who \in Users, AskSpecialLoan(w, who) \/ Accuse(w, who)
        PROVE  UNCHANGED <<slipped, salary_list, paid>>
    BY <1>5 DEF AskSpecialLoan, Accuse, history
  <1>6. ASSUME NEW days \in Days, Catch(w, days) \/ Surrender(w, days)
        PROVE  UNCHANGED <<slipped, salary_list, paid>>
    BY <1>6 DEF Catch, Surrender
  <1>7. TakeSalary(w) => UNCHANGED <<slipped, salary_list>>
    BY DEF TakeSalary
  <1>8. PayDay(w) => slipped' = slipped
    BY DEF PayDay
  <1> QED BY <1>1, <1>2, <1>3, <1>4, <1>5, <1>6, <1>7, <1>8 DEF Operate

LEMMA NextBase ==
  ASSUME Base, [Next]_vars
  PROVE  Base'
  <1>1. ASSUME NEW w \in Windows, Load(w) \/ Store(w) PROVE Base'
    BY <1>1, LoadBase, StoreBase
  <1>2. ASSUME NEW w \in Windows, List(w) PROVE Base'
    BY <1>2, ListBase
  <1>3. ASSUME NEW w \in Windows, Gone(w) \/ LogIn(w) \/ Decline(w) PROVE Base'
    BY <1>3, AwayBase
  <1>4. ASSUME NEW w \in Windows, Knock(w) PROVE Base'
    BY <1>4, KnockBase
  <1>5. ASSUME NEW w \in Windows, Bail(w) PROVE Base'
    BY <1>5, BailBase
  <1>6. ASSUME NEW w \in Windows, Debt(w) PROVE Base'
    BY <1>6, DebtBase
  <1>7. ASSUME NEW w \in Windows, Due(w) PROVE Base'
    BY <1>7, DueBase
  <1>8. ASSUME NEW w \in Windows, Operate(w) \/ Leave(w) PROVE Base'
    BY <1>8, OperateSteps
  <1>9. CASE Tick
    BY <1>9, TickBase
  <1>10. CASE UNCHANGED vars
    BY <1>10 DEF vars, history, Base, Typed, Fits, RegOK, Proper, Me, time
  <1> QED BY <1>1, <1>2, <1>3, <1>4, <1>5, <1>6, <1>7, <1>8, <1>9, <1>10 DEF Next

\* Of a user who has not slipped in: one window is inside, the mark is set
\* while it is past the door, and the salary of this pay day is listed, or
\* about to be.
OneInside(u) ==
  \A v, w \in Windows :
    Me(v) = u /\ Me(w) = u /\ InsideNow(win[v]) /\ InsideNow(win[w]) => v = w
MarkSet(u) ==
  \A w \in Windows :
    Me(w) = u /\ InsideNow(win[w]) /\ ~UnmarkedNow(win[w]) => val[u]["multex"] > 0
Listed(u) ==
  u \in salary_list \/ \E w \in Windows : Me(w) = u /\ Enlisting(win[w])
PaidOnce(u) == paid[u] = 0 \/ (paid[u] = 1 /\ Listed(u))
AskedUnpaid(u) ==
  \A w \in Windows : Me(w) = u /\ win[w].at = "ask" /\ win[w].op = "salary" => paid[u] = 0

SalaryInv ==
  Base /\ \A u \in Users \ slipped : OneInside(u) /\ MarkSet(u) /\ PaidOnce(u) /\ AskedUnpaid(u)

LEMMA InitSalary ==
  ASSUME Init
  PROVE  SalaryInv
  <1>1. Base
    BY InitBase
  <1>2. \A w \in Windows : \E at \in {"home", "unused"} : win[w] = Away(at)
    <2>1. PICK setup \in Setups :
            win = [w \in Windows |-> Away(IF w \in setup.crew THEN "home" ELSE "unused")]
      BY DEF Init
    <2> QED BY <2>1
  <1>3. {"home", "unused"} \subseteq Places
    BY DEF Places
  <1>4. \A w \in Windows : ~InsideNow(win[w]) /\ win[w].at # "ask"
    BY <1>2, <1>3, AwayMarks, AwayType
  <1>5. \A u \in Users : paid[u] = 0
    BY DEF Init
  <1> QED BY <1>1, <1>4, <1>5 DEF SalaryInv, OneInside, MarkSet, PaidOnce, AskedUnpaid

\* Of the users of other windows, a step changes nothing.
LEMMA OtherUser ==
  ASSUME NEW w \in Windows, NEW u \in Users, Me(w) # u, Others(w), OwnMark(w),
         paid'[u] = paid[u], salary_list \subseteq salary_list',
         OneInside(u), MarkSet(u), PaidOnce(u), AskedUnpaid(u)
  PROVE  OneInside(u)' /\ MarkSet(u)' /\ PaidOnce(u)' /\ AskedUnpaid(u)'
  <1>1. \A v \in Windows : Me(v) = u => win'[v] = win[v]
    BY DEF Others
  <1>2. val'[u]["multex"] = val[u]["multex"]
    BY DEF OwnMark
  <1>3. \A v \in Windows : Me(v)' = Me(v)
    BY DEF Me
  <1>4. OneInside(u)'
    BY <1>1, <1>3 DEF OneInside, InsideNow
  <1>5. MarkSet(u)'
    BY <1>1, <1>2, <1>3 DEF MarkSet, InsideNow, UnmarkedNow, MarkAhead
  <1>6. PaidOnce(u)'
    BY <1>1, <1>3 DEF PaidOnce, Listed, Enlisting
  <1>7. AskedUnpaid(u)'
    BY <1>1, <1>3 DEF AskedUnpaid
  <1> QED BY <1>4, <1>5, <1>6, <1>7

LEMMA OwnUser ==
  ASSUME NEW w \in Windows, NEW u \in Users, Me(w) = u, u \notin slipped', Marking(w),
         Stays(w) \/ \A v \in Windows \ {w} : Me(v) = u => ~InsideNow(win[v]),
         InsideNow(win[w]) \/ Kept,
         paid'[u] = paid[u], salary_list \subseteq salary_list',
         NoSalaryAsked(w) \/ paid[u] = 0,
         OneInside(u), MarkSet(u), PaidOnce(u), AskedUnpaid(u)
  PROVE  OneInside(u)' /\ MarkSet(u)' /\ PaidOnce(u)' /\ AskedUnpaid(u)'
  <1>1. \A v \in Windows \ {w} : win'[v] = win[v]
    BY DEF Marking, Others
  <1>2. \A v \in Windows : Me(v)' = Me(v)
    BY DEF Me
  <1>3. MarkStep(w) /\ ListStep(w)
    BY DEF Marking
  <1>4. OneInside(u)'
    <2> SUFFICES ASSUME NEW v \in Windows, NEW x \in Windows, Me(v) = u, Me(x) = u,
                        InsideNow(win'[v]), InsideNow(win'[x])
                 PROVE  v = x
      BY <1>2 DEF OneInside, InsideNow
    <2>1. CASE Stays(w)
      <3>1. InsideNow(win[v]) /\ InsideNow(win[x])
        BY <1>1, <2>1 DEF Stays
      <3> QED BY <3>1 DEF OneInside
    <2>2. CASE \A y \in Windows \ {w} : Me(y) = u => ~InsideNow(win[y])
      BY <1>1, <2>2
    <2> QED BY <2>1, <2>2
  <1>5. MarkSet(u)'
    <2> SUFFICES ASSUME NEW x \in Windows, Me(x) = u, InsideNow(win'[x]), ~UnmarkedNow(win'[x])
                 PROVE  val'[u]["multex"] > 0
      BY <1>2 DEF MarkSet, InsideNow, UnmarkedNow, MarkAhead
    <2>1. CASE x = w
      BY <1>3, <2>1 DEF MarkStep, MarkSet
    <2>2. CASE x # w
      <3>1. InsideNow(win[x]) /\ ~UnmarkedNow(win[x])
        BY <1>1, <2>2
      <3>2. ~InsideNow(win[w])
        BY <2>2, <3>1 DEF OneInside
      <3>3. val'[u]["multex"] = val[u]["multex"]
        BY <3>2 DEF Kept
      <3> QED BY <3>1, <3>3 DEF MarkSet
    <2> QED BY <2>1, <2>2
  <1>6. PaidOnce(u)'
    <2>1. Listed(u) => Listed(u)'
      <3>1. CASE u \in salary_list
        BY <3>1 DEF Listed
      <3>2. ASSUME NEW v \in Windows, Me(v) = u, Enlisting(win[v])
            PROVE  u \in salary_list' \/ \E x \in Windows : Me(x) = u /\ Enlisting(win'[x])
        <4>1. CASE v = w
          BY <1>3, <3>2, <4>1 DEF ListStep
        <4>2. CASE v # w
          BY <1>1, <3>2, <4>2
        <4> QED BY <4>1, <4>2
      <3>3. Listed(u)' <=> (u \in salary_list' \/ \E x \in Windows : Me(x) = u /\ Enlisting(win'[x]))
        BY <1>2 DEF Listed, Enlisting
      <3> QED BY <3>1, <3>2, <3>3 DEF Listed
    <2> QED BY <2>1 DEF PaidOnce
  <1>7. AskedUnpaid(u)'
    <2> SUFFICES ASSUME NEW x \in Windows, Me(x) = u, win'[x].at = "ask", win'[x].op = "salary"
                 PROVE  paid'[u] = 0
      BY <1>2 DEF AskedUnpaid
    <2>1. CASE x = w
      BY <2>1 DEF NoSalaryAsked
    <2>2. CASE x # w
      BY <1>1, <2>2 DEF AskedUnpaid
    <2> QED BY <2>1, <2>2
  <1> QED BY <1>4, <1>5, <1>6, <1>7

\* Whoever comes in while another window of his is in has slipped in.
LEMMA KnockAlone ==
  ASSUME Base, NEW w \in Windows, Knock(w), Me(w) \notin slipped', MarkSet(Me(w))
  PROVE  \A v \in Windows \ {w} : Me(v) = Me(w) => ~InsideNow(win[v])
  <1> DEFINE u == Me(w)
             open == Open(u)
  <1> SUFFICES ASSUME NEW v \in Windows \ {w}, Me(v) = u, InsideNow(win[v])
               PROVE  FALSE
    OBVIOUS
  <1>1. Typed /\ u \in Accounts /\ "multex" \in Keys
    BY Accounted DEF Base, Keys
  <1>2. ~Unmarked(v)
    BY DEF Knock, Me
  <1>3. val[u]["multex"] > 0
    BY <1>1, <1>2, UnmarkedIs DEF MarkSet
  <1>4. loadValue(u, "multex") # 0
    <2>1. loadValue(u, "multex") = val[u]["multex"]
      BY <1>1, LoadIs
    <2> QED BY <1>3, <2>1
  <1>5. Cardinality(open) <= 1
    BY <1>4 DEF Knock, Passes
  <1>6. v \in open /\ w \in open /\ v # w
    BY DEF Open, InsideNow, Knock, Me
  <1>7. IsFiniteSet(open)
    <2>1. open \subseteq Windows
      BY DEF Open
    <2> QED BY <2>1, MoneyAssumption, FS_Subset
  <1> HIDE DEF open
  <1>8. Cardinality(open) \in Nat
    BY <1>7, FS_CardinalityType
  <1>9. Cardinality(open) = 0 => open = {}
    BY <1>7, FS_EmptySet
  <1>10. Cardinality(open) = 1 => \E x : open = {x}
    BY <1>7, FS_Singleton
  <1> QED BY <1>5, <1>6, <1>8, <1>9, <1>10

LEMMA NextSalary ==
  ASSUME SalaryInv, [Next]_vars
  PROVE  SalaryInv'
  <1>0. Base /\ Base' /\ Typed
    BY NextBase DEF SalaryInv, Base
  <1> SUFFICES ASSUME NEW u \in Users, u \notin slipped'
               PROVE  OneInside(u)' /\ MarkSet(u)' /\ PaidOnce(u)' /\ AskedUnpaid(u)'
    BY <1>0 DEF SalaryInv
  <1> DEFINE Fine4  == OneInside(u) /\ MarkSet(u) /\ PaidOnce(u) /\ AskedUnpaid(u)
             Fine4p == OneInside(u)' /\ MarkSet(u)' /\ PaidOnce(u)' /\ AskedUnpaid(u)'
  <1>1. u \notin slipped => Fine4
    BY DEF SalaryInv
  <1>2. ASSUME NEW w \in Windows, Marking(w), Stays(w), InsideNow(win[w]) \/ Kept,
               salary_list \subseteq salary_list', paid' = paid, slipped \subseteq slipped',
               NoSalaryAsked(w) \/ paid[Me(w)] = 0
        PROVE  Fine4p
    <2>1. Fine4 /\ Me(w) \in Users /\ Others(w) /\ OwnMark(w)
      BY <1>1, <1>2, Accounted DEF Marking
    <2>2. CASE Me(w) = u
      BY <1>2, <2>1, <2>2, OwnUser
    <2>3. CASE Me(w) # u
      BY <1>2, <2>1, <2>3, OtherUser
    <2> QED BY <2>2, <2>3
  <1>3. ASSUME NEW w \in Windows, Load(w) \/ Store(w) PROVE Fine4p
    <2>1. InsideNow(win[w])
      BY <1>3 DEF InsideNow, Load, Store
    <2>2. salary_list' = salary_list /\ paid' = paid /\ slipped' = slipped
      BY <1>3 DEF Load, Store
    <2>3. Marking(w) /\ Stays(w) /\ NoSalaryAsked(w)
      BY <1>0, <1>3, LoadMarks, StoreMarks
    <2> QED BY <1>2, <2>1, <2>2, <2>3
  <1>4. ASSUME NEW w \in Windows, List(w) PROVE Fine4p
    <2>1. InsideNow(win[w])
      BY <1>4 DEF InsideNow, List
    <2>2. salary_list \subseteq salary_list' /\ paid' = paid /\ slipped' = slipped
      BY <1>4 DEF List, history
    <2> QED BY <1>0, <1>2, <1>4, <2>1, <2>2, ListMarks
  <1>5. ASSUME NEW w \in Windows, Gone(w) PROVE Fine4p
    <2>1. Kept
      BY <1>0, <1>5, AwayBase
    <2>2. salary_list' = salary_list /\ paid' = paid /\ slipped \subseteq slipped'
      BY <1>5 DEF Gone
    <2> QED BY <1>0, <1>2, <1>5, <2>1, <2>2, GoneMarks
  <1>6. ASSUME NEW w \in Windows, \/ Bail(w) \/ Debt(w) \/ Due(w) \/ LogIn(w) \/ Decline(w)
        PROVE  Fine4p
    <2>1. Kept
      BY <1>6 DEF Bail, Debt, Due, LogIn, Decline, Kept, history
    <2>2. salary_list' = salary_list /\ paid' = paid /\ slipped' = slipped
      BY <1>6 DEF Bail, Debt, Due, LogIn, Decline, history
    <2> QED BY <1>0, <1>2, <1>6, <2>1, <2>2, AskMarks
  <1>7. ASSUME NEW w \in Windows, Knock(w) PROVE Fine4p
    <2>1. /\ Others(w) /\ Kept /\ win[w].at = "home" /\ win'[w].op = "none"
          /\ win'[w].at \in {"save", "bail", "debt"}
          /\ \/ win'[w].next = "debt" \/ win'[w].next = "bail" \/ win'[w].at \in {"bail", "debt"}
      BY <1>0, <1>7, KnockBase
    <2>2. UnmarkedNow(win'[w]) /\ NoSalaryAsked(w)
      BY <2>1 DEF UnmarkedNow, NoSalaryAsked
    <2>3. Marking(w)
      BY <1>0, <2>1, <2>2, BeforeMarks
    <2>4. salary_list' = salary_list /\ paid' = paid /\ slipped \subseteq slipped'
      BY <1>7 DEF Knock
    <2>5. Fine4 /\ OwnMark(w)
      BY <1>1, <2>3, <2>4 DEF Marking
    <2>6. CASE Me(w) = u
      <3>1. \A v \in Windows \ {w} : Me(v) = u => ~InsideNow(win[v])
        BY <1>0, <1>7, <2>5, <2>6, KnockAlone
      <3> QED BY <2>1, <2>2, <2>3, <2>4, <2>5, <2>6, <3>1, OwnUser
    <2>7. CASE Me(w) # u
      BY <2>1, <2>4, <2>5, <2>7, OtherUser
    <2> QED BY <2>6, <2>7
  <1>8. ASSUME NEW w \in Windows, Operate(w) \/ Leave(w), ~PayDay(w) PROVE Fine4p
    <2>1. /\ Others(w) /\ Kept /\ win[w].at \in {"menu", "loans", "repay", "ask"}
          /\ win'[w].at # "ask" \/ win'[w].op # "salary" \/ AskSalary(w)
          /\ slipped' = slipped /\ salary_list' = salary_list
          /\ paid' = paid \/ TakeSalary(w)
      BY <1>0, <1>8, OperateSteps, OperateHistory
    <2>2. Marking(w) /\ Stays(w) /\ InsideNow(win[w])
      BY <1>0, <2>1, WithinMarks DEF InsideNow
    <2>3. Me(w) \in Users
      BY Accounted
    <2>4. AskSalary(w) /\ Me(w) = u => paid[u] = 0
      <3> SUFFICES ASSUME AskSalary(w), Me(w) = u PROVE paid[u] = 0
        OBVIOUS
      <3>1. u \notin salary_list /\ Fine4
        BY <1>0, <1>1, <2>1, AskSalaryBase
      <3>2. ~Enlisting(win[w])
        <4>1. win[w].todo = <<>>
          BY <1>0, <2>1, Idle
        <4> QED BY <4>1 DEF Enlisting
      <3>3. \A v \in Windows : Me(v) = u /\ v # w => ~Enlisting(win[v])
        <4> SUFFICES ASSUME NEW v \in Windows, Me(v) = u, v # w, Enlisting(win[v])
                     PROVE  FALSE
          OBVIOUS
        <4>1. ~InsideNow(win[v])
          BY <2>2, <3>1 DEF OneInside
        <4>2. win[v].todo = <<>>
          BY <1>0, <4>1, Idle DEF InsideNow
        <4> QED BY <4>2 DEF Enlisting
      <3> QED BY <3>1, <3>2, <3>3 DEF PaidOnce, Listed
    <2>5. CASE paid' = paid
      <3>1. CASE Me(w) = u
        <4>1. NoSalaryAsked(w) \/ paid[u] = 0
          BY <2>1, <2>4, <3>1 DEF NoSalaryAsked
        <4> QED BY <1>2, <2>1, <2>2, <2>5, <3>1, <4>1
      <3>2. CASE Me(w) # u
        <4>1. Fine4 /\ OwnMark(w)
          BY <1>1, <2>1, <2>2 DEF Marking
        <4> QED BY <2>1, <2>5, <3>2, <4>1, OtherUser
      <3> QED BY <3>1, <3>2
    <2>6. CASE TakeSalary(w)
      <3>1. /\ win[w].at = "ask" /\ win[w].op = "salary" /\ win'[w].at = "save"
            /\ Len(win'[w].todo) = 2 /\ win'[w].todo[2] = Enlist(Me(w))
            /\ paid' = [paid EXCEPT ![Me(w)] = @ + 1]
        BY <1>0, <2>6, SalaryBase
      <3>2. Fine4 /\ OwnMark(w) /\ paid \in [Users -> Nat]
        BY <1>0, <1>1, <2>1, <2>2 DEF Marking, Typed
      <3>3. CASE Me(w) = u
        <4>1. paid[u] = 0 /\ paid'[u] = 1
          <5>1. paid[u] = 0
            BY <3>1, <3>2, <3>3 DEF AskedUnpaid
          <5> QED BY <3>1, <3>2, <3>3, <5>1
        <4>2. Enlisting(win'[w])
          BY <3>1 DEF Enlisting, Enlist, Save
        <4>3. \A v \in Windows : Me(v)' = Me(v)
          BY DEF Me
        <4>4. \A v \in Windows \ {w} : win'[v] = win[v]
          BY <2>1 DEF Others
        <4>5. OneInside(u)'
          BY <2>2, <3>2, <3>3, <4>3, <4>4 DEF OneInside, InsideNow
        <4>6. Listed(u)'
          BY <3>3, <4>2, <4>3 DEF Listed, Enlisting
        <4>7. MarkSet(u)'
          <5> SUFFICES ASSUME NEW x \in Windows, Me(x) = u, InsideNow(win'[x]), ~UnmarkedNow(win'[x])
                       PROVE  val'[u]["multex"] > 0
            BY <4>3 DEF MarkSet, InsideNow, UnmarkedNow, MarkAhead
          <5>1. x = w
            BY <2>2, <3>2, <3>3, <4>4 DEF OneInside
          <5>2. MarkStep(w)
            BY <2>2 DEF Marking
          <5> QED BY <3>2, <3>3, <5>1, <5>2 DEF MarkStep, MarkSet
        <4>8. AskedUnpaid(u)'
          <5> SUFFICES ASSUME NEW x \in Windows, Me(x) = u, win'[x].at = "ask", win'[x].op = "salary"
                       PROVE  FALSE
            BY <4>3 DEF AskedUnpaid
          <5>1. x # w
            BY <3>1
          <5>2. InsideNow(win[x])
            BY <4>4, <5>1 DEF InsideNow
          <5> QED BY <2>2, <3>2, <3>3, <5>1, <5>2 DEF OneInside
        <4> QED BY <4>1, <4>5, <4>6, <4>7, <4>8 DEF PaidOnce
      <3>4. CASE Me(w) # u
        <4>1. paid'[u] = paid[u]
          BY <2>3, <3>1, <3>2, <3>4
        <4> QED BY <2>1, <3>2, <3>4, <4>1, OtherUser
      <3> QED BY <3>3, <3>4
    <2> QED BY <2>1, <2>5, <2>6
  <1>9. ASSUME NEW w \in Windows, PayDay(w) PROVE Fine4p
    <2>1. /\ win' = win /\ val' = val /\ slipped' = slipped /\ paid' = [v \in Users |-> 0]
      BY <1>9 DEF PayDay
    <2>2. paid'[u] = 0 /\ Fine4
      BY <1>1, <2>1
    <2> QED BY <2>1, <2>2 DEF OneInside, MarkSet, PaidOnce, AskedUnpaid, InsideNow, UnmarkedNow,
                              MarkAhead, Me
  <1>10. ASSUME UNCHANGED <<val, win, salary_list, slipped, paid>> PROVE Fine4p
    BY <1>1, <1>10 DEF OneInside, MarkSet, PaidOnce, AskedUnpaid, InsideNow, UnmarkedNow,
                       MarkAhead, Me, Listed, Enlisting
  <1>11. CASE Tick
    BY <1>10, <1>11 DEF Tick, history
  <1>12. CASE UNCHANGED vars
    BY <1>10, <1>12 DEF vars, history
  <1> QED BY <1>3, <1>4, <1>5, <1>6, <1>7, <1>8, <1>9, <1>11, <1>12 DEF Next

\* SalaryHolds: between two pay days a user takes one salary at most, however
\* the steps of his windows mix with those of the others, unless two of his
\* windows came in at a time or one left before he was listed (money_bank,
\* check_allow_in).
THEOREM SalaryHolds == Spec => []SalaryOnce
  <1>1. SalaryInv => SalaryOnce
    BY DEF SalaryInv, PaidOnce, SalaryOnce
  <1> QED BY <1>1, InitSalary, NextSalary, PTL DEF Spec

-----------------------------------------------------------------------------
(* Terms in jail, and loans: which steps are about them.                   *)
NoTerm(x) == \A i \in 1 .. Len(x.todo) : x.todo[i].key # "freeTime"
NoLoan(x) == \A i \in 1 .. Len(x.todo) : x.todo[i].key \notin Loan

LoanOp(w) ==
  \/ ChooseRepay(w) \/ Repay(w)
  \/ \E num \in Amounts, days \in Days : TakeLoan(w, num, days) \/ SpecialLoan(w, num, days)
ArrestOp(w) == \E days \in Days : Catch(w, days) \/ Surrender(w, days)

LEMMA NothingAbout ==
  /\ \A x : x.todo = <<>> => NoTerm(x) /\ NoLoan(x)
  /\ \A x : (\A i \in 1 .. Len(x.todo) : x.todo[i].key \in Purse) => NoTerm(x) /\ NoLoan(x)
  /\ \A x : (\A i \in 1 .. Len(x.todo) : Plain(x.todo[i])) => NoTerm(x)
  /\ \A at \in Places : NoTerm(Away(at)) /\ NoLoan(Away(at))
  <1>1. \A k \in Purse : k # "freeTime" /\ k \notin Loan
    BY DEF Purse, Loan
  <1>2. \A x : x.todo = <<>> => NoTerm(x) /\ NoLoan(x)
    BY DEF NoTerm, NoLoan
  <1>3. \A x : (\A i \in 1 .. Len(x.todo) : x.todo[i].key \in Purse) => NoTerm(x) /\ NoLoan(x)
    BY <1>1 DEF NoTerm, NoLoan
  <1>4. \A x : (\A i \in 1 .. Len(x.todo) : Plain(x.todo[i])) => NoTerm(x)
    BY DEF NoTerm, Plain
  <1> QED BY <1>2, <1>3, <1>4, AwayType

LEMMA SoleMove ==
  \A x, s : x.todo = <<s>> =>
    /\ s.key # "freeTime" => NoTerm(x)
    /\ s.key \notin Loan => NoLoan(x)
  BY DEF NoTerm, NoLoan

LEMMA OperateKinds ==
  ASSUME Base, NEW w \in Windows, Operate(w) \/ Leave(w)
  PROVE  \/ win' = win /\ seized' = seized /\ muddled' = muddled
         \/ NoTerm(win'[w]) /\ NoLoan(win'[w]) /\ seized' = seized /\ muddled' = muddled
         \/ NoTerm(win'[w]) /\ seized' = seized /\ LoanOp(w)
         \/ NoLoan(win'[w]) /\ muddled' = muddled /\ ArrestOp(w)
  <1>0. {"menu", "home", "off"} \subseteq Places
    BY DEF Places
  <1>1. ASSUME NEW num \in Amounts, NEW to \in Users, Transfer(w, to, num)
        PROVE  NoTerm(win'[w]) /\ NoLoan(win'[w]) /\ seized' = seized /\ muddled' = muddled
    <2>1. \A i \in 1 .. Len(win'[w].todo) : win'[w].todo[i].key \in Purse
      BY <1>1, TransferBase
    <2> QED BY <1>1, <2>1, NothingAbout DEF Transfer
  <1>2. ASSUME NEW num \in Amounts, Deposit(w, num) \/ Withdraw(w, num)
        PROVE  NoTerm(win'[w]) /\ NoLoan(win'[w]) /\ seized' = seized /\ muddled' = muddled
    <2>1. \A i \in 1 .. Len(win'[w].todo) : win'[w].todo[i].key \in Purse
      BY <1>2, DepositBase
    <2> QED BY <1>2, <2>1, NothingAbout DEF Deposit, Withdraw, history
  <1>3. ASSUME NEW num \in Amounts, NEW days \in Days,
               TakeLoan(w, num, days) \/ SpecialLoan(w, num, days)
        PROVE  NoTerm(win'[w]) /\ seized' = seized
    <2>1. \A i \in 1 .. Len(win'[w].todo) : Plain(win'[w].todo[i])
      <3>1. CASE TakeLoan(w, num, days)
        BY <3>1, LoanBase, Accounted
      <3>2. CASE SpecialLoan(w, num, days)
        <4>1. win[w].who \in Users
          BY <3>2, LenderKnown DEF SpecialLoan
        <4> QED BY <3>2, <4>1, LoanBase
      <3> QED BY <1>3, <3>1, <3>2
    <2> QED BY <1>3, <2>1, NothingAbout DEF TakeLoan, SpecialLoan
  <1>4. ASSUME ViewLoans(w) \/ AskRepay(w) \/ AskSalary(w) \/ Suspect(w)
        PROVE  NoTerm(win'[w]) /\ NoLoan(win'[w]) /\ seized' = seized /\ muddled' = muddled
    <2>1. win'[w].todo = <<>>
      BY <1>0, <1>4, ViewBase, AskRepayBase, AskSalaryBase, SuspectBase, AwayType
    <2> QED BY <1>4, <2>1, NothingAbout DEF ViewLoans, AskRepay, AskSalary, Suspect, history
  <1>5. ASSUME ChooseRepay(w) PROVE NoTerm(win'[w]) /\ seized' = seized
    <2>1. NoTerm(win'[w])
      BY <1>5, ChooseBase, NothingAbout
    <2> QED BY <1>5, <2>1 DEF ChooseRepay
  <1>6. ASSUME Repay(w) PROVE NoTerm(win'[w]) /\ seized' = seized
    <2>1. NoTerm(win'[w])
      BY <1>0, <1>6, RepayBase, NothingAbout
    <2> QED BY <1>6, <2>1 DEF Repay
  <1>7. ASSUME TakeSalary(w)
        PROVE  NoTerm(win'[w]) /\ NoLoan(win'[w]) /\ seized' = seized /\ muddled' = muddled
    <2>1. /\ Len(win'[w].todo) = 2 /\ win'[w].todo[1].key = "bmy_money"
          /\ win'[w].todo[2].key = "salary_list"
      <3>1. /\ Len(win'[w].todo) = 2 /\ win'[w].todo[1].key = "bmy_money"
            /\ win'[w].todo[2] = Enlist(Me(w))
        BY <1>7, SalaryBase
      <3>2. Enlist(Me(w)).key = "salary_list"
        BY DEF Enlist, Save
      <3> QED BY <3>1, <3>2
    <2>2. \A i \in 1 .. 2 : i = 1 \/ i = 2
      OBVIOUS
    <2>3. NoTerm(win'[w]) /\ NoLoan(win'[w])
      BY <2>1, <2>2 DEF NoTerm, NoLoan, Loan
    <2> QED BY <1>7, <2>3 DEF TakeSalary
  <1>8. ASSUME PayDay(w) PROVE win' = win /\ seized' = seized /\ muddled' = muddled
    BY <1>8 DEF PayDay
  <1>9. ASSUME NEW who \in Users, AskSpecialLoan(w, who) \/ Accuse(w, who)
        PROVE  NoTerm(win'[w]) /\ NoLoan(win'[w]) /\ seized' = seized /\ muddled' = muddled
    <2>1. NoTerm(win'[w]) /\ NoLoan(win'[w])
      BY <1>9, AskSpecialBase, AccuseBase, NothingAbout
    <2> QED BY <1>9, <2>1 DEF AskSpecialLoan, Accuse, history
  <1>10. ASSUME NEW days \in Days, Catch(w, days) \/ Surrender(w, days)
         PROVE  NoLoan(win'[w]) /\ muddled' = muddled
    <2>1. \/ win'[w] = Away("off")
          \/ \E u : win'[w].todo = <<SaveDate(u, "freeTime", days)>>
      BY <1>10, CatchBase, SurrenderBase
    <2>2. \A u : SaveDate(u, "freeTime", days).key \notin Loan
      BY DEF SaveDate, Loan
    <2>3. NoLoan(win'[w])
      BY <1>0, <2>1, <2>2, SoleMove, NothingAbout
    <2> QED BY <1>10, <2>3 DEF Catch, Surrender
  <1>11. ASSUME Leave(w)
         PROVE  NoTerm(win'[w]) /\ NoLoan(win'[w]) /\ seized' = seized /\ muddled' = muddled
    <2>1. win'[w].todo = <<Erase(Me(w), "multex")>>
      BY <1>11, LeaveBase
    <2>2. Erase(Me(w), "multex").key = "multex"
      BY DEF Erase, Save
    <2>3. NoTerm(win'[w]) /\ NoLoan(win'[w])
      BY <2>1, <2>2, SoleMove DEF Loan
    <2> QED BY <1>11, <2>3 DEF Leave, history
  <1> QED BY <1>1, <1>2, <1>3, <1>4, <1>5, <1>6, <1>7, <1>8, <1>9, <1>10, <1>11
             DEF Operate, LoanOp, ArrestOp

Ahead(x) == {x.todo[i] : i \in 1 .. Len(x.todo)}

LEMMA AheadIs ==
  /\ \A x : x.todo = <<>> => Ahead(x) = {}
  /\ \A x, s : x.todo = <<s>> => Ahead(x) = {s}
  /\ \A at \in Places : Ahead(Away(at)) = {}
  /\ \A x, s : NoTerm(x) /\ s \in Ahead(x) => s.key # "freeTime"
  /\ \A x, s : NoLoan(x) /\ s \in Ahead(x) => s.key \notin Loan
  <1>1. \A x : x.todo = <<>> => Ahead(x) = {}
    BY DEF Ahead
  <1>2. \A x, s : x.todo = <<s>> => Ahead(x) = {s}
    BY DEF Ahead
  <1>3. \A x, s : NoTerm(x) /\ s \in Ahead(x) => s.key # "freeTime"
    BY DEF Ahead, NoTerm
  <1>4. \A x, s : NoLoan(x) /\ s \in Ahead(x) => s.key \notin Loan
    BY DEF Ahead, NoLoan
  <1> QED BY <1>1, <1>2, <1>3, <1>4, AwayType

LEMMA MovesOnAhead ==
  ASSUME Base, NEW w \in Windows, win[w].at = "save", MovesOn(w)
  PROVE  /\ Ahead(win'[w]) \subseteq Ahead(win[w])
         /\ win[w].todo[1] \in Ahead(win[w])
         /\ Len(win[w].todo) = 1 <=> Tail(win[w].todo) = <<>>
         /\ Len(win[w].todo) = 1 => win'[w].todo = <<>> /\ Ahead(win'[w]) = {}
         /\ Ahead(win'[w]) # {} => win'[w].num = win[w].num
  <1> DEFINE q == win[w].todo
             rest == Tail(q)
  <1>1. q \in Seq(Moves) /\ q # <<>>
    BY FirstMove DEF Scripts
  <1>2. /\ Len(q) \in Nat /\ Len(q) > 0 /\ rest \in Seq(Moves)
        /\ Len(rest) = Len(q) - 1 /\ \A i \in 1 .. Len(rest) : rest[i] = q[i + 1]
    <2> HIDE DEF q
    <2> QED BY <1>1
  <1>3. rest = <<>> \/ rest # <<>>
    OBVIOUS
  <1>4. rest = <<>> <=> Len(q) = 1
    <2> HIDE DEF q, rest
    <2>1. rest = <<>> <=> Len(rest) = 0
      BY <1>2
    <2> QED BY <1>2, <2>1
  <1>5. CASE rest # <<>>
    <2>1. win'[w].todo = rest /\ win'[w].num = win[w].num
      BY <1>5 DEF MovesOn
    <2> HIDE DEF rest
    <2>2. ASSUME NEW i \in 1 .. Len(rest) PROVE \E j \in 1 .. Len(q) : rest[i] = q[j]
      <3>1. i + 1 \in 1 .. Len(q) /\ rest[i] = q[i + 1]
        BY <1>2
      <3> QED BY <3>1
    <2>3. Ahead(win'[w]) \subseteq Ahead(win[w])
      BY <2>1, <2>2 DEF Ahead
    <2>4. 1 \in 1 .. Len(q)
      BY <1>2
    <2> QED BY <1>4, <1>5, <2>1, <2>3, <2>4 DEF Ahead, rest
  <1>6. CASE rest = <<>>
    <2>1. win'[w].todo = <<>>
      BY <1>6 DEF MovesOn
    <2>2. Ahead(win'[w]) = {}
      BY <2>1, AheadIs
    <2>3. 1 \in 1 .. Len(q)
      BY <1>2
    <2> QED BY <1>4, <1>6, <2>1, <2>2, <2>3 DEF Ahead
  <1> QED BY <1>3, <1>5, <1>6

-----------------------------------------------------------------------------
(* Terms.                                                                  *)
Arrest(s, u) == s.key = "freeTime" /\ s.who = u /\ s.dated

\* A term that is over, and not paid for, is about to be erased.
Erases(x, u) ==
  x.num = 0 /\ \E s \in Ahead(x) : s.key = "freeTime" /\ s.who = u /\ ~s.dated

TermFine(u) ==
  /\ val[u]["freeTime"] <= time + Far
  /\ \A w \in Windows : \A s \in Ahead(win[w]) : Arrest(s, u) =>
       /\ val[u]["freeTime"] = 0 /\ s.add \in Days
       /\ \A v \in Windows : \A t \in Ahead(win[v]) : Arrest(t, u) => v = w
  /\ \A w \in Windows : Erases(win[w], u) =>
       /\ val[u]["freeTime"] < time
       /\ \A v \in Windows : \A s \in Ahead(win[v]) : ~Arrest(s, u)

TermInv == Base /\ \A u \in Users \ seized : TermFine(u)

LEMMA QuietTerm ==
  ASSUME NEW w \in Windows, NEW u \in Users, Others(w), time' = time,
         val'[u]["freeTime"] = val[u]["freeTime"], TermFine(u),
         \A s \in Ahead(win'[w]) : Arrest(s, u) => s \in Ahead(win[w]),
         Erases(win'[w], u) => Erases(win[w], u)
  PROVE  TermFine(u)'
  <1>1. \A v \in Windows : \A s \in Ahead(win'[v]) : Arrest(s, u) => s \in Ahead(win[v])
    BY DEF Others
  <1>2. val'[u]["freeTime"] <= time' + Far
    BY DEF TermFine
  <1>3. ASSUME NEW v \in Windows, NEW s \in Ahead(win'[v]), Arrest(s, u)
        PROVE  /\ val'[u]["freeTime"] = 0 /\ s.add \in Days
               /\ \A x \in Windows : \A t \in Ahead(win'[x]) : Arrest(t, u) => x = v
    BY <1>1, <1>3 DEF TermFine
  <1>4. ASSUME NEW v \in Windows, Erases(win'[v], u)
        PROVE  /\ val'[u]["freeTime"] < time'
               /\ \A x \in Windows : \A s \in Ahead(win'[x]) : ~Arrest(s, u)
    <2>1. Erases(win[v], u)
      BY <1>4 DEF Others
    <2> QED BY <1>1, <2>1 DEF TermFine
  <1> QED BY <1>2, <1>3, <1>4 DEF TermFine, Arrest, Ahead, Erases

\* What is left of a script erases nothing that it did not erase before.
LEMMA ErasesLess ==
  ASSUME Base, NEW w \in Windows, win[w].at = "save", MovesOn(w), NEW u, Erases(win'[w], u)
  PROVE  Erases(win[w], u)
  <1>1. Ahead(win'[w]) \subseteq Ahead(win[w]) /\ (Ahead(win'[w]) # {} => win'[w].num = win[w].num)
    BY MovesOnAhead
  <1> QED BY <1>1 DEF Erases

LEMMA InitTerm ==
  ASSUME Init
  PROVE  TermInv
  <1>1. Base
    BY InitBase
  <1>2. PICK setup \in Setups :
          /\ val = setup.val
          /\ win = [w \in Windows |-> Away(IF w \in setup.crew THEN "home" ELSE "unused")]
    BY DEF Init
  <1>3. \A w \in Windows : Ahead(win[w]) = {}
    <2>1. {"home", "unused"} \subseteq Places
      BY DEF Places
    <2> QED BY <1>2, <2>1, AheadIs
  <1>4. \A u \in Users : val[u]["freeTime"] <= time + Far
    <2> SUFFICES ASSUME NEW u \in Users PROVE val[u]["freeTime"] <= time + Far
      OBVIOUS
    <2>1. setup.val \in {s.val : s \in Setups} /\ u \in Accounts /\ "freeTime" \in Dates
      BY Accounted DEF Dates
    <2>2. val[u]["freeTime"] \in {0} \cup (Epoch - Far + 1) .. (Epoch + Far)
      BY <1>2, <2>1, MoneyAssumption
    <2>3. time = Epoch /\ Epoch \in Nat /\ Far \in Nat
      BY MoneyAssumption DEF Init, time
    <2> QED BY <2>2, <2>3
  <1> QED BY <1>1, <1>3, <1>4 DEF TermInv, TermFine, Erases

\* What a number of the future leaves when it is stored.
LEMMA LimitBelow ==
  ASSUME NEW v \in Int, NEW sup \in Nat, sup <= IntMax
  PROVE  v >= 0 => limitValue(v, sup) <= v
  <1> IntMax \in Nat
    BY MoneyAssumption
  <1> QED BY DEF limitValue

LEMMA StoreTerm ==
  ASSUME Base, NEW w \in Windows, Store(w), NEW u \in Users, u \notin seized', TermFine(u)
  PROVE  /\ TermFine(u)'
         /\ val'[u]["freeTime"] < val[u]["freeTime"] =>
              /\ Me(w) = u /\ win'[w].at = "debt"
              /\ win[w].num > 0 \/ time > val[u]["freeTime"]
  <1> DEFINE s == win[w].todo[1]
             q == win[w].todo
             n == win[w].reg.sum
             b == win[w].reg.base
  <1>1. /\ Others(w) /\ s \in Moves /\ s.key \in Keys /\ MovesOn(w)
        /\ val'[s.who][s.key] = limitValue(n, Sup(s.key))
        /\ \A v \in Accounts, k \in Keys : (v # s.who \/ k # s.key) => val'[v][k] = val[v][k]
        /\ s.key = "freeTime" /\ b # val[s.who][s.key] => s.who \in seized'
        /\ win[w].reg # NoReg
    BY StoreBase
  <1>2. /\ win[w].at = "save" /\ RegOK(win[w], time) /\ Proper(win[w], 1, Me(w))
        /\ q # <<>> /\ win[w].reg \in [base : Int, sum : Int]
    BY FirstMove DEF Store, Scripts
  <1>3. "freeTime" \in Keys /\ u \in Accounts /\ time' = time
    BY Accounted DEF Keys, Dates, Store, time
  <1>4. /\ Ahead(win'[w]) \subseteq Ahead(win[w]) /\ s \in Ahead(win[w])
        /\ Len(q) = 1 <=> Tail(q) = <<>>
        /\ Len(q) = 1 => Ahead(win'[w]) = {}
    BY <1>1, <1>2, MovesOnAhead
  <1>5. CASE s.key # "freeTime" \/ s.who # u
    <2>1. val'[u]["freeTime"] = val[u]["freeTime"]
      BY <1>1, <1>3, <1>5
    <2>2. TermFine(u)'
      BY <1>1, <1>2, <1>3, <1>4, <2>1, ErasesLess, QuietTerm
    <2>3. val[u]["freeTime"] \in Nat
      BY <1>3, LoadIs DEF Base
    <2> QED BY <2>1, <2>2, <2>3
  <1>6. CASE s.key = "freeTime" /\ s.who = u
    <2> DEFINE old == val[u]["freeTime"]
               new == val'[u]["freeTime"]
    <2>1. b = old /\ new = limitValue(n, TimeSup)
      BY <1>1, <1>6, SupType
    <2>2. /\ old \in Nat /\ old <= TimeSup /\ b \in Int /\ n \in Int /\ s.add \in Int
          /\ TimeSup \in Nat /\ TimeSup <= IntMax /\ time \in Nat /\ Far \in Nat /\ Epoch \in Nat
      <3>1. Typed /\ Sup("freeTime") = TimeSup
        BY SupType DEF Base
      <3>2. TimeSup \in Nat /\ TimeSup <= IntMax
        BY SupType, <1>3, <3>1
      <3>3. old \in Nat /\ old <= TimeSup
        BY <1>3, <3>1, LoadIs
      <3>4. s.add \in Int
        BY <1>1 DEF Moves
      <3> QED BY <1>2, <3>1, <3>2, <3>3, <3>4, Clock, Numbers
    <2>3. Len(q) = 1 /\ Tail(q) = <<>> /\ Ahead(win'[w]) = {} /\ win'[w].at = win[w].next
      <3>1. Len(q) = 1
        BY <1>2, <1>6 DEF Proper
      <3> QED BY <1>1, <1>4, <3>1 DEF MovesOn
    <2>4. /\ s.dated => n - b - s.add \in Epoch .. time
          /\ ~s.dated => n = b + s.add
      BY <1>1, <1>2, <1>3, <1>6 DEF RegOK
    <2>5. \A v \in Windows : \A t \in Ahead(win'[v]) : t \in Ahead(win[v]) /\ v # w
      BY <1>1, <2>3 DEF Others
    <2>8. \A v \in Windows : Erases(win'[v], u) => Erases(win[v], u)
      BY <1>1, <1>2, ErasesLess DEF Others
    <2>6. CASE s.dated
      <3>1. Arrest(s, u)
        BY <1>6, <2>6 DEF Arrest
      <3>2. /\ old = 0 /\ s.add \in Days
            /\ \A v \in Windows : \A t \in Ahead(win[v]) : Arrest(t, u) => v = w
        BY <1>4, <3>1 DEF TermFine
      <3>3. s.add \in Nat /\ s.add <= Far
        BY <3>2, Numbers
      <3> HIDE DEF s, n, b, old, new
      <3>4. n >= 0 /\ n <= time + Far
        BY <2>1, <2>2, <2>4, <2>6, <3>2, <3>3
      <3>5. new <= n /\ new \in Nat
        <4>1. new \in 0 .. TimeSup /\ new <= n
          BY <2>1, <2>2, <3>4, LimitBelow, LimitType
        <4> QED BY <2>2, <4>1
      <3>6. new <= time' + Far /\ ~(new < old)
        BY <1>3, <2>2, <3>2, <3>4, <3>5
      <3>7. \A v \in Windows : \A t \in Ahead(win'[v]) : ~Arrest(t, u)
        BY <2>5, <3>2
      <3>9. \A v \in Windows : ~Erases(win'[v], u)
        BY <1>4, <2>8, <3>1 DEF TermFine
      <3>8. TermFine(u)'
        BY <3>6, <3>7, <3>9 DEF TermFine, Ahead, Arrest, Erases, new
      <3> QED BY <3>6, <3>8 DEF new, old
    <2>7. CASE ~s.dated
      <3>1. /\ s.add = -TimeSup /\ s.who = Me(w) /\ win[w].next = "debt"
            /\ win[w].num > 0 \/ old < time
        <4>1. s.add = -TimeSup /\ s.who = Me(w) /\ win[w].next = "debt"
          BY <1>2, <1>6, <2>7 DEF Proper
        <4>2. win[w].num = 0 => Erases(win[w], u)
          BY <1>4, <1>6, <2>7 DEF Erases
        <4>3. win[w].num \in Nat
          BY DEF Base, Typed, Wins
        <4> QED BY <4>1, <4>2, <4>3 DEF TermFine
      <3> HIDE DEF s, n, b, old, new
      <3>2. n <= 0
        BY <2>1, <2>2, <2>4, <2>7, <3>1
      <3>3. new = 0
        <4>1. n < 0 => limitValue(n, TimeSup) = 0
          BY <2>2, LimitType
        <4>2. n = 0 => limitValue(n, TimeSup) = n
          BY <2>2, LimitType
        <4> QED BY <2>1, <2>2, <3>2, <4>1, <4>2
      <3>4. new <= time' + Far
        BY <1>3, <2>2, <3>3
      <3>5. ASSUME NEW v \in Windows, NEW t \in Ahead(win'[v]), Arrest(t, u)
            PROVE  /\ new = 0 /\ t.add \in Days
                   /\ \A x \in Windows : \A r \in Ahead(win'[x]) : Arrest(r, u) => x = v
        BY <2>5, <3>3, <3>5 DEF TermFine
      <3>8. ASSUME NEW v \in Windows, Erases(win'[v], u)
            PROVE  /\ new < time'
                   /\ \A x \in Windows : \A r \in Ahead(win'[x]) : ~Arrest(r, u)
        <4>1. Erases(win[v], u)
          BY <2>8, <3>8
        <4>2. \A x \in Windows : \A r \in Ahead(win'[x]) : ~Arrest(r, u)
          BY <2>5, <4>1 DEF TermFine
        <4>3. 0 < time'
          BY <1>3, Clock DEF Base
        <4> QED BY <3>3, <4>2, <4>3
      <3>6. TermFine(u)'
        BY <3>4, <3>5, <3>8 DEF TermFine, Ahead, Arrest, Erases, new
      <3>7. Me(w) = u /\ win'[w].at = "debt" /\ (win[w].num > 0 \/ time > old)
        BY <1>6, <2>1, <2>2, <2>3, <3>1
      <3> QED BY <3>6, <3>7 DEF new, old
    <2> QED BY <2>6, <2>7
  <1> QED BY <1>5, <1>6

LEMMA BusyAhead ==
  ASSUME Typed
  PROVE  \A u, keys : \A w \in Windows :
           w \in Busy(u, keys) <=> \E s \in Ahead(win[w]) : s.who = u /\ s.key \in keys
  <1> SUFFICES ASSUME NEW u, NEW keys, NEW w \in Windows
               PROVE  w \in Busy(u, keys)
                        <=> \E s \in Ahead(win[w]) : s.who = u /\ s.key \in keys
    OBVIOUS
  <1> DEFINE q == win[w].todo
  <1>1. q \in Seq(Moves)
    BY DEF Typed, Wins
  <1>2. DOMAIN q = 1 .. Len(q)
    <2> HIDE DEF q
    <2> QED BY <1>1
  <1> QED BY <1>2 DEF Busy, Ahead

\* An arrest that is the only one, and of somebody free.
LEMMA ArrestTerm ==
  ASSUME Base, NEW w \in Windows, NEW u \in Users, NEW who \in Users, NEW days \in Days,
         win[w].at # "save", Others(w), Kept,
         win'[w].todo = <<SaveDate(who, "freeTime", days)>>, seized' = Twice(who, w),
         u \notin seized', TermFine(u)
  PROVE  TermFine(u)'
  <1> DEFINE s == SaveDate(who, "freeTime", days)
  <1>1. Ahead(win'[w]) = {s} /\ Ahead(win[w]) = {}
    BY Idle, AheadIs
  <1>2. s.key = "freeTime" /\ s.who = who /\ s.add = days /\ s.dated
    BY DEF SaveDate
  <1>3. time' = time /\ val' = val
    BY DEF Kept, time
  <1>6. ~Erases(win'[w], u)
    BY <1>1, <1>2 DEF Erases
  <1>4. CASE who # u
    BY <1>1, <1>2, <1>3, <1>4, <1>6, QuietTerm DEF Arrest
  <1>5. CASE who = u
    <2>1. Busy(u, {"freeTime"}) \ {w} = {} /\ ~(val[u]["freeTime"] > 0)
      BY <1>5 DEF Twice
    <2>2. val[u]["freeTime"] = 0
      <3>1. val[u]["freeTime"] \in Nat
        <4>1. u \in Accounts /\ "freeTime" \in Keys /\ Typed
          BY Accounted DEF Keys, Dates, Base
        <4> QED BY <4>1, LoadIs
      <3> QED BY <2>1, <3>1
    <2>3. \A v \in Windows \ {w} : \A t \in Ahead(win'[v]) : ~Arrest(t, u)
      <3> SUFFICES ASSUME NEW v \in Windows \ {w}, NEW t \in Ahead(win[v]), Arrest(t, u)
                   PROVE  FALSE
        BY DEF Others
      <3>1. v \in Busy(u, {"freeTime"})
        BY BusyAhead DEF Arrest, Base
      <3> QED BY <2>1, <3>1
    <2>4. val'[u]["freeTime"] <= time' + Far
      BY <1>3 DEF TermFine
    <2>6. \A v \in Windows : ~Erases(win'[v], u)
      <3> SUFFICES ASSUME NEW v \in Windows \ {w}, Erases(win[v], u)
                   PROVE  FALSE
        BY <1>6 DEF Others
      <3>1. v \in Busy(u, {"freeTime"})
        BY BusyAhead DEF Erases, Base
      <3> QED BY <2>1, <3>1
    <2> HIDE DEF s
    <2>5. ASSUME NEW v \in Windows, NEW t \in Ahead(win'[v]), Arrest(t, u)
          PROVE  /\ val'[u]["freeTime"] = 0 /\ t.add \in Days
                 /\ \A x \in Windows : \A r \in Ahead(win'[x]) : Arrest(r, u) => x = v
      <3>1. v = w /\ t = s
        BY <1>1, <2>3, <2>5
      <3> QED BY <1>2, <1>3, <2>2, <2>3, <3>1
    <2> QED BY <2>4, <2>5, <2>6 DEF TermFine, Ahead, Arrest, Erases
  <1> QED BY <1>4, <1>5

\* A step that arrests nobody, and finds no term over.
LEMMA FreeTerm ==
  ASSUME NEW w \in Windows, NEW u \in Users, Others(w), Kept, TermFine(u),
         \A s \in Ahead(win'[w]) : ~Arrest(s, u), ~Erases(win'[w], u)
  PROVE  TermFine(u)' /\ val' = val
  BY QuietTerm DEF Kept, time

\* A prisoner comes in after his last day.
LEMMA OverTerm ==
  ASSUME Base, NEW w \in Windows, NEW u \in Users, Others(w), Kept, TermFine(u),
         win'[w].todo = <<Erase(Me(w), "freeTime")>>,
         0 < val[Me(w)]["freeTime"], val[Me(w)]["freeTime"] < time
  PROVE  TermFine(u)'
  <1> DEFINE s == Erase(Me(w), "freeTime")
  <1>1. Ahead(win'[w]) = {s}
    BY AheadIs
  <1>2. s.who = Me(w) /\ ~s.dated
    BY DEF Erase, Save
  <1> HIDE DEF s
  <1>3. time' = time /\ val' = val
    BY DEF Kept, time
  <1>4. \A r \in Ahead(win'[w]) : ~Arrest(r, u)
    BY <1>1, <1>2 DEF Arrest
  <1>5. CASE Me(w) # u
    <2>1. ~Erases(win'[w], u)
      BY <1>1, <1>2, <1>5 DEF Erases
    <2> QED BY <1>4, <2>1, FreeTerm
  <1>6. CASE Me(w) = u
    <2>1. \A v \in Windows : \A r \in Ahead(win'[v]) : ~Arrest(r, u)
      <3> SUFFICES ASSUME NEW v \in Windows, NEW r \in Ahead(win'[v]), Arrest(r, u)
                   PROVE  FALSE
        OBVIOUS
      <3>1. r \in Ahead(win[v])
        BY <1>4 DEF Others
      <3>2. val[u]["freeTime"] = 0
        BY <3>1 DEF TermFine
      <3> QED BY <1>6, <3>2
    <2>2. val'[u]["freeTime"] < time' /\ val'[u]["freeTime"] <= time' + Far
      BY <1>3, <1>6 DEF TermFine
    <2> QED BY <2>1, <2>2 DEF TermFine, Ahead, Arrest, Erases
  <1> QED BY <1>5, <1>6

LEMMA NoneErased ==
  /\ \A x, u : Ahead(x) = {} => ~Erases(x, u)
  /\ \A x, u : x.num > 0 => ~Erases(x, u)
  /\ \A x, u : (\A s \in Ahead(x) : s.key # "freeTime") => ~Erases(x, u)
  /\ \A x, u, s : x.todo = <<s>> /\ s.dated => ~Erases(x, u)
  <1>1. \A x, u : x.num > 0 => ~Erases(x, u)
    BY DEF Erases
  <1>2. \A x, u, s : x.todo = <<s>> /\ s.dated => ~Erases(x, u)
    BY AheadIs DEF Erases
  <1> QED BY <1>1, <1>2 DEF Erases

\* What is left ahead on the way in.
LEMMA AheadInside ==
  ASSUME Base, NEW w \in Windows
  PROVE  /\ Gone(w) \/ LogIn(w) \/ Decline(w) => Ahead(win'[w]) = {}
         /\ Bail(w) => \A s \in Ahead(win'[w]) : s.key \notin Loan /\ (s.key = "freeTime" => ~s.dated)
         /\ Bail(w) => Ahead(win'[w]) = {} \/ win'[w].num > 0
         /\ Debt(w) \/ Due(w) => \A s \in Ahead(win'[w]) : s.key # "freeTime"
  <1>0. {"menu", "home", "off"} \subseteq Places
    BY DEF Places
  <1>1. Gone(w) \/ LogIn(w) \/ Decline(w) => Ahead(win'[w]) = {}
    BY <1>0, AwayBase, AheadIs
  <1>2. ASSUME Bail(w)
        PROVE  \A s \in Ahead(win'[w]) : s.key \notin Loan /\ (s.key = "freeTime" => ~s.dated)
    <2>1. CASE win'[w] = Away("home")
      BY <1>0, <2>1, AheadIs
    <2>2. ASSUME NEW num \in Int, win'[w].todo = BailScript(Me(w), num)
          PROVE  \A s \in Ahead(win'[w]) : s.key \notin Loan /\ (s.key = "freeTime" => ~s.dated)
      <3> DEFINE x == Save(Me(w), "bmy_money", -num)
                 y == Save(House, "bmy_money", num)
                 z == Erase(Me(w), "freeTime")
      <3>1. x.key = "bmy_money" /\ y.key = "bmy_money" /\ z.key = "freeTime" /\ ~z.dated
        BY DEF Save, Erase
      <3>2. win'[w].todo = <<x, y, z>>
        BY <2>2 DEF BailScript
      <3> HIDE DEF x, y, z
      <3>3. Ahead(win'[w]) \subseteq {x, y, z}
        BY <3>2 DEF Ahead
      <3>4. "bmy_money" \notin Loan /\ "freeTime" \notin Loan
        BY DEF Loan
      <3> QED BY <3>1, <3>3, <3>4
    <2> QED BY <1>2, <2>1, <2>2, BailBase
  <1>4. ASSUME Bail(w) PROVE Ahead(win'[w]) = {} \/ win'[w].num > 0
    <2>1. win'[w] = Away("home") => Ahead(win'[w]) = {}
      BY <1>0, AheadIs
    <2> QED BY <1>4, <2>1, BailBase
  <1>3. ASSUME Debt(w) \/ Due(w) PROVE \A s \in Ahead(win'[w]) : s.key # "freeTime"
    <2>1. Mark(Me(w)).key # "freeTime"
      BY DEF Mark, Save
    <2>2. CASE win'[w].todo = <<>> \/ win'[w] = Away("home")
      BY <1>0, <2>2, AheadIs
    <2>3. CASE /\ Len(win'[w].todo) > 0 /\ win'[w].todo[Len(win'[w].todo)] = Mark(Me(w))
               /\ \A i \in 1 .. Len(win'[w].todo) - 1 : Plain(win'[w].todo[i])
      <3>1. Len(win'[w].todo) \in Nat
        <4>1. win'[w] \in Wins
          BY <1>3, DebtBase, DueBase DEF Base, Typed
        <4> QED BY <4>1 DEF Wins
      <3>2. \A i \in 1 .. Len(win'[w].todo) : i = Len(win'[w].todo) \/ i \in 1 .. Len(win'[w].todo) - 1
        BY <3>1
      <3> QED BY <2>1, <2>3, <3>2 DEF Ahead, Plain
    <2>4. CASE /\ Len(win'[w].todo) = 5 /\ win'[w].todo[5] = Mark(Me(w))
               /\ \A i \in 1 .. 4 : Plain(win'[w].todo[i])
      <3>1. \A i \in 1 .. 5 : i = 5 \/ i \in 1 .. 4
        OBVIOUS
      <3> QED BY <2>1, <2>4, <3>1 DEF Ahead, Plain
    <2>5. CASE Debt(w)
      BY <2>2, <2>3, <2>5, DebtBase
    <2>6. CASE Due(w)
      BY <2>2, <2>4, <2>6, DueBase
    <2> QED BY <1>3, <2>5, <2>6
  <1> QED BY <1>1, <1>2, <1>3, <1>4

Shortened(u) ==
  val'[u]["freeTime"] < val[u]["freeTime"] =>
    \E w \in Windows :
      /\ Me(w) = u /\ win'[w].at = "debt"
      /\ win[w].num > 0 \/ time > val[u]["freeTime"]

LEMMA NextTerm ==
  ASSUME TermInv, [Next]_vars
  PROVE  TermInv' /\ \A u \in Users \ seized' : Shortened(u)
  <1>0. Base /\ Base' /\ Typed
    BY NextBase DEF TermInv, Base
  <1> SUFFICES ASSUME NEW u \in Users, u \notin seized'
               PROVE  TermFine(u)' /\ Shortened(u)
    BY <1>0 DEF TermInv
  <1>1. u \notin seized => TermFine(u)
    BY DEF TermInv
  <1>2. u \in Accounts /\ "freeTime" \in Keys /\ val[u]["freeTime"] \in Nat
    <2>1. u \in Accounts /\ "freeTime" \in Keys
      BY Accounted DEF Keys, Dates
    <2> QED BY <1>0, <2>1, LoadIs
  <1>3. val' = val => Shortened(u)
    BY <1>2 DEF Shortened
  <1>4. ASSUME NEW w \in Windows, Others(w), Kept, seized \subseteq seized',
               \A s \in Ahead(win'[w]) : ~Arrest(s, u), ~Erases(win'[w], u)
        PROVE  TermFine(u)' /\ Shortened(u)
    BY <1>1, <1>3, <1>4, FreeTerm
  <1>15. ASSUME NEW w \in Windows, Load(w) PROVE TermFine(u)' /\ Shortened(u)
    <2>1. Others(w) /\ Kept /\ win'[w].todo = win[w].todo /\ win'[w].num = win[w].num
      BY <1>0, <1>15, LoadBase
    <2>2. seized' = seized
      BY <1>15 DEF Load
    <2>3. Ahead(win'[w]) = Ahead(win[w]) /\ (Erases(win'[w], u) => Erases(win[w], u))
      BY <2>1 DEF Ahead, Erases
    <2>4. time' = time /\ val' = val /\ TermFine(u)
      BY <1>1, <2>1, <2>2 DEF Kept, time
    <2>5. TermFine(u)'
      BY <2>1, <2>3, <2>4, QuietTerm
    <2> QED BY <1>3, <2>4, <2>5
  <1>5. ASSUME NEW w \in Windows, Store(w) PROVE TermFine(u)' /\ Shortened(u)
    <2>1. seized \subseteq seized'
      BY <1>5 DEF Store
    <2> QED BY <1>0, <1>1, <1>5, <2>1, StoreTerm DEF Shortened
  <1>6. ASSUME NEW w \in Windows, List(w) PROVE TermFine(u)' /\ Shortened(u)
    <2>1. Others(w) /\ val' = val /\ MovesOn(w) /\ win[w].at = "save" /\ seized' = seized
          /\ time' = time
      BY <1>0, <1>6, ListBase DEF List, history, time
    <2>2. /\ Ahead(win'[w]) \subseteq Ahead(win[w])
          /\ Erases(win'[w], u) => Erases(win[w], u)
      BY <1>0, <2>1, MovesOnAhead, ErasesLess
    <2> QED BY <1>1, <1>3, <2>1, <2>2, QuietTerm
  <1>7. ASSUME NEW w \in Windows, Gone(w) \/ LogIn(w) \/ Decline(w)
        PROVE  TermFine(u)' /\ Shortened(u)
    <2>1. Others(w) /\ Kept /\ Ahead(win'[w]) = {}
      BY <1>0, <1>7, AwayBase, AheadInside
    <2>2. seized \subseteq seized'
      BY <1>7 DEF Gone, LogIn, Decline, history
    <2> QED BY <1>4, <2>1, <2>2, NoneErased
  <1>8. ASSUME NEW w \in Windows, Knock(w) PROVE TermFine(u)' /\ Shortened(u)
    <2>1. seized' = seized /\ TermFine(u) /\ Far \in Nat /\ time \in Nat
      BY <1>0, <1>1, <1>8, Clock, Numbers DEF Knock
    <2>2. /\ Others(w) /\ Kept
          /\ \/ /\ win'[w].todo = <<Erase(Me(w), "freeTime")>>
                /\ 0 < val[Me(w)]["freeTime"] /\ val[Me(w)]["freeTime"] < time
             \/ /\ win'[w].todo = <<SaveDate(Me(w), "freeTime", 1)>>
                /\ val[Me(w)]["freeTime"] > time + Far
             \/ win'[w].todo = <<>>
      BY <1>0, <1>8, KnockBase
    <2>3. CASE /\ win'[w].todo = <<Erase(Me(w), "freeTime")>>
               /\ 0 < val[Me(w)]["freeTime"] /\ val[Me(w)]["freeTime"] < time
      BY <1>0, <1>3, <2>1, <2>2, <2>3, OverTerm DEF Kept
    <2>4. CASE /\ win'[w].todo = <<SaveDate(Me(w), "freeTime", 1)>>
               /\ val[Me(w)]["freeTime"] > time + Far
      <3>1. Me(w) # u
        <4>1. val[u]["freeTime"] <= time + Far
          BY <2>1 DEF TermFine
        <4> QED BY <1>2, <2>1, <2>4, <4>1
      <3>2. /\ Ahead(win'[w]) = {SaveDate(Me(w), "freeTime", 1)}
            /\ SaveDate(Me(w), "freeTime", 1).who = Me(w)
            /\ SaveDate(Me(w), "freeTime", 1).dated
        BY <2>4, AheadIs DEF SaveDate
      <3>3. ~Erases(win'[w], u)
        BY <2>4, <3>2, NoneErased
      <3> QED BY <1>4, <2>1, <2>2, <3>1, <3>2, <3>3 DEF Arrest
    <2>5. CASE win'[w].todo = <<>>
      BY <1>4, <2>1, <2>2, <2>5, AheadIs, NoneErased
    <2> QED BY <2>2, <2>3, <2>4, <2>5
  <1>9. ASSUME NEW w \in Windows, Bail(w) PROVE TermFine(u)' /\ Shortened(u)
    <2>1. /\ Others(w) /\ Kept /\ \A s \in Ahead(win'[w]) : s.key = "freeTime" => ~s.dated
          /\ ~Erases(win'[w], u)
      BY <1>0, <1>9, BailBase, AheadInside, NoneErased
    <2>2. seized' = seized
      BY <1>9 DEF Bail, history
    <2> QED BY <1>4, <2>1, <2>2 DEF Arrest
  <1>10. ASSUME NEW w \in Windows, Debt(w) \/ Due(w) PROVE TermFine(u)' /\ Shortened(u)
    <2>1. Others(w) /\ Kept /\ \A s \in Ahead(win'[w]) : s.key # "freeTime"
      BY <1>0, <1>10, DebtBase, DueBase, AheadInside
    <2>2. seized' = seized
      BY <1>10 DEF Debt, Due, history
    <2> QED BY <1>4, <2>1, <2>2, NoneErased DEF Arrest
  <1>11. ASSUME win' = win, seized' = seized, Kept PROVE TermFine(u)' /\ Shortened(u)
    BY <1>1, <1>3, <1>11 DEF TermFine, Kept, Arrest, Ahead, Erases, time
  <1>12. ASSUME NEW w \in Windows, Operate(w) \/ Leave(w) PROVE TermFine(u)' /\ Shortened(u)
    <2>1. Others(w) /\ Kept
      BY <1>0, <1>12, OperateSteps
    <2>2. CASE NoTerm(win'[w]) /\ seized' = seized
      <3>1. \A s \in Ahead(win'[w]) : s.key # "freeTime"
        BY <2>2, AheadIs
      <3> QED BY <1>4, <2>1, <2>2, <3>1, NoneErased DEF Arrest
    <2>3. ASSUME NEW days \in Days, Catch(w, days) PROVE TermFine(u)' /\ Shortened(u)
      <3>1. /\ win[w].at = "ask" /\ win[w].who \in Users /\ seized' = Twice(win[w].who, w)
            /\ win'[w].todo = <<SaveDate(win[w].who, "freeTime", days)>>
        BY <1>0, <2>3, CatchBase
      <3>2. TermFine(u)
        BY <1>1, <3>1 DEF Twice
      <3>3. TermFine(u)'
        <4>1. win[w].at # "save"
          BY <3>1
        <4> QED BY <1>0, <2>1, <3>1, <3>2, <4>1, ArrestTerm
      <3> QED BY <1>3, <2>1, <3>3 DEF Kept
    <2>4. ASSUME NEW days \in Days, Surrender(w, days) PROVE TermFine(u)' /\ Shortened(u)
      <3>1. /\ win[w].at = "menu" /\ Me(w) \in Users
            /\ \/ win'[w] = Away("off") /\ seized' = seized
               \/ /\ seized' = Twice(Me(w), w)
                  /\ win'[w].todo = <<SaveDate(Me(w), "freeTime", days)>>
        BY <1>0, <2>4, SurrenderBase, Accounted
      <3>2. CASE win'[w] = Away("off") /\ seized' = seized
        <4>1. Ahead(win'[w]) = {}
          BY <3>2, AheadIs DEF Places
        <4> QED BY <1>4, <2>1, <3>2, <4>1, NoneErased
      <3>3. CASE /\ seized' = Twice(Me(w), w)
                 /\ win'[w].todo = <<SaveDate(Me(w), "freeTime", days)>>
        <4>1. TermFine(u)
          BY <1>1, <3>3 DEF Twice
        <4>2. TermFine(u)'
          <5>1. win[w].at # "save"
            BY <3>1
          <5> QED BY <1>0, <2>1, <3>1, <3>3, <4>1, <5>1, ArrestTerm
        <4> QED BY <1>3, <2>1, <4>2 DEF Kept
      <3> QED BY <3>1, <3>2, <3>3
    <2> QED BY <1>0, <1>11, <1>12, <2>1, <2>2, <2>3, <2>4, OperateKinds DEF ArrestOp
  <1>13. CASE Tick
    <2>1. time' = time + 1 /\ val' = val /\ win' = win /\ seized' = seized /\ time \in Nat /\ Far \in Nat
      BY <1>0, <1>13, TickBase, Clock, Numbers DEF Tick, history
    <2>2. TermFine(u)
      BY <1>1, <2>1
    <2>3. val'[u]["freeTime"] <= time' + Far
      BY <1>2, <2>1, <2>2 DEF TermFine
    <2>5. \A w \in Windows : Erases(win'[w], u) =>
            /\ val'[u]["freeTime"] < time'
            /\ \A v \in Windows : \A s \in Ahead(win'[v]) : ~Arrest(s, u)
      BY <1>2, <2>1, <2>2 DEF TermFine
    <2>4. TermFine(u)'
      BY <2>1, <2>2, <2>3, <2>5 DEF TermFine, Arrest, Ahead, Erases
    <2> QED BY <1>3, <2>1, <2>4
  <1>14. CASE UNCHANGED vars
    BY <1>11, <1>14 DEF vars, history, Kept
  <1> QED BY <1>5, <1>6, <1>7, <1>8, <1>9, <1>10, <1>12, <1>13, <1>14, <1>15 DEF Next

\* TermHolds: no step makes a term in jail shorter except the prisoner's own
\* entry when its last day is over or bail has been paid, whatever saves of
\* other windows are under way, unless he was arrested twice at a time
\* (check_allow_in, money_cop).
THEOREM TermHolds == Spec => TermServed
  <1>1. TermInv /\ [Next]_vars =>
          [\A u \in Users \ seized' :
             val'[u]["freeTime"] < val[u]["freeTime"] =>
               \E w \in Windows :
                 /\ Me(w) = u /\ win'[w].at = "debt"
                 /\ win[w].num > 0 \/ time > val[u]["freeTime"]]_vars
    BY NextTerm DEF Shortened
  <1>2. TermInv /\ [Next]_vars => TermInv'
    BY NextTerm
  <1> QED BY <1>1, <1>2, InitTerm, PTL DEF Spec, TermServed

-----------------------------------------------------------------------------
(* Loans.                                                                  *)
OnLoan(s, u)  == s.who = u /\ s.key \in Loan
Touches(x, u) == \E s \in Ahead(x) : OnLoan(s, u)

\* A script about the loan of u, the date of whose end is its k-th move.
LoanPlan(q, u, k, erase) ==
  /\ k \in 1 .. 4 /\ k <= Len(q)
  /\ q[k].who = u /\ q[k].key = "back_time"
  /\ k >= 2 => q[k - 1].who = u /\ q[k - 1].key = "lend_time"
  /\ k >= 3 => q[k - 2].who = u /\ q[k - 2].key = "lend_money"
  /\ k >= 4 => q[k - 3].key = "bmy_money"
  /\ \A i \in k + 1 .. Len(q) : q[i].key \notin Loan
  /\ IF erase
     THEN \A i \in 1 .. k : q[i].key \in Loan => ~q[i].dated /\ q[i].add = -Sup(q[i].key)
     ELSE /\ q[k].dated /\ q[k].add \in Days
          /\ k >= 2 => q[k - 1].dated /\ q[k - 1].add = 0

NoDates(a) == a["lend_time"] = 0 /\ a["back_time"] = 0
Sound(a) ==
  \/ a["lend_money"] = 0 /\ NoDates(a)
  \/ 0 < a["lend_time"] /\ a["lend_time"] < a["back_time"]

\* How far such a script has come at the time t.
LoanState(a, k, erase, reg, t) ==
  IF erase
  THEN CASE k >= 3 -> Sound(a)
         [] k = 2  -> a["lend_money"] = 0
         [] OTHER  -> a["lend_money"] = 0 /\ a["lend_time"] = 0
  ELSE CASE k >= 3 -> a["lend_money"] = 0 /\ NoDates(a)
         [] k = 2  -> NoDates(a)
         [] OTHER  -> /\ a["back_time"] = 0 /\ 0 < a["lend_time"]
                      /\ IF reg = NoReg THEN a["lend_time"] <= t
                                        ELSE a["lend_time"] < reg.sum - reg.base

LoanFine(u) ==
  /\ val[u]["back_time"] <= time + Far
  /\ \A v, w \in Windows : Touches(win[v], u) /\ Touches(win[w], u) => v = w
  /\ (\A w \in Windows : ~Touches(win[w], u)) => Sound(val[u])
  /\ \A w \in Windows : Touches(win[w], u) =>
       \E k \in 1 .. 4, erase \in BOOLEAN :
         LoanPlan(win[w].todo, u, k, erase) /\ LoanState(val[u], k, erase, win[w].reg, time)

LoanInv == Base /\ \A u \in Users \ muddled : LoanFine(u)

LoanSame(u) == \A k \in Loan : val'[u][k] = val[u][k]

LEMMA SameLoan ==
  ASSUME NEW u, LoanSame(u)
  PROVE  /\ Sound(val'[u]) <=> Sound(val[u])
         /\ \A k, erase, reg, t :
              LoanState(val'[u], k, erase, reg, t) <=> LoanState(val[u], k, erase, reg, t)
         /\ val'[u]["back_time"] = val[u]["back_time"]
  <1>1. /\ val'[u]["back_time"] = val[u]["back_time"] /\ val'[u]["lend_time"] = val[u]["lend_time"]
        /\ val'[u]["lend_money"] = val[u]["lend_money"]
    BY DEF LoanSame, Loan
  <1> QED BY <1>1 DEF Sound, LoanState, NoDates

\* A step that does not touch the loan of u.
LEMMA QuietLoan ==
  ASSUME NEW w \in Windows, NEW u \in Users, Others(w), LoanSame(u), LoanFine(u),
         time' = time, ~Touches(win[w], u), ~Touches(win'[w], u)
  PROVE  LoanFine(u)'
  <1>1. \A v \in Windows : v # w => win'[v] = win[v]
    BY DEF Others
  <1>2. \A v \in Windows : Touches(win'[v], u) => Touches(win[v], u) /\ v # w
    BY <1>1
  <1>3. \A v \in Windows : Touches(win[v], u) => Touches(win'[v], u)
    BY <1>1
  <1>4. val'[u]["back_time"] <= time' + Far
    BY SameLoan DEF LoanFine
  <1>5. \A v, x \in Windows : Touches(win'[v], u) /\ Touches(win'[x], u) => v = x
    BY <1>2 DEF LoanFine
  <1>6. (\A v \in Windows : ~Touches(win'[v], u)) => Sound(val'[u])
    BY <1>3, SameLoan DEF LoanFine
  <1>7. ASSUME NEW v \in Windows, Touches(win'[v], u)
        PROVE  \E k \in 1 .. 4, erase \in BOOLEAN :
                 /\ LoanPlan(win'[v].todo, u, k, erase)
                 /\ LoanState(val'[u], k, erase, win'[v].reg, time')
    <2>1. v # w /\ Touches(win[v], u) /\ win'[v] = win[v]
      BY <1>1, <1>2, <1>7
    <2> QED BY <2>1, SameLoan DEF LoanFine
  <1> QED BY <1>4, <1>5, <1>6, <1>7 DEF LoanFine

\* The rest of such a script.
LEMMA PlanRest ==
  ASSUME NEW q \in Seq(Moves), NEW u \in Users, NEW k \in 1 .. 4, NEW erase \in BOOLEAN,
         LoanPlan(q, u, k, erase)
  PROVE  /\ k > 1 => Tail(q) # <<>> /\ LoanPlan(Tail(q), u, k - 1, erase)
                     /\ Tail(q)[1] = q[2]
         /\ k = 1 => \A i \in 1 .. Len(Tail(q)) : Tail(q)[i].key \notin Loan
         /\ q[1].who = u \/ k = 4
         /\ q[1].key = IF k = 4 THEN "bmy_money" ELSE
                       IF k = 3 THEN "lend_money" ELSE
                       IF k = 2 THEN "lend_time" ELSE "back_time"
  <1>1. /\ Len(q) \in Nat /\ q # <<>> /\ k <= Len(q)
        /\ Len(Tail(q)) = Len(q) - 1 /\ \A i \in 1 .. Len(Tail(q)) : Tail(q)[i] = q[i + 1]
    BY DEF LoanPlan
  <1>2. ASSUME k > 1
        PROVE  Tail(q) # <<>> /\ LoanPlan(Tail(q), u, k - 1, erase) /\ Tail(q)[1] = q[2]
    <2> DEFINE r == Tail(q)
               j == k - 1
    <2>1. j \in 1 .. 4 /\ j <= Len(r) /\ r # <<>> /\ r[1] = q[2] /\ j + 1 = k /\ k \in 2 .. 4
      <3>1. j \in 1 .. 4 /\ j + 1 = k /\ k \in 2 .. 4
        BY <1>2
      <3>2. /\ Len(r) = Len(q) - 1 /\ \A i \in 1 .. Len(r) : r[i] = q[i + 1]
            /\ Len(q) \in Nat /\ k <= Len(q)
        BY <1>1
      <3> HIDE DEF r, j
      <3>3. j <= Len(r) /\ Len(r) \in Nat /\ Len(r) > 0 /\ 1 \in 1 .. Len(r)
        BY <3>1, <3>2
      <3>4. r[1] = q[2]
        BY <3>2, <3>3
      <3>5. r # <<>>
        BY <3>3
      <3> QED BY <3>1, <3>3, <3>4, <3>5
    <2>2. \A i \in 1 .. Len(r) : r[i] = q[i + 1]
      BY <1>1
    <2>3. r[j] = q[k] /\ (j >= 2 => r[j - 1] = q[k - 1]) /\ (j >= 3 => r[j - 2] = q[k - 2])
      BY <1>1, <1>2
    <2>4. Len(r) + 1 = Len(q) /\ Len(r) \in Nat /\ Len(q) \in Nat
      BY <1>1
    <2> HIDE DEF r
    <2>5. ASSUME NEW i \in j + 1 .. Len(r) PROVE r[i].key \notin Loan
      <3>1. i + 1 \in k + 1 .. Len(q) /\ r[i] = q[i + 1]
        BY <2>1, <2>2, <2>4
      <3> QED BY <3>1 DEF LoanPlan
    <2>6. ASSUME erase, NEW i \in 1 .. j, r[i].key \in Loan
          PROVE  ~r[i].dated /\ r[i].add = -Sup(r[i].key)
      <3>1. i + 1 \in 1 .. k /\ r[i] = q[i + 1]
        BY <2>1, <2>2
      <3> QED BY <2>6, <3>1 DEF LoanPlan
    <2>7. /\ q[k].who = u /\ q[k].key = "back_time"
          /\ k >= 2 => q[k - 1].who = u /\ q[k - 1].key = "lend_time"
          /\ k >= 3 => q[k - 2].who = u /\ q[k - 2].key = "lend_money"
          /\ ~erase => /\ q[k].dated /\ q[k].add \in Days
                       /\ k >= 2 => q[k - 1].dated /\ q[k - 1].add = 0
      BY DEF LoanPlan
    <2>8. /\ r[j].who = u /\ r[j].key = "back_time"
          /\ j >= 2 => r[j - 1].who = u /\ r[j - 1].key = "lend_time"
          /\ j >= 3 => r[j - 2].who = u /\ r[j - 2].key = "lend_money"
          /\ ~(j >= 4)
          /\ ~erase => /\ r[j].dated /\ r[j].add \in Days
                       /\ j >= 2 => r[j - 1].dated /\ r[j - 1].add = 0
      BY <2>1, <2>3, <2>7
    <2> HIDE DEF j
    <2>9. LoanPlan(r, u, j, erase)
      BY <2>1, <2>5, <2>6, <2>8 DEF LoanPlan
    <2> QED BY <2>1, <2>9 DEF r, j
  <1>3. ASSUME k = 1, NEW i \in 1 .. Len(Tail(q)) PROVE Tail(q)[i].key \notin Loan
    <2>1. i + 1 \in k + 1 .. Len(q) /\ Tail(q)[i] = q[i + 1]
      BY <1>1, <1>3
    <2> QED BY <2>1 DEF LoanPlan
  <1>4. /\ k = 1 \/ k = 2 \/ k = 3 \/ k = 4
        /\ k = 2 => k - 1 = 1
        /\ k = 3 => k - 2 = 1
        /\ k = 4 => k - 3 = 1
    OBVIOUS
  <1>5. /\ q[1].who = u \/ k = 4
        /\ q[1].key = IF k = 4 THEN "bmy_money" ELSE
                      IF k = 3 THEN "lend_money" ELSE
                      IF k = 2 THEN "lend_time" ELSE "back_time"
    <2>1. CASE k = 1
      BY <2>1 DEF LoanPlan
    <2>2. CASE k = 2
      BY <2>2 DEF LoanPlan
    <2>3. CASE k = 3
      BY <2>3 DEF LoanPlan
    <2>4. CASE k = 4
      BY <2>4 DEF LoanPlan
    <2> QED BY <1>4, <2>1, <2>2, <2>3, <2>4
  <1> QED BY <1>2, <1>3, <1>5

\* What goes on with a loan after a step of the window that is about it.
LEMMA PlanGoesOn ==
  ASSUME NEW w \in Windows, NEW u \in Users, Others(w), time' = time,
         \A v \in Windows \ {w} : ~Touches(win[v], u),
         val'[u]["back_time"] <= time + Far,
         \/ /\ Touches(win'[w], u)
            /\ \E k \in 1 .. 4, erase \in BOOLEAN :
                 /\ LoanPlan(win'[w].todo, u, k, erase)
                 /\ LoanState(val'[u], k, erase, win'[w].reg, time)
         \/ ~Touches(win'[w], u) /\ Sound(val'[u])
  PROVE  LoanFine(u)'
  <1>1. \A v \in Windows \ {w} : ~Touches(win'[v], u)
    BY DEF Others
  <1>2. val'[u]["back_time"] <= time' + Far
    OBVIOUS
  <1>3. \A v, x \in Windows : Touches(win'[v], u) /\ Touches(win'[x], u) => v = x
    BY <1>1
  <1>4. (\A v \in Windows : ~Touches(win'[v], u)) => Sound(val'[u])
    OBVIOUS
  <1>5. ASSUME NEW v \in Windows, Touches(win'[v], u)
        PROVE  \E k \in 1 .. 4, erase \in BOOLEAN :
                 /\ LoanPlan(win'[v].todo, u, k, erase)
                 /\ LoanState(val'[u], k, erase, win'[v].reg, time')
    BY <1>1, <1>5
  <1> QED BY <1>2, <1>3, <1>4, <1>5 DEF LoanFine

LEMMA PlanTouches ==
  ASSUME NEW x \in Wins, NEW u, NEW k \in 1 .. 4, NEW erase, LoanPlan(x.todo, u, k, erase)
  PROVE  Touches(x, u)
  <1>1. k \in 1 .. Len(x.todo)
    BY DEF LoanPlan, Wins
  <1>2. OnLoan(x.todo[k], u)
    BY DEF LoanPlan, OnLoan, Loan
  <1> QED BY <1>1, <1>2 DEF Touches, Ahead

\* The numbers of a loan after the store of one of them.
LEMMA StoredDates ==
  ASSUME NEW n \in Int, NEW b \in Nat, b <= TimeSup
  PROVE  /\ n = b - TimeSup => limitValue(n, TimeSup) = 0
         /\ n \in 0 .. TimeSup => limitValue(n, TimeSup) = n
  <1>1. TimeSup \in Nat /\ TimeSup <= IntMax
    BY MoneyAssumption
  <1>2. n \in 0 .. TimeSup => limitValue(n, TimeSup) = n
    BY <1>1, LimitType
  <1>3. n = b - TimeSup => n < 0 \/ n = 0
    BY <1>1
  <1>4. n < 0 => limitValue(n, TimeSup) = 0
    BY <1>1, LimitType
  <1>5. 0 \in 0 .. TimeSup
    BY <1>1
  <1> QED BY <1>2, <1>3, <1>4, <1>5

LEMMA StoredMoney ==
  ASSUME NEW n \in Int, NEW b \in Nat, b <= MaxMoney, n = b - MaxMoney
  PROVE  limitValue(n, MaxMoney) = 0
  <1>1. MaxMoney \in Nat /\ MaxMoney <= IntMax
    BY MoneyAssumption
  <1>2. n < 0 \/ n = 0
    BY <1>1
  <1>3. n < 0 => limitValue(n, MaxMoney) = 0
    BY <1>1, LimitType
  <1>4. 0 \in 0 .. MaxMoney
    BY <1>1
  <1>5. n \in 0 .. MaxMoney => limitValue(n, MaxMoney) = n
    BY <1>1, LimitType
  <1> QED BY <1>2, <1>3, <1>4, <1>5

LEMMA StoreLoan ==
  ASSUME Base, NEW w \in Windows, Store(w), NEW u \in Users, u \notin muddled', LoanFine(u)
  PROVE  LoanFine(u)'
  <1> DEFINE q == win[w].todo
             s == q[1]
             n == win[w].reg.sum
             b == win[w].reg.base
  <1>1. /\ Others(w) /\ s \in Moves /\ s.key \in Keys /\ MovesOn(w) /\ win[w].reg # NoReg
        /\ val'[s.who][s.key] = limitValue(n, Sup(s.key))
        /\ \A v \in Accounts, k \in Keys : (v # s.who \/ k # s.key) => val'[v][k] = val[v][k]
        /\ s.key \in Loan /\ b # val[s.who][s.key] => s.who \in muddled'
        /\ Base'
    BY StoreBase
  <1>2. /\ win[w].at = "save" /\ RegOK(win[w], time) /\ q # <<>> /\ q \in Seq(Moves)
        /\ win[w].reg \in [base : Int, sum : Int]
    BY FirstMove DEF Store, Scripts
  <1>3. Loan \subseteq Keys /\ u \in Accounts /\ time' = time /\ Typed /\ Typed'
    <2>1. Loan \subseteq Keys
      BY DEF Loan, Keys, Dates
    <2>2. time' = time
      BY DEF Store, time
    <2> QED BY <1>1, <2>1, <2>2, Accounted DEF Base
  <1>4. Ahead(win'[w]) \subseteq Ahead(win[w]) /\ s \in Ahead(win[w])
    BY <1>1, <1>2, MovesOnAhead
  <1>5. CASE ~Touches(win[w], u)
    <2>1. ~OnLoan(s, u) /\ ~Touches(win'[w], u)
      BY <1>4, <1>5 DEF Touches
    <2>2. LoanSame(u)
      BY <1>1, <1>3, <2>1 DEF LoanSame, OnLoan
    <2> QED BY <1>1, <1>3, <1>5, <2>1, <2>2, QuietLoan
  <1>6. CASE Touches(win[w], u)
    <2>1. PICK k \in 1 .. 4, erase \in BOOLEAN :
            LoanPlan(q, u, k, erase) /\ LoanState(val[u], k, erase, win[w].reg, time)
      BY <1>6 DEF LoanFine
    <2>2. \A v \in Windows \ {w} : ~Touches(win[v], u)
      BY <1>6 DEF LoanFine
    <2>3. /\ k > 1 => Tail(q) # <<>> /\ LoanPlan(Tail(q), u, k - 1, erase) /\ Tail(q)[1] = q[2]
          /\ k = 1 => \A i \in 1 .. Len(Tail(q)) : Tail(q)[i].key \notin Loan
          /\ s.who = u \/ k = 4
          /\ s.key = IF k = 4 THEN "bmy_money" ELSE
                     IF k = 3 THEN "lend_money" ELSE
                     IF k = 2 THEN "lend_time" ELSE "back_time"
      BY <1>2, <2>1, PlanRest
    <2>4. k > 1 => /\ win'[w].todo = Tail(q) /\ win'[w].reg = NoReg
                   /\ Tail(q) \in Seq(Moves) /\ Tail(q) # <<>>
      BY <1>1, <1>2, <2>3 DEF MovesOn
    <2>5. ASSUME k > 1, LoanState(val'[u], k - 1, erase, win'[w].reg, time),
                 val'[u]["back_time"] <= time + Far
          PROVE  LoanFine(u)'
      <3>1. LoanPlan(win'[w].todo, u, k - 1, erase) /\ k - 1 \in 1 .. 4
        BY <2>3, <2>4, <2>5
      <3>2. win'[w] \in Wins
        BY <1>3 DEF Typed
      <3>3. Touches(win'[w], u)
        BY <3>1, <3>2, PlanTouches
      <3> QED BY <1>1, <1>3, <2>2, <2>5, <3>1, <3>3, PlanGoesOn
    <2>6. val[u]["back_time"] <= time + Far
      BY DEF LoanFine
    <2>7. \A j \in Loan : val[u][j] \in Nat /\ val[u][j] <= Sup(j)
      BY <1>3, LoadIs
    <2>8. /\ n \in Int /\ b \in Int /\ time \in Nat /\ Epoch \in Nat /\ Epoch > 0 /\ Far \in Nat
          /\ TimeSup \in Nat /\ MaxMoney \in Nat
      <3>1. time \in Nat /\ Epoch \in Nat /\ Far \in Nat /\ TimeSup \in Nat /\ MaxMoney \in Nat
        BY <1>3, Clock, Numbers, MoneyAssumption
      <3>2. Epoch > 0
        <4>1. 2 * Epoch > IntMax + Far /\ IntMax \in Nat
          BY MoneyAssumption
        <4> QED BY <3>1, <4>1
      <3> QED BY <1>2, <3>1, <3>2
    <2>9. k # 4 => /\ s.who = u /\ s.key \in Loan /\ b = val[u][s.key]
                   /\ val'[u][s.key] = limitValue(n, Sup(s.key))
                   /\ \A j \in Loan : j # s.key => val'[u][j] = val[u][j]
      <3>1. k # 4 => s.who = u /\ s.key \in Loan
        BY <2>3 DEF Loan
      <3> QED BY <1>1, <1>3, <3>1
    <2>10. /\ s.dated /\ k # 4 => n - b - s.add \in Epoch .. time
           /\ ~s.dated /\ k # 4 => n = b + s.add
      BY <1>1, <1>2, <1>3, <2>9 DEF RegOK
    <2>11. erase /\ k # 4 => ~s.dated /\ s.add = -Sup(s.key)
      <3>1. 1 \in 1 .. k
        OBVIOUS
      <3> QED BY <2>1, <2>9, <3>1 DEF LoanPlan
    <2>12. {"lend_money", "lend_time", "back_time"} = Loan
      BY DEF Loan
    <2> HIDE DEF s, n, b
    <2>13. erase /\ k # 4 => val'[u][s.key] = 0
      <3> SUFFICES ASSUME erase, k # 4 PROVE val'[u][s.key] = 0
        OBVIOUS
      <3>1. n = b - Sup(s.key) /\ b \in Nat /\ b <= Sup(s.key)
        <4>1. Sup(s.key) \in Int
          BY <1>3, <2>9, SupType
        <4> QED BY <2>7, <2>8, <2>9, <2>10, <2>11, <4>1
      <3>2. Sup(s.key) = MaxMoney \/ Sup(s.key) = TimeSup
        BY <2>9, <2>12, SupType
      <3> QED BY <2>8, <2>9, <3>1, <3>2, StoredDates, StoredMoney
    <2>14. CASE k = 4
      <3>1. LoanSame(u)
        <4>1. s.key \notin Loan
          BY <2>3, <2>14 DEF Loan
        <4> QED BY <1>1, <1>3, <4>1 DEF LoanSame
      <3>2. LoanState(val[u], k, erase, win[w].reg, time) => LoanState(val[u], k - 1, erase, win'[w].reg, time)
        BY <2>14 DEF LoanState
      <3> QED BY <2>1, <2>5, <2>6, <2>14, <3>1, <3>2, SameLoan
    <2>15. CASE k = 3
      <3>1. s.key = "lend_money" /\ "lend_money" \in Loan /\ "lend_time" \in Loan /\ "back_time" \in Loan
        BY <2>3, <2>12, <2>15
      <3>2. /\ val'[u]["lend_time"] = val[u]["lend_time"] /\ val'[u]["back_time"] = val[u]["back_time"]
            /\ erase => val'[u]["lend_money"] = 0
        BY <2>9, <2>13, <2>15, <3>1
      <3>3. ~erase => NoDates(val[u])
        BY <2>1, <2>15 DEF LoanState
      <3>4. LoanState(val'[u], 2, erase, win'[w].reg, time)
        BY <3>2, <3>3 DEF LoanState, NoDates
      <3> QED BY <2>5, <2>6, <2>15, <3>2, <3>4
    <2>16. CASE k = 2
      <3>1. s.key = "lend_time" /\ "lend_money" \in Loan /\ "lend_time" \in Loan /\ "back_time" \in Loan
        BY <2>3, <2>12, <2>16
      <3>2. /\ val'[u]["lend_money"] = val[u]["lend_money"] /\ val'[u]["back_time"] = val[u]["back_time"]
            /\ erase => val'[u]["lend_time"] = 0
        BY <2>9, <2>13, <2>16, <3>1
      <3>3. CASE erase
        <4>1. LoanState(val'[u], 1, erase, win'[w].reg, time)
          BY <2>1, <2>16, <3>2, <3>3 DEF LoanState
        <4> QED BY <2>5, <2>6, <2>16, <3>2, <4>1
      <3>4. CASE ~erase
        <4>1. NoDates(val[u]) /\ s.dated /\ s.add = 0 /\ q[2].add \in Days /\ q[2].dated
              /\ q[2].who = u /\ q[2].key = "back_time"
          BY <2>1, <2>16, <3>4 DEF LoanState, LoanPlan, s
        <4>2. n \in Epoch .. time
          BY <2>8, <2>9, <2>10, <2>16, <3>1, <4>1 DEF NoDates
        <4>3. q[2].add \in Nat /\ q[2].add > 0 /\ time <= TimeSup
          <5>1. q[2].add \in Nat /\ q[2].add > 0
            BY <4>1, Numbers
          <5>2. time + q[2].add <= TimeSup
            BY <1>3, <4>1, Clock
          <5> QED BY <2>8, <5>1, <5>2
        <4>4. val'[u]["lend_time"] = n
          <5>1. n \in 0 .. TimeSup /\ 0 <= TimeSup
            BY <2>8, <4>2, <4>3
          <5>2. limitValue(n, TimeSup) = n
            <6>1. 0 \in Nat
              OBVIOUS
            <6> QED BY <2>8, <5>1, <6>1, StoredDates
          <5> QED BY <2>9, <2>16, <3>1, <5>2, SupType
        <4>5. win'[w].reg = NoReg
          BY <2>3, <2>4, <2>16
        <4>6. val'[u]["back_time"] = 0
          BY <3>2, <4>1 DEF NoDates
        <4>7. 0 < n /\ n <= time
          BY <2>8, <4>2
        <4>8. LoanState(val'[u], 1, erase, win'[w].reg, time)
          BY <3>4, <4>4, <4>5, <4>6, <4>7 DEF LoanState
        <4> QED BY <2>5, <2>6, <2>16, <3>2, <4>8
      <3> QED BY <3>3, <3>4
    <2>17. CASE k = 1
      <3>1. s.key = "back_time" /\ "lend_money" \in Loan /\ "lend_time" \in Loan /\ "back_time" \in Loan
        BY <2>3, <2>12, <2>17
      <3>2. /\ val'[u]["lend_money"] = val[u]["lend_money"] /\ val'[u]["lend_time"] = val[u]["lend_time"]
            /\ erase => val'[u]["back_time"] = 0
        BY <2>9, <2>13, <2>17, <3>1
      <3>3. ~Touches(win'[w], u)
        <4>1. win'[w].todo = Tail(q) \/ win'[w].todo = <<>>
          BY <1>1 DEF MovesOn
        <4>2. CASE win'[w].todo = Tail(q)
          BY <2>3, <2>17, <4>2 DEF Touches, Ahead, OnLoan
        <4>3. CASE win'[w].todo = <<>>
          BY <4>3, AheadIs DEF Touches
        <4> QED BY <4>1, <4>2, <4>3
      <3>4. CASE erase
        <4>1. Sound(val'[u])
          BY <2>1, <2>17, <3>2, <3>4 DEF LoanState, Sound, NoDates
        <4>2. val'[u]["back_time"] <= time + Far
          BY <2>8, <3>2, <3>4
        <4> QED BY <1>1, <1>3, <2>2, <3>3, <4>1, <4>2, PlanGoesOn
      <3>5. CASE ~erase
        <4>1. /\ val[u]["back_time"] = 0 /\ 0 < val[u]["lend_time"] /\ val[u]["lend_time"] < n - b
              /\ s.dated /\ s.add \in Days
          BY <1>1, <2>1, <2>17, <3>5 DEF LoanState, LoanPlan, s, n, b
        <4>2. s.add \in Nat /\ s.add <= Far /\ time + s.add <= TimeSup
          BY <1>3, <4>1, Clock, Numbers
        <4>3. b = 0 /\ n - s.add \in Epoch .. time
          BY <2>8, <2>9, <2>10, <2>17, <3>1, <4>1, <4>2
        <4>4. n \in 0 .. TimeSup /\ n <= time + Far
          BY <2>8, <4>2, <4>3
        <4>5. val'[u]["back_time"] = n
          <5>1. limitValue(n, TimeSup) = n
            <6>1. 0 \in Nat /\ 0 <= TimeSup
              BY <2>8
            <6> QED BY <2>8, <4>4, <6>1, StoredDates
          <5> QED BY <2>9, <2>17, <3>1, <5>1, SupType
        <4>6. Sound(val'[u])
          BY <2>8, <3>2, <4>1, <4>3, <4>5 DEF Sound
        <4> QED BY <1>1, <1>3, <2>2, <3>3, <4>4, <4>5, <4>6, PlanGoesOn
      <3> QED BY <3>4, <3>5
    <2> QED BY <2>14, <2>15, <2>16, <2>17
  <1> QED BY <1>5, <1>6

LEMMA LoadLoan ==
  ASSUME Base, NEW w \in Windows, Load(w), NEW u \in Users, LoanFine(u)
  PROVE  LoanFine(u)'
  <1> DEFINE q == win[w].todo
             s == q[1]
  <1>1. /\ Base' /\ Others(w) /\ val' = val /\ now' = now /\ win[w].reg = NoReg
        /\ s \in Moves /\ s.key \in Keys
        /\ win'[w].todo = q /\ win'[w].reg = Loaded(s)
    BY LoadBase DEF Kept
  <1>2. LoanSame(u) /\ time' = time /\ Typed /\ Typed'
    BY <1>1 DEF LoanSame, time, Base
  <1>3. Touches(win'[w], u) <=> Touches(win[w], u)
    BY <1>1 DEF Touches, Ahead
  <1>4. CASE ~Touches(win[w], u)
    BY <1>1, <1>2, <1>3, <1>4, QuietLoan
  <1>5. CASE Touches(win[w], u)
    <2>1. PICK k \in 1 .. 4, erase \in BOOLEAN :
            LoanPlan(q, u, k, erase) /\ LoanState(val[u], k, erase, win[w].reg, time)
      BY <1>5 DEF LoanFine
    <2>2. \A v \in Windows \ {w} : ~Touches(win[v], u)
      BY <1>5 DEF LoanFine
    <2>3. LoanState(val'[u], k, erase, win'[w].reg, time)
      <3>1. CASE erase \/ k # 1
        BY <1>1, <2>1, <3>1 DEF LoanState
      <3>2. CASE ~erase /\ k = 1
        <4>1. /\ s.dated /\ s.add \in Days /\ s.who = u /\ s.key = "back_time"
              /\ val[u]["back_time"] = 0 /\ 0 < val[u]["lend_time"] /\ val[u]["lend_time"] <= time
          BY <1>1, <2>1, <3>2 DEF LoanState, LoanPlan
        <4>2. /\ Loaded(s) # NoReg /\ Loaded(s).base = val[s.who][s.key]
              /\ Loaded(s).sum = Loaded(s).base + s.add + (IF s.dated THEN time ELSE 0)
          BY <1>1, <1>2, LoadedOK
        <4>3. s.add \in Nat /\ s.add > 0 /\ time \in Nat
          BY <1>2, <4>1, Numbers, Clock
        <4>4. val[u]["lend_time"] \in Nat
          <5>1. u \in Accounts /\ "lend_time" \in Keys
            BY Accounted DEF Keys, Dates
          <5> QED BY <1>2, <5>1, LoadIs
        <4> HIDE DEF s
        <4>5. Loaded(s).base = 0 /\ Loaded(s).sum = s.add + time
          BY <4>1, <4>2, <4>3
        <4>6. val[u]["lend_time"] < Loaded(s).sum - Loaded(s).base
          BY <4>1, <4>3, <4>4, <4>5
        <4>7. win'[w].reg # NoReg /\ val[u]["lend_time"] < win'[w].reg.sum - win'[w].reg.base
          BY <1>1, <4>2, <4>6
        <4> QED BY <1>1, <3>2, <4>1, <4>7 DEF LoanState
      <3> QED BY <3>1, <3>2
    <2>4. val'[u]["back_time"] <= time + Far
      BY <1>1 DEF LoanFine
    <2> HIDE DEF q
    <2>5. LoanPlan(win'[w].todo, u, k, erase)
      BY <1>1, <2>1
    <2> QED BY <1>1, <1>2, <1>3, <1>5, <2>2, <2>3, <2>4, <2>5, PlanGoesOn
  <1> QED BY <1>4, <1>5

\* What is fine about a loan stays so as time goes by.
LEMMA LaterLoan ==
  ASSUME NEW a, a["lend_time"] \in Int, NEW t1 \in Int, NEW t2 \in Int, t1 <= t2,
         NEW k, NEW erase, NEW reg, LoanState(a, k, erase, reg, t1)
  PROVE  LoanState(a, k, erase, reg, t2)
  <1>1. a["lend_time"] <= t1 => a["lend_time"] <= t2
    OBVIOUS
  <1> QED BY <1>1 DEF LoanState

LEMMA InitLoan ==
  ASSUME Init
  PROVE  LoanInv
  <1>1. Base
    BY InitBase
  <1>2. PICK setup \in Setups :
          /\ val = setup.val
          /\ win = [w \in Windows |-> Away(IF w \in setup.crew THEN "home" ELSE "unused")]
    BY DEF Init
  <1>3. \A w \in Windows : Ahead(win[w]) = {}
    <2>1. {"home", "unused"} \subseteq Places
      BY DEF Places
    <2> QED BY <1>2, <2>1, AheadIs
  <1>4. ASSUME NEW u \in Users PROVE LoanFine(u)
    <2>1. setup.val \in {s.val : s \in Setups} /\ u \in Accounts /\ "back_time" \in Dates
      BY Accounted DEF Dates
    <2>2. /\ val[u]["back_time"] \in {0} \cup (Epoch - Far + 1) .. (Epoch + Far)
          /\ IF val[u]["lend_money"] = 0
             THEN val[u]["lend_time"] = 0 /\ val[u]["back_time"] = 0
             ELSE 0 < val[u]["lend_time"] /\ val[u]["lend_time"] < val[u]["back_time"]
      BY <1>2, <2>1, MoneyAssumption
    <2>3. time = Epoch /\ Epoch \in Nat /\ Far \in Nat
      BY MoneyAssumption DEF Init, time
    <2>4. val[u]["back_time"] <= time + Far
      BY <2>2, <2>3
    <2>5. Sound(val[u])
      BY <2>2 DEF Sound, NoDates
    <2>6. \A w \in Windows : ~Touches(win[w], u)
      BY <1>3 DEF Touches
    <2> QED BY <2>4, <2>5, <2>6 DEF LoanFine
  <1> QED BY <1>1, <1>4 DEF LoanInv

\* The scripts that grant a loan and that take one back.
LEMMA GrantedPlan ==
  \A u \in Users, n \in Int, d \in Days : LoanPlan(Granted(u, n, d), u, 4, FALSE)
  <1> SUFFICES ASSUME NEW u \in Users, NEW n \in Int, NEW d \in Days
               PROVE  LoanPlan(Granted(u, n, d), u, 4, FALSE)
    OBVIOUS
  <1> DEFINE q == Granted(u, n, d)
  <1>1. /\ Len(q) = 4 /\ q[1] = Save(u, "bmy_money", n) /\ q[2] = Save(u, "lend_money", n)
        /\ q[3] = SaveDate(u, "lend_time", 0) /\ q[4] = SaveDate(u, "back_time", d)
    BY DEF Granted
  <1> HIDE DEF q
  <1>2. /\ q[1].key = "bmy_money"
        /\ q[2].key = "lend_money" /\ q[2].who = u
        /\ q[3].key = "lend_time" /\ q[3].who = u /\ q[3].dated /\ q[3].add = 0
        /\ q[4].key = "back_time" /\ q[4].who = u /\ q[4].dated /\ q[4].add = d
    BY <1>1 DEF Save, SaveDate
  <1>3. LoanPlan(q, u, 4, FALSE)
    BY <1>1, <1>2 DEF LoanPlan
  <1> QED BY <1>3 DEF q

TakesBack(q, u, n) ==
  /\ Len(q) \in {4, 5} /\ \A i \in 1 .. 4 : q[i] = Repaid(u, n)[i]
  /\ Len(q) = 5 => q[5] = Mark(u)

LEMMA RepaidPlan ==
  \A q, u, n :
    TakesBack(q, u, n) => LoanPlan(q, u, 4, TRUE) /\ \A i \in 1 .. Len(q) : q[i].who = u
  <1> SUFFICES ASSUME NEW q, NEW u, NEW n, TakesBack(q, u, n)
               PROVE  LoanPlan(q, u, 4, TRUE) /\ \A i \in 1 .. Len(q) : q[i].who = u
    OBVIOUS
  <1>0. /\ Len(q) \in {4, 5} /\ \A i \in 1 .. 4 : q[i] = Repaid(u, n)[i]
        /\ Len(q) = 5 => q[5] = Mark(u)
    BY DEF TakesBack
  <1>1. /\ Repaid(u, n)[1] = Save(u, "bmy_money", -n) /\ Repaid(u, n)[2] = Erase(u, "lend_money")
        /\ Repaid(u, n)[3] = Erase(u, "lend_time") /\ Repaid(u, n)[4] = Erase(u, "back_time")
    BY DEF Repaid
  <1>2. 1 \in 1 .. 4 /\ 2 \in 1 .. 4 /\ 3 \in 1 .. 4 /\ 4 \in 1 .. 4
    OBVIOUS
  <1>3. /\ q[1] = Save(u, "bmy_money", -n) /\ q[2] = Erase(u, "lend_money")
        /\ q[3] = Erase(u, "lend_time") /\ q[4] = Erase(u, "back_time")
    BY <1>0, <1>1, <1>2
  <1>4. /\ q[1].key = "bmy_money" /\ q[1].who = u
        /\ q[2].key = "lend_money" /\ q[2].who = u /\ q[2].dated = FALSE
        /\ q[2].add = -Sup(q[2].key)
        /\ q[3].key = "lend_time" /\ q[3].who = u /\ q[3].dated = FALSE
        /\ q[3].add = -Sup(q[3].key)
        /\ q[4].key = "back_time" /\ q[4].who = u /\ q[4].dated = FALSE
        /\ q[4].add = -Sup(q[4].key)
    BY <1>3 DEF Save, Erase
  <1>5. Len(q) = 5 => q[5].key = "multex" /\ q[5].who = u
    BY <1>0 DEF Mark, Save
  <1>6. \A i \in 1 .. Len(q) : i = 1 \/ i = 2 \/ i = 3 \/ i = 4 \/ (i = 5 /\ Len(q) = 5)
    <2>1. \A l \in {4, 5} : \A i \in 1 .. l : i = 1 \/ i = 2 \/ i = 3 \/ i = 4 \/ (i = 5 /\ l = 5)
      OBVIOUS
    <2> QED BY <1>0, <2>1
  <1>7. \A i \in 1 .. Len(q) : q[i].who = u
    BY <1>4, <1>5, <1>6
  <1>8. \A i \in 5 .. Len(q) : q[i].key \notin Loan
    <2>1. \A l \in {4, 5} : \A i \in 5 .. l : i = 5 /\ l = 5
      OBVIOUS
    <2> QED BY <1>0, <1>5, <2>1 DEF Loan
  <1>9. \A i \in 1 .. 4 : q[i].key \in Loan => ~q[i].dated /\ q[i].add = -Sup(q[i].key)
    <2>1. \A i \in 1 .. 4 : i = 1 \/ i = 2 \/ i = 3 \/ i = 4
      OBVIOUS
    <2>2. q[1].key \notin Loan
      BY <1>4 DEF Loan
    <2> QED BY <1>4, <2>1, <2>2
  <1>10. LoanPlan(q, u, 4, TRUE)
    BY <1>0, <1>4, <1>8, <1>9 DEF LoanPlan
  <1> QED BY <1>7, <1>10

\* A loan is granted or taken back, and nobody else is at it.
LEMMA StartLoan ==
  ASSUME Base, Base', NEW w \in Windows, NEW u \in Users, NEW granted \in BOOLEAN,
         win[w].at # "save", Others(w), Kept,
         muddled' = Mixed(u, w, granted), u \notin muddled',
         LoanPlan(win'[w].todo, u, 4, ~granted), LoanFine(u)
  PROVE  LoanFine(u)'
  <1>1. /\ Busy(u, Loan) \ {w} = {}
        /\ granted => val[u]["lend_money"] = 0 /\ val[u]["lend_time"] = 0
    BY DEF Mixed
  <1>2. val' = val /\ time' = time /\ Typed
    BY DEF Kept, time, Base
  <1>3. \A v \in Windows \ {w} : ~Touches(win[v], u)
    BY <1>1, <1>2, BusyAhead DEF Touches, OnLoan
  <1>4. ~Touches(win[w], u)
    BY Idle, AheadIs DEF Touches
  <1>5. Sound(val[u]) /\ val[u]["back_time"] <= time + Far
    BY <1>3, <1>4 DEF LoanFine
  <1>6. LoanState(val'[u], 4, ~granted, win'[w].reg, time)
    <2>1. granted => NoDates(val[u])
      <3> SUFFICES ASSUME granted PROVE NoDates(val[u])
        OBVIOUS
      <3>1. ~(0 < val[u]["lend_time"])
        BY <1>1
      <3> QED BY <1>5, <3>1 DEF Sound
    <2> QED BY <1>1, <1>2, <1>5, <2>1 DEF LoanState
  <1>7. Touches(win'[w], u)
    <2>1. win'[w] \in Wins
      BY DEF Base, Typed
    <2> QED BY <2>1, PlanTouches
  <1>8. 4 \in 1 .. 4 /\ (~granted) \in BOOLEAN
    OBVIOUS
  <1> QED BY <1>2, <1>3, <1>5, <1>6, <1>7, <1>8, PlanGoesOn

\* A step whose window goes on with moves of its own user only.
LEMMA OwnMoves ==
  ASSUME NEW w \in Windows, NEW u \in Users, u # Me(w),
         \A i \in 1 .. Len(win'[w].todo) : win'[w].todo[i].who = Me(w)
  PROVE  ~Touches(win'[w], u)
  BY DEF Touches, OnLoan, Ahead

LEMMA NextLoan ==
  ASSUME LoanInv, [Next]_vars
  PROVE  LoanInv'
  <1>0. Base /\ Base' /\ Typed /\ Typed'
    BY NextBase DEF LoanInv, Base
  <1> SUFFICES ASSUME NEW u \in Users, u \notin muddled'
               PROVE  LoanFine(u)'
    BY <1>0 DEF LoanInv
  <1>1. u \notin muddled => LoanFine(u)
    BY DEF LoanInv
  <1>2. val' = val => LoanSame(u)
    BY DEF LoanSame
  <1>3. ASSUME NEW w \in Windows, Others(w), Kept, muddled \subseteq muddled',
               ~Touches(win[w], u), ~Touches(win'[w], u)
        PROVE  LoanFine(u)'
    <2>1. time' = time /\ val' = val
      BY <1>3 DEF Kept, time
    <2> QED BY <1>1, <1>2, <1>3, <2>1, QuietLoan
  <1>4. ASSUME NEW w \in Windows, win[w].at # "save" PROVE ~Touches(win[w], u)
    BY <1>0, <1>4, Idle, AheadIs DEF Touches
  <1>5. ASSUME NEW w \in Windows, NoLoan(win'[w]) \/ Ahead(win'[w]) = {}
        PROVE  ~Touches(win'[w], u)
    BY <1>5, AheadIs DEF Touches, OnLoan
  <1>6. ASSUME NEW w \in Windows, Store(w) PROVE LoanFine(u)'
    <2>1. muddled \subseteq muddled'
      BY <1>6 DEF Store
    <2> QED BY <1>0, <1>1, <1>6, <2>1, StoreLoan
  <1>7. ASSUME NEW w \in Windows, List(w) PROVE LoanFine(u)'
    <2>1. /\ Others(w) /\ val' = val /\ now' = now /\ MovesOn(w) /\ win[w].at = "save"
          /\ win[w].todo[1].key = "salary_list" /\ muddled' = muddled
      BY <1>0, <1>7, ListBase DEF List, history
    <2>2. ~Touches(win[w], u)
      <3> SUFFICES ASSUME Touches(win[w], u) PROVE FALSE
        OBVIOUS
      <3>1. PICK k \in 1 .. 4, erase \in BOOLEAN : LoanPlan(win[w].todo, u, k, erase)
        BY <1>1, <2>1 DEF LoanFine
      <3>2. win[w].todo \in Seq(Moves)
        BY <1>0 DEF Typed, Wins
      <3>3. win[w].todo[1].key \in {"bmy_money", "lend_money", "lend_time", "back_time"}
        BY <3>1, <3>2, PlanRest
      <3> QED BY <2>1, <3>3
    <2>3. Ahead(win'[w]) \subseteq Ahead(win[w])
      BY <1>0, <2>1, MovesOnAhead
    <2>4. ~Touches(win'[w], u)
      BY <2>2, <2>3 DEF Touches
    <2> QED BY <1>3, <2>1, <2>2, <2>4 DEF Kept
  <1>8. ASSUME NEW w \in Windows, Gone(w) PROVE LoanFine(u)'
    <2>1. Others(w) /\ Kept /\ Ahead(win'[w]) = {} /\ muddled \subseteq muddled'
      BY <1>0, <1>8, AwayBase, AheadInside DEF Gone
    <2>2. ~Touches(win[w], u)
      <3> DEFINE q == win[w].todo
      <3> SUFFICES ASSUME NEW i \in 1 .. Len(q), OnLoan(q[i], u) PROVE FALSE
        BY DEF Touches, Ahead
      <3>1. q \in Seq(Moves)
        BY <1>0 DEF Typed, Wins
      <3>2. q[i] \in ToSet(q)
        <4> HIDE DEF q
        <4> QED BY <3>1 DEF ToSet
      <3>3. muddled' = muddled \cup {s.who : s \in {t \in ToSet(q) : t.key \in Loan}}
        BY <1>8 DEF Gone
      <3> QED BY <3>2, <3>3 DEF OnLoan
    <2> QED BY <1>3, <1>5, <2>1, <2>2
  <1>9. ASSUME NEW w \in Windows, LogIn(w) \/ Decline(w) PROVE LoanFine(u)'
    <2>1. Others(w) /\ Kept /\ Ahead(win'[w]) = {}
      BY <1>0, <1>9, AwayBase, AheadInside
    <2>2. muddled' = muddled /\ win[w].at # "save"
      BY <1>9 DEF LogIn, Decline, history
    <2> QED BY <1>3, <1>4, <1>5, <2>1, <2>2
  <1>10. ASSUME NEW w \in Windows, Knock(w) PROVE LoanFine(u)'
    <2>1. Others(w) /\ Kept /\ win[w].at = "home" /\ muddled' = muddled
      BY <1>0, <1>10, KnockBase DEF Knock
    <2>2. NoLoan(win'[w])
      <3>1. "freeTime" \notin Loan
        BY DEF Loan
      <3>2. /\ Erase(Me(w), "freeTime").key = "freeTime"
            /\ SaveDate(Me(w), "freeTime", 1).key = "freeTime"
        BY DEF Erase, Save, SaveDate
      <3>3. \/ win'[w].todo = <<Erase(Me(w), "freeTime")>>
            \/ win'[w].todo = <<SaveDate(Me(w), "freeTime", 1)>>
            \/ win'[w].todo = <<>>
        BY <1>0, <1>10, KnockBase
      <3> QED BY <3>1, <3>2, <3>3, SoleMove, NothingAbout
    <2> QED BY <1>3, <1>4, <1>5, <2>1, <2>2
  <1>11. ASSUME NEW w \in Windows, Bail(w) PROVE LoanFine(u)'
    <2>1. Others(w) /\ Kept /\ win[w].at = "bail" /\ \A s \in Ahead(win'[w]) : s.key \notin Loan
      BY <1>0, <1>11, BailBase, AheadInside
    <2>2. muddled' = muddled /\ ~Touches(win'[w], u)
      BY <1>11, <2>1 DEF Bail, history, Touches, OnLoan
    <2> QED BY <1>3, <1>4, <2>1, <2>2
  <1>12. ASSUME NEW w \in Windows, Debt(w) PROVE LoanFine(u)'
    <2>1. Others(w) /\ Kept /\ win[w].at = "debt" /\ muddled' = muddled
      BY <1>0, <1>12, DebtBase DEF Debt, history
    <2>2. CASE win'[w].todo = <<>>
      BY <1>3, <1>4, <1>5, <2>1, <2>2, AheadIs
    <2>3. CASE win'[w].todo = <<Mark(Me(w))>>
      <3>1. Mark(Me(w)).key \notin Loan
        BY DEF Mark, Save, Loan
      <3> QED BY <1>3, <1>4, <1>5, <2>1, <2>3, <3>1, SoleMove
    <2>4. CASE Me(w) = u /\ win'[w].todo # <<>>
      <3>1. val[u]["back_time"] <= time + Far
        BY <1>1, <2>1 DEF LoanFine
      <3> QED BY <1>0, <1>12, <2>3, <2>4, <3>1, DebtBase
    <2>5. CASE Me(w) # u /\ win'[w].todo = DebtScript(Me(w), val[Me(w)]["back_time"])
      <3> DEFINE d == SaveDate(Me(w), "back_time", 1)
                 m == Mark(Me(w))
      <3>1. win'[w].todo = Append(<<d>>, m) \/ win'[w].todo = Append(<<>>, m)
        BY <2>5 DEF DebtScript
      <3>2. d.who = Me(w) /\ m.who = Me(w)
        BY DEF SaveDate, Mark, Save
      <3>3. d \in Moves /\ m \in Moves
        <4>1. Me(w) \in Accounts /\ "back_time" \in Keys
          BY Accounted DEF Keys, Dates
        <4> QED BY <4>1, MoveTypes
      <3> HIDE DEF d, m
      <3>4. \A i \in 1 .. Len(win'[w].todo) : win'[w].todo[i].who = Me(w)
        <4>1. ASSUME NEW far \in Seq(Moves), \A i \in 1 .. Len(far) : far[i].who = Me(w)
              PROVE  \A i \in 1 .. Len(Append(far, m)) : Append(far, m)[i].who = Me(w)
          <5>1. /\ Len(Append(far, m)) = Len(far) + 1 /\ Append(far, m)[Len(far) + 1] = m
                /\ \A i \in 1 .. Len(far) : Append(far, m)[i] = far[i]
                /\ Len(far) \in Nat
            BY <3>3
          <5> DEFINE q == Append(far, m)
          <5> HIDE DEF q
          <5>2. \A i \in 1 .. Len(q) : q[i].who = Me(w)
            BY <3>2, <4>1, <5>1 DEF q
          <5> QED BY <5>2 DEF q
        <4>2. <<d>> \in Seq(Moves) /\ Len(<<d>>) = 1 /\ <<d>>[1] = d
          BY <3>3
        <4>3. <<>> \in Seq(Moves) /\ Len(<<>>) = 0
          OBVIOUS
        <4>4. \A i \in 1 .. Len(<<d>>) : <<d>>[i].who = Me(w)
          BY <3>2, <4>2
        <4>5. \A i \in 1 .. Len(<<>>) : <<>>[i].who = Me(w)
          BY <4>3
        <4>6. CASE win'[w].todo = Append(<<d>>, m)
          BY <4>1, <4>2, <4>4, <4>6
        <4>7. CASE win'[w].todo = Append(<<>>, m)
          BY <4>1, <4>3, <4>5, <4>7
        <4> QED BY <3>1, <4>6, <4>7
      <3>5. ~Touches(win'[w], u)
        BY <2>5, <3>4, OwnMoves
      <3> QED BY <1>3, <1>4, <2>1, <3>5
    <2> QED BY <1>0, <1>12, <2>2, <2>4, <2>5, DebtBase
  <1>13. ASSUME NEW w \in Windows, Others(w), Kept, win[w].at # "save",
                muddled' = Mixed(Me(w), w, FALSE),
                LoanPlan(win'[w].todo, Me(w), 4, TRUE),
                \A i \in 1 .. Len(win'[w].todo) : win'[w].todo[i].who = Me(w)
         PROVE  LoanFine(u)'
    <2>1. muddled \subseteq muddled'
      BY <1>13 DEF Mixed
    <2>2. CASE Me(w) # u
      BY <1>3, <1>4, <1>13, <2>1, <2>2, OwnMoves
    <2>3. CASE Me(w) = u
      <3>1. LoanFine(u) /\ FALSE \in BOOLEAN /\ (~FALSE <=> TRUE)
        BY <1>1, <2>1
      <3> QED BY <1>0, <1>13, <2>3, <3>1, StartLoan
    <2> QED BY <2>2, <2>3
  <1>14. ASSUME NEW w \in Windows, win'[w] = Away("home") \/ win'[w] = Away("menu")
         PROVE  ~Touches(win'[w], u)
    <2>1. {"home", "menu"} \subseteq Places
      BY DEF Places
    <2> QED BY <1>5, <1>14, <2>1, AheadIs
  <1>15. ASSUME NEW w \in Windows, Due(w) PROVE LoanFine(u)'
    <2>1. Others(w) /\ Kept /\ win[w].at = "due" /\ muddled \subseteq muddled'
      BY <1>0, <1>15, DueBase DEF Due, Mixed
    <2>2. CASE win'[w] = Away("home")
      BY <1>3, <1>4, <1>14, <2>1, <2>2
    <2>3. ASSUME NEW n \in Int, win'[w].todo = Append(Repaid(Me(w), n), Mark(Me(w))),
                 Len(win'[w].todo) = 5, win'[w].todo[5] = Mark(Me(w)),
                 \A i \in 1 .. 4 : win'[w].todo[i] = Repaid(Me(w), n)[i],
                 muddled' = Mixed(Me(w), w, FALSE)
          PROVE  LoanFine(u)'
      <3>1. TakesBack(win'[w].todo, Me(w), n)
        BY <2>3 DEF TakesBack
      <3>2. /\ LoanPlan(win'[w].todo, Me(w), 4, TRUE)
            /\ \A i \in 1 .. Len(win'[w].todo) : win'[w].todo[i].who = Me(w)
        BY <3>1, RepaidPlan
      <3>3. win[w].at # "save"
        BY <2>1
      <3> QED BY <1>13, <2>1, <2>3, <3>2, <3>3
    <2> QED BY <1>0, <1>15, <2>2, <2>3, DueBase
  <1>16. ASSUME NEW w \in Windows, Repay(w) PROVE LoanFine(u)'
    <2>1. /\ Others(w) /\ Kept /\ win[w].at = "ask" /\ muddled \subseteq muddled'
          /\ Me(w) \in Accounts
      BY <1>0, <1>16, RepayBase, Accounted DEF Repay, Mixed
    <2>2. CASE win'[w] = Away("menu")
      BY <1>3, <1>4, <1>14, <2>1, <2>2
    <2>3. ASSUME NEW n \in Int, win'[w].todo = Repaid(Me(w), n), muddled' = Mixed(Me(w), w, FALSE)
          PROVE  LoanFine(u)'
      <3>1. Len(Repaid(Me(w), n)) = 4
        BY <2>1, MoneyScripts
      <3>2. /\ LoanPlan(win'[w].todo, Me(w), 4, TRUE)
            /\ \A i \in 1 .. Len(win'[w].todo) : win'[w].todo[i].who = Me(w)
        <4>1. TakesBack(win'[w].todo, Me(w), n)
          BY <2>3, <3>1 DEF TakesBack
        <4> QED BY <4>1, RepaidPlan
      <3> QED BY <1>13, <2>1, <2>3, <3>2
    <2> QED BY <1>0, <1>16, <2>2, <2>3, RepayBase
  <1>17. ASSUME NEW w \in Windows, ChooseRepay(w) PROVE LoanFine(u)'
    <2>1. Others(w) /\ Kept /\ win[w].at = "loans" /\ muddled \subseteq muddled'
      BY <1>0, <1>17, ChooseBase DEF ChooseRepay
    <2>2. CASE win'[w].todo = <<>>
      BY <1>3, <1>4, <1>5, <2>1, <2>2, AheadIs
    <2>3. CASE /\ \A i \in 1 .. Len(win'[w].todo) : win'[w].todo[i].who = Me(w)
               /\ muddled' = muddled \cup {Me(w)}
      <3>1. ~Touches(win'[w], u)
        BY <2>3, OwnMoves
      <3> QED BY <1>3, <1>4, <2>1, <3>1
    <2> QED BY <1>0, <1>17, <2>2, <2>3, ChooseBase
  <1>18. ASSUME NEW w \in Windows, NEW num \in Amounts, NEW days \in Days, NEW who \in Users,
                \/ TakeLoan(w, num, days) /\ who = Me(w)
                \/ SpecialLoan(w, num, days) /\ who = win[w].who
         PROVE  LoanFine(u)'
    <2>1. /\ Others(w) /\ Kept /\ win[w].at # "save" /\ win'[w].todo = Granted(who, num, days)
          /\ muddled' = Mixed(who, w, TRUE) /\ num \in Int
      <3>1. /\ Others(w) /\ Kept /\ win[w].at \in {"loans", "ask"}
            /\ win'[w].todo = Granted(who, num, days) /\ muddled' = Mixed(who, w, TRUE)
        BY <1>0, <1>18, LoanBase
      <3> QED BY <3>1, Numbers
    <2>2. muddled \subseteq muddled'
      BY <2>1 DEF Mixed
    <2>3. CASE who # u
      <3>1. \A i \in 1 .. Len(win'[w].todo) : win'[w].todo[i].who = who
        BY <2>1 DEF Granted, Save, SaveDate
      <3>2. ~Touches(win'[w], u)
        BY <2>3, <3>1 DEF Touches, OnLoan, Ahead
      <3> QED BY <1>3, <1>4, <2>1, <2>2, <3>2
    <2>4. CASE who = u
      <3>1. LoanPlan(win'[w].todo, u, 4, FALSE) /\ LoanFine(u) /\ TRUE \in BOOLEAN
            /\ (~TRUE <=> FALSE)
        BY <1>1, <2>1, <2>2, <2>4, GrantedPlan
      <3> QED BY <1>0, <2>1, <2>4, <3>1, StartLoan
    <2> QED BY <2>3, <2>4
  <1>19. ASSUME win' = win, Kept, muddled' = muddled PROVE LoanFine(u)'
    BY <1>1, <1>19 DEF LoanFine, Kept, Touches, OnLoan, Ahead, time
  <1>20. ASSUME NEW w \in Windows, Operate(w) \/ Leave(w) PROVE LoanFine(u)'
    <2>1. Others(w) /\ Kept
      BY <1>0, <1>20, OperateSteps
    <2>2. CASE win' = win /\ muddled' = muddled
      BY <1>19, <2>1, <2>2
    <2>3. CASE NoLoan(win'[w]) /\ muddled' = muddled /\ win' # win
      <3>1. win[w].at # "save"
        BY <1>0, <1>20, <2>3, OperateSteps
      <3> QED BY <1>3, <1>4, <1>5, <2>1, <2>3, <3>1
    <2>4. CASE LoanOp(w)
      <3>1. ASSUME NEW num \in Amounts, NEW days \in Days, TakeLoan(w, num, days)
            PROVE  LoanFine(u)'
        BY <1>18, <3>1, Accounted
      <3>2. ASSUME NEW num \in Amounts, NEW days \in Days, SpecialLoan(w, num, days)
            PROVE  LoanFine(u)'
        <4>1. win[w].who \in Users
          BY <1>0, <3>2, LenderKnown DEF SpecialLoan
        <4> QED BY <1>18, <3>2, <4>1
      <3> QED BY <1>16, <1>17, <2>4, <3>1, <3>2 DEF LoanOp
    <2> QED BY <1>0, <1>20, <2>2, <2>3, <2>4, OperateKinds
  <1>21. CASE Tick
    <2>1. /\ time' = time + 1 /\ val' = val /\ win' = win /\ muddled' = muddled
          /\ time \in Nat /\ Far \in Nat
      BY <1>0, <1>21, TickBase, Clock, Numbers DEF Tick, history
    <2>2. LoanFine(u) /\ val[u]["back_time"] \in Nat
      <3>1. u \in Accounts /\ "back_time" \in Keys
        BY Accounted DEF Keys, Dates
      <3> QED BY <1>0, <1>1, <2>1, <3>1, LoadIs
    <2>3. val'[u]["back_time"] <= time' + Far
      <3>1. val[u]["back_time"] <= time + Far
        BY <2>2 DEF LoanFine
      <3> QED BY <2>1, <2>2, <3>1
    <2>4. time' \in Nat /\ time <= time' /\ val[u]["lend_time"] \in Nat
      <3>1. u \in Accounts /\ "lend_time" \in Keys
        BY Accounted DEF Keys, Dates
      <3> QED BY <1>0, <2>1, <3>1, LoadIs
    <2>5. \A v \in Windows : Touches(win'[v], u) <=> Touches(win[v], u)
      BY <2>1
    <2>6. ASSUME NEW v \in Windows, Touches(win'[v], u)
          PROVE  \E k \in 1 .. 4, erase \in BOOLEAN :
                   /\ LoanPlan(win'[v].todo, u, k, erase)
                   /\ LoanState(val'[u], k, erase, win'[v].reg, time')
      <3>1. Touches(win[v], u)
        BY <2>5, <2>6
      <3>2. PICK k \in 1 .. 4, erase \in BOOLEAN :
              /\ LoanPlan(win[v].todo, u, k, erase)
              /\ LoanState(val[u], k, erase, win[v].reg, time)
        BY <2>2, <3>1 DEF LoanFine
      <3>3. LoanState(val[u], k, erase, win[v].reg, time')
        BY <2>1, <2>4, <3>2, LaterLoan
      <3> QED BY <2>1, <3>2, <3>3
    <2>7. /\ \A v, w \in Windows : Touches(win[v], u) /\ Touches(win[w], u) => v = w
          /\ (\A w \in Windows : ~Touches(win[w], u)) => Sound(val[u])
      BY <2>2 DEF LoanFine
    <2>8. /\ \A v, w \in Windows : Touches(win'[v], u) /\ Touches(win'[w], u) => v = w
          /\ (\A w \in Windows : ~Touches(win'[w], u)) => Sound(val'[u])
      BY <2>1, <2>5, <2>7
    <2> QED BY <2>3, <2>6, <2>8 DEF LoanFine
  <1>22. CASE UNCHANGED vars
    BY <1>19, <1>22 DEF vars, history, Kept
  <1>23. ASSUME NEW w \in Windows, Load(w) PROVE LoanFine(u)'
    <2>1. muddled' = muddled
      BY <1>23 DEF Load
    <2> QED BY <1>0, <1>1, <1>23, <2>1, LoadLoan
  <1> QED BY <1>6, <1>7, <1>8, <1>9, <1>10, <1>11, <1>12, <1>15, <1>20, <1>21, <1>22, <1>23
             DEF Next

\* LoanHolds: when no save on a loan is under way, whoever owes money has a
\* date of the loan and a later one on which it falls due, although the four
\* numbers of a loan are stored one by one, unless two windows mixed up the
\* dates (check_allow_in, money_bank).
THEOREM LoanHolds == Spec => []LoanFallsDue
  <1>1. LoanInv => LoanFallsDue
    <2> SUFFICES ASSUME LoanInv, NEW u \in Users \ muddled,
                        val[u]["lend_money"] > 0, Busy(u, Loan) = {}
                 PROVE  val[u]["lend_time"] > 0 /\ val[u]["back_time"] > val[u]["lend_time"]
      BY DEF LoanFallsDue
    <2>1. Typed /\ LoanFine(u)
      BY DEF LoanInv, Base
    <2>2. \A w \in Windows : ~Touches(win[w], u)
      BY <2>1, BusyAhead DEF Touches, OnLoan
    <2>3. Sound(val[u])
      BY <2>1, <2>2 DEF LoanFine
    <2>4. \A k \in Loan : val[u][k] \in Nat
      <3>1. u \in Accounts /\ Loan \subseteq Keys
        BY Accounted DEF Loan, Keys, Dates
      <3> QED BY <2>1, <3>1, LoadIs
    <2>5. /\ val[u]["lend_money"] \in Nat /\ val[u]["lend_time"] \in Nat
          /\ val[u]["back_time"] \in Nat
      BY <2>4 DEF Loan
    <2> QED BY <2>3, <2>5 DEF Sound
  <1>2. LoanInv /\ [Next]_vars => LoanInv'
    BY NextLoan
  <1> QED BY <1>1, <1>2, InitLoan, PTL DEF Spec

-----------------------------------------------------------------------------
(* Sums over a finite set, as MapThenSumSet computes them.                 *)
One(s) == CHOOSE x \in s : TRUE
Sums(g, h, S) ==
  g = [s \in SUBSET S |-> (IF s = {} THEN 0 ELSE h[One(s)] + g[s \ {One(s)}])]
Sum(h, S) == (CHOOSE g : Sums(g, h, S))[S]

LEMMA LeastNat ==
  ASSUME NEW N \in SUBSET Nat, N # {}
  PROVE  \E n \in N : \A m \in N : n <= m
  <1> DEFINE R == {ss \in Nat \X Nat : ss[1] < ss[2]}
  <1>1. IsWellFoundedOn(R, Nat)
    BY NatLessThanWellFounded DEF OpToRel
  <1>2. PICK n \in N : \A m \in N : ~(<<m, n>> \in R)
    <2> HIDE DEF R
    <2> QED BY <1>1, WFMin
  <1>3. \A m \in N : ~(m < n)
    BY <1>2
  <1>4. \A m \in N : n <= m
    BY <1>3
  <1> QED BY <1>4

LEMMA OneOut ==
  ASSUME NEW S, IsFiniteSet(S), NEW s \in SUBSET S, s # {}
  PROVE  /\ One(s) \in s /\ One(s) \in S /\ s \ {One(s)} \in SUBSET S
         /\ IsFiniteSet(s) /\ Cardinality(s) \in Nat /\ Cardinality(s) > 0
         /\ Cardinality(s \ {One(s)}) = Cardinality(s) - 1
  <1>1. One(s) \in s
    BY DEF One
  <1>2. IsFiniteSet(s) /\ Cardinality(s) \in Nat
    BY FS_Subset, FS_CardinalityType
  <1>3. Cardinality(s \ {One(s)}) = Cardinality(s) - 1
    BY <1>1, <1>2, FS_RemoveElement
  <1>4. Cardinality(s) > 0
    BY <1>2, FS_EmptySet
  <1> QED BY <1>1, <1>2, <1>3, <1>4

\* There is such a sum: step by step, for the subsets of n elements at most.
LEMMA SumExists ==
  ASSUME NEW S, IsFiniteSet(S), NEW h \in [S -> Int]
  PROVE  \E g : Sums(g, h, S)
  <1> DEFINE Small(n) == {s \in SUBSET S : Cardinality(s) <= n}
             Upto(g, n) == /\ g \in [Small(n) -> Int]
                           /\ \A s \in Small(n) :
                                g[s] = IF s = {} THEN 0 ELSE h[One(s)] + g[s \ {One(s)}]
             Bad == {n \in Nat : ~\E g : Upto(g, n)}
  <1>1. \A s \in SUBSET S : IsFiniteSet(s) /\ Cardinality(s) \in Nat
    BY FS_Subset, FS_CardinalityType
  <1>2. \A s \in SUBSET S : Cardinality(s) = 0 <=> s = {}
    BY <1>1, FS_EmptySet
  <1>3. \E g : Upto(g, 0)
    <2> DEFINE g == [s \in Small(0) |-> 0]
    <2>1. \A s \in Small(0) : s = {}
      BY <1>1, <1>2
    <2>2. Upto(g, 0)
      BY <2>1
    <2> QED BY <2>2
  <1>4. ASSUME NEW n \in Nat, \E g : Upto(g, n) PROVE \E g : Upto(g, n + 1)
    <2>1. PICK g : Upto(g, n)
      BY <1>4
    <2> DEFINE up == [s \in Small(n + 1) |->
                        (IF s = {} THEN 0 ELSE h[One(s)] + g[s \ {One(s)}])]
    <2>2. ASSUME NEW s \in Small(n + 1), s # {}
          PROVE  s \ {One(s)} \in Small(n) /\ h[One(s)] \in Int /\ g[s \ {One(s)}] \in Int
      <3>1. /\ One(s) \in S /\ s \ {One(s)} \in SUBSET S /\ Cardinality(s) \in Nat
            /\ Cardinality(s \ {One(s)}) = Cardinality(s) - 1 /\ Cardinality(s) <= n + 1
        BY <2>2, OneOut
      <3>2. s \ {One(s)} \in Small(n)
        BY <3>1
      <3> QED BY <2>1, <3>1, <3>2
    <2>3. up \in [Small(n + 1) -> Int]
      <3>1. \A s \in Small(n + 1) :
              (IF s = {} THEN 0 ELSE h[One(s)] + g[s \ {One(s)}]) \in Int
        <4> SUFFICES ASSUME NEW s \in Small(n + 1)
                     PROVE  (IF s = {} THEN 0 ELSE h[One(s)] + g[s \ {One(s)}]) \in Int
          OBVIOUS
        <4>1. CASE s = {}
          BY <4>1
        <4>2. CASE s # {}
          <5>1. h[One(s)] \in Int /\ g[s \ {One(s)}] \in Int
            BY <2>2, <4>2
          <5> QED BY <4>2, <5>1
        <4> QED BY <4>1, <4>2
      <3> HIDE DEF Small
      <3> QED BY <3>1
    <2>4. \A s \in Small(n) : s \in Small(n + 1) /\ up[s] = g[s]
      <3>1. \A s \in Small(n) : s \in Small(n + 1)
        BY <1>1
      <3> QED BY <2>1, <3>1
    <2>5. \A s \in Small(n + 1) : up[s] = IF s = {} THEN 0 ELSE h[One(s)] + up[s \ {One(s)}]
      BY <2>2, <2>4
    <2> QED BY <2>3, <2>5
  <1> HIDE DEF Upto
  <1>5. Bad = {}
    <2> SUFFICES ASSUME Bad # {} PROVE FALSE
      OBVIOUS
    <2>1. PICK n \in Bad : \A m \in Bad : n <= m
      BY LeastNat
    <2>2. n # 0
      BY <1>3, <2>1
    <2>3. n - 1 \in Nat /\ n - 1 \notin Bad /\ n - 1 + 1 = n
      BY <2>1, <2>2
    <2>4. \E g : Upto(g, n - 1)
      BY <2>3
    <2>5. \E g : Upto(g, n - 1 + 1)
      BY <1>4, <2>3, <2>4
    <2> QED BY <2>1, <2>3, <2>5
  <1>6. PICK g : Upto(g, Cardinality(S))
    BY <1>1, <1>5
  <1>7. Small(Cardinality(S)) = SUBSET S
    BY FS_Subset
  <1>8. Sums(g, h, S)
    BY <1>6, <1>7 DEF Upto, Sums
  <1> QED BY <1>8

Apart(h, k, S, u, d) == \A x \in S : k[x] = h[x] + (IF x = u THEN d ELSE 0)

\* The sums of two functions that differ by d at u, and nowhere else.
LEMMA SumsDiffer ==
  ASSUME NEW S, IsFiniteSet(S), NEW h \in [S -> Int], NEW k \in [S -> Int], NEW u, NEW d \in Int,
         Apart(h, k, S, u, d),
         NEW f, NEW g, Sums(f, h, S), Sums(g, k, S)
  PROVE  /\ f[S] \in Int /\ g[S] \in Int
         /\ g[S] = f[S] + (IF u \in S THEN d ELSE 0)
  <1> DEFINE Right(s) == f[s] \in Int /\ g[s] \in Int /\ g[s] = f[s] + (IF u \in s THEN d ELSE 0)
             Bad == {n \in Nat : \E s \in SUBSET S : Cardinality(s) = n /\ ~Right(s)}
  <1>1. \A s \in SUBSET S : /\ f[s] = IF s = {} THEN 0 ELSE h[One(s)] + f[s \ {One(s)}]
                            /\ g[s] = IF s = {} THEN 0 ELSE k[One(s)] + g[s \ {One(s)}]
    BY DEF Sums
  <1>2. Right({})
    <2>1. {} \in SUBSET S
      OBVIOUS
    <2>2. f[{}] = 0 /\ g[{}] = 0
      BY <1>1, <2>1
    <2> QED BY ONLY <2>2, d \in Int
  <1>3. ASSUME NEW s \in SUBSET S, s # {}, Right(s \ {One(s)}) PROVE Right(s)
    <2> DEFINE o == One(s)
               r == s \ {o}
    <2>1. o \in S /\ o \in s
      BY <1>3, OneOut
    <2>2. f[s] = h[o] + f[r] /\ g[s] = k[o] + g[r]
      BY <1>1, <1>3
    <2>3. h[o] \in Int /\ k[o] \in Int /\ k[o] = h[o] + (IF o = u THEN d ELSE 0)
      BY <2>1 DEF Apart
    <2>4. f[r] \in Int /\ g[r] \in Int /\ g[r] = f[r] + (IF u \in r THEN d ELSE 0)
      BY <1>3
    <2>5. (u \in s) <=> (u \in r \/ u = o)
      BY <2>1
    <2>6. ~(u \in r /\ u = o)
      OBVIOUS
    <2> HIDE DEF o, r
    <2> QED BY <2>2, <2>3, <2>4, <2>5, <2>6
  <1> HIDE DEF Right
  <1>4. Bad = {}
    <2> SUFFICES ASSUME Bad # {} PROVE FALSE
      OBVIOUS
    <2>1. PICK n \in Bad : \A m \in Bad : n <= m
      BY LeastNat
    <2>2. PICK s \in SUBSET S : Cardinality(s) = n /\ ~Right(s)
      BY <2>1
    <2>3. s # {}
      BY <1>2, <2>2
    <2>4. s \ {One(s)} \in SUBSET S /\ Cardinality(s \ {One(s)}) = n - 1 /\ n \in Nat /\ n > 0
      BY <2>2, <2>3, OneOut
    <2>5. ~Right(s \ {One(s)})
      BY <1>3, <2>2, <2>3
    <2>6. n - 1 \in Bad
      BY <2>4, <2>5
    <2> QED BY <2>1, <2>4, <2>6
  <1>5. Cardinality(S) \in Nat
    BY FS_CardinalityType
  <1>6. Right(S)
    BY <1>4, <1>5
  <1> QED BY <1>6 DEF Right

LEMMA SumIs ==
  ASSUME NEW S, IsFiniteSet(S), NEW h \in [S -> Int]
  PROVE  /\ Sum(h, S) \in Int
         /\ \A g : Sums(g, h, S) => g[S] = Sum(h, S)
  <1> DEFINE f == CHOOSE g : Sums(g, h, S)
  <1>1. Sums(f, h, S)
    BY SumExists
  <1>2. Sum(h, S) = f[S]
    BY DEF Sum
  <1> HIDE DEF f
  <1>3. 0 \in Int /\ Apart(h, h, S, S, 0)
    BY DEF Apart
  <1>4. ASSUME NEW g, Sums(g, h, S) PROVE f[S] \in Int /\ g[S] = f[S]
    <2>1. f[S] \in Int /\ g[S] = f[S] + (IF S \in S THEN 0 ELSE 0)
      BY <1>1, <1>3, <1>4, SumsDiffer
    <2> QED BY <2>1
  <1> QED BY <1>1, <1>2, <1>4

LEMMA SumStep ==
  ASSUME NEW S, IsFiniteSet(S), NEW h \in [S -> Int], NEW k \in [S -> Int], NEW u \in S,
         \A x \in S : x # u => k[x] = h[x]
  PROVE  Sum(k, S) = Sum(h, S) + k[u] - h[u]
  <1> DEFINE d == k[u] - h[u]
  <1>1. d \in Int /\ Apart(h, k, S, u, d)
    BY DEF Apart
  <1>2. PICK f : Sums(f, h, S)
    BY SumExists
  <1>3. PICK g : Sums(g, k, S)
    BY SumExists
  <1>4. f[S] \in Int /\ g[S] = f[S] + (IF u \in S THEN d ELSE 0)
    <2> HIDE DEF d
    <2> QED BY <1>1, <1>2, <1>3, SumsDiffer
  <1>5. f[S] = Sum(h, S) /\ g[S] = Sum(k, S)
    BY <1>2, <1>3, SumIs
  <1> QED BY <1>4, <1>5

LEMMA SumZero ==
  ASSUME NEW S, IsFiniteSet(S)
  PROVE  Sum([x \in S |-> 0], S) = 0
  <1> DEFINE h == [x \in S |-> 0]
             f == [s \in SUBSET S |-> 0]
  <1>1. Sums(f, h, S)
    <2>1. \A s \in SUBSET S : s # {} => s \ {One(s)} \in SUBSET S /\ One(s) \in S
      BY OneOut
    <2>2. \A s \in SUBSET S : 0 = IF s = {} THEN 0 ELSE h[One(s)] + f[s \ {One(s)}]
      BY <2>1
    <2> QED BY <2>2 DEF Sums
  <1>2. h \in [S -> Int]
    OBVIOUS
  <1>3. f[S] = 0
    OBVIOUS
  <1> HIDE DEF f, h
  <1> QED BY <1>1, <1>2, <1>3, SumIs DEF h

Held(v) == [u \in Accounts |-> v[u]["bmy_money"] + v[u]["bmy_credit"]]

LEMMA TotalIs ==
  ASSUME NEW v \in Values
  PROVE  /\ Held(v) \in [Accounts -> Int] /\ IsFiniteSet(Accounts)
         /\ Total(v) = Sum(Held(v), Accounts) /\ Total(v) \in Int
  <1>1. IsFiniteSet(Accounts)
    BY MoneyAssumption, FS_Union, FS_Singleton DEF Accounts
  <1>2. Held(v) \in [Accounts -> Int]
    BY DEF Held, Values, Keys
  <1>3. PICK iter :
          /\ iter = CHOOSE g : g = [s \in SUBSET Accounts |->
                      (IF s = {} THEN 0
                       ELSE (v[One(s)]["bmy_money"] + v[One(s)]["bmy_credit"]) + g[s \ {One(s)}])]
          /\ Total(v) = iter[Accounts]
    BY DEF Total, MapThenSumSet, MapThenFoldSet, One
  <1> DEFINE E(g) == [s \in SUBSET Accounts |->
                      (IF s = {} THEN 0
                       ELSE (v[One(s)]["bmy_money"] + v[One(s)]["bmy_credit"]) + g[s \ {One(s)}])]
             F(g) == [s \in SUBSET Accounts |->
                      (IF s = {} THEN 0 ELSE Held(v)[One(s)] + g[s \ {One(s)}])]
  <1>4. \A g : E(g) = F(g)
    <2> SUFFICES ASSUME NEW g, NEW s \in SUBSET Accounts, s # {}
                 PROVE  Held(v)[One(s)] = v[One(s)]["bmy_money"] + v[One(s)]["bmy_credit"]
      OBVIOUS
    <2>1. One(s) \in Accounts
      BY <1>1, OneOut
    <2> QED BY <2>1 DEF Held
  <1>5. \E g : g = F(g)
    <2>1. PICK g : Sums(g, Held(v), Accounts)
      BY <1>1, <1>2, SumExists
    <2> QED BY <2>1 DEF Sums
  <1>6. iter = E(iter)
    <2>1. iter = CHOOSE g : g = E(g)
      BY <1>3
    <2> HIDE DEF E, F
    <2>2. \E g : g = E(g)
      BY <1>4, <1>5
    <2> QED BY <2>1, <2>2
  <1>7. Sums(iter, Held(v), Accounts)
    <2>1. iter = F(iter)
      BY <1>4, <1>6
    <2> QED BY <2>1 DEF Sums
  <1> QED BY <1>1, <1>2, <1>3, <1>7, SumIs

LEMMA TotalSame ==
  ASSUME NEW v \in Values, NEW x \in Values,
         \A a \in Accounts, k \in Purse : x[a][k] = v[a][k]
  PROVE  Total(x) = Total(v)
  <1>1. Held(x) = Held(v)
    BY DEF Held, Purse
  <1> QED BY <1>1, TotalIs

LEMMA TotalStep ==
  ASSUME NEW v \in Values, NEW x \in Values, NEW u \in Accounts, NEW k \in Purse,
         \A a \in Accounts, j \in Purse : a # u \/ j # k => x[a][j] = v[a][j]
  PROVE  Total(x) = Total(v) + x[u][k] - v[u][k]
  <1>1. /\ Held(v) \in [Accounts -> Int] /\ Held(x) \in [Accounts -> Int] /\ IsFiniteSet(Accounts)
        /\ Total(v) = Sum(Held(v), Accounts) /\ Total(x) = Sum(Held(x), Accounts)
        /\ Total(v) \in Int
    BY TotalIs
  <1>2. \A a \in Accounts : a # u => Held(x)[a] = Held(v)[a]
    BY DEF Held, Purse
  <1>3. Held(x)[u] = Held(v)[u] + x[u][k] - v[u][k]
    <2>1. /\ Held(x)[u] = x[u]["bmy_money"] + x[u]["bmy_credit"]
          /\ Held(v)[u] = v[u]["bmy_money"] + v[u]["bmy_credit"]
      BY DEF Held
    <2>2. \A j \in Purse : x[u][j] \in Nat /\ v[u][j] \in Nat
      BY DEF Values, Keys, Purse
    <2>3. k = "bmy_money" \/ k = "bmy_credit"
      BY DEF Purse
    <2>4. \A j \in Purse : j # k => x[u][j] = v[u][j]
      OBVIOUS
    <2>5. "bmy_money" \in Purse /\ "bmy_credit" \in Purse /\ "bmy_money" # "bmy_credit"
      BY DEF Purse
    <2> QED BY <2>1, <2>2, <2>3, <2>4, <2>5
  <1>4. Total(x) = Total(v) + Held(x)[u] - Held(v)[u]
    <2> DEFINE h == Held(v)
               g == Held(x)
    <2>1. /\ h \in [Accounts -> Int] /\ g \in [Accounts -> Int]
          /\ \A a \in Accounts : a # u => g[a] = h[a]
      BY <1>1, <1>2
    <2>2. Total(v) = Sum(h, Accounts) /\ Total(x) = Sum(g, Accounts)
      BY <1>1
    <2> HIDE DEF g, h
    <2>3. Sum(g, Accounts) = Sum(h, Accounts) + g[u] - h[u]
      BY <1>1, <2>1, SumStep
    <2> QED BY <2>2, <2>3 DEF g, h
  <1>5. x[u][k] \in Int /\ v[u][k] \in Int /\ Held(v)[u] \in Int
    BY <1>1 DEF Values, Keys, Purse
  <1> QED BY <1>1, <1>3, <1>4, <1>5

-----------------------------------------------------------------------------
(* The books: what is stored and what is still to be stored make the       *)
(* ledger.                                                                 *)
Part(q, i) == IF i <= Len(q) /\ q[i].key \in Purse THEN q[i].add ELSE 0
Owes(q)    == Part(q, 1) + Part(q, 2)
Tallies    == [w \in Windows |-> Owes(win[w].todo)]

\* Of a script only the first two saves are about money. The second gives, and
\* the first takes no more than a check has found, if it takes.
Sane(x) ==
  \A i \in 1 .. Len(x.todo) : x.todo[i].key \in Purse =>
    /\ i <= 2 /\ ~x.todo[i].dated
    /\ i = 2 => x.todo[i].add >= 0
    /\ i = 1 /\ x.reg = NoReg => x.todo[i].add >= 0 \/ x.had + x.todo[i].add >= 0

\* What a save has loaded is enough for it.
Covered(x) ==
  x.reg # NoReg /\ x.todo # <<>> /\ x.todo[1].key \in Purse => x.reg.sum >= 0

Books ==
  /\ Base /\ ledger \in Int
  /\ \A w \in Windows : Sane(win[w])
  /\ ~amiss => /\ \A w \in Windows : Covered(win[w])
               /\ Total(val) + Sum(Tallies, Windows) = ledger

LEMMA OwesType ==
  ASSUME NEW q \in Seq(Moves)
  PROVE  /\ Owes(q) \in Int /\ Part(q, 1) \in Int /\ Part(q, 2) \in Int
         /\ (\A i \in 1 .. Len(q) : q[i].key \notin Purse) => Owes(q) = 0
         /\ q = <<>> => Owes(q) = 0
  <1>1. Len(q) \in Nat /\ \A i \in 1 .. Len(q) : q[i].add \in Int
    <2>1. Len(q) \in Nat /\ \A i \in 1 .. Len(q) : q[i] \in Moves
      OBVIOUS
    <2>2. \A s \in Moves : s.add \in Int
      BY DEF Moves
    <2> QED BY <2>1, <2>2
  <1>2. \A i \in {1, 2} : Part(q, i) \in Int /\ (i <= Len(q) => i \in 1 .. Len(q))
    BY <1>1 DEF Part
  <1>3. (\A i \in 1 .. Len(q) : q[i].key \notin Purse) => Part(q, 1) = 0 /\ Part(q, 2) = 0
    BY <1>1, <1>2 DEF Part
  <1>4. q = <<>> => \A i \in 1 .. Len(q) : q[i].key \notin Purse
    OBVIOUS
  <1> QED BY <1>2, <1>3, <1>4 DEF Owes

LEMMA TalliesType ==
  ASSUME Base
  PROVE  /\ Tallies \in [Windows -> Int] /\ IsFiniteSet(Windows)
         /\ Total(val) \in Int /\ Sum(Tallies, Windows) \in Int
  <1>1. IsFiniteSet(Windows) /\ val \in Values
    BY MoneyAssumption DEF Base, Typed
  <1>2. \A w \in Windows : win[w].todo \in Seq(Moves)
    BY DEF Base, Typed, Wins
  <1>3. Tallies \in [Windows -> Int]
    BY <1>2, OwesType DEF Tallies
  <1> HIDE DEF Tallies
  <1> QED BY <1>1, <1>3, SumIs, TotalIs

\* What a step of one window has to make good.
LEMMA KeepBooks ==
  ASSUME Books, Base', NEW w \in Windows, Others(w), Sane(win'[w]), ledger' \in Int,
         ~amiss' => /\ ~amiss /\ Covered(win'[w])
                    /\ Total(val') + Owes(win'[w].todo) - ledger'
                         = Total(val) + Owes(win[w].todo) - ledger
  PROVE  Books'
  <1>1. \A v \in Windows : Sane(win'[v])
    BY DEF Books, Others
  <1>3. ~amiss' => \A v \in Windows : Covered(win'[v])
    BY DEF Books, Others
  <1>2. ASSUME ~amiss' PROVE Total(val') + Sum(Tallies', Windows) = ledger'
    <2>1. /\ Tallies \in [Windows -> Int] /\ IsFiniteSet(Windows)
          /\ Total(val) \in Int /\ Sum(Tallies, Windows) \in Int
      BY TalliesType DEF Books
    <2>2. Tallies' = [v \in Windows |-> Owes(win'[v].todo)]
      BY DEF Tallies
    <2>3. \A v \in Windows : win'[v].todo \in Seq(Moves)
      BY DEF Base, Typed, Wins
    <2>4. Tallies' \in [Windows -> Int]
      BY <2>2, <2>3, OwesType
    <2>5. \A v \in Windows : v # w => Tallies'[v] = Tallies[v]
      BY <2>2 DEF Tallies, Others
    <2>6. Tallies[w] = Owes(win[w].todo) /\ Tallies'[w] = Owes(win'[w].todo)
      BY <2>2 DEF Tallies
    <2> DEFINE h == Tallies
               k == Tallies'
    <2>7. /\ h \in [Windows -> Int] /\ k \in [Windows -> Int]
          /\ \A v \in Windows : v # w => k[v] = h[v]
      BY <2>1, <2>4, <2>5
    <2>8. Sum(k, Windows) = Sum(h, Windows) + k[w] - h[w]
      <3> HIDE DEF h, k
      <3> QED BY <2>1, <2>7, SumStep
    <2>9. Total(val') \in Int
      <3>1. val' \in Values
        BY DEF Base, Typed
      <3> QED BY <3>1, TotalIs
    <2>10. Total(val) + Sum(Tallies, Windows) = ledger /\ ledger \in Int
      BY <1>2 DEF Books
    <2>11. /\ Total(val') + Owes(win'[w].todo) - ledger'
                = Total(val) + Owes(win[w].todo) - ledger
           /\ Owes(win'[w].todo) \in Int /\ Owes(win[w].todo) \in Int
      <3>1. h[w] \in Int /\ k[w] \in Int
        BY <2>7
      <3> QED BY <1>2, <2>6, <3>1
    <2> HIDE DEF h, k
    <2>12. Sum(k, Windows) = Sum(h, Windows) + Owes(win'[w].todo) - Owes(win[w].todo)
      BY <2>6, <2>8 DEF h, k
    <2>13. Sum(h, Windows) \in Int /\ Sum(k, Windows) = Sum(Tallies', Windows)
           /\ Sum(h, Windows) = Sum(Tallies, Windows)
      BY <2>1 DEF h, k
    <2> QED BY <2>1, <2>9, <2>10, <2>11, <2>12, <2>13
  <1> QED BY <1>1, <1>2, <1>3 DEF Books

LEMMA TailOwes ==
  ASSUME NEW q \in Scripts, \A i \in 1 .. Len(q) : i > 2 => q[i].key \notin Purse
  PROVE  Tail(q) \in Seq(Moves) /\ Owes(Tail(q)) = Owes(q) - Part(q, 1)
  <1> DEFINE r == Tail(q)
  <1>1. q \in Seq(Moves) /\ q # <<>>
    BY DEF Scripts
  <1>2. /\ r \in Seq(Moves) /\ Len(q) \in Nat /\ Len(q) > 0 /\ Len(r) = Len(q) - 1
        /\ \A i \in 1 .. Len(r) : r[i] = q[i + 1]
    BY <1>1
  <1> HIDE DEF r
  <1>3. Part(r, 1) = Part(q, 2)
    BY <1>2 DEF Part
  <1>4. Part(r, 2) = 0
    <2>1. CASE Len(q) < 3
      BY <1>2, <2>1 DEF Part
    <2>2. CASE Len(q) >= 3
      <3>1. q[3].key \notin Purse /\ r[2] = q[3]
        BY <1>2, <2>2
      <3> QED BY <3>1 DEF Part
    <2> QED BY <1>2, <2>1, <2>2
  <1>5. Part(q, 1) \in Int /\ Part(q, 2) \in Int
    BY <1>1, OwesType
  <1> QED BY <1>2, <1>3, <1>4, <1>5 DEF Owes, r

\* On to the rest of a script.
LEMMA MovesOnBooks ==
  ASSUME Base, Base', NEW w \in Windows, win[w].at = "save", Sane(win[w]), MovesOn(w)
  PROVE  /\ Sane(win'[w]) /\ Covered(win'[w])
         /\ Owes(win'[w].todo) = Owes(win[w].todo) - Part(win[w].todo, 1)
  <1> DEFINE q == win[w].todo
             r == Tail(q)
             y == win'[w]
  <1>1. q \in Scripts /\ Typed /\ Bounded(val')
    BY FirstMove DEF Base, Typed, Bounded
  <1>2. y.todo = r
    BY DEF MovesOn
  <1>3. \A i \in 1 .. Len(q) : i > 2 => q[i].key \notin Purse
    BY DEF Sane
  <1>4. r \in Seq(Moves) /\ Owes(r) = Owes(q) - Part(q, 1)
    BY <1>1, <1>3, TailOwes
  <1>5. /\ Len(q) \in Nat /\ Len(q) > 0 /\ Len(r) = Len(q) - 1
        /\ \A i \in 1 .. Len(r) : r[i] = q[i + 1]
    <2>1. q \in Seq(Moves) /\ q # <<>>
      BY <1>1 DEF Scripts
    <2> HIDE DEF q
    <2> QED BY <2>1
  <1>6. ASSUME NEW i \in 1 .. Len(r), r[i].key \in Purse
        PROVE  i = 1 /\ ~r[i].dated /\ r[i].add >= 0
    <2>1. i + 1 \in 1 .. Len(q) /\ r[i] = q[i + 1] /\ i \in Nat /\ i >= 1
      BY <1>5
    <2>2. i = 1
      BY <1>3, <1>6, <2>1
    <2>3. ~r[1].dated /\ r[1].add >= 0 /\ r[1].key \in Purse
      BY <1>6, <2>1, <2>2 DEF Sane
    <2> QED BY <2>2, <2>3
  <1>7. Sane(y)
    <2> HIDE DEF y, r
    <2> QED BY <1>2, <1>6 DEF Sane
  <1>8. Covered(y)
    <2>1. y.todo # <<>> => y.reg = NoReg
      BY <1>2 DEF MovesOn
    <2> QED BY <2>1 DEF Covered
  <1> QED BY <1>2, <1>4, <1>7, <1>8

LEMMA PurseSup ==
  /\ \A k \in Purse : k \in Keys /\ Sup(k) = MaxMoney
  /\ MaxMoney \in Nat /\ MaxMoney <= IntMax /\ IntMax \in Nat
  <1>1. MaxMoney \in Nat /\ MaxMoney <= IntMax /\ IntMax \in Nat
    BY MoneyAssumption
  <1>2. \A k \in Purse : k \in Keys /\ Sup(k) = MaxMoney
    BY DEF Purse, Keys, Sup, Dates
  <1> QED BY <1>1, <1>2

LEMMA StoreBooks ==
  ASSUME Books, NEW w \in Windows, Store(w)
  PROVE  Books'
  <1> DEFINE q == win[w].todo
             s == q[1]
             sum == win[w].reg.sum
             base == win[w].reg.base
  <1>1. /\ Base /\ Base' /\ Others(w) /\ s \in Moves /\ s.key \in Keys /\ s.who \in Accounts
        /\ val'[s.who][s.key] = limitValue(sum, Sup(s.key))
        /\ \A u \in Accounts, k \in Keys : u # s.who \/ k # s.key => val'[u][k] = val[u][k]
        /\ win[w].reg # NoReg /\ MovesOn(w)
    BY StoreBase DEF Books, Moves
  <1>2. win[w].at = "save" /\ ledger' = ledger /\ Sane(win[w]) /\ ledger \in Int
    BY DEF Store, Books
  <1>3. Head(q) = s /\ q \in Scripts /\ RegOK(win[w], time) /\ 1 \in 1 .. Len(q)
    BY <1>1, <1>2, FirstMove
  <1>4. amiss' = (amiss \/ (s.key \in Purse /\ (val[s.who][s.key] # base \/ sum > MaxMoney)))
    BY <1>3 DEF Store, Lost
  <1>5. Sane(win'[w]) /\ Covered(win'[w]) /\ Owes(win'[w].todo) = Owes(q) - Part(q, 1)
    BY <1>1, <1>2, MovesOnBooks
  <1>6. val \in Values /\ val' \in Values
    BY <1>1 DEF Base, Typed
  <1>7. Owes(q) \in Int /\ Part(q, 1) \in Int /\ Total(val) \in Int
    <2>1. q \in Seq(Moves)
      BY <1>3 DEF Scripts
    <2> QED BY <1>6, <2>1, OwesType, TotalIs
  <1>8. ASSUME ~amiss' PROVE Total(val') = Total(val) + Part(q, 1)
    <2>1. CASE s.key \notin Purse
      <3>1. \A a \in Accounts, k \in Purse : val'[a][k] = val[a][k]
        <4> HIDE DEF s
        <4> QED BY <1>1, <2>1, PurseSup
      <3>2. Part(q, 1) = 0
        BY <2>1 DEF Part
      <3> QED BY <1>6, <1>7, <3>1, <3>2, TotalSame
    <2>2. CASE s.key \in Purse
      <3>1. val[s.who][s.key] = base /\ ~(sum > MaxMoney)
        BY <1>4, <1>8, <2>2
      <3>2. ~s.dated /\ sum >= 0
        <4>1. ~s.dated
          BY <1>2, <1>3, <2>2 DEF Sane
        <4>2. Covered(win[w]) /\ q # <<>>
          BY <1>3, <1>4, <1>8 DEF Books, Scripts
        <4> QED BY <1>1, <2>2, <4>1, <4>2 DEF Covered
      <3>3. sum = base + s.add /\ sum \in Int
        <4>1. q # <<>>
          BY <1>3 DEF Scripts
        <4>2. sum = base + s.add
          BY <1>1, <1>3, <3>2, <4>1 DEF RegOK
        <4>3. sum \in Int
          BY <1>1, <1>2, FirstMove
        <4> QED BY <4>2, <4>3
      <3>4. limitValue(sum, Sup(s.key)) = sum
        <4>1. sum \in 0 .. MaxMoney
          BY <3>1, <3>2, <3>3, PurseSup
        <4> HIDE DEF sum, s
        <4> QED BY <2>2, <3>3, <4>1, PurseSup, LimitType
      <3>5. \A a \in Accounts, j \in Purse : a # s.who \/ j # s.key => val'[a][j] = val[a][j]
        <4> HIDE DEF s
        <4> QED BY <1>1, PurseSup
      <3>6. Total(val') = Total(val) + val'[s.who][s.key] - val[s.who][s.key]
        <4> HIDE DEF s
        <4> QED BY <1>1, <1>6, <2>2, <3>5, TotalStep
      <3>7. Part(q, 1) = s.add
        <4>1. 1 <= Len(q)
          BY <1>3
        <4> QED BY <2>2, <4>1 DEF Part
      <3>8. base \in Int /\ s.add \in Int
        BY <1>1, <1>2, FirstMove DEF Moves
      <3> HIDE DEF s, sum, base
      <3> QED BY <1>1, <1>7, <3>1, <3>3, <3>4, <3>6, <3>7, <3>8
    <2> QED BY <2>1, <2>2
  <1>9. ~amiss' => /\ ~amiss /\ Covered(win'[w])
                   /\ Total(val') + Owes(win'[w].todo) - ledger' = Total(val) + Owes(q) - ledger
    <2> SUFFICES ASSUME ~amiss'
                 PROVE  /\ ~amiss /\ Covered(win'[w])
                        /\ Total(val') + Owes(win'[w].todo) - ledger' = Total(val) + Owes(q) - ledger
      OBVIOUS
    <2>1. ~amiss
      BY <1>4
    <2>2. Total(val') = Total(val) + Part(q, 1)
      BY <1>8
    <2> DEFINE o == Owes(q)
               p == Part(q, 1)
               t == Total(val)
    <2>3. /\ o \in Int /\ p \in Int /\ t \in Int /\ ledger \in Int
          /\ Total(val') = t + p /\ Owes(win'[w].todo) = o - p /\ ledger' = ledger
      BY <1>2, <1>5, <1>7, <2>2
    <2> HIDE DEF o, p, t
    <2>4. Total(val') + Owes(win'[w].todo) - ledger' = t + o - ledger
      BY <2>3
    <2> QED BY <1>5, <2>1, <2>4 DEF o, t
  <1> QED BY <1>1, <1>2, <1>5, <1>9, KeepBooks

LEMMA LoadBooks ==
  ASSUME Books, NEW w \in Windows, Load(w)
  PROVE  Books'
  <1> DEFINE q == win[w].todo
             s == q[1]
             had == win[w].had
             r == Loaded(s)
  <1>1. /\ Base' /\ Others(w) /\ val' = val /\ win[w].reg = NoReg /\ q \in Scripts
        /\ s \in Moves /\ s.key \in Keys /\ win'[w].todo = q /\ win'[w].reg = r
    BY LoadBase DEF Books, Kept
  <1>2. /\ ledger' = ledger /\ ledger \in Int /\ Sane(win[w])
        /\ amiss' = (amiss \/ (s.key \in Purse /\ r.sum < 0 /\ r.base # had))
    <2>1. Head(q) = s
      BY <1>1, HeadIs
    <2> QED BY <2>1 DEF Load, Books
  <1>3. /\ r # NoReg /\ r.base \in 0 .. Sup(s.key)
        /\ r.sum = r.base + s.add + (IF s.dated THEN time ELSE 0)
    BY <1>1, LoadedOK DEF Books, Base
  <1>4. s.add \in Int /\ had \in Int /\ 1 \in 1 .. Len(q) /\ Sup(s.key) \in Nat
    <2>1. s.add \in Int
      BY <1>1 DEF Moves
    <2>2. win[w] \in Wins
      BY DEF Books, Base, Typed
    <2>3. had \in Nat
      BY ONLY <2>2 DEF Wins, had
    <2>4. 1 \in 1 .. Len(q)
      BY <1>1, HeadIs
    <2>5. Sup(s.key) \in Nat
      BY <1>1, SupType
    <2> QED BY ONLY <2>1, <2>3, <2>4, <2>5
  <1>5. Sane(win'[w])
    BY <1>1, <1>2, <1>3 DEF Sane
  <1>6. ASSUME ~amiss', s.key \in Purse PROVE r.sum >= 0
    <2>1. /\ ~s.dated
          /\ s.add >= 0 \/ had + s.add >= 0
          /\ ~(r.sum < 0) \/ r.base = had
      BY <1>1, <1>2, <1>4, <1>6 DEF Sane
    <2> HIDE DEF s, had, r
    <2>2. r.sum = r.base + s.add /\ r.base >= 0 /\ r.base \in Int
      BY <1>3, <1>4, <2>1
    <2> QED BY <1>4, <2>1, <2>2
  <1>7. ~amiss' => Covered(win'[w])
    BY <1>1, <1>6 DEF Covered
  <1>8. ~amiss' => ~amiss
    BY <1>2
  <1>9. Total(val') + Owes(win'[w].todo) - ledger' = Total(val) + Owes(win[w].todo) - ledger
    BY <1>1, <1>2
  <1> QED BY <1>1, <1>2, <1>5, <1>7, <1>8, <1>9, KeepBooks

LEMMA ListBooks ==
  ASSUME Books, NEW w \in Windows, List(w)
  PROVE  Books'
  <1> DEFINE q == win[w].todo
  <1>1. /\ Base /\ Base' /\ Others(w) /\ val' = val /\ q[1].key = "salary_list" /\ MovesOn(w)
    BY ListBase DEF Books
  <1>2. win[w].at = "save" /\ ledger' = ledger /\ amiss' = amiss /\ Sane(win[w]) /\ ledger \in Int
    BY DEF List, history, Books
  <1>3. Sane(win'[w]) /\ Covered(win'[w]) /\ Owes(win'[w].todo) = Owes(q) - Part(q, 1)
    BY <1>1, <1>2, MovesOnBooks
  <1>4. Part(q, 1) = 0
    BY <1>1 DEF Part, Purse
  <1>5. Owes(q) \in Int
    <2>1. q \in Seq(Moves)
      BY <1>1 DEF Base, Typed, Wins
    <2> QED BY <2>1, OwesType
  <1>6. Owes(win'[w].todo) = Owes(q)
    BY <1>3, <1>4, <1>5
  <1> QED BY <1>1, <1>2, <1>3, <1>6, KeepBooks

\* A step that moves no money: it stores nothing and asks for nothing.
Coinless(x) == \A i \in 1 .. Len(x.todo) : x.todo[i].key \notin Purse

LEMMA CoinlessBooks ==
  ASSUME Books, Base', NEW w \in Windows, Others(w), val' = val, ledger' = ledger,
         Coinless(win'[w]), ~amiss' => ~amiss /\ Coinless(win[w])
  PROVE  Books'
  <1>1. win[w].todo \in Seq(Moves) /\ win'[w].todo \in Seq(Moves) /\ ledger \in Int
    BY DEF Books, Base, Typed, Wins
  <1>2. Owes(win'[w].todo) = 0 /\ (Coinless(win[w]) => Owes(win[w].todo) = 0)
    BY <1>1, OwesType DEF Coinless
  <1>3. Sane(win'[w]) /\ Covered(win'[w])
    <2>1. win'[w].todo # <<>> => 1 \in 1 .. Len(win'[w].todo)
      BY <1>1
    <2> QED BY <2>1 DEF Sane, Covered, Coinless
  <1> QED BY <1>1, <1>2, <1>3, KeepBooks

LEMMA GoneBooks ==
  ASSUME Books, NEW w \in Windows, Gone(w)
  PROVE  Books'
  <1>1. Base /\ Base' /\ Others(w) /\ val' = val /\ win'[w] = Away("off") /\ ledger' = ledger
    BY AwayBase DEF Books, Kept, Gone
  <1>2. Coinless(win'[w])
    <2>1. win'[w].todo = <<>>
      BY <1>1, AwayType DEF Places
    <2> QED BY <2>1 DEF Coinless
  <1>3. ASSUME ~amiss' PROVE ~amiss /\ Coinless(win[w])
    <2> DEFINE q == win[w].todo
    <2>1. ~amiss /\ {s \in ToSet(q) : s.key \in Purse} = {}
      BY <1>3 DEF Gone
    <2>2. \A i \in 1 .. Len(q) : q[i] \in ToSet(q)
      <3>1. q \in Seq(Moves)
        BY <1>1 DEF Base, Typed, Wins
      <3> HIDE DEF q
      <3> QED BY <3>1 DEF ToSet
    <2> QED BY <2>1, <2>2 DEF Coinless
  <1> QED BY <1>1, <1>2, <1>3, CoinlessBooks

\* A script that begins with the saves s and t, and has no other about money.
Coins(q, s, t) ==
  /\ q \in Scripts /\ Len(q) >= 2 /\ q[1] = s /\ q[2] = t
  /\ \A i \in 3 .. Len(q) : q[i].key \notin Purse

LEMMA PurseBooks ==
  ASSUME Books, Base', NEW w \in Windows, win[w].at # "save", val' = val, amiss' = amiss,
         NEW q, NEW s, NEW t, Coins(q, s, t), NEW next \in Nexts,
         Saves(w, q, next) \/ Pays(w, q, next),
         s.key \in Purse, ~s.dated, s.add >= 0 \/ win'[w].had + s.add >= 0,
         t.key \in Purse => ~t.dated /\ t.add >= 0,
         ledger' = ledger + s.add + (IF t.key \in Purse THEN t.add ELSE 0)
  PROVE  Books'
  <1>1. Base /\ Typed /\ Bounded(val) /\ q \in Scripts /\ q \in Seq(Moves) /\ q # <<>>
    BY DEF Books, Base, Typed, Bounded, Coins, Scripts
  <1>2. Others(w) /\ win'[w].todo = q /\ win'[w].reg = NoReg
    <2>1. Begins(w, q, next)
      BY DEF Begins, Coins
    <2> QED BY <1>1, <2>1, SavesEffect
  <1>3. /\ Len(q) \in Nat /\ Len(q) >= 2 /\ q[1] = s /\ q[2] = t
        /\ s \in Moves /\ t \in Moves
        /\ \A i \in 3 .. Len(q) : q[i].key \notin Purse
    <2>1. Len(q) \in Nat /\ \A i \in 1 .. Len(q) : q[i] \in Moves
      BY <1>1
    <2>2. Len(q) >= 2 /\ q[1] = s /\ q[2] = t /\ \A i \in 3 .. Len(q) : q[i].key \notin Purse
      BY DEF Coins
    <2> QED BY <2>1, <2>2
  <1>4. s.add \in Int /\ t.add \in Int /\ s.key \in Keys /\ s.who \in Accounts
    BY <1>3, PurseSup DEF Moves
  <1>7. Sane(win'[w])
    <2>1. ASSUME NEW i \in 1 .. Len(q), q[i].key \in Purse
          PROVE  /\ i <= 2 /\ ~q[i].dated
                 /\ i = 2 => q[i].add >= 0
                 /\ i = 1 => q[i].add >= 0 \/ win'[w].had + q[i].add >= 0
      <3>1. ~(i \in 3 .. Len(q))
        BY <1>3, <2>1
      <3>2. i = 1 \/ i = 2
        BY <1>3, <3>1
      <3> QED BY <1>3, <2>1, <3>2
    <2> QED BY <1>2, <2>1 DEF Sane
  <1>12. Covered(win'[w])
    BY <1>2 DEF Covered
  <1>8. Owes(q) = s.add + (IF t.key \in Purse THEN t.add ELSE 0)
    <2>1. Part(q, 1) = s.add /\ Part(q, 2) = IF t.key \in Purse THEN t.add ELSE 0
      BY <1>3 DEF Part
    <2> QED BY <2>1 DEF Owes
  <1>9. Owes(win[w].todo) = 0 /\ Owes(q) \in Int /\ ledger \in Int
    <2>1. win[w].todo = <<>>
      BY <1>1, Idle
    <2>2. <<>> \in Seq(Moves)
      OBVIOUS
    <2> QED BY <1>1, <2>1, <2>2, OwesType DEF Books
  <1>10. Total(val) \in Int /\ ledger' = ledger + Owes(q)
    <2>1. Total(val) \in Int
      BY <1>1, TalliesType
    <2> DEFINE n == IF t.key \in Purse THEN t.add ELSE 0
    <2>2. n \in Int /\ Owes(q) = s.add + n /\ ledger' = ledger + s.add + n
      BY <1>4, <1>8
    <2> HIDE DEF n
    <2>3. ledger' = ledger + Owes(q)
      BY <1>4, <1>9, <2>2
    <2> QED BY <2>1, <2>3
  <1>11. /\ ledger' \in Int
         /\ ~amiss' => /\ ~amiss /\ Covered(win'[w])
                       /\ Total(val') + Owes(win'[w].todo) - ledger'
                            = Total(val) + Owes(win[w].todo) - ledger
    <2> DEFINE o == Owes(q)
               v == Total(val)
    <2>1. o \in Int /\ v \in Int /\ ledger \in Int /\ ledger' = ledger + o
      BY <1>9, <1>10
    <2> HIDE DEF o, v
    <2>2. ledger' \in Int /\ v + o - ledger' = v + 0 - ledger
      BY <2>1
    <2> QED BY <1>2, <1>9, <1>12, <2>2 DEF o, v
  <1> QED BY <1>2, <1>7, <1>11, KeepBooks

LEMMA PurseScripts ==
  /\ \A a, b \in Accounts, j, k \in Purse, m, n \in Int :
       Coins(<<Save(a, j, m), Save(b, k, n)>>, Save(a, j, m), Save(b, k, n))
  /\ \A u \in Accounts, n \in Int :
       Coins(<<Save(u, "bmy_money", n), Enlist(u)>>, Save(u, "bmy_money", n), Enlist(u))
  /\ \A u \in Users, n \in Int :
       Coins(BailScript(u, n), Save(u, "bmy_money", -n), Save(House, "bmy_money", n))
  /\ \A u \in Accounts, n, d \in Int :
       Coins(Granted(u, n, d), Save(u, "bmy_money", n), Save(u, "lend_money", n))
  /\ \A u \in Accounts, n \in Int :
       Coins(Repaid(u, n), Save(u, "bmy_money", -n), Erase(u, "lend_money"))
  /\ \A u \in Users, n \in Int :
       Coins(Append(Repaid(u, n), Mark(u)), Save(u, "bmy_money", -n), Erase(u, "lend_money"))
  <1>0. "bmy_money" \in Keys /\ "lend_money" \in Keys /\ Dates \subseteq Keys /\ Purse \subseteq Keys
    BY DEF Keys, Dates, Purse
  <1>1. ASSUME NEW s \in Moves, NEW t \in Moves PROVE Coins(<<s, t>>, s, t)
    <2>1. <<s, t>> \in Scripts /\ Len(<<s, t>>) = 2 /\ <<s, t>>[1] = s /\ <<s, t>>[2] = t
      BY DEF Scripts
    <2> QED BY <2>1 DEF Coins
  <1>2. ASSUME NEW s \in Moves, NEW t \in Moves, NEW x \in Moves, x.key \notin Purse
        PROVE  Coins(<<s, t, x>>, s, t)
    <2>1. /\ <<s, t, x>> \in Scripts /\ Len(<<s, t, x>>) = 3 /\ <<s, t, x>>[1] = s
          /\ <<s, t, x>>[2] = t /\ <<s, t, x>>[3] = x
      BY DEF Scripts
    <2>2. \A i \in 3 .. 3 : i = 3
      OBVIOUS
    <2> QED BY <1>2, <2>1, <2>2 DEF Coins
  <1>3. ASSUME NEW s \in Moves, NEW t \in Moves, NEW x \in Moves, NEW y \in Moves,
               x.key \notin Purse, y.key \notin Purse
        PROVE  Coins(<<s, t, x, y>>, s, t)
    <2>1. /\ <<s, t, x, y>> \in Scripts /\ Len(<<s, t, x, y>>) = 4 /\ <<s, t, x, y>>[1] = s
          /\ <<s, t, x, y>>[2] = t /\ <<s, t, x, y>>[3] = x /\ <<s, t, x, y>>[4] = y
      BY DEF Scripts
    <2>2. \A i \in 3 .. 4 : i = 3 \/ i = 4
      OBVIOUS
    <2> QED BY <1>3, <2>1, <2>2 DEF Coins
  <1>4. ASSUME NEW q, NEW s, NEW t, NEW m \in Moves, Coins(q, s, t), m.key \notin Purse
        PROVE  Coins(Append(q, m), s, t)
    <2>1. q \in Seq(Moves) /\ Len(q) \in Nat /\ Len(q) >= 2 /\ q[1] = s /\ q[2] = t
      BY <1>4 DEF Coins, Scripts
    <2> DEFINE r == Append(q, m)
    <2>2. /\ r \in Seq(Moves) /\ Len(r) = Len(q) + 1 /\ r[Len(q) + 1] = m
          /\ \A i \in 1 .. Len(q) : r[i] = q[i]
      BY <2>1
    <2> HIDE DEF r
    <2>3. r # <<>> /\ Len(r) >= 2 /\ r[1] = s /\ r[2] = t
      BY <2>1, <2>2
    <2>4. ASSUME NEW i \in 3 .. Len(r) PROVE r[i].key \notin Purse
      <3>1. CASE i = Len(q) + 1
        BY <1>4, <2>2, <3>1
      <3>2. CASE i # Len(q) + 1
        <4>1. i \in 3 .. Len(q) /\ i \in 1 .. Len(q)
          BY <2>1, <2>2, <3>2
        <4> QED BY <1>4, <2>2, <4>1 DEF Coins
      <3> QED BY <3>1, <3>2
    <2> QED BY <2>2, <2>3, <2>4 DEF Coins, Scripts, r
  <1>5. ASSUME NEW a \in Accounts, NEW b \in Accounts, NEW j \in Purse, NEW k \in Purse,
               NEW m \in Int, NEW n \in Int
        PROVE  Coins(<<Save(a, j, m), Save(b, k, n)>>, Save(a, j, m), Save(b, k, n))
    BY <1>0, <1>1, MoveTypes
  <1>6. ASSUME NEW u \in Accounts, NEW n \in Int
        PROVE  Coins(<<Save(u, "bmy_money", n), Enlist(u)>>, Save(u, "bmy_money", n), Enlist(u))
    BY <1>0, <1>1, MoveTypes
  <1>7. ASSUME NEW u \in Users, NEW n \in Int
        PROVE  Coins(BailScript(u, n), Save(u, "bmy_money", -n), Save(House, "bmy_money", n))
    <2> DEFINE s == Save(u, "bmy_money", -n)
               t == Save(House, "bmy_money", n)
               x == Erase(u, "freeTime")
    <2>1. s \in Moves /\ t \in Moves /\ x \in Moves
      <3>1. "freeTime" \in Keys /\ -n \in Int
        BY DEF Keys, Dates
      <3> QED BY <1>0, <3>1, Accounted, MoveTypes
    <2>2. x.key \notin Purse
      BY DEF Erase, Save, Purse
    <2>3. BailScript(u, n) = <<s, t, x>>
      BY DEF BailScript
    <2> HIDE DEF s, t, x
    <2>4. Coins(BailScript(u, n), s, t)
      BY <1>2, <2>1, <2>2, <2>3
    <2> QED BY <2>4 DEF s, t
  <1>8. ASSUME NEW u \in Accounts, NEW n \in Int, NEW d \in Int
        PROVE  Coins(Granted(u, n, d), Save(u, "bmy_money", n), Save(u, "lend_money", n))
    <2> DEFINE s == Save(u, "bmy_money", n)
               t == Save(u, "lend_money", n)
               x == SaveDate(u, "lend_time", 0)
               y == SaveDate(u, "back_time", d)
    <2>1. s \in Moves /\ t \in Moves /\ x \in Moves /\ y \in Moves
      <3>1. "lend_time" \in Keys /\ "back_time" \in Keys /\ 0 \in Int
        BY DEF Keys, Dates
      <3> QED BY <1>0, <3>1, MoveTypes
    <2>2. x.key \notin Purse /\ y.key \notin Purse
      BY DEF SaveDate, Purse
    <2>3. Granted(u, n, d) = <<s, t, x, y>>
      BY DEF Granted
    <2> HIDE DEF s, t, x, y
    <2>4. Coins(Granted(u, n, d), s, t)
      BY <1>3, <2>1, <2>2, <2>3
    <2> QED BY <2>4 DEF s, t
  <1>9. ASSUME NEW u \in Accounts, NEW n \in Int
        PROVE  Coins(Repaid(u, n), Save(u, "bmy_money", -n), Erase(u, "lend_money"))
    <2> DEFINE s == Save(u, "bmy_money", -n)
               t == Erase(u, "lend_money")
               x == Erase(u, "lend_time")
               y == Erase(u, "back_time")
    <2>1. s \in Moves /\ t \in Moves /\ x \in Moves /\ y \in Moves
      <3>1. "lend_time" \in Keys /\ "back_time" \in Keys /\ -n \in Int
        BY DEF Keys, Dates
      <3> QED BY <1>0, <3>1, MoveTypes
    <2>2. x.key \notin Purse /\ y.key \notin Purse
      BY DEF Erase, Save, Purse
    <2>3. Repaid(u, n) = <<s, t, x, y>>
      BY DEF Repaid
    <2> HIDE DEF s, t, x, y
    <2>4. Coins(Repaid(u, n), s, t)
      BY <1>3, <2>1, <2>2, <2>3
    <2> QED BY <2>4 DEF s, t
  <1>10. ASSUME NEW u \in Users, NEW n \in Int
         PROVE  Coins(Append(Repaid(u, n), Mark(u)), Save(u, "bmy_money", -n),
                     Erase(u, "lend_money"))
    <2>1. u \in Accounts /\ Mark(u) \in Moves
      BY Accounted, MoveTypes
    <2>2. Mark(u).key \notin Purse
      BY DEF Mark, Save, Purse
    <2>3. Coins(Repaid(u, n), Save(u, "bmy_money", -n), Erase(u, "lend_money"))
      BY <1>9, <2>1
    <2> QED BY <1>4, <2>1, <2>2, <2>3
  <1> QED BY <1>5, <1>6, <1>7, <1>8, <1>9, <1>10

-----------------------------------------------------------------------------
(* What is asked for: each operation has checked what it is about to take. *)
LEMMA TwoPurses ==
  ASSUME Books, Base', NEW w \in Windows, win[w].at # "save", val' = val, amiss' = amiss,
         NEW a \in Accounts, NEW b \in Accounts, NEW j \in Purse, NEW k \in Purse,
         NEW m \in Int, NEW n \in Nat,
         \/ /\ Pays(w, <<Save(a, j, m), Save(b, k, n)>>, "menu")
            /\ loadValue(a, j) + m >= 0
         \/ /\ Saves(w, <<Save(a, j, m), Save(b, k, n)>>, "menu")
            /\ win[w].had + m >= 0,
         ledger' = ledger + m + n
  PROVE  Books'
  <1> DEFINE s == Save(a, j, m)
             t == Save(b, k, n)
  <1>1. Coins(<<s, t>>, s, t) /\ "menu" \in Nexts
    BY PurseScripts DEF Nexts
  <1>2. /\ s.key = j /\ ~s.dated /\ s.who = a /\ s.add = m
        /\ t.key = k /\ ~t.dated /\ t.add = n
    BY DEF Save
  <1>3. loadValue(a, j) = val[a][j]
    BY LoadIs, PurseSup DEF Books, Base
  <1>4. \/ Pays(w, <<s, t>>, "menu") /\ val[a][j] + m >= 0
        \/ Saves(w, <<s, t>>, "menu") /\ win[w].had + m >= 0
    BY <1>3
  <1>6. <<s, t>> \in Scripts /\ <<s, t>>[1] = s
    BY <1>1 DEF Coins
  <1> DEFINE q == <<s, t>>
  <1> HIDE DEF s, t, q
  <1>7. q \in Scripts /\ q[1] = s /\ s.key \in Keys
    BY <1>2, <1>6, PurseSup DEF q
  <1>8. \/ Pays(w, q, "menu") /\ val[a][j] + m >= 0
        \/ Saves(w, q, "menu") /\ win[w].had + m >= 0
    BY <1>4 DEF q
  <1>9. Coins(q, s, t) /\ "menu" \in Nexts
    BY <1>1 DEF q
  <1>5. win'[w].had + s.add >= 0 /\ t.add >= 0
    <2>1. CASE Pays(w, q, "menu") /\ val[a][j] + m >= 0
      <3>1. win'[w].had = val[a][j]
        BY <1>2, <1>7, <1>9, <2>1, HadEffect DEF Books, Base
      <3> QED BY <1>2, <2>1, <3>1
    <2>2. CASE Saves(w, q, "menu") /\ win[w].had + m >= 0
      <3>1. win'[w].had = win[w].had
        BY <1>7, <1>9, <2>2, HadEffect DEF Books, Base
      <3> QED BY <1>2, <2>2, <3>1
    <2> QED BY <1>8, <2>1, <2>2
  <1> QED BY <1>2, <1>5, <1>8, <1>9, PurseBooks

LEMMA TransferBooks ==
  ASSUME Books, NEW w \in Windows, NEW to \in Users, NEW num \in Amounts, Transfer(w, to, num)
  PROVE  Books'
  <1> DEFINE m == -(num + Fee)
  <1>1. /\ Base' /\ val' = val /\ amiss' = amiss /\ win[w].at = "menu" /\ ledger' = ledger - Fee
        /\ Pays(w, <<Save(Me(w), "bmy_money", m), Save(to, "bmy_money", num)>>, "menu")
        /\ loadValue(Me(w), "bmy_money") >= num + Fee
    BY TransferBase DEF Books, Transfer, Asks
  <1>2. /\ Me(w) \in Accounts /\ to \in Accounts /\ num \in Nat /\ Fee \in Nat /\ m \in Int
        /\ "bmy_money" \in Purse /\ ledger \in Int
    BY Accounted, Numbers DEF Books
  <1>3. loadValue(Me(w), "bmy_money") \in Nat
    BY <1>2, LoadIs, PurseSup DEF Books, Base
  <1>4. loadValue(Me(w), "bmy_money") + m >= 0 /\ ledger' = ledger + m + num
    BY <1>1, <1>2, <1>3
  <1> HIDE DEF m
  <1> QED BY <1>1, <1>2, <1>4, TwoPurses

LEMMA DepositBooks ==
  ASSUME Books, NEW w \in Windows, NEW num \in Amounts, Deposit(w, num) \/ Withdraw(w, num)
  PROVE  Books'
  <1> DEFINE m == -num
  <1>1. Base' /\ val' = val /\ amiss' = amiss /\ win[w].at = "menu" /\ ledger' = ledger
    BY DepositBase DEF Books, Deposit, Withdraw, Asks, history
  <1>2. /\ Me(w) \in Accounts /\ num \in Nat /\ m \in Int
        /\ "bmy_money" \in Purse /\ "bmy_credit" \in Purse /\ ledger \in Int
    BY Accounted, Numbers DEF Books
  <1>3. \A k \in Purse : loadValue(Me(w), k) \in Nat
    BY <1>2, LoadIs, PurseSup DEF Books, Base
  <1>4. ledger' = ledger + m + num
    BY <1>1, <1>2
  <1>5. \A k \in Purse : loadValue(Me(w), k) >= num => loadValue(Me(w), k) + m >= 0
    BY <1>2, <1>3
  <1>6. CASE Deposit(w, num)
    <2>1. /\ Pays(w, <<Save(Me(w), "bmy_money", m), Save(Me(w), "bmy_credit", num)>>, "menu")
          /\ loadValue(Me(w), "bmy_money") >= num
      BY <1>6 DEF Deposit
    <2> HIDE DEF m
    <2> QED BY <1>1, <1>2, <1>4, <1>5, <2>1, TwoPurses
  <1>7. CASE Withdraw(w, num)
    <2>1. /\ Pays(w, <<Save(Me(w), "bmy_credit", m), Save(Me(w), "bmy_money", num)>>, "menu")
          /\ loadValue(Me(w), "bmy_credit") >= num
      BY <1>7 DEF Withdraw
    <2> HIDE DEF m
    <2> QED BY <1>1, <1>2, <1>4, <1>5, <2>1, TwoPurses
  <1> QED BY <1>6, <1>7

LEMMA AccuseBooks ==
  ASSUME Books, NEW w \in Windows, NEW who \in Users, Accuse(w, who)
  PROVE  Books'
  <1> DEFINE m == -Fine
  <1>1. /\ Base' /\ Others(w) /\ val' = val /\ amiss' = amiss /\ win[w].at = "ask"
        /\ ledger' = ledger /\ win[w].had >= Fine
    BY AccuseBase DEF Books, Accuse, Kept, history
  <1>2. /\ Me(w) \in Accounts /\ who \in Accounts /\ Fine \in Nat /\ m \in Int
        /\ "bmy_money" \in Purse /\ ledger \in Int
    BY Accounted, Numbers DEF Books
  <1>3. win[w].had \in Nat
    BY DEF Books, Base, Typed, Wins
  <1>4. ledger' = ledger + m + Fine /\ win[w].had + m >= 0
    BY <1>1, <1>2, <1>3
  <1>5. CASE Saves(w, <<Save(Me(w), "bmy_money", m), Save(who, "bmy_money", Fine)>>, "menu")
    <2> HIDE DEF m
    <2> QED BY <1>1, <1>2, <1>4, <1>5, TwoPurses
  <1>6. CASE win' = [win EXCEPT ![w].op = "catch", ![w].who = who, ![w].had = 0]
    <2>1. win[w].todo = <<>> /\ win[w] \in Wins /\ win \in [Windows -> Wins]
      BY <1>1, Idle DEF Books, Base, Typed
    <2>2. win'[w].todo = <<>>
      BY <1>6, <2>1 DEF Wins
    <2>3. Coinless(win'[w]) /\ Coinless(win[w])
      BY <2>1, <2>2 DEF Coinless
    <2> QED BY <1>1, <2>3, CoinlessBooks
  <1> QED BY <1>5, <1>6 DEF Accuse

LEMMA AwayBooks ==
  ASSUME Books, Base', NEW w \in Windows, NEW at \in Places, Others(w), win'[w] = Away(at),
         win[w].at # "save", val' = val, UNCHANGED <<ledger, amiss>>
  PROVE  Books'
  <1>1. win'[w].todo = <<>> /\ win[w].todo = <<>>
    BY AwayType, Idle DEF Books
  <1>2. Coinless(win'[w]) /\ Coinless(win[w])
    BY <1>1 DEF Coinless
  <1> QED BY <1>2, CoinlessBooks

LEMMA BailBooks ==
  ASSUME Books, NEW w \in Windows, Bail(w)
  PROVE  Books'
  <1> DEFINE u   == Me(w)
             num == win[w].num
             s   == Save(u, "bmy_money", -num)
             t   == Save(House, "bmy_money", num)
  <1>1. /\ Base' /\ Others(w) /\ val' = val /\ win[w].at = "bail"
        /\ ledger' = ledger /\ amiss' = amiss
    BY BailBase DEF Books, Kept, Bail, history
  <1>2. /\ num \in Nat /\ u \in Users /\ u \in Accounts /\ ledger \in Int
        /\ "bmy_money" \in Purse /\ {"home", "debt"} \subseteq Places /\ "debt" \in Nexts
    BY Accounted, Numbers DEF Books, Base, Typed, Wins, Places, Nexts
  <1>3. CASE Goes(w, "home")
    <2>1. win'[w] = Away("home")
      BY <1>2, <1>3, GoesEffect DEF Books, Base
    <2> QED BY <1>1, <1>2, <2>1, AwayBooks
  <1>4. CASE ~(loadValue(u, "bmy_money") < num) /\ Pays(w, BailScript(u, num), "debt")
    <2>1. loadValue(u, "bmy_money") = val[u]["bmy_money"] /\ val[u]["bmy_money"] \in Nat
      BY <1>2, LoadIs, PurseSup DEF Books, Base
    <2>2. Coins(BailScript(u, num), s, t)
      BY <1>2, PurseScripts
    <2>3. /\ s.key = "bmy_money" /\ ~s.dated /\ s.who = u /\ s.add = -num
          /\ t.key = "bmy_money" /\ ~t.dated /\ t.add = num
      BY DEF Save
    <2>6. /\ BailScript(u, num) \in Scripts /\ BailScript(u, num)[1] = s /\ "bmy_money" \in Keys
      BY <2>2, PurseSup DEF Coins, Purse
    <2> HIDE DEF s, t
    <2>7. win'[w].had = val[u]["bmy_money"]
      BY <1>2, <1>4, <2>3, <2>6, HadEffect DEF Books, Base
    <2>4. /\ win'[w].had + s.add >= 0 /\ t.add >= 0 /\ s.key \in Purse /\ t.key \in Purse
          /\ ledger' = ledger + s.add + t.add
      BY <1>1, <1>2, <1>4, <2>1, <2>3, <2>7
    <2>5. ledger' = ledger + s.add + (IF t.key \in Purse THEN t.add ELSE 0)
      BY <2>4
    <2> QED BY <1>1, <1>2, <1>4, <2>2, <2>3, <2>4, <2>5, PurseBooks
  <1> QED BY <1>3, <1>4 DEF Bail, BailScript

\* A debt is paid with money that is there.
LEMMA RepaidBooks ==
  ASSUME Books, Base', NEW w \in Windows, win[w].at # "save", val' = val, amiss' = amiss,
         NEW q, q = Repaid(Me(w), win[w].seen) \/ q = Append(Repaid(Me(w), win[w].seen), Mark(Me(w))),
         Pays(w, q, "menu"), ~(loadValue(Me(w), "bmy_money") < win[w].seen),
         ledger' = ledger - win[w].seen
  PROVE  Books'
  <1> DEFINE u == Me(w)
             n == win[w].seen
             s == Save(u, "bmy_money", -n)
             t == Erase(u, "lend_money")
  <1>1. /\ n \in Nat /\ u \in Users /\ u \in Accounts /\ ledger \in Int
        /\ "bmy_money" \in Purse /\ "menu" \in Nexts
    BY Accounted, Numbers DEF Books, Base, Typed, Wins, Nexts
  <1>2. loadValue(u, "bmy_money") = val[u]["bmy_money"] /\ val[u]["bmy_money"] \in Nat
    BY <1>1, LoadIs, PurseSup DEF Books, Base
  <1>3. Coins(q, s, t)
    <2>1. Coins(Repaid(u, n), s, t) /\ Coins(Append(Repaid(u, n), Mark(u)), s, t)
      <3> n \in Int
        BY <1>1
      <3> HIDE DEF n, u
      <3> QED BY <1>1, PurseScripts
    <2> HIDE DEF s, t
    <2>2. q = Repaid(u, n) \/ q = Append(Repaid(u, n), Mark(u))
      OBVIOUS
    <2> QED BY <2>1, <2>2
  <1>4. s.key = "bmy_money" /\ ~s.dated /\ s.who = u /\ s.add = -n /\ t.key \notin Purse
    BY DEF Save, Erase, Purse
  <1> HIDE DEF s, t
  <1>7. win'[w].had = val[u]["bmy_money"]
    <2>1. q \in Scripts /\ q[1] = s /\ s.key \in Keys
      BY <1>3, <1>4, PurseSup DEF Coins, Purse
    <2> QED BY <1>1, <1>4, <2>1, HadEffect DEF Books, Base
  <1>5. win'[w].had + s.add >= 0 /\ s.key \in Purse /\ ledger' = ledger + s.add + 0
    BY <1>1, <1>2, <1>4, <1>7
  <1>6. ledger' = ledger + s.add + (IF t.key \in Purse THEN t.add ELSE 0)
    BY <1>4, <1>5
  <1> QED BY <1>1, <1>3, <1>4, <1>5, <1>6, PurseBooks

LEMMA DueBooks ==
  ASSUME Books, NEW w \in Windows, Due(w)
  PROVE  Books'
  <1>1. Base' /\ Others(w) /\ val' = val /\ win[w].at = "due" /\ amiss' = amiss
    BY DueBase DEF Books, Kept, Due
  <1>2. CASE Goes(w, "home") /\ ledger' = ledger
    <2>1. win'[w] = Away("home") /\ "home" \in Places
      BY <1>2, GoesEffect DEF Books, Base, Places
    <2> QED BY <1>1, <1>2, <2>1, AwayBooks
  <1>3. CASE /\ ~(loadValue(Me(w), "bmy_money") < win[w].seen)
             /\ Pays(w, Append(Repaid(Me(w), win[w].seen), Mark(Me(w))), "menu")
             /\ ledger' = ledger - win[w].seen
    <2> DEFINE q == Append(Repaid(Me(w), win[w].seen), Mark(Me(w)))
    <2>1. q = Append(Repaid(Me(w), win[w].seen), Mark(Me(w))) /\ Pays(w, q, "menu")
      BY <1>3
    <2> HIDE DEF q
    <2> QED BY <1>1, <1>3, <2>1, RepaidBooks
  <1> QED BY <1>2, <1>3 DEF Due

LEMMA RepayBooks ==
  ASSUME Books, NEW w \in Windows, Repay(w)
  PROVE  Books'
  <1>1. Base' /\ Others(w) /\ val' = val /\ win[w].at = "ask" /\ amiss' = amiss
    BY RepayBase DEF Books, Kept, Repay
  <1>2. CASE Goes(w, "menu") /\ ledger' = ledger
    <2>1. win'[w] = Away("menu") /\ "menu" \in Places
      BY <1>2, GoesEffect DEF Books, Base, Places
    <2> QED BY <1>1, <1>2, <2>1, AwayBooks
  <1>3. CASE /\ ~(loadValue(Me(w), "bmy_money") < win[w].seen)
             /\ Pays(w, Repaid(Me(w), win[w].seen), "menu")
             /\ ledger' = ledger - win[w].seen
    <2> DEFINE q == Repaid(Me(w), win[w].seen)
    <2>1. q = Repaid(Me(w), win[w].seen) /\ Pays(w, q, "menu")
      BY <1>3
    <2> HIDE DEF q
    <2> QED BY <1>1, <1>3, <2>1, RepaidBooks
  <1> QED BY <1>2, <1>3 DEF Repay

LEMMA LoanBooks ==
  ASSUME Books, NEW w \in Windows, NEW num \in Amounts, NEW days \in Days, NEW u \in Users,
         \/ TakeLoan(w, num, days) /\ u = Me(w)
         \/ SpecialLoan(w, num, days) /\ u = win[w].who
  PROVE  Books'
  <1> DEFINE q == Granted(u, num, days)
             s == Save(u, "bmy_money", num)
             t == Save(u, "lend_money", num)
  <1>1. Base' /\ val' = val /\ win[w].at # "save"
    BY LoanBase DEF Books, Kept
  <1>2. amiss' = amiss /\ ledger' = ledger + num /\ Saves(w, q, "menu")
    BY DEF TakeLoan, SpecialLoan
  <1>3. /\ num \in Nat /\ days \in Int /\ u \in Accounts /\ ledger \in Int
        /\ "bmy_money" \in Purse /\ "menu" \in Nexts
    BY Accounted, Numbers DEF Books, Nexts
  <1>4. val[u]["bmy_money"] \in Nat
    BY <1>3, LoadIs, PurseSup DEF Books, Base
  <1>5. Coins(q, s, t)
    BY <1>3, PurseScripts
  <1>6. s.key = "bmy_money" /\ ~s.dated /\ s.who = u /\ s.add = num /\ t.key \notin Purse
    BY DEF Save, Purse
  <1> HIDE DEF s, t, q
  <1>7. s.add >= 0 /\ s.key \in Purse /\ ledger' = ledger + s.add + 0
    BY <1>2, <1>3, <1>4, <1>6
  <1>8. ledger' = ledger + s.add + (IF t.key \in Purse THEN t.add ELSE 0)
    BY <1>6, <1>7
  <1> QED BY <1>1, <1>2, <1>3, <1>5, <1>6, <1>7, <1>8, PurseBooks

LEMMA SalaryBooks ==
  ASSUME Books, NEW w \in Windows, TakeSalary(w)
  PROVE  Books'
  <1> DEFINE u == Me(w)
             s == Save(u, "bmy_money", Salary)
             t == Enlist(u)
             q == <<s, t>>
  <1>1. Base' /\ val' = val /\ win[w].at # "save"
    BY SalaryBase DEF Books, Kept
  <1>2. amiss' = amiss /\ ledger' = ledger + Salary /\ Saves(w, q, "menu")
    BY DEF TakeSalary
  <1>3. /\ Salary \in Nat /\ u \in Accounts /\ ledger \in Int
        /\ "bmy_money" \in Purse /\ "menu" \in Nexts
    BY Accounted, Numbers DEF Books, Nexts
  <1>4. val[u]["bmy_money"] \in Nat
    BY <1>3, LoadIs, PurseSup DEF Books, Base
  <1>5. Coins(q, s, t)
    BY <1>3, PurseScripts
  <1>6. s.key = "bmy_money" /\ ~s.dated /\ s.who = u /\ s.add = Salary /\ t.key \notin Purse
    BY DEF Save, Enlist, Purse
  <1> HIDE DEF s, t, q
  <1>7. s.add >= 0 /\ s.key \in Purse /\ ledger' = ledger + s.add + 0
    BY <1>2, <1>3, <1>4, <1>6
  <1>8. ledger' = ledger + s.add + (IF t.key \in Purse THEN t.add ELSE 0)
    BY <1>6, <1>7
  <1> QED BY <1>1, <1>2, <1>3, <1>5, <1>6, <1>7, <1>8, PurseBooks

LEMMA CoinlessIs ==
  /\ \A x : x.todo = <<>> => Coinless(x)
  /\ \A x, s : x.todo = <<s>> /\ s.key \notin Purse => Coinless(x)
  /\ \A at \in Places : Coinless(Away(at))
  BY AwayType DEF Coinless

\* A step of a window that is not saving, and does not begin to with money.
LEMMA IdleBooks ==
  ASSUME Books, Base', NEW w \in Windows, Others(w), Kept, win[w].at # "save",
         UNCHANGED <<ledger, amiss>>, Coinless(win'[w])
  PROVE  Books'
  <1>1. Coinless(win[w]) /\ val' = val
    BY Idle, CoinlessIs DEF Books, Kept
  <1> QED BY <1>1, CoinlessBooks

LEMMA DebtBooks ==
  ASSUME Books, NEW w \in Windows, Debt(w)
  PROVE  Books'
  <1>1. /\ Base' /\ Others(w) /\ Kept /\ win[w].at = "debt" /\ UNCHANGED <<ledger, amiss>>
        /\ \/ win'[w].todo = <<>>
           \/ win'[w].todo = DebtScript(Me(w), val[Me(w)]["back_time"])
    BY DebtBase DEF Books, Debt, history
  <1>2. CASE win'[w].todo = <<>>
    BY <1>1, <1>2, CoinlessIs, IdleBooks
  <1>3. CASE win'[w].todo = DebtScript(Me(w), val[Me(w)]["back_time"])
    <2> DEFINE d == SaveDate(Me(w), "back_time", 1)
               m == Mark(Me(w))
    <2>1. win'[w].todo = Append(<<d>>, m) \/ win'[w].todo = Append(<<>>, m)
      BY <1>3 DEF DebtScript
    <2>2. d.key \notin Purse /\ m.key \notin Purse
      BY DEF SaveDate, Mark, Save, Purse
    <2>3. d \in Moves /\ m \in Moves
      <3>1. Me(w) \in Accounts /\ "back_time" \in Keys
        BY Accounted DEF Keys, Dates
      <3> QED BY <3>1, MoveTypes
    <2> HIDE DEF d, m
    <2>4. ASSUME NEW far \in Seq(Moves), \A i \in 1 .. Len(far) : far[i].key \notin Purse
          PROVE  \A i \in 1 .. Len(Append(far, m)) : Append(far, m)[i].key \notin Purse
      <3> DEFINE q == Append(far, m)
      <3>1. /\ Len(q) = Len(far) + 1 /\ q[Len(far) + 1] = m /\ Len(far) \in Nat
            /\ \A i \in 1 .. Len(far) : q[i] = far[i]
        BY <2>3
      <3> HIDE DEF q
      <3>2. \A i \in 1 .. Len(q) : q[i].key \notin Purse
        BY <2>2, <2>4, <3>1
      <3> QED BY <3>2 DEF q
    <2>5. <<d>> \in Seq(Moves) /\ \A i \in 1 .. Len(<<d>>) : <<d>>[i].key \notin Purse
      <3>1. <<d>> \in Seq(Moves) /\ Len(<<d>>) = 1 /\ <<d>>[1] = d
        BY <2>3
      <3> QED BY <2>2, <3>1
    <2>6. <<>> \in Seq(Moves) /\ \A i \in 1 .. Len(<<>>) : <<>>[i].key \notin Purse
      OBVIOUS
    <2>7. Coinless(win'[w])
      <3>1. CASE win'[w].todo = Append(<<d>>, m)
        BY <2>4, <2>5, <3>1 DEF Coinless
      <3>2. CASE win'[w].todo = Append(<<>>, m)
        BY <2>4, <2>6, <3>2 DEF Coinless
      <3> QED BY <2>1, <3>1, <3>2
    <2>8. win[w].at # "save"
      BY <1>1
    <2> QED BY <1>1, <2>7, <2>8, IdleBooks
  <1> QED BY <1>1, <1>2, <1>3

LEMMA ChooseBooks ==
  ASSUME Books, NEW w \in Windows, ChooseRepay(w)
  PROVE  Books'
  <1>1. /\ Base' /\ Others(w) /\ Kept /\ win[w].at = "loans" /\ UNCHANGED <<ledger, amiss>>
        /\ win \in [Windows -> Wins] /\ win[w] \in Wins
    BY ChooseBase DEF Books, ChooseRepay, Base, Typed
  <1>2. win'[w].todo = Redated(Me(w)) \/ win'[w].todo = win[w].todo
    BY <1>1 DEF ChooseRepay, Saves, Wins
  <1>3. Redated(Me(w)) \in {<<>>, <<SaveDate(Me(w), "back_time", 1)>>}
    BY DEF Redated
  <1>4. SaveDate(Me(w), "back_time", 1).key \notin Purse
    BY DEF SaveDate, Purse
  <1>5. win[w].todo = <<>> /\ win[w].at # "save"
    BY <1>1, Idle DEF Books
  <1>6. Coinless(win'[w])
    BY <1>2, <1>3, <1>4, <1>5, CoinlessIs
  <1> QED BY <1>1, <1>5, <1>6, IdleBooks

LEMMA WalkBooks ==
  ASSUME Books, NEW w \in Windows,
         \/ LogIn(w) \/ Decline(w) \/ Knock(w) \/ Leave(w)
         \/ ViewLoans(w) \/ AskRepay(w) \/ AskSalary(w) \/ Suspect(w)
         \/ \E who \in Users : AskSpecialLoan(w, who)
         \/ \E days \in Days : Catch(w, days) \/ Surrender(w, days)
  PROVE  Books'
  <1>0. Base /\ {"menu", "home", "off"} \subseteq Places
    BY DEF Books, Places
  <1>1. \A u, n : /\ Erase(u, "freeTime").key \notin Purse /\ Erase(u, "multex").key \notin Purse
                  /\ SaveDate(u, "freeTime", n).key \notin Purse
    BY DEF Erase, Save, SaveDate, Purse
  <1>2. CASE LogIn(w) \/ Decline(w)
    <2>1. Base' /\ Others(w) /\ Kept /\ Coinless(win'[w])
      BY <1>0, <1>2, AwayBase, CoinlessIs
    <2>2. win[w].at # "save" /\ UNCHANGED <<ledger, amiss>>
      BY <1>2 DEF LogIn, Decline, history
    <2> QED BY <2>1, <2>2, IdleBooks
  <1>3. CASE Knock(w)
    <2>1. /\ Base' /\ Others(w) /\ Kept /\ win[w].at = "home"
          /\ \/ win'[w].todo = <<Erase(Me(w), "freeTime")>>
             \/ win'[w].todo = <<SaveDate(Me(w), "freeTime", 1)>>
             \/ win'[w].todo = <<>>
      BY <1>0, <1>3, KnockBase
    <2>2. win[w].at # "save" /\ UNCHANGED <<ledger, amiss>> /\ Coinless(win'[w])
      BY <1>1, <1>3, <2>1, CoinlessIs DEF Knock
    <2> QED BY <2>1, <2>2, IdleBooks
  <1>4. CASE Leave(w)
    <2>1. /\ Base' /\ Others(w) /\ Kept /\ win[w].at = "menu"
          /\ win'[w].todo = <<Erase(Me(w), "multex")>>
      BY <1>0, <1>4, LeaveBase
    <2>2. win[w].at # "save" /\ UNCHANGED <<ledger, amiss>> /\ Coinless(win'[w])
      BY <1>1, <1>4, <2>1, CoinlessIs DEF Leave, history
    <2> QED BY <2>1, <2>2, IdleBooks
  <1>5. CASE ViewLoans(w) \/ AskRepay(w) \/ AskSalary(w) \/ Suspect(w)
    <2>1. /\ Base' /\ Others(w) /\ Kept /\ win[w].at \in {"menu", "repay"}
          /\ Coinless(win'[w])
      BY <1>0, <1>5, ViewBase, AskRepayBase, AskSalaryBase, SuspectBase, CoinlessIs
    <2>2. win[w].at # "save" /\ UNCHANGED <<ledger, amiss>>
      BY <1>5, <2>1 DEF ViewLoans, AskRepay, AskSalary, Suspect, history
    <2> QED BY <2>1, <2>2, IdleBooks
  <1>6. ASSUME NEW who \in Users, AskSpecialLoan(w, who) PROVE Books'
    <2>1. Base' /\ Others(w) /\ Kept /\ win[w].at = "menu" /\ win'[w].todo = <<>>
      BY <1>0, <1>6, AskSpecialBase
    <2>2. win[w].at # "save" /\ UNCHANGED <<ledger, amiss>> /\ Coinless(win'[w])
      BY <1>6, <2>1, CoinlessIs DEF AskSpecialLoan, history
    <2> QED BY <2>1, <2>2, IdleBooks
  <1>7. ASSUME NEW days \in Days, Catch(w, days) PROVE Books'
    <2>1. /\ Base' /\ Others(w) /\ Kept /\ win[w].at = "ask"
          /\ win'[w].todo = <<SaveDate(win[w].who, "freeTime", days)>>
      BY <1>0, <1>7, CatchBase
    <2>2. win[w].at # "save" /\ UNCHANGED <<ledger, amiss>> /\ Coinless(win'[w])
      BY <1>1, <1>7, <2>1, CoinlessIs DEF Catch
    <2> QED BY <2>1, <2>2, IdleBooks
  <1>8. ASSUME NEW days \in Days, Surrender(w, days) PROVE Books'
    <2>1. /\ Base' /\ Others(w) /\ Kept /\ win[w].at = "menu"
          /\ \/ win'[w] = Away("off")
             \/ win'[w].todo = <<SaveDate(Me(w), "freeTime", days)>>
      BY <1>0, <1>8, SurrenderBase
    <2>2. win[w].at # "save" /\ UNCHANGED <<ledger, amiss>> /\ Coinless(win'[w])
      BY <1>0, <1>1, <1>8, <2>1, CoinlessIs DEF Surrender
    <2> QED BY <2>1, <2>2, IdleBooks
  <1> QED BY <1>2, <1>3, <1>4, <1>5, <1>6, <1>7, <1>8

LEMMA SameBooks ==
  ASSUME Books, Base', UNCHANGED <<win, val, ledger, amiss>>
  PROVE  Books'
  BY DEF Books, Sane, Covered, Tallies

LEMMA InitBooks ==
  ASSUME Init
  PROVE  Books
  <1>1. Base
    BY InitBase
  <1>2. \A w \in Windows : win[w].todo = <<>>
    <2>1. \A w \in Windows : \E at \in {"home", "unused"} : win[w] = Away(at)
      BY DEF Init
    <2> QED BY <2>1, AwayType DEF Places
  <1>3. \A w \in Windows : Sane(win[w]) /\ Covered(win[w])
    BY <1>2 DEF Sane, Covered
  <1>4. Sum(Tallies, Windows) = 0
    <2>1. Tallies = [w \in Windows |-> 0]
      <3>1. <<>> \in Seq(Moves)
        OBVIOUS
      <3>2. \A w \in Windows : Owes(win[w].todo) = 0
        BY <1>2, <3>1, OwesType
      <3> QED BY <3>2 DEF Tallies
    <2>2. IsFiniteSet(Windows)
      BY MoneyAssumption
    <2> QED BY <2>1, <2>2, SumZero
  <1>5. Total(val) \in Int /\ ledger = Total(val)
    BY <1>1, TalliesType DEF Init
  <1> QED BY <1>1, <1>3, <1>4, <1>5 DEF Books

LEMMA NextBooks ==
  ASSUME Books, [Next]_vars
  PROVE  Books'
  <1>1. Base /\ Base'
    BY NextBase DEF Books
  <1>2. ASSUME NEW w \in Windows, Operate(w) PROVE Books'
    <2>1. ASSUME NEW num \in Amounts, NEW to \in Users, Transfer(w, to, num) PROVE Books'
      BY <2>1, TransferBooks
    <2>2. ASSUME NEW num \in Amounts, Deposit(w, num) \/ Withdraw(w, num) PROVE Books'
      BY <2>2, DepositBooks
    <2>3. ASSUME NEW num \in Amounts, NEW days \in Days, TakeLoan(w, num, days) PROVE Books'
      BY <2>3, LoanBooks, Accounted
    <2>4. ASSUME NEW num \in Amounts, NEW days \in Days, SpecialLoan(w, num, days) PROVE Books'
      <3>1. win[w].who \in Users
        BY <1>1, <2>4, LenderKnown DEF SpecialLoan
      <3> QED BY <2>4, <3>1, LoanBooks
    <2>5. CASE PayDay(w)
      <3>1. UNCHANGED <<win, val, ledger, amiss>>
        BY <2>5 DEF PayDay
      <3> QED BY <1>1, <3>1, SameBooks
    <2>6. ASSUME NEW who \in Users, AskSpecialLoan(w, who) \/ Accuse(w, who) PROVE Books'
      BY <2>6, WalkBooks, AccuseBooks
    <2>7. ASSUME NEW days \in Days, Catch(w, days) \/ Surrender(w, days) PROVE Books'
      BY <2>7, WalkBooks
    <2>8. CASE ViewLoans(w) \/ AskRepay(w) \/ AskSalary(w) \/ Suspect(w)
      BY <2>8, WalkBooks
    <2> QED BY <1>2, <2>1, <2>2, <2>3, <2>4, <2>5, <2>6, <2>7, <2>8, ChooseBooks, RepayBooks,
               SalaryBooks DEF Operate
  <1>3. ASSUME NEW w \in Windows, Load(w) \/ Store(w) \/ List(w) \/ Gone(w) PROVE Books'
    BY <1>3, LoadBooks, StoreBooks, ListBooks, GoneBooks
  <1>4. ASSUME NEW w \in Windows, LogIn(w) \/ Knock(w) \/ Leave(w) \/ Decline(w) PROVE Books'
    BY <1>4, WalkBooks
  <1>5. ASSUME NEW w \in Windows, Bail(w) \/ Debt(w) \/ Due(w) PROVE Books'
    BY <1>5, BailBooks, DebtBooks, DueBooks
  <1>6. CASE Tick \/ UNCHANGED vars
    <2>1. UNCHANGED <<win, val, ledger, amiss>>
      BY <1>6 DEF Tick, vars, history
    <2> QED BY <1>1, <2>1, SameBooks
  <1> QED BY <1>2, <1>3, <1>4, <1>5, <1>6 DEF Next

\* The bounds on requests and lost connections.
Counted == asks \in 0 .. MaxAsks /\ gone \in 0 .. MaxGone

LEMMA NextCounted ==
  ASSUME Counted, [Next]_vars
  PROVE  Counted'
  <1>1. MaxAsks \in Nat /\ MaxGone \in Nat
    BY MoneyAssumption
  <1>2. \/ asks' = asks
        \/ asks' = asks + 1 /\ asks < MaxAsks
    <2>1. ASSUME NEW w \in Windows, Operate(w)
          PROVE  asks' = asks \/ (asks' = asks + 1 /\ asks < MaxAsks)
      BY <2>1 DEF Operate, Asks, Transfer, Deposit, Withdraw, TakeLoan, SpecialLoan, ViewLoans,
                  ChooseRepay, AskRepay, Repay, AskSalary, TakeSalary, PayDay, AskSpecialLoan,
                  Suspect, Accuse, Catch, Surrender
    <2>2. ASSUME NEW w \in Windows,
                 \/ Load(w) \/ Store(w) \/ List(w) \/ Gone(w) \/ LogIn(w) \/ Knock(w) \/ Bail(w)
                 \/ Debt(w) \/ Due(w) \/ Leave(w) \/ Decline(w)
          PROVE  asks' = asks
      BY <2>2 DEF Load, Store, List, Gone, LogIn, Knock, Bail, Debt, Due, Leave, Decline
    <2>3. Tick \/ UNCHANGED vars => asks' = asks
      BY DEF Tick, vars
    <2> QED BY <2>1, <2>2, <2>3 DEF Next
  <1>3. \/ gone' = gone
        \/ gone' = gone + 1 /\ gone < MaxGone
    <2>1. ASSUME NEW w \in Windows, Operate(w)
          PROVE  gone' = gone
      BY <2>1 DEF Operate, Transfer, Deposit, Withdraw, TakeLoan, SpecialLoan, ViewLoans,
                  ChooseRepay, AskRepay, Repay, AskSalary, TakeSalary, PayDay, AskSpecialLoan,
                  Suspect, Accuse, Catch, Surrender
    <2>2. ASSUME NEW w \in Windows,
                 \/ Load(w) \/ Store(w) \/ List(w) \/ LogIn(w) \/ Knock(w) \/ Bail(w)
                 \/ Debt(w) \/ Due(w) \/ Leave(w) \/ Decline(w)
          PROVE  gone' = gone
      BY <2>2 DEF Load, Store, List, LogIn, Knock, Bail, Debt, Due, Leave, Decline
    <2>3. ASSUME NEW w \in Windows, Gone(w) PROVE gone' = gone + 1 /\ gone < MaxGone
      BY <2>3 DEF Gone
    <2>4. Tick \/ UNCHANGED vars => gone' = gone
      BY DEF Tick, vars
    <2> QED BY <2>1, <2>2, <2>3, <2>4 DEF Next
  <1>4. asks' \in 0 .. MaxAsks
    BY <1>1, <1>2 DEF Counted
  <1>5. gone' \in 0 .. MaxGone
    BY <1>1, <1>3 DEF Counted
  <1> QED BY <1>4, <1>5 DEF Counted

\* BooksHold: every number keeps to its limits, and while no saves are under
\* way all the money there is comes to what loans, salaries, fees and
\* repayments should have left, although every sum is moved by two saves that
\* take no lock. Only saves that overlapped, were cut off or went over
\* MAX_MONEY_NUM change that, and payments with money that another window spent
\* after the check for it (money_bank, check_allow_in, money_cop).
THEOREM BooksHold == Spec => []BooksBalance
  <1>1. Books /\ Counted => BooksBalance
    <2> SUFFICES ASSUME Books, Counted PROVE BooksBalance
      OBVIOUS
    <2>1. Base /\ Typed
      BY DEF Books, Base
    <2>2. TypeOK
      <3>1. \A w \in Windows : /\ win[w].at \in Places
                               /\ (win[w].at = "save") <=> (win[w].todo # <<>>)
        BY <2>1 DEF Base, Typed, Wins, Fits
      <3> QED BY <2>1, <3>1 DEF TypeOK, Typed, Places, Counted, Books
    <2>3. ASSUME Settled, ~amiss PROVE Total(val) = ledger
      <3>1. Sum(Tallies, Windows) = 0
        <4>1. <<>> \in Seq(Moves)
          OBVIOUS
        <4>2. \A w \in Windows : Owes(win[w].todo) = 0
          BY <2>3, <4>1, OwesType DEF Settled
        <4>3. Tallies = [w \in Windows |-> 0]
          BY <4>2 DEF Tallies
        <4> QED BY <4>3, MoneyAssumption, SumZero
      <3>2. Total(val) + Sum(Tallies, Windows) = ledger /\ Total(val) \in Int
        BY <2>1, <2>3, TalliesType DEF Books
      <3> QED BY <3>1, <3>2
    <2> QED BY <2>2, <2>3 DEF BooksBalance
  <1>2. Init => Books /\ Counted
    <2>1. Init => Counted
      BY MoneyAssumption DEF Init, Counted
    <2> QED BY <2>1, InitBooks
  <1>3. Books /\ Counted /\ [Next]_vars => Books' /\ Counted'
    BY NextBooks, NextCounted
  <1> QED BY <1>1, <1>2, <1>3, PTL DEF Spec
=============================================================================
