----------------------------- MODULE MoneyBank -----------------------------
(***************************************************************************)
(* The money centre of src/bbs/moneycenter.c: who may come in, the bank,   *)
(* and the arrests of the police.                                          *)
(*                                                                         *)
(* Money, loans, dates and terms are numbers in a file per user. One       *)
(* operation changes them: saveValue, which loads a number, adds to it and *)
(* stores the sum, cut to an int and to its limits, and takes no lock over *)
(* the two. Dates are added like everything else, so a date is set by      *)
(* erasing the old one first; where that is forgotten the sum of two dates *)
(* does not fit into an int and counts as zero.                            *)
(*                                                                         *)
(* Each telnet window of a user is a process. Between two waits (a         *)
(* question to the user, a saveValue) its loads are one step; the load and *)
(* the store of each saveValue are two more, so what a check has found may *)
(* have changed before the number is loaded that it was about.             *)
(***************************************************************************)
EXTENDS Integers, Sequences, FiniteSets, SequencesExt

CONSTANTS
    Users,
    Windows,      \* telnet processes
    Owner,        \* window -> its user
    Banker,       \* manager of the bank
    Police,       \* police officers
    MaxMoney,     \* MAX_MONEY_NUM
    MaxMultex,    \* 9
    IntMax,       \* the largest int
    TimeSup,      \* the limit of dates (2000000000)
    Epoch,        \* time(0) when the behaviour starts
    Far,          \* days ahead beyond which a date is taken for a mistake
    Amounts,      \* sums that are asked for
    Fee,          \* of a transfer
    Fine,         \* what an innocent suspect gets
    Salary,
    Days,         \* lengths of loans and terms
    Setups,       \* the windows used, the numbers, isSalaryTime and gone to start with
    MaxGone,      \* bound on the connections that drop, less gone at the start
    MaxTime,      \* bound on the days that pass
    MaxAsks       \* bound on what is asked for

House == "BMYpolice"      \* the account that bail is paid to
Accounts == Users \cup {House}

Dates == {"lend_time", "back_time", "freeTime"}
Keys  == {"bmy_money", "bmy_credit", "lend_money", "multex"} \cup Dates

Sup(key) ==
    CASE key \in Dates -> TimeSup
      [] key = "multex" -> MaxMultex
      [] OTHER -> MaxMoney

ASSUME MoneyAssumption ==
    /\ House \notin Users
    /\ Owner \in [Windows -> Users] /\ IsFiniteSet(Windows) /\ IsFiniteSet(Users)
    /\ Banker \in Users /\ Police \subseteq Users
    /\ {MaxMoney, MaxMultex, IntMax, TimeSup, Epoch, Far, Fee, Fine, Salary,
        MaxTime, MaxAsks, MaxGone} \subseteq Nat
    /\ Amounts \subseteq Nat \ {0} /\ Days \subseteq Nat \ {0}
    /\ MaxMoney * 2 <= IntMax /\ MaxMultex \in 1..IntMax - 1 /\ TimeSup <= IntMax
    /\ \A d \in Days : d <= Far /\ Epoch + MaxTime + d <= TimeSup
    /\ 2 * Epoch > IntMax + Far    \* so since 2004
    /\ \A setup \in Setups : /\ setup.crew \subseteq Windows
                             /\ setup.isSalaryTime \in BOOLEAN /\ setup.gone \in 0..MaxGone
    /\ \A start \in {setup.val : setup \in Setups}, u \in Accounts :
           /\ start \in [Accounts -> [Keys -> Nat]]
           /\ \A key \in Keys : start[u][key] \in 0..Sup(key)
           /\ \A key \in Dates : start[u][key] \in {0} \cup (Epoch - Far + 1)..(Epoch + Far)
           /\ IF start[u]["lend_money"] = 0
              THEN start[u]["lend_time"] = 0 /\ start[u]["back_time"] = 0
              ELSE 0 < start[u]["lend_time"] /\ start[u]["lend_time"] < start[u]["back_time"]

VARIABLES
    val,          \* account -> key -> number in its file
    salary_list,  \* users who had their salary
    isSalaryTime,
    win,          \* window -> where its process is, and its locals
    now,          \* days since Epoch
    asks,         \* requests so far
    gone,         \* connections dropped so far
    ledger,       \* history: what all the money should come to
    amiss,        \* history: money went where no operation sent it
    muddled,      \* history: users whose dates of loans were mixed up
    seized,       \* history: users arrested twice at a time
    slipped,      \* history: users who came in with two windows at a time,
                  \* or left between a salary and its entry in the list
    paid          \* history: user -> salaries since the last pay day

history == <<ledger, amiss, muddled, seized, slipped, paid>>
vars == <<val, salary_list, isSalaryTime, win, now, asks, gone, history>>

time == Epoch + now

\* limitValue takes an int: a larger sum wraps around, and what is negative
\* then counts as nothing. Mutant: a negative sum is kept.
LimitTop(value, sup) == IF value > sup THEN sup ELSE value
limitValue(value, sup) ==
    LET int == IF value > IntMax THEN value - 2 * (IntMax + 1) ELSE value
    IN  CASE int > sup -> sup
          [] int < 0   -> 0
          [] OTHER     -> int

loadValue(u, key) == limitValue(val[u][key], Sup(key))

\* A saveValue still to be made: add valueToAdd, and time(0) for a date.
Save(u, key, add)    == [who |-> u, key |-> key, add |-> add, dated |-> FALSE]
SaveDate(u, key, add) == [who |-> u, key |-> key, add |-> add, dated |-> TRUE]
Erase(u, key)        == Save(u, key, -Sup(key))
Enlist(u)            == Save(u, "salary_list", 0)

NoReg == [base |-> -1, sum |-> -1]
Away(at) == [at |-> at, op |-> "none", who |-> "none", num |-> 0, days |-> 0, seen |-> 0,
             todo |-> <<>>, had |-> 0, reg |-> NoReg, next |-> "menu"]

Me(w) == Owner[w]
Open(u) == {w \in Windows : Owner[w] = u /\ win[w].at \notin {"off", "unused"}}

\* What a saveValue has loaded, and what it will store.
Loaded(s) ==
    LET base == loadValue(s.who, s.key)
    IN  [base |-> base, sum |-> base + s.add + (IF s.dated THEN time ELSE 0)]

Goes(w, at) == win' = [win EXCEPT ![w] = Away(at)]
Saves(w, todo, next) ==
    win' = [win EXCEPT ![w].at = "save", ![w].todo = todo, ![w].reg = NoReg, ![w].next = next]

\* The same after a check of the number that the first of them is about. had
\* keeps what was found, for the history.
Pays(w, todo, next) ==
    LET found == loadValue(Head(todo).who, Head(todo).key)
    IN  win' = [win EXCEPT ![w].at = "save", ![w].todo = todo, ![w].reg = NoReg,
                           ![w].next = next, ![w].had = found]

\* Windows with saves under way on one of the keys of a user.
Busy(u, keys) ==
    {w \in Windows : \E i \in DOMAIN win[w].todo :
         win[w].todo[i].who = u /\ win[w].todo[i].key \in keys}

----------------------------------------------------------------------------
(* saveValue: a load and a store.                                          *)

\* On to the rest of the script, or to what follows it.
Saved(w) ==
    LET rest == Tail(win[w].todo) IN
    CASE rest # <<>> -> [win[w] EXCEPT !.todo = rest, !.reg = NoReg]
      [] rest = <<>> /\ win[w].next \in {"bail", "debt", "repay"} ->
            [win[w] EXCEPT !.todo = <<>>, !.reg = NoReg, !.at = win[w].next, !.next = "menu"]
      [] OTHER -> Away(win[w].next)

\* History: somebody else stored between this load and this store.
Lost(w) == val[Head(win[w].todo).who][Head(win[w].todo).key] # win[w].reg.base

Purse == {"bmy_money", "bmy_credit"}
Loan  == {"lend_money", "lend_time", "back_time"}

\* The history knows when the money that a check has found was spent before it
\* is paid with.
Load(w) ==
    LET s   == Head(win[w].todo)
        reg == Loaded(s)
    IN
    /\ win[w].at = "save" /\ s.key \in Keys /\ win[w].reg = NoReg
    /\ win' = [win EXCEPT ![w].reg = reg, ![w].had = 0]
    /\ amiss' = (amiss \/ (s.key \in Purse /\ reg.sum < 0 /\ reg.base # win[w].had))
    /\ UNCHANGED <<val, salary_list, isSalaryTime, now, asks, gone,
                   ledger, muddled, seized, slipped, paid>>

Store(w) ==
    LET s   == Head(win[w].todo)
        sum == win[w].reg.sum
    IN
    /\ win[w].at = "save" /\ s.key \in Keys /\ win[w].reg # NoReg
    /\ val' = [val EXCEPT ![s.who][s.key] = limitValue(sum, Sup(s.key))]
    /\ win' = [win EXCEPT ![w] = Saved(w)]
    /\ amiss' = (amiss \/ (s.key \in Purse /\ (Lost(w) \/ sum > MaxMoney)))
    /\ muddled' = IF s.key \in Loan /\ Lost(w) THEN muddled \cup {s.who} ELSE muddled
    /\ seized' = IF s.key = "freeTime" /\ Lost(w) THEN seized \cup {s.who} ELSE seized
    /\ UNCHANGED <<salary_list, isSalaryTime, now, asks, gone, ledger, slipped, paid>>

\* ytht_add_to_file on the salary list.
List(w) ==
    /\ win[w].at = "save" /\ Head(win[w].todo).key = "salary_list"
    /\ salary_list' = salary_list \cup {Head(win[w].todo).who}
    /\ win' = [win EXCEPT ![w] = Saved(w)]
    /\ UNCHANGED <<val, isSalaryTime, now, asks, gone, history>>

----------------------------------------------------------------------------
(* Coming in and leaving.                                                  *)

\* The connection drops, or Q_Goodbye: multex stays as it is.
Gone(w) ==
    LET pending(keys) == {s \in ToSet(win[w].todo) : s.key \in keys}
        whose(keys)   == {s.who : s \in pending(keys)}
    IN
    /\ win[w].at \notin {"off", "unused"} /\ gone < MaxGone
    /\ gone' = gone + 1
    /\ Goes(w, "off")
    /\ amiss' = (amiss \/ pending(Purse) # {})
    /\ muddled' = muddled \cup whose(Loan)
    /\ seized' = seized \cup whose({"freeTime"})
    /\ slipped' = slipped \cup whose({"salary_list"})
    /\ UNCHANGED <<val, salary_list, isSalaryTime, now, asks, ledger, paid>>

LogIn(w) ==
    /\ win[w].at = "off"
    /\ Goes(w, "home")
    /\ UNCHANGED <<val, salary_list, isSalaryTime, now, asks, gone, history>>

\* Has looked at multex and not stored its own mark yet.
Unmarked(w) ==
    \/ win[w].at \in {"bail", "debt", "due"}
    \/ win[w].next \in {"bail", "debt"}
    \/ \E s \in ToSet(win[w].todo) : s.key = "multex" /\ s.add = 1

\* A user with another window open is kept out while the mark is set. Mutant:
\* the windows are counted wrongly.
PassesCounted(w) == loadValue(Me(w), "multex") = 0 \/ Cardinality(Open(Me(w))) <= 2
Passes(w) == loadValue(Me(w), "multex") = 0 \/ Cardinality(Open(Me(w))) <= 1

currentTime(w) == Epoch + win[w].days

\* Mutant: the last day is given to the prisoner.
TermOverEarly(t, free) == free > 0 /\ t >= free - 1
TermOver(t, free) == free > 0 /\ t > free

\* Nothing is waited for between multex and the term in jail. A prisoner is
\* asked for bail, a term that is over is erased. days holds currentTime, which
\* is read once.
Knock(w) ==
    LET free == loadValue(Me(w), "freeTime")
        left == free - time
        in   == [Away("debt") EXCEPT !.days = now]
        save(s, next) == [in EXCEPT !.at = "save", !.todo = <<s>>, !.next = next]
    IN
    /\ win[w].at = "home"
    /\ Passes(w)
    /\ win' = [win EXCEPT ![w] =
           CASE TermOver(time, free) -> save(Erase(Me(w), "freeTime"), "debt")
             [] ~TermOver(time, free) /\ left > Far ->
                    [save(SaveDate(Me(w), "freeTime", 1), "bail") EXCEPT !.num = left + 1]
             [] ~TermOver(time, free) /\ left \in 1..Far ->
                    [in EXCEPT !.at = "bail", !.num = left + 1]
             [] OTHER -> in]
    /\ slipped' = IF \E v \in Windows \ {w} : Owner[v] = Me(w) /\ Unmarked(v)
                  THEN slipped \cup {Me(w)} ELSE slipped
    /\ UNCHANGED <<val, salary_list, isSalaryTime, now, asks, gone,
                   ledger, amiss, muddled, seized, paid>>

Bail(w) ==
    LET num == win[w].num IN
    /\ win[w].at = "bail"
    /\ IF loadValue(Me(w), "bmy_money") < num
       THEN Goes(w, "home")
       ELSE Pays(w, <<Save(Me(w), "bmy_money", -num), Save(House, "bmy_money", num),
                      Erase(Me(w), "freeTime")>>, "debt")
    /\ UNCHANGED <<val, salary_list, isSalaryTime, now, asks, gone, history>>

\* What is made of a loan that is paid back. Mutant: its date is forgotten.
RepaidUndated(u, total) ==
    <<Save(u, "bmy_money", -total), Erase(u, "lend_money"), Erase(u, "lend_time")>>
Repaid(u, total) ==
    <<Save(u, "bmy_money", -total), Erase(u, "lend_money"), Erase(u, "lend_time"),
      Erase(u, "back_time")>>

Mark(u) == Save(u, "multex", 1)

\* History: the loan of u is changed by another window meanwhile, or one is
\* granted to who has got one since he was asked.
Mixed(u, w, granted) ==
    IF \/ Busy(u, Loan) \ {w} # {}
       \/ granted /\ (val[u]["lend_money"] # 0 \/ val[u]["lend_time"] # 0)
    THEN muddled \cup {u} ELSE muddled

\* Whoever owes the bank and is late has to pay first.
Debt(w) ==
    LET back == loadValue(Me(w), "back_time")
        far  == IF back - time > Far THEN <<SaveDate(Me(w), "back_time", 1)>> ELSE <<>>
    IN
    /\ win[w].at = "debt"
    /\ IF back > 0 /\ currentTime(w) > back
       THEN win' = [win EXCEPT ![w].at = "due", ![w].seen = loadValue(Me(w), "lend_money")]
       ELSE Saves(w, Append(far, Mark(Me(w))), "menu")
    /\ UNCHANGED <<val, salary_list, isSalaryTime, now, asks, gone, history>>

Due(w) ==
    /\ win[w].at = "due"
    /\ IF loadValue(Me(w), "bmy_money") < win[w].seen
       THEN Goes(w, "home") /\ UNCHANGED <<ledger, muddled>>
       ELSE /\ Pays(w, Append(Repaid(Me(w), win[w].seen), Mark(Me(w))), "menu")
            /\ ledger' = ledger - win[w].seen
            /\ muddled' = Mixed(Me(w), w, FALSE)
    /\ UNCHANGED <<val, salary_list, isSalaryTime, now, asks,
                   gone, amiss, seized, slipped, paid>>

Leave(w) ==
    /\ win[w].at = "menu"
    /\ Saves(w, <<Erase(Me(w), "multex")>>, "home")
    /\ UNCHANGED <<val, salary_list, isSalaryTime, now, asks, gone, history>>

Decline(w) ==
    /\ \/ win[w].at \in {"ask", "loans"} /\ Goes(w, "menu")
       \/ win[w].at \in {"bail", "due"} /\ Goes(w, "home")
    /\ UNCHANGED <<val, salary_list, isSalaryTime, now, asks, gone, history>>

----------------------------------------------------------------------------
(* The bank.                                                               *)

\* A request is made from a menu.
Asks(w, menu) ==
    /\ win[w].at = menu /\ asks < MaxAsks
    /\ asks' = asks + 1

\* Mutant: the fee is not asked about.
TransferFree(w, to, num) ==
    /\ Asks(w, "menu")
    /\ loadValue(Me(w), "bmy_money") >= num
    /\ Pays(w, <<Save(Me(w), "bmy_money", -(num + Fee)), Save(to, "bmy_money", num)>>, "menu")
    /\ ledger' = ledger - Fee
    /\ UNCHANGED <<val, salary_list, isSalaryTime, now, gone,
                   amiss, muddled, seized, slipped, paid>>
Transfer(w, to, num) ==
    /\ Asks(w, "menu")
    /\ loadValue(Me(w), "bmy_money") >= num + Fee
    /\ Pays(w, <<Save(Me(w), "bmy_money", -(num + Fee)), Save(to, "bmy_money", num)>>, "menu")
    /\ ledger' = ledger - Fee
    /\ UNCHANGED <<val, salary_list, isSalaryTime, now, gone,
                   amiss, muddled, seized, slipped, paid>>

Deposit(w, num) ==
    /\ Asks(w, "menu")
    /\ loadValue(Me(w), "bmy_money") >= num
    /\ loadValue(Me(w), "bmy_credit") + num <= MaxMoney
    /\ Pays(w, <<Save(Me(w), "bmy_money", -num), Save(Me(w), "bmy_credit", num)>>, "menu")
    /\ UNCHANGED <<val, salary_list, isSalaryTime, now, gone, history>>

Withdraw(w, num) ==
    /\ Asks(w, "menu")
    /\ loadValue(Me(w), "bmy_credit") >= num
    /\ Pays(w, <<Save(Me(w), "bmy_credit", -num), Save(Me(w), "bmy_money", num)>>, "menu")
    /\ UNCHANGED <<val, salary_list, isSalaryTime, now, gone, history>>

\* The debt is shown; what is done next goes by the number shown.
ViewLoans(w) ==
    /\ Asks(w, "menu")
    /\ win' = [win EXCEPT ![w].at = "loans", ![w].seen = loadValue(Me(w), "lend_money")]
    /\ UNCHANGED <<val, salary_list, isSalaryTime, now, gone, history>>

Granted(u, num, days) ==
    <<Save(u, "bmy_money", num), Save(u, "lend_money", num),
      SaveDate(u, "lend_time", 0), SaveDate(u, "back_time", days)>>

TakeLoan(w, num, days) ==
    /\ win[w].at = "loans" /\ win[w].seen = 0
    /\ Saves(w, Granted(Me(w), num, days), "menu")
    /\ ledger' = ledger + num
    /\ muddled' = Mixed(Me(w), w, TRUE)
    /\ UNCHANGED <<val, salary_list, isSalaryTime, now, asks,
                   gone, amiss, seized, slipped, paid>>

\* Whatever the date is, one that is far off or long past is set to tomorrow,
\* which adds tomorrow to it.
Redated(u) ==
    LET left == loadValue(u, "back_time") - time
    IN  IF left > Far \/ left < -1 THEN <<SaveDate(u, "back_time", 1)>> ELSE <<>>

ChooseRepay(w) ==
    /\ win[w].at = "loans"
    /\ IF Redated(Me(w)) = <<>>
       THEN /\ win' = [win EXCEPT ![w].at = "repay"]
            /\ UNCHANGED muddled
       ELSE /\ Saves(w, Redated(Me(w)), "repay")
            /\ muddled' = muddled \cup {Me(w)}
    /\ UNCHANGED <<val, salary_list, isSalaryTime, now, asks, gone,
                   ledger, amiss, seized, slipped, paid>>

\* Nothing is paid back on the day it was lent.
AskRepay(w) ==
    LET lendTime == loadValue(Me(w), "lend_time") IN
    /\ win[w].at = "repay"
    /\ IF lendTime = 0 \/ time - lendTime < 1
       THEN Goes(w, "menu")
       ELSE win' = [win EXCEPT ![w].at = "ask", ![w].op = "repay"]
    /\ UNCHANGED <<val, salary_list, isSalaryTime, now, asks, gone, history>>

Repay(w) ==
    /\ win[w].at = "ask" /\ win[w].op = "repay"
    /\ IF loadValue(Me(w), "bmy_money") < win[w].seen
       THEN Goes(w, "menu") /\ UNCHANGED <<ledger, muddled>>
       ELSE /\ Pays(w, Repaid(Me(w), win[w].seen), "menu")
            /\ ledger' = ledger - win[w].seen
            /\ muddled' = Mixed(Me(w), w, FALSE)
    /\ UNCHANGED <<val, salary_list, isSalaryTime, now, asks,
                   gone, amiss, seized, slipped, paid>>

AskSalary(w) ==
    /\ Asks(w, "menu")
    /\ isSalaryTime /\ Me(w) \notin salary_list
    /\ win' = [win EXCEPT ![w].at = "ask", ![w].op = "salary"]
    /\ UNCHANGED <<val, salary_list, isSalaryTime, now, gone, history>>

TakeSalary(w) ==
    /\ win[w].at = "ask" /\ win[w].op = "salary"
    /\ Saves(w, <<Save(Me(w), "bmy_money", Salary), Enlist(Me(w))>>, "menu")
    /\ ledger' = ledger + Salary
    /\ paid' = [paid EXCEPT ![Me(w)] = @ + 1]
    /\ UNCHANGED <<val, salary_list, isSalaryTime, now, asks,
                   gone, amiss, muddled, seized, slipped>>

\* newSalary always agrees.
PayDay(w) ==
    /\ Me(w) = Banker /\ Asks(w, "menu")
    /\ salary_list' = {} /\ isSalaryTime' = TRUE
    /\ paid' = [u \in Users |-> 0]
    /\ UNCHANGED <<val, win, now, gone, ledger, amiss, muddled, seized, slipped>>

AskSpecialLoan(w, who) ==
    /\ Me(w) = Banker /\ Asks(w, "menu")
    /\ loadValue(who, "lend_time") = 0
    /\ win' = [win EXCEPT ![w].at = "ask", ![w].op = "lend", ![w].who = who]
    /\ UNCHANGED <<val, salary_list, isSalaryTime, now, gone, history>>

SpecialLoan(w, num, days) ==
    /\ win[w].at = "ask" /\ win[w].op = "lend"
    /\ Saves(w, Granted(win[w].who, num, days), "menu")
    /\ ledger' = ledger + num
    /\ muddled' = Mixed(win[w].who, w, TRUE)
    /\ UNCHANGED <<val, salary_list, isSalaryTime, now, asks,
                   gone, amiss, seized, slipped, paid>>

----------------------------------------------------------------------------
(* The police.                                                             *)

\* History: a second arrest while one is under way or served.
Twice(u, w) ==
    IF Busy(u, {"freeTime"}) \ {w} # {} \/ val[u]["freeTime"] > 0
    THEN seized \cup {u} ELSE seized

\* Only who could pay the fine may go hunting. The suspect is asked for then.
Suspect(w) ==
    LET money == loadValue(Me(w), "bmy_money") IN
    /\ Me(w) \in Police /\ Asks(w, "menu")
    /\ money >= Fine
    /\ win' = [win EXCEPT ![w].at = "ask", ![w].op = "hunt", ![w].had = money]
    /\ UNCHANGED <<val, salary_list, isSalaryTime, now, gone, history>>

\* An innocent suspect is compensated; a guilty one is asked about. Others are
\* let alone: Decline.
Accuse(w, who) ==
    /\ win[w].at = "ask" /\ win[w].op = "hunt"
    /\ loadValue(who, "freeTime") = 0
    /\ \/ Saves(w, <<Save(Me(w), "bmy_money", -Fine), Save(who, "bmy_money", Fine)>>, "menu")
       \/ win' = [win EXCEPT ![w].op = "catch", ![w].who = who, ![w].had = 0]
    /\ UNCHANGED <<val, salary_list, isSalaryTime, now, asks, gone, history>>

\* Who is not caught has escaped: Decline.
Catch(w, days) ==
    LET who == win[w].who IN
    /\ win[w].at = "ask" /\ win[w].op = "catch"
    /\ Saves(w, <<SaveDate(who, "freeTime", days)>>, "menu")
    /\ seized' = Twice(who, w)
    /\ UNCHANGED <<val, salary_list, isSalaryTime, now, asks, gone,
                   ledger, amiss, muddled, slipped, paid>>

\* Ends in Q_Goodbye, which leaves multex as it is.
Surrender(w, days) ==
    /\ Asks(w, "menu")
    /\ IF loadValue(Me(w), "freeTime") > 0
       THEN Goes(w, "off") /\ UNCHANGED seized
       ELSE /\ Saves(w, <<SaveDate(Me(w), "freeTime", days)>>, "off")
            /\ seized' = Twice(Me(w), w)
    /\ UNCHANGED <<val, salary_list, isSalaryTime, now, gone,
                   ledger, amiss, muddled, slipped, paid>>

Tick ==
    /\ now < MaxTime
    /\ now' = now + 1
    /\ UNCHANGED <<val, salary_list, isSalaryTime, win, asks, gone, history>>

----------------------------------------------------------------------------
Total(v) ==
    MapThenSumSet(LAMBDA u : v[u]["bmy_money"] + v[u]["bmy_credit"], Accounts)

Init ==
    /\ \E setup \in Setups :
           /\ val = setup.val
           /\ isSalaryTime = setup.isSalaryTime
           /\ gone = setup.gone
           /\ win = [w \in Windows |-> Away(IF w \in setup.crew THEN "home" ELSE "unused")]
    /\ salary_list = {}
    /\ now = 0 /\ asks = 0
    /\ ledger = Total(val)
    /\ amiss = FALSE /\ muddled = {} /\ seized = {} /\ slipped = {}
    /\ paid = [u \in Users |-> 0]

Operate(w) ==
    \/ \E num \in Amounts :
           \/ \E to \in Users : Transfer(w, to, num)
           \/ Deposit(w, num) \/ Withdraw(w, num)
           \/ \E days \in Days : TakeLoan(w, num, days) \/ SpecialLoan(w, num, days)
    \/ ViewLoans(w) \/ ChooseRepay(w) \/ AskRepay(w) \/ Repay(w)
    \/ AskSalary(w) \/ TakeSalary(w) \/ PayDay(w)
    \/ \E who \in Users : AskSpecialLoan(w, who) \/ Accuse(w, who)
    \/ Suspect(w)
    \/ \E days \in Days : Catch(w, days) \/ Surrender(w, days)

Next ==
    \/ \E w \in Windows :
           \/ Load(w) \/ Store(w) \/ List(w)
           \/ Gone(w) \/ LogIn(w) \/ Knock(w) \/ Bail(w) \/ Debt(w) \/ Due(w)
           \/ Leave(w) \/ Decline(w)
           \/ Operate(w)
    \/ Tick

Spec == Init /\ [][Next]_vars

----------------------------------------------------------------------------
(* Correctness.                                                            *)

\* TypeOK: every number of a file stays within its limits, whatever is added
\* to it (limitValue, loadValue, saveValue).
TypeOK ==
    /\ \A u \in Accounts, k \in Keys : val[u][k] \in 0..Sup(k)
    /\ salary_list \subseteq Users /\ isSalaryTime \in BOOLEAN
    /\ \A w \in Windows :
           /\ win[w].at \in {"unused", "off", "home", "bail", "debt", "due", "menu",
                             "loans", "repay", "ask", "save"}
           /\ (win[w].at = "save") <=> (win[w].todo # <<>>)
    /\ now \in 0..MaxTime /\ asks \in 0..MaxAsks /\ gone \in 0..MaxGone /\ ledger \in Int

Settled == \A w \in Windows : win[w].todo = <<>>

\* BooksBalance: numbers keep to their limits and, while no saves are under
\* way, all the money there is comes to what loans, salaries, fees and
\* repayments should have left. Excepted is money of saves that overlapped, were
\* cut off or went over MAX_MONEY_NUM, and what is paid with money that another
\* window has spent since it was checked (the operations of money_bank,
\* check_allow_in and money_cop).
BooksBalance == TypeOK /\ (Settled /\ ~amiss => Total(val) = ledger)

\* LoanFallsDue: whoever owes money has a date at which check_allow_in asks
\* for it, after the date of the loan. Excepted are loans granted while
\* another was, and users who chose to repay without a loan or when long
\* overdue, whose dates were added up (check_allow_in, money_bank).
LoanFallsDue ==
    \A u \in Users \ muddled :
        val[u]["lend_money"] > 0 /\ Busy(u, Loan) = {} =>
            val[u]["lend_time"] > 0 /\ val[u]["back_time"] > val[u]["lend_time"]

\* TermServed: a term in jail gets shorter only by the prisoner's coming in,
\* when its last day is over or with bail paid, and by a second arrest
\* (check_allow_in, money_cop).
TermServed ==
    [][\A u \in Users \ seized' :
           val'[u]["freeTime"] < val[u]["freeTime"] =>
               \E w \in Windows :
                   /\ Me(w) = u /\ win'[w].at = "debt"
                   /\ win[w].num > 0 \/ time > val[u]["freeTime"]]_vars

\* SalaryOnce: nobody gets more than one salary between two pay days, except
\* with two windows that came in at a time, or by leaving before he is listed
\* (money_bank; the mark multex of moneycenter).
SalaryOnce == \A u \in Users \ slipped : paid[u] <= 1

=============================================================================
