-------------------------- MODULE MCMoneyBank --------------------------
(* A customer with two windows, and the manager of the bank, who is with   *)
(* the police too. The customer may have a loan that is due today or be in *)
(* jail until today; she comes with both windows, or with one of them      *)
(* while the manager, who has the pay day in hand, is on, or alone. A      *)
(* connection may drop where gone starts below MaxGone.                    *)
EXTENDS MoneyBank

CONSTANTS a1, a2, b1

MCOwner == [w \in Windows |-> IF w = b1 THEN "bob" ELSE "amy"]

None == [key \in Keys |-> 0]
Start(amy) ==
    [u \in Accounts |-> CASE u = "amy" -> amy
                          [] u = "bob" -> [None EXCEPT !["bmy_money"] = 1]
                          [] OTHER -> None]
Free == Start([None EXCEPT !["bmy_money"] = 1])
Indebted == Start([None EXCEPT !["bmy_money"] = 1, !["lend_money"] = 1,
                               !["lend_time"] = Epoch - 1, !["back_time"] = Epoch])
Jailed == Start([None EXCEPT !["bmy_money"] = 2, !["freeTime"] = Epoch])

MCSetups ==
    {[crew |-> {a1, a2}, val |-> Indebted, isSalaryTime |-> TRUE, gone |-> MaxGone],
     [crew |-> {a1, a2}, val |-> Free, isSalaryTime |-> TRUE, gone |-> 0],
     [crew |-> {a1, b1}, val |-> Indebted, isSalaryTime |-> FALSE, gone |-> MaxGone],
     [crew |-> {a1, b1}, val |-> Jailed, isSalaryTime |-> FALSE, gone |-> MaxGone]}
    \cup
    {[crew |-> {a1}, val |-> start, isSalaryTime |-> TRUE, gone |-> 0] :
         start \in {Indebted, Jailed}}

Symmetry == Permutations({a1, a2})
========================================================================
