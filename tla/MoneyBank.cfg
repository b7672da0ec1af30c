SPECIFICATION Spec
CONSTANTS
    Users = {"amy", "bob"}
    a1 = a1
    a2 = a2
    b1 = b1
    Windows = {a1, a2, b1}
    Owner <- MCOwner
    Banker = "bob"
    Police = {"bob"}
    MaxMoney = 4
    MaxMultex = 9
    IntMax = 24
    TimeSup = 20
    Epoch = 16
    Far = 5
    Amounts = {1}
    Fee = 1
    Fine = 1
    Salary = 1
    Days = {1}
    Setups <- MCSetups
    MaxTime = 1
    MaxAsks = 2
    MaxGone = 1
INVARIANTS
    BooksBalance
    LoanFallsDue
    SalaryOnce
SYMMETRY Symmetry
CHECK_DEADLOCK FALSE
PROPERTIES
    TermServed
