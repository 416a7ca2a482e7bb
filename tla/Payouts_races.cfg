CONSTANTS
    t1 = t1
    t2 = t2
    earning = earning
    second = second
    debt = debt
    w1 = w1
    w2 = w2
    w3 = w3
    a1 = a1
    a2 = a2
    NoWithdrawal = NoWithdrawal
    NoAccount = NoAccount
    Tasks = {t1, t2}
    Entries = {earning, second, debt}
    Amount <- Amounts
    WithdrawalMin = 10
    WithdrawalIds = {w1, w2}
    Accounts = {a1, a2}
    Faults = {"stripe", "timeout", "db", "lost"}
SPECIFICATION Spec
INVARIANTS SettledWasTransferred DebitsMatchTransfers
CHECK_DEADLOCK FALSE
SYMMETRY Symm
