CONSTANTS
    LoginAccounts = {a1, a2}
    NoAccount = NoAccount
    QrOnly = FALSE
SPECIFICATION LoginSpec
INVARIANT
    ServesOrExits
CHECK_DEADLOCK FALSE
