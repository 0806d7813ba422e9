SPECIFICATION QrSpec
CONSTANTS
    QrAccounts = {a1}
    NetworkRetryMax = 2
    MaxNews = 1
    MaxRenewals = 1
INVARIANT HandleWhileWaiting
CHECK_DEADLOCK FALSE
