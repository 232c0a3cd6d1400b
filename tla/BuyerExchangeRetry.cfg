CONSTANTS
    s1 = s1
    p1 = p1
    c1 = c1
    c2 = c2
    NONE = NONE
    Squeaks = {s1}
    Peers = {p1}
    PaymentHashes = {1, 2}
    MAX_HASH = 3
    Limit = 1
    Calls = {c1, c2}
    Expiry = 1
    MaxTime = 2

SPECIFICATION Spec
INVARIANT PaidInvoicesRecordedValid
