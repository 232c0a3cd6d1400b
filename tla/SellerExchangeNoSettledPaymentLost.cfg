CONSTANTS
    s1 = s1
    NONE = NONE
    Squeaks = {s1}
    Peers <- MCPeers
    PaymentHashes = {1, 2}
    MAX_HASH = 3
    Limit = 1
    Expiry = 1
    Grace = 1
    MaxTime = 3

SPECIFICATION Spec
INVARIANT NoSettledPaymentLost
