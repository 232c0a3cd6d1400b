CONSTANTS
    a1 = a1
    a2 = a2
    Squeaks = {1, 2, 3}
    Heights = {0, 1}
    Times = {0, 1}
    Addresses = {a1, a2}
    Author <- MCAuthor
    NoReply = NoReply
    ReplyTo <- MCReplyTo
    SearchHits = {1, 3}
    Limit = 2
    MAX_INT = 9
    MAX_HASH = 9

SPECIFICATION Spec
INVARIANT TypeOK
INVARIANT PagesInKeysetOrder
INVARIANT PagingIsComplete
