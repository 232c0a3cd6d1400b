CONSTANTS
    a1 = a1
    a2 = a2
    NONE = NONE
    Squeaks = {1, 2, 3}
    Addresses = {a1, a2}
    Heights = {0, 1, 2}

SPECIFICATION Spec
INVARIANT TypeOK
INVARIANT AncestorsAreTheThread
INVARIANT LookupAnswersInterest
