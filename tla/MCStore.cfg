SPECIFICATION StoreSpec
CONSTANTS
    a = a
    b = b
    Requested = 3
    DefaultCapacity = 256
    ID = {i1, i2, i3, i4}
    Label <- MCLabel
    NoName = none
    Identity <- MCIdentity
INVARIANTS
    IndexExact
    AnswersAreTheStore
PROPERTIES
    ImplementsLog
