SPECIFICATION Spec
CONSTANTS
    Calls <- AllCalls
INVARIANTS
    TypeOK
    WaitedResultExact
    NeverPartOfTheInput
    WritesInBounds
PROPERTIES
    OperandsStable
    CallSpec
