SPECIFICATION Spec
CONSTANTS
    NumCalls = 2
    Forms = {"passed", "returned"}
INVARIANTS
    ReturnedCallReturnsItsResult
