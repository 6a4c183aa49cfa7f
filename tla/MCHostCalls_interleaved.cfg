SPECIFICATION Spec
CONSTANTS
    Parts = {"library"}
    P = 7
    BlockSize = 2
    MaxK = 5
    MaxOther = 2
    TrsmCalls <- AllTrsmCalls
    Matrices <- SmallMatrices
    Alphas = {0, 3}
    WgCols = 4
    TwoStepAbove = 4
    RowCalls = 2
    SessionCalls = 3
    Forms = {"passed", "returned"}
    LocalSize = 2
    ComputeUnits = 1
    TileM = 2
    TileN = 2
    TileK = 1
    TallSkinnyAbove = 4
    Programs <- InterleavedPrograms
INVARIANTS
    WaitedIsExpected
