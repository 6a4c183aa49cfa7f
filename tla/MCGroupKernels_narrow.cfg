SPECIFICATION Spec
CONSTANTS
    P = 3
    BlockSize = 3
    MaxItems = 4
    MaxRows = 3
    MaxCols = 4
    MaxCount = 2
    Units = 1
    BarrierForgives = TRUE
    GemvLaunches <- NarrowGemvLaunches
    RowLaunches = {}
    ColLaunches = {}
    GerLaunches = {}
    PartialRowsLaunches = {}
    InverterLaunches = {}
INVARIANT
    BlockExact
