SPECIFICATION Spec
CONSTANTS
    P = 3
    BlockSize = 3
    MaxItems = 4
    MaxRows = 3
    MaxCols = 2
    MaxCount = 2
    Units = 1
    BarrierForgives = TRUE
    GemvLaunches = {}
    RowLaunches = {}
    ColLaunches = {}
    GerLaunches = {}
    PartialRowsLaunches <- AllRows
    InverterLaunches = {}
INVARIANT
    OutputFits
