SPECIFICATION Spec
CONSTANTS
    P = 3
    BlockSize = 3
    MaxItems = 4
    MaxRows = 3
    MaxCols = 4
    MaxCount = 2
    Units = 1
    BarrierForgives = TRUE
    GemvLaunches <- SmallGemvLaunches
    RowLaunches <- TriangleRowLaunches
    ColLaunches <- TriangleColLaunches
    GerLaunches <- UpdateLaunches
    PartialRowsLaunches <- UsefulRows
    InverterLaunches <- AllTriangles
INVARIANTS
    TypeOK
    NoLocalRace
    BlockExact
    SharesPartitionOutput
    CellsExact
    OutputFits
    InverseExact
PROPERTIES
    Termination
