SPECIFICATION Spec
CONSTANTS
    WgRows = 2
    WgCols = 2
    LocalLaunches <- SmallLocalLaunches
    TallSkinnyLaunches <- SmallTallSkinnyLaunches
    FullVecLaunches <- SmallFullVecLaunches
    PartialVecLaunches <- SmallPartialVecLaunches
    InterleavedLaunches <- SmallInterleavedLaunches
    RefLaunches <- SmallRefLaunches
INVARIANTS
    TypeOK
    NoLocalRace
    LoadsInBounds
    BlockExact
    ItemExact
    SharesPartitionC
PROPERTIES
    Termination
