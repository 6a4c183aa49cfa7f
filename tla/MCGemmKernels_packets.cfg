SPECIFICATION Spec
CONSTANTS
    WgRows = 2
    WgCols = 2
    LocalLaunches = {}
    TallSkinnyLaunches = {}
    FullVecLaunches = {}
    PartialVecLaunches = {}
    InterleavedLaunches <- ShiftedInterleavedLaunches
    RefLaunches = {}
INVARIANTS
    ItemExact
