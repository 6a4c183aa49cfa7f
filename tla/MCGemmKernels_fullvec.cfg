SPECIFICATION Spec
CONSTANTS
    WgRows = 2
    WgCols = 2
    LocalLaunches = {}
    TallSkinnyLaunches = {}
    FullVecLaunches <- SmallFullVecLaunches
    PartialVecLaunches = {}
    InterleavedLaunches = {}
    RefLaunches = {}
INVARIANTS
    FullVecLoadsInBounds
