SPECIFICATION Spec
CONSTANTS
    LocalSz = 4
    MaxGroups = 2
    MaxSize = 18
    Launches <- AllLaunches
INVARIANTS
    TypeOK
    NoScratchRace
    ReadsAreOfThisLevel
    GroupResultExact
    BarriersConverge
PROPERTIES
    Termination
    GroupSpec
