SPECIFICATION Spec
CONSTANTS
    Clients = {c1, c2}
    Files = {f, g}
    Parts = 2
    MaxUpload = 2
    MaxStage = 2
SYMMETRY Symmetry
INVARIANTS TypeOK NotLoadedAgain
PROPERTIES PurgedWasLoaded NewStageIsEmpty
