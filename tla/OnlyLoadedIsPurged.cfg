SPECIFICATION Spec
CONSTANTS
    Clients = {c1, c2}
    Files = {f}
    Parts = 1
    MaxUpload = 2
    MaxStage = 1
PROPERTY OnlyLoadedIsPurged
