SPECIFICATION Spec
CONSTANTS
    Clients = {c1, c2}
    Files = {f}
    Parts = 1
    MaxUpload = 1
    MaxStage = 2
PROPERTY OnlyOwnFiles
