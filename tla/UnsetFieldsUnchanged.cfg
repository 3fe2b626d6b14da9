SPECIFICATION Spec
CONSTANTS
    Admins = {a1, a2}
    Names = {R}
    MaxRole = 2
    MaxUser = 1
    NoUser = NoUser
PROPERTY UnsetFieldsUnchanged
