SPECIFICATION Spec
CONSTANTS
    Admins = {a1, a2}
    Names = {R, S}
    MaxRole = 3
    MaxUser = 2
    NoUser = NoUser

SYMMETRY Symmetry
INVARIANTS TypeOK GrantsAreLive DefaultRoleIsGranted RolesAcyclic AcceptedAlongGrants
