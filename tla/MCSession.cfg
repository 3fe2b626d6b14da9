SPECIFICATION Spec
CONSTANTS
    Sessions = {s1, s2}
    Tokens = {t1, t2, t3}
    Contexts = {c1, c2}
    None = None
SYMMETRY MCSymmetry
INVARIANTS
    TypeOK
    LogoutIsFinal
PROPERTY
    ImplementsRegistry
