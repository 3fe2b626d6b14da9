SPECIFICATION Spec
CONSTANTS
    Sessions = {s1}
    Tokens = {t1}
    Contexts = {c1, c2}
    None = None
INVARIANT
    ClosedStaysClosed
