SPECIFICATION FairSpec
CONSTANTS
    Sessions = {s1}
    Tokens = {t1}
    Contexts = {c1}
    None = None
PROPERTIES
    CancelAnswered
