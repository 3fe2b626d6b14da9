SPECIFICATION Spec
CONSTANTS
    Handles = {h1}
    None = None
INVARIANT
    SuccessReplyIsTrue
