SPECIFICATION Spec
CHECK_DEADLOCK FALSE
CONSTANTS
    Handles = {h1, h2, h3}
    Values = {v1}
    None = None
INVARIANT
    GetYieldsSetValue
