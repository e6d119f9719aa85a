CONSTANTS
    Sessions = {s1, s2, s3}
    None = none
SPECIFICATION Spec
INVARIANTS ReleasedHasNoPlayer
CHECK_DEADLOCK FALSE
