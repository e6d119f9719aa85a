CONSTANTS
    MaxQueue = 2
SPECIFICATION Spec
PROPERTIES ClosedMeansSocketCloses
CHECK_DEADLOCK FALSE
