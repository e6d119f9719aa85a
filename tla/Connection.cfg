CONSTANTS
    MaxQueue = 2
SPECIFICATION ReceivingPeerSpec
INVARIANTS ReleasedOnce
PROPERTIES ProtocolLeftAlone SilentPeerDropped ClosedMeansSocketCloses
CHECK_DEADLOCK FALSE
