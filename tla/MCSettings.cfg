CONSTANTS
    MaxPort = 2
    MaxKeys = 3
SPECIFICATION Spec
INVARIANTS AppliedAsSaved SavedIsKept NamedPeerOnly
PROPERTIES AnsweredAsDone
CHECK_DEADLOCK FALSE
