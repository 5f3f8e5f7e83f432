\* Two epochs of persister counters and up to five increments, enough for
\* increments between every two steps of Reset and of ResetSnapshot.
CONSTANTS
    Epochs = {0, 1}
    MaxIncrements = 5

SPECIFICATION Spec

INVARIANT
    CountersWithinResetWindow
