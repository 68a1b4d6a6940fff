CONSTANTS
    p1 = p1  p2 = p2  g = g
    Existing = {p1}  Later = {p2}  Ghosts = {g}
    Lines = 2  Garbled = {2}  BufferSize = 1  follow = FALSE
SPECIFICATION FairSpec
INVARIANTS LinesInOrder PanicOnlyIfCancelled WholeLogs
PROPERTIES IsAChannel QueryEnds LogsAreClosed
CHECK_DEADLOCK FALSE
