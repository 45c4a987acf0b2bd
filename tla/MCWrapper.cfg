CONSTANTS
  Writers = {w1, w2}
  Wrappers = {w1, w2}
  Inodes = {i1, i2, i3, i4}
  NoInode = NoInode
  Pieces = 2
  Faults = {"full", "die"}
  Durations = {3, 900}
  Floor = 500
  Samples = 2
  MaxRuns = 3
  NoFile = NoFile
  Blank = Blank
  Torn = Torn
  MemoFaults = {"full", "die"}
SPECIFICATION WrapperSpec
SYMMETRY MCSymmetry
INVARIANTS BlobsTypeOK WholeUnlessOverlapped PartialIsBeingWritten LoserFindsBlob
INVARIANTS FastpathTypeOK KnownFastIsEarned SlowIsRemembered PostedIsReplayable
CHECK_DEADLOCK FALSE
