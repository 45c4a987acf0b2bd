CONSTANTS
  Writers = {w1, w2}
  Inodes = {i1, i2, i3, i4}
  NoInode = NoInode
  Pieces = 2
  Faults = {}
SPECIFICATION BlobsSpec
SYMMETRY MCSymmetry
INVARIANTS NeverPartial
