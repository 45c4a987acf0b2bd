CONSTANTS
  Parts = {p1, p2}
  Calls = {c1}
  MaxContent = 1
  MaxCache = 1
  Unread = Unread
SPECIFICATION GateSpec
SYMMETRY MCSymmetry
PROPERTIES RightRecordStays
