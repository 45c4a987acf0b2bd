CONSTANTS
  k1 = k1
  k2 = k2
  k3 = k3
  ck3 = ck3
  ck = ck
  o1 = o1
  Keys = {k1}
  CandKeys = {ck}
  CandKey <- OneKey
  Outs = {o1}
  NoKey = NoKey
  NoRecord = NoRecord
  MaxLog = 1
  Calls = {h1, h2}
  Verifiers = {}
  Chans = {c1, c2, c3}
  NoChan = NoChan
  RecordOnly = {}
  Promotes <- NoPromotion
  MaxCandidates = 1
  Faults = {}
SPECIFICATION DaemonSpec
SYMMETRY MCSymmetry
INVARIANTS SingleFlight
