CONSTANTS
  k1 = k1
  k2 = k2
  k3 = k3
  ck3 = ck3
  ck = ck
  o1 = o1
  Keys = {k1, k2, k3}
  CandKeys = {ck, ck3}
  CandKey <- ThreeKeys
  Outs = {o1}
  NoKey = NoKey
  NoRecord = NoRecord
  MaxLog = 2
  Calls = {h1, h2}
  Verifiers = {v1}
  Chans = {c1, c2, c3}
  NoChan = NoChan
  RecordOnly = {k3}
  Promotes <- FirstToSecond
  MaxCandidates = 1
  Faults = {}
SPECIFICATION DaemonSpec
SYMMETRY MCSymmetry
INVARIANTS ResultBeforeWake LeaseIsClaimed
PROPERTIES HitIsLegitimate
