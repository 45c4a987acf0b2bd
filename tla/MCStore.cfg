CONSTANTS
  k1 = k1
  k2 = k2
  ck = ck
  Keys = {k1, k2}
  CandKeys = {ck}
  CandKey <- MCCandKey
  Outs = {o1, o2}
  NoKey = NoKey
  NoRecord = NoRecord
  MaxLog = 3
SPECIFICATION StoreSpec
INVARIANTS StoreTypeOK IndexesAgree ReplayLastLineWins ServableIsDurable LogIsServed
