CONSTANTS
  r1 = r1
  r2 = r2
  script = script
  lib = lib
  pyc = pyc
  Roots = {r1, r2}
  Ambiguous = {}
  Files = {script, lib, pyc}
  NoFile = NoFile
  Kind <- MCKind
  Versions = {0, 1}
  Makes <- MCMakes
  Absent = Absent
  Nowhere = Nowhere
  Keys = {k1}
  NoDesc = NoDesc
  Capturers = {c1}
  Restorers = {m1, m2}
  Overwriter = m2
  Verify = TRUE
  Faults = {"die", "fail"}
  MaxEdits = 1
  MaxDamage = 1
  MaxFiled = 1
SPECIFICATION ArtSpec
CHECK_DEADLOCK FALSE
INVARIANTS ArtTypeOK CaptureIsDirectory RefHasSnapshot CloneIsProof StageIsReplay FaithfulRelocation
PROPERTIES DirectorySpec
