CONSTANTS
  c1 = c1
  c2 = c2
  a1 = a1
  b1 = b1
  Files <- MCFiles
  Contents = {c1, c2, a1, b1}
  Absent = Absent
  Links <- MCLinks
  Leads <- MCLeads
  Trees <- MCTrees
  NoTree = NoTree
  Dirs <- MCDirs
  Extensions = {"x.py"}
  Global = {"Makefile"}
  Readers = {"cat", "diff", "wc", "file"}
  Filters = {"cat", "grep"}
  Questions <- MCQuestions
  Tests = {"test_a.py"}
  Discovered = {"conftest.py", "__init__.py"}
  Modules = {"x.py", "n.py", "v.py", "test_a.py", "conftest.py"}
  Imports <- MCImports
  Opens <- MCOpens
  Configured = {}
  Skipped = {"venv"}
  Worlds <- MCWorlds
  NoReads = NoReads
SPECIFICATION ReadSetSpec
INVARIANTS ScopeTypeOK PromotionIsSound ReadSetTypeOK ObservedIsSound
