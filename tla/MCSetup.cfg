SPECIFICATION Spec
CONSTANTS
  Agents = {"cursor", "claude", "codex", "workbuddy", "zcode", "opencode"}
  Parts = {"h1", "h2"}
  Configs <- MCConfigs
  Notes <- MCNotes
  page = page
  line = line
  Appliers = {page, line}
  MaxApplies = 2
  MaxSaves = 1
  MaxFaults = 1
SYMMETRY Swap
INVARIANTS
  TypeOK
  FirstApplyUndoable
  OthersKept
  NeverDoubled
  ConfiguredByApply
\* Nothing happens without a call of a user.
CHECK_DEADLOCK FALSE
