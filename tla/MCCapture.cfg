SPECIFICATION Spec
CONSTANTS
  Agents <- EveryAgent
  Turns = 2
  done = done
  other = other
  first = first
  second = second
  Texts = {done, other}
  Hooks = {first, second}
  MaxFaults = 1
SYMMETRY Swap
INVARIANTS
  TypeOK
  OwnPrompt
  PairOccurred
  ParkedOnce
\* The conversation ends.
CHECK_DEADLOCK FALSE
