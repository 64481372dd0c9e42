\* cpu with two flags, generic and time with two, in a text that may be full.
CONSTANTS
  SharedSize = 14
  Layouts <- MCLayouts
  Lengths = {0, 1, 2, 3, 5}
SPECIFICATION Spec
INVARIANTS
  TypeOK
  LinePerModule
  SpacesKept
CHECK_DEADLOCK FALSE
