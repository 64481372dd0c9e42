\* All files of up to four lines, with two modules at most.
CONSTANTS
  Modules = {cpu, ram}
  MaxModules = 2
  MaxLines = 4
SPECIFICATION Spec
INVARIANTS
  TypeOK
  ModulePerLine
  NothingIgnored
CHECK_DEADLOCK FALSE
