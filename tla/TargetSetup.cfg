SPECIFICATION Spec
INVARIANTS
  TypeOK
  OnlyRegInfoReadEarly
  LayoutFitsRegisters
PROPERTIES
  SettledBeforeUse
  ConfigImplemented
