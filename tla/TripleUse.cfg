SPECIFICATION USpec
CONSTANTS
  Inputs <- MCInputs
  Initial <- MCInitial
  SomeArchs <- MCArchs
  SomeVendors <- MCVendors
  SomeOS <- MCOS
  SomeEnvs <- MCEnvs
  SomeFormats <- MCFormats
  Modules <- MCModules
  MaxModules = 3
  Bounds <- MCBounds
  MArch = {"", "toyriscv32", "toyriscv64", "riscv64"}
INVARIANTS
  NothingLost
  KindsCorrect
  ReadingKept
  Idempotent
  VariantsFit
  LinkedAgree
  VersionsAgree
  TargetFits
PROPERTIES
  SetIsRead
  OthersKept
  ThereAndBack
