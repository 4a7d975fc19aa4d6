SPECIFICATION Spec
CONSTANTS
  BaseFile <- MCBase
  ExtraFiles <- MCExtraFiles
  MaxFiles = 2
  EnvMap <- MCEnvMap
  Environments <- MCEnvironments
  Unset <- MCUnset
  Arguments <- MCArguments
  MaxArguments = 2
  KnownPaths <- MCKnownPaths
  RequiredPaths <- MCRequiredPaths
  None = None
  Columns = {"datetime", "date", "time", "close", "price", "vol", "tickvol"}
  MaxColumns = 4
  TimestampColumn = "datetime"
INVARIANTS LaterLayersWin OrderIsImmaterial
CHECK_DEADLOCK FALSE
