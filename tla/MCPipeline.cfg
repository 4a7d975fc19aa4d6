SPECIFICATION FairPipeline
CONSTANTS
  Tables <- MCTables
  Months = {1, 2}
  Sources <- MCSources
  Configs <- MCConfigs
  Deployed <- MCDeployed
  None = None
  TornFile = TornFile
  MaxBuildKills = 1
INVARIANTS
  CompleteIngestIsRead PartitionsAreWhole ContextIsNotAhead NewBarsAreRead
  ReadSetsAreWhole SettledIsCurrent
PROPERTIES NoStampIsLost Recovers
