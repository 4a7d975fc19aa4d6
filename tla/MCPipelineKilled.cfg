SPECIFICATION PipelineSpec
CONSTANTS
  Tables <- MCTables
  Months = {1, 2}
  Sources <- MCSources
  Configs <- MCConfigs
  Deployed <- MCDeployed
  None = None
  TornFile = TornFile
  MaxBuildKills = 1
INVARIANT InterruptedIngestIsHarmless
