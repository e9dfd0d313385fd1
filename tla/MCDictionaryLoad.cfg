SPECIFICATION Spec
CONSTANTS
  Configs <- MCConfigs
  Subsets <- MCSubsets
  MaxDictionaries = 3
  PosIds = 7
INVARIANTS
  ReadsAsBuilt
  PosResolved
  PluginPosKept
  CostsEstimated
CHECK_DEADLOCK FALSE
