SPECIFICATION FairSpec
CONSTANTS
  Order <- MCOrder
  Type <- MCType
  Clusters <- MCClusters
  MaxGeneration = 2
  MaxFaults = 1
PROPERTIES  BringsUp
