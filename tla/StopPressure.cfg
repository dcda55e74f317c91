SPECIFICATION Spec
CONSTANTS
  Pool <- MCPool
  Contested <- MCContested
  Places <- MCPlaces
  Seeds <- MCSeeds
  MaxReports = 5
  Calendar = {0, 8}
INVARIANTS ClustersPartitionEvidence NoLoneContributor RepeatsAreDampened CreationIsNeverBlocked
PROPERTIES LossIsGradual
CHECK_DEADLOCK FALSE
