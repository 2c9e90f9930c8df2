\* Two runs of gencerts, deployed and imported with failures.
SPECIFICATION FairSpec
CONSTANTS
  MaxRuns = 2
  MaxUpsets = 3
INVARIANTS
  DeployTypeOK
  RunsWhatIsOnDisk
  RotationWorks
  ForwardsMasqueraded
PROPERTY
  HalfDeployedHeals
\* The user may be done.
CHECK_DEADLOCK FALSE
