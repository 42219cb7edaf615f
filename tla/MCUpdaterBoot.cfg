SPECIFICATION MCSpec
CONSTANTS
  v1 = v1  v2 = v2  v3 = v3  unit = unit  ssh = ssh
  Version = {v1, v2, v3}
  Initial = v1
  Bundle <- Bundles
  RequireSigned = FALSE
  Install = {unit, ssh}
  ByServer = {unit}
  Boot = Boot
  RELEASES_TO_KEEP = 1
  MaxCuts = 2
  MaxFailures = 1
  MaxInstalls = 3
  None = None
  File = {v1}  MaxStatus = 2  MaxChange = 1  MaxToCard = 1
  Partial = Partial
INVARIANT BootsAgain
CHECK_DEADLOCK FALSE
