SPECIFICATION FairSpec
CONSTANTS
  MaxVersion = 3
  FirstV2 = 2
  Broken = {3}
  MaxReleases = 2
  MaxDeaths = 1
  MaxInstalls = 2
INVARIANTS
  TypeOK
  HostSafe
PROPERTIES
  UpdatesArrive
