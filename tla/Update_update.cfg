SPECIFICATION FairSpec
CONSTANTS
  Processes = {p1, p2}
  Versions = {1, 2, 3, 4}
  Prereleases = {3}
  Installed = 2
  Invocations <- MCInvocations
  Releases <- MCReleases
  Archives <- MCArchives
  Manifests <- MCManifests
INVARIANTS RunsOnlyVerified AlwaysRuns
PROPERTIES ReplacedAsAsked UpdateEnds
