CONSTANTS
  Names <- MCNames
  Versions <- MCVersions
  Contents <- MCContents
  Manifests <- MCManifests
  Registries <- MCRegistries
  Answers <- MCAnswers
  Configs <- MCConfigs
SPECIFICATION FairSpec
INVARIANTS
  LockPinsTheBuild
PROPERTIES
  ImplementsReproducibleBuild
  EveryBuildEnds
