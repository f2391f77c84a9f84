SPECIFICATION Spec
CONSTANTS
  Pipelines <- BuildReleaseSite
  Jobs <- TwoJobs
  Repos <- TwoRepos
  RepoOf <- AppAndWeb
  DependsOn <- OneAfterTheOther
  Sources <- ReleaseOfBuild
  Versioned <- VersionedApp
  TagPrefix <- SamePrefix
  Bumping = {"release"}
  Projects <- FourProjects
  q1 = q1
  q2 = q2
  Requests <- TwoRequests
  FirstRaw = 1
  MaxExecs = 3
  MaxFailures = 1
  MaxCommits <- ThreeAppCommits
  MaxPushes = 1
  Meanwhile = "run"
  Alone = {"build", "release"}
SYMMETRY Renamings
INVARIANTS
  SourceIsProven
  VersionIsOfSource
  ChainIsOneBuild
  ArtifactsFit
  BumpsFollow
CHECK_DEADLOCK FALSE
