SPECIFICATION MCSpec
CONSTANTS
  c1 = c1
  c2 = c2
  v1 = v1
  j1 = j1
  j2 = j2
  a1 = a1
  a2 = a2
  mdbook = mdbook
  henret = henret
  iotakt = iotakt
  t1 = t1
  None = None
  Edited = Edited
  Corrupt = Corrupt
  Job = {j1, j2}
  Commit = {c1, c2}
  Version = {v1}
  Registry = {0, 2, 11}
  Setup = {0}
  Executable = {2}
  Packaging = {11}
  MaxAttempt = 2
  VersionOf <- SameVersion
  PolicyOf <- TwoPolicies
  Path <- Paths
  Width <- SegmentWidths
  Rank <- RankTable
  NameField = 4
  PrefixField = 3
  DEFLATE_BLOCK = 2
  Blocks <- BlockSizes
  Trees <- SomeTrees
  FORBIDDEN <- ForbiddenPaths
  NoFile = NoFile
  ActionCommit = {a1, a2}
  Tag = Tag
  LeanVersion = {1, 2}
  Nothing = Nothing
  Tool = {mdbook}
  ToolArchive <- SomeArchives
  Binary <- ToolPath
  NoArchive = NoArchive
  Package = {henret, iotakt}
  PackageVersion = {1}
  Tarball = {t1}
  NoDirectory = NoDirectory
SYMMETRY JobSymmetry
INVARIANTS ReleaseTypeOK AcceptedIsSound AssetsByCreator GreenTagIsPublished
  AcceptedArchiveUnpacks AcceptedRunKeepsEvidence VerifiedBytesOnly AcceptedStackIsBound
CHECK_DEADLOCK FALSE
