\* Compilers under a user, and compilers beside maintenance.
CONSTANTS
  Compilers = {c1, c2}
  Maintainer = Maintainer
  Free = Free
  Sources = {A, B, C}
  Versions = {1, 2}
  Hosts = {cursor}
  None = None
  Order <- MCOrder
  ProjectJson = ProjectJson
  ManifestJson = ManifestJson
  HostOf <- MCHostOf
  Shared = {shared}
  Maintained <- MCMaintained
  Rendered <- MCRendered
  ArtifactAt <- MCArtifactAt
  Contents <- MCContents
  Absent = Absent
  Foreign = Foreign
  Unread = Unread
  MaxEdits = 2
  MaxChanges = 2
  MaxFaults = 2
  A = A
  B = B
  C = C
  cursor = cursor
  skill = skill
  old = old
  update = update
  shared = shared
  artA = artA
  artB = artB
  artC = artC
  skill1 = skill1
  skill2 = skill2
  old1 = old1
  update1 = update1
  attributes = attributes
CHECK_DEADLOCK FALSE
SYMMETRY Alike
SPECIFICATION ProjectionsSpec
INVARIANTS
  ResidueStaysAuthorized
  MaintainedFilesAreInPlace
  FlowFilesAreInPlace
PROPERTIES
  ForeignBytesSurvive
  ArtifactsStayPublishedLast
  CompilationsStayAtomic
