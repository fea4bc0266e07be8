CONSTANTS
  PlatformProfiles <- MCPlatformProfiles
  NodeProfiles <- MCNodeProfiles
  Versions <- MCVersions
  Archs <- MCArchs
  BaseArch = "x86_64"
  FewerArchs = {"s390x"}
  Owner <- MCOwner
  Rejects <- MCRejects
  Tools <- MCTools
  OptionalChecks = {"auditctl -R"}
  FLOORS <- MCFLOORS
  Releases <- MCReleases
  Machines <- MCMachines
SPECIFICATION Spec
\* The script has exited.
CHECK_DEADLOCK FALSE
INVARIANTS
  TypeOK
  NoFaultPasses
  CollapseNoticed
  WorkCountedPerMode
