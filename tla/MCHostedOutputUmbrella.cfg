CONSTANTS
  Rules = {"tls", "ingress", "excluded", "eviction", "audit", "sshd", "etcd"}
  Roles = {"master", "worker"}
  ConfigMapMax = 2
  TargetOf <- MCTargetOf
  LimitOf <- MCLimitOf
  HostedOK <- MCHostedOK
  Selections <- MCSelections
  NodeValues <- MCNodeValues
  PlatformValues <- MCPlatformValues
  UmbrellaValues <- MCUmbrellaValues
SPECIFICATION Spec
INVARIANTS
  UmbrellaOneCluster
