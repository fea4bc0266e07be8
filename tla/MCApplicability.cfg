CONSTANTS
  AssumedTrue = {"kernel", "master_node"}
  AssumedFalse = {"ntp"}
  AxisFacts = {"aarch64", "not_s390x", "hosted"}
  Roles = {"master", "worker"}
  Axes <- MCAxes
  Domain <- MCDomain
  AxisOf <- MCAxisOf
  TrueWhen <- MCTrueWhen
  RoleFacts <- MCRoleFacts
  Leaves <- MCLeaves
  Tests <- MCTests
  Height <- MCHeight
  XccdfRules <- MCXccdfRules
SPECIFICATION Spec
\* build_map is done with the rule, or has raised.
CHECK_DEADLOCK FALSE
INVARIANTS
  TypeOK
  ExactForEveryPool
  RefusalNecessary
  UnknownNeverApplied
