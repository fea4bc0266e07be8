CONSTANTS
  a = a
  b = b
  c = c
  master = master
  worker = worker
  leaf = leaf
  union = union
  file1 = file1
  file2 = file2
  v1 = v1
  v2 = v2
  none = none
  Rules = {a, b}
  Roles = {master, worker}
  Contents = {v1, v2}
  NoContent = none
  Versions <- MCVersions
  Paths <- MCPaths
  Files <- MCFiles
  UnionPaths = {union}
  Bodies <- MCBodies
  Windows <- MCWindows
  RuleLimits <- NoLimits
  ValuesFiles <- MCValuesFiles
  Shipped <- MCShipped
  MaxDocs = 3
SPECIFICATION Spec
\* A generator that raised ValueError has stopped.
CHECK_DEADLOCK FALSE
INVARIANT
  ActiveRuleRendered
