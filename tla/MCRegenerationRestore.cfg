CONSTANTS
  r1 = r1
  r2 = r2
  r3 = r3
  r4 = r4
  r5 = r5
  other = other
  layer = layer
  umbrella = umbrella
  t1 = t1
  t2 = t2
  t3 = t3
  arm = arm
  ocp = ocp
  rhcos = rhcos
  Absent = Absent
  Torn = Torn
  Releases = {r1, r2, r3, r4, r5}
  Unexpected = other
  Datastreams = {ocp, rhcos}
  Umbrella = umbrella
  Templates = {t1, t2, t3}
  Overlays = {arm}
  Malformed = {r5}
  Initial = r1
  MaxBumps = 2
  MaxCrashes = 1
  ChartOrder <- MCChartOrder
  Holds <- MCHolds
  TemplatesOf <- MCTemplatesOf
  OverlaysOf <- MCOverlaysOf
  Rejected <- MCRejected
SPECIFICATION Spec
INVARIANTS
  RestoreRestores
