CONSTANTS
  sat = sat
  eng = eng
  ground = ground
  Names = {sat, eng, ground}
  GroundName = ground
  Scids = {1, 2}
  Base = 0
  Files <- DeploymentFiles
  Keys = {k1, k2}
  Limit <- SmallLimit
  Ground = Ground
  Broken = Broken
  Partial = Partial
  None = None
SPECIFICATION Spec
INVARIANTS TypeOK CompleteIsExact OneKey ServedAgree
\* The system may stop: no prepare, edit or run is left.
CHECK_DEADLOCK FALSE
