SPECIFICATION Spec
CONSTANTS
  ra = ra
  rk = rk
  p1 = p1
  p2 = p2
  p3 = p3
  Name = {ra, rk}
  Protected = {rk}
  Proc = {p1, p2, p3}
  Job <- MCJob
  MaxAtOnce = 2
  MaxFaults = 1
SYMMETRY MCSymmetry
INVARIANTS OneBuilder SitesStayLoadable
PROPERTIES ReadyMeansWhole RestartSucceeds DeletedIsGone
CHECK_DEADLOCK FALSE
