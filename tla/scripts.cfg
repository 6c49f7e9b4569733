CONSTANTS
  r1 = r1
  r2 = r2
  r3 = r3
  Record = {r1, r2, r3}
  NoRecord = NoRecord
  MaxDepth = 6
  Path <- MCPath
  Dest <- MCDest
  Kept = {"setup.py", "release.py"}
  Log = {"ServerLog/c"}
  ReleasePath = "Server/release.py"
  Release = "release.py"
  Content = {"x", "y"}
  Product = {"a", "b"}
  Line = {1, 2}
  Move = {1, 2, 3}
  t1 = t1
  t2 = t2
  t3 = t3
  d1 = d1
  d2 = d2
  w1 = w1
  s1 = s1
  g1 = g1
  s2 = s2
  g3 = g3
  uf19 = uf19
  u1 = u1
  u2 = u2
  Ticket = {t1, t2, t3}
  Deleted = {t3}
  Dev = {d1, d2}
  Branch = {w1, s1, g1, s2, g3}
  Windows <- MCWindows
  Info <- MCInfo
  Versions <- MCVersions
  Known = {uf19}
  Trunk = trunk
  None = None
  Builder = {u1, u2}
  BuildOf <- MCBuildOf
  Ticket0 <- MCTicket0
  Crews <- MCCrews
  MaxEdits = 1
  xl = xl
  xm = xm
  xo = xo
  xp = xp
  Row = {xl, xm, xo, xp}
  TableOf <- MCTableOf
  Table <- MCTable
  ToDel <- MCToDel
SPECIFICATION ScriptsSpec
INVARIANTS DefinedFirst RecursionEnds SearchesMissNone PatchUpgrades LinesCovered CleanedOrUntouched OneProposal
PROPERTIES SeenFieldsStand
CHECK_DEADLOCK FALSE
