SPECIFICATION Spec
CONSTANTS
  a = a
  b = b
  e = e
  Notices <- MCNotices
  Mechanism <- MCMechanism
  GpcNotices <- MCGpc
  Resurface = {}
  Pages = {p1, p2}
  Slots = {s1}
  Offers <- BothOffers
  Strings <- NoStrings
  Migrations <- NoMigrations
  ScriptConsents <- MCScripts
  Compressed = TRUE
  MaxLoads = 2
  MaxUpdates = 1
  MaxIdentities = 1
INVARIANTS TypeOK UndecidedIsAsked SettledPageAgrees ServerAgrees
CHECK_DEADLOCK FALSE
SYMMETRY PageSymmetry
