SPECIFICATION Spec
CONSTANTS
  a = a
  b = b
  e = e
  Notices <- MCNotices
  Mechanism <- MCMechanism
  GpcNotices <- MCGpc
  Resurface = {}
  Pages = {p1}
  Slots = {s1, s2}
  Offers <- BothOffers
  Strings <- MCStrings
  Migrations <- MCMigrations
  ScriptConsents <- MCScripts
  Compressed = FALSE
  MaxLoads = 2
  MaxUpdates = 2
  MaxIdentities = 0
SYMMETRY SlotSymmetry
INVARIANTS NoticeOnlyStands GpcHonoured
PROPERTIES RefusalSurvives
CHECK_DEADLOCK FALSE
