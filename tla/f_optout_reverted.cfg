SPECIFICATION Spec
CONSTANTS
  a = a
  b = b
  e = e
  Notices <- MCNotices
  Mechanism <- MCMechanism
  GpcNotices <- MCGpc
  Resurface = {}
  Pages = {p1}
  Slots = {s1}
  Offers <- BothOffers
  Strings <- NoStrings
  Migrations <- NoMigrations
  ScriptConsents <- NoScripts
  Compressed = FALSE
  MaxLoads = 2
  MaxUpdates = 1
  MaxIdentities = 0
PROPERTIES OptOutStands
CHECK_DEADLOCK FALSE
