SPECIFICATION OverlaySpec
CONSTANTS
  a = a
  b = b
  Notices <- TwoNotices
  Mechanism <- MCMechanism
  GpcNotices <- MCGpc
  Resurface = {}
  Pages = {p1}
  Slots = {s1}
  Offers <- BothOffers
  Strings <- NoSources
  Migrations <- NoSources
  ScriptConsents <- MCScripts
  Compressed = TRUE
  MaxLoads = 2
  MaxUpdates = 2
  MaxIdentities = 0
INVARIANTS OverlayTypeOK ClosedIsRecorded LastChoiceStands
CHECK_DEADLOCK FALSE
