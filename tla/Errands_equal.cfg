SPECIFICATION Spec
CONSTANTS
  Tokens = {t1, t2}
  NoToken = NoToken
  MaxSwaps = 2
  MaxMeddling = 2
  Parts = {0, 1, 2}
  MaxParts = 2
  Releases <- MCReleases
  Commit <- MCCommit
  Branch <- MCBranch
  MaxPolls = 2
  MaxInstalls = 2
  MaxHands = 1
  MaxSetups = 2
  MaxConfirms = 1
  MaxTouches = 1
  Folders = {media, share}
  Media = media
  MaxSize = 2
  MaxAsked = 2
  MaxChoices = 1
  MaxSteps = 3
  MaxFlows = 2
  Services <- MCServices
  MaxTurns = 1
  Names = {"omar", "home"}
  Generic = {"home"}
  Others = {"", "porch"}
  EntityIds = {1, 2}
  AreaIds = {1, 2}
  Sections = 2
  MaxPage = 2
  DefaultPage = 1
  MaxChanges = 1
  MaxOrders = 1
CHECK_DEADLOCK FALSE
PROPERTIES
  BetaLeftAlone
