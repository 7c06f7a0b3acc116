SPECIFICATION FairApprovalsSpec
CONSTANTS
  d1 = d1
  ana = ana
  web = web
  home = home
  hall = hall
  r1 = r1
  r2 = r2
  r3 = r3
  n1 = n1
  n2 = n2
  n3 = n3
  Id <- OneId
  Phone <- OnePhone
  NoKey = NoKey
  Browser <- OneBrowser
  Role = {"user", "guest"}
  Faults = FALSE
  Host <- TwoHosts
  RequestId <- ThreeRequests
  Number <- ThreeNumbers
  MaxPending = 2
  PerIp = 1
CHECK_DEADLOCK FALSE
INVARIANTS
  ApprovalsTypeOK
  RightClient
PROPERTIES
  DecisionIsFinal
  EveryAskEnds
