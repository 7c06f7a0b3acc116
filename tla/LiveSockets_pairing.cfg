SPECIFICATION FairLiveSpec
CONSTANTS
  d1 = d1
  d2 = d2
  ana = ana
  c1 = c1
  t1 = t1
  home = home
  hall = hall
  s1 = s1
  Id <- TwoIds
  Phone <- OnePhone
  NoKey = NoKey
  Code <- OneCode
  Ticket <- OneTicket
  Ip <- TwoHosts
  Socket <- OneSocket
  Role = {"user", "guest", "agent"}
  Faults = TRUE
  MaxFailed = 1
  Budgets <- ThreeBudgets
  Recheck = 2
CHECK_DEADLOCK FALSE
INVARIANTS
  OneLiveKey
  OneInvitationOneKey
  HonestHostNotThrottled
PROPERTIES
  PairingNeverLocksOut
  ImplementsDevices
  FramesStop
  DeadStreamsEnd
