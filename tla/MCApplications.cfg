CONSTANTS
  c1 = c1
  c2 = c2
  x = x
  y = y
  MaxDelay = 1
  Consumer = {c1, c2}
  Refresh = 2
  Lifetime = 6
  ProbeInterval = 1
  Period = 1
  Tolerated = 1
  Client = {x, y}
  Callee <- OneCalls
  CallRefresh = 2
  CallLifetime = 3
  DataPeriod = 1
  Lookaheads = {0, 2}
  SendPeriod = 1
  PullLifetime = 3
  MaxSeq = 3
  CleanUp = 3
SPECIFICATION Spec
INVARIANTS TypeOK OneEventEach SubscriptionSurvives VoiceInTime
PROPERTY HungUpIsForgotten
