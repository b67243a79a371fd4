CONSTANTS
  Size = 2
  SeqMod = 2
  Word = 64
  Face = {a, b}
  Fib = {a, b}
  Entry = {v}
  Nonce = {1, 2}
  MaxLife = 2
  Straggler = 1
  DnlOnSatisfy = TRUE
SPECIFICATION FairSpec
INVARIANTS
  TypeOK
  AtMostOneTimer
  TimerlessOnlyAfterPushData
PROPERTIES
  PersistentInterestPersists
  LiveSubscriptionNeverErased
  TimedEntryReclaimed
