CONSTANTS
  r = r
  a = a
  b = b
  c = c
  App = App
  Node = {r, a, b, c}
  Link <- MCLink
  Fib <- MCFib
  Root = r
  Consumer = {b, c}
  MaxAsks = 1
  Stop = 3
  Size = 2
  SeqMod = 8
  Word = 64
  Overlap = FALSE
  Lossy = FALSE
SPECIFICATION FairSpec
CHECK_DEADLOCK FALSE
INVARIANTS
  TypeOK
  SubscribersServed
  NoDuplicateDelivered
PROPERTIES
  SettledDataLoopsEnd
