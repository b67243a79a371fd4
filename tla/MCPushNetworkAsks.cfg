CONSTANTS
  r = r
  a = a
  b = b
  c = c
  App = App
  Node = {r, a, b, c}
  Link <- MCLink
  Fib <- MCFib
  Root = r
  Consumer = {c}
  MaxAsks = 2
  Stop = 0
  Size = 2
  SeqMod = 8
  Word = 64
  Overlap = TRUE
  Lossy = TRUE
SPECIFICATION FairSpec
CHECK_DEADLOCK FALSE
PROPERTY
  InterestLoopsEnd
