CONSTANTS
  Size = 2
  SeqMod = 2
  Word = 64
  Face = {a, b}
  Fib = {b}
  Entry = {v, w}
  Nonce = {1}
  MaxLife = 1
  Straggler = 1
  DnlOnSatisfy = TRUE
SPECIFICATION Spec
PROPERTIES
  PendingInterestNotLost
  RecordedDataIsSent
