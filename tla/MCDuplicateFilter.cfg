CONSTANTS
  Size = 3
  SeqMod = 7
  Word = 64
SPECIFICATION Spec
INVARIANTS
  TypeOK
  BitsMatchHistory
  InOrderCopyIsDropped
  FreshDropNeedsLatePredecessor
PROPERTY
  ImplementsWindow
