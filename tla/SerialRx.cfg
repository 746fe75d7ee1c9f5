SPECIFICATION FairSpec
CONSTANTS
  Chars = {a, b, CR, LF, BS}
  CR = CR
  LF = LF
  BS = BS
  Size = 4
  MaxTyped = 5
INVARIANTS TypeOK LostForAReason
PROPERTIES LinesAsTyped BufferReleased
