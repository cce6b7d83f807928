SPECIFICATION SourceSpec
CONSTANTS
  s1 = s1
  s2 = s2
  w1 = w1
  k1 = k1
  k2 = k2
  c1 = c1
  c2 = c2
  Sessions = {s1, s2}
  Rewriters = {w1}
  Keys = {k1, k2}
  Columns = {c1, c2}
  Kinds = {"write", "shrink"}
  MaxScn = 3
INVARIANTS
  SourceTypeOK
  SameTokenSameRows
  AnswersMatchVersion
PROPERTIES
  TokensDoNotReturn
SYMMETRY Sym
