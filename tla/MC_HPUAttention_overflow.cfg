CONSTANTS
  k0 = k0  k1 = k1  k2 = k2  q1 = q1  q2 = q2
  s1 = s1  s2 = s2  b1 = b1  b2 = b2  b3 = b3
  NegInf = NegInf
  NoOut = NoOut
  Seqs <- MCSeqs
  Blocks <- MCBlocks
  Keys <- MCKeys
  Queries <- MCQueries
  Score <- MCScoreOverflow
  KZero = k0
  TokenKeys <- MCTokenKeys
  Vals = {0, 1}
  PadTok <- MCPadTok
  BlockSize = 2
  MaxLen = 3
  MaxPrompt = 2
  ExpLo <- MCExpLo
  ExpHi = 3
  EpsUnits = 1
  ConstVal = 0
  ConstPA = TRUE
  ConstNorm = FALSE
SPECIFICATION Spec
PROPERTY RefinesLogicalAttention
