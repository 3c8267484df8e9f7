SPECIFICATION Spec
CONSTANTS
  a = a
  b = b
  key1 = key1
  key2 = key2
  p1 = p1
  p2 = p2
  SenderIds <- MCIds
  Keys <- MCKeys
  Prefixes <- MCPrefixes
  Starts <- MCStarts
  Limits <- MCOneLimit
  BatchSizes <- MCBatchSizes
  SeqSpace = 4
INVARIANT KeyBudgetKept
