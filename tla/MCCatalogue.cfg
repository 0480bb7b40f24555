SPECIFICATION CatalogueSpec
CONSTANTS
  c1 = c1
  c2 = c2
  s1 = s1
  s2 = s2
  x = x
  b = b
  red = red
  blue = blue
  green = green
  words1 = words1
  words2 = words2
  None = None
  Calls = {c1, c2}
  Batches <- MCBatches
  Answers <- MCAnswers
  Decidable <- MCDecidable
  Required = {"sku", "price"}
  Later = {"text"}
  AiText = words2
  MaxBegun = 3
  MaxDecisions = 1
  MaxLosses = 1
INVARIANTS
  FactsReflectEvidence
  ActiveIsTheRevision
  NobodyWaitsUnasked
CHECK_DEADLOCK FALSE
