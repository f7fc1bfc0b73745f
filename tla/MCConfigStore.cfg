CONSTANTS
  Unit = {"a", "b"}
  Blank = Blank
  Junk = Junk
  ValidImages <- MCValidImages
  Factory <- MCFactory
  MinImage = 1
  MaxImage = 3
  MaxChunk = 2
  Pages = 2
  PageOf <- MCPageOf
  SeqHalf = 2
  Chunks <- MCChunks
  Totals <- MCTotals
SPECIFICATION Spec
INVARIANTS ActiveIntact EraseBeforeWrite OneStepApart
PROPERTIES DurableOnlyFromUpload RegisterSpec
