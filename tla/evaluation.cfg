CONSTANTS
  a = a
  nearA = nearA
  b = b
  r1 = r1
  r2 = r2
  Blank = Blank
  Products <- SomeLines
  Similar <- SomeSimilar
  MaxLabel = 2
  MaxPred = 3
  Records <- SomeRecords
  Files = {"f", "g"}
  Threads = 2
  MaxPolls = 2
  MaxStarts = 2
  Labels <- SomeLabels
  MaxLabels = 4
  Lowered <- LowerOf
  Nfc <- NfcOf
  Uncorrectable = {2}
  TestParts = 2
  RatioParts = 3
  MaxRuns = 2
SPECIFICATION EvalSpec
INVARIANT SkeletonReproduces
INVARIANT ComparedOnce
INVARIANT LeftoversNoBetter
INVARIANT ResultsTellJobs
INVARIANT ImagesAreOwn
INVARIANT SplitIsWhole
INVARIANT LabelsAreListed
PROPERTY ReportComes
CHECK_DEADLOCK FALSE
