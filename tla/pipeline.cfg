CONSTANTS
  x = x
  y = y
  z = z
  X1 = X1
  X2 = X2
  Xraw = Xraw
  Y1 = Y1
  Z1 = Z1
  blank = blank
  Texts <- AllTexts
  Empty = blank
  Lowers <- AllLowers
  Normal <- NormalOf
  Lower <- LowerOf
  Shapes <- SomeShapes
  Scores <- SomeScores
  MaxNames = 2
  Digits <- SomeDigits
  MaxWhole = 3
  MaxFraction = 3
  Size = 8
  MaxDim = 20
  PadPart = 5
  Sides <- SomeSides
  Edges <- SomeEdges
SPECIFICATION PipeSpec
INVARIANT AnswersAreStable
INVARIANT ListedIsFound
INVARIANT MeaningKept
INVARIANT EqualTextsSayTheSame
INVARIANT CropShowsBox
INVARIANT OnlyThreadsVanish
PROPERTY LossesAreShadowed
CHECK_DEADLOCK FALSE
