----------------------------- MODULE MCPipeline ------------------------------
(***************************************************************************)
(* A small instance of Pipeline for TLC: three lower-case forms, the first *)
(* of them in three spellings, one of which is not normalised; numbers     *)
(* with few digits; and a canvas of 8 pixels for pictures of up to 20,     *)
(* which is the ratio of the settings.                                     *)
(***************************************************************************)
EXTENDS Pipeline

CONSTANTS x, y, z, X1, X2, Xraw, Y1, Z1, blank

AllTexts == {blank, X1, X2, Xraw, Y1, Z1}
AllLowers == {x, y, z}
NormalOf == [t \in AllTexts |-> IF t = Xraw THEN X1 ELSE t]
LowerOf ==
  [t \in AllTexts |-> IF t = blank THEN blank
                      ELSE IF t = Y1 THEN y ELSE IF t = Z1 THEN z ELSE x]

\* The form x is in the middle; y and z are near or far.
SomeShapes ==
  {[l \in AllLowers |-> IF l = x THEN [prefix |-> "p", size |-> 2] ELSE IF l = y THEN s ELSE u] :
     s \in [prefix : {"p", "q"}, size : 1..4], u \in [prefix : {"p"}, size : 2..3]}

\* Alike in the bands that the cutoffs separate.
Levels == {50, 65, 75, 90}
SomeScores ==
  {[l \in AllLowers |-> [m \in AllLowers |->
      IF l = m THEN 100 ELSE IF {l, m} = {x, y} THEN a
      ELSE IF {l, m} = {x, z} THEN b ELSE 50]] : a \in Levels, b \in Levels}

SomeDigits == {0, 7}
SomeSides == {1, 2, 5, 6, 8, 9, 21, 47}
SomeEdges == {-1, 0, 3, 4, 6, 9, 15, 16}
=============================================================================
