--------------------------- MODULE MCJobLifecycle ---------------------------
\* Constants for model-checking JobLifecycle.
EXTENDS JobLifecycle, TLC

CONSTANTS j1, j2, w1, w2

OneJob == {j1}
TwoJobs == {j1, j2}
OneWorker == {w1}
TwoWorkers == {w1, w2}

\* Both jobs show the same receipt.
SameImage == [j \in Jobs |-> "h"]

\* The result of j2 holds a character that Postgres cannot store.
NoneUnstorable == {}
SecondUnstorable == {j2}

Symmetry == Permutations(Workers)
=============================================================================
