----------------------------- MODULE MCRecords -----------------------------
\* Instances of Records for TLC, one run for all its parts.
EXTENDS Records, TLC

TwoInOneHalfDay == [s \in Hour |-> 1]
Tenures == {-1, 0, 7}

\* Dialers and calls are interchangeable, as are operators and properties, batchers and
\* houses, and writers: the configuration gives the first of each pair the same two model
\* values, and the second two others, so that one group of permutations serves every part.
Symmetry == Permutations(Dialer) \cup Permutations(Call)
=============================================================================
