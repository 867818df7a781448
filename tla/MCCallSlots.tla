---------------------------- MODULE MCCallSlots ----------------------------
\* Instances of CallSlots for TLC.
EXTENDS CallSlots, TLC

\* Leads, dialers and provider calls are interchangeable.
Symmetry == Permutations(Lead) \cup Permutations(Dialer) \cup Permutations(Call)
=============================================================================
