---------------------------- MODULE MCDueClaims ----------------------------
\* Instances of DueClaims for TLC.
EXTENDS DueClaims, TLC

\* Pollers, and rows, are interchangeable (runs without liveness properties only).
Symmetry == Permutations(Poller) \cup Permutations(Followup)
=============================================================================
