--------------------------- MODULE MCSpeedTouches ---------------------------
\* Instances of SpeedTouches for TLC.
EXTENDS SpeedTouches, TLC

\* Workers, and leads, are interchangeable (runs without liveness only).
Symmetry == Permutations(Worker) \cup Permutations(Lead)
=============================================================================
