------------------------- MODULE MCDashboardOutbox -------------------------
\* Instances of DashboardOutbox for TLC.
EXTENDS DashboardOutbox, TLC

Ev(t, c, p, k) == [target |-> t, call |-> c, endpoint |-> p, key |-> k]

\* A call with one event of each endpoint class.
OneCall == {Ev("t1", "c1", "call", 0), Ev("t1", "c1", "turn", 1), Ev("t1", "c1", "business", 0)}

\* A call and one turn.
Pair == {Ev("t1", "c1", "call", 0), Ev("t1", "c1", "turn", 1)}

\* The same call identity at two dashboards.
TwoTargets == {Ev("t1", "c1", "call", 0), Ev("t2", "c1", "call", 0)}

\* Workers are interchangeable (used by runs without liveness properties only).
Symmetry == Permutations(Worker)
=============================================================================
