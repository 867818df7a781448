----------------------------- MODULE MCMessages -----------------------------
\* Instances of Messages for TLC.
EXTENDS Messages, TLC

\* A mail with contradictory reports beside a text, whose reports cannot be bound
\* when its answer was lost.
ReportsOf == [m \in Message |-> IF m \in Mail THEN {"delivered", "bounce"} ELSE {"delivered"}]

\* A call and one turn of it.
CallAndTurn == {[target |-> "t1", call |-> "c1", endpoint |-> "call", key |-> 0],
                [target |-> "t1", call |-> "c1", endpoint |-> "turn", key |-> 1]}
=============================================================================
