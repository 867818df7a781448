------------------------------ MODULE CallFeed ------------------------------
(***************************************************************************)
(* What the dashboard journal promises to the calls that emit events and   *)
(* to the dashboard that reads them, without leases, workers or clocks:    *)
(* rows are delivered only once the dashboard has persisted them, a call   *)
(* before its events, and the events of one call in the order of their     *)
(* staging unless an operator revived a row.                               *)
(***************************************************************************)
EXTENDS Integers

CONSTANTS Event

VARIABLES status, order, last, persisted, revived

vars == <<status, order, last, persisted, revived>>

SameCall(e, f) == e.target = f.target /\ e.call = f.call
Dependent(e) == e.endpoint \notin {"call", "business"}
Announced(e) == \E r \in persisted : SameCall(r, e) /\ r.endpoint = "call"
Ahead(p, e) ==
    SameCall(p, e) /\ p.endpoint # "call" /\ e.endpoint # "call" /\ order[p] < order[e]

Init ==
    /\ status = [e \in Event |-> "absent"]
    /\ order = [e \in Event |-> 0]
    /\ last = 0
    /\ persisted = {}
    /\ revived = {}

\* A new row goes to the end; delivered rows past retention may be forgotten.
Stage(e) ==
    \E forgotten \in SUBSET {f \in Event : status[f] = "delivered"} :
        /\ status[e] = "absent"
        /\ status' = [f \in Event |-> IF f = e THEN "pending"
                                      ELSE IF f \in forgotten THEN "absent" ELSE status[f]]
        /\ last' = last + 1
        /\ order' = [order EXCEPT ![e] = last + 1]
        /\ revived' = revived \ (forgotten \cup {e})
        /\ UNCHANGED persisted

\* The dashboard takes an event in, once or again.
Persist(e) ==
    /\ Dependent(e) => Announced(e)
    /\ persisted' = persisted \cup {e}
    /\ UNCHANGED <<status, order, last, revived>>

Deliver(e) ==
    /\ status[e] = "pending"
    /\ e \in persisted
    /\ \A p \in Event : Ahead(p, e) /\ status[p] = "pending" => p \in revived
    /\ status' = [status EXCEPT ![e] = "delivered"]
    /\ UNCHANGED <<order, last, persisted, revived>>

\* Rows are given up: rejected, expired, for another destination, or of a dead call.
GiveUp ==
    \E given \in SUBSET {f \in Event : status[f] = "pending"} :
        /\ status' = [f \in Event |-> IF f \in given THEN "dead" ELSE status[f]]
        /\ UNCHANGED <<order, last, persisted, revived>>

Revive(e) ==
    /\ status[e] = "dead"
    /\ status' = [status EXCEPT ![e] = "pending"]
    /\ revived' = revived \cup {e}
    /\ UNCHANGED <<order, last, persisted>>

Next == GiveUp \/ \E e \in Event : Stage(e) \/ Persist(e) \/ Deliver(e) \/ Revive(e)

Spec == Init /\ [][Next]_vars
=============================================================================
