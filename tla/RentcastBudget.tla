---------------------------- MODULE RentcastBudget ----------------------------
(***************************************************************************)
(* The paid valuations of houses: price_batch takes its candidates once,   *)
(* reserves a call of the month's budget for each (reserve_rentcast_call), *)
(* asks the provider, and records the answer twice: on the reservation     *)
(* and on the house.  Batches of several requests run at the same time.    *)
(***************************************************************************)
EXTENDS Integers, FiniteSets

CONSTANTS
    House,       \* houses of leads without an estimate
    Batcher,     \* threads that run price_batch
    Reservation, \* rows of rentcast_calls by their id: 1 .. n
    Cap,         \* RENTCAST_MONTHLY_CAP
    HardCap,     \* 50, in the code and in the trigger of the table
    Window       \* 31 days

\* What the module takes of its constants; the module that instances it assumes it.
BudgetAssumption ==
    /\ Reservation \subseteq Nat \ {0} /\ {Cap, HardCap} \subseteq Nat /\ Window \in Nat \ {0}

VARIABLES
    paid,      \* [Reservation -> its row]
    worth,     \* houses with estimated_arv
    fruitless, \* houses whose arv_confidence is rentcast_no_data
    batch,     \* [Batcher -> where its loop stands]
    charged     \* history: [Reservation -> requests sent under it; 2: or more]

budgetVars == <<paid, worth, fruitless, batch, charged>>

Outcome == {"reserved", "ok", "no_data", "error"}
Answer == {"ok", "no_data", "refused", "error", "lost"}
NoPaid == [outcome |-> "none"]
Paid == {NoPaid} \cup [outcome : Outcome, house : House, left : 0 .. Window]
NoBatch == [at |-> "idle"]
Batch == {NoBatch}
    \cup [at : {"loop"}, todo : SUBSET House]
    \cup [at : {"reserved"}, todo : SUBSET House, house : House, call : Reservation]
    \cup [at : {"answered"}, todo : SUBSET House, house : House, call : Reservation, answer : Answer]
    \cup [at : {"saving"}, todo : SUBSET House, house : House, found : BOOLEAN]

Init ==
    /\ paid = [c \in Reservation |-> NoPaid] /\ worth = {} /\ fruitless = {}
    /\ batch = [b \in Batcher |-> NoBatch] /\ charged = [c \in Reservation |-> 0]

Least(m, n) == IF m < n THEN m ELSE n
InWindow == {c \in Reservation : paid[c] # NoPaid /\ paid[c].left > 0}
UsedByFinished == Cardinality({c \in InWindow : paid[c].outcome # "reserved"})
    \* mutant: a reservation counts once it is finished
Used == Cardinality(InWindow)
-----------------------------------------------------------------------------
Continues(todo) == IF todo = {} THEN NoBatch ELSE [at |-> "loop", todo |-> todo]

\* price_batch: rentcast_candidates, of which the batch keeps as many as it is to price.
Start(b) ==
    /\ batch[b] = NoBatch
    /\ \E chosen \in SUBSET (House \ (worth \cup fruitless)) :
        batch' = [batch EXCEPT ![b] = Continues(chosen)]
    /\ UNCHANGED <<paid, worth, fruitless, charged>>

\* reserve_rentcast_call: under a lock of the transaction, the insert and its trigger in it.
Reserve(b, h) ==
    /\ batch[b].at = "loop" /\ h \in batch[b].todo
    /\ IF Used >= Least(Cap, HardCap)
       THEN batch' = [batch EXCEPT ![b] = NoBatch] /\ UNCHANGED paid
       ELSE \E c \in Reservation :
            /\ paid[c] = NoPaid /\ \A d \in Reservation : d < c => paid[d] # NoPaid
            /\ paid' = [paid EXCEPT ![c] =
                   [outcome |-> "reserved", house |-> h, left |-> Window]]
            /\ batch' = [batch EXCEPT ![b] =
                   [at |-> "reserved", todo |-> batch[b].todo \ {h}, house |-> h, call |-> c]]
    /\ UNCHANGED <<worth, fruitless, charged>>

Request(b, answer) ==
    /\ batch[b].at = "reserved"
    /\ charged' = [charged EXCEPT ![batch[b].call] = Least(@ + 1, 2)]
    /\ batch' = [batch EXCEPT ![b] =
           [at |-> "answered", todo |-> batch[b].todo, house |-> batch[b].house,
            call |-> batch[b].call, answer |-> answer]]
    /\ UNCHANGED <<paid, worth, fruitless>>

\* finish_rentcast_call: a row is finished once.  When that write fails the answer is dropped.
OutcomeOf(answer) == IF answer \in {"ok", "no_data"} THEN answer ELSE "error"

Finish(b, saved) ==
    LET step == batch[b]
    IN  /\ step.at = "answered"
        /\ paid' = IF saved /\ paid[step.call].outcome = "reserved"
                   THEN [paid EXCEPT ![step.call].outcome = OutcomeOf(step.answer)]
                   ELSE paid
        /\ batch' = [batch EXCEPT ![b] =
               IF saved /\ step.answer \in {"ok", "no_data"}
               THEN [at |-> "saving", todo |-> step.todo, house |-> step.house,
                     found |-> step.answer = "ok"]
               ELSE IF saved /\ step.answer = "refused" THEN NoBatch
               ELSE Continues(step.todo)]
        /\ UNCHANGED <<worth, fruitless, charged>>

\* save_rentcast_valuation, whose failure is counted; mark_rentcast_no_data, whose
\* failure ends the batch.  A valuation overwrites the mark of an earlier answer.
Save(b, saved) ==
    LET step == batch[b]
    IN  /\ step.at = "saving"
        /\ worth' = IF saved /\ step.found THEN worth \cup {step.house} ELSE worth
        /\ fruitless' = IF ~ saved THEN fruitless
                        ELSE IF step.found THEN fruitless \ {step.house}
                        ELSE fruitless \cup {step.house}
        /\ batch' = [batch EXCEPT ![b] =
               IF saved \/ step.found THEN Continues(step.todo) ELSE NoBatch]
        /\ UNCHANGED <<paid, charged>>

\* The process stops: its batches with it, the reservations remain.
Crash(b) ==
    /\ batch[b] # NoBatch
    /\ batch' = [batch EXCEPT ![b] = NoBatch]
    /\ UNCHANGED <<paid, worth, fruitless, charged>>

Tick ==
    /\ InWindow # {}
    /\ paid' = [c \in Reservation |-> IF c \in InWindow THEN [paid[c] EXCEPT !.left = @ - 1]
                                      ELSE paid[c]]
    /\ UNCHANGED <<worth, fruitless, batch, charged>>

Next ==
    \/ \E b \in Batcher :
        \/ Start(b) \/ Crash(b)
        \/ \E h \in House : Reserve(b, h)
        \/ \E answer \in Answer : Request(b, answer)
        \/ \E saved \in BOOLEAN : Finish(b, saved) \/ Save(b, saved)
    \/ Tick

Spec == Init /\ [][Next]_budgetVars
-----------------------------------------------------------------------------
TypeOK ==
    /\ paid \in [Reservation -> Paid] /\ worth \subseteq House /\ fruitless \subseteq House
    /\ batch \in [Batcher -> Batch] /\ charged \in [Reservation -> 0 .. 2]

\* Batches that run together stay within the month's budget, whatever fails after the
\* reservation.
WithinBudget == Used <= Least(Cap, HardCap)

\* No request goes out without a reservation of its own.
ReservedRequests == \A c \in Reservation : charged[c] > 0 => charged[c] = 1 /\ paid[c] # NoPaid

\* An estimate on a house, or the mark that there is none, was paid for.
RecordedWasPaid ==
    \A h \in worth \cup fruitless : \E c \in Reservation :
        charged[c] = 1 /\ paid[c].house = h /\ paid[c].outcome \in {"ok", "no_data"}

\* Every paid request is in the budget of its month, and every estimate comes from one.
BudgetSound == TypeOK /\ WithinBudget /\ ReservedRequests /\ RecordedWasPaid
=============================================================================
