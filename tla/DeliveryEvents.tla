--------------------------- MODULE DeliveryEvents ---------------------------
(***************************************************************************)
(* What becomes of a sent text or mail: the provider's reports, staged in  *)
(* the delivery journal by the webhooks (stage_delivery_events), and the   *)
(* loop of alerts/delivery.py that carries acceptances and reports to      *)
(* apply_delivery_event in PostgreSQL.                                     *)
(*                                                                         *)
(* MessageIntents models the senders; of them a message keeps here how far *)
(* it has come: the provider has it (its intent is "sending", its answer   *)
(* under way or lost), or it is accepted.                                  *)
(***************************************************************************)
EXTENDS Integers, Sequences, FiniteSets, SequencesExt

CONSTANTS
    Message,
    Mail,         \* the messages that are mails; the others are texts
    Status,       \* what a provider reports
    Reports,      \* [Message -> what it may report of it] (bound of the model)
    Success,      \* delivered, read
    Failure,      \* failed, undelivered, canceled, bounce, dropped
    Suppressing,  \* for mails: bounce, dropped, spamreport, unsubscribe, group_unsubscribe
    Worker,       \* processes that run recover_loop
    Limit         \* rows that recover_delivery_events reads at once: 100

\* What the module takes of its constants; the module that instances it assumes it.
DeliveryAssumption ==
    /\ Mail \subseteq Message /\ "accepted" \notin Status
    /\ Reports \in [Message -> SUBSET Status]
    /\ Success \cup Failure \cup Suppressing \subseteq Status
    /\ Success \cap Failure = {} /\ Limit \in Nat \ {0}

VARIABLES
    intent,      \* [Message -> state in message_intents; "none": not with the provider]
    acceptance,  \* [Message -> state in message_acceptances; "none": no row]
    blocked,     \* mails whose address is in email_blocks
    fresh,       \* delivery_events, pending and never tried (here in any order)
    tried,       \* delivery_events, pending and tried, earliest attempt first
    synced,      \* delivery_events, synced
    worker,      \* [Worker -> where it stands in its round]
    applied,     \* rows of provider_delivery_events
    projected,   \* [Message -> delivery_status in provider_delivery_messages]
    paused       \* mails whose lead a report has set email_paused for

vars == <<intent, acceptance, blocked, fresh, tried, synced, worker, applied,
          projected, paused>>
journal == <<fresh, tried, synced>>
remote == <<applied, projected, paused>>

Event == [message : Message, status : Status \cup {"accepted"}]
Accepted(m) == [message |-> m, status |-> "accepted"]
Pending == fresh \cup ToSet(tried)
Journalled == Pending \cup synced

Verdict == {"unknown", "pending", "delivered", "failed", "conflicting_receipts"}

Idle == [at |-> "idle"]
Round == {Idle}
    \cup [at : {"staging"}, todo : SUBSET Message]
    \cup [at : {"staged"}, todo : SUBSET Message, message : Message]
    \cup [at : {"rows"}, rows : (SUBSET Event) \ {{}}]
    \cup [at : {"attempted", "applied"}, rows : SUBSET Event, row : Event]

\* Messages that an earlier release has sent have no acceptance.
Init ==
    /\ intent \in [Message -> {"none", "accepted"}]
    /\ blocked = {} /\ fresh = {} /\ synced = {} /\ applied = {} /\ paused = {}
    /\ acceptance = [m \in Message |-> "none"]
    /\ tried = <<>>
    /\ worker = [w \in Worker |-> Idle]
    /\ projected = [m \in Message |-> "unknown"]
-----------------------------------------------------------------------------
\* A sender has bound the message and posted it, and its answer may come or not.
Post(m) ==
    /\ intent[m] = "none" /\ m \notin blocked
    /\ intent' = [intent EXCEPT ![m] = "sending"]
    /\ UNCHANGED <<acceptance, blocked, journal, worker, remote>>

Accept(m) ==
    /\ intent[m] = "sending"
    /\ intent' = [intent EXCEPT ![m] = "accepted"]
    /\ acceptance' = [acceptance EXCEPT ![m] = "pending"]
    /\ UNCHANGED <<blocked, journal, worker, remote>>

(***************************************************************************)
(* Reports.  The identity of a report is its content: one that comes again *)
(* is not written again.  A mail's suppressing report blocks its address   *)
(* in the same transaction.                                                *)
(***************************************************************************)
Stage(e) ==
    /\ fresh' = IF e \in Journalled THEN fresh ELSE fresh \cup {e}
    /\ UNCHANGED <<tried, synced>>

\* The webhooks sms_status_callback and sendgrid_webhook, through accept_events.
Report(m, status) ==
    /\ intent[m] # "none" /\ status \in Reports[m]
    /\ Stage([message |-> m, status |-> status])
    /\ blocked' = IF m \in Mail /\ status \in Suppressing THEN blocked \cup {m} ELSE blocked
    /\ UNCHANGED <<intent, acceptance, worker, remote>>

(***************************************************************************)
(* The recovery loop, first stage_message_acceptances, then                *)
(* recover_delivery_events.                                                *)
(***************************************************************************)
WorkerAt(w, round) == worker' = [worker EXCEPT ![w] = round]

\* One transaction gives the acceptances of an earlier release their row and
\* reads those that are pending.
BeginRound(w) ==
    /\ worker[w] = Idle
    /\ acceptance' = [m \in Message |-> IF intent[m] = "accepted" /\ acceptance[m] = "none"
                                        THEN "pending" ELSE acceptance[m]]
    /\ WorkerAt(w, [at |-> "staging",
                    todo |-> {m \in Message : acceptance'[m] = "pending"}])
    /\ UNCHANGED <<intent, blocked, journal, remote>>

\* Each is written to the delivery journal first, then marked.
StageAcceptance(w) ==
    /\ worker[w].at = "staging"
    /\ \E m \in worker[w].todo :
        /\ Stage(Accepted(m))
        /\ WorkerAt(w, [at |-> "staged", todo |-> worker[w].todo \ {m}, message |-> m])
    /\ UNCHANGED <<intent, acceptance, blocked, remote>>

MarkStaged(w) ==
    /\ worker[w].at = "staged"
    /\ acceptance' = [acceptance EXCEPT ![worker[w].message] = "staged"]
    /\ WorkerAt(w, [at |-> "staging", todo |-> worker[w].todo])
    /\ UNCHANGED <<intent, blocked, journal, remote>>

\* mutant
AtTheFront(e) == <<e>> \o RemoveFirst(tried, e)
AtTheBack(e) == Append(RemoveFirst(tried, e), e)

\* The first Limit pending rows: those never tried come before the others.
Batches ==
    LET n == Min({Limit, Cardinality(fresh)})
        m == Min({Limit - n, Len(tried)})
    IN {F \cup ToSet(SubSeq(tried, 1, m)) : F \in kSubset(n, fresh)}

\* mutant
RowsAlways(w, rows) == WorkerAt(w, [at |-> "rows", rows |-> rows])
RowsAt(w, rows) == WorkerAt(w, IF rows = {} THEN Idle ELSE [at |-> "rows", rows |-> rows])

ReadRows(w) ==
    /\ worker[w] = [at |-> "staging", todo |-> {}]
    /\ \E rows \in Batches : RowsAt(w, rows)
    /\ UNCHANGED <<intent, acceptance, blocked, journal, remote>>

\* delivery_attempts: the row goes to the back of the queue.  (One that another
\* worker has synced in the meantime stays synced.)
Attempt(w) ==
    /\ worker[w].at = "rows"
    /\ \E e \in worker[w].rows :
        /\ WorkerAt(w, [at |-> "attempted", rows |-> worker[w].rows \ {e}, row |-> e])
        /\ fresh' = fresh \ {e}
        /\ tried' = IF e \in synced THEN tried ELSE AtTheBack(e)
    /\ UNCHANGED <<intent, acceptance, blocked, synced, remote>>

\* A mail's report names its intent, which has been bound before the mail was
\* posted; a text's report is found by the receipt of an accepted intent.
Binds(e) == e.message \in Mail \/ intent[e.message] = "accepted"

NextRow(w) == RowsAt(w, worker[w].rows)

\* mutant
FailAndMark(w) ==
    /\ worker[w].at = "attempted"
    /\ WorkerAt(w, [at |-> "applied", rows |-> worker[w].rows, row |-> worker[w].row])
    /\ UNCHANGED <<intent, acceptance, blocked, journal, remote>>
\* No binding, or the request failed: the row stays pending.
FailRow(w) ==
    /\ worker[w].at = "attempted"
    /\ NextRow(w)
    /\ UNCHANGED <<intent, acceptance, blocked, journal, remote>>

Verdicts(statuses) ==
    CASE statuses \cap Success # {} /\ statuses \cap Failure # {} -> "conflicting_receipts"
      [] statuses \cap Success # {} /\ statuses \cap Failure = {} -> "delivered"
      [] statuses \cap Success = {} /\ statuses \cap Failure # {} -> "failed"
      [] OTHER -> "pending"
\* mutant
LatestEvidence(m) == {e.status : e \in applied' \ applied}
Evidence(m) == {e.status : e \in {x \in applied' : x.message = m}}

\* apply_delivery_event, one transaction: a row that is there already is
\* answered, another joins the evidence, of which the status is computed anew,
\* a suppressing one of a mail pauses its lead.  The answer may be lost.  (The
\* copy of the status in sms_messages is left out.)
Apply(w) ==
    LET e == worker[w].row  m == e.message IN
    /\ worker[w].at = "attempted" /\ Binds(e)
    /\ applied' = applied \cup {e}
    /\ IF e \in applied THEN UNCHANGED <<projected, paused>>
       ELSE /\ projected' = [projected EXCEPT ![m] = Verdicts(Evidence(m))]
            /\ paused' = IF m \in Mail /\ Evidence(m) \cap Suppressing # {}
                         THEN paused \cup {m} ELSE paused
    /\ \/ WorkerAt(w, [at |-> "applied", rows |-> worker[w].rows, row |-> e])
       \/ NextRow(w)
    /\ UNCHANGED <<intent, acceptance, blocked, journal>>

MarkSynced(w) ==
    /\ worker[w].at = "applied"
    /\ synced' = synced \cup {worker[w].row}
    /\ tried' = RemoveFirst(tried, worker[w].row)
    /\ NextRow(w)
    /\ UNCHANGED <<intent, acceptance, blocked, fresh, remote>>

\* The process dies where that leaves a row half done; elsewhere its death does no
\* more than a request that fails.
Restart(w) ==
    /\ worker[w].at \in {"staged", "applied"}
    /\ WorkerAt(w, Idle)
    /\ UNCHANGED <<intent, acceptance, blocked, journal, remote>>

Step(w) ==
    BeginRound(w) \/ StageAcceptance(w) \/ MarkStaged(w) \/ ReadRows(w) \/ Attempt(w)
    \/ FailRow(w) \/ Apply(w) \/ MarkSynced(w)

Next ==
    \/ \E m \in Message : Post(m) \/ Accept(m)
    \/ \E m \in Message, status \in Status : Report(m, status)
    \/ \E w \in Worker : Step(w) \/ Restart(w)

Spec == Init /\ [][Next]_vars

(***************************************************************************)
(* The loop comes round every five seconds in a process that lives.  It is *)
(* not struck down at the same step for ever, nor does every request fail. *)
(***************************************************************************)
ApplyAnswered(w) == Apply(w) /\ worker'[w].at = "applied"

Fairness ==
    \A w \in Worker :
        /\ WF_vars(Step(w))
        /\ SF_vars(MarkStaged(w)) /\ SF_vars(ApplyAnswered(w)) /\ SF_vars(MarkSynced(w))

FairSpec == Spec /\ Fairness
-----------------------------------------------------------------------------
TypeOK ==
    /\ intent \in [Message -> {"none", "sending", "accepted"}]
    /\ blocked \subseteq Mail
    /\ acceptance \in [Message -> {"none", "pending", "staged"}]
    /\ fresh \subseteq Event /\ tried \in Seq(Event) /\ synced \subseteq Event
    /\ worker \in [Worker -> Round]
    /\ applied \subseteq Event /\ projected \in [Message -> Verdict] /\ paused \subseteq Mail

\* A row of the journal is pending, at one place of the queue, or synced, and it
\* is synced only when the database has it, and has paused the lead of a mail
\* that must not be sent any more, whichever workers carried it.
SyncedIsApplied ==
    /\ IsInjective(tried) /\ fresh \cap ToSet(tried) = {} /\ Pending \cap synced = {}
    /\ synced \subseteq applied
    /\ \A e \in synced : e.message \in Mail /\ e.status \in Suppressing => e.message \in paused

EventsSound == TypeOK /\ SyncedIsApplied

\* Reports come in any order: a message known to be delivered or failed never
\* falls back, and one with contradictory reports stays so (no step does this).
StatusNeverFallsBack ==
    \A m \in Message :
        /\ projected[m] \in {"delivered", "failed"}
              => projected'[m] \in {projected[m], "conflicting_receipts"}
        /\ projected[m] = "conflicting_receipts" => projected'[m] = projected[m]

\* What the provider has accepted, and every report that can be bound, reaches the
\* database, although rows that never can (reports on a text whose answer was
\* lost) fill the batch: a row that was tried goes to the back of the queue.
Drained ==
    /\ \A e \in Pending : ~Binds(e)
    /\ \A m \in Message : intent[m] = "accepted" => Accepted(m) \in synced
EverythingArrives == <>[]Drained
=============================================================================
