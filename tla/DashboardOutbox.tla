-------------------------- MODULE DashboardOutbox --------------------------
(***************************************************************************)
(* The dashboard event journal of src/backend/lib/db.py (stage, claim,     *)
(* finish, retry) and the workers of src/backend/karpathys/outbox.py that  *)
(* drain it to the remote dashboard.  Every journal function is one SQLite *)
(* transaction (BEGIN IMMEDIATE), so it is one action.  The HTTP request   *)
(* runs between the claiming and the finishing transaction.                *)
(*                                                                         *)
(* Stored instants are modelled by the time that is left until them, so    *)
(* "due <= now" is due = 0 and "leased_until > now" is leaseLeft > 0.  The *)
(* instants of a dead row are read by nobody (a retry rewrites them all):  *)
(* they are 0 here.                                                        *)
(*                                                                         *)
(* An operator marked "mutant" is used by no action: it is the faulty form *)
(* of the definition below it that shows a property to depend on it.       *)
(***************************************************************************)
EXTENDS Integers, FiniteSets

CONSTANTS
    Event,       \* event identities: what uuid5(target:sid:endpoint:suffix) tells apart
    Target,      \* dashboard destinations (hash of URL and tenant)
    Worker,      \* recovery loops, one per process
    NoWorker,    \* the lease column is NULL
    LeaseTime,   \* 60 seconds
    LifeTime,    \* 7 days: expiry of pending rows, retention of delivered ones
    BackoffCap,  \* 300 seconds
    ExpCap,      \* 8: attempts beyond it no longer lengthen the backoff
    Capacity,    \* 100000 rows
    MaxSeq       \* bound of the model: journal rows ever inserted

\* Endpoints other than these two ("turn", "complete", "ended", ...) are
\* treated alike by the journal and stand together as "turn".
Endpoint == {"call", "business", "turn"}

ASSUME EventAssumption ==
    /\ \A e \in Event : e.target \in Target /\ e.endpoint \in Endpoint
    /\ \A e, f \in Event :
          (e.endpoint = "call" /\ f.endpoint = "call"
             /\ e.target = f.target /\ e.call = f.call) => e = f

ASSUME WorkerAssumption == NoWorker \notin Worker

ASSUME NumberAssumption ==
    /\ LeaseTime \in Nat \ {0} /\ LifeTime \in Nat \ {0}
    /\ BackoffCap \in Nat /\ ExpCap \in Nat \ {0}
    /\ Capacity \in Nat /\ MaxSeq \in Nat

VARIABLES
    state,      \* [Event -> absent | pending | delivered | dead]
    seq,        \* AUTOINCREMENT sequence number of the row
    lastSeq,    \* last sequence number given
    due,        \* time left until the row may be tried
    ttl,        \* pending: time left until it expires; delivered: until it may be pruned
    holder,     \* lease: the worker that owns the token (a worker has one at a time)
    leaseLeft,  \* time left until leased_until
    attempts,   \* attempts, saturated at ExpCap
    job,        \* [Worker -> what its recover_events iteration holds]
    dest,       \* [Worker -> Target]: client.delivery_target() of its process
    accepted,   \* history: events the remote dashboard has persisted
    retried     \* history: events an operator put back from dead to pending

rows == <<state, seq, lastSeq, due, ttl, holder, leaseLeft, attempts>>
vars == <<state, seq, lastSeq, due, ttl, holder, leaseLeft, attempts,
          job, dest, accepted, retried>>

Idle == [stage |-> "idle"]
Job ==
    {Idle} \cup [stage : {"sending"}, event : Event]
           \cup [stage : {"answered"}, event : Event,
                 outcome : {"receipt", "retry", "permanent"}]

SameCall(e, f) == e.target = f.target /\ e.call = f.call
IsRoot(r, e) == SameCall(r, e) /\ r.endpoint = "call"
Dependent(e) == e.endpoint \notin {"call", "business"}
Leased(e) == leaseLeft[e] > 0
Present == {e \in Event : state[e] # "absent"}
Backoff(n) == LET raw == 2 ^ n IN IF raw \in 0 .. BackoffCap THEN raw ELSE BackoffCap
Saturate(n) == IF n < ExpCap THEN n ELSE ExpCap
-----------------------------------------------------------------------------
Init ==
    /\ state = [e \in Event |-> "absent"]
    /\ seq = [e \in Event |-> 0]
    /\ lastSeq = 0
    /\ due = [e \in Event |-> 0]
    /\ ttl = [e \in Event |-> 0]
    /\ holder = [e \in Event |-> NoWorker]
    /\ leaseLeft = [e \in Event |-> 0]
    /\ attempts = [e \in Event |-> 0]
    /\ job = [w \in Worker |-> Idle]
    /\ dest \in [Worker -> Target]
    /\ accepted = {}
    /\ retried = {}

(***************************************************************************)
(* stage_dashboard_event.  A row that exists is left alone (a replay       *)
(* returns its id, one with another fingerprint raises).  Otherwise the    *)
(* delivered rows past retention go first, also when the journal then      *)
(* turns out full: but that raises and the transaction rolls back.         *)
(***************************************************************************)
Prunable(e) == state[e] = "delivered" /\ ttl[e] = 0

StageEvent(w, e) ==
    LET pruned == {f \in Event : Prunable(f)}
    IN  /\ e.target = dest[w]
        /\ state[e] = "absent"
        /\ lastSeq < MaxSeq
        /\ Cardinality(Present \ pruned) < Capacity
        /\ state' = [f \in Event |-> IF f = e THEN "pending"
                                     ELSE IF f \in pruned THEN "absent" ELSE state[f]]
        /\ lastSeq' = lastSeq + 1
        /\ seq' = [seq EXCEPT ![e] = lastSeq + 1]
        /\ due' = [due EXCEPT ![e] = 0]
        /\ ttl' = [ttl EXCEPT ![e] = LifeTime]
        /\ holder' = [holder EXCEPT ![e] = NoWorker]
        /\ leaseLeft' = [leaseLeft EXCEPT ![e] = 0]
        /\ attempts' = [attempts EXCEPT ![e] = 0]
        /\ retried' = retried \ (pruned \cup {e})
        /\ UNCHANGED <<job, dest, accepted>>

(***************************************************************************)
(* The three sweeps at the head of claim_dashboard_event, in their order:  *)
(* the third sees the roots the first two have just buried.                *)
(***************************************************************************)
\* mutant
ForAnyTarget(e, t) == TRUE
ForTarget(e, t) == e.target = t
\* mutant
NeverExpired(e) == FALSE
Expired(e) == ttl[e] = 0
Sweepable(e) == state[e] = "pending" /\ ~Leased(e)
Buried(t) == {e \in Event : Sweepable(e) /\ (Expired(e) \/ ~ForTarget(e, t))}
Orphaned(t) ==
    {e \in Event \ Buried(t) :
        /\ Sweepable(e)
        /\ e.endpoint # "call"
        /\ \E r \in Event : IsRoot(r, e) /\ (state[r] = "dead" \/ r \in Buried(t))}
AfterSweep(t) ==
    [e \in Event |-> IF e \in Buried(t) \cup Orphaned(t) THEN "dead" ELSE state[e]]

Running(timer, st) == [e \in Event |-> IF st[e] = "dead" THEN 0 ELSE timer[e]]

\* The claiming SELECT, over the states st after the sweeps: no live lease on
\* the call, the call's own row delivered, nothing earlier of it pending.
\* mutant
RowBusy(e, st) == st[e] = "pending" /\ Leased(e)
CallBusy(e, st) == \E f \in Event : SameCall(f, e) /\ st[f] = "pending" /\ Leased(f)
\* mutant
CallNotDead(e, st) == \E r \in Event : IsRoot(r, e) /\ st[r] # "dead"
CallDelivered(e, st) == \E r \in Event : IsRoot(r, e) /\ st[r] = "delivered"
Earlier(p, e) == SameCall(p, e) /\ p.endpoint # "call" /\ e.endpoint # "call" /\ seq[p] < seq[e]
\* mutant
WaitsForDueRow(e, st) == \E p \in Event : Earlier(p, e) /\ st[p] = "pending" /\ due[p] = 0
Waits(e, st) == \E p \in Event : Earlier(p, e) /\ st[p] = "pending"
Claimable(t, st) ==
    {e \in Event :
        /\ st[e] = "pending" /\ ForTarget(e, t)
        /\ due[e] = 0 /\ ~Leased(e)
        /\ ~CallBusy(e, st)
        /\ Dependent(e) => CallDelivered(e, st)
        /\ ~Waits(e, st)}

\* ORDER BY seq LIMIT 1
IsFirst(e, S) == e \in S /\ \A f \in S : seq[e] <= seq[f]

ClaimEvent(w) ==
    LET st == AfterSweep(dest[w])
        open == Claimable(dest[w], st)
    IN  /\ job[w] = Idle
        /\ state' = st
        /\ due' = Running(due, st)
        /\ ttl' = Running(ttl, st)
        /\ \/ /\ open = {}
              /\ holder' = [e \in Event |-> IF e \in Buried(dest[w]) THEN NoWorker ELSE holder[e]]
              /\ UNCHANGED <<job, leaseLeft, attempts>>
           \/ \E e \in open :
              /\ IsFirst(e, open)
              /\ holder' = [f \in Event |-> IF f = e THEN w
                                            ELSE IF f \in Buried(dest[w]) THEN NoWorker
                                            ELSE holder[f]]
              /\ leaseLeft' = [leaseLeft EXCEPT ![e] = LeaseTime]
              /\ attempts' = [attempts EXCEPT ![e] = Saturate(@ + 1)]
              /\ job' = [job EXCEPT ![w] = [stage |-> "sending", event |-> e]]
        /\ UNCHANGED <<seq, lastSeq, dest, accepted, retried>>

(***************************************************************************)
(* client.send_event, two HTTP attempts.  A validated receipt means that   *)
(* the dashboard persisted the event; a timeout, an invalid answer or a    *)
(* rejection of the second attempt leaves open whether it did.             *)
(***************************************************************************)
\* mutant
AnyAnswerIsReceipt(outcome, persisted) == TRUE
Possible(outcome, persisted) == outcome = "receipt" => persisted

SendEvent(w) ==
    /\ job[w].stage = "sending"
    /\ \E outcome \in {"receipt", "retry", "permanent"}, persisted \in BOOLEAN :
        /\ Possible(outcome, persisted)
        /\ accepted' = IF persisted THEN accepted \cup {job[w].event} ELSE accepted
        /\ job' = [job EXCEPT ![w] = [stage |-> "answered", event |-> job[w].event,
                                      outcome |-> outcome]]
    /\ UNCHANGED <<rows, dest, retried>>

(***************************************************************************)
(* finish_dashboard_event: only for the owner of an unexpired lease.       *)
(***************************************************************************)
\* mutant
OwnsUnfenced(w, e) == state[e] = "pending" /\ Leased(e)
Owns(w, e) == state[e] = "pending" /\ holder[e] = w /\ Leased(e)

Settled(outcome) ==
    CASE outcome = "receipt"   -> "delivered"
      [] outcome = "permanent" -> "dead"
      [] outcome = "retry"     -> "pending"

FinishEvent(w) ==
    /\ job[w].stage = "answered"
    /\ job' = [job EXCEPT ![w] = Idle]
    /\ LET e == job[w].event
           outcome == job[w].outcome
       IN  \/ /\ ~Owns(w, e)
              /\ UNCHANGED <<state, due, ttl, holder, leaseLeft>>
           \/ /\ Owns(w, e)
              /\ state' = [state EXCEPT ![e] = Settled(outcome)]
              /\ due' = [due EXCEPT ![e] = IF outcome = "retry" THEN Backoff(attempts[e])
                                           ELSE 0]
              /\ ttl' = [ttl EXCEPT ![e] = CASE outcome = "receipt" -> LifeTime
                                             [] outcome = "permanent" -> 0
                                             [] outcome = "retry" -> ttl[e]]
              /\ holder' = [holder EXCEPT ![e] = NoWorker]
              /\ leaseLeft' = [leaseLeft EXCEPT ![e] = 0]
    /\ UNCHANGED <<seq, lastSeq, attempts, dest, accepted, retried>>

\* retry_dashboard_event, the operator's route in api/routes/health.py.
RetryEvent(w, e) ==
    /\ e.target = dest[w]
    /\ state[e] = "dead"
    /\ state' = [state EXCEPT ![e] = "pending"]
    /\ due' = [due EXCEPT ![e] = 0]
    /\ ttl' = [ttl EXCEPT ![e] = LifeTime]
    /\ holder' = [holder EXCEPT ![e] = NoWorker]
    /\ leaseLeft' = [leaseLeft EXCEPT ![e] = 0]
    /\ retried' = retried \cup {e}
    /\ UNCHANGED <<seq, lastSeq, attempts, job, dest, accepted>>

\* The process dies or its loop is cancelled at any point; it comes back,
\* perhaps configured for another dashboard.  Only the journal survives.
Restart(w, t) ==
    /\ <<job[w], dest[w]>> # <<Idle, t>>
    /\ job' = [job EXCEPT ![w] = Idle]
    /\ dest' = [dest EXCEPT ![w] = t]
    /\ UNCHANGED <<rows, accepted, retried>>

Less(f) == [e \in Event |-> IF f[e] > 0 THEN f[e] - 1 ELSE 0]

Tick ==
    /\ \E e \in Event : due[e] > 0 \/ ttl[e] > 0 \/ leaseLeft[e] > 0
    /\ due' = Less(due)
    /\ ttl' = Less(ttl)
    /\ leaseLeft' = Less(leaseLeft)
    /\ UNCHANGED <<state, seq, lastSeq, holder, attempts, job, dest, accepted, retried>>

Next ==
    \/ \E w \in Worker, e \in Event : StageEvent(w, e) \/ RetryEvent(w, e)
    \/ \E w \in Worker : ClaimEvent(w) \/ SendEvent(w) \/ FinishEvent(w)
    \/ \E w \in Worker, t \in Target : Restart(w, t)
    \/ Tick

Spec == Init /\ [][Next]_vars

\* recovery_loop polls every five seconds for as long as its process lives,
\* and every request ends (httpx timeout).  Nothing is assumed of producers,
\* operators, restarts or of what the dashboard answers.
GoOn(w) == ClaimEvent(w) \/ SendEvent(w) \/ FinishEvent(w)
Fairness ==
    /\ WF_vars(Tick)
    /\ \A w \in Worker : WF_vars(GoOn(w))

FairSpec == Spec /\ Fairness
-----------------------------------------------------------------------------
TypeOK ==
    /\ state \in [Event -> {"absent", "pending", "delivered", "dead"}]
    /\ seq \in [Event -> 0 .. lastSeq]
    /\ lastSeq \in Nat
    /\ due \in [Event -> Nat]
    /\ ttl \in [Event -> Nat]
    /\ holder \in [Event -> Worker \cup {NoWorker}]
    /\ leaseLeft \in [Event -> Nat]
    /\ attempts \in [Event -> 0 .. ExpCap]
    /\ job \in [Worker -> Job]
    /\ dest \in [Worker -> Target]
    /\ accepted \subseteq Event
    /\ retried \subseteq Event

\* Two workers never both hold a live lease on events of one call, whatever
\* crashes, expiries, sweeps and operator retries come between the claims
\* (claim_dashboard_event, the NOT EXISTS ... active clause).
OneLeasePerCall ==
    \A e, f \in Event :
        (SameCall(e, f) /\ state[e] = "pending" /\ state[f] = "pending"
            /\ Leased(e) /\ Leased(f)) => e = f

\* The dashboard never persists an event of a call it has not been told of,
\* not even from a worker whose lease has lapsed or after retention pruned
\* the call's own row.
CallPrecedesItsEvents ==
    \A e \in accepted : Dependent(e) => \E r \in accepted : IsRoot(r, e)

\* The journal never reports as delivered what the dashboard did not persist.
DeliveredIsPersisted == \A e \in Event : state[e] = "delivered" => e \in accepted

\* Within a call events are delivered in the order they were staged: a row
\* still waiting behind a delivered later one was put back by an operator.
DeliveredInOrder ==
    \A p, e \in Event :
        (Earlier(p, e) /\ state[p] = "pending" /\ state[e] = "delivered")
        => p \in retried

\* A payload staged for one dashboard is never sent to another, also when a
\* process comes back configured for another destination while rows are
\* pending and leases of its former life are open.
EventsStayWithTheirDestination ==
    \A w \in Worker : job[w].stage = "sending" => job[w].event.target = dest[w]

\* While a worker's lease lives, nobody else settles, buries, revives or
\* re-leases its row: sweeps, retries and late answers of earlier owners
\* all leave it alone.
LiveLeaseIsExclusive ==
    [][\A w \in Worker, e \in Event :
          (/\ job[w].stage # "idle" /\ job[w].event = e
           /\ state[e] = "pending" /\ holder[e] = w /\ Leased(e)
           /\ job'[w] = job[w])
          => state'[e] = "pending" /\ holder'[e] = w]_vars

\* Leases, retries, crashes and clocks are all behind the promise of CallFeed:
\* every step of the journal and its workers is a step of it or none.
Feed == INSTANCE CallFeed WITH status <- state, order <- seq, last <- lastSeq,
                               persisted <- accepted, revived <- retried
ImplementsCallFeed == Feed!Spec

\* No event waits for ever, even when the dashboard is down, workers crash
\* again and again, or the call's own row is gone: it is delivered, or it
\* turns dead where the operator sees it.
NothingWaitsForever == \A e \in Event : []<>(state[e] # "pending")
=============================================================================
