----------------------- MODULE DashboardOutboxProofs -----------------------
(***************************************************************************)
(* Theorems about DashboardOutbox for any set of events, destinations and  *)
(* workers, and any lease, expiry, retention and backoff times.            *)
(***************************************************************************)
EXTENDS DashboardOutbox, TLAPS

\* What a worker that is not idle holds.
LEMMA JobFields ==
    ASSUME TypeOK, NEW w \in Worker
    PROVE  /\ job[w].stage \in {"idle", "sending", "answered"}
           /\ job[w].stage = "idle" => job[w] = Idle
           /\ job[w].stage # "idle" => job[w].event \in Event
           /\ job[w].stage = "answered" => job[w].outcome \in {"receipt", "retry", "permanent"}
  BY DEF TypeOK, Job, Idle

\* The backoff is a natural number, whatever the number of attempts.
LEMMA BackoffNat == ASSUME NEW n PROVE Backoff(n) \in Nat
  BY NumberAssumption DEF Backoff

\* The sweeps only bury pending rows without a live lease.
LEMMA SweepOnlyBuries ==
    ASSUME TypeOK, NEW t, NEW e \in Event
    PROVE  /\ AfterSweep(t) \in [Event -> {"absent", "pending", "delivered", "dead"}]
           /\ AfterSweep(t)[e] # state[e]
                 => state[e] = "pending" /\ leaseLeft[e] = 0 /\ AfterSweep(t)[e] = "dead"
  BY DEF TypeOK, AfterSweep, Buried, Orphaned, Sweepable, Leased

\* Type correctness is inductive.
LEMMA TypeStep == TypeOK /\ [Next]_vars => TypeOK'
  <1> SUFFICES ASSUME TypeOK, [Next]_vars PROVE TypeOK'
    OBVIOUS
  <1> USE NumberAssumption
  <1>1. ASSUME NEW w \in Worker, NEW e \in Event, StageEvent(w, e) PROVE TypeOK'
    BY <1>1 DEF TypeOK, StageEvent
  <1>2. ASSUME NEW w \in Worker, NEW e \in Event, RetryEvent(w, e) PROVE TypeOK'
    BY <1>2 DEF TypeOK, RetryEvent
  <1>3. ASSUME NEW w \in Worker, ClaimEvent(w) PROVE TypeOK'
    <2> DEFINE st == AfterSweep(dest[w])
    <2>1. st \in [Event -> {"absent", "pending", "delivered", "dead"}]
      BY DEF TypeOK, AfterSweep
    <2>2. state' = st
      BY <1>3 DEF ClaimEvent
    <2>3. due' \in [Event -> Nat] /\ ttl' \in [Event -> Nat]
      BY <1>3 DEF ClaimEvent, Running, TypeOK
    <2>4. job' \in [Worker -> Job]
      <3>1. \A e \in Event : [stage |-> "sending", event |-> e] \in Job
        BY DEF Job
      <3>2. job' = job \/ \E e \in Event : job' = [job EXCEPT ![w] = [stage |-> "sending", event |-> e]]
        BY <1>3 DEF ClaimEvent, Claimable
      <3>3. QED
        BY <3>1, <3>2 DEF TypeOK
    <2>5. holder' \in [Event -> Worker \cup {NoWorker}]
      BY <1>3 DEF ClaimEvent, TypeOK
    <2>6. leaseLeft' \in [Event -> Nat] /\ attempts' \in [Event -> 0 .. ExpCap]
      BY <1>3 DEF ClaimEvent, TypeOK, Saturate
    <2> HIDE DEF st
    <2>7. QED
      BY <1>3, <2>1, <2>2, <2>3, <2>4, <2>5, <2>6 DEF ClaimEvent, TypeOK
  <1>4. ASSUME NEW w \in Worker, SendEvent(w) PROVE TypeOK'
    <2>1. job[w].event \in Event
      BY <1>4, JobFields DEF SendEvent
    <2>2. job' \in [Worker -> Job]
      BY <1>4, <2>1 DEF SendEvent, TypeOK, Job
    <2>3. QED
      BY <1>4, <2>1, <2>2 DEF SendEvent, TypeOK, rows
  <1>5. ASSUME NEW w \in Worker, FinishEvent(w) PROVE TypeOK'
    <2> DEFINE e == job[w].event
    <2>1. e \in Event /\ job[w].outcome \in {"receipt", "retry", "permanent"}
      BY <1>5, JobFields DEF FinishEvent
    <2>2. Settled(job[w].outcome) \in {"pending", "delivered", "dead"}
      BY <2>1 DEF Settled
    <2>3. job' \in [Worker -> Job]
      BY <1>5 DEF FinishEvent, TypeOK, Job
    <2>4. due' \in [Event -> Nat]
      BY <1>5, <2>1, BackoffNat DEF FinishEvent, TypeOK
    <2>5. ttl' \in [Event -> Nat]
      BY <1>5, <2>1 DEF FinishEvent, TypeOK
    <2>6. QED
      BY <1>5, <2>1, <2>2, <2>3, <2>4, <2>5 DEF FinishEvent, TypeOK
  <1>6. ASSUME NEW w \in Worker, NEW t \in Target, Restart(w, t) PROVE TypeOK'
    BY <1>6 DEF TypeOK, Restart, rows, Job
  <1>7. CASE Tick
    BY <1>7 DEF TypeOK, Tick, Less
  <1>8. CASE UNCHANGED vars
    BY <1>8 DEF TypeOK, vars
  <1>9. QED
    BY <1>1, <1>2, <1>3, <1>4, <1>5, <1>6, <1>7, <1>8 DEF Next

\* Every reachable state of the journal and its workers is well typed.
THEOREM TypeCorrect == Spec => []TypeOK
  <1>1. Init => TypeOK
    BY NumberAssumption DEF Init, TypeOK, Job
  <1>2. QED
    BY <1>1, TypeStep, PTL DEF Spec
-----------------------------------------------------------------------------
(***************************************************************************)
(* The inductive invariant behind the delivery properties: what a worker   *)
(* carries between its claiming and its finishing transaction stays true   *)
(* although the journal moves on underneath it.                            *)
(***************************************************************************)
AnswerIsTrue ==
    \A w \in Worker :
        (job[w].stage = "answered" /\ job[w].outcome = "receipt") => job[w].event \in accepted

JobAnnounced ==
    \A w \in Worker :
        (job[w].stage # "idle" /\ Dependent(job[w].event))
        => \E r \in accepted : IsRoot(r, job[w].event)

LeasedInOrder ==
    \A p, e \in Event :
        (Earlier(p, e) /\ state[p] = "pending" /\ state[e] = "pending" /\ Leased(e))
        => p \in retried

DeliveryInv ==
    /\ TypeOK
    /\ AnswerIsTrue
    /\ JobAnnounced
    /\ LeasedInOrder
    /\ OneLeasePerCall
    /\ DeliveredIsPersisted
    /\ CallPrecedesItsEvents
    /\ DeliveredInOrder

\* A claim keeps the invariant: the SELECT's conditions are what the worker
\* relies on later.
LEMMA ClaimKeepsDelivery ==
    ASSUME DeliveryInv, TypeOK', NEW w \in Worker, ClaimEvent(w)
    PROVE  DeliveryInv'
  <1> DEFINE t == dest[w]
             st == AfterSweep(t)
  <1>1. TypeOK
    BY DEF DeliveryInv
  <1>2. /\ state' = st /\ accepted' = accepted /\ retried' = retried /\ seq' = seq
    BY DEF ClaimEvent
  <1>3. /\ st \in [Event -> {"absent", "pending", "delivered", "dead"}]
        /\ \A e \in Event : st[e] # state[e]
              => state[e] = "pending" /\ leaseLeft[e] = 0 /\ st[e] = "dead"
    BY <1>1, SweepOnlyBuries DEF AfterSweep
  <1>4. \/ job' = job /\ leaseLeft' = leaseLeft
        \/ \E e \in Claimable(t, st) :
              /\ job' = [job EXCEPT ![w] = [stage |-> "sending", event |-> e]]
              /\ leaseLeft' = [leaseLeft EXCEPT ![e] = LeaseTime]
    BY DEF ClaimEvent, IsFirst
  <1> HIDE DEF st, t
  <1>5. AnswerIsTrue'
    <2> SUFFICES ASSUME NEW v \in Worker, job'[v].stage = "answered", job'[v].outcome = "receipt"
                 PROVE  job'[v].event \in accepted
      BY <1>2 DEF AnswerIsTrue
    <2>1. job'[v] = job[v]
      BY <1>1, <1>4 DEF TypeOK
    <2>2. QED
      BY <2>1 DEF DeliveryInv, AnswerIsTrue
  <1>6. JobAnnounced'
    <2> SUFFICES ASSUME NEW v \in Worker, job'[v].stage # "idle", Dependent(job'[v].event)
                 PROVE  \E r \in accepted : IsRoot(r, job'[v].event)
      BY <1>2 DEF JobAnnounced, Dependent, IsRoot, SameCall
    <2>1. CASE job'[v] = job[v]
      BY <2>1 DEF DeliveryInv, JobAnnounced
    <2>2. CASE job'[v] # job[v]
      <3>1. PICK e \in Claimable(t, st) : job'[v] = [stage |-> "sending", event |-> e]
        BY <1>1, <1>4, <2>2 DEF TypeOK
      <3>2. e \in Event /\ job'[v].event = e /\ CallDelivered(e, st)
        BY <3>1 DEF Claimable
      <3>3. PICK r \in Event : IsRoot(r, e) /\ st[r] = "delivered"
        BY <3>2 DEF CallDelivered
      <3>4. state[r] = "delivered"
        BY <1>3, <3>3
      <3>5. r \in accepted
        BY <3>4 DEF DeliveryInv, DeliveredIsPersisted
      <3>6. QED
        BY <3>2, <3>3, <3>5
    <2>3. QED
      BY <2>1, <2>2
  <1>7. LeasedInOrder'
    <2> SUFFICES ASSUME NEW p \in Event, NEW e \in Event, Earlier(p, e),
                        st[p] = "pending", st[e] = "pending", leaseLeft'[e] > 0
                 PROVE  p \in retried
      BY <1>2 DEF LeasedInOrder, Earlier, Leased
    <2>1. state[p] = "pending" /\ state[e] = "pending"
      BY <1>3
    <2>2. CASE leaseLeft'[e] = leaseLeft[e]
      BY <2>1, <2>2 DEF DeliveryInv, LeasedInOrder, Leased
    <2>3. CASE leaseLeft'[e] # leaseLeft[e]
      <3>1. e \in Claimable(t, st)
        BY <1>1, <1>4, <2>3 DEF TypeOK
      <3>2. QED
        BY <3>1 DEF Claimable, Waits
    <2>4. QED
      BY <2>2, <2>3
  <1>8. OneLeasePerCall'
    <2> SUFFICES ASSUME NEW e \in Event, NEW f \in Event, SameCall(e, f),
                        st[e] = "pending", st[f] = "pending",
                        leaseLeft'[e] > 0, leaseLeft'[f] > 0
                 PROVE  e = f
      BY <1>2 DEF OneLeasePerCall, Leased
    <2>1. state[e] = "pending" /\ state[f] = "pending"
      BY <1>3
    <2>2. CASE job' = job /\ leaseLeft' = leaseLeft
      BY <2>1, <2>2 DEF DeliveryInv, OneLeasePerCall, Leased
    <2>3. ASSUME NEW g \in Claimable(t, st), leaseLeft' = [leaseLeft EXCEPT ![g] = LeaseTime]
          PROVE  e = f
      <3>1. g \in Event /\ ~CallBusy(g, st)
        BY DEF Claimable
      <3>2. \A h \in Event : h # g => leaseLeft'[h] = leaseLeft[h]
        BY <1>1, <2>3 DEF TypeOK
      <3>3. \A h \in Event : SameCall(h, g) /\ st[h] = "pending" => ~(leaseLeft[h] > 0)
        BY <3>1 DEF CallBusy, Leased
      <3>4. e = g => f = g
        BY <3>2, <3>3 DEF SameCall
      <3>5. f = g => e = g
        BY <3>2, <3>3 DEF SameCall
      <3>6. QED
        BY <2>1, <3>2, <3>4, <3>5 DEF DeliveryInv, OneLeasePerCall, Leased
    <2>4. QED
      BY <1>4, <2>2, <2>3
  <1>9. DeliveredIsPersisted'
    BY <1>2, <1>3 DEF DeliveryInv, DeliveredIsPersisted
  <1>10. CallPrecedesItsEvents'
    BY <1>2 DEF DeliveryInv, CallPrecedesItsEvents, Dependent, IsRoot, SameCall
  <1>11. DeliveredInOrder'
    BY <1>2, <1>3 DEF DeliveryInv, DeliveredInOrder, Earlier
  <1>12. QED
    BY <1>5, <1>6, <1>7, <1>8, <1>9, <1>10, <1>11 DEF DeliveryInv

\* A finishing transaction keeps the invariant: only the owner of a live
\* lease settles its row, and with a receipt only what was persisted.
LEMMA FinishKeepsDelivery ==
    ASSUME DeliveryInv, TypeOK', NEW w \in Worker, FinishEvent(w)
    PROVE  DeliveryInv'
  <1> DEFINE e == job[w].event
             outcome == job[w].outcome
  <1>1. TypeOK /\ e \in Event /\ job[w].stage = "answered" /\ outcome \in {"receipt", "retry", "permanent"}
    BY JobFields DEF DeliveryInv, FinishEvent
  <1>2. /\ job' = [job EXCEPT ![w] = Idle]
        /\ seq' = seq /\ accepted' = accepted /\ retried' = retried
    BY DEF FinishEvent
  <1>3. \/ state' = state /\ leaseLeft' = leaseLeft
        \/ /\ state[e] = "pending" /\ Leased(e)
           /\ state' = [state EXCEPT ![e] = Settled(outcome)]
           /\ leaseLeft' = [leaseLeft EXCEPT ![e] = 0]
    BY DEF FinishEvent, Owns
  <1>4. /\ Settled(outcome) \in {"pending", "delivered", "dead"}
        /\ Settled(outcome) = "delivered" => outcome = "receipt"
    BY <1>1 DEF Settled
  <1> HIDE DEF e, outcome
  <1>5. \A v \in Worker : job'[v] = job[v] \/ job'[v] = Idle
    BY <1>1, <1>2 DEF TypeOK
  <1>6. AnswerIsTrue' /\ JobAnnounced'
    BY <1>2, <1>5 DEF DeliveryInv, AnswerIsTrue, JobAnnounced, Idle, Dependent, IsRoot, SameCall
  <1>7. \A f \in Event : state'[f] = "pending" => state[f] = "pending"
    BY <1>1, <1>3 DEF TypeOK
  <1>8. \A f \in Event : leaseLeft'[f] > 0 => leaseLeft[f] > 0
    BY <1>1, <1>3 DEF TypeOK
  <1>9. LeasedInOrder'
    BY <1>2, <1>7, <1>8 DEF DeliveryInv, LeasedInOrder, Earlier, Leased
  <1>10. OneLeasePerCall'
    BY <1>7, <1>8 DEF DeliveryInv, OneLeasePerCall, Leased
  <1>11. DeliveredIsPersisted'
    <2>1. outcome = "receipt" => e \in accepted
      BY <1>1 DEF DeliveryInv, AnswerIsTrue, e, outcome
    <2>2. QED
      BY <1>1, <1>2, <1>3, <1>4, <2>1 DEF DeliveryInv, DeliveredIsPersisted, TypeOK
  <1>12. CallPrecedesItsEvents'
    BY <1>2 DEF DeliveryInv, CallPrecedesItsEvents, Dependent, IsRoot, SameCall
  <1>13. DeliveredInOrder'
    <2> SUFFICES ASSUME NEW p \in Event, NEW f \in Event, Earlier(p, f),
                        state'[p] = "pending", state'[f] = "delivered"
                 PROVE  p \in retried
      BY <1>2 DEF DeliveredInOrder, Earlier
    <2>1. state[p] = "pending"
      BY <1>7
    <2>2. CASE state[f] = "delivered"
      BY <2>1, <2>2 DEF DeliveryInv, DeliveredInOrder
    <2>3. CASE state[f] # "delivered"
      <3>1. f = e /\ state[e] = "pending" /\ Leased(e)
        BY <1>1, <1>3, <2>3 DEF TypeOK
      <3>2. QED
        BY <2>1, <3>1 DEF DeliveryInv, LeasedInOrder
    <2>4. QED
      BY <2>2, <2>3
  <1>14. QED
    BY <1>6, <1>9, <1>10, <1>11, <1>12, <1>13 DEF DeliveryInv

\* Staging keeps the invariant: the new row is last and unleased, the pruned
\* rows were delivered.
LEMMA StageKeepsDelivery ==
    ASSUME DeliveryInv, TypeOK', NEW w \in Worker, NEW n \in Event, StageEvent(w, n)
    PROVE  DeliveryInv'
  <1>1. TypeOK
    BY DEF DeliveryInv
  <1>2. /\ job' = job /\ accepted' = accepted
        /\ state[n] = "absent" /\ state'[n] = "pending" /\ leaseLeft'[n] = 0
        /\ seq'[n] = lastSeq + 1
        /\ \A f \in Event : f # n => seq'[f] = seq[f] /\ leaseLeft'[f] = leaseLeft[f]
    BY <1>1 DEF StageEvent, TypeOK
  <1>3. \A f \in Event : f # n =>
           /\ \/ state'[f] = state[f] /\ (f \in retried => f \in retried')
              \/ state[f] = "delivered" /\ state'[f] = "absent"
    BY <1>1 DEF StageEvent, TypeOK, Prunable
  <1>4. \A f \in Event : seq[f] \in Nat /\ seq[f] <= lastSeq
    BY <1>1 DEF TypeOK
  <1>5. AnswerIsTrue' /\ JobAnnounced'
    BY <1>2 DEF DeliveryInv, AnswerIsTrue, JobAnnounced, Dependent, IsRoot, SameCall
  <1>6. \A p, e \in Event : Earlier(p, e)' /\ e # n => p # n /\ Earlier(p, e)
    <2> SUFFICES ASSUME NEW p \in Event, NEW e \in Event, Earlier(p, e)', e # n
                 PROVE  p # n /\ Earlier(p, e)
      OBVIOUS
    <2>1. seq'[p] < seq'[e] /\ seq'[e] = seq[e] /\ lastSeq \in Nat
      BY <1>1, <1>2 DEF Earlier, TypeOK
    <2>2. p # n
      BY <1>2, <1>4, <2>1
    <2>3. QED
      BY <1>2, <2>1, <2>2 DEF Earlier
  <1>7. LeasedInOrder'
    BY <1>2, <1>3, <1>6 DEF DeliveryInv, LeasedInOrder, Leased
  <1>8. OneLeasePerCall'
    BY <1>2, <1>3 DEF DeliveryInv, OneLeasePerCall, Leased
  <1>9. DeliveredIsPersisted'
    BY <1>2, <1>3 DEF DeliveryInv, DeliveredIsPersisted
  <1>10. CallPrecedesItsEvents'
    BY <1>2 DEF DeliveryInv, CallPrecedesItsEvents, Dependent, IsRoot, SameCall
  <1>11. DeliveredInOrder'
    BY <1>2, <1>3, <1>6 DEF DeliveryInv, DeliveredInOrder
  <1>12. QED
    BY <1>5, <1>7, <1>8, <1>9, <1>10, <1>11 DEF DeliveryInv

\* An operator's retry keeps the invariant: the revived row is unleased and
\* remembered as retried.
LEMMA RetryKeepsDelivery ==
    ASSUME DeliveryInv, TypeOK', NEW w \in Worker, NEW n \in Event, RetryEvent(w, n)
    PROVE  DeliveryInv'
  <1>1. TypeOK
    BY DEF DeliveryInv
  <1>2. /\ job' = job /\ accepted' = accepted /\ seq' = seq
        /\ retried' = retried \cup {n}
        /\ state' = [state EXCEPT ![n] = "pending"]
        /\ leaseLeft' = [leaseLeft EXCEPT ![n] = 0]
    BY DEF RetryEvent
  <1>3. AnswerIsTrue' /\ JobAnnounced' /\ CallPrecedesItsEvents'
    BY <1>2 DEF DeliveryInv, AnswerIsTrue, JobAnnounced, CallPrecedesItsEvents,
                Dependent, IsRoot, SameCall
  <1>4. LeasedInOrder' /\ DeliveredInOrder'
    BY <1>1, <1>2 DEF DeliveryInv, LeasedInOrder, DeliveredInOrder, Earlier, Leased, TypeOK
  <1>5. OneLeasePerCall'
    BY <1>1, <1>2 DEF DeliveryInv, OneLeasePerCall, Leased, TypeOK
  <1>6. DeliveredIsPersisted'
    BY <1>1, <1>2 DEF DeliveryInv, DeliveredIsPersisted, TypeOK
  <1>7. QED
    BY <1>3, <1>4, <1>5, <1>6 DEF DeliveryInv

\* A request keeps the invariant: whatever it persists was announced.
LEMMA SendKeepsDelivery ==
    ASSUME DeliveryInv, TypeOK', NEW w \in Worker, SendEvent(w)
    PROVE  DeliveryInv'
  <1> DEFINE e == job[w].event
  <1>1. TypeOK /\ job[w].stage = "sending" /\ e \in Event
    BY JobFields DEF DeliveryInv, SendEvent
  <1>2. PICK outcome \in {"receipt", "retry", "permanent"}, persisted \in BOOLEAN :
           /\ outcome = "receipt" => persisted
           /\ accepted' = IF persisted THEN accepted \cup {e} ELSE accepted
           /\ job' = [job EXCEPT ![w] = [stage |-> "answered", event |-> e, outcome |-> outcome]]
    BY DEF SendEvent, Possible
  <1>3. state' = state /\ seq' = seq /\ leaseLeft' = leaseLeft /\ retried' = retried
    BY DEF SendEvent, rows
  <1>4. Dependent(e) => \E r \in accepted : IsRoot(r, e)
    BY <1>1 DEF DeliveryInv, JobAnnounced
  <1>5. accepted \subseteq accepted' /\ accepted' \subseteq accepted \cup {e}
    BY <1>2
  <1>6. \A v \in Worker : v # w => job'[v] = job[v]
    BY <1>1, <1>2 DEF TypeOK
  <1>7. job'[w] = [stage |-> "answered", event |-> e, outcome |-> outcome]
    BY <1>1, <1>2 DEF TypeOK
  <1> HIDE DEF e
  <1>8. AnswerIsTrue'
    <2> SUFFICES ASSUME NEW v \in Worker, job'[v].stage = "answered", job'[v].outcome = "receipt"
                 PROVE  job'[v].event \in accepted'
      BY DEF AnswerIsTrue
    <2>1. CASE v = w
      BY <1>2, <1>7, <2>1
    <2>2. CASE v # w
      BY <1>5, <1>6, <2>2 DEF DeliveryInv, AnswerIsTrue
    <2>3. QED
      BY <2>1, <2>2
  <1>9. JobAnnounced'
    <2> SUFFICES ASSUME NEW v \in Worker, job'[v].stage # "idle", Dependent(job'[v].event)
                 PROVE  \E r \in accepted' : IsRoot(r, job'[v].event)
      BY DEF JobAnnounced, Dependent, IsRoot, SameCall
    <2>1. CASE v = w
      BY <1>4, <1>5, <1>7, <2>1
    <2>2. CASE v # w
      BY <1>5, <1>6, <2>2 DEF DeliveryInv, JobAnnounced
    <2>3. QED
      BY <2>1, <2>2
  <1>10. CallPrecedesItsEvents'
    BY <1>4, <1>5 DEF DeliveryInv, CallPrecedesItsEvents, Dependent, IsRoot, SameCall
  <1>11. LeasedInOrder' /\ OneLeasePerCall' /\ DeliveredIsPersisted' /\ DeliveredInOrder'
    BY <1>3, <1>5 DEF DeliveryInv, LeasedInOrder, OneLeasePerCall, DeliveredIsPersisted,
                      DeliveredInOrder, Earlier, Leased
  <1>12. QED
    BY <1>8, <1>9, <1>10, <1>11 DEF DeliveryInv

\* Restarts and the passing of time take promises away, they add none.
LEMMA RestartOrTickKeepsDelivery ==
    ASSUME DeliveryInv, TypeOK',
           Tick \/ UNCHANGED vars \/ \E w \in Worker, t \in Target : Restart(w, t)
    PROVE  DeliveryInv'
  <1>1. TypeOK
    BY DEF DeliveryInv
  <1>2. state' = state /\ seq' = seq /\ accepted' = accepted /\ retried' = retried
    BY DEF Tick, Restart, rows, vars
  <1>3. \A e \in Event : leaseLeft'[e] > 0 => leaseLeft[e] > 0
    BY <1>1 DEF Tick, Less, Restart, rows, vars, TypeOK
  <1>4. \A v \in Worker : job'[v] = job[v] \/ job'[v] = Idle
    BY <1>1 DEF Tick, Restart, vars, TypeOK
  <1>5. AnswerIsTrue' /\ JobAnnounced' /\ CallPrecedesItsEvents'
    BY <1>2, <1>4 DEF DeliveryInv, AnswerIsTrue, JobAnnounced, CallPrecedesItsEvents,
                      Idle, Dependent, IsRoot, SameCall
  <1>6. LeasedInOrder' /\ OneLeasePerCall' /\ DeliveredIsPersisted' /\ DeliveredInOrder'
    BY <1>2, <1>3 DEF DeliveryInv, LeasedInOrder, OneLeasePerCall, DeliveredIsPersisted,
                      DeliveredInOrder, Earlier, Leased
  <1>7. QED
    BY <1>5, <1>6 DEF DeliveryInv

LEMMA DeliveryStep == DeliveryInv /\ [Next]_vars => DeliveryInv'
  <1> SUFFICES ASSUME DeliveryInv, [Next]_vars PROVE DeliveryInv'
    OBVIOUS
  <1>1. TypeOK'
    BY TypeStep DEF DeliveryInv
  <1>2. ASSUME NEW w \in Worker, NEW e \in Event, StageEvent(w, e) PROVE DeliveryInv'
    BY <1>1, <1>2, StageKeepsDelivery
  <1>3. ASSUME NEW w \in Worker, NEW e \in Event, RetryEvent(w, e) PROVE DeliveryInv'
    BY <1>1, <1>3, RetryKeepsDelivery
  <1>4. ASSUME NEW w \in Worker, ClaimEvent(w) PROVE DeliveryInv'
    BY <1>1, <1>4, ClaimKeepsDelivery
  <1>5. ASSUME NEW w \in Worker, SendEvent(w) PROVE DeliveryInv'
    BY <1>1, <1>5, SendKeepsDelivery
  <1>6. ASSUME NEW w \in Worker, FinishEvent(w) PROVE DeliveryInv'
    BY <1>1, <1>6, FinishKeepsDelivery
  <1>7. QED
    BY <1>1, <1>2, <1>3, <1>4, <1>5, <1>6, RestartOrTickKeepsDelivery DEF Next

LEMMA DeliveryInvariant == Spec => []DeliveryInv
  <1>1. Init => TypeOK
    BY NumberAssumption DEF Init, TypeOK, Job
  <1>2. Init => DeliveryInv
    BY <1>1 DEF Init, DeliveryInv, AnswerIsTrue, JobAnnounced, LeasedInOrder, OneLeasePerCall,
           DeliveredIsPersisted, CallPrecedesItsEvents, DeliveredInOrder, Earlier, Leased, Idle
  <1>3. QED
    BY <1>2, DeliveryStep, PTL DEF Spec

\* At most one live lease per call at any time.
THEOREM LeaseExclusion == Spec => []OneLeasePerCall
  BY DeliveryInvariant, PTL DEF DeliveryInv

\* A row is delivered only if the dashboard persisted it.
THEOREM NoFalseDelivery == Spec => []DeliveredIsPersisted
  BY DeliveryInvariant, PTL DEF DeliveryInv

\* The dashboard never holds an event of a call it has not been told of.
THEOREM CallFirst == Spec => []CallPrecedesItsEvents
  BY DeliveryInvariant, PTL DEF DeliveryInv

\* The events of a call are delivered in staging order, operators apart.
THEOREM OrderedDelivery == Spec => []DeliveredInOrder
  BY DeliveryInvariant, PTL DEF DeliveryInv

\* A live lease shuts out everybody but its owner: no sweep, retry, claim or
\* late answer of another worker changes the row.
LEMMA LeaseStep ==
    ASSUME TypeOK, [Next]_vars, NEW w \in Worker, NEW e \in Event,
           job[w].stage # "idle", job[w].event = e,
           state[e] = "pending", holder[e] = w, Leased(e), job'[w] = job[w]
    PROVE  state'[e] = "pending" /\ holder'[e] = w
  <1>1. ASSUME NEW v \in Worker, NEW f \in Event, StageEvent(v, f) \/ RetryEvent(v, f)
        PROVE  state'[e] = "pending" /\ holder'[e] = w
    BY <1>1 DEF StageEvent, RetryEvent, Prunable, TypeOK
  <1>2. ASSUME NEW v \in Worker, ClaimEvent(v)
        PROVE  state'[e] = "pending" /\ holder'[e] = w
    <2>1. AfterSweep(dest[v])[e] = "pending" /\ e \notin Buried(dest[v])
      BY DEF AfterSweep, Buried, Orphaned, Sweepable
    <2>2. e \notin Claimable(dest[v], AfterSweep(dest[v]))
      BY DEF Claimable
    <2>3. QED
      BY <1>2, <2>1, <2>2 DEF ClaimEvent, IsFirst, TypeOK
  <1>3. ASSUME NEW v \in Worker, FinishEvent(v)
        PROVE  state'[e] = "pending" /\ holder'[e] = w
    <2>1. v # w
      BY <1>3 DEF FinishEvent, TypeOK, Idle
    <2>2. ~Owns(v, e)
      BY <2>1 DEF Owns
    <2>3. QED
      BY <1>3, <2>2, JobFields DEF FinishEvent, TypeOK
  <1>4. ASSUME NEW v \in Worker, SendEvent(v) \/ \E t \in Target : Restart(v, t)
        PROVE  state'[e] = "pending" /\ holder'[e] = w
    BY <1>4 DEF SendEvent, Restart, rows
  <1>5. CASE Tick \/ UNCHANGED vars
    BY <1>5 DEF Tick, vars
  <1>6. QED
    BY <1>1, <1>2, <1>3, <1>4, <1>5 DEF Next

\* Nobody settles, buries, revives or re-leases a row under a live lease of
\* another worker.
THEOREM LeaseProtects == Spec => LiveLeaseIsExclusive
  <1>1. TypeOK /\ [Next]_vars =>
          [\A w \in Worker, e \in Event :
             (/\ job[w].stage # "idle" /\ job[w].event = e
              /\ state[e] = "pending" /\ holder[e] = w /\ Leased(e)
              /\ job'[w] = job[w])
             => state'[e] = "pending" /\ holder'[e] = w]_vars
    BY LeaseStep
  <1>2. QED
    BY <1>1, TypeCorrect, PTL DEF Spec, LiveLeaseIsExclusive
-----------------------------------------------------------------------------
(***************************************************************************)
(* The refinement: every step of the journal is a step of CallFeed.        *)
(***************************************************************************)
LEMMA FeedStep == DeliveryInv /\ TypeOK' /\ [Next]_vars => [Feed!Next]_(Feed!vars)
  <1> SUFFICES ASSUME DeliveryInv, TypeOK', [Next]_vars
               PROVE  [Feed!Next]_(Feed!vars)
    OBVIOUS
  <1> USE DEF Feed!vars
  <1>0. TypeOK
    BY DEF DeliveryInv
  <1>1. ASSUME NEW w \in Worker, NEW e \in Event, StageEvent(w, e) PROVE Feed!Stage(e)
    <2> DEFINE pruned == {f \in Event : Prunable(f)}
    <2>1. pruned \in SUBSET {f \in Event : state[f] = "delivered"}
      BY DEF Prunable
    <2>2. QED
      BY <1>1, <2>1 DEF StageEvent, Feed!Stage
  <1>2. ASSUME NEW w \in Worker, NEW e \in Event, RetryEvent(w, e) PROVE Feed!Revive(e)
    BY <1>2 DEF RetryEvent, Feed!Revive
  <1>3. ASSUME NEW w \in Worker, ClaimEvent(w) PROVE Feed!GiveUp
    <2> DEFINE given == Buried(dest[w]) \cup Orphaned(dest[w])
    <2>1. given \in SUBSET {f \in Event : state[f] = "pending"}
      BY DEF Buried, Orphaned, Sweepable
    <2>2. /\ state' = [f \in Event |-> IF f \in given THEN "dead" ELSE state[f]]
          /\ UNCHANGED <<seq, lastSeq, accepted, retried>>
      BY <1>3 DEF ClaimEvent, AfterSweep
    <2>3. QED
      BY <2>1, <2>2 DEF Feed!GiveUp
  <1>4. ASSUME NEW w \in Worker, SendEvent(w)
        PROVE  UNCHANGED Feed!vars \/ \E e \in Event : Feed!Persist(e)
    <2> DEFINE e == job[w].event
    <2>1. e \in Event /\ job[w].stage # "idle"
      BY <1>0, <1>4, JobFields DEF SendEvent
    <2>2. UNCHANGED <<state, seq, lastSeq, retried>>
      BY <1>4 DEF SendEvent, rows
    <2>3. accepted' = accepted \/ accepted' = accepted \cup {e}
      BY <1>4 DEF SendEvent
    <2>4. Feed!Dependent(e) => Feed!Announced(e)
      BY <2>1 DEF DeliveryInv, JobAnnounced, Dependent, IsRoot, SameCall,
                  Feed!Dependent, Feed!Announced, Feed!SameCall
    <2>5. QED
      BY <2>1, <2>2, <2>3, <2>4 DEF Feed!Persist
  <1>5. ASSUME NEW w \in Worker, FinishEvent(w)
        PROVE  UNCHANGED Feed!vars \/ Feed!GiveUp \/ \E e \in Event : Feed!Deliver(e)
    <2> DEFINE e == job[w].event
               outcome == job[w].outcome
    <2>1. e \in Event /\ outcome \in {"receipt", "retry", "permanent"}
      BY <1>0, <1>5, JobFields DEF FinishEvent
    <2>2. UNCHANGED <<seq, lastSeq, accepted, retried>>
      BY <1>5 DEF FinishEvent
    <2>3. CASE ~Owns(w, e)
      BY <1>5, <2>2, <2>3 DEF FinishEvent
    <2>4. CASE Owns(w, e)
      <3>1. state[e] = "pending" /\ Leased(e) /\ state' = [state EXCEPT ![e] = Settled(outcome)]
        BY <1>5, <2>4 DEF FinishEvent, Owns
      <3>2. CASE outcome = "receipt"
        <4>1. e \in accepted
          BY <1>5, <3>2 DEF DeliveryInv, AnswerIsTrue, FinishEvent
        <4>2. \A p \in Event : Feed!Ahead(p, e) /\ state[p] = "pending" => p \in retried
          BY <2>1, <3>1 DEF DeliveryInv, LeasedInOrder, Earlier, SameCall,
                            Feed!Ahead, Feed!SameCall
        <4>3. state' = [state EXCEPT ![e] = "delivered"]
          BY <3>1, <3>2 DEF Settled
        <4>4. QED
          BY <2>1, <2>2, <3>1, <4>1, <4>2, <4>3 DEF Feed!Deliver
      <3>3. CASE outcome = "permanent"
        <4>1. state' = [f \in Event |-> IF f \in {e} THEN "dead" ELSE state[f]]
          BY <1>0, <3>1, <3>3 DEF Settled, TypeOK
        <4>2. {e} \in SUBSET {f \in Event : state[f] = "pending"}
          BY <2>1, <3>1
        <4>3. QED
          BY <2>2, <4>1, <4>2 DEF Feed!GiveUp
      <3>4. CASE outcome = "retry"
        <4>1. state' = state
          BY <1>0, <3>1, <3>4 DEF Settled, TypeOK
        <4>2. QED
          BY <2>2, <4>1
      <3>5. QED
        BY <2>1, <3>2, <3>3, <3>4
    <2>5. QED
      BY <2>3, <2>4
  <1>6. ASSUME NEW w \in Worker, NEW t \in Target, Restart(w, t) PROVE UNCHANGED Feed!vars
    BY <1>6 DEF Restart, rows
  <1>7. CASE Tick \/ UNCHANGED vars
    BY <1>7 DEF Tick, vars
  <1>8. QED
    BY <1>1, <1>2, <1>3, <1>4, <1>5, <1>6, <1>7 DEF Next, Feed!Next

\* The journal with its workers, leases, sweeps and clocks implements CallFeed.
THEOREM Refinement == Spec => ImplementsCallFeed
  <1>1. Init => Feed!Init
    BY DEF Init, Feed!Init
  <1>2. QED
    BY <1>1, FeedStep, DeliveryInvariant, TypeCorrect, PTL DEF Spec, Feed!Spec, ImplementsCallFeed
=============================================================================
