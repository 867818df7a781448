------------------------- MODULE LeadContactProofs -------------------------
(***************************************************************************)
(* Theorems about LeadContact for any leads, touches and workers, any days *)
(* and steps of the sequences, any threads, and any bounds on what fails:  *)
(* the touches are dialled once, the sequences and the transitions of a    *)
(* lead are sound.  The invariants of the sequences and of the transitions *)
(* range over the behaviours that run them.                                *)
(***************************************************************************)
EXTENDS LeadContact, Sequences, TLAPS, WellFoundedInduction
-----------------------------------------------------------------------------
(***************************************************************************)
(* SpeedTouches.                                                           *)
(***************************************************************************)
LEMMA TouchFields ==
    ASSUME NEW j \in Touch
    PROVE  LeadOf(j) \in Lead /\ IsLast(j) \in BOOLEAN
  BY DEF Touch, LeadOf, IsLast

\* What a worker that is not idle holds.
LEMMA RunFields ==
    ASSUME TypeOK, NEW w \in Worker
    PROVE  /\ run[w] # Idle => run[w].touch \in Touch
           /\ run[w].at \in {"idle", "claimed", "calling", "placed", "accepted", "recorded", "finishing"}
           /\ run[w].at # "idle" => run[w] # Idle
           /\ run[w].at = "finishing" => run[w].outcome \in Settled
  BY DEF TypeOK, Run, Idle

\* Moving a worker that holds a touch keeps the workers' records well formed.
LEMMA RunMoves ==
    ASSUME TypeOK, NEW w \in Worker, run[w].at # "idle",
           \/ run' = [run EXCEPT ![w] = Idle]
           \/ \E place \in {"calling", "placed", "accepted", "recorded"} : GoTo(w, place)
           \/ \E outcome \in Settled : GoFinish(w, outcome)
    PROVE  run' \in [Worker -> Run]
  <1>1. run[w].touch \in Touch
    BY RunFields
  <1>2. CASE run' = [run EXCEPT ![w] = Idle]
    BY <1>2 DEF TypeOK, Run
  <1>3. ASSUME NEW place \in {"calling", "placed", "accepted", "recorded"}, GoTo(w, place)
        PROVE  run' \in [Worker -> Run]
    <2>1. [at |-> place, touch |-> run[w].touch] \in Run
      BY <1>1 DEF Run
    <2>2. QED
      BY <1>3, <2>1 DEF GoTo, TypeOK
  <1>4. ASSUME NEW outcome \in Settled, GoFinish(w, outcome)
        PROVE  run' \in [Worker -> Run]
    <2>1. [at |-> "finishing", touch |-> run[w].touch, outcome |-> outcome] \in Run
      BY <1>1 DEF Run
    <2>2. QED
      BY <1>4, <2>1 DEF GoFinish, TypeOK
  <1>5. QED
    BY <1>2, <1>3, <1>4

\* finish_workflow_job keeps the journal well typed.
LEMMA FinishTypes ==
    ASSUME TypeOK, NEW w \in Worker, NEW j \in Touch, NEW wait \in Nat,
           NEW outcome \in Settled \cup {"pending"}, FinishJob(w, j, outcome, wait)
    PROVE  /\ state' \in [Touch -> {"absent", "pending", "processing"} \cup Settled]
           /\ due' \in [Touch -> Nat] /\ claimLeft' \in [Touch -> Nat]
           /\ holder' \in [Touch -> Worker \cup {NoWorker}]
           /\ run' \in [Worker -> Run]
  <1>1. run' \in [Worker -> Run]
    BY DEF FinishJob, TypeOK, Run
  <1>2. QED
    BY <1>1 DEF FinishJob, TypeOK, journal

LEMMA TypeStep == TypeOK /\ [Next]_vars => TypeOK'
  <1> SUFFICES ASSUME TypeOK, [Next]_vars PROVE TypeOK'
    OBVIOUS
  <1>1. ASSUME NEW l \in Lead, StageTouches(l) PROVE TypeOK'
    <2>1. \A j \in Touch : j[2] \in 1 .. LastTouch
      BY DEF Touch
    <2>2. PICK schedule \in [1 .. LastTouch -> 0 .. MaxDue] :
             due' = [j \in Touch |-> IF j \in NewTouches(l) THEN schedule[j[2]] ELSE due[j]]
      BY <1>1 DEF StageTouches
    <2>3. due' \in [Touch -> Nat]
      BY <2>1, <2>2 DEF TypeOK
    <2>4. QED
      BY <1>1, <2>3 DEF StageTouches, TypeOK, lead
  <1>2. ASSUME NEW l \in Lead, OptOut(l) PROVE TypeOK'
    BY <1>2 DEF OptOut, TypeOK, journal
  <1>3. ASSUME NEW w \in Worker, ClaimJob(w) PROVE TypeOK'
    <2>1. \A j \in Touch : [at |-> "claimed", touch |-> j] \in Run
      BY DEF Run
    <2>2. run' \in [Worker -> Run]
      BY <1>3, <2>1 DEF ClaimJob, TypeOK
    <2>3. state' \in [Touch -> {"absent", "pending", "processing"} \cup Settled]
      BY <1>3 DEF ClaimJob, TypeOK, StaleBecomes, Settled
    <2>4. claimLeft' \in [Touch -> Nat] /\ holder' \in [Touch -> Worker \cup {NoWorker}]
      BY <1>3, TouchAssumption DEF ClaimJob, TypeOK
    <2>5. QED
      BY <1>3, <2>2, <2>3, <2>4 DEF ClaimJob, TypeOK, lead
  <1>4. ASSUME NEW w \in Worker, Finish(w) PROVE TypeOK'
    <2>1. run[w].touch \in Touch /\ run[w].outcome \in Settled
      BY <1>4, RunFields DEF Finish, At
    <2>2. due[run[w].touch] \in Nat
      BY <2>1 DEF TypeOK
    <2>3. QED
      <3>1. PICK outcome \in {run[w].outcome, "quarantined"} :
               FinishJob(w, run[w].touch, outcome, due[run[w].touch])
        BY <1>4 DEF Finish
      <3>2. outcome \in Settled
        BY <2>1, <3>1 DEF Settled
      <3>3. QED
        BY <1>4, <2>1, <2>2, <3>1, <3>2, FinishTypes DEF Finish, TypeOK, lead
  <1>5. ASSUME NEW w \in Worker, Defer(w) PROVE TypeOK'
    <2>1. run[w].touch \in Touch
      BY <1>5, RunFields DEF Defer, At
    <2>2. PICK wait \in 1 .. MaxDue : FinishJob(w, run[w].touch, "pending", wait)
      BY <1>5 DEF Defer
    <2>3. QED
      BY <1>5, <2>1, <2>2, FinishTypes DEF Defer, TypeOK, lead
  <1>6. ASSUME NEW w \in Worker, Check(w) PROVE TypeOK'
    <2>1. run' \in [Worker -> Run]
      BY <1>6, RunMoves DEF Check, At, Settled
    <2>2. QED
      BY <1>6, <2>1 DEF Check, TypeOK, journal, lead
  <1>7. ASSUME NEW w \in Worker, Refuse(w) \/ Accept(w) \/ FailWrite(w) PROVE TypeOK'
    <2>1. run' \in [Worker -> Run]
      BY <1>7, RunMoves DEF Refuse, Accept, FailWrite, At, AfterRefusal, Settled
    <2>2. QED
      BY <1>7, <2>1 DEF Refuse, Accept, FailWrite, TypeOK, journal, lead
  <1>8. ASSUME NEW w \in Worker, Place(w) PROVE TypeOK'
    <2>1. run' \in [Worker -> Run]
      BY <1>8, RunMoves DEF Place, At
    <2>2. placed' \in [Touch -> Nat]
      <3>1. run[w].touch \in Touch
        BY <1>8, RunFields DEF Place, At
      <3>2. QED
        BY <1>8, <3>1 DEF Place, TypeOK
    <2>3. QED
      BY <1>8, <2>1, <2>2 DEF Place, TypeOK, journal, lead
  <1>9. ASSUME NEW w \in Worker, LoseAcknowledgement(w) PROVE TypeOK'
    <2>1. run' \in [Worker -> Run] /\ run[w].touch \in Touch
      BY <1>9, RunMoves, RunFields DEF LoseAcknowledgement, At, AfterUncertain, Settled
    <2>2. QED
      BY <1>9, <2>1 DEF LoseAcknowledgement, TypeOK, journal, lead
  <1>10. ASSUME NEW w \in Worker, Record(w) \/ StartDrip(w) PROVE TypeOK'
    <2>1. run' \in [Worker -> Run] /\ run[w].touch \in Touch
      BY <1>10, RunMoves, RunFields DEF Record, StartDrip, At, Settled
    <2>2. finished' \in [Lead -> BOOLEAN] /\ optedOut' \in [Lead -> BOOLEAN]
      BY <1>10, <2>1, TouchFields DEF Record, StartDrip, TypeOK
    <2>3. QED
      BY <1>10, <2>1, <2>2 DEF Record, StartDrip, TypeOK, journal
  <1>11. ASSUME NEW w \in Worker, Crash(w) PROVE TypeOK'
    BY <1>11 DEF Crash, TypeOK, journal, lead, Run
  <1>12. ASSUME NEW j \in Touch, Reconcile(j) PROVE TypeOK'
    BY <1>12 DEF Reconcile, TypeOK, lead, Settled
  <1>13. CASE Tick
    BY <1>13 DEF Tick, Less, TypeOK, lead
  <1>14. CASE UNCHANGED vars
    BY <1>14 DEF vars, TypeOK
  <1>15. QED
    BY <1>1, <1>2, <1>3, <1>4, <1>5, <1>6, <1>7, <1>8, <1>9, <1>10, <1>11, <1>12, <1>13, <1>14
       DEF Next, Step

\* Every reachable state of the touches and their workers is well typed.
THEOREM TypeCorrect == Spec => []TypeOK
  <1>1. Init => TypeOK
    BY DEF Init, TypeOK, Run
  <1>2. QED
    BY <1>1, TypeStep, PTL DEF Spec
-----------------------------------------------------------------------------
(***************************************************************************)
(* Why the phone rings once: a touch that is in a worker's hands carries   *)
(* that worker's lease and is never open for another claim, also after it  *)
(* has been declared stale or has been skipped by the operator.            *)
(***************************************************************************)
Handles(w, j) == run[w].at # "idle" /\ run[w].touch = j

HandledIsTaken ==
    \A w \in Worker, j \in Touch :
        Handles(w, j) => holder[j] = w /\ state[j] \in {"processing", "quarantined", "skipped"}

OpenDidNotRing ==
    \A j \in Touch : state[j] \in {"absent", "pending"} => placed[j] = 0

NotYetRung ==
    \A w \in Worker : run[w].at \in {"claimed", "calling"} => placed[run[w].touch] = 0

HasRung ==
    \A w \in Worker :
        \/ run[w].at \in {"placed", "accepted", "recorded"}
        \/ run[w].at = "finishing" /\ run[w].outcome = "completed"
        => placed[run[w].touch] = 1

DialInv ==
    /\ TypeOK
    /\ HandledIsTaken
    /\ OpenDidNotRing
    /\ NotYetRung
    /\ HasRung
    /\ AtMostOneDial
    /\ CompletedRang

LEMMA DialStep == DialInv /\ [Next]_vars => DialInv'
  <1> SUFFICES ASSUME DialInv, [Next]_vars PROVE DialInv'
    OBVIOUS
  <1>0. TypeOK /\ TypeOK'
    BY TypeStep DEF DialInv
  <1> USE <1>0
  <1>1. ASSUME NEW l \in Lead, StageTouches(l) PROVE DialInv'
    BY <1>1 DEF StageTouches, NewTouches, DialInv, TypeOK, lead, Settled, Handles, HandledIsTaken,
                OpenDidNotRing, NotYetRung, HasRung, AtMostOneDial, CompletedRang
  <1>2. ASSUME NEW w \in Worker, ClaimJob(w) PROVE DialInv'
    <2>1. UNCHANGED placed
      BY <1>2 DEF ClaimJob
    <2>2. \A j \in Touch : state'[j] = state[j] \/ (state[j] = "processing" /\ state'[j] = "quarantined")
                              \/ (state[j] = "pending" /\ state'[j] = "processing")
      BY <1>2 DEF ClaimJob, Stale, StaleBecomes, Due, TypeOK
    <2>3. CASE UNCHANGED <<holder, run>>
      BY <2>1, <2>2, <2>3 DEF DialInv, TypeOK, Settled, Handles, HandledIsTaken,
                OpenDidNotRing, NotYetRung, HasRung, AtMostOneDial, CompletedRang
    <2>4. ASSUME NEW j \in Touch, Due(j),
                 state'[j] = "processing", holder' = [holder EXCEPT ![j] = w],
                 run' = [run EXCEPT ![w] = [at |-> "claimed", touch |-> j]]
          PROVE  DialInv'
      <3>1. placed[j] = 0 /\ \A v \in Worker : ~Handles(v, j)
        BY <2>4 DEF Due, DialInv, OpenDidNotRing, HandledIsTaken
      <3>2. \A v \in Worker : v # w => run'[v] = run[v]
        BY <2>4 DEF TypeOK
      <3>3. run'[w].at = "claimed" /\ run'[w].touch = j
        BY <2>4 DEF TypeOK
      <3>4. holder'[j] = w /\ \A i \in Touch : i # j => holder'[i] = holder[i]
        BY <2>4 DEF TypeOK
      <3>5. HandledIsTaken'
        BY <2>2, <2>4, <3>1, <3>2, <3>3, <3>4 DEF DialInv, HandledIsTaken, Handles
      <3>6. OpenDidNotRing' /\ CompletedRang' /\ AtMostOneDial'
        BY <2>1, <2>2 DEF DialInv, OpenDidNotRing, CompletedRang, AtMostOneDial, TypeOK
      <3>7. NotYetRung'
        BY <2>1, <3>1, <3>2, <3>3 DEF DialInv, NotYetRung
      <3>8. HasRung'
        BY <2>1, <3>2, <3>3 DEF DialInv, HasRung
      <3>9. QED
        BY <3>5, <3>6, <3>7, <3>8 DEF DialInv
    <2>5. QED
      BY <1>2, <2>3, <2>4 DEF ClaimJob, TypeOK, Stale, Due
  <1>3. ASSUME NEW w \in Worker, NEW wait, NEW outcome,
               run[w].at # "idle",
               FinishJob(w, run[w].touch, outcome, wait),
               UNCHANGED placed,
               \/ outcome = "pending" /\ run[w].at = "claimed"
               \/ outcome \in Settled /\ run[w].at = "finishing"
                  /\ outcome \in {run[w].outcome, "quarantined"}
        PROVE  DialInv'
    <2> DEFINE j == run[w].touch
    <2>1. j \in Touch /\ Handles(w, j)
      BY <1>3, RunFields DEF Handles
    <2>2. \A v \in Worker : v # w => run'[v] = run[v] /\ ~Handles(v, j)
      BY <1>3, <2>1 DEF FinishJob, TypeOK, DialInv, HandledIsTaken
    <2>3. run'[w].at = "idle"
      BY <1>3 DEF FinishJob, TypeOK, Idle
    <2>4. CASE UNCHANGED journal
      BY <1>3, <2>2, <2>3, <2>4 DEF journal, DialInv, Handles, HandledIsTaken,
                OpenDidNotRing, NotYetRung, HasRung, AtMostOneDial, CompletedRang
    <2>5. CASE state' = [state EXCEPT ![j] = outcome] /\ holder' = [holder EXCEPT ![j] = NoWorker]
      <3>1. \A i \in Touch : i # j => state'[i] = state[i] /\ holder'[i] = holder[i]
        BY <2>5 DEF TypeOK
      <3>2. state'[j] = outcome
        BY <2>1, <2>5 DEF TypeOK
      <3>3. HandledIsTaken'
        BY <2>2, <2>3, <3>1 DEF DialInv, Handles, HandledIsTaken
      <3>4. OpenDidNotRing'
        BY <1>3, <2>1, <3>1, <3>2 DEF DialInv, OpenDidNotRing, NotYetRung, Settled
      <3>5. CompletedRang' /\ AtMostOneDial'
        BY <1>3, <2>1, <3>1, <3>2 DEF DialInv, CompletedRang, AtMostOneDial, HasRung, Settled
      <3>6. NotYetRung' /\ HasRung'
        BY <1>3, <2>2, <2>3 DEF DialInv, NotYetRung, HasRung
      <3>7. QED
        BY <3>3, <3>4, <3>5, <3>6 DEF DialInv
    <2>6. QED
      BY <1>3, <2>4, <2>5 DEF FinishJob
  <1>4. ASSUME NEW w \in Worker, Finish(w) PROVE DialInv'
    <2>1. run[w].at = "finishing" /\ run[w].outcome \in Settled
      BY <1>4, RunFields DEF Finish, At
    <2>2. QED
      <3>1. PICK outcome \in {run[w].outcome, "quarantined"} :
               FinishJob(w, run[w].touch, outcome, due[run[w].touch])
        BY <1>4 DEF Finish
      <3>2. outcome \in Settled
        BY <2>1, <3>1 DEF Settled
      <3>3. QED
        BY <1>3, <1>4, <2>1, <3>1, <3>2 DEF Finish
  <1>5. ASSUME NEW w \in Worker, Defer(w) PROVE DialInv'
    <2>1. PICK wait \in 1 .. MaxDue : FinishJob(w, run[w].touch, "pending", wait)
      BY <1>5 DEF Defer
    <2>2. run[w].at = "claimed" /\ UNCHANGED placed
      BY <1>5 DEF Defer, At
    <2>3. QED
      BY <1>3, <2>1, <2>2
  \* A worker that moves on within its loop body, the dial itself included.
  <1>6. ASSUME NEW w \in Worker, run[w].at # "idle", UNCHANGED journal,
               \A v \in Worker : v # w => run'[v] = run[v],
               run'[w].touch = run[w].touch,
               \/ UNCHANGED placed /\ NotYetRung' /\ HasRung'
               \/ /\ run[w].at = "calling" /\ run'[w].at = "placed"
                  /\ placed' = [placed EXCEPT ![run[w].touch] = @ + 1]
        PROVE  DialInv'
    <2> DEFINE j == run[w].touch
    <2>1. j \in Touch /\ Handles(w, j)
      BY <1>6, RunFields DEF Handles
    <2>2. HandledIsTaken'
      BY <1>6 DEF journal, DialInv, HandledIsTaken, Handles
    <2>3. CASE UNCHANGED placed /\ NotYetRung' /\ HasRung'
      BY <1>6, <2>2, <2>3 DEF journal, DialInv, OpenDidNotRing, AtMostOneDial, CompletedRang
    <2>4. CASE /\ run[w].at = "calling" /\ run'[w].at = "placed"
               /\ placed' = [placed EXCEPT ![j] = @ + 1]
      <3>1. placed[j] = 0 /\ state[j] \in {"processing", "quarantined", "skipped"}
        BY <2>1, <2>4 DEF DialInv, NotYetRung, HandledIsTaken
      <3>2. placed'[j] = 1 /\ \A i \in Touch : i # j => placed'[i] = placed[i]
        BY <2>1, <2>4, <3>1 DEF TypeOK
      <3>3. \A v \in Worker : v # w => ~Handles(v, j)
        BY <2>1 DEF DialInv, HandledIsTaken
      <3>4. OpenDidNotRing' /\ AtMostOneDial' /\ CompletedRang'
        BY <1>6, <3>1, <3>2 DEF journal, DialInv, OpenDidNotRing, AtMostOneDial, CompletedRang
      <3>5. \A v \in Worker : v # w /\ run[v].at # "idle" =>
               placed'[run'[v].touch] = placed[run[v].touch]
        BY <1>6, <3>2, <3>3, RunFields DEF Handles
      <3>6. NotYetRung'
        BY <1>6, <2>4, <3>5 DEF DialInv, NotYetRung
      <3>7. HasRung'
        BY <1>6, <2>4, <3>2, <3>5 DEF DialInv, HasRung
      <3>8. QED
        BY <2>2, <3>4, <3>6, <3>7 DEF DialInv
    <2>5. QED
      BY <1>6, <2>3, <2>4
  <1>7. ASSUME NEW w \in Worker,
               Check(w) \/ Refuse(w) \/ Accept(w) \/ LoseAcknowledgement(w)
                  \/ Record(w) \/ StartDrip(w) \/ FailWrite(w)
        PROVE  DialInv'
    <2>1. run[w].at # "idle" /\ UNCHANGED <<journal, placed>>
      BY <1>7 DEF Check, Refuse, Accept, LoseAcknowledgement, Record, StartDrip, FailWrite, At
    <2>2. \A v \in Worker : v # w => run'[v] = run[v]
      BY <1>7 DEF Check, Refuse, Accept, LoseAcknowledgement, Record, StartDrip, FailWrite,
                  GoTo, GoFinish, TypeOK
    <2>3. run'[w].touch = run[w].touch
      BY <1>7 DEF Check, Refuse, Accept, LoseAcknowledgement, Record, StartDrip, FailWrite,
                  GoTo, GoFinish, TypeOK
    <2>4. NotYetRung'
      <3>1. run'[w].at \in {"claimed", "calling"} => run[w].at \in {"claimed", "calling"}
        BY <1>7 DEF Check, Refuse, Accept, LoseAcknowledgement, Record, StartDrip, FailWrite,
                    At, GoTo, GoFinish, TypeOK
      <3>2. QED
        BY <2>1, <2>2, <2>3, <3>1 DEF DialInv, NotYetRung
    <2>5. HasRung'
      <3>1. (run'[w].at \in {"placed", "accepted", "recorded"}
               \/ (run'[w].at = "finishing" /\ run'[w].outcome = "completed"))
            => run[w].at \in {"placed", "accepted", "recorded"}
        BY <1>7 DEF Check, Refuse, Accept, LoseAcknowledgement, Record, StartDrip, FailWrite,
                    At, GoTo, GoFinish, TypeOK, AfterRefusal, AfterUncertain
      <3>2. QED
        BY <2>1, <2>2, <2>3, <3>1 DEF DialInv, HasRung
    <2>6. QED
      BY <1>6, <2>1, <2>2, <2>3, <2>4, <2>5
  <1>8. ASSUME NEW w \in Worker, Place(w) PROVE DialInv'
    <2>1. \A v \in Worker : v # w => run'[v] = run[v]
      BY <1>8 DEF Place, GoTo, TypeOK
    <2>2. run'[w].at = "placed" /\ run'[w].touch = run[w].touch
      BY <1>8 DEF Place, GoTo, TypeOK
    <2>3. QED
      BY <1>6, <1>8, <2>1, <2>2 DEF Place, At
  <1>9. ASSUME NEW w \in Worker, Crash(w) PROVE DialInv'
    <2>1. run'[w].at = "idle" /\ \A v \in Worker : v # w => run'[v] = run[v]
      BY <1>9 DEF Crash, TypeOK, Idle
    <2>2. UNCHANGED <<journal, placed>>
      BY <1>9 DEF Crash
    <2>3. QED
      BY <2>1, <2>2 DEF journal, DialInv, Handles, HandledIsTaken,
                OpenDidNotRing, NotYetRung, HasRung, AtMostOneDial, CompletedRang
  <1>10. ASSUME NEW j \in Touch, Reconcile(j) PROVE DialInv'
    BY <1>10 DEF Reconcile, lead, DialInv, TypeOK, Handles, HandledIsTaken,
                OpenDidNotRing, NotYetRung, HasRung, AtMostOneDial, CompletedRang
  <1>11. CASE Tick \/ UNCHANGED vars \/ \E l \in Lead : OptOut(l)
    BY <1>11 DEF Tick, vars, OptOut, journal, DialInv, Handles, HandledIsTaken,
                OpenDidNotRing, NotYetRung, HasRung, AtMostOneDial, CompletedRang
  <1>12. QED
    BY <1>1, <1>2, <1>4, <1>5, <1>7, <1>8, <1>9, <1>10, <1>11 DEF Next, Step

LEMMA DialInvariant == Spec => []DialInv
  <1>1. Init => DialInv
    BY DEF Init, DialInv, TypeOK, Run, Idle, Settled, Handles, HandledIsTaken,
           OpenDidNotRing, NotYetRung, HasRung, AtMostOneDial, CompletedRang
  <1>2. QED
    BY <1>1, DialStep, PTL DEF Spec

\* The phone rings at most once for a touch.
THEOREM DialledOnce == Spec => []AtMostOneDial
  <1>1. DialInv => AtMostOneDial
    BY DEF DialInv
  <1>2. QED
    BY <1>1, DialInvariant, PTL

\* What the journal calls completed did ring.
THEOREM CompletionIsTrue == Spec => []CompletedRang
  <1>1. DialInv => CompletedRang
    BY DEF DialInv
  <1>2. QED
    BY <1>1, DialInvariant, PTL
-----------------------------------------------------------------------------
\* Only the operator's review moves a touch that has been settled.
LEMMA OnlyReviewMoves ==
    ASSUME TypeOK, [Next]_vars, NEW j \in Touch, state[j] \in Settled, state'[j] # state[j]
    PROVE  Reconcile(j)
  <1>1. \A l \in Lead : ~StageTouches(l)
    BY DEF StageTouches, NewTouches, Settled, TypeOK
  <1>2. \A w \in Worker : ~ClaimJob(w)
    BY DEF ClaimJob, Stale, Due, Settled, TypeOK
  <1>3. \A w \in Worker : ~Finish(w) /\ ~Defer(w)
    BY RunFields DEF Finish, Defer, FinishJob, Owns, Settled, TypeOK, journal
  <1>4. \A w \in Worker : ~Step(w) /\ ~Crash(w)
    BY <1>3 DEF Step, Check, Refuse, Place, Accept, LoseAcknowledgement, Record, StartDrip,
                FailWrite, Crash, journal
  <1>5. ~Tick /\ ~UNCHANGED vars /\ \A l \in Lead : ~OptOut(l)
    BY DEF Tick, vars, OptOut, journal
  <1>6. PICK i \in Touch : Reconcile(i)
    BY <1>1, <1>2, <1>4, <1>5 DEF Next
  <1>7. i = j
    BY <1>6 DEF Reconcile, TypeOK
  <1>8. QED
    BY <1>6, <1>7

\* A touch is reviewed once: the review leaves it skipped, which is final.
ReviewedIsSkipped == \A j \in reviewed : state[j] = "skipped"

LEMMA ReviewStep == TypeOK /\ ReviewedIsSkipped /\ [Next]_vars => ReviewedIsSkipped'
  <1> SUFFICES ASSUME TypeOK, ReviewedIsSkipped, [Next]_vars, NEW j \in reviewed'
               PROVE  state'[j] = "skipped"
    BY DEF ReviewedIsSkipped
  <1>1. reviewed' = reviewed \/ \E i \in Touch : Reconcile(i) /\ reviewed' = reviewed \cup {i}
    BY DEF Next, Step, StageTouches, OptOut, ClaimJob, Finish, Defer, Check, Refuse, Place,
           Accept, LoseAcknowledgement, Record, StartDrip, FailWrite, Crash, Reconcile, Tick, vars
  <1>2. CASE j \in reviewed
    <2>1. j \in Touch /\ state[j] = "skipped"
      BY <1>2 DEF TypeOK, ReviewedIsSkipped
    <2>2. ~Reconcile(j)
      BY <2>1 DEF Reconcile
    <2>3. QED
      BY <2>1, <2>2, OnlyReviewMoves DEF Settled
  <1>3. CASE j \notin reviewed
    BY <1>1, <1>3 DEF Reconcile, TypeOK
  <1>4. QED
    BY <1>2, <1>3

\* A settled touch stays as it is until an operator reviews it.
THEOREM QuarantineIsPermanent == Spec => VerdictsStand
  <1>1. Init => ReviewedIsSkipped
    BY DEF Init, ReviewedIsSkipped
  <1>2. TypeOK /\ ReviewedIsSkipped /\ [Next]_vars
        => [\A j \in Touch :
              state[j] \in Settled => state'[j] = state[j] \/ j \in reviewed' \ reviewed]_vars
    <2> SUFFICES ASSUME TypeOK, ReviewedIsSkipped, [Next]_vars, NEW j \in Touch,
                        state[j] \in Settled, state'[j] # state[j]
                 PROVE  j \in reviewed' \ reviewed
      OBVIOUS
    <2>1. Reconcile(j)
      BY OnlyReviewMoves
    <2>2. j \notin reviewed
      BY <2>1 DEF Reconcile, ReviewedIsSkipped
    <2>3. QED
      BY <2>1, <2>2 DEF Reconcile
  <1>3. QED
    BY <1>1, <1>2, ReviewStep, TypeCorrect, PTL DEF Spec, VerdictsStand
-----------------------------------------------------------------------------
(***************************************************************************)
(* LeadSequences.  SeqInv adds to what SequencesSound says where the tick  *)
(* of a channel stands, and what the columns it goes by know of the last   *)
(* message.                                                                *)
(***************************************************************************)
LeadRows == [out : BOOLEAN, replied : BOOLEAN, text : Q!Columns, mail : Q!Columns]
Given(s) == intents[<<"mail", s>>] # "none"

\* A template whose intent is unknown has not been given to the provider.
UnknownIsNotGiven ==
    \A c \in Q!Channel, s \in StepDay : intents[<<c, s>>] = "none" => posts[c].templates[s] = 0

\* Only the message past its check can be late.
LateIsPastCheck ==
    \A c \in Q!Channel :
        c \notin barred \/ tick[c].at = "cleared" => posts[c].late = 0

\* A channel that does not tick sends nothing; no message is of a day to come.
OnlyTicksSend ==
    \A c \in Q!Channel :
        /\ c \notin ticking => tick[c] = Q!Waiting /\ posts[c].on = Q!Never
        /\ posts[c].on <= day

\* One more text may be hurried: an answer or a progress was lost that is not made up for.
Slack == posts["text"].hurried < posts["text"].unsaved \/ posts["text"].unsaved = 2

\* Who goes by a row that does not know of the last text may hurry the next.
TextsPaced ==
    LET t == tick["text"]  on == posts["text"].on IN
    /\ t.at # "sent" /\ on > leadRow.text.last => Slack
    /\ t.at = "read" /\ on > t.row.last => Slack
    /\ t.at = "cleared" /\ on = day => Slack

\* A row of the mails: the steps it counts as done have been given, and if it counts all that
\* have been, it knows of the last.
KnowsMails(row) ==
    /\ \A s \in StepDay : s <= row.step => Given(s)
    /\ (\A s \in StepDay : Given(s) => s <= row.step) => posts["mail"].on <= row.last

\* The mails are given in the order of their steps.
MailsPaced ==
    LET t == tick["mail"]  on == posts["mail"].on IN
    /\ \A s, r \in StepDay : Given(s) /\ r < s => Given(r)
    /\ on # Q!Never => \E s \in StepDay : Given(s)
    /\ KnowsMails(leadRow.mail)
    /\ t.at = "read" => KnowsMails(t.row)
    /\ t.at = "cleared" =>
          /\ t.body = "template"
          /\ \A r \in StepDay : r < t.step => Given(r)
          /\ Given(t.step) \/ on < day
    /\ t.at = "sent" => \A r \in StepDay : r <= t.step => Given(r)

SeqInv ==
    /\ Q!SequencesSound /\ UnknownIsNotGiven /\ LateIsPastCheck /\ OnlyTicksSend
    /\ TextsPaced /\ MailsPaced

LEMMA SeqConstants ==
    /\ StepDay \subseteq Nat /\ StepDay # {} /\ LastDay \in Nat
    /\ MaxStarts \in Nat /\ MaxLapses \in Nat /\ Ticking \subseteq SUBSET Q!Channel
    /\ 0 \in Q!Never .. LastDay /\ Q!Never \in Q!Never .. LastDay /\ Q!Never = -1
  BY ContactAssumption DEF Q!SequenceAssumption, Q!Never

LEMMA SeqInit == Q!Init => SeqInv
  <1> SUFFICES ASSUME Q!Init PROVE SeqInv
    OBVIOUS
  <1>1. PICK columns \in [Q!Channel -> {Q!NotStarted, Q!TextedOnce, Q!JustStarted}] :
          leadRow = [out |-> FALSE, replied |-> FALSE, text |-> columns["text"],
                     mail |-> columns["mail"]]
          /\ columns["mail"] # Q!TextedOnce
    BY DEF Q!Init
  <1>2. /\ Q!NotStarted \in Q!Columns /\ Q!TextedOnce \in Q!Columns /\ Q!JustStarted \in Q!Columns
        /\ Q!NotStarted.step = -1 /\ Q!TextedOnce.step = -1 /\ Q!JustStarted.step = -1
    BY SeqConstants DEF Q!NotStarted, Q!TextedOnce, Q!JustStarted, Q!Columns, Q!Never
  <1>3. /\ columns["text"] \in Q!Columns /\ columns["mail"] \in Q!Columns
        /\ columns["mail"].step = -1
    BY <1>1, <1>2 DEF Q!Channel
  <1>4. /\ leadRow \in LeadRows /\ leadRow.mail = columns["mail"] /\ leadRow.text = columns["text"]
    BY <1>1, <1>3 DEF LeadRows
  <1>5. \A c \in Q!Channel : /\ tick[c] = Q!Waiting /\ tick[c].at = "idle"
                             /\ posts[c].on = -1 /\ posts[c].late = 0
                             /\ posts[c].hurried = 0 /\ posts[c].unsaved = 0
                             /\ \A s \in StepDay : posts[c].templates[s] = 0
    BY DEF Q!Init, Q!Waiting, Q!Never
  <1>6. posts \in [Q!Channel -> Q!Posts]
    BY SeqConstants DEF Q!Init, Q!Posts, Q!Never
  <1>7. \A c \in Q!Channel, s \in StepDay : intents[<<c, s>>] = "none"
    BY DEF Q!Init
  <1>8. Q!TypeOK
    <2>1. tick \in [Q!Channel -> Q!Place]
      BY DEF Q!Init, Q!Place
    <2>2. intents \in [Q!Channel \X StepDay -> {"none", "sending", "accepted"}]
      BY DEF Q!Init
    <2>3. day \in 0 .. LastDay /\ lapses \in 0 .. MaxLapses /\ starts \in 0 .. MaxStarts
      BY SeqConstants DEF Q!Init
    <2>4. QED
      BY <1>4, <1>6, <2>1, <2>2, <2>3 DEF Q!Init, Q!TypeOK, LeadRows
  <1>9. Q!SequencesSound
    BY <1>5, <1>8 DEF Q!SequencesSound, Q!TemplateOnce, Q!QuietAfterStop, Q!OneADay, Q!Channel
  <1>10. /\ UnknownIsNotGiven /\ LateIsPastCheck /\ OnlyTicksSend
    BY <1>5 DEF UnknownIsNotGiven, LateIsPastCheck, OnlyTicksSend, Q!Never, Q!Init
  <1>11. leadRow.text.last \in Int /\ leadRow.text.last >= -1
         /\ leadRow.mail.last \in Int /\ leadRow.mail.last >= -1
    BY <1>4 DEF LeadRows, Q!Columns, Q!Never
  <1>12. TextsPaced
    BY <1>5, <1>11 DEF TextsPaced, Q!Channel
  <1>13. MailsPaced
    BY <1>3, <1>4, <1>5, <1>7, <1>11, SeqConstants DEF MailsPaced, KnowsMails, Given, Q!Channel, Q!Never
  <1>14. QED
    BY <1>9, <1>10, <1>12, <1>13 DEF SeqInv

\* The columns that nobody reads in a behaviour are not kept: what becomes of a row.
LEMMA RowKeeps ==
    ASSUME NEW l \in LeadRows
    PROVE  /\ Q!Row(l) \in LeadRows /\ Q!Row(l).text.last = l.text.last
           /\ "mail" \in ticking => Q!Row(l).mail = l.mail
           /\ "mail" \notin ticking => Q!Row(l).mail = Q!NotStarted
  <1>1. l.text \in Q!Columns /\ l.mail \in Q!Columns
    BY DEF LeadRows
  <1> DEFINE m == IF "mail" \in ticking THEN l.mail ELSE Q!NotStarted
             t == IF "text" \in ticking THEN l.text
                  ELSE [Q!NotStarted EXCEPT !.from = l.text.from, !.last = l.text.last]
  <1>2. m \in Q!Columns
    BY <1>1, SeqConstants DEF Q!NotStarted, Q!Columns
  <1>3. t \in Q!Columns /\ t.last = l.text.last
    BY <1>1, SeqConstants DEF Q!NotStarted, Q!Columns
  <1>4. Q!Row(l) = [l EXCEPT !.mail = m, !.text = t]
    BY DEF Q!Row
  <1> HIDE DEF m, t
  <1>5. Q!Row(l) \in LeadRows /\ Q!Row(l).text = t /\ Q!Row(l).mail = m
    BY <1>2, <1>3, <1>4 DEF LeadRows
  <1>6. QED
    BY <1>3, <1>5 DEF m

\* Whatever sets a sequence back knows of the last message: its day is kept, or is today.
SetsBack(l) ==
    /\ l \in LeadRows /\ l.text.last \in {leadRow.text.last, day}
    /\ l.mail.step \in {leadRow.mail.step, Q!Never} /\ l.mail.last \in {leadRow.mail.last, day}

Written ==
    \/ leadRow' = leadRow
    \/ \E l \in LeadRows : SetsBack(l) /\ (leadRow' = l \/ leadRow' = Q!Row(l))

\* A tick goes on, or ends without a progress to save.
Rests ==
    /\ tick' \in [Q!Channel -> Q!Place]
    /\ \A c \in Q!Channel : \/ tick'[c] = tick[c]
                            \/ tick'[c] = Q!Waiting /\ tick[c].at # "sent"

\* Who starts, stops and pauses leaves the ticks and what they have sent alone; a tick that
\* sends nothing does no more than they do.
LEMMA OthersKeepInv ==
    ASSUME SeqInv, UNCHANGED <<ticking, intents, posts>>, Rests, barred \subseteq barred',
           barred' \subseteq Q!Channel, lapses' \in 0 .. MaxLapses, starts' \in 0 .. MaxStarts,
           starter' \in {Q!Hold} \cup [at : {"decided"}, channel : Q!Channel],
           day' \in 0 .. LastDay, \/ day' = day
                                  \/ day' = day + 1 /\ leadRow' = leadRow,
           Written
    PROVE  SeqInv'
  <1>1. Q!TypeOK /\ leadRow \in LeadRows /\ day \in Int
    BY DEF SeqInv, Q!SequencesSound, Q!TypeOK, LeadRows
  <1>2. /\ leadRow' \in LeadRows /\ leadRow'.text.last \in {leadRow.text.last, day}
        /\ \/ /\ leadRow'.mail.step \in {leadRow.mail.step, Q!Never}
              /\ leadRow'.mail.last \in {leadRow.mail.last, day}
           \/ "mail" \notin ticking /\ leadRow'.mail.step = -1 /\ leadRow'.mail.last = -1
    <2>1. CASE leadRow' = leadRow
      BY <1>1, <2>1
    <2>2. ASSUME NEW l \in LeadRows, SetsBack(l), leadRow' = l \/ leadRow' = Q!Row(l)
          PROVE  /\ leadRow' \in LeadRows /\ leadRow'.text.last \in {leadRow.text.last, day}
                 /\ \/ /\ leadRow'.mail.step \in {leadRow.mail.step, Q!Never}
                       /\ leadRow'.mail.last \in {leadRow.mail.last, day}
                    \/ "mail" \notin ticking /\ leadRow'.mail.step = -1 /\ leadRow'.mail.last = -1
      BY <2>2, RowKeeps DEF SetsBack, Q!NotStarted, Q!Never
    <2>3. QED
      BY <2>1, <2>2 DEF Written
  <1>3. Q!TypeOK'
    BY <1>1, <1>2 DEF Q!TypeOK, LeadRows, Rests
  <1> DEFINE Ends(c) == tick'[c] = Q!Waiting /\ tick'[c].at = "idle" /\ tick[c].at # "sent"
  <1>11. \A c \in Q!Channel : tick'[c] = tick[c] \/ Ends(c)
    BY DEF Rests, Q!Waiting
  <1>12. /\ tick'["text"] = tick["text"] \/ Ends("text")
         /\ tick'["mail"] = tick["mail"] \/ Ends("mail")
    BY <1>11 DEF Q!Channel
  <1>4. Q!SequencesSound'
    BY <1>3 DEF SeqInv, Q!SequencesSound, Q!TemplateOnce, Q!QuietAfterStop, Q!OneADay
  <1>5. UnknownIsNotGiven' /\ LateIsPastCheck' /\ OnlyTicksSend'
    <2>1. \A c \in Q!Channel : posts[c].on \in Int
      BY <1>1 DEF Q!TypeOK, Q!Posts, Q!Never
    <2>2. OnlyTicksSend'
      BY <1>1, <1>11, <2>1 DEF SeqInv, OnlyTicksSend
    <2>3. QED
      BY <1>11, <2>2 DEF SeqInv, UnknownIsNotGiven, LateIsPastCheck
  <1>6. /\ posts["text"].on \in Int /\ posts["text"].on <= day
        /\ posts["mail"].on \in Int /\ posts["mail"].on <= day
        /\ leadRow.text.last \in Int /\ leadRow.mail.last \in Int
        /\ "mail" \notin ticking => posts["mail"].on = -1
    BY <1>1 DEF SeqInv, OnlyTicksSend, Q!Channel, Q!TypeOK, Q!Posts, LeadRows, Q!Columns, Q!Never
  <1>7. TextsPaced'
    BY <1>1, <1>2, <1>6, <1>12 DEF SeqInv, TextsPaced, Slack
  <1>8. KnowsMails(leadRow.mail)'
    <2>1. KnowsMails(leadRow.mail) /\ (posts["mail"].on # -1 => \E s \in StepDay : Given(s))
      BY DEF SeqInv, MailsPaced, Q!Never
    <2>2. CASE leadRow'.mail.step = -1
      <3>1. ASSUME NEW s \in StepDay PROVE ~(s <= leadRow'.mail.step)
        <4>1. s \in Nat /\ ~(s <= -1)
          BY SeqConstants
        <4>2. QED
          BY <2>2, <4>1
      <3>2. (\A s \in StepDay : Given(s) => s <= leadRow'.mail.step) => posts["mail"].on = -1
        BY <2>1, <3>1
      <3>3. leadRow'.mail.last \in Int /\ leadRow'.mail.last >= -1
        BY <1>2 DEF LeadRows, Q!Columns, Q!Never
      <3>4. QED
        BY <1>6, <3>1, <3>2, <3>3 DEF KnowsMails, Given
    <2>3. CASE leadRow'.mail.step = leadRow.mail.step
      BY <1>2, <1>6, <2>1, <2>2, <2>3 DEF KnowsMails, Given
    <2>4. QED
      BY <1>2, <2>2, <2>3 DEF Q!Never
  <1>9. MailsPaced'
    BY <1>1, <1>6, <1>8, <1>12 DEF SeqInv, MailsPaced, KnowsMails, Given
  <1>10. QED
    BY <1>4, <1>5, <1>7, <1>9 DEF SeqInv

\* The rows that the writers of the lead make of it.
LEMMA WritesKnow ==
    ASSUME SeqInv
    PROVE  /\ SetsBack(Q!StartedText) /\ SetsBack(Q!StartedMail)
           /\ SetsBack([leadRow EXCEPT !.text.last = day])
           /\ SetsBack([leadRow EXCEPT !.text.paused = TRUE, !.mail.paused = TRUE, !.replied = TRUE])
           /\ SetsBack([leadRow EXCEPT !.out = TRUE, !.text.paused = TRUE])
           /\ SetsBack([leadRow EXCEPT !.mail.paused = TRUE])
           /\ SetsBack([leadRow EXCEPT !.text.step = LastDay])
           /\ SetsBack([leadRow EXCEPT !.text.paused = TRUE])
  <1>1. leadRow \in LeadRows /\ day \in Q!Never .. LastDay
    BY SeqConstants DEF SeqInv, Q!SequencesSound, Q!TypeOK, LeadRows, Q!Never
  <1>2. leadRow.text \in Q!Columns /\ leadRow.mail \in Q!Columns
    BY <1>1 DEF LeadRows
  <1>3. SetsBack(Q!StartedText)
    <2> DEFINE t == [from |-> day, step |-> Q!Never, last |-> day, paused |-> FALSE, done |-> FALSE]
               m == [leadRow.mail EXCEPT !.step = Q!Never, !.last = day, !.paused = FALSE,
                                         !.done = FALSE]
    <2>1. t \in Q!Columns /\ t.last = day
      BY <1>1 DEF Q!Columns
    <2>2. m \in Q!Columns /\ m.last = day /\ m.step = Q!Never
      BY <1>1, <1>2 DEF Q!Columns
    <2>3. Q!StartedText = [leadRow EXCEPT !.out = FALSE, !.text = t, !.mail = m]
      BY DEF Q!StartedText
    <2> HIDE DEF t, m
    <2>4. QED
      BY <1>1, <2>1, <2>2, <2>3 DEF SetsBack, LeadRows
  <1>4. SetsBack(Q!StartedMail)
    <2> DEFINE m == [leadRow.mail EXCEPT !.from = day, !.step = Q!Never, !.paused = FALSE,
                                         !.done = FALSE]
    <2>1. m \in Q!Columns /\ m.last = leadRow.mail.last /\ m.step = Q!Never
      BY <1>1, <1>2 DEF Q!Columns
    <2>2. Q!StartedMail = [leadRow EXCEPT !.mail = m]
      BY DEF Q!StartedMail
    <2> HIDE DEF m
    <2>3. QED
      BY <1>1, <2>1, <2>2 DEF SetsBack, LeadRows
  <1>5. SetsBack([leadRow EXCEPT !.text.last = day])
    BY <1>1, <1>2 DEF SetsBack, LeadRows, Q!Columns
  <1>6. SetsBack([leadRow EXCEPT !.text.paused = TRUE, !.mail.paused = TRUE, !.replied = TRUE])
    BY <1>1, <1>2 DEF SetsBack, LeadRows, Q!Columns
  <1>7. SetsBack([leadRow EXCEPT !.out = TRUE, !.text.paused = TRUE])
    BY <1>1, <1>2 DEF SetsBack, LeadRows, Q!Columns
  <1>8. SetsBack([leadRow EXCEPT !.mail.paused = TRUE])
    BY <1>1, <1>2 DEF SetsBack, LeadRows, Q!Columns
  <1>9. SetsBack([leadRow EXCEPT !.text.step = LastDay])
    BY <1>1, <1>2 DEF SetsBack, LeadRows, Q!Columns
  <1>10. SetsBack([leadRow EXCEPT !.text.paused = TRUE])
    BY <1>1, <1>2 DEF SetsBack, LeadRows, Q!Columns
  <1>11. QED
    BY <1>3, <1>4, <1>5, <1>6, <1>7, <1>8, <1>9, <1>10

LEMMA OthersStep ==
    ASSUME SeqInv,
           \/ Q!Decide \/ Q!Start \/ Q!LoopText \/ Q!Reply \/ Q!Stop \/ Q!MailReply
           \/ Q!Disposition \/ Q!OperatorPause \/ Q!NewDay
    PROVE  SeqInv'
  <1>1. /\ day \in 0 .. LastDay /\ lapses \in 0 .. MaxLapses /\ starts \in 0 .. MaxStarts
        /\ barred \subseteq Q!Channel /\ "text" \in Q!Channel /\ "mail" \in Q!Channel
        /\ starter \in {Q!Hold} \cup [at : {"decided"}, channel : Q!Channel]
        /\ LastDay \in Nat /\ MaxLapses \in Nat /\ MaxStarts \in Nat
    BY SeqConstants DEF SeqInv, Q!SequencesSound, Q!TypeOK, Q!Channel
  <1>0. tick' = tick => Rests
    <2>1. tick \in [Q!Channel -> Q!Place]
      BY DEF SeqInv, Q!SequencesSound, Q!TypeOK
    <2>2. QED
      BY <2>1 DEF Rests
  <1>2. \A l : SetsBack(l) /\ (leadRow' = l \/ leadRow' = Q!Row(l)) => Written
    BY DEF SetsBack, Written
  <1>3. CASE Q!Decide
    <2>1. PICK c \in Q!Channel : starter' = [at |-> "decided", channel |-> c]
      BY <1>3 DEF Q!Decide, Q!MayStart, Q!Channel
    <2>2. starts' \in 0 .. MaxStarts
      BY <1>1, <1>3 DEF Q!Decide
    <2>3. Written /\ starter' \in {Q!Hold} \cup [at : {"decided"}, channel : Q!Channel]
      BY <1>3, <2>1 DEF Q!Decide, Written
    <2>4. QED
      BY <1>0, <1>1, <1>3, <2>2, <2>3, OthersKeepInv DEF Q!Decide
  <1>4. CASE Q!Start
    <2>1. Written
      BY <1>2, <1>4, WritesKnow DEF Q!Start
    <2>2. starter' = Q!Hold /\ UNCHANGED <<day, ticking, barred, intents, tick, lapses, starts, posts>>
      BY <1>4 DEF Q!Start
    <2>3. QED
      BY <1>0, <1>1, <2>1, <2>2, OthersKeepInv
  <1>5. CASE Q!LoopText
    <2>1. Written
      BY <1>2, <1>5, WritesKnow DEF Q!LoopText
    <2>2. UNCHANGED <<day, ticking, barred, intents, tick, starter, lapses, starts, posts>>
      BY <1>5 DEF Q!LoopText
    <2>3. QED
      BY <1>0, <1>1, <2>1, <2>2, OthersKeepInv
  <1>6. CASE Q!Reply
    <2>1. Written
      BY <1>2, <1>6, WritesKnow DEF Q!Reply
    <2>2. UNCHANGED <<day, ticking, barred, intents, tick, starter, lapses, starts, posts>>
      BY <1>6 DEF Q!Reply
    <2>3. QED
      BY <1>0, <1>1, <2>1, <2>2, OthersKeepInv
  <1>7. CASE Q!Stop
    <2>1. lapses' \in 0 .. MaxLapses
      BY <1>1, <1>7 DEF Q!Stop
    <2>2. barred \subseteq barred' /\ barred' \subseteq Q!Channel
      BY <1>1, <1>7 DEF Q!Stop
    <2>3. Written
      BY <1>2, <1>7, WritesKnow DEF Q!Stop, Written
    <2>4. UNCHANGED <<day, ticking, intents, tick, starter, starts, posts>>
      BY <1>7 DEF Q!Stop
    <2>5. QED
      BY <1>0, <1>1, <2>1, <2>2, <2>3, <2>4, OthersKeepInv
  <1>8. CASE Q!MailReply
    <2>1. barred \subseteq barred' /\ barred' \subseteq Q!Channel
      BY <1>1, <1>8 DEF Q!MailReply
    <2>2. Written
      BY <1>2, <1>8, WritesKnow DEF Q!MailReply
    <2>3. UNCHANGED <<day, ticking, intents, tick, starter, lapses, starts, posts>>
      BY <1>8 DEF Q!MailReply
    <2>4. QED
      BY <1>0, <1>1, <2>1, <2>2, <2>3, OthersKeepInv
  <1>9. CASE Q!Disposition
    <2>1. Written
      BY <1>2, <1>9, WritesKnow DEF Q!Disposition
    <2>2. UNCHANGED <<day, ticking, barred, intents, tick, starter, lapses, starts, posts>>
      BY <1>9 DEF Q!Disposition
    <2>3. QED
      BY <1>0, <1>1, <2>1, <2>2, OthersKeepInv
  <1>10. CASE Q!OperatorPause
    <2>1. Written
      BY <1>2, <1>10, WritesKnow DEF Q!OperatorPause
    <2>2. UNCHANGED <<day, ticking, barred, intents, tick, starter, lapses, starts, posts>>
      BY <1>10 DEF Q!OperatorPause
    <2>3. QED
      BY <1>0, <1>1, <2>1, <2>2, OthersKeepInv
  <1>11. CASE Q!NewDay
    <2>1. day' \in 0 .. LastDay /\ day' = day + 1
      BY <1>1, <1>11 DEF Q!NewDay
    <2>2. Written
      BY <1>11 DEF Q!NewDay, Written
    <2>3. QED
      BY <1>0, <1>1, <1>11, <2>1, <2>2, OthersKeepInv DEF Q!NewDay
  <1>12. QED
    BY <1>3, <1>4, <1>5, <1>6, <1>7, <1>8, <1>9, <1>10, <1>11

LEMMA SeqFields ==
    ASSUME SeqInv, NEW c \in Q!Channel
    PROVE  /\ Q!TypeOK /\ leadRow \in LeadRows /\ leadRow[c] \in Q!Columns
           /\ tick[c] \in Q!Place /\ posts[c] \in Q!Posts
           /\ day \in Int /\ day \in 0 .. LastDay /\ day \in Q!Never .. LastDay
           /\ c \in {"text", "mail"} /\ c \in DOMAIN leadRow
           /\ lapses \in 0 .. MaxLapses /\ MaxLapses \in Nat
  <1>1. Q!TypeOK /\ leadRow \in LeadRows /\ c \in {"text", "mail"}
    BY DEF SeqInv, Q!SequencesSound, Q!TypeOK, LeadRows, Q!Channel
  <1>2. leadRow[c] \in Q!Columns /\ c \in DOMAIN leadRow
    BY <1>1 DEF LeadRows
  <1>3. QED
    BY <1>1, <1>2, SeqConstants DEF Q!TypeOK, Q!Never

\* What a tick holds at each place.
LEMMA TickFields ==
    ASSUME SeqInv, NEW c \in Q!Channel
    PROVE  /\ tick[c].at \in {"idle", "read", "cleared", "sent"}
           /\ tick[c].at = "read" => tick[c].row \in Q!Columns
           /\ tick[c].at \in {"cleared", "sent"} => tick[c].step \in StepDay
           /\ tick[c].at = "cleared" => tick[c].body \in {"template", "composed"}
           /\ tick[c] = Q!Waiting => tick[c].at = "idle"
  BY SeqFields DEF Q!Place, Q!Waiting


LEMMA TickReadsKeepsInv ==
    ASSUME SeqInv, NEW c \in Q!Channel, Q!TickReads(c)
    PROVE  SeqInv'
  <1> DEFINE t == [at |-> "read", row |-> leadRow[c]]
  <1>1. t \in Q!Place /\ t.at = "read" /\ t.row = leadRow[c]
    BY SeqFields DEF Q!Place
  <1>2. /\ tick' = [tick EXCEPT ![c] = t] /\ c \in ticking /\ tick[c] = Q!Waiting
        /\ UNCHANGED <<day, leadRow, ticking, barred, intents, starter, lapses, starts, posts>>
    BY DEF Q!TickReads
  <1> HIDE DEF t
  <1>3. /\ tick' \in [Q!Channel -> Q!Place] /\ tick'[c] = t
        /\ \A d \in Q!Channel : d # c => tick'[d] = tick[d]
    BY <1>1, <1>2, SeqFields DEF Q!TypeOK
  <1>4. Q!TypeOK'
    BY <1>2, <1>3, SeqFields DEF Q!TypeOK
  <1>5. Q!SequencesSound'
    BY <1>2, <1>4 DEF SeqInv, Q!SequencesSound, Q!TemplateOnce, Q!QuietAfterStop, Q!OneADay
  <1>6. UnknownIsNotGiven' /\ LateIsPastCheck' /\ OnlyTicksSend'
    BY <1>1, <1>2, <1>3 DEF SeqInv, UnknownIsNotGiven, LateIsPastCheck, OnlyTicksSend
  <1>7. TextsPaced'
    <2>1. CASE c = "text"
      BY <1>1, <1>2, <1>3, <2>1, TickFields DEF SeqInv, TextsPaced, Slack
    <2>2. CASE c = "mail"
      BY <1>2, <1>3, <2>2 DEF SeqInv, TextsPaced, Slack, Q!Channel
    <2>3. QED
      BY <2>1, <2>2 DEF Q!Channel
  <1>8. MailsPaced'
    <2>1. CASE c = "text"
      BY <1>2, <1>3, <2>1 DEF SeqInv, MailsPaced, KnowsMails, Given, Q!Channel
    <2>2. CASE c = "mail"
      BY <1>1, <1>2, <1>3, <2>2 DEF SeqInv, MailsPaced, KnowsMails, Given
    <2>3. QED
      BY <2>1, <2>2 DEF Q!Channel
  <1>9. QED
    BY <1>5, <1>6, <1>7, <1>8 DEF SeqInv

\* The first of some steps is one of them.
LEMMA FirstStep ==
    ASSUME NEW steps, steps \subseteq Nat, steps # {}
    PROVE  Q!First(steps) \in steps /\ \A r \in steps : Q!First(steps) <= r
  <1> DEFINE less == {pair \in Nat \X Nat : pair[1] < pair[2]}
  <1>1. IsWellFoundedOn(less, Nat)
    BY NatLessThanWellFounded DEF OpToRel
  <1> HIDE DEF less
  <1>2. PICK s \in steps : \A r \in steps : <<r, s>> \notin less
    BY <1>1, WFMin
  <1>3. ASSUME NEW r \in steps PROVE s <= r
    <2>1. r \in Nat /\ s \in Nat
      OBVIOUS
    <2>2. <<r, s>> \notin less
      BY <1>2
    <2>3. ~(r < s)
      BY <2>1, <2>2 DEF less
    <2>4. QED
      BY <2>1, <2>3
  <1>4. QED
    BY <1>2, <1>3 DEF Q!First

\* What _process_lead makes of the row: the first step that is due and was not sent.
LEMMA DueStep ==
    ASSUME NEW row \in Q!Columns, Q!DueSteps(row) # {}, day \in Int
    PROVE  LET s == Q!First(Q!DueSteps(row)) IN
           /\ s \in StepDay /\ s > row.step
           /\ \A r \in StepDay : r < s => r <= row.step
  <1> DEFINE s == Q!First(Q!DueSteps(row))
  <1>1. Q!DueSteps(row) \subseteq Nat
    BY SeqConstants DEF Q!DueSteps
  <1>2. s \in Q!DueSteps(row) /\ \A r \in Q!DueSteps(row) : s <= r
    BY <1>1, FirstStep
  <1> HIDE DEF s
  <1>3. s \in StepDay /\ s \in Nat /\ s > row.step /\ day - row.from >= s
    BY <1>1, <1>2 DEF Q!DueSteps
  <1>4. row.step \in Int /\ row.from \in Int
    <2>1. row.from \in Q!Never .. LastDay /\ row.step \in {Q!Never, LastDay} \cup StepDay
      BY DEF Q!Columns
    <2>2. Q!Never \in Int /\ LastDay \in Int /\ StepDay \subseteq Int
      BY SeqConstants DEF Q!Never
    <2>3. row.step \in Int
      BY <2>1, <2>2
    <2>4. row.from \in Int
      BY <2>1, <2>2
    <2>5. QED
      BY <2>3, <2>4
  <1>5. ASSUME NEW r \in StepDay, r < s PROVE r <= row.step
    <2>1. r \in Nat /\ r \notin Q!DueSteps(row)
      BY <1>2, <1>3, <1>5, SeqConstants
    <2>2. r > row.step => ~(day - row.from >= r)
      BY <2>1 DEF Q!DueSteps
    <2>3. day - row.from >= r
      BY <1>3, <1>4, <1>5, <2>1
    <2>4. QED
      BY <1>4, <2>1, <2>2, <2>3
  <1>6. QED
    BY <1>3, <1>5 DEF s

\* Setting done leaves what a row says of the last message.
LEMMA DoneIsWritten ==
    ASSUME SeqInv, NEW c \in Q!Channel
    PROVE  SetsBack([leadRow EXCEPT ![c] = [leadRow[c] EXCEPT !.done = TRUE]])
  <1> DEFINE r == [leadRow[c] EXCEPT !.done = TRUE]
  <1>1. r \in Q!Columns /\ r.last = leadRow[c].last /\ r.step = leadRow[c].step
    BY SeqFields DEF Q!Columns
  <1> HIDE DEF r
  <1>2. leadRow \in LeadRows
    BY SeqFields
  <1>3. CASE c = "text"
    <2>1. [leadRow EXCEPT !["text"] = r] = [leadRow EXCEPT !.text = r]
      OBVIOUS
    <2>2. SetsBack([leadRow EXCEPT !.text = r])
      BY <1>1, <1>2, <1>3 DEF SetsBack, LeadRows
    <2>3. QED
      BY <1>3, <2>1, <2>2 DEF r
  <1>4. CASE c = "mail"
    <2>1. [leadRow EXCEPT !["mail"] = r] = [leadRow EXCEPT !.mail = r]
      OBVIOUS
    <2>2. SetsBack([leadRow EXCEPT !.mail = r])
      BY <1>1, <1>2, <1>4 DEF SetsBack, LeadRows
    <2>3. QED
      BY <1>4, <2>1, <2>2 DEF r
  <1>5. QED
    BY <1>3, <1>4 DEF Q!Channel, r

\* _process_lead and _process_email_lead on the row the tick has read.
LEMMA ProcessKeepsInv ==
    ASSUME SeqInv, NEW c \in Q!Channel, Q!Process(c)
    PROVE  SeqInv'
  <1> DEFINE row == tick[c].row
  <1>1. /\ tick[c].at = "read" /\ row \in Q!Columns
        /\ UNCHANGED <<day, ticking, barred, intents, starter, lapses, starts, posts>>
    BY TickFields DEF Q!Process
  <1>2. tick' = [tick EXCEPT ![c] = Q!Waiting] => Rests
    <2>1. Q!Waiting \in Q!Place /\ tick \in [Q!Channel -> Q!Place]
      BY SeqFields DEF Q!TypeOK, Q!Place
    <2>2. QED
      BY <1>1, <2>1 DEF Rests
  <1>3. /\ barred \subseteq Q!Channel /\ lapses \in 0 .. MaxLapses /\ starts \in 0 .. MaxStarts
        /\ day \in 0 .. LastDay /\ starter \in {Q!Hold} \cup [at : {"decided"}, channel : Q!Channel]
    BY SeqFields DEF Q!TypeOK
  <1>4. CASE tick' = [tick EXCEPT ![c] = Q!Waiting]
    <2>1. Written
      <3>1. \/ leadRow' = leadRow
            \/ leadRow' = [leadRow EXCEPT ![c] = [leadRow[c] EXCEPT !.done = TRUE]]
        BY DEF Q!Process, Q!Set
      <3>2. QED
        BY <3>1, DoneIsWritten DEF Written, SetsBack
    <2>2. QED
      BY <1>1, <1>2, <1>3, <1>4, <2>1, OthersKeepInv
  <1>5. CASE tick' # [tick EXCEPT ![c] = Q!Waiting]
    <2> DEFINE s == Q!First(Q!DueSteps(row))
    <2>1. PICK b \in Q!Bodies(c) : tick' = [tick EXCEPT ![c] = [at |-> "cleared", step |-> s, body |-> b]]
      BY <1>5 DEF Q!Process
    <2>2. leadRow' = leadRow /\ Q!MaySend(c) /\ Q!Rested(row) /\ Q!DueSteps(row) # {}
      BY <1>5 DEF Q!Process
    <2>3. /\ s \in StepDay /\ s > row.step /\ \A r \in StepDay : r < s => r <= row.step
      BY <1>1, <2>2, SeqFields, DueStep
    <2> HIDE DEF s
    <2> DEFINE t == [at |-> "cleared", step |-> s, body |-> b]
    <2>4. /\ t \in Q!Place /\ t.at = "cleared" /\ t.step = s /\ t.body = b
          /\ (c = "mail" => b = "template")
      BY <2>3 DEF Q!Place, Q!Bodies
    <2>5. tick' = [tick EXCEPT ![c] = t]
      BY <2>1
    <2> HIDE DEF t
    <2>6. /\ tick' \in [Q!Channel -> Q!Place] /\ tick'[c] = t
          /\ \A d \in Q!Channel : d # c => tick'[d] = tick[d]
      BY <2>4, <2>5, SeqFields DEF Q!TypeOK
    <2>7. Q!TypeOK'
      BY <1>1, <2>2, <2>6, SeqFields DEF Q!TypeOK
    <2>8. Q!SequencesSound'
      BY <1>1, <2>7 DEF SeqInv, Q!SequencesSound, Q!TemplateOnce, Q!QuietAfterStop, Q!OneADay
    <2>9. c \notin barred /\ c \in ticking
      BY <1>1, <2>2 DEF Q!MaySend, SeqInv, OnlyTicksSend, Q!Waiting
    <2>10. UnknownIsNotGiven' /\ LateIsPastCheck' /\ OnlyTicksSend'
      BY <1>1, <2>4, <2>6, <2>9 DEF SeqInv, UnknownIsNotGiven, LateIsPastCheck, OnlyTicksSend
    <2>11. /\ row.last \in Int /\ row.last >= -1 /\ row.step \in Int
           /\ row.last < day
           /\ posts[c].on \in Int /\ posts[c].on <= day
      <3>1. row.last \in Q!Never .. LastDay /\ row.step \in {Q!Never, LastDay} \cup StepDay
            /\ posts[c].on \in Q!Never .. LastDay /\ posts[c].on <= day /\ day \in 0 .. LastDay
        BY <1>1, <1>3, SeqFields DEF Q!Columns, Q!Posts, SeqInv, OnlyTicksSend
      <3>2. Q!Never = -1 /\ LastDay \in Nat /\ StepDay \subseteq Nat
        BY SeqConstants
      <3>3. row.last = -1 \/ day - row.last >= 1
        BY <2>2, <3>2 DEF Q!Rested
      <3>4. row.last \in Int /\ row.last >= -1 /\ posts[c].on \in Int /\ day \in Nat
        BY <3>1, <3>2
      <3>5. row.last < day
        BY <3>3, <3>4
      <3>6. row.step \in Int
        <4>1. Q!Never \in Int /\ LastDay \in Int /\ StepDay \subseteq Int
          BY <3>2
        <4>2. QED
          BY <3>1, <4>1
      <3>7. QED
        BY <3>1, <3>4, <3>5, <3>6
    <2>12. CASE c = "text"
      <3>1. TextsPaced'
        BY <1>1, <2>2, <2>4, <2>6, <2>11, <2>12 DEF SeqInv, TextsPaced, Slack
      <3>2. MailsPaced'
        BY <1>1, <2>2, <2>6, <2>12 DEF SeqInv, MailsPaced, KnowsMails, Given, Q!Channel
      <3>3. QED
        BY <2>8, <2>10, <3>1, <3>2 DEF SeqInv
    <2>13. CASE c = "mail"
      <3>1. TextsPaced'
        BY <1>1, <2>2, <2>6, <2>13 DEF SeqInv, TextsPaced, Slack, Q!Channel
      <3>2. MailsPaced /\ KnowsMails(row)
        BY <1>1, <2>13 DEF SeqInv, MailsPaced
      <3>3. \A r \in StepDay : r < s => Given(r)
        BY <2>3, <3>2 DEF KnowsMails
      <3>4. ~Given(s) => \A r \in StepDay : Given(r) => r <= row.step
        <4> SUFFICES ASSUME ~Given(s), NEW r \in StepDay, Given(r) PROVE r <= row.step
          OBVIOUS
        <4>1. ~(s < r) /\ r # s /\ r \in Nat /\ s \in Nat
          BY <2>3, <3>2, SeqConstants DEF MailsPaced
        <4>2. r < s
          BY <4>1
        <4>3. QED
          BY <2>3, <4>2
      <3>5. ~Given(s) => posts["mail"].on < day
        BY <2>11, <2>13, <3>2, <3>4, SeqFields DEF KnowsMails
      <3>6. MailsPaced'
        BY <1>1, <2>2, <2>4, <2>6, <2>13, <3>2, <3>3, <3>5 DEF MailsPaced, KnowsMails, Given
      <3>7. QED
        BY <2>8, <2>10, <3>1, <3>6 DEF SeqInv
    <2>14. QED
      BY <2>12, <2>13 DEF Q!Channel
  <1>6. QED
    BY <1>4, <1>5

LEMMA UptoTwo ==
    ASSUME NEW n \in 0 .. 2
    PROVE  /\ Q!Upto2(n + 1) \in 0 .. 2 /\ Q!Upto2(n + 1) = IF n = 2 THEN 2 ELSE n + 1
           /\ Q!Upto2(n + 0) = n
  BY DEF Q!Upto2

\* update_lead_drip_progress and update_lead_email_progress, and the write that fails.
LEMMA SaveKeepsInv ==
    ASSUME SeqInv, NEW c \in Q!Channel, Q!Save(c)
    PROVE  SeqInv'
  <1> DEFINE s == tick[c].step
             p == [posts[c] EXCEPT !.unsaved = Q!Upto2(posts[c].unsaved + 1)]
             row == [leadRow[c] EXCEPT !.step = s, !.last = day]
  <1>1. /\ tick[c].at = "sent" /\ s \in StepDay /\ tick' = [tick EXCEPT ![c] = Q!Waiting]
        /\ UNCHANGED <<day, ticking, barred, intents, starter, starts>>
    BY TickFields DEF Q!Save
  <1>2. Q!Waiting \in Q!Place /\ Q!Waiting.at = "idle"
    BY DEF Q!Place, Q!Waiting
  <1>3. /\ tick' \in [Q!Channel -> Q!Place] /\ tick'[c] = Q!Waiting /\ tick'[c].at = "idle"
        /\ \A d \in Q!Channel : d # c => tick'[d] = tick[d]
    BY <1>1, <1>2, SeqFields DEF Q!TypeOK
  <1>4. /\ posts["text"].on \in Int /\ posts["text"].on <= day
        /\ posts["mail"].on \in Int /\ posts["mail"].on <= day /\ day \in Int
        /\ c \in ticking
    <2>1. \A d \in Q!Channel : posts[d].on \in Int /\ posts[d].on <= day
      BY SeqFields, SeqConstants DEF Q!Posts, SeqInv, OnlyTicksSend
    <2>2. QED
      BY <1>1, <1>2, <2>1, SeqFields DEF SeqInv, OnlyTicksSend, Q!Channel
  <1>5. CASE leadRow' = [leadRow EXCEPT ![c] = row] /\ UNCHANGED <<lapses, posts>>
    <2>1. row \in Q!Columns /\ row.last = day /\ row.step = s
      BY <1>1, SeqFields DEF Q!Columns
    <2> HIDE DEF row
    <2>2. /\ leadRow' \in LeadRows
          /\ c = "text" => leadRow'.text = row /\ leadRow'.mail = leadRow.mail
          /\ c = "mail" => leadRow'.mail = row /\ leadRow'.text = leadRow.text
      <3>1. leadRow \in LeadRows
        BY SeqFields
      <3>2. CASE c = "text"
        <4>1. leadRow' = [leadRow EXCEPT !.text = row]
          BY <1>5, <3>2
        <4>2. QED
          BY <2>1, <3>1, <3>2, <4>1 DEF LeadRows
      <3>3. CASE c = "mail"
        <4>1. leadRow' = [leadRow EXCEPT !.mail = row]
          BY <1>5, <3>3
        <4>2. QED
          BY <2>1, <3>1, <3>3, <4>1 DEF LeadRows
      <3>4. QED
        BY <3>2, <3>3 DEF Q!Channel
    <2>3. Q!TypeOK'
      BY <1>1, <1>3, <1>5, <2>2, SeqFields DEF Q!TypeOK, LeadRows
    <2>4. Q!SequencesSound'
      BY <1>1, <1>5, <2>3 DEF SeqInv, Q!SequencesSound, Q!TemplateOnce, Q!QuietAfterStop, Q!OneADay
    <2>5. UnknownIsNotGiven' /\ LateIsPastCheck' /\ OnlyTicksSend'
      BY <1>1, <1>3, <1>4, <1>5 DEF SeqInv, UnknownIsNotGiven, LateIsPastCheck, OnlyTicksSend
    <2>6. CASE c = "text"
      <3>1. TextsPaced'
        BY <1>1, <1>3, <1>4, <1>5, <2>1, <2>2, <2>6 DEF TextsPaced, Slack
      <3>2. MailsPaced'
        BY <1>1, <1>3, <1>5, <2>2, <2>6 DEF SeqInv, MailsPaced, KnowsMails, Given, Q!Channel
      <3>3. QED
        BY <2>4, <2>5, <3>1, <3>2 DEF SeqInv
    <2>7. CASE c = "mail"
      <3>1. TextsPaced'
        BY <1>1, <1>3, <1>5, <2>2, <2>7 DEF SeqInv, TextsPaced, Slack, Q!Channel
      <3>2. KnowsMails(leadRow.mail)'
        BY <1>1, <1>4, <1>5, <2>1, <2>2, <2>7 DEF SeqInv, MailsPaced, KnowsMails, Given
      <3>3. MailsPaced'
        BY <1>1, <1>3, <1>5, <2>7, <3>2 DEF SeqInv, MailsPaced, KnowsMails, Given
      <3>4. QED
        BY <2>4, <2>5, <3>1, <3>3 DEF SeqInv
    <2>8. QED
      BY <2>6, <2>7 DEF Q!Channel
  <1>6. CASE /\ posts' = [posts EXCEPT ![c] = p] /\ leadRow' = leadRow
             /\ lapses < MaxLapses /\ lapses' = lapses + 1
    <2>1. posts[c] \in Q!Posts /\ posts[c].unsaved \in 0 .. 2
      BY SeqFields DEF Q!Posts
    <2>2. /\ p \in Q!Posts /\ p.unsaved = (IF posts[c].unsaved = 2 THEN 2 ELSE posts[c].unsaved + 1)
          /\ p.on = posts[c].on /\ p.hurried = posts[c].hurried /\ p.late = posts[c].late
          /\ p.templates = posts[c].templates
      <3>1. Q!Upto2(posts[c].unsaved + 1) \in 0 .. 2
            /\ Q!Upto2(posts[c].unsaved + 1) = (IF posts[c].unsaved = 2 THEN 2 ELSE posts[c].unsaved + 1)
        BY <2>1, UptoTwo
      <3>2. QED
        BY <2>1, <3>1 DEF Q!Posts
    <2> HIDE DEF p
    <2>3. /\ posts' \in [Q!Channel -> Q!Posts] /\ posts'[c] = p
          /\ \A d \in Q!Channel : d # c => posts'[d] = posts[d]
      BY <1>6, <2>2, SeqFields DEF Q!TypeOK
    <2>4. Q!TypeOK'
      <3>1. lapses' \in 0 .. MaxLapses
        BY <1>6, SeqFields
      <3>2. QED
        BY <1>1, <1>3, <1>6, <2>3, <3>1, SeqFields DEF Q!TypeOK
    <2>5. posts["text"].hurried <= posts["text"].unsaved /\ posts["mail"].hurried = 0
      BY DEF SeqInv, Q!SequencesSound, Q!OneADay
    <2>6. Q!OneADay'
      <3>1. posts["text"].hurried \in 0 .. 2 /\ posts["text"].unsaved \in 0 .. 2
        BY SeqFields DEF Q!TypeOK, Q!Posts, Q!Channel
      <3>2. CASE c = "text"
        BY <2>2, <2>3, <2>5, <3>1, <3>2 DEF Q!OneADay, Q!Channel
      <3>3. CASE c = "mail"
        BY <2>2, <2>3, <2>5, <3>3 DEF Q!OneADay, Q!Channel
      <3>4. QED
        BY <3>2, <3>3 DEF Q!Channel
    <2>7. Q!SequencesSound'
      BY <2>2, <2>3, <2>4, <2>6 DEF SeqInv, Q!SequencesSound, Q!TemplateOnce, Q!QuietAfterStop
    <2>8. UnknownIsNotGiven' /\ LateIsPastCheck' /\ OnlyTicksSend'
      BY <1>1, <1>3, <1>4, <2>2, <2>3 DEF SeqInv, UnknownIsNotGiven, LateIsPastCheck, OnlyTicksSend
    <2>9. CASE c = "text"
      <3>1. posts["text"].hurried \in 0 .. 2 /\ posts["text"].unsaved \in 0 .. 2
        BY SeqFields DEF Q!TypeOK, Q!Posts, Q!Channel
      <3>2. posts'["text"].hurried < posts'["text"].unsaved \/ posts'["text"].unsaved = 2
        BY <2>2, <2>3, <2>5, <2>9, <3>1
      <3>3. TextsPaced'
        BY <1>3, <2>9, <3>2 DEF TextsPaced, Slack
      <3>4. MailsPaced'
        BY <1>1, <1>3, <1>6, <2>3, <2>9 DEF SeqInv, MailsPaced, KnowsMails, Given, Q!Channel
      <3>5. QED
        BY <2>7, <2>8, <3>3, <3>4 DEF SeqInv
    <2>10. CASE c = "mail"
      <3>1. TextsPaced'
        BY <1>1, <1>3, <1>6, <2>3, <2>10 DEF SeqInv, TextsPaced, Slack, Q!Channel
      <3>2. MailsPaced'
        BY <1>1, <1>3, <1>6, <2>2, <2>3, <2>10 DEF SeqInv, MailsPaced, KnowsMails, Given
      <3>3. QED
        BY <2>7, <2>8, <3>1, <3>2 DEF SeqInv
    <2>11. QED
      BY <2>9, <2>10 DEF Q!Channel
  <1>7. QED
    <2>1. \/ leadRow' = [leadRow EXCEPT ![c] = row] /\ UNCHANGED <<lapses, posts>>
          \/ /\ lapses < MaxLapses /\ lapses' = lapses + 1 /\ UNCHANGED leadRow
             /\ posts' = [posts EXCEPT ![c].unsaved = Q!Upto2(@ + 1)]
      BY DEF Q!Save, Q!Set
    <2>2. [posts EXCEPT ![c].unsaved = Q!Upto2(@ + 1)] = [posts EXCEPT ![c] = p]
      OBVIOUS
    <2>3. QED
      BY <1>5, <1>6, <2>1, <2>2

\* What the history becomes when the provider is given a message.
LEMMA GivenFields ==
    ASSUME SeqInv, NEW c \in Q!Channel, NEW s \in StepDay, NEW body, NEW lost \in {0, 1},
           Q!Given(c, s, body, lost)
    PROVE  /\ posts' \in [Q!Channel -> Q!Posts]
           /\ \A d \in Q!Channel : d # c => posts'[d] = posts[d]
           /\ posts'[c].on = day
           /\ posts'[c].hurried = IF posts[c].on = day /\ posts[c].hurried < 2
                                  THEN posts[c].hurried + 1 ELSE posts[c].hurried
           /\ posts'[c].unsaved = IF lost = 1 /\ posts[c].unsaved < 2
                                  THEN posts[c].unsaved + 1 ELSE posts[c].unsaved
           /\ posts'[c].late = IF c \in barred /\ posts[c].late < 2
                               THEN posts[c].late + 1 ELSE posts[c].late
           /\ \A r \in StepDay :
                 posts'[c].templates[r] = IF r = s /\ body = "template" /\ posts[c].templates[r] < 2
                                          THEN posts[c].templates[r] + 1 ELSE posts[c].templates[r]
  <1> DEFINE p == posts[c]
             templates == IF body = "template"
                          THEN [p.templates EXCEPT ![s] = Q!Upto2(@ + 1)] ELSE p.templates
             hurried == IF p.on = day THEN Q!Upto2(p.hurried + 1) ELSE p.hurried
             unsaved == Q!Upto2(p.unsaved + lost)
             late == IF c \in barred THEN Q!Upto2(p.late + 1) ELSE p.late
             q == [templates |-> templates, on |-> day, hurried |-> hurried, unsaved |-> unsaved,
                   late |-> late]
  <1>1. /\ p.templates \in [StepDay -> 0 .. 2] /\ p.hurried \in 0 .. 2
        /\ p.unsaved \in 0 .. 2 /\ p.late \in 0 .. 2
    BY SeqFields DEF Q!Posts
  <1>2. templates \in [StepDay -> 0 .. 2]
        /\ \A r \in StepDay : templates[r] = IF r = s /\ body = "template" /\ p.templates[r] < 2
                                             THEN p.templates[r] + 1 ELSE p.templates[r]
    <2>1. p.templates[s] \in 0 .. 2
      BY <1>1
    <2>2. Q!Upto2(p.templates[s] + 1) \in 0 .. 2
          /\ Q!Upto2(p.templates[s] + 1) = IF p.templates[s] = 2 THEN 2 ELSE p.templates[s] + 1
      BY <2>1, UptoTwo
    <2>3. QED
      BY <1>1, <2>1, <2>2
  <1>3. hurried \in 0 .. 2 /\ hurried = IF p.on = day /\ p.hurried < 2 THEN p.hurried + 1 ELSE p.hurried
    BY <1>1, UptoTwo
  <1>4. unsaved \in 0 .. 2 /\ unsaved = IF lost = 1 /\ p.unsaved < 2 THEN p.unsaved + 1 ELSE p.unsaved
    BY <1>1, UptoTwo
  <1>5. late \in 0 .. 2 /\ late = IF c \in barred /\ p.late < 2 THEN p.late + 1 ELSE p.late
    BY <1>1, UptoTwo
  <1>6. posts' = [posts EXCEPT ![c] = q]
    BY DEF Q!Given
  <1> HIDE DEF templates, hurried, unsaved, late
  <1>7. q \in Q!Posts
    BY <1>2, <1>3, <1>4, <1>5, SeqFields DEF Q!Posts
  <1>8. /\ q.on = day /\ q.hurried = hurried /\ q.unsaved = unsaved /\ q.late = late
        /\ q.templates = templates
    OBVIOUS
  <1> HIDE DEF q
  <1>9. posts' \in [Q!Channel -> Q!Posts] /\ posts'[c] = q
        /\ \A d \in Q!Channel : d # c => posts'[d] = posts[d]
    BY <1>6, <1>7, SeqFields DEF Q!TypeOK
  <1>10. QED
    BY <1>2, <1>3, <1>4, <1>5, <1>8, <1>9

\* A message is given to the provider; the tick is told, or its answer is lost.
LEMMA GivenKeepsInv ==
    ASSUME SeqInv, NEW c \in Q!Channel, NEW s \in StepDay, NEW body \in {"template", "composed"},
           tick[c].at = "cleared", tick[c].step = s, tick[c].body = body,
           body = "template" => intents[<<c, s>>] = "none",
           NEW lost \in {0, 1}, Q!Given(c, s, body, lost),
           NEW t \in Q!Place, tick' = [tick EXCEPT ![c] = t],
           IF lost = 1 THEN t = Q!Waiting ELSE t = [at |-> "sent", step |-> s],
           NEW known \in {"sending", "accepted"},
           intents' = IF body = "template" THEN [intents EXCEPT ![<<c, s>>] = known] ELSE intents,
           lapses' \in 0 .. MaxLapses, UNCHANGED <<day, ticking, barred, starter, starts>>,
           leadRow' \in LeadRows, leadRow'.mail = leadRow.mail,
           leadRow'.text.last \in {leadRow.text.last, day}
    PROVE  SeqInv'
  <1>1. /\ posts' \in [Q!Channel -> Q!Posts] /\ posts'[c].on = day
        /\ \A d \in Q!Channel : d # c => posts'[d] = posts[d]
    BY GivenFields
  <1>2. /\ tick' \in [Q!Channel -> Q!Place] /\ tick'[c] = t
        /\ \A d \in Q!Channel : d # c => tick'[d] = tick[d]
    BY SeqFields DEF Q!TypeOK
  <1>3. t.at \in {"idle", "sent"} /\ (t.at = "sent" <=> lost = 0) /\ (t.at = "sent" => t.step = s)
    BY DEF Q!Waiting
  <1>4. intents' \in [Q!Channel \X StepDay -> {"none", "sending", "accepted"}]
        /\ \A d \in Q!Channel, r \in StepDay :
              /\ intents[<<d, r>>] # "none" => intents'[<<d, r>>] # "none"
              /\ body = "template" /\ d = c /\ r = s => intents'[<<d, r>>] # "none"
              /\ d # c \/ r # s => intents'[<<d, r>>] = intents[<<d, r>>]
    BY SeqFields DEF Q!TypeOK
  <1>5. Q!TypeOK'
    BY <1>1, <1>2, <1>4, SeqFields DEF Q!TypeOK, LeadRows
  <1>6. /\ \A d \in Q!Channel : posts[d].on \in Int /\ posts[d].on <= day
        /\ day \in Int /\ c \in ticking
    BY SeqFields, SeqConstants DEF Q!Posts, SeqInv, OnlyTicksSend, Q!Waiting
  <1>7. Q!TemplateOnce' /\ UnknownIsNotGiven'
    <2>1. \A d \in Q!Channel, r \in StepDay : posts[d].templates[r] <= 1
          /\ (intents[<<d, r>>] = "none" => posts[d].templates[r] = 0)
      BY DEF SeqInv, Q!SequencesSound, Q!TemplateOnce, UnknownIsNotGiven
    <2>2. ASSUME NEW d \in Q!Channel, NEW r \in StepDay
          PROVE  posts'[d].templates[r] <= 1 /\ (intents'[<<d, r>>] = "none" => posts'[d].templates[r] = 0)
      <3>1. CASE d = c /\ r = s /\ body = "template"
        <4>1. posts[c].templates[s] = 0
          BY <2>1, <3>1
        <4>2. posts'[c].templates[s] = 1
          BY <3>1, <4>1, GivenFields
        <4>3. QED
          BY <1>4, <3>1, <4>2
      <3>2. CASE d = c /\ ~(r = s /\ body = "template")
        <4>1. posts'[c].templates[r] = posts[c].templates[r]
          BY <3>2, GivenFields
        <4>2. QED
          BY <1>4, <2>1, <3>2, <4>1
      <3>3. CASE d # c
        BY <1>1, <1>4, <2>1, <3>3
      <3>4. QED
        BY <3>1, <3>2, <3>3
    <2>3. QED
      BY <2>2 DEF Q!TemplateOnce, UnknownIsNotGiven
  <1>8. Q!QuietAfterStop' /\ LateIsPastCheck'
    <2>1. posts[c].late = 0
      BY DEF SeqInv, LateIsPastCheck
    <2>2. posts'[c].late = IF c \in barred THEN 1 ELSE 0
      <3>1. posts'[c].late = IF c \in barred /\ posts[c].late < 2
                             THEN posts[c].late + 1 ELSE posts[c].late
        BY GivenFields
      <3>2. QED
        BY <2>1, <3>1
    <2>3. Q!QuietAfterStop'
      BY <1>1, <2>2 DEF SeqInv, Q!SequencesSound, Q!QuietAfterStop
    <2>4. LateIsPastCheck'
      BY <1>1, <1>2, <1>3, <2>2 DEF SeqInv, LateIsPastCheck
    <2>5. QED
      BY <2>3, <2>4
  <1>9. OnlyTicksSend'
    BY <1>1, <1>2, <1>6 DEF SeqInv, OnlyTicksSend
  <1>10. CASE c = "text"
    <2> DEFINE h == posts["text"].hurried  u == posts["text"].unsaved
               k == posts'["text"].hurried  v == posts'["text"].unsaved
    <2>1. h \in 0 .. 2 /\ u \in 0 .. 2 /\ h <= u
      BY SeqFields DEF Q!TypeOK, Q!Posts, Q!Channel, SeqInv, Q!SequencesSound, Q!OneADay
    <2>2. posts["text"].on = day => h < u \/ u = 2
      BY <1>10 DEF SeqInv, TextsPaced, Slack
    <2>3. /\ k = (IF posts["text"].on = day /\ h < 2 THEN h + 1 ELSE h)
          /\ v = (IF lost = 1 /\ u < 2 THEN u + 1 ELSE u)
      BY <1>10, GivenFields
    <2> HIDE DEF h, u, k, v
    <2>4. k <= v /\ (lost = 1 => k < v \/ v = 2)
      BY <2>1, <2>2, <2>3
    <2>5. posts'["mail"] = posts["mail"] /\ tick'["mail"] = tick["mail"] /\ tick'["text"] = t
      BY <1>1, <1>2, <1>10 DEF Q!Channel
    <2>6. Q!OneADay'
      BY <2>4, <2>5 DEF SeqInv, Q!SequencesSound, Q!OneADay, k, v
    <2>7. TextsPaced'
      BY <1>3, <2>4, <2>5 DEF TextsPaced, Slack, k, v
    <2>8. \A r \in StepDay : intents'[<<"mail", r>>] = intents[<<"mail", r>>]
      BY <1>4, <1>10 DEF Q!Channel
    <2>9. MailsPaced'
      BY <2>5, <2>8 DEF SeqInv, MailsPaced, KnowsMails, Given
    <2>10. QED
      BY <1>5, <1>7, <1>8, <1>9, <2>6, <2>7, <2>9 DEF SeqInv, Q!SequencesSound
  <1>11. CASE c = "mail"
    <2>1. posts'["text"] = posts["text"] /\ tick'["text"] = tick["text"] /\ tick'["mail"] = t
      BY <1>1, <1>2, <1>11 DEF Q!Channel
    <2>2. /\ body = "template" /\ ~Given(s) /\ \A r \in StepDay : r < s => Given(r)
          /\ posts["mail"].on < day
      BY <1>11 DEF SeqInv, MailsPaced, Given
    <2>3. posts'["mail"].hurried = posts["mail"].hurried
      BY <1>6, <1>11, <2>2, GivenFields
    <2>4. Q!OneADay'
      BY <2>1, <2>3 DEF SeqInv, Q!SequencesSound, Q!OneADay
    <2>5. TextsPaced'
      <3>1. leadRow.text.last \in Int /\ posts["text"].on \in Int /\ posts["text"].on <= day
        BY <1>6, SeqFields, SeqConstants DEF Q!Columns, LeadRows, Q!Channel
      <3>2. QED
        BY <1>6, <2>1, <3>1 DEF SeqInv, TextsPaced, Slack
    <2>6. \A r \in StepDay : Given(r)' <=> Given(r) \/ r = s
      BY <1>4, <1>11, <2>2 DEF Given
    <2>7. s \in Int /\ StepDay \subseteq Int
      BY SeqConstants
    <2>8. KnowsMails(leadRow.mail)'
      <3>1. ~(s <= leadRow.mail.step)
        BY <2>2 DEF SeqInv, MailsPaced, KnowsMails
      <3>2. QED
        BY <2>6, <3>1 DEF SeqInv, MailsPaced, KnowsMails
    <2>9. \A r \in StepDay : r <= s => r < s \/ r = s
      BY <2>7
    <2>10. \A q, r \in StepDay : (Given(q) \/ q = s) /\ r < q => Given(r)
      BY <2>2 DEF SeqInv, MailsPaced
    <2>11. MailsPaced'
      BY <1>3, <2>1, <2>2, <2>6, <2>8, <2>9, <2>10 DEF MailsPaced
    <2>12. QED
      BY <1>5, <1>7, <1>8, <1>9, <2>4, <2>5, <2>11 DEF SeqInv, Q!SequencesSound
  <1>12. QED
    BY <1>10, <1>11 DEF Q!Channel

\* send_sms and send_email, from the check of the intent to the answer.
LEMMA PostKeepsInv ==
    ASSUME SeqInv, NEW c \in Q!Channel, Q!Post(c)
    PROVE  SeqInv'
  <1> DEFINE s == tick[c].step
             body == tick[c].body
             known == body = "template" /\ intents[<<c, s>>] # "none"
             sent == [at |-> "sent", step |-> s]
             intended(as) == IF body = "template" THEN [intents EXCEPT ![<<c, s>>] = as] ELSE intents
  <1>1. /\ tick[c].at = "cleared" /\ s \in StepDay /\ body \in {"template", "composed"}
        /\ UNCHANGED <<day, ticking, barred, starter, starts>>
    BY TickFields DEF Q!Post
  <1>2. /\ Q!Waiting \in Q!Place /\ sent \in Q!Place /\ sent.at = "sent" /\ sent.step = s
        /\ Q!Waiting.at = "idle"
    BY <1>1 DEF Q!Place, Q!Waiting
  <1>3. \/ /\ known /\ UNCHANGED <<leadRow, intents, lapses, posts>>
           /\ \/ tick' = [tick EXCEPT ![c] = sent]
              \/ tick' = [tick EXCEPT ![c] = Q!Waiting]
        \/ /\ ~known /\ intents' = intended("accepted") /\ Q!Given(c, s, body, 0)
           /\ tick' = [tick EXCEPT ![c] = sent]
           /\ \/ leadRow' = leadRow
              \/ c = "text" /\ leadRow' = [leadRow EXCEPT !.text.last = day]
           /\ \/ lapses' = lapses
              \/ lapses < MaxLapses /\ lapses' = lapses + 1
        \/ /\ ~known /\ intents' = intended("sending") /\ Q!Given(c, s, body, 1)
           /\ tick' = [tick EXCEPT ![c] = Q!Waiting] /\ leadRow' = leadRow
           /\ lapses < MaxLapses /\ lapses' = lapses + 1
    BY DEF Q!Post, Q!IntentOf
  <1> HIDE DEF sent
  <1>4. CASE /\ known /\ UNCHANGED <<leadRow, intents, lapses, posts>>
             /\ tick' = [tick EXCEPT ![c] = Q!Waiting]
    <2>1. Rests
      <3>1. tick \in [Q!Channel -> Q!Place]
        BY SeqFields DEF Q!TypeOK
      <3>2. QED
        BY <1>1, <1>2, <1>4, <3>1 DEF Rests
    <2>2. /\ barred \subseteq Q!Channel /\ lapses \in 0 .. MaxLapses /\ starts \in 0 .. MaxStarts
          /\ starter \in {Q!Hold} \cup [at : {"decided"}, channel : Q!Channel] /\ day \in 0 .. LastDay
      BY SeqFields DEF Q!TypeOK
    <2>3. Written
      BY <1>4 DEF Written
    <2>4. QED
      BY <1>1, <1>4, <2>1, <2>2, <2>3, OthersKeepInv
  <1>5. CASE /\ known /\ UNCHANGED <<leadRow, intents, lapses, posts>>
             /\ tick' = [tick EXCEPT ![c] = sent]
    <2>1. /\ tick' \in [Q!Channel -> Q!Place] /\ tick'[c] = sent
          /\ \A d \in Q!Channel : d # c => tick'[d] = tick[d]
      BY <1>2, <1>5, SeqFields DEF Q!TypeOK
    <2>2. Q!TypeOK'
      BY <1>1, <1>5, <2>1, SeqFields DEF Q!TypeOK
    <2>3. Q!SequencesSound'
      BY <1>5, <2>2 DEF SeqInv, Q!SequencesSound, Q!TemplateOnce, Q!QuietAfterStop, Q!OneADay
    <2>4. c \in ticking
      BY <1>1, <1>2 DEF SeqInv, OnlyTicksSend
    <2>5. UnknownIsNotGiven' /\ LateIsPastCheck' /\ OnlyTicksSend'
      BY <1>1, <1>2, <1>5, <2>1, <2>4 DEF SeqInv, UnknownIsNotGiven, LateIsPastCheck, OnlyTicksSend
    <2>6. CASE c = "text"
      <3>1. TextsPaced'
        BY <1>2, <1>5, <2>1, <2>6 DEF TextsPaced
      <3>2. MailsPaced'
        BY <1>1, <1>5, <2>1, <2>6 DEF SeqInv, MailsPaced, KnowsMails, Given, Q!Channel
      <3>3. QED
        BY <2>3, <2>5, <3>1, <3>2 DEF SeqInv
    <2>7. CASE c = "mail"
      <3>1. TextsPaced'
        BY <1>1, <1>5, <2>1, <2>7 DEF SeqInv, TextsPaced, Slack, Q!Channel
      <3>2. Given(s) /\ \A r \in StepDay : r < s => Given(r)
        BY <1>1, <1>5, <2>7 DEF SeqInv, MailsPaced, Given
      <3>3. \A r \in StepDay : r <= s => Given(r)
        <4>1. \A r \in StepDay : r <= s => r < s \/ r = s
          <5>1. s \in StepDay
            BY <1>1
          <5> HIDE DEF s
          <5>2. s \in Int /\ StepDay \subseteq Int
            BY <5>1, SeqConstants
          <5>3. QED
            BY <5>2
        <4>2. QED
          BY <3>2, <4>1
      <3>4. MailsPaced'
        BY <1>1, <1>2, <1>5, <2>1, <2>7, <3>3 DEF SeqInv, MailsPaced, KnowsMails, Given
      <3>5. QED
        BY <2>3, <2>5, <3>1, <3>4 DEF SeqInv
    <2>8. QED
      BY <2>6, <2>7 DEF Q!Channel
  <1>6. ~known => (body = "template" => intents[<<c, s>>] = "none")
    OBVIOUS
  <1>7. leadRow \in LeadRows /\ [leadRow EXCEPT !.text.last = day] \in LeadRows
        /\ [leadRow EXCEPT !.text.last = day].mail = leadRow.mail
        /\ [leadRow EXCEPT !.text.last = day].text.last = day
    <2>1. SetsBack([leadRow EXCEPT !.text.last = day])
      BY WritesKnow
    <2>2. leadRow \in LeadRows /\ leadRow.text \in Q!Columns
      BY SeqFields DEF LeadRows
    <2>3. QED
      BY <2>1, <2>2 DEF SetsBack, LeadRows, Q!Columns
  <1>8. CASE /\ ~known /\ intents' = intended("accepted") /\ Q!Given(c, s, body, 0)
             /\ tick' = [tick EXCEPT ![c] = sent]
             /\ \/ leadRow' = leadRow
                \/ c = "text" /\ leadRow' = [leadRow EXCEPT !.text.last = day]
             /\ \/ lapses' = lapses
                \/ lapses < MaxLapses /\ lapses' = lapses + 1
    <2>1. lapses' \in 0 .. MaxLapses
      BY <1>8, SeqFields
    <2>2. /\ leadRow' \in LeadRows /\ leadRow'.mail = leadRow.mail
          /\ leadRow'.text.last \in {leadRow.text.last, day}
      BY <1>7, <1>8
    <2>3. /\ intents' = intended("accepted") /\ Q!Given(c, s, body, 0)
          /\ tick' = [tick EXCEPT ![c] = sent]
          /\ body = "template" => intents[<<c, s>>] = "none"
      BY <1>6, <1>8
    <2>4. IF 0 = 1 THEN sent = Q!Waiting ELSE sent = [at |-> "sent", step |-> s]
      BY DEF sent
    <2>5. QED
      BY <1>1, <1>2, <2>1, <2>2, <2>3, <2>4, GivenKeepsInv
  <1>9. CASE /\ ~known /\ intents' = intended("sending") /\ Q!Given(c, s, body, 1)
             /\ tick' = [tick EXCEPT ![c] = Q!Waiting] /\ leadRow' = leadRow
             /\ lapses < MaxLapses /\ lapses' = lapses + 1
    <2>1. lapses' \in 0 .. MaxLapses
      BY <1>9, SeqFields
    <2>2. QED
      BY <1>1, <1>2, <1>6, <1>7, <1>9, <2>1, GivenKeepsInv
  <1>10. QED
    BY <1>3, <1>4, <1>5, <1>8, <1>9

LEMMA SeqStep == SeqInv /\ [Q!Next]_sequences => SeqInv'
  <1> SUFFICES ASSUME SeqInv, [Q!Next]_sequences PROVE SeqInv'
    OBVIOUS
  <1>1. CASE UNCHANGED sequences
    <2>1. UNCHANGED <<day, leadRow, ticking, barred, intents, tick, starter, lapses, starts, posts>>
      BY <1>1 DEF sequences
    <2>2. Q!SequencesSound'
      BY <2>1 DEF SeqInv, Q!SequencesSound, Q!TypeOK, Q!TemplateOnce, Q!QuietAfterStop, Q!OneADay
    <2>3. UnknownIsNotGiven' /\ LateIsPastCheck' /\ OnlyTicksSend' /\ TextsPaced' /\ MailsPaced'
      BY <2>1 DEF SeqInv, UnknownIsNotGiven, LateIsPastCheck, OnlyTicksSend, TextsPaced, MailsPaced,
         Slack, KnowsMails, Given
    <2>4. QED
      BY <2>2, <2>3 DEF SeqInv
  <1>2. QED
    BY <1>1, TickReadsKeepsInv, ProcessKeepsInv, PostKeepsInv, SaveKeepsInv, OthersStep DEF Q!Next
-----------------------------------------------------------------------------
(***************************************************************************)
(* LeadWorkflow.  FlowInv adds what a thread at each of its places has     *)
(* logged, filed and started.                                              *)
(***************************************************************************)
Job == [at : {"called", "read", "logged", "moved", "hot", "comms", "startHot", "start", "pausing"},
        target : F!State, previous : F!State, hot : BOOLEAN, pause : BOOLEAN]

\* Where a thread has logged its transition, and where it has filed its follow-up.
HasLogged(t) == thread[t].at \in {"logged", "moved", "hot", "comms", "startHot", "start", "pausing"}
HasFiled(t) == thread[t].at \in {"hot", "comms", "startHot", "start", "over"}

LoggedRow(i, t, s) == log[i].by = t /\ log[i].state = s

\* Every row of the log names a previous state that was, and a thread's own row is in it.
LogIsKept ==
    /\ \A t \in F!Thread : F!Moving(t) => thread[t].previous \in F!BeforeRow(Len(log) + 1)
    /\ \A t \in F!Thread : HasLogged(t) =>
          \E i \in DOMAIN log : LoggedRow(i, t, thread[t].target)

\* Without a race one thread at most is between its read and its write, and what it read stands.
MovesAlone ==
    ~raced =>
    /\ \A t, u \in F!Thread : F!Moving(t) /\ F!Moving(u) => t = u
    /\ \A t \in F!Thread : thread[t].at = "read" => thread[t].previous = client.state
    /\ \A t \in F!Thread : thread[t].at = "logged" =>
          log # <<>> /\ F!Logged(Len(log)) = thread[t].target
    /\ (\A t \in F!Thread : thread[t].at # "logged") =>
          (log # <<>> => client.state = F!Logged(Len(log)))
    /\ \A i \in 2 .. Len(log) : log[i].previous = F!Logged(i - 1)

\* A thread files after its transition, and starts the texts unless they are under way.
FilesOnce ==
    /\ \A f \in followups : f.by \in F!Thread /\ HasFiled(f.by)
    /\ \A f, g \in followups : f.by = g.by => f = g
StartsOnce ==
    /\ \A t \in F!Thread : drips[t] \in 0 .. 1
    /\ \A t \in F!Thread : drips[t] = 1 => client.texts /\ thread[t].at \in {"comms", "over"}

FlowInv ==
    /\ F!TypeOK /\ F!EverythingIsLogged
    /\ DOMAIN drips = F!Thread
    /\ \A t \in F!Thread : /\ thread[t] \in {F!Idle, F!Over} \cup Job
                           /\ t \in Outcome \cup Request
                           /\ thread[t].at \in {"moved", "hot", "comms", "startHot", "start"} => t \in Outcome
    /\ LogIsKept /\ MovesAlone /\ FilesOnce /\ StartsOnce

LEMMA FlowIsSound == FlowInv => F!WorkflowInv
  <1> SUFFICES ASSUME FlowInv PROVE F!WorkflowInv
    OBVIOUS
  <1>1. F!OnceEach
    BY DEF FlowInv, FilesOnce, StartsOnce, F!OnceEach
  <1>2. F!LogIsHistory
    <2>1. CASE raced
      BY <2>1 DEF F!LogIsHistory
    <2>2. CASE \E u \in F!Thread : thread[u].at = "logged"
      BY <2>2 DEF F!LogIsHistory
    <2>3. CASE ~raced /\ \A u \in F!Thread : thread[u].at # "logged"
      BY <2>3 DEF F!LogIsHistory, FlowInv, MovesAlone
    <2>4. QED
      BY <2>1, <2>2, <2>3
  <1>3. QED
    BY <1>1, <1>2 DEF FlowInv, F!WorkflowInv

LEMMA FlowInit == F!Init => FlowInv
  <1> SUFFICES ASSUME F!Init PROVE FlowInv
    OBVIOUS
  <1>1. PICK running \in Running : thread = [t \in running |-> F!Idle]
    BY DEF F!Init
  <1>2. running \subseteq Outcome \cup Request /\ MaxFailures \in Nat
    BY ContactAssumption DEF F!WorkflowAssumption
  <1>3. /\ F!Thread = running /\ \A t \in F!Thread : thread[t] = F!Idle /\ thread[t].at = "idle"
    BY <1>1 DEF F!Thread, F!Idle
  <1>4. /\ client = [state |-> "new_lead", texts |-> FALSE, paused |-> FALSE]
        /\ log = <<>> /\ followups = {} /\ told = {}
        /\ failures = 0 /\ raced = FALSE /\ drips = [t \in F!Thread |-> 0]
    BY DEF F!Init
  <1>5. F!TypeOK
    <2>1. client \in [state : F!State, texts : BOOLEAN, paused : BOOLEAN]
      BY <1>4 DEF F!State
    <2>2. /\ followups \subseteq [by : Outcome, kind : {"call", "walkthrough"}]
          /\ told \subseteq [by : Outcome \cup Request, state : F!State] /\ raced \in BOOLEAN
      BY <1>4
    <2>3. failures \in 0 .. MaxFailures
      BY <1>2, <1>4
    <2>4. log \in Seq([state : F!State, previous : F!State, by : Outcome \cup Request])
      BY <1>4
    <2>5. drips \in [F!Thread -> Nat]
      BY <1>4
    <2>6. QED
      BY <2>1, <2>2, <2>3, <2>4, <2>5 DEF F!TypeOK
  <1>6. F!EverythingIsLogged
    BY <1>4 DEF F!EverythingIsLogged, F!BeforeRow
  <1>7. LogIsKept /\ FilesOnce /\ StartsOnce
    BY <1>3, <1>4 DEF LogIsKept, FilesOnce, StartsOnce, F!Moving, HasLogged
  <1>8. MovesAlone
    BY <1>3, <1>4 DEF MovesAlone, F!Moving
  <1>9. QED
    BY <1>2, <1>3, <1>4, <1>5, <1>6, <1>7, <1>8 DEF FlowInv

Clients == [state : F!State, texts : BOOLEAN, paused : BOOLEAN]
Rows == [state : F!State, previous : F!State, by : Outcome \cup Request]

\* What becomes of the threads when one of them goes somewhere.
LEMMA ThreadGoes ==
    ASSUME FlowInv, NEW t \in F!Thread, NEW x, F!Goes(t, x)
    PROVE  /\ F!Thread' = F!Thread /\ thread'[t] = x
           /\ \A u \in F!Thread : u # t => thread'[u] = thread[u]
  BY DEF F!Goes, F!Thread

LEMMA FlowFields ==
    ASSUME FlowInv
    PROVE  /\ client \in Clients /\ log \in Seq(Rows) /\ failures \in 0 .. MaxFailures
           /\ MaxFailures \in Nat /\ raced \in BOOLEAN
           /\ drips \in [F!Thread -> Nat]
           /\ Len(log) \in Nat /\ DOMAIN log = 1 .. Len(log)
           /\ log # <<>> <=> Len(log) # 0
           /\ \A t \in F!Thread :
                 /\ thread[t] \in {F!Idle, F!Over} \cup Job /\ t \in Outcome \cup Request
                 /\ thread[t].at \in {"idle", "over", "called", "read", "logged", "moved", "hot",
                                      "comms", "startHot", "start", "pausing"}
                 /\ thread[t].at \notin {"idle", "over"} => thread[t] \in Job
  <1>1. /\ client \in Clients /\ log \in Seq(Rows) /\ failures \in 0 .. MaxFailures
        /\ raced \in BOOLEAN /\ drips \in [F!Thread -> Nat]
    BY DEF FlowInv, F!TypeOK, Clients, Rows
  <1>2. MaxFailures \in Nat
    BY ContactAssumption DEF F!WorkflowAssumption
  <1>3. Len(log) \in Nat /\ DOMAIN log = 1 .. Len(log) /\ (log # <<>> <=> Len(log) # 0)
    BY <1>1
  <1>4. ASSUME NEW t \in F!Thread
        PROVE  /\ thread[t] \in {F!Idle, F!Over} \cup Job /\ t \in Outcome \cup Request
               /\ thread[t].at \in {"idle", "over", "called", "read", "logged", "moved", "hot",
                                    "comms", "startHot", "start", "pausing"}
               /\ thread[t].at \notin {"idle", "over"} => thread[t] \in Job
    BY DEF FlowInv, F!Idle, F!Over, Job
  <1>5. QED
    BY <1>1, <1>2, <1>3, <1>4

\* A thread goes on and leaves the log and the state of the lead alone.
LEMMA OnwardKeepsInv ==
    ASSUME FlowInv, NEW t \in F!Thread, NEW x \in {F!Idle, F!Over} \cup Job, F!Goes(t, x),
           UNCHANGED <<log, told>>, client' \in Clients, client'.state = client.state,
           client.texts => client'.texts,
           failures' \in 0 .. MaxFailures, raced' \in BOOLEAN, raced => raced',
           followups' \subseteq [by : Outcome, kind : {"call", "walkthrough"}],
           x.at \notin {"read", "logged"},
           x.at \in {"moved", "hot", "comms", "startHot", "start", "pausing"} =>
              HasLogged(t) /\ x.target = thread[t].target,
           x.at \in {"moved", "hot", "comms", "startHot", "start"} => t \in Outcome,
           F!Moving(t) => raced',
           drips' \in [F!Thread -> Nat],
           F!EverythingIsLogged', FilesOnce', StartsOnce'
    PROVE  FlowInv'
  <1>1. /\ F!Thread' = F!Thread /\ thread'[t] = x
        /\ \A u \in F!Thread : u # t => thread'[u] = thread[u]
    BY ThreadGoes
  <1>2. F!TypeOK'
    BY <1>1, FlowFields DEF FlowInv, F!TypeOK, Clients
  <1>3. \A u \in F!Thread' : /\ thread'[u] \in {F!Idle, F!Over} \cup Job
                             /\ u \in Outcome \cup Request
                             /\ thread'[u].at \in {"moved", "hot", "comms", "startHot", "start"}
                                   => u \in Outcome
    BY <1>1 DEF FlowInv
  <1>4. \A u \in F!Thread :
           /\ F!Moving(u)' => F!Moving(u) /\ thread'[u] = thread[u]
           /\ HasLogged(u)' => HasLogged(u) /\ thread'[u].target = thread[u].target
           /\ ~raced' => (thread'[u].at = "logged" <=> thread[u].at = "logged")
    BY <1>1 DEF F!Moving, HasLogged
  <1>5. LogIsKept'
    BY <1>1, <1>4 DEF FlowInv, LogIsKept, F!BeforeRow, F!Logged, LoggedRow
  <1>6. MovesAlone'
    <2> SUFFICES ASSUME ~raced' PROVE MovesAlone'
      BY DEF MovesAlone
    <2>1. MovesAlone /\ ~raced
      BY DEF FlowInv
    <2>2. \A u \in F!Thread : thread'[u].at = "read" \/ thread'[u].at = "logged"
                                 => thread'[u] = thread[u]
      BY <1>4 DEF F!Moving
    <2>3. /\ \A u, v \in F!Thread : F!Moving(u)' /\ F!Moving(v)' => u = v
          /\ \A u \in F!Thread : thread'[u].at = "read" => thread'[u].previous = client.state
          /\ \A u \in F!Thread : thread'[u].at = "logged" =>
                log # <<>> /\ F!Logged(Len(log)) = thread'[u].target
      BY <1>4, <2>1, <2>2 DEF MovesAlone
    <2>4. (\A u \in F!Thread : thread'[u].at # "logged") =>
             (log # <<>> => client.state = F!Logged(Len(log)))
      BY <1>4, <2>1 DEF MovesAlone
    <2>5. \A i \in 2 .. Len(log) : log[i].previous = F!Logged(i - 1)
      BY <2>1 DEF MovesAlone
    <2>6. QED
      BY <1>1, <2>3, <2>4, <2>5 DEF MovesAlone, F!Logged
  <1>7. QED
    BY <1>1, <1>2, <1>3, <1>5, <1>6 DEF FlowInv

\* A step that files nothing, starts nothing and tells nothing.
LEMMA OthersUnfiled ==
    ASSUME FlowInv, NEW t \in F!Thread, NEW x, F!Goes(t, x),
           UNCHANGED <<log, told, followups, drips>>, client'.state = client.state,
           client.texts => client'.texts,
           HasFiled(t) => x.at \in {"hot", "comms", "startHot", "start", "over"},
           drips[t] = 1 => x.at \in {"comms", "over"}
    PROVE  F!EverythingIsLogged' /\ FilesOnce' /\ StartsOnce'
  <1>1. /\ F!Thread' = F!Thread /\ thread'[t] = x
        /\ \A u \in F!Thread : u # t => thread'[u] = thread[u]
    BY ThreadGoes
  <1>2. F!EverythingIsLogged'
    BY DEF FlowInv, F!EverythingIsLogged, F!BeforeRow, F!Logged
  <1>3. FilesOnce'
    BY <1>1 DEF FlowInv, FilesOnce, HasFiled
  <1>4. StartsOnce'
    BY <1>1 DEF FlowInv, StartsOnce
  <1>5. QED
    BY <1>2, <1>3, <1>4

LEMMA CalledIsJob ==
    ASSUME NEW target \in F!State, NEW hot \in BOOLEAN, NEW pause \in BOOLEAN
    PROVE  F!Called(target, hot, pause) \in Job /\ F!Called(target, hot, pause).at = "called"
  BY DEF F!Called, Job

\* Moving to another place keeps what a thread is to do.
LEMMA MovesJob ==
    ASSUME NEW job \in Job,
           NEW at \in {"read", "logged", "moved", "hot", "comms", "startHot", "start", "pausing"}
    PROVE  /\ [job EXCEPT !.at = at] \in Job /\ [job EXCEPT !.at = at].at = at
           /\ [job EXCEPT !.at = at].target = job.target
           /\ [job EXCEPT !.at = at].previous = job.previous
  BY DEF Job

LEMMA FailsInBounds == FlowInv /\ F!Fails => failures' \in 0 .. MaxFailures
  <1> SUFFICES ASSUME FlowInv, F!Fails PROVE failures' \in 0 .. MaxFailures
    OBVIOUS
  <1>1. failures \in 0 .. MaxFailures /\ MaxFailures \in Nat
    BY FlowFields
  <1>2. QED
    BY <1>1 DEF F!Fails

\* A transcript, or a request of the operator.
LEMMA BeginKeepsInv ==
    ASSUME FlowInv, NEW t \in F!Thread, F!Analysed(t) \/ F!Asked(t)
    PROVE  FlowInv'
  <1>1. /\ thread[t] = F!Idle /\ thread[t].at = "idle"
        /\ UNCHANGED <<client, log, followups, told, failures, raced, drips>>
    <2>1. CASE F!Analysed(t)
      BY <2>1 DEF F!Analysed, F!Idle
    <2>2. CASE F!Asked(t)
      BY <2>2 DEF F!Asked, F!Idle
    <2>3. QED
      BY <2>1, <2>2
  <1>2. PICK target \in F!State, hot \in BOOLEAN, pause \in BOOLEAN :
          F!Goes(t, F!Called(target, hot, pause))
    <2>1. CASE F!Analysed(t)
      <3>1. PICK interest \in BOOLEAN, disposition \in F!Disposition, hot \in BOOLEAN :
              F!Goes(t, F!Called(F!Target(interest, disposition), hot, FALSE))
        BY <2>1 DEF F!Analysed
      <3>2. F!Target(interest, disposition) \in F!State
        BY DEF F!Target, F!State, F!Disposition
      <3>3. QED
        BY <3>1, <3>2
    <2>2. CASE F!Asked(t)
      <3>1. PICK to \in {"dead_lead", "negotiation"}, pause \in BOOLEAN :
              F!Goes(t, F!Called(to, FALSE, pause))
        BY <2>2 DEF F!Asked
      <3>2. to \in F!State
        BY DEF F!State
      <3>3. QED
        BY <3>1, <3>2
    <2>3. QED
      BY <2>1, <2>2
  <1> DEFINE x == F!Called(target, hot, pause)
  <1>3. x \in Job /\ x.at = "called"
    BY CalledIsJob
  <1> HIDE DEF x
  <1>4. F!Goes(t, x)
    BY <1>2 DEF x
  <1>5. drips[t] # 1 /\ ~HasFiled(t) /\ ~F!Moving(t)
    BY <1>1 DEF FlowInv, StartsOnce, HasFiled, F!Moving
  <1>6. F!EverythingIsLogged' /\ FilesOnce' /\ StartsOnce'
    BY <1>1, <1>4, <1>5, OthersUnfiled
  <1>7. /\ client \in Clients /\ failures \in 0 .. MaxFailures /\ raced \in BOOLEAN
        /\ followups \subseteq [by : Outcome, kind : {"call", "walkthrough"}]
        /\ drips \in [F!Thread -> Nat]
    BY FlowFields DEF FlowInv, F!TypeOK
  <1>8. QED
    BY <1>1, <1>3, <1>4, <1>5, <1>6, <1>7, OnwardKeepsInv

\* insert_workflow_transition reads the state of the lead.
LEMMA ReadStateKeepsInv ==
    ASSUME FlowInv, NEW t \in F!Thread, F!ReadState(t)
    PROVE  FlowInv'
  <1>1. /\ thread[t].at = "called" /\ thread[t] \in Job
        /\ UNCHANGED <<client, log, followups, told, drips>>
    BY FlowFields DEF F!ReadState
  <1>2. /\ client \in Clients /\ failures \in 0 .. MaxFailures /\ raced \in BOOLEAN
        /\ followups \subseteq [by : Outcome, kind : {"call", "walkthrough"}]
        /\ drips \in [F!Thread -> Nat] /\ client.state \in F!State
    BY FlowFields DEF FlowInv, F!TypeOK, Clients
  <1>3. drips[t] # 1 /\ ~HasFiled(t) /\ ~F!Moving(t) /\ ~HasLogged(t)
    BY <1>1 DEF FlowInv, StartsOnce, HasFiled, F!Moving, HasLogged
  <1>4. CASE F!Fails /\ F!Goes(t, F!Over) /\ raced' = raced
    <2>1. F!Over \in {F!Idle, F!Over} \cup Job /\ F!Over.at = "over"
      BY DEF F!Over
    <2>2. F!EverythingIsLogged' /\ FilesOnce' /\ StartsOnce'
      BY <1>1, <1>3, <1>4, <2>1, OthersUnfiled
    <2>3. QED
      BY <1>1, <1>2, <1>3, <1>4, <2>1, <2>2, FailsInBounds, OnwardKeepsInv
  <1>5. CASE /\ F!Goes(t, [thread[t] EXCEPT !.at = "read", !.previous = client.state])
             /\ raced' = (raced \/ \E u \in F!Thread : F!Moving(u))
             /\ failures' = failures
    <2> DEFINE x == [thread[t] EXCEPT !.at = "read", !.previous = client.state]
    <2>1. x \in Job /\ x.at = "read" /\ x.previous = client.state
      BY <1>1, <1>2 DEF Job
    <2> HIDE DEF x
    <2>2. F!Goes(t, x)
      BY <1>5 DEF x
    <2>3. /\ F!Thread' = F!Thread /\ thread'[t] = x
          /\ \A u \in F!Thread : u # t => thread'[u] = thread[u]
      BY <2>2, ThreadGoes
    <2>4. F!EverythingIsLogged' /\ FilesOnce' /\ StartsOnce'
      BY <1>1, <1>3, <2>1, <2>2, OthersUnfiled
    <2>5. raced' \in BOOLEAN /\ (raced => raced')
      BY <1>2, <1>5
    <2>6. F!TypeOK'
      BY <1>1, <1>2, <1>5, <2>3, <2>5 DEF FlowInv, F!TypeOK
    <2>7. \A u \in F!Thread' : /\ thread'[u] \in {F!Idle, F!Over} \cup Job
                               /\ u \in Outcome \cup Request
                               /\ thread'[u].at \in {"moved", "hot", "comms", "startHot", "start"}
                                     => u \in Outcome
      BY <2>1, <2>3 DEF FlowInv
    <2>8. LogIsKept'
      <3>1. client.state \in F!BeforeRow(Len(log) + 1)
        BY DEF FlowInv, F!EverythingIsLogged
      <3>2. \A u \in F!Thread : F!Moving(u)' => thread'[u].previous \in F!BeforeRow(Len(log) + 1)
        BY <2>1, <2>3, <3>1 DEF FlowInv, LogIsKept, F!Moving
      <3>3. \A u \in F!Thread : HasLogged(u)' => HasLogged(u) /\ thread'[u] = thread[u]
        BY <2>1, <2>3 DEF HasLogged
      <3>4. QED
        BY <1>1, <2>3, <3>2, <3>3 DEF FlowInv, LogIsKept, LoggedRow, F!BeforeRow, F!Logged
    <2>9. MovesAlone'
      <3> SUFFICES ASSUME ~raced' PROVE MovesAlone'
        BY DEF MovesAlone
      <3>1. ~raced /\ \A u \in F!Thread : ~F!Moving(u)
        BY <1>5
      <3>2. \A u \in F!Thread : F!Moving(u)' => u = t
        BY <2>3, <3>1 DEF F!Moving
      <3>3. \A u \in F!Thread : thread'[u].at # "logged" /\ thread[u].at # "logged"
        BY <2>1, <2>3, <3>1 DEF F!Moving
      <3>4. \A u \in F!Thread : thread'[u].at = "read" => thread'[u].previous = client.state
        BY <2>1, <2>3, <3>2 DEF F!Moving
      <3>5. /\ log # <<>> => client.state = F!Logged(Len(log))
            /\ \A i \in 2 .. Len(log) : log[i].previous = F!Logged(i - 1)
        BY <3>1, <3>3 DEF FlowInv, MovesAlone
      <3>6. QED
        BY <1>1, <2>3, <3>2, <3>3, <3>4, <3>5 DEF MovesAlone, F!Logged
    <2>10. QED
      BY <1>1, <2>3, <2>4, <2>6, <2>7, <2>8, <2>9 DEF FlowInv
  <1>6. QED
    BY <1>4, <1>5 DEF F!ReadState

\* A row of the log: what was logged stays logged, and the state of the row is logged now.
LEMMA RowIsKept ==
    ASSUME FlowInv, NEW row \in Rows
    PROVE  LET more == Append(log, row) IN
           /\ more \in Seq(Rows) /\ Len(more) = Len(log) + 1 /\ DOMAIN more = 1 .. Len(log) + 1
           /\ \A i \in 1 .. Len(log) : more[i] = log[i]
           /\ more[Len(log) + 1] = row
  BY FlowFields

LEMMA LogGrows ==
    ASSUME FlowInv, NEW t \in F!Thread, thread[t].at = "read",
           log' = Append(log, F!Row(t)), UNCHANGED <<client, followups, told>>,
           F!Thread' = F!Thread,
           \A u \in F!Thread : \/ thread'[u] = thread[u]
                               \/ u = t /\ thread'[u].at \in {"logged", "over"}
                                  /\ thread'[u].target = thread[t].target
                                  /\ thread'[u].previous = thread[t].previous
                               \/ u = t /\ thread'[u].at = "over"
    PROVE  /\ F!EverythingIsLogged' /\ LogIsKept'
           /\ log' \in Seq(Rows) /\ Len(log') = Len(log) + 1
           /\ \A i \in 1 .. Len(log) : log'[i] = log[i]
           /\ log'[Len(log) + 1] = F!Row(t)
  <1> DEFINE n == Len(log)
  <1>1. F!Row(t) \in Rows /\ F!Row(t).state = thread[t].target
        /\ F!Row(t).previous = thread[t].previous /\ F!Row(t).by = t
    BY FlowFields DEF F!Row, Rows, Job
  <1>2. /\ log' \in Seq(Rows) /\ Len(log') = n + 1 /\ DOMAIN log' = 1 .. n + 1
        /\ \A i \in 1 .. n : log'[i] = log[i]
        /\ log'[n + 1] = F!Row(t)
    BY <1>1, RowIsKept
  <1>3. n \in Nat /\ DOMAIN log = 1 .. n
    BY FlowFields
  <1> HIDE DEF n
  <1>4. ASSUME NEW i \in 1 .. n + 1 PROVE F!BeforeRow(i)' = F!BeforeRow(i)
    <2>1. \A j \in 1 .. i - 1 : j \in 1 .. n
      BY <1>3
    <2>2. \A j \in 1 .. i - 1 : log'[j].state = log[j].state
      BY <1>2, <2>1
    <2>3. QED
      BY <2>2 DEF F!BeforeRow, F!Logged
  <1>5. F!BeforeRow(n + 1) \subseteq F!BeforeRow(Len(log) + 1)'
    <2>1. n + 1 - 1 = n /\ Len(log') + 1 - 1 = n + 1
      BY <1>2, <1>3
    <2>2. \A x \in F!BeforeRow(n + 1) :
             x = "new_lead" \/ \E j \in 1 .. n : x = log[j].state
      BY <1>3, <2>1 DEF F!BeforeRow, F!Logged
    <2>3. /\ "new_lead" \in F!BeforeRow(Len(log) + 1)'
          /\ \A j \in 1 .. Len(log') + 1 - 1 : log'[j].state \in F!BeforeRow(Len(log) + 1)'
      BY DEF F!BeforeRow, F!Logged
    <2>4. \A j \in 1 .. n : j \in 1 .. n + 1 /\ log'[j].state = log[j].state
      BY <1>2, <1>3
    <2>5. QED
      BY <2>1, <2>2, <2>3, <2>4
  <1>6. thread[t].previous \in F!BeforeRow(n + 1) /\ client.state \in F!BeforeRow(n + 1)
    BY DEF FlowInv, LogIsKept, F!EverythingIsLogged, F!Moving, n
  <1>7. F!EverythingIsLogged'
    <2>1. client'.state \in F!BeforeRow(Len(log) + 1)'
      BY <1>5, <1>6
    <2>2. ASSUME NEW i \in DOMAIN log' PROVE log'[i].previous \in F!BeforeRow(i)'
      <3>1. CASE i = n + 1
        BY <1>1, <1>2, <1>3, <1>4, <1>6, <3>1
      <3>2. CASE i # n + 1
        <4>1. i \in 1 .. n
          BY <1>2, <1>3, <3>2
        <4>2. log[i].previous \in F!BeforeRow(i)
          BY <1>3, <4>1 DEF FlowInv, F!EverythingIsLogged
        <4>3. QED
          BY <1>2, <1>4, <4>1, <4>2
      <3>3. QED
        BY <3>1, <3>2
    <2>3. \A i \in DOMAIN log : i \in DOMAIN log' /\ log'[i] = log[i]
      BY <1>2, <1>3
    <2>4. QED
      BY <2>1, <2>2, <2>3 DEF FlowInv, F!EverythingIsLogged
  <1>8. LogIsKept'
    <2>1. \A i \in DOMAIN log : i \in DOMAIN log' /\ log'[i] = log[i]
      BY <1>2, <1>3
    <2>2. n + 1 \in DOMAIN log' /\ log'[n + 1].by = t /\ log'[n + 1].state = thread[t].target
      BY <1>1, <1>2, <1>3
    <2>3. ASSUME NEW u \in F!Thread
          PROVE  /\ F!Moving(u)' => thread'[u].previous \in F!BeforeRow(n + 1)
                 /\ HasLogged(u)' => \E i \in DOMAIN log' : log'[i].by = u /\ log'[i].state = thread'[u].target
      <3>1. CASE thread'[u] = thread[u]
        BY <2>1, <3>1 DEF FlowInv, LogIsKept, F!Moving, HasLogged, LoggedRow, n
      <3>2. CASE thread'[u] # thread[u]
        BY <1>6, <2>2, <3>2 DEF F!Moving, HasLogged
      <3>3. QED
        BY <3>1, <3>2
    <2>4. QED
      BY <1>5, <2>3 DEF LogIsKept, LoggedRow
  <1>9. QED
    BY <1>2, <1>7, <1>8 DEF n

\* insert_workflow_transition logs its row.
LEMMA LogRowKeepsInv ==
    ASSUME FlowInv, NEW t \in F!Thread, F!LogRow(t)
    PROVE  FlowInv'
  <1>1. /\ thread[t].at = "read" /\ thread[t] \in Job
        /\ UNCHANGED <<client, followups, told, drips>>
    BY FlowFields DEF F!LogRow
  <1>2. /\ client \in Clients /\ failures \in 0 .. MaxFailures /\ raced \in BOOLEAN
        /\ followups \subseteq [by : Outcome, kind : {"call", "walkthrough"}]
        /\ drips \in [F!Thread -> Nat]
    BY FlowFields DEF FlowInv, F!TypeOK
  <1>3. drips[t] # 1 /\ ~HasFiled(t) /\ F!Moving(t)
    BY <1>1 DEF FlowInv, StartsOnce, HasFiled, F!Moving
  <1>4. F!Over \in {F!Idle, F!Over} \cup Job /\ F!Over.at = "over"
    BY DEF F!Over
  <1>5. CASE F!Fails /\ log' = log /\ F!Goes(t, F!Over) /\ raced' = TRUE
    <2>1. F!EverythingIsLogged' /\ FilesOnce' /\ StartsOnce'
      BY <1>1, <1>3, <1>4, <1>5, OthersUnfiled
    <2>2. QED
      BY <1>1, <1>2, <1>3, <1>4, <1>5, <2>1, FailsInBounds, OnwardKeepsInv
  <1>6. CASE F!Fails /\ log' = Append(log, F!Row(t)) /\ F!Goes(t, F!Over) /\ raced' = TRUE
    <2>1. /\ F!Thread' = F!Thread /\ thread'[t] = F!Over
          /\ \A u \in F!Thread : u # t => thread'[u] = thread[u]
      BY <1>6, ThreadGoes
    <2>2. F!EverythingIsLogged' /\ LogIsKept' /\ log' \in Seq(Rows)
      BY <1>1, <1>4, <1>6, <2>1, LogGrows
    <2>3. F!TypeOK'
      BY <1>1, <1>2, <1>6, <2>1, <2>2, FailsInBounds DEF FlowInv, F!TypeOK, Rows
    <2>4. \A u \in F!Thread' : /\ thread'[u] \in {F!Idle, F!Over} \cup Job
                               /\ u \in Outcome \cup Request
                               /\ thread'[u].at \in {"moved", "hot", "comms", "startHot", "start"}
                                     => u \in Outcome
      BY <1>4, <2>1 DEF FlowInv
    <2>5. MovesAlone'
      BY <1>6 DEF MovesAlone
    <2>6. FilesOnce' /\ StartsOnce'
      BY <1>1, <1>3, <1>4, <2>1 DEF FlowInv, FilesOnce, StartsOnce, HasFiled
    <2>7. QED
      BY <1>1, <2>1, <2>2, <2>3, <2>4, <2>5, <2>6 DEF FlowInv
  <1>7. CASE /\ log' = Append(log, F!Row(t)) /\ F!Moves(t, "logged")
             /\ UNCHANGED <<failures, raced>>
    <2> DEFINE x == [thread[t] EXCEPT !.at = "logged"]
    <2>1. /\ x \in Job /\ x.at = "logged" /\ x.target = thread[t].target
          /\ x.previous = thread[t].previous
      BY <1>1, MovesJob
    <2>2. F!Goes(t, x)
      BY <1>7 DEF F!Moves
    <2> HIDE DEF x
    <2>3. /\ F!Thread' = F!Thread /\ thread'[t] = x
          /\ \A u \in F!Thread : u # t => thread'[u] = thread[u]
      BY <2>2, ThreadGoes
    <2>4. /\ F!EverythingIsLogged' /\ LogIsKept' /\ log' \in Seq(Rows)
          /\ Len(log') = Len(log) + 1 /\ \A i \in 1 .. Len(log) : log'[i] = log[i]
          /\ log'[Len(log) + 1] = F!Row(t)
      BY <1>1, <1>7, <2>1, <2>3, LogGrows
    <2>5. F!TypeOK'
      BY <1>1, <1>2, <1>7, <2>3, <2>4 DEF FlowInv, F!TypeOK, Rows
    <2>6. \A u \in F!Thread' : /\ thread'[u] \in {F!Idle, F!Over} \cup Job
                               /\ u \in Outcome \cup Request
                               /\ thread'[u].at \in {"moved", "hot", "comms", "startHot", "start"}
                                     => u \in Outcome
      BY <2>1, <2>3 DEF FlowInv
    <2>7. FilesOnce' /\ StartsOnce'
      BY <1>1, <1>3, <2>1, <2>3 DEF FlowInv, FilesOnce, StartsOnce, HasFiled
    <2>8. MovesAlone'
      <3> SUFFICES ASSUME ~raced' PROVE MovesAlone'
        BY DEF MovesAlone
      <3>1. ~raced /\ MovesAlone
        BY <1>7 DEF FlowInv
      <3>2. \A u \in F!Thread : F!Moving(u) => u = t
        BY <1>3, <3>1 DEF MovesAlone
      <3>3. \A u \in F!Thread : F!Moving(u)' => u = t
        BY <2>3, <3>2 DEF F!Moving
      <3>4. /\ thread[t].previous = client.state
            /\ log # <<>> => client.state = log[Len(log)].state
            /\ \A i \in 2 .. Len(log) : log[i].previous = log[i - 1].state
        BY <1>1, <3>1, <3>2 DEF MovesAlone, F!Moving, F!Logged
      <3>5. F!Row(t).state = thread[t].target /\ F!Row(t).previous = thread[t].previous
        BY DEF F!Row
      <3>6. /\ log' # <<>> /\ log'[Len(log')].state = x.target
        BY <2>1, <2>4, <3>5, FlowFields
      <3>7. ASSUME NEW i \in 2 .. Len(log') PROVE log'[i].previous = log'[i - 1].state
        <4>1. Len(log) \in Nat /\ (log # <<>> <=> Len(log) # 0)
          BY FlowFields
        <4>2. CASE i = Len(log) + 1
          <5>1. Len(log) \in 1 .. Len(log) /\ log # <<>> /\ i - 1 = Len(log)
            BY <2>4, <4>1, <4>2
          <5>2. QED
            BY <2>4, <3>4, <3>5, <4>2, <5>1
        <4>3. CASE i # Len(log) + 1
          <5>1. i \in 2 .. Len(log) /\ i \in 1 .. Len(log) /\ i - 1 \in 1 .. Len(log)
            BY <2>4, <4>1, <4>3
          <5>2. QED
            BY <2>4, <3>4, <5>1
        <4>4. QED
          BY <4>2, <4>3
      <3>8. /\ \A u \in F!Thread : thread'[u].at = "read" => FALSE
            /\ \A u \in F!Thread : thread'[u].at = "logged" => u = t
        BY <2>1, <2>3, <3>3 DEF F!Moving
      <3>9. QED
        BY <2>1, <2>3, <3>3, <3>6, <3>7, <3>8 DEF MovesAlone, F!Logged
    <2>9. QED
      BY <1>1, <2>3, <2>4, <2>5, <2>6, <2>7, <2>8 DEF FlowInv
  <1>8. QED
    BY <1>5, <1>6, <1>7 DEF F!LogRow

\* The lead is written, or the thread ends without knowing whether it was.
LEMMA WritesKeepInv ==
    ASSUME FlowInv, NEW t \in F!Thread, thread[t].at = "logged",
           NEW x \in {F!Over} \cup Job, F!Goes(t, x), x.at \in {"moved", "pausing", "over"},
           x.at # "over" => x.target = thread[t].target,
           x.at = "moved" => t \in Outcome,
           client' \in {client, [client EXCEPT !.state = thread[t].target]},
           told' \in {told, told \cup {[by |-> t, state |-> thread[t].target]}},
           UNCHANGED <<log, followups, drips>>, failures' \in 0 .. MaxFailures,
           raced' \in BOOLEAN, raced => raced',
           ~raced' => client'.state = thread[t].target
    PROVE  FlowInv'
  <1>1. /\ F!Thread' = F!Thread /\ thread'[t] = x
        /\ \A u \in F!Thread : u # t => thread'[u] = thread[u]
    BY ThreadGoes
  <1>2. /\ client \in Clients /\ thread[t] \in Job /\ t \in Outcome \cup Request
        /\ thread[t].target \in F!State /\ Len(log) \in Nat /\ DOMAIN log = 1 .. Len(log)
    BY FlowFields DEF Job
  <1>3. client' \in Clients /\ client'.texts = client.texts
        /\ client'.state \in {client.state, thread[t].target}
    BY <1>2 DEF Clients
  <1>4. drips[t] # 1 /\ ~HasFiled(t) /\ F!Moving(t) /\ HasLogged(t)
    BY DEF FlowInv, StartsOnce, HasFiled, F!Moving, HasLogged
  <1>5. PICK i \in DOMAIN log : log[i].by = t /\ log[i].state = thread[t].target
    BY <1>4 DEF FlowInv, LogIsKept, LoggedRow
  <1>6. F!TypeOK'
    <2>1. told' \subseteq [by : Outcome \cup Request, state : F!State]
      BY <1>2 DEF FlowInv, F!TypeOK
    <2>2. QED
      BY <1>1, <1>3, <2>1 DEF FlowInv, F!TypeOK, Clients
  <1>7. F!EverythingIsLogged'
    <2>1. thread[t].target \in F!BeforeRow(Len(log) + 1)
      <3>1. i \in 1 .. Len(log) + 1 - 1
        BY <1>2
      <3>2. QED
        BY <1>5, <3>1 DEF F!BeforeRow, F!Logged
    <2>2. client'.state \in F!BeforeRow(Len(log) + 1)
      BY <1>3, <2>1 DEF FlowInv, F!EverythingIsLogged
    <2>3. F!BeforeRow(Len(log) + 1)' = F!BeforeRow(Len(log) + 1)
          /\ \A k \in DOMAIN log : F!BeforeRow(k)' = F!BeforeRow(k)
      BY DEF F!BeforeRow, F!Logged
    <2>4. \A e \in told' : \E k \in DOMAIN log : log[k].by = e.by /\ log[k].state = e.state
      BY <1>5 DEF FlowInv, F!EverythingIsLogged
    <2>5. QED
      BY <2>2, <2>3, <2>4 DEF FlowInv, F!EverythingIsLogged
  <1>8. LogIsKept'
    <2>1. \A u \in F!Thread :
             /\ F!Moving(u)' => F!Moving(u) /\ thread'[u] = thread[u]
             /\ HasLogged(u)' => HasLogged(u) /\ thread'[u].target = thread[u].target
      BY <1>1, <1>4 DEF F!Moving, HasLogged
    <2>2. QED
      BY <1>1, <2>1 DEF FlowInv, LogIsKept, F!BeforeRow, F!Logged, LoggedRow
  <1>9. MovesAlone'
    <2> SUFFICES ASSUME ~raced' PROVE MovesAlone'
      BY DEF MovesAlone
    <2>1. ~raced /\ MovesAlone
      BY DEF FlowInv
    <2>2. /\ log # <<>> /\ client'.state = F!Logged(Len(log))
          /\ \A u \in F!Thread : F!Moving(u) => u = t
          /\ \A k \in 2 .. Len(log) : log[k].previous = F!Logged(k - 1)
      BY <1>4, <2>1 DEF MovesAlone
    <2>3. \A u \in F!Thread : thread'[u].at \notin {"read", "logged"}
      BY <1>1, <2>2 DEF F!Moving
    <2>4. QED
      BY <1>1, <2>2, <2>3 DEF MovesAlone, F!Moving, F!Logged
  <1>10. FilesOnce' /\ StartsOnce'
    BY <1>1, <1>3, <1>4 DEF FlowInv, FilesOnce, StartsOnce, HasFiled
  <1>11. \A u \in F!Thread' : /\ thread'[u] \in {F!Idle, F!Over} \cup Job
                              /\ u \in Outcome \cup Request
                              /\ thread'[u].at \in {"moved", "hot", "comms", "startHot", "start"}
                                    => u \in Outcome
    BY <1>1 DEF FlowInv
  <1>12. QED
    BY <1>1, <1>6, <1>7, <1>8, <1>9, <1>10, <1>11 DEF FlowInv

LEMMA ApplyKeepsInv ==
    ASSUME FlowInv, NEW t \in F!Thread, F!Apply(t)
    PROVE  FlowInv'
  <1> DEFINE moved == [client EXCEPT !.state = thread[t].target]
  <1>1. /\ thread[t].at = "logged" /\ thread[t] \in Job /\ UNCHANGED <<log, followups, drips>>
    BY FlowFields DEF F!Apply
  <1>2. /\ client \in Clients /\ failures \in 0 .. MaxFailures /\ raced \in BOOLEAN
        /\ t \in Outcome \cup Request
    BY FlowFields
  <1>3. F!Over \in {F!Over} \cup Job /\ F!Over.at = "over"
    BY DEF F!Over
  <1>4. CASE F!Fails /\ client' \in {client, moved} /\ F!Goes(t, F!Over) /\ raced' = TRUE
             /\ told' = told
    BY <1>1, <1>3, <1>4, FailsInBounds, WritesKeepInv
  <1>5. CASE /\ client' = moved
             /\ F!Moves(t, IF t \in Outcome THEN "moved"
                           ELSE IF thread[t].pause THEN "pausing" ELSE "over")
             /\ \/ told' = told \cup {[by |-> t, state |-> thread[t].target]} /\ failures' = failures
                \/ F!Fails /\ told' = told
             /\ raced' = raced
    <2>1. PICK x \in {F!Over} \cup Job :
            /\ F!Goes(t, x) /\ x.at \in {"moved", "pausing", "over"}
            /\ x.at # "over" => x.target = thread[t].target
            /\ x.at = "moved" => t \in Outcome
      <3>1. CASE t \in Outcome
        <4>1. F!Goes(t, [thread[t] EXCEPT !.at = "moved"])
          BY <1>5, <3>1 DEF F!Moves
        <4>2. QED
          BY <1>1, <3>1, <4>1, MovesJob
      <3>2. CASE t \notin Outcome /\ thread[t].pause
        <4>1. F!Goes(t, [thread[t] EXCEPT !.at = "pausing"])
          BY <1>5, <3>2 DEF F!Moves
        <4>2. QED
          BY <1>1, <3>2, <4>1, MovesJob
      <3>3. CASE t \notin Outcome /\ ~thread[t].pause
        BY <1>3, <1>5, <3>3 DEF F!Moves
      <3>4. QED
        BY <3>1, <3>2, <3>3
    <2>2. failures' \in 0 .. MaxFailures
      BY <1>2, <1>5, FailsInBounds
    <2>3. client'.state = thread[t].target
      BY <1>2, <1>5 DEF Clients
    <2>4. told' \in {told, told \cup {[by |-> t, state |-> thread[t].target]}}
      BY <1>5
    <2>5. client' \in {client, moved} /\ raced' \in BOOLEAN /\ (raced => raced')
      BY <1>2, <1>5
    <2>6. QED
      BY <1>1, <2>1, <2>2, <2>3, <2>4, <2>5, WritesKeepInv
  <1>6. QED
    BY <1>4, <1>5 DEF F!Apply

\* pause_lead_drip
LEMMA PauseKeepsInv ==
    ASSUME FlowInv, NEW t \in F!Thread, F!Pause(t)
    PROVE  FlowInv'
  <1>1. /\ thread[t].at = "pausing" /\ F!Goes(t, F!Over)
        /\ UNCHANGED <<log, followups, told, raced, drips>>
        /\ \/ client' = [client EXCEPT !.paused = TRUE] /\ failures' = failures
           \/ F!Fails /\ client' = client
    BY DEF F!Pause
  <1>2. /\ client \in Clients /\ failures \in 0 .. MaxFailures /\ raced \in BOOLEAN
        /\ followups \subseteq [by : Outcome, kind : {"call", "walkthrough"}]
        /\ drips \in [F!Thread -> Nat]
    BY FlowFields DEF FlowInv, F!TypeOK
  <1>3. client' \in Clients /\ client'.state = client.state /\ client'.texts = client.texts
    BY <1>1, <1>2 DEF Clients
  <1>4. F!Over \in {F!Idle, F!Over} \cup Job /\ F!Over.at = "over" /\ ~F!Moving(t)
    BY <1>1 DEF F!Over, F!Moving
  <1>5. failures' \in 0 .. MaxFailures
    BY <1>1, <1>2, FailsInBounds
  <1>6. F!EverythingIsLogged' /\ FilesOnce' /\ StartsOnce'
    BY <1>1, <1>3, <1>4, OthersUnfiled
  <1>7. QED
    BY <1>1, <1>2, <1>3, <1>4, <1>5, <1>6, OnwardKeepsInv

\* An outcome files its follow-up.
LEMMA FileFollowupKeepsInv ==
    ASSUME FlowInv, NEW t \in F!Thread, F!FileFollowup(t)
    PROVE  FlowInv'
  <1> DEFINE row == [by |-> t, kind |-> F!Kind(thread[t].target)]
  <1>1. /\ thread[t].at = "moved" /\ thread[t] \in Job /\ t \in Outcome
        /\ UNCHANGED <<client, log, told, raced, drips>>
    BY FlowFields DEF FlowInv, F!FileFollowup
  <1>2. /\ client \in Clients /\ failures \in 0 .. MaxFailures /\ raced \in BOOLEAN
        /\ followups \subseteq [by : Outcome, kind : {"call", "walkthrough"}]
        /\ drips \in [F!Thread -> Nat] /\ DOMAIN log = 1 .. Len(log)
    BY FlowFields DEF FlowInv, F!TypeOK
  <1>3. failures' \in 0 .. MaxFailures
    BY <1>2, FailsInBounds DEF F!FileFollowup
  <1>4. PICK x \in {F!Idle, F!Over} \cup Job :
          /\ F!Goes(t, x) /\ x.at \in {"hot", "comms", "over"}
          /\ x.at # "over" => x.target = thread[t].target
    <2>1. CASE F!Goes(t, F!Over)
      BY <2>1 DEF F!Over
    <2>2. CASE F!Moves(t, IF thread[t].hot THEN "hot" ELSE "comms")
      <3>1. PICK at \in {"hot", "comms"} : F!Goes(t, [thread[t] EXCEPT !.at = at])
        BY <2>2 DEF F!Moves
      <3> DEFINE y == [thread[t] EXCEPT !.at = at]
      <3>2. y \in Job /\ y.at = at /\ y.target = thread[t].target
        BY <1>1 DEF Job
      <3> HIDE DEF y
      <3>3. F!Goes(t, y)
        BY <3>1 DEF y
      <3>4. QED
        BY <3>2, <3>3
    <2>3. QED
      BY <2>1, <2>2 DEF F!FileFollowup
  <1>5. \/ followups' = followups
        \/ followups' = followups \cup {row} /\ thread[t].target \in F!Actionable
    BY DEF F!FileFollowup
  <1>6. row \in [by : Outcome, kind : {"call", "walkthrough"}]
    BY <1>1 DEF F!Kind
  <1>7. /\ F!Thread' = F!Thread /\ thread'[t] = x
        /\ \A u \in F!Thread : u # t => thread'[u] = thread[u]
    BY <1>4, ThreadGoes
  <1>8. ~HasFiled(t) /\ HasLogged(t) /\ ~F!Moving(t) /\ drips[t] # 1
    BY <1>1 DEF FlowInv, HasFiled, HasLogged, F!Moving, StartsOnce
  <1>9. F!EverythingIsLogged'
    <2>1. PICK i \in DOMAIN log : log[i].by = t /\ log[i].state = thread[t].target
      BY <1>8 DEF FlowInv, LogIsKept, LoggedRow
    <2>2. \A f \in followups' : \E k \in DOMAIN log :
             log[k].by = f.by /\ log[k].state \in F!Actionable /\ f.kind = F!Kind(log[k].state)
      <3>1. \A f \in followups : \E k \in DOMAIN log :
               log[k].by = f.by /\ log[k].state \in F!Actionable /\ f.kind = F!Kind(log[k].state)
        BY DEF FlowInv, F!EverythingIsLogged
      <3>2. row.by = t /\ row.kind = F!Kind(thread[t].target)
        OBVIOUS
      <3>3. QED
        BY <1>5, <2>1, <3>1, <3>2
    <2>3. QED
      BY <1>1, <2>2 DEF FlowInv, F!EverythingIsLogged, F!BeforeRow, F!Logged
  <1>10. FilesOnce'
    <2>1. \A f \in followups : f.by # t /\ f.by \in F!Thread /\ HasFiled(f.by)
      BY <1>8 DEF FlowInv, FilesOnce
    <2>2. \A u \in F!Thread : u = t \/ HasFiled(u) => HasFiled(u)'
      BY <1>4, <1>7 DEF HasFiled
    <2>3. row.by = t
      OBVIOUS
    <2>4. QED
      BY <1>5, <1>7, <2>1, <2>2, <2>3 DEF FlowInv, FilesOnce
  <1>11. StartsOnce'
    BY <1>1, <1>7, <1>8 DEF FlowInv, StartsOnce
  <1>12. followups' \subseteq [by : Outcome, kind : {"call", "walkthrough"}]
    BY <1>2, <1>5, <1>6
  <1>13. QED
    BY <1>1, <1>2, <1>3, <1>4, <1>8, <1>9, <1>10, <1>11, <1>12, OnwardKeepsInv

\* The lead is read before its texts are started.
LEMMA ReadLeadKeepsInv ==
    ASSUME FlowInv, NEW t \in F!Thread, F!ReadLead(t)
    PROVE  FlowInv'
  <1>1. /\ thread[t].at \in {"hot", "comms"} /\ thread[t] \in Job /\ t \in Outcome
        /\ UNCHANGED <<client, log, followups, told, failures, raced, drips>>
    BY FlowFields DEF FlowInv, F!ReadLead
  <1>2. /\ client \in Clients /\ failures \in 0 .. MaxFailures /\ raced \in BOOLEAN
        /\ followups \subseteq [by : Outcome, kind : {"call", "walkthrough"}]
        /\ drips \in [F!Thread -> Nat]
    BY FlowFields DEF FlowInv, F!TypeOK
  <1>3. PICK at \in {"comms", "over", "startHot", "start"} :
          F!Moves(t, at) /\ (client.texts => at \in {"comms", "over"})
    BY <1>1 DEF F!ReadLead, F!MayText, F!After
  <1>4. PICK x \in {F!Idle, F!Over} \cup Job :
          /\ F!Goes(t, x) /\ x.at = at
          /\ x.at # "over" => x.target = thread[t].target
    <2>1. CASE at = "over"
      BY <1>3, <2>1 DEF F!Moves, F!Over
    <2>2. CASE at # "over"
      <3>1. F!Goes(t, [thread[t] EXCEPT !.at = at])
        BY <1>3, <2>2 DEF F!Moves
      <3> DEFINE y == [thread[t] EXCEPT !.at = at]
      <3>2. y \in Job /\ y.at = at /\ y.target = thread[t].target
        BY <1>1, <2>2 DEF Job
      <3> HIDE DEF y
      <3>3. F!Goes(t, y)
        BY <3>1 DEF y
      <3>4. QED
        BY <3>2, <3>3
    <2>3. QED
      BY <2>1, <2>2
  <1>5. HasLogged(t) /\ ~F!Moving(t) /\ (drips[t] = 1 => client.texts)
    BY <1>1 DEF FlowInv, HasLogged, F!Moving, StartsOnce
  <1>6. F!EverythingIsLogged' /\ FilesOnce' /\ StartsOnce'
    BY <1>1, <1>3, <1>4, <1>5, OthersUnfiled
  <1>7. QED
    BY <1>1, <1>2, <1>4, <1>5, <1>6, OnwardKeepsInv

\* start_lead_drip
LEMMA StartTextsKeepsInv ==
    ASSUME FlowInv, NEW t \in F!Thread, F!StartTexts(t)
    PROVE  FlowInv'
  <1>1. /\ thread[t].at \in {"startHot", "start"} /\ thread[t] \in Job /\ t \in Outcome
        /\ UNCHANGED <<log, followups, told, raced>>
    BY FlowFields DEF FlowInv, F!StartTexts
  <1>2. /\ client \in Clients /\ failures \in 0 .. MaxFailures /\ raced \in BOOLEAN
        /\ followups \subseteq [by : Outcome, kind : {"call", "walkthrough"}]
        /\ drips \in [F!Thread -> Nat]
    BY FlowFields DEF FlowInv, F!TypeOK
  <1>3. PICK at \in {"comms", "over"} : F!Moves(t, at)
    BY <1>1 DEF F!StartTexts, F!After
  <1>4. PICK x \in {F!Idle, F!Over} \cup Job :
          /\ F!Goes(t, x) /\ x.at = at
          /\ x.at # "over" => x.target = thread[t].target
    <2>1. CASE at = "over"
      BY <1>3, <2>1 DEF F!Moves, F!Over
    <2>2. CASE at # "over"
      <3>1. F!Goes(t, [thread[t] EXCEPT !.at = at])
        BY <1>3, <2>2 DEF F!Moves
      <3> DEFINE y == [thread[t] EXCEPT !.at = at]
      <3>2. y \in Job /\ y.at = at /\ y.target = thread[t].target
        BY <1>1, <2>2 DEF Job
      <3> HIDE DEF y
      <3>3. F!Goes(t, y)
        BY <3>1 DEF y
      <3>4. QED
        BY <3>2, <3>3
    <2>3. QED
      BY <2>1, <2>2
  <1>5. HasLogged(t) /\ HasFiled(t) /\ ~F!Moving(t) /\ drips[t] = 0
    <2>1. drips[t] \in 0 .. 1 /\ drips[t] # 1
      BY <1>1 DEF FlowInv, StartsOnce
    <2>2. QED
      BY <1>1, <2>1 DEF HasLogged, HasFiled, F!Moving
  <1>6. /\ F!Thread' = F!Thread /\ thread'[t] = x
        /\ \A u \in F!Thread : u # t => thread'[u] = thread[u]
    BY <1>4, ThreadGoes
  <1>7. failures' \in 0 .. MaxFailures
    BY <1>2, FailsInBounds DEF F!StartTexts
  <1>8. CASE UNCHANGED <<client, drips>>
    <2>1. F!EverythingIsLogged' /\ FilesOnce' /\ StartsOnce'
      BY <1>1, <1>4, <1>5, <1>8, OthersUnfiled
    <2>2. QED
      BY <1>1, <1>2, <1>4, <1>5, <1>7, <1>8, <2>1, OnwardKeepsInv
  <1>9. CASE /\ client' = [client EXCEPT !.texts = TRUE, !.paused = FALSE]
             /\ drips' = [drips EXCEPT ![t] = @ + 1]
    <2>1. client' \in Clients /\ client'.state = client.state /\ client'.texts = TRUE
      BY <1>2, <1>9 DEF Clients
    <2>2. /\ drips' \in [F!Thread -> Nat] /\ drips'[t] = 1
          /\ \A u \in F!Thread : u # t => drips'[u] = drips[u]
      BY <1>2, <1>5, <1>9
    <2>3. F!EverythingIsLogged'
      BY <1>1, <2>1 DEF FlowInv, F!EverythingIsLogged, F!BeforeRow, F!Logged
    <2>4. FilesOnce'
      BY <1>1, <1>4, <1>6 DEF FlowInv, FilesOnce, HasFiled
    <2>5. StartsOnce'
      <3>1. \A u \in F!Thread : drips'[u] \in 0 .. 1
        BY <2>2 DEF FlowInv, StartsOnce
      <3>2. \A u \in F!Thread : drips'[u] = 1 => client'.texts /\ thread'[u].at \in {"comms", "over"}
        BY <1>4, <1>6, <2>1, <2>2 DEF FlowInv, StartsOnce
      <3>3. QED
        BY <1>6, <3>1, <3>2 DEF StartsOnce
    <2>6. QED
      BY <1>1, <1>2, <1>4, <1>5, <1>7, <2>1, <2>2, <2>3, <2>4, <2>5, OnwardKeepsInv
  <1>10. QED
    BY <1>8, <1>9 DEF F!StartTexts

LEMMA FlowStep == FlowInv /\ [F!Next]_workflow => FlowInv'
  <1> SUFFICES ASSUME FlowInv, [F!Next]_workflow PROVE FlowInv'
    OBVIOUS
  <1>1. CASE \E t \in F!Thread : F!Analysed(t) \/ F!Asked(t)
    BY <1>1, BeginKeepsInv
  <1>2. CASE \E t \in F!Thread : F!ReadState(t)
    BY <1>2, ReadStateKeepsInv
  <1>3. CASE \E t \in F!Thread : F!LogRow(t)
    BY <1>3, LogRowKeepsInv
  <1>4. CASE \E t \in F!Thread : F!Apply(t)
    BY <1>4, ApplyKeepsInv
  <1>5. CASE \E t \in F!Thread : F!Pause(t)
    BY <1>5, PauseKeepsInv
  <1>6. CASE \E t \in F!Thread : F!FileFollowup(t)
    BY <1>6, FileFollowupKeepsInv
  <1>7. CASE \E t \in F!Thread : F!ReadLead(t)
    BY <1>7, ReadLeadKeepsInv
  <1>8. CASE \E t \in F!Thread : F!StartTexts(t)
    BY <1>8, StartTextsKeepsInv
  <1>9. CASE UNCHANGED workflow
    <2>1. /\ F!Thread' = F!Thread /\ F!TypeOK' = F!TypeOK /\ F!EverythingIsLogged' = F!EverythingIsLogged
      BY <1>9 DEF workflow, F!Thread, F!TypeOK, F!EverythingIsLogged, F!BeforeRow, F!Logged
    <2>2. LogIsKept' /\ MovesAlone' /\ FilesOnce' /\ StartsOnce'
      BY <1>9, <2>1 DEF workflow, FlowInv, LogIsKept, MovesAlone, FilesOnce, StartsOnce, F!BeforeRow,
             F!Logged, F!Moving, HasLogged, HasFiled, LoggedRow
    <2>3. QED
      BY <1>9, <2>1, <2>2 DEF workflow, FlowInv
  <1>10. CASE F!Done
    BY <1>9, <1>10 DEF F!Done, F!workflowVars, workflow
  <1>11. QED
    BY <1>1, <1>2, <1>3, <1>4, <1>5, <1>6, <1>7, <1>8, <1>9, <1>10 DEF F!Next
-----------------------------------------------------------------------------
(***************************************************************************)
(* The composition.                                                        *)
(***************************************************************************)
ContactInv ==
    /\ part = "sequences" => SeqInv
    /\ part = "workflow" => FlowInv

LEMMA ContactInvariant == ContactSpec => []ContactInv
  <1>1. ContactInit => ContactInv
    BY SeqInit, FlowInit DEF ContactInit, ContactInv
  <1>2. ContactInv /\ [ContactNext]_all => ContactInv'
    <2> SUFFICES ASSUME ContactInv, [ContactNext]_all PROVE ContactInv'
      OBVIOUS
    <2>1. part' = part
      BY DEF ContactNext, all
    <2>2. part = "sequences" => [Q!Next]_sequences
      BY DEF ContactNext, all
    <2>3. part = "workflow" => [F!Next]_workflow
      BY DEF ContactNext, all
    <2>4. QED
      BY <2>1, <2>2, <2>3, SeqStep, FlowStep DEF ContactInv
  <1>3. QED
    BY <1>1, <1>2, PTL DEF ContactSpec

\* A template of a sequence is sent once, nothing but the message past its check after a STOP,
\* one message of a channel a day; what threads do to a lead is in its log, and an outcome files
\* one follow-up and starts the texts once: for any days, starts, lapses, threads and failures
\* (alerts/drip.py, alerts/email.py, workflows/engine.py).
THEOREM SequencesAreSound == ContactSpec => []SequencesSound
  <1>1. ContactInv => SequencesSound
    BY FlowIsSound DEF ContactInv, SequencesSound, SeqInv
  <1>2. QED
    BY ContactInvariant, <1>1, PTL

\* Beside the sequences and the transitions the touches are what they are alone: the theorems
\* about Spec hold of the composition.
THEOREM TouchesRefined == ContactSpec => Spec
  <1>1. ContactInit => Init
    BY DEF ContactInit
  <1>2. [ContactNext]_all => [Next]_vars
    BY DEF ContactNext, all
  <1>3. QED
    BY <1>1, <1>2, PTL DEF ContactSpec, Spec
=============================================================================
