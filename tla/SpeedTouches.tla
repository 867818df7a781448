---------------------------- MODULE SpeedTouches ----------------------------
(***************************************************************************)
(* The durable speed-to-lead touches: the durable_jobs table of            *)
(* src/backend/lib/db.py (stage, claim, finish, reconcile; each one SQLite *)
(* transaction, hence one action) and the workers that run                 *)
(* recover_speed_touches of src/backend/alerts/speed_to_lead.py: the       *)
(* scheduler's thread of every process and the threads that stage a lead.  *)
(*                                                                         *)
(* A lead is dialled at most once per touch, also when the worker dies or  *)
(* stalls in the middle.  Instants are modelled by the time left to them.  *)
(* The facts of a lead that others write and no property here reads        *)
(* (dnc_blocked, contact made, callable, cooldown, campaign) and the       *)
(* calling hours are free choices where the code looks at them.            *)
(***************************************************************************)
EXTENDS Integers

CONSTANTS
    Lead,
    LastTouch,   \* 5
    Worker,      \* threads that run recover_speed_touches
    NoWorker,    \* the lease column is NULL
    ClaimTime,   \* 600 seconds: an older claim is stale
    MaxDue       \* bound of the model: longest time to a touch or to next 9am

ASSUME TouchAssumption ==
    /\ LastTouch \in Nat \ {0} /\ ClaimTime \in Nat /\ MaxDue \in Nat
    /\ NoWorker \notin Worker

Touch == Lead \X (1 .. LastTouch)
LeadOf(j) == j[1]
IsLast(j) == j[2] = LastTouch

VARIABLES
    state,      \* [Touch -> absent | pending | processing | quarantined | skipped | completed]
    due,        \* time left until due
    claimLeft,  \* processing: time left until the claim is stale
    holder,     \* lease: the worker that owns the token (a worker has one at a time)
    run,        \* [Worker -> where its loop body stands]
    finished,   \* [Lead -> speed_to_lead_completed]
    optedOut,   \* [Lead -> opted_out]
    placed,     \* history: [Touch -> dials the phone provider received]
    unsure,     \* history: touches whose dial lost its acknowledgement
    reviewed    \* history: touches an operator reconciled

journal == <<state, due, claimLeft, holder>>
lead == <<finished, optedOut>>
vars == <<state, due, claimLeft, holder, run, finished, optedOut, placed, unsure, reviewed>>

Idle == [at |-> "idle"]
Settled == {"skipped", "completed", "quarantined"}
Run ==
    {Idle} \cup [at : {"claimed", "calling", "placed", "accepted", "recorded"}, touch : Touch]
           \cup [at : {"finishing"}, touch : Touch, outcome : Settled]

At(w, place) == run[w].at = place
GoTo(w, place) == run' = [run EXCEPT ![w] = [at |-> place, touch |-> run[w].touch]]
GoFinish(w, outcome) ==
    run' = [run EXCEPT ![w] = [at |-> "finishing", touch |-> run[w].touch, outcome |-> outcome]]
-----------------------------------------------------------------------------
Init ==
    /\ state = [j \in Touch |-> "absent"]
    /\ due = [j \in Touch |-> 0]
    /\ claimLeft = [j \in Touch |-> 0]
    /\ holder = [j \in Touch |-> NoWorker]
    /\ run = [w \in Worker |-> Idle]
    /\ finished = [l \in Lead |-> FALSE]
    /\ optedOut = [l \in Lead |-> FALSE]
    /\ placed = [j \in Touch |-> 0]
    /\ unsure = {}
    /\ reviewed = {}

\* stage_speed_touches: INSERT OR IGNORE of all touches of the lead, so that
\* staging a lead again changes nothing.  The first is due now; the calendar
\* times of the later ones need not ascend (next 10am may precede now + 2h).
NewTouches(l) == {j \in Touch : LeadOf(j) = l /\ state[j] = "absent"}

StageTouches(l) ==
    /\ NewTouches(l) # {}
    /\ \E schedule \in [1 .. LastTouch -> 0 .. MaxDue] :
        /\ schedule[1] = 0
        /\ due' = [j \in Touch |-> IF j \in NewTouches(l) THEN schedule[j[2]] ELSE due[j]]
    /\ state' = [j \in Touch |-> IF j \in NewTouches(l) THEN "pending" ELSE state[j]]
    /\ UNCHANGED <<claimLeft, holder, run, lead, placed, unsure, reviewed>>

(***************************************************************************)
(* claim_workflow_job: first every stale claim is quarantined (its lease   *)
(* stays in the row), then one due touch is claimed.  Which of the due     *)
(* ones is left open: a time that has run out does not tell when.          *)
(***************************************************************************)
\* mutant
StaleBecomesPending(j) == "pending"
StaleBecomes(j) == "quarantined"
\* mutant
NeverStale(j) == FALSE
Stale(j) == state[j] = "processing" /\ claimLeft[j] = 0
Due(j) == state[j] = "pending" /\ due[j] = 0

ClaimJob(w) ==
    LET swept == [j \in Touch |-> IF Stale(j) THEN StaleBecomes(j) ELSE state[j]]
    IN  /\ run[w] = Idle
        /\ \/ /\ \A j \in Touch : ~Due(j)
              /\ state' = swept
              /\ UNCHANGED <<claimLeft, holder, run>>
           \/ \E j \in Touch :
              /\ Due(j)
              /\ state' = [swept EXCEPT ![j] = "processing"]
              /\ claimLeft' = [claimLeft EXCEPT ![j] = ClaimTime]
              /\ holder' = [holder EXCEPT ![j] = w]
              /\ run' = [run EXCEPT ![w] = [at |-> "claimed", touch |-> j]]
        /\ UNCHANGED <<due, lead, placed, unsure, reviewed>>

(***************************************************************************)
(* finish_workflow_job: only under the row's own lease, and only while it  *)
(* is processing.  A refused finish changes nothing; recover_speed_touches *)
(* then tries to quarantine under the same lease, which fails as well.     *)
(***************************************************************************)
\* mutant
OwnsByLease(w, j) == holder[j] = w
Owns(w, j) == holder[j] = w /\ state[j] = "processing"

FinishJob(w, j, outcome, wait) ==
    /\ run' = [run EXCEPT ![w] = Idle]
    /\ \/ /\ ~Owns(w, j)
          /\ UNCHANGED journal
       \/ /\ Owns(w, j)
          /\ state' = [state EXCEPT ![j] = outcome]
          /\ due' = [due EXCEPT ![j] = wait]
          /\ holder' = [holder EXCEPT ![j] = NoWorker]
          /\ claimLeft' = [claimLeft EXCEPT ![j] = 0]

\* The loop body ends: the touch is settled with the outcome it has computed,
\* or quarantined if that write raises and the next one does not.
Finish(w) ==
    /\ At(w, "finishing")
    /\ \E outcome \in {run[w].outcome, "quarantined"} :
          FinishJob(w, run[w].touch, outcome, due[run[w].touch])
    /\ UNCHANGED <<lead, placed, unsure, reviewed>>

\* Outside calling hours the touch goes back, due at the next 9am.
Defer(w) ==
    /\ At(w, "claimed")
    /\ \E wait \in 1 .. MaxDue : FinishJob(w, run[w].touch, "pending", wait)
    /\ UNCHANGED <<lead, placed, unsure, reviewed>>

\* Within calling hours the lead is read, twice (here and in _run_touch), and
\* a lead that may not be dialled is skipped.  A failing read quarantines.
Check(w) ==
    /\ At(w, "claimed")
    /\ LET l == LeadOf(run[w].touch)
       IN  \/ ~optedOut[l] /\ ~finished[l] /\ GoTo(w, "calling")
           \/ GoFinish(w, "skipped")
           \/ GoFinish(w, "quarantined")
    /\ UNCHANGED <<journal, lead, placed, unsure, reviewed>>

(***************************************************************************)
(* outbound.call_lead as _run_touch uses it: any answer but success skips. *)
(* Refuse stands for every rejection before or by the phone provider.  An  *)
(* acknowledgement that is lost, or malformed, comes back as "not success" *)
(* too, whether or not the provider has placed the call.                   *)
(***************************************************************************)
\* mutant
RefusedIsCompleted(w) == "completed"
AfterRefusal(w) == "skipped"
AfterUncertain(w) == "skipped"

Refuse(w) ==
    /\ At(w, "calling")
    /\ GoFinish(w, AfterRefusal(w))
    /\ UNCHANGED <<journal, lead, placed, unsure, reviewed>>

Place(w) ==
    /\ At(w, "calling")
    /\ placed' = [placed EXCEPT ![run[w].touch] = @ + 1]
    /\ GoTo(w, "placed")
    /\ UNCHANGED <<journal, lead, unsure, reviewed>>

Accept(w) ==
    /\ At(w, "placed")
    /\ GoTo(w, "accepted")
    /\ UNCHANGED <<journal, lead, placed, unsure, reviewed>>

LoseAcknowledgement(w) ==
    /\ At(w, "calling") \/ At(w, "placed")
    /\ unsure' = unsure \cup {run[w].touch}
    /\ GoFinish(w, AfterUncertain(w))
    /\ UNCHANGED <<journal, lead, placed, reviewed>>

\* update_lead_speed_to_lead writes the flag either way: an earlier touch that
\* ends late resets it.
Record(w) ==
    /\ At(w, "accepted")
    /\ LET j == run[w].touch
       IN  /\ finished' = [finished EXCEPT ![LeadOf(j)] = IsLast(j)]
           /\ IF IsLast(j) THEN GoTo(w, "recorded") ELSE GoFinish(w, "completed")
    /\ UNCHANGED <<journal, optedOut, placed, unsure, reviewed>>

\* The last touch hands the lead to the drip: start_lead_drip.
StartDrip(w) ==
    /\ At(w, "recorded")
    /\ optedOut' = [optedOut EXCEPT ![LeadOf(run[w].touch)] = FALSE]
    /\ GoFinish(w, "completed")
    /\ UNCHANGED <<journal, finished, placed, unsure, reviewed>>

\* One of the two writes above raises.
FailWrite(w) ==
    /\ At(w, "accepted") \/ At(w, "recorded")
    /\ GoFinish(w, "quarantined")
    /\ UNCHANGED <<journal, lead, placed, unsure, reviewed>>

\* The worker dies, or its journal write fails, anywhere in the loop body.
Crash(w) ==
    /\ run[w] # Idle
    /\ run' = [run EXCEPT ![w] = Idle]
    /\ UNCHANGED <<journal, lead, placed, unsure, reviewed>>

\* reconcile_workflow_job: the operator may only skip.
Reconcile(j) ==
    /\ state[j] = "quarantined"
    /\ state' = [state EXCEPT ![j] = "skipped"]
    /\ reviewed' = reviewed \cup {j}
    /\ UNCHANGED <<due, claimLeft, holder, run, lead, placed, unsure>>

\* mark_lead_opted_out: the owner revokes consent on some other channel.
OptOut(l) ==
    /\ optedOut' = [optedOut EXCEPT ![l] = TRUE]
    /\ UNCHANGED <<journal, run, finished, placed, unsure, reviewed>>

Less(f) == [j \in Touch |-> IF f[j] > 0 THEN f[j] - 1 ELSE 0]

Tick ==
    /\ \E j \in Touch : due[j] > 0 \/ claimLeft[j] > 0
    /\ due' = Less(due)
    /\ claimLeft' = Less(claimLeft)
    /\ UNCHANGED <<state, holder, run, lead, placed, unsure, reviewed>>

Step(w) ==
    \/ Finish(w) \/ Defer(w) \/ Check(w)
    \/ Refuse(w) \/ Place(w) \/ Accept(w) \/ LoseAcknowledgement(w)
    \/ Record(w) \/ StartDrip(w) \/ FailWrite(w)

Next ==
    \/ \E l \in Lead : StageTouches(l) \/ OptOut(l)
    \/ \E w \in Worker : ClaimJob(w) \/ Step(w) \/ Crash(w)
    \/ \E j \in Touch : Reconcile(j)
    \/ Tick

Spec == Init /\ [][Next]_vars

\* The scheduler polls every 30 seconds for as long as a process lives and
\* every remote call of a loop body times out.  A deferred touch comes back
\* due at 9am, twelve hours before the window closes: a worker cannot for ever
\* claim touches only to find the window closed.
Fairness ==
    /\ WF_vars(Tick)
    /\ \A w \in Worker : /\ WF_vars(ClaimJob(w)) /\ WF_vars(Step(w))
                         /\ SF_vars(Check(w))

FairSpec == Spec /\ Fairness
-----------------------------------------------------------------------------
TypeOK ==
    /\ state \in [Touch -> {"absent", "pending", "processing"} \cup Settled]
    /\ due \in [Touch -> Nat]
    /\ claimLeft \in [Touch -> Nat]
    /\ holder \in [Touch -> Worker \cup {NoWorker}]
    /\ run \in [Worker -> Run]
    /\ finished \in [Lead -> BOOLEAN]
    /\ optedOut \in [Lead -> BOOLEAN]
    /\ placed \in [Touch -> Nat]
    /\ unsure \subseteq Touch
    /\ reviewed \subseteq Touch

\* However workers stall, die, overtake one another and are declared stale,
\* the owner's phone rings at most once for a touch.
AtMostOneDial == \A j \in Touch : placed[j] <= 1

\* A touch the journal calls completed did ring: neither a refusal nor a lost
\* acknowledgement nor the answer of a superseded worker is passed off as it.
CompletedRang == \A j \in Touch : state[j] = "completed" => placed[j] = 1

\* Quarantine is permanent but for the operator: a worker that comes back
\* after its claim went stale does not overwrite what was decided without it.
VerdictsStand ==
    [][\A j \in Touch :
          state[j] \in Settled => state'[j] = state[j] \/ j \in reviewed' \ reviewed]_vars

\* Every staged touch is settled in the end, whatever crashes: it is neither
\* deferred for ever nor stuck in the hands of a worker that is gone.
EveryTouchSettles == <>[](\A j \in Touch : state[j] \in {"absent"} \cup Settled)

\* What docs/WORKFLOW-RECOVERY-ACCEPTANCE.md promises, "permanent quarantine of
\* uncertain processing outcomes": a touch whose dial was left uncertain is
\* closed by nobody but an operator.
UncertainIsQuarantined ==
    \A j \in unsure : state[j] = "skipped" => j \in reviewed

\* What migrations/20260911_tenant_and_suppression.sql demands: an opt-out
\* survives every other write path.
RevocationSurvives == [][\A l \in Lead : optedOut[l] => optedOut'[l]]_vars
=============================================================================
