--------------------------- MODULE LeadContact ---------------------------
(***************************************************************************)
(* What contacts a lead by the clock, and what starts it, side by side:    *)
(* the touches of SpeedTouches, the sequences of LeadSequences and the     *)
(* transitions of LeadWorkflow.  A behaviour runs one of them, its part,   *)
(* and leaves the others as they are.                                      *)
(***************************************************************************)
EXTENDS SpeedTouches

CONSTANTS StepDay, LastDay, Ticking, WarmSilence, ColdSilence, MailSilence, MaxStarts, MaxLapses
CONSTANTS Outcome, Request, Running, MaxFailures

VARIABLES part, day, leadRow, ticking, barred, intents, tick, starter, lapses, starts, posts
VARIABLES client, log, followups, told, thread, failures, raced, drips

sequences == <<day, leadRow, ticking, barred, intents, tick, starter, lapses, starts, posts>>
workflow == <<client, log, followups, told, thread, failures, raced, drips>>
all == <<part, vars, sequences, workflow>>

Q == INSTANCE LeadSequences WITH lead <- leadRow
F == INSTANCE LeadWorkflow

ASSUME ContactAssumption == Q!SequenceAssumption /\ F!WorkflowAssumption
-----------------------------------------------------------------------------
Unused == "unused"
NoSequences ==
    /\ day = Unused /\ leadRow = Unused /\ ticking = Unused /\ barred = Unused /\ intents = Unused
    /\ tick = Unused /\ starter = Unused /\ lapses = Unused /\ starts = Unused /\ posts = Unused

NoWorkflow ==
    /\ client = Unused /\ log = Unused /\ followups = Unused /\ told = Unused
    /\ thread = Unused /\ failures = Unused /\ raced = Unused /\ drips = Unused

ContactInit ==
    /\ Init
    /\ \/ part = "touches" /\ NoSequences /\ NoWorkflow
       \/ part = "sequences" /\ Q!Init /\ NoWorkflow
       \/ part = "workflow" /\ NoSequences /\ F!Init

ContactNext ==
    \/ part = "touches" /\ Next /\ UNCHANGED <<part, sequences, workflow>>
    \/ part = "sequences" /\ Q!Next /\ UNCHANGED <<part, vars, workflow>>
    \/ part = "workflow" /\ F!Next /\ UNCHANGED <<part, vars, sequences>>

\* The fairness of the components, each in the behaviours that run it.
ContactFairness ==
    /\ WF_vars(part = "touches" /\ Tick)
    /\ \A w \in Worker :
        /\ WF_vars(part = "touches" /\ ClaimJob(w))
        /\ WF_vars(part = "touches" /\ Step(w))
        /\ SF_vars(part = "touches" /\ Check(w))
    /\ WF_sequences(part = "sequences" /\ Q!NewDay)
    /\ WF_sequences(part = "sequences" /\ Q!Start)
    /\ \A c \in Q!Channel : WF_sequences(part = "sequences" /\ Q!TickStep(c))

ContactSpec == ContactInit /\ [][ContactNext]_all /\ ContactFairness
-----------------------------------------------------------------------------
\* LeadSequences: a template once, nothing after a STOP, one message a day (alerts/drip.py).
\* LeadWorkflow: whatever two threads do to a lead is in its log, and an outcome files one
\* follow-up and starts the texts once (workflows/engine.py).
SequencesSound ==
    /\ part = "sequences" => Q!SequencesSound
    /\ part = "workflow" => F!WorkflowInv

\* A sequence comes to its end unless it is stopped or a step is left unanswered.
SequencesEnd == <>[](part = "sequences" => \A c \in ticking : Q!Ended(c))
=============================================================================
