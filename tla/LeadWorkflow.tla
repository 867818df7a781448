----------------------------- MODULE LeadWorkflow -----------------------------
(***************************************************************************)
(* The workflow state of a lead (workflows/engine.py): what the outcome of *)
(* a call and the operator make of it, the log of its transitions, the     *)
(* follow-ups and the sequence of texts that an outcome starts.            *)
(*                                                                         *)
(* A transition is three requests: the state is read, a row is logged with *)
(* it as the previous one, and the lead is written.  The outcomes of calls *)
(* and the operator's requests run in threads of their own.  The mails are *)
(* left out: an outcome starts them only where email_day is null, and the  *)
(* column is 0 by default.  One lead, whose phone is known.                *)
(***************************************************************************)
EXTENDS Integers, Sequences

CONSTANTS
    Outcome,      \* calls whose transcript is analysed, one thread each
    Request,      \* requests of the operator, one thread each
    Running,      \* the sets of threads that run in one behaviour
    MaxFailures   \* bound of the model: requests to the database that fail

\* What the module takes of its constants; the module that instances it assumes it.
WorkflowAssumption ==
    /\ Outcome \cap Request = {} /\ Running \subseteq SUBSET (Outcome \cup Request)
    /\ MaxFailures \in Nat

VARIABLES
    client,    \* of the lead row: state, texts (whether drip_started_at is set), paused
    log,       \* workflows: [state, previous, by]
    followups, \* rows an outcome has filed: [by, kind]
    told,      \* workflow events of call_events: [by, state]
    thread,
    failures,
    raced,     \* history: two transitions overlapped, or one did not end
    drips      \* history: times each thread has started the texts

workflowVars == <<client, log, followups, told, thread, failures, raced, drips>>

Disposition == {"HOT", "WARM", "COLD", "DEAD", "none"}
State == {"new_lead", "active_contact", "followup_required", "appointment_pending", "dead_lead",
          "negotiation"}
Thread == DOMAIN thread
Idle == [at |-> "idle"]
Over == [at |-> "over"]

Init ==
    /\ client = [state |-> "new_lead", texts |-> FALSE, paused |-> FALSE]
    /\ \E running \in Running : thread = [t \in running |-> Idle]
    /\ log = <<>> /\ followups = {} /\ told = {}
    /\ failures = 0 /\ raced = FALSE /\ drips = [t \in Thread |-> 0]
-----------------------------------------------------------------------------
\* DISPOSITION_STATE_MAP; interest in an appointment overrides it.
Target(interest, disposition) ==
    IF interest THEN "appointment_pending"
    ELSE CASE disposition = "HOT" -> "appointment_pending"
           [] disposition \in {"WARM", "COLD"} -> "followup_required"
           [] disposition = "DEAD" -> "dead_lead"
           [] disposition = "none" -> "active_contact"

Actionable == {"followup_required", "appointment_pending"}
Kind(state) == IF state = "appointment_pending" THEN "walkthrough" ELSE "call"

Goes(t, to) == thread' = [thread EXCEPT ![t] = to]
Moves(t, at) == Goes(t, IF at = "over" THEN Over ELSE [thread[t] EXCEPT !.at = at])
Moving(t) == thread[t].at \in {"read", "logged"}

\* The request of a thread is made, or fails: it may have been made all the same.
\* An exception ends the thread wherever nothing catches it.
Fails == failures < MaxFailures /\ failures' = failures + 1

\* What a thread is to do; the previous state is read later.
Called(target, hot, pause) ==
    [at |-> "called", target |-> target, previous |-> target, hot |-> hot, pause |-> pause]

\* A transcript has been analysed; the rest of the thread is trigger_from_call_outcome.
Analysed(t) ==
    /\ t \in Outcome /\ thread[t] = Idle
    /\ \E interest \in BOOLEAN, disposition \in Disposition, hot \in BOOLEAN :
          Goes(t, Called(Target(interest, disposition), hot, FALSE))
    /\ UNCHANGED <<client, log, followups, told, failures, raced, drips>>

\* operator_set_state and pause_workflow; of the states that no outcome gives one stands for all.
Asked(t) ==
    /\ t \in Request /\ thread[t] = Idle
    /\ \E to \in {"dead_lead", "negotiation"}, pause \in BOOLEAN :
          /\ pause => to = "dead_lead"
          /\ Goes(t, Called(to, FALSE, pause))
    /\ UNCHANGED <<client, log, followups, told, failures, raced, drips>>

\* insert_workflow_transition
ReadState(t) ==
    /\ thread[t].at = "called"
    /\ \/ Goes(t, [thread[t] EXCEPT !.at = "read", !.previous = client.state])
          /\ raced' = (raced \/ \E u \in Thread : Moving(u)) /\ UNCHANGED failures
       \/ Fails /\ Goes(t, Over) /\ UNCHANGED raced
    /\ UNCHANGED <<client, log, followups, told, drips>>

Row(t) == [state |-> thread[t].target, previous |-> thread[t].previous, by |-> t]

LogRow(t) ==
    /\ thread[t].at = "read"
    /\ \/ log' = Append(log, Row(t)) /\ Moves(t, "logged")
          /\ UNCHANGED <<failures, raced>>
       \/ Fails /\ log' \in {log, Append(log, Row(t))} /\ Goes(t, Over) /\ raced' = TRUE
    /\ UNCHANGED <<client, followups, told, drips>>

\* The event is a row of its own, whose failure emit_event swallows.
Apply(t) ==
    LET moved == [client EXCEPT !.state = thread[t].target]
    IN  /\ thread[t].at = "logged"
        /\ \/ /\ client' = moved
              /\ Moves(t, IF t \in Outcome THEN "moved"
                       ELSE IF thread[t].pause THEN "pausing" ELSE "over")
              /\ \/ told' = told \cup {[by |-> t, state |-> thread[t].target]} /\ UNCHANGED failures
                 \/ Fails /\ UNCHANGED told
              /\ UNCHANGED raced
           \/ Fails /\ client' \in {client, moved} /\ Goes(t, Over) /\ raced' = TRUE /\ UNCHANGED told
        /\ UNCHANGED <<log, followups, drips>>

\* pause_lead_drip, the last of pause_workflow.
Pause(t) ==
    /\ thread[t].at = "pausing" /\ Goes(t, Over)
    /\ \/ client' = [client EXCEPT !.paused = TRUE] /\ UNCHANGED failures
       \/ Fails /\ UNCHANGED client
    /\ UNCHANGED <<log, followups, told, raced, drips>>

FileFollowup(t) ==
    LET row == [by |-> t, kind |-> Kind(thread[t].target)]
        filed == IF thread[t].target \in Actionable THEN followups \cup {row} ELSE followups
    IN  /\ thread[t].at = "moved"
        /\ \/ followups' = filed /\ UNCHANGED failures
              /\ Moves(t, IF thread[t].hot THEN "hot" ELSE "comms")
           \/ thread[t].target \in Actionable /\ Fails /\ followups' \in {followups, filed}
              /\ Goes(t, Over)
        /\ UNCHANGED <<client, log, told, raced, drips>>

\* mutant: the lead is not asked whether its texts are under way
MayTextAgain(row) == TRUE
MayText(row) == ~ row.texts

\* A hot lead, and any that is to be followed up, gets the texts if it has none: the row is
\* read, the sequence started.  Both branches catch their exceptions.  (The opt-out that
\* start_lead_drip takes back is in LeadSequences.)
After(t) == IF thread[t].at \in {"hot", "startHot"} THEN "comms" ELSE "over"

ReadLead(t) ==
    /\ thread[t].at \in {"hot", "comms"}
    /\ Moves(t, IF ~ MayText(client) THEN After(t)
                ELSE IF thread[t].at = "hot" THEN "startHot"
                ELSE IF thread[t].target = "followup_required" THEN "start" ELSE "over")
    /\ UNCHANGED <<client, log, followups, told, failures, raced, drips>>

StartTexts(t) ==
    /\ thread[t].at \in {"startHot", "start"} /\ Moves(t, After(t))
    /\ \/ client' = [client EXCEPT !.texts = TRUE, !.paused = FALSE]
          /\ drips' = [drips EXCEPT ![t] = @ + 1] /\ UNCHANGED failures
       \/ Fails /\ UNCHANGED <<client, drips>>
    /\ UNCHANGED <<log, followups, told, raced>>

Done == (\A t \in Thread : thread[t] = Over) /\ UNCHANGED workflowVars

Next ==
    \/ \E t \in Thread :
        \/ Analysed(t) \/ Asked(t) \/ ReadState(t) \/ LogRow(t) \/ Apply(t) \/ Pause(t)
        \/ FileFollowup(t) \/ ReadLead(t) \/ StartTexts(t)
    \/ Done

Spec == Init /\ [][Next]_workflowVars
-----------------------------------------------------------------------------
TypeOK ==
    /\ client \in [state : State, texts : BOOLEAN, paused : BOOLEAN]
    /\ log \in Seq([state : State, previous : State, by : Outcome \cup Request])
    /\ followups \subseteq [by : Outcome, kind : {"call", "walkthrough"}]
    /\ told \subseteq [by : Outcome \cup Request, state : State]
    /\ failures \in 0 .. MaxFailures /\ raced \in BOOLEAN /\ drips \in [Thread -> Nat]

Logged(i) == log[i].state
BeforeRow(i) == {"new_lead"} \cup {Logged(j) : j \in 1 .. i - 1}

\* A lead never shows a state that is not in the log, nor does a row name a previous state
\* that was not; what the dashboard is told, and every follow-up, has its row too.
EverythingIsLogged ==
    /\ client.state \in BeforeRow(Len(log) + 1)
    /\ \A i \in DOMAIN log : log[i].previous \in BeforeRow(i)
    /\ \A e \in told : \E i \in DOMAIN log : log[i].by = e.by /\ log[i].state = e.state
    /\ \A f \in followups : \E i \in DOMAIN log :
          log[i].by = f.by /\ log[i].state \in Actionable /\ f.kind = Kind(log[i].state)

\* Where no two transitions overlap and none breaks off, the log is the lead's history.
LogIsHistory ==
    \/ raced
    \/ \E u \in Thread : thread[u].at = "logged"
    \/ /\ log # <<>> => client.state = Logged(Len(log))
       /\ \A i \in 2 .. Len(log) : log[i].previous = Logged(i - 1)

\* The outcome of a call files one follow-up at most, and starts the texts once at most,
\* although two of its branches may.
OnceEach ==
    /\ \A f, g \in followups : f.by = g.by => f = g
    /\ \A t \in Thread : drips[t] <= 1

WorkflowInv == TypeOK /\ EverythingIsLogged /\ LogIsHistory /\ OnceEach
=============================================================================
