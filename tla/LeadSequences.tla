--------------------------- MODULE LeadSequences ---------------------------
(***************************************************************************)
(* The texts and mails a lead gets over the days: the two ticks of the     *)
(* scheduler (alerts/drip.py, alerts/email.py), what starts a sequence     *)
(* (the fifth speed touch, the outcome of a call, the Sophia loop) and     *)
(* what stops it (replies, STOP, dispositions, the operator).              *)
(*                                                                         *)
(* All of them read the lead row, work on what they read, and write their  *)
(* columns without looking again.  The steps of a sequence are its days;   *)
(* of a body only counts whether it is the template, the same each time,   *)
(* or a text composed anew.  One lead; time is counted in days.            *)
(***************************************************************************)
EXTENDS Integers, FiniteSets

CONSTANTS
    StepDay,      \* the days of the steps of a sequence
    LastDay,      \* the clock stops here
    Ticking,      \* the sets of channels that tick in one behaviour: their columns are disjoint
    WarmSilence, ColdSilence, MailSilence,  \* days of silence the Sophia loop waits
    MaxStarts,    \* bound: sequences started
    MaxLapses     \* bound: lost writes and lost answers

Channel == {"text", "mail"}
Never == -1

\* What the module takes of its constants; the module that instances it assumes it.
SequenceAssumption ==
    /\ Ticking \subseteq SUBSET Channel
    /\ StepDay \subseteq Nat /\ StepDay # {}
    /\ {LastDay, WarmSilence, ColdSilence, MailSilence, MaxStarts, MaxLapses} \subseteq Nat

VARIABLES
    day,        \* today
    lead,       \* the lead row: opted_out, disposition and the columns of both sequences
    ticking,    \* the channels that tick in this behaviour
    barred,     \* channels whose STOP or reply is in a local journal
    intents,    \* [Channel \X StepDay -> state of the intent of the template]
    tick,       \* [Channel -> where the tick of the scheduler stands]
    starter,    \* a thread about to start a sequence on what it has read
    lapses,     \* lost writes and answers so far
    starts,     \* sequences started so far
    posts       \* history: [Channel -> what the provider has been given]

seqVars == <<day, lead, ticking, barred, intents, tick, starter, lapses, starts, posts>>

NotStarted == [from |-> Never, step |-> Never, last |-> Never, paused |-> FALSE, done |-> FALSE]
TextedOnce == [NotStarted EXCEPT !.last = 0]
JustStarted == [NotStarted EXCEPT !.from = 0, !.last = 0]
Waiting == [at |-> "idle"]
Hold == [at |-> "idle"]

Init ==
    /\ day = 0
    /\ ticking \in Ticking
    /\ \E columns \in [Channel -> {NotStarted, TextedOnce, JustStarted}] :
          /\ \A c \in Channel : columns[c] = JustStarted <=> c \in ticking
          /\ columns["text"] # NotStarted /\ columns["mail"] # TextedOnce
          /\ lead = [out |-> FALSE, replied |-> FALSE, text |-> columns["text"],
                     mail |-> columns["mail"]]
    /\ barred = {}
    /\ intents = [c \in Channel \X StepDay |-> "none"]
    /\ tick = [c \in Channel |-> Waiting]
    /\ starter = Hold
    /\ lapses = 0 /\ starts = 0
    /\ posts = [c \in Channel |-> [templates |-> [s \in StepDay |-> 0], on |-> Never,
                                   hurried |-> 0, unsaved |-> 0, late |-> 0]]
-----------------------------------------------------------------------------
\* Texts read no column of the mails, and mails only the days of the texts: the columns that
\* nobody reads in a behaviour are not kept.
Row(l) ==
    [l EXCEPT !.mail = IF "mail" \in ticking THEN @ ELSE NotStarted,
              !.text = IF "text" \in ticking THEN @
                       ELSE [NotStarted EXCEPT !.from = l.text.from, !.last = l.text.last]]
Set(c, columns) == lead' = [lead EXCEPT ![c] = columns]

\* get_active_drip_leads and get_active_email_leads.
Active(c) == ~lead.out /\ ~lead[c].paused /\ ~lead[c].done /\ (c = "text" => lead[c].from # Never)

\* The tick takes the rows of all leads at once and works through them.
TickReads(c) ==
    /\ c \in ticking /\ tick[c] = Waiting /\ Active(c)
    /\ tick' = [tick EXCEPT ![c] = [at |-> "read", row |-> lead[c]]]
    /\ UNCHANGED <<day, lead, ticking, barred, intents, starter, lapses, starts, posts>>

Rested(row) == row.last = Never \/ day - row.last >= 1
DueSteps(row) == {s \in StepDay : s > row.step /\ day - row.from >= s}
\* mutant
AllBefore(row) == \A s \in StepDay : s < row.step
AllSent(row) == \A s \in StepDay : s <= row.step
First(steps) == CHOOSE s \in steps : \A t \in steps : s <= t

\* mutant
Unstopped(c) == c = "text" => ~lead.out
\* What send_drip_sms, send_drip_email and the calls they make ask once more.
MaySend(c) == c \notin barred /\ (c = "text" => ~lead.out)

\* A text is composed anew when it is the first or calls have left intelligence,
\* if the model answers; mails are always rendered from the template.
Bodies(c) == {"template"} \cup (IF c = "text" THEN {"composed"} ELSE {})

\* _process_lead and _process_email_lead on the row the tick has read.
Process(c) ==
    LET row == tick[c].row IN
    /\ tick[c].at = "read"
    /\ IF row.from = Never \/ ~Rested(row) \/ (DueSteps(row) = {} /\ ~AllSent(row))
       THEN tick' = [tick EXCEPT ![c] = Waiting] /\ UNCHANGED lead
       ELSE IF DueSteps(row) = {}
       THEN Set(c, [lead[c] EXCEPT !.done = TRUE]) /\ tick' = [tick EXCEPT ![c] = Waiting]
       ELSE /\ UNCHANGED lead
            /\ IF MaySend(c)
               THEN \E b \in Bodies(c) :
                      tick' = [tick EXCEPT ![c] =
                        [at |-> "cleared", step |-> First(DueSteps(row)), body |-> b]]
               ELSE tick' = [tick EXCEPT ![c] = Waiting]
    /\ UNCHANGED <<day, ticking, barred, intents, starter, lapses, starts, posts>>

\* mutant
IntentAlways(c, s) == "none"
IntentOf(c, s) == intents[<<c, s>>]

Upto2(n) == IF n > 2 THEN 2 ELSE n
\* History of a message the provider has been given, and whether its answer is lost.
Given(c, s, body, lost) ==
    LET p == posts[c] IN
    posts' = [posts EXCEPT ![c] =
        [templates |-> IF body = "template" THEN [p.templates EXCEPT ![s] = Upto2(@ + 1)]
                       ELSE p.templates,
         on |-> day,
         hurried |-> IF p.on = day THEN Upto2(p.hurried + 1) ELSE p.hurried,
         unsaved |-> Upto2(p.unsaved + lost),
         late |-> IF c \in barred THEN Upto2(p.late + 1) ELSE p.late]]

\* send_sms and send_email: a template whose intent is known is not sent again
\* and counts as sent if the provider took it; the answer may be lost.  A text
\* taken is noted in last_sms_at, a write that may fail.
Post(c) ==
    LET s == tick[c].step
        known == tick[c].body = "template" /\ IntentOf(c, s) # "none"
        Intend(state) == intents' = IF tick[c].body = "template"
                                    THEN [intents EXCEPT ![<<c, s>>] = state] ELSE intents
        Answered(at) == tick' = [tick EXCEPT ![c] = IF at = "idle" THEN Waiting
                                                    ELSE [at |-> at, step |-> s]]
    IN
    /\ tick[c].at = "cleared"
    /\ \/ /\ known
          /\ Answered(IF IntentOf(c, s) = "accepted" THEN "sent" ELSE "idle")
          /\ UNCHANGED <<lead, intents, lapses, posts>>
       \/ /\ ~known /\ Intend("accepted") /\ Given(c, s, tick[c].body, 0) /\ Answered("sent")
          /\ \/ lead' = (IF c = "text" THEN [lead EXCEPT !.text.last = day] ELSE lead)
                /\ UNCHANGED lapses
             \/ c = "text" /\ lapses < MaxLapses /\ lapses' = lapses + 1 /\ UNCHANGED lead
       \/ /\ ~known /\ lapses < MaxLapses
          /\ Intend("sending") /\ Given(c, s, tick[c].body, 1) /\ Answered("idle")
          /\ lapses' = lapses + 1 /\ UNCHANGED lead
    /\ UNCHANGED <<day, ticking, barred, starter, starts>>

\* update_lead_drip_progress and update_lead_email_progress.
Save(c) ==
    /\ tick[c].at = "sent"
    /\ tick' = [tick EXCEPT ![c] = Waiting]
    /\ \/ Set(c, [lead[c] EXCEPT !.step = tick[c].step, !.last = day]) /\ UNCHANGED <<lapses, posts>>
       \/ /\ lapses < MaxLapses /\ lapses' = lapses + 1 /\ UNCHANGED lead
          /\ posts' = [posts EXCEPT ![c].unsaved = Upto2(@ + 1)]
    /\ UNCHANGED <<day, ticking, barred, intents, starter, starts>>

TickStep(c) == TickReads(c) \/ Process(c) \/ Post(c) \/ Save(c)
-----------------------------------------------------------------------------
\* start_lead_drip: both sequences are set back, the opt-out too; the anchor of
\* the mails is not set.
StartedText ==
    [lead EXCEPT !.out = FALSE,
                 !.text = [from |-> day, step |-> Never, last |-> day, paused |-> FALSE, done |-> FALSE],
                 !.mail = [lead.mail EXCEPT !.step = Never, !.last = day, !.paused = FALSE,
                                            !.done = FALSE]]

\* start_email_drip_for_lead.
StartedMail ==
    [lead EXCEPT !.mail = [lead.mail EXCEPT !.from = day, !.step = Never, !.paused = FALSE,
                                            !.done = FALSE]]

Silent == IF lead.text.last = Never THEN LastDay + 1 ELSE day - lead.text.last

\* _decide_channel for a warm and for a cold lead, of the channels that touch a
\* sequence: the column it asks for the mails, email_drip_started_at, is one
\* nothing writes.
LoopChannel ==
    IF lead.out \/ lead.text.last = Never THEN {}
    ELSE (IF Silent >= WarmSilence THEN {"sms"} ELSE {})
         \cup (IF Silent < ColdSilence THEN {}
               ELSE IF lead.text.from = Never THEN {"restart_drip"} ELSE {"sms"})
         \cup (IF Silent >= MailSilence /\ Silent < ColdSilence THEN {"email_drip"} ELSE {})

\* _run_touch at the fifth touch, trigger_from_call_outcome and run_sophia_loop
\* read the lead, work (dial, compose, alert) and then start a sequence.
\* (An outcome starts the mails where email_day is null, which by its default it never is.)
MayStart ==
    (IF ~lead.out /\ ~lead.replied THEN {"text"} ELSE {})
    \cup (IF lead.text.from = Never THEN {"text"} ELSE {})
    \cup (IF "restart_drip" \in LoopChannel THEN {"text"} ELSE {})
    \cup (IF "email_drip" \in LoopChannel THEN {"mail"} ELSE {})

Decide ==
    /\ starter = Hold /\ starts < MaxStarts
    /\ \E c \in MayStart : starter' = [at |-> "decided", channel |-> c]
    /\ starts' = starts + 1
    /\ UNCHANGED <<day, lead, ticking, barred, intents, tick, lapses, posts>>

Start ==
    /\ starter.at = "decided"
    /\ lead' = Row(IF starter.channel = "text" THEN StartedText ELSE StartedMail)
    /\ starter' = Hold
    /\ UNCHANGED <<day, ticking, barred, intents, tick, lapses, starts, posts>>

\* The text of the Sophia loop is composed anew and noted in last_sms_at.
LoopText ==
    /\ "sms" \in LoopChannel /\ MaySend("text")
    /\ lead' = [lead EXCEPT !.text.last = day]
    /\ UNCHANGED <<day, ticking, barred, intents, tick, starter, lapses, starts, posts>>
-----------------------------------------------------------------------------
\* handle_inbound_reply: another answer than STOP pauses both sequences.
Reply ==
    /\ lead' = Row([lead EXCEPT !.text.paused = TRUE, !.mail.paused = TRUE, !.replied = TRUE])
    /\ UNCHANGED <<day, ticking, barred, intents, tick, starter, lapses, starts, posts>>

\* STOP is journalled first; the flag of the lead is a write that may fail.
Stop ==
    /\ barred' = barred \cup {"text"}
    /\ \/ lead' = Row([lead EXCEPT !.out = TRUE, !.text.paused = TRUE]) /\ UNCHANGED lapses
       \/ lapses < MaxLapses /\ lapses' = lapses + 1 /\ UNCHANGED lead
    /\ UNCHANGED <<day, ticking, intents, tick, starter, starts, posts>>

\* handle_email_reply and the journal of replies, which EmailReplies models.
MailReply ==
    /\ "mail" \in ticking
    /\ barred' = barred \cup {"mail"}
    /\ lead' = [lead EXCEPT !.mail.paused = TRUE]
    /\ UNCHANGED <<day, ticking, intents, tick, starter, lapses, starts, posts>>

\* update_lead_for_disposition: DEAD is an opt-out; COLD moves the texts past
\* their last steps.
Disposition ==
    /\ \/ lead' = Row([lead EXCEPT !.out = TRUE, !.text.paused = TRUE])
       \/ lead.text.step < LastDay /\ lead' = Row([lead EXCEPT !.text.step = LastDay])
    /\ UNCHANGED <<day, ticking, barred, intents, tick, starter, lapses, starts, posts>>

\* pause_workflow: the operator pauses the texts and leaves the mails alone.
OperatorPause ==
    /\ lead' = Row([lead EXCEPT !.text.paused = TRUE])
    /\ UNCHANGED <<day, ticking, barred, intents, tick, starter, lapses, starts, posts>>

NewDay ==
    /\ day < LastDay /\ day' = day + 1
    /\ UNCHANGED <<lead, ticking, barred, intents, tick, starter, lapses, starts, posts>>

Next ==
    \/ \E c \in Channel : TickReads(c) \/ Process(c) \/ Post(c) \/ Save(c)
    \/ Decide \/ Start \/ LoopText
    \/ Reply \/ Stop \/ MailReply \/ Disposition \/ OperatorPause \/ NewDay

Spec == Init /\ [][Next]_seqVars

\* The scheduler goes on ticking and days pass; nobody has to start, reply or stop.
Fairness == WF_seqVars(NewDay) /\ WF_seqVars(Start) /\ \A c \in Channel : WF_seqVars(TickStep(c))
FairSpec == Spec /\ Fairness
-----------------------------------------------------------------------------
Columns == [from : Never .. LastDay, step : {Never, LastDay} \cup StepDay, last : Never .. LastDay,
            paused : BOOLEAN, done : BOOLEAN]
Place ==
    {Waiting} \cup [at : {"read"}, row : Columns] \cup [at : {"sent"}, step : StepDay]
    \cup [at : {"cleared"}, step : StepDay, body : {"template", "composed"}]
Posts == [templates : [StepDay -> 0 .. 2], on : Never .. LastDay,
          hurried : 0 .. 2, unsaved : 0 .. 2, late : 0 .. 2]
TypeOK ==
    /\ day \in 0 .. LastDay /\ lapses \in 0 .. MaxLapses /\ starts \in 0 .. MaxStarts
    /\ lead \in [out : BOOLEAN, replied : BOOLEAN, text : Columns, mail : Columns]
    /\ ticking \in Ticking
    /\ barred \subseteq Channel
    /\ intents \in [Channel \X StepDay -> {"none", "sending", "accepted"}]
    /\ tick \in [Channel -> Place] /\ posts \in [Channel -> Posts]
    /\ starter \in {Hold} \cup [at : {"decided"}, channel : Channel]

\* A template reaches the provider once, however often its sequence is started
\* anew or its progress is lost.
TemplateOnce == \A c \in Channel, s \in StepDay : posts[c].templates[s] <= 1

\* After a STOP or a mailed reply is journalled at most the message already past
\* its check leaves, although a later start takes the opt-out and the pause back.
QuietAfterStop == \A c \in Channel : posts[c].late <= 1

\* The ticks send a lead at most one message of a channel a day, unless the
\* answer or the progress of the one before was lost; mails not even then.
OneADay ==
    /\ posts["text"].hurried <= posts["text"].unsaved
    /\ posts["mail"].hurried = 0

SequencesSound == TypeOK /\ TemplateOnce /\ QuietAfterStop /\ OneADay

\* A sequence comes to its end, unless somebody has stopped it or the intent of
\* a step is left without an answer, which no later tick repairs.
Ended(c) ==
    \/ lead[c].from = Never \/ lead[c].done \/ lead[c].paused \/ lead.out \/ c \in barred
    \/ \E s \in StepDay : intents[<<c, s>>] = "sending"
    \/ \E s \in StepDay : s > lead[c].step /\ day - lead[c].from < s   \* the clock has stopped
    \/ ~Rested(lead[c])
SequencesEnd == <>[](\A c \in ticking : Ended(c))
=============================================================================
