---------------------------- MODULE LeadEngagement ----------------------------
(***************************************************************************)
(* How much a lead has answered (scout/engagement.py): the points that the *)
(* nightly refresh computes and by which the campaign orders its calls.    *)
(* The refresh takes the rows of all leads at once, then reads the calls   *)
(* and the texts of each, and writes what it makes of the three reads;     *)
(* meanwhile calls, texts and bookings go on, and two replies of a lead    *)
(* may be appended to its row by two threads.  One lead; time in days.     *)
(***************************************************************************)
EXTENDS Integers, Sequences, FiniteSets, Functions

CONSTANTS
    Recent, Lately, Once,  \* the days of RECENCY_BANDS: 7, 30, 90
    LastDay,               \* the clock stops here
    Points,                \* distress_score of the lead's property
    Replier,               \* threads that handle an inbound text
    MaxContacts            \* bound of the model: what happens with the lead

\* What the module takes of its constants; the module that instances it assumes it.
EngagementAssumption ==
    /\ {Recent, Lately, Once, LastDay, MaxContacts} \subseteq Nat /\ Points \in 0 .. 100

VARIABLES
    today,
    card,      \* of the lead row: appointment, called, texted, hot, other, closed, points
    spoken,    \* rows of calls: [direction, seconds]
    inbox,     \* inbound rows of sms_messages
    replying,  \* [Replier -> append_drip_reply]
    refresh,   \* refresh_all_engagement; since: history, the points at its start
    contacts

engagementVars == <<today, card, spoken, inbox, replying, refresh, contacts>>

Never == -1
Still == [at |-> "still"]
Asleep == [at |-> "asleep"]
Direction == {"inbound", "outbound"}

Init ==
    /\ today = 0
    /\ card = [appointment |-> FALSE, called |-> Never, texted |-> Never, hot |-> 0, other |-> 0,
               closed |-> FALSE, points |-> Never]
    /\ spoken = <<>> /\ inbox = 0
    /\ replying = [r \in Replier |-> Still] /\ refresh = Asleep /\ contacts = 0
-----------------------------------------------------------------------------
(***************************************************************************)
(* The points, of a row and of the calls and texts read for it.            *)
(***************************************************************************)
\* _recency_score: a text counts only where there was no call.
Recency(row) ==
    LET last == IF row.called # Never THEN row.called ELSE row.texted
        days == today - last
    IN  IF last = Never THEN 0
        ELSE IF days <= Recent THEN 30 ELSE IF days <= Lately THEN 20
        ELSE IF days <= Once THEN 10 ELSE 2

Inbound(calls) == \E i \in DOMAIN calls : calls[i].direction = "inbound"
Lasting(calls, from) == {i \in DOMAIN calls : calls[i].direction = "outbound" /\ calls[i].seconds >= from}

\* _intensity_score
Intensity(row, calls, texts) ==
    IF row.appointment \/ Inbound(calls) THEN 40
    ELSE IF row.hot > 0 THEN 30
    ELSE IF Lasting(calls, 120) # {} THEN 20
    ELSE IF row.other > 0 \/ texts > 0 THEN 15
    ELSE IF Lasting(calls, 1) # {} THEN 10 ELSE 0

RepliesOnly(row, texts, n) == row.hot + row.other >= n
    \* mutant: the texts themselves are not counted
Answered(row, texts, n) == row.hot + row.other >= n \/ texts >= n

\* _pattern_score
Pattern(row, calls, texts) ==
    IF Inbound(calls) \/ Cardinality(Lasting(calls, 6)) >= 3 THEN 30
    ELSE IF Answered(row, texts, 2) THEN 25
    ELSE IF Lasting(calls, 6) # {} THEN 15
    ELSE IF Answered(row, texts, 1) THEN 10 ELSE 0

\* score_lead_engagement: twice the composite score, which is kept with a half.
Strength(row, calls, texts) == Intensity(row, calls, texts) + Pattern(row, calls, texts)
Composite(row, calls, texts) == Points + Recency(row) + Strength(row, calls, texts)
-----------------------------------------------------------------------------
(***************************************************************************)
(* What happens with the lead.                                             *)
(***************************************************************************)
Contact == contacts < MaxContacts /\ contacts' = contacts + 1

\* record_provider_call_outcome, of a call whose row is new.
Dialled ==
    /\ Contact /\ card' = [card EXCEPT !.called = today]
    /\ UNCHANGED <<today, spoken, inbox, replying, refresh>>

\* update_sms_contact_time
Texted ==
    /\ Contact /\ card' = [card EXCEPT !.texted = today]
    /\ UNCHANGED <<today, spoken, inbox, replying, refresh>>

\* _persist_call_result: no one gives the row its duration.
Spoke(direction) ==
    /\ Contact /\ spoken' = Append(spoken, [direction |-> direction, seconds |-> 0])
    /\ UNCHANGED <<today, card, inbox, replying, refresh>>

\* handle_inbound_reply: the text is a row of its own before it is a reply of the lead.
TextCame(r, kind) ==
    /\ Contact /\ replying[r] = Still /\ inbox' = inbox + 1
    /\ replying' = [replying EXCEPT ![r] = [at |-> "logged", kind |-> kind]]
    /\ UNCHANGED <<today, card, spoken, refresh>>

\* append_drip_reply reads the list, and writes it with one more; either may fail.
ReadReplies(r) ==
    /\ replying[r].at = "logged"
    /\ replying' = [replying EXCEPT ![r] =
           [at |-> "read", kind |-> replying[r].kind, hot |-> card.hot, other |-> card.other]]
    /\ UNCHANGED <<today, card, spoken, inbox, refresh, contacts>>

AppendReply(r) ==
    /\ replying[r].at = "read" /\ replying' = [replying EXCEPT ![r] = Still]
    /\ LET one(kind) == IF replying[r].kind = kind THEN 1 ELSE 0
       IN  card' = [card EXCEPT !.hot = replying[r].hot + one("hot"),
                                !.other = replying[r].other + one("other")]
    /\ UNCHANGED <<today, spoken, inbox, refresh, contacts>>

ReplyFails(r) ==
    /\ replying[r].at \in {"logged", "read"} /\ replying' = [replying EXCEPT ![r] = Still]
    /\ UNCHANGED <<today, card, spoken, inbox, refresh, contacts>>

Book ==
    /\ Contact /\ ~ card.appointment /\ card' = [card EXCEPT !.appointment = TRUE]
    /\ UNCHANGED <<today, spoken, inbox, replying, refresh>>

CancelBooking ==
    /\ card.appointment /\ card' = [card EXCEPT !.appointment = FALSE]
    /\ UNCHANGED <<today, spoken, inbox, replying, refresh, contacts>>

OptOut ==
    /\ ~ card.closed /\ Contact /\ card' = [card EXCEPT !.closed = TRUE]
    /\ UNCHANGED <<today, spoken, inbox, replying, refresh>>

NextDay ==
    /\ today < LastDay /\ today' = today + 1
    /\ UNCHANGED <<card, spoken, inbox, replying, refresh, contacts>>
-----------------------------------------------------------------------------
(***************************************************************************)
(* refresh_all_engagement, of which one runs at a time.                    *)
(***************************************************************************)
\* The columns that count.
Scored == {"appointment", "called", "texted", "hot", "other"}
Unbooked(row) == [row EXCEPT !.appointment = FALSE]

ReadLead ==
    /\ refresh = Asleep /\ ~ card.closed
    /\ refresh' = [at |-> "lead", row |-> Restrict(card, Scored),
                   since |-> Strength([Unbooked(card) EXCEPT !.hot = 0, !.other = 0], spoken, inbox)]
    /\ UNCHANGED <<today, card, spoken, inbox, replying, contacts>>

ReadCalls ==
    /\ refresh.at = "lead"
    /\ refresh' = [at |-> "calls", row |-> refresh.row, since |-> refresh.since, calls |-> spoken]
    /\ UNCHANGED <<today, card, spoken, inbox, replying, contacts>>

\* get_sms_for_lead, and the points of what was read: the day is that of the computation.
ReadTexts ==
    /\ refresh.at = "calls"
    /\ refresh' = [at |-> "scored", row |-> refresh.row, since |-> refresh.since,
                   strength |-> Strength(refresh.row, refresh.calls, inbox),
                   points |-> Composite(refresh.row, refresh.calls, inbox)]
    /\ UNCHANGED <<today, card, spoken, inbox, replying, contacts>>

\* update_lead_engagement_scores
SaveScores ==
    /\ refresh.at = "scored" /\ refresh' = Asleep
    /\ card' = [card EXCEPT !.points = refresh.points]
    /\ UNCHANGED <<today, spoken, inbox, replying, contacts>>

\* An error of any of its calls leaves the lead to the next night.
Skip ==
    /\ refresh # Asleep /\ refresh' = Asleep
    /\ UNCHANGED <<today, card, spoken, inbox, replying, contacts>>

\* A night on which the lead is not among those that are read.
Passed == refresh = Asleep /\ card.closed /\ UNCHANGED engagementVars

Next ==
    \/ Dialled \/ Texted \/ \E d \in Direction : Spoke(d)
    \/ \E r \in Replier :
        \/ \E kind \in {"hot", "other"} : TextCame(r, kind)
        \/ ReadReplies(r) \/ AppendReply(r) \/ ReplyFails(r)
    \/ Book \/ CancelBooking \/ OptOut \/ NextDay
    \/ ReadLead \/ ReadCalls \/ ReadTexts \/ SaveScores \/ Skip \/ Passed

Spec == Init /\ [][Next]_engagementVars
-----------------------------------------------------------------------------
TypeOK ==
    /\ today \in 0 .. LastDay /\ contacts \in 0 .. MaxContacts /\ inbox \in 0 .. MaxContacts
    /\ card \in [appointment : BOOLEAN, called : Never .. LastDay, texted : Never .. LastDay,
                 hot : 0 .. MaxContacts, other : 0 .. MaxContacts, closed : BOOLEAN,
                 points : {Never} \cup 0 .. 200]
    /\ refresh.at \in {"asleep", "lead", "calls", "scored"}

\* Replies that two threads append at the same time may lose one of them: the lead is taken
\* for no less of a correspondent, since the texts themselves are counted too.
LostRepliesCount ==
    /\ inbox >= 1 => Intensity(card, spoken, inbox) >= 15 /\ Pattern(card, spoken, inbox) >= 10
    /\ inbox >= 2 => Pattern(card, spoken, inbox) >= 25

\* What the refresh makes of three moments is not less than what calls and texts were worth
\* when it began, nor more than all that was known of the lead by its end.
ScoreIsOfItsTime ==
    refresh.at = "scored" =>
        /\ refresh.since <= refresh.strength
        /\ refresh.strength <=
               Strength([card EXCEPT !.appointment = @ \/ refresh.row.appointment,
                                     !.hot = @ + refresh.row.hot, !.other = @ + refresh.row.other],
                        spoken, inbox)

EngagementInv == TypeOK /\ LostRepliesCount /\ ScoreIsOfItsTime

\* A contact never takes points from a lead.  Only a day that passes, a booking that is
\* cancelled and a list of replies that is written with an older one do.
ContactsCount ==
    LET fewer == card'.hot < card.hot \/ card'.other < card.other
    IN  today' = today /\ (card.appointment => card'.appointment) /\ ~ fewer
            => Composite(card, spoken, inbox)' >= Composite(card, spoken, inbox)
=============================================================================
