---------------------------- MODULE EmailReplies ----------------------------
(***************************************************************************)
(* A lead answers a mail of its sequence: the reply is written to the      *)
(* local journal (stage_inbound_email), which holds the sequence at once,  *)
(* and carried to PostgreSQL (apply_inbound_email), which pauses it there. *)
(* An operator who has read the replies may resume the sequence            *)
(* (review_email_resumption): first PostgreSQL, which compares the replies *)
(* it has (resume_reviewed_email), then the hold, up to the reply reviewed.*)
(*                                                                         *)
(* The module is about one lead.  Replies are numbered as the journal      *)
(* numbers them.  That the lead's address or property is changed meanwhile *)
(* is among the refusals left free.                                        *)
(***************************************************************************)
EXTENDS Integers, Sequences, FiniteSets

CONSTANTS
    Review,       \* requests of operators
    NoReview,
    Applier,      \* threads in _apply_email_resumption: a request, the recovery loop
    Mailer,       \* threads that work the sequence
    MaxAttempts,  \* 30
    MaxReplies    \* bound of the model: replies ever received

\* What the module takes of its constants; the module that instances it assumes it.
ReplyAssumption ==
    NoReview \notin Review /\ MaxAttempts \in Nat /\ MaxReplies \in Nat

VARIABLES
    replies,   \* inbound_email: [stop, applied], in the order of their rowid
    cutoff,    \* email_reply_cutoffs: through_seq, 0 without a row
    reviews,   \* [Review -> its row of email_resume_reviews]
    known,     \* email_reply_events in PostgreSQL: numbers of replies
    receipts,  \* source_command_receipts: resumptions done
    lead,      \* the lead row: email_paused, opted_out
    barred,    \* local marks: the address in email_blocks, the phone in the STOP journal
    applier,   \* [Applier -> where it stands]
    mailer,    \* [Mailer -> where it stands]
    anew       \* history: the sequence was started anew after the last reply known

vars == <<replies, cutoff, reviews, known, receipts, lead, barred, applier, mailer, anew>>
rows == <<replies, cutoff, reviews>>
remote == <<known, receipts, lead, anew>>

Marks == {"address", "phone"}
Rows == [stop : BOOLEAN, applied : BOOLEAN]
Verdict == {"applied", "requires_review"}
NoRow == [state |-> "none", through |-> 0, attempts |-> 0]
Resumption == {NoRow} \cup
    [state : {"pending"} \cup Verdict, through : 1 .. MaxReplies, attempts : 0 .. MaxAttempts]

IdleApplier == [at |-> "idle", review |-> NoReview]
IdleMailer == [at |-> "idle", since |-> 0]

Init ==
    /\ replies = <<>> /\ cutoff = 0
    /\ reviews = [r \in Review |-> NoRow]
    /\ known = {} /\ receipts = {}
    /\ lead = [paused |-> FALSE, optedOut |-> FALSE]
    /\ barred = {}
    /\ applier = [a \in Applier |-> IdleApplier]
    /\ mailer = [m \in Mailer |-> IdleMailer]
    /\ anew = FALSE
-----------------------------------------------------------------------------
\* What _email_hold_snapshot and local_lead_reply_hold read of the journal.
Numbers == DOMAIN replies
Stopped == \E i \in Numbers : replies[i].stop
Unapplied == \E i \in Numbers : ~replies[i].applied
Held == Len(replies) > cutoff
CanResume == Held /\ ~Stopped /\ ~Unapplied
PhoneStopped == "phone" \in barred
\* email_address_is_suppressed beside local_lead_phone_suppressed.  They are reads
\* of their own, but what they look for never goes away.
Suppressed == barred # {} \/ Stopped

(***************************************************************************)
(* Replies, and the other ways to stop a sequence.                         *)
(***************************************************************************)
\* stage_inbound_email; the same event again finds its row.
Receive ==
    /\ Len(replies) < MaxReplies
    /\ \E stop \in BOOLEAN : replies' = Append(replies, [stop |-> stop, applied |-> FALSE])
    /\ UNCHANGED <<cutoff, reviews, remote, barred, applier, mailer>>

\* recover_inbound_email, row by row: the transaction in PostgreSQL, whose answer
\* may be lost, and the mark in the journal.
ApplyReply(i) ==
    /\ ~replies[i].applied /\ i \notin known
    /\ known' = known \cup {i}
    /\ lead' = [paused |-> TRUE, optedOut |-> lead.optedOut \/ replies[i].stop]
    /\ anew' = FALSE
    /\ UNCHANGED <<rows, receipts, barred, applier, mailer>>

MarkReply(i) ==
    /\ ~replies[i].applied /\ i \in known
    /\ replies' = [replies EXCEPT ![i].applied = TRUE]
    /\ UNCHANGED <<cutoff, reviews, remote, barred, applier, mailer>>

\* _handle_unsubscribe, stage_delivery_events and accept_reply: the block first,
\* then perhaps the lead, where either write may fail.
BarAddress ==
    /\ barred' = barred \cup {"address"}
    /\ \/ UNCHANGED lead
       \/ \E optedOut \in {lead.optedOut, TRUE} : lead' = [paused |-> TRUE, optedOut |-> optedOut]
    /\ UNCHANGED <<rows, known, receipts, applier, mailer, anew>>

\* stage_contact_suppression: a STOP by text or on a call, and later the lead's flag.
BarPhone ==
    /\ barred' = barred \cup {"phone"}
    /\ \E optedOut \in {lead.optedOut, TRUE} : lead' = [lead EXCEPT !.optedOut = optedOut]
    /\ UNCHANGED <<rows, known, receipts, applier, mailer, anew>>

\* start_lead_drip, which resets both flags, and start_email_drip_for_lead.
StartSequence ==
    /\ \E optedOut \in {FALSE, lead.optedOut} :
          lead' = [paused |-> FALSE, optedOut |-> optedOut]
    /\ anew' = TRUE
    /\ UNCHANGED <<rows, known, receipts, barred, applier, mailer>>

(***************************************************************************)
(* Resumption.                                                             *)
(***************************************************************************)
\* The operator's view must be the present one, hence every reply so far.
RequestReview(r) ==
    /\ reviews[r].state = "none" /\ CanResume
    /\ reviews' = [reviews EXCEPT ![r] =
           [state |-> "pending", through |-> Len(replies), attempts |-> 0]]
    /\ UNCHANGED <<replies, cutoff, remote, barred, applier, mailer>>

Settle(r, state) ==
    reviews' = [reviews EXCEPT ![r].state = IF @ = "pending" THEN state ELSE @]
Changed(r) == Stopped \/ Unapplied \/ Len(replies) # reviews[r].through

\* mutant
SameAttempts(n) == n
NextAttempts(n) == n + 1

\* The first transaction: the budget, the evidence, then an attempt is counted.
\* (A row older than a day has no budget left either.)
BeginApply(a, r) ==
    /\ applier[a] = IdleApplier /\ reviews[r].state = "pending"
    /\ \/ /\ reviews[r].attempts < MaxAttempts /\ ~Changed(r)
          /\ reviews' = [reviews EXCEPT ![r].attempts = NextAttempts(@)]
          /\ applier' = [applier EXCEPT ![a] = [at |-> "checked", review |-> r]]
       \/ /\ Settle(r, "requires_review")
          /\ UNCHANGED applier
    /\ UNCHANGED <<replies, cutoff, remote, barred, mailer>>

Leave(a) == applier' = [applier EXCEPT ![a] = IdleApplier]

\* mutant
AnyEvidence(r) == TRUE
\* resume_reviewed_email compares the replies that PostgreSQL has.
SameEvidence(r) == known = 1 .. reviews[r].through

Resumable(r) == ~lead.optedOut /\ SameEvidence(r) /\ \A i \in known : ~replies[i].stop

\* Outside the transaction: a local mark is refused for good.
CheckMarks(a) ==
    /\ applier[a].at = "checked"
    /\ \/ Suppressed /\ Settle(applier[a].review, "requires_review") /\ Leave(a)
       \/ ~Suppressed /\ applier' = [applier EXCEPT ![a].at = "allowed"] /\ UNCHANGED reviews
    /\ UNCHANGED <<replies, cutoff, remote, barred, mailer>>

\* Refused for good by PostgreSQL, for what Resumable asks or for what is left free:
\* the campaign is over, a suppression_events row, another address.
Refuse(a) ==
    LET r == applier[a].review IN
    /\ applier[a].at = "allowed" /\ r \notin receipts
    /\ Settle(r, "requires_review")
    /\ Leave(a)
    /\ UNCHANGED <<replies, cutoff, remote, barred, mailer>>

\* Granted: its receipt may be there already, and its answer may be lost.
Resume(a) ==
    LET r == applier[a].review IN
    /\ applier[a].at = "allowed"
    /\ \/ r \in receipts /\ UNCHANGED remote
       \/ /\ r \notin receipts /\ Resumable(r)
          /\ lead' = [lead EXCEPT !.paused = FALSE]
          /\ receipts' = receipts \cup {r}
          /\ UNCHANGED <<known, anew>>
    /\ Leave(a) \/ applier' = [applier EXCEPT ![a].at = "answered"]
    /\ UNCHANGED <<rows, barred, mailer>>

\* The request fails without an effect, or the thread dies: the row stays pending.
FailApply(a) ==
    /\ applier[a] # IdleApplier
    /\ Leave(a)
    /\ UNCHANGED <<rows, remote, barred, mailer>>

\* mutant
ReleasesLatest(r) == Len(replies)
Releases(r) == reviews[r].through

\* The last transaction: only a row that is still pending, only on the same
\* evidence, and only up to the reply that was reviewed.  The phone is looked up
\* again, the blocked addresses are not.
Release(a) ==
    LET r == applier[a].review IN
    /\ applier[a].at = "answered"
    /\ \/ /\ reviews[r].state = "pending" /\ ~Changed(r) /\ ~PhoneStopped
          /\ cutoff' = IF cutoff > Releases(r) THEN cutoff ELSE Releases(r)
          /\ Settle(r, "applied")
       \/ /\ reviews[r].state = "pending" /\ (Changed(r) \/ PhoneStopped)
          /\ Settle(r, "requires_review") /\ UNCHANGED cutoff
       \/ reviews[r].state # "pending" /\ UNCHANGED <<reviews, cutoff>>
    /\ Leave(a)
    /\ UNCHANGED <<replies, remote, barred, mailer>>

(***************************************************************************)
(* The sequence: get_active_email_leads, send_drip_email, send_email.      *)
(***************************************************************************)
ReadLead(m) ==
    /\ mailer[m] = IdleMailer
    /\ ~lead.paused /\ ~lead.optedOut
    /\ mailer' = [mailer EXCEPT ![m].at = "read"]
    /\ UNCHANGED <<rows, remote, barred, applier>>

\* mutant
IgnoresHold == FALSE
SeesHold == Held

\* send_drip_email; since: the replies there were when the hold was looked up.
CheckHold(m) ==
    /\ mailer[m].at = "read"
    /\ mailer' = [mailer EXCEPT ![m] =
           IF SeesHold THEN IdleMailer ELSE [at |-> "clear", since |-> Len(replies)]]
    /\ UNCHANGED <<rows, remote, barred, applier>>

\* send_email
CheckStop(m) ==
    /\ mailer[m].at = "clear"
    /\ mailer' = [mailer EXCEPT ![m] =
           IF Suppressed THEN IdleMailer ELSE [@ EXCEPT !.at = "checked"]]
    /\ UNCHANGED <<rows, remote, barred, applier>>

\* MessageIntents models what this posts.
PostMail(m) ==
    /\ mailer[m].at = "checked"
    /\ mailer' = [mailer EXCEPT ![m] = IdleMailer]
    /\ UNCHANGED <<rows, remote, barred, applier>>

Next ==
    \/ Receive \/ BarAddress \/ BarPhone \/ StartSequence
    \/ \E i \in Numbers : ApplyReply(i) \/ MarkReply(i)
    \/ \E r \in Review : RequestReview(r)
    \/ \E a \in Applier :
        \/ \E r \in Review : BeginApply(a, r)
        \/ CheckMarks(a) \/ Refuse(a) \/ Resume(a) \/ FailApply(a) \/ Release(a)
    \/ \E m \in Mailer : ReadLead(m) \/ CheckHold(m) \/ CheckStop(m) \/ PostMail(m)

Spec == Init /\ [][Next]_vars

\* The recovery loop takes up the pending rows every round, and a request comes to its end.
GoOn(a) == (\E r \in Review : BeginApply(a, r)) \/ FailApply(a)
Fairness == \A a \in Applier : WF_vars(GoOn(a))
FairSpec == Spec /\ Fairness
-----------------------------------------------------------------------------
TypeOK ==
    /\ replies \in Seq(Rows) /\ Len(replies) <= MaxReplies
    /\ cutoff \in 0 .. MaxReplies
    /\ reviews \in [Review -> Resumption]
    /\ known \subseteq 1 .. MaxReplies /\ receipts \subseteq Review
    /\ lead \in [paused : BOOLEAN, optedOut : BOOLEAN]
    /\ barred \subseteq Marks /\ anew \in BOOLEAN
    /\ applier \in [Applier -> [at : {"idle", "checked", "allowed", "answered"},
                              review : Review \cup {NoReview}]]
    /\ mailer \in [Mailer -> [at : {"idle", "read", "clear", "checked"},
                            since : 0 .. MaxReplies]]

\* An operator's decision releases the replies it was made on and no other: not
\* one that came meanwhile, not one PostgreSQL has not seen, and never a STOP.
ReleasedWasReviewed ==
    \A i \in 1 .. cutoff :
        /\ i \in known /\ ~replies[i].stop
        /\ \E r \in Review : reviews[r].state = "applied" /\ reviews[r].through >= i

\* A reply that PostgreSQL knows keeps the lead paused there, unless a resumption
\* that covers it was granted or the sequence was started anew since: whichever
\* came first, the reply or the resumption of an earlier one.
KnownReplyPauses ==
    lead.paused \/ anew
    \/ \A i \in known : \E r \in receipts : reviews[r].through >= i

\* A mail of the sequence is posted only if every reply that is not released came
\* after the hold had been looked up, whatever the lead's flags say meanwhile.
NoMailPastReply ==
    \A m \in Mailer :
        mailer[m].at \in {"clear", "checked"} =>
            \A i \in Numbers : i > cutoff => i > mailer[m].since

RepliesSound == TypeOK /\ ReleasedWasReviewed /\ KnownReplyPauses /\ NoMailPastReply

\* A verdict on a review stands, although another thread is still applying it.
VerdictStands ==
    \A r \in Review : reviews[r].state \in Verdict => reviews'[r].state = reviews[r].state

\* Every review is settled, also when PostgreSQL never answers.
Decided == \A r \in Review : reviews[r].state # "pending"
ReviewsSettle == <>[]Decided
=============================================================================
