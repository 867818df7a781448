------------------------------ MODULE Messages ------------------------------
(***************************************************************************)
(* The journals of messages, mails and calls side by side: they share no   *)
(* state, so that a behaviour runs one of them, its part, and the variables*)
(* of the others are unused.                                               *)
(***************************************************************************)
EXTENDS Integers, Sequences, FiniteSets

CONSTANTS Message, Mail, Sender,                            \* MessageIntents
          Entry,  \* the rows that may be staged for a dashboard
          Target, Worker, NoWorker, LeaseTime, LifeTime, BackoffCap, ExpCap, Capacity,
          MaxSeq,                                           \* DashboardOutbox
          Reports, Reported, Success, Failure, Suppressing, Deliverer, Limit,  \* DeliveryEvents
          Review, NoReview, Applier, Mailer, MaxAttempts, MaxReplies, \* EmailReplies
          Retried, MaxRetries,             \* the same, with a retry and the sequence at work
          LastFact, Flusher, Own, NoFlusher, Life, Lease, MaxLapses,  \* CallFacts
          SilenceEnd, RenewEnd, Duration, MaxTurns          \* CallSession

VARIABLES part,
          intent, acceptance, bound, blocked, sender, smsRow, posted, reported,
          sent, accepted, stopped, fresh, tried, synced, worker, applied, projected, paused,
          replies, cutoff, reviews, known, receipts, lead, barred, applier, mailer, anew,
          verified, saved, writer, ended, row, owner, leased, backoff, life, flush, lapses, taken,
          session, shelf, loader, stream, caller, voice, told, after, memory,
          state, seq, lastSeq, due, ttl, holder, leaseLeft, attempts, job, dest, persisted, retried

intents == <<intent, acceptance, bound, blocked, sender, smsRow, posted, reported>>
events == <<sent, accepted, stopped, fresh, tried, synced, worker, applied, projected, paused>>
mails == <<replies, cutoff, reviews, known, receipts, lead, barred, applier, mailer, anew>>
facts == <<verified, saved, writer, ended, row, owner, leased, backoff, life, flush, lapses, taken>>
stages == <<session, shelf, loader, stream, caller, voice, told, after, memory>>
outbox == <<state, seq, lastSeq, due, ttl, holder, leaseLeft, attempts, job, dest,
            persisted, retried>>
all == <<part, intents, events, mails, facts, stages, outbox>>

I == INSTANCE MessageIntents
D == INSTANCE DeliveryEvents WITH intent <- sent, acceptance <- accepted, blocked <- stopped,
                                  Worker <- Deliverer, Status <- Reported

\* The reviews of one lead's replies, the attempts that each may take and the threads that
\* work the lead's sequence beside them.
E(Requests, Attempts, Threads) ==
    INSTANCE EmailReplies WITH Review <- Requests, MaxAttempts <- Attempts, Mailer <- Threads
F == INSTANCE CallFacts
S == INSTANCE CallSession
O == INSTANCE DashboardOutbox WITH accepted <- persisted, Event <- Entry

ASSUME MessagesAssumption ==
    /\ I!MessageAssumption /\ D!DeliveryAssumption
    /\ E(Review, MaxAttempts, {})!ReplyAssumption /\ E(Retried, MaxRetries, Mailer)!ReplyAssumption
    /\ F!FactAssumption /\ S!SessionAssumption
-----------------------------------------------------------------------------
Unused == "unused"
NoIntents ==
    /\ intent = Unused /\ acceptance = Unused /\ bound = Unused /\ blocked = Unused /\ sender = Unused
    /\ smsRow = Unused /\ posted = Unused /\ reported = Unused
NoEvents ==
    /\ sent = Unused /\ accepted = Unused /\ stopped = Unused /\ fresh = Unused /\ tried = Unused
    /\ synced = Unused /\ worker = Unused /\ applied = Unused /\ projected = Unused /\ paused = Unused
NoMails ==
    /\ replies = Unused /\ cutoff = Unused /\ reviews = Unused /\ known = Unused /\ receipts = Unused
    /\ lead = Unused /\ barred = Unused /\ applier = Unused /\ mailer = Unused /\ anew = Unused
NoFacts ==
    /\ verified = Unused /\ saved = Unused /\ writer = Unused /\ ended = Unused /\ row = Unused
    /\ owner = Unused /\ leased = Unused /\ backoff = Unused /\ life = Unused /\ flush = Unused
    /\ lapses = Unused /\ taken = Unused
NoStages ==
    /\ session = Unused /\ shelf = Unused /\ loader = Unused /\ stream = Unused /\ caller = Unused
    /\ voice = Unused /\ told = Unused /\ after = Unused /\ memory = Unused
NoOutbox ==
    /\ state = Unused /\ seq = Unused /\ lastSeq = Unused /\ due = Unused /\ ttl = Unused
    /\ holder = Unused /\ leaseLeft = Unused /\ attempts = Unused /\ job = Unused
    /\ dest = Unused /\ persisted = Unused /\ retried = Unused

Init ==
    \/ part = "intents" /\ I!Init /\ NoEvents /\ NoMails /\ NoFacts /\ NoStages /\ NoOutbox
    \/ part = "events" /\ D!Init /\ NoIntents /\ NoMails /\ NoFacts /\ NoStages /\ NoOutbox
    \/ /\ \/ part = "reviews" /\ E(Review, MaxAttempts, {})!Init
          \/ part = "retries" /\ E(Retried, MaxRetries, Mailer)!Init
       /\ NoIntents /\ NoEvents /\ NoFacts /\ NoStages /\ NoOutbox
    \/ part = "facts" /\ F!Init /\ NoIntents /\ NoEvents /\ NoMails /\ NoStages /\ NoOutbox
    \/ part = "session" /\ S!Init /\ NoIntents /\ NoEvents /\ NoMails /\ NoFacts /\ NoOutbox
    \/ part = "outbox" /\ O!Init /\ NoIntents /\ NoEvents /\ NoMails /\ NoFacts /\ NoStages

Next ==
    \/ part = "intents" /\ I!Next /\ UNCHANGED <<part, events, mails, facts, stages, outbox>>
    \/ part = "events" /\ D!Next /\ UNCHANGED <<part, intents, mails, facts, stages, outbox>>
    \/ /\ \/ part = "reviews" /\ E(Review, MaxAttempts, {})!Next
          \/ part = "retries" /\ E(Retried, MaxRetries, Mailer)!Next
       /\ UNCHANGED <<part, intents, events, facts, stages, outbox>>
    \/ part = "facts" /\ F!Next /\ UNCHANGED <<part, intents, events, mails, stages, outbox>>
    \/ part = "session" /\ S!Next /\ UNCHANGED <<part, intents, events, mails, facts, outbox>>
    \/ part = "outbox" /\ O!Next /\ UNCHANGED <<part, intents, events, mails, facts, stages>>

Spec == Init /\ [][Next]_all

\* The fairness of the components, each in the behaviours that run it.
Fairness ==
    /\ \A w \in Deliverer :
        /\ WF_events(part = "events" /\ D!Step(w))
        /\ SF_events(part = "events" /\ D!MarkStaged(w))
        /\ SF_events(part = "events" /\ D!ApplyAnswered(w))
        /\ SF_events(part = "events" /\ D!MarkSynced(w))
    /\ \A a \in Applier : WF_mails(\/ part = "reviews" /\ E(Review, MaxAttempts, {})!GoOn(a)
                                   \/ part = "retries" /\ E(Retried, MaxRetries, Mailer)!GoOn(a))
    /\ WF_facts(part = "facts" /\ F!Tick)
    /\ \A f \in Flusher : WF_facts(part = "facts" /\ F!Step(f))
    /\ WF_stages(part = "session" /\ S!Progress)
    /\ WF_outbox(part = "outbox" /\ O!Tick)
    /\ \A w \in Worker : WF_outbox(part = "outbox" /\ O!GoOn(w))
FairSpec == Spec /\ Fairness
-----------------------------------------------------------------------------
\* MessageIntents and DeliveryEvents: a message is sent once, reported truly and traceable, and
\* what the journal calls synced the database has (lib/db.py, recover_delivery_events).
MessagesSound == (part = "intents" => I!IntentsSound) /\ (part = "events" => D!EventsSound)

\* EmailReplies: no mail past a reply that nobody has reviewed (alerts/email.py).
RepliesSound ==
    /\ part = "reviews" => E(Review, MaxAttempts, {})!RepliesSound
    /\ part = "retries" => E(Retried, MaxRetries, Mailer)!RepliesSound

\* CallFacts and CallSession: no confirmed fact is lost, no conversation goes on that its
\* journal has not taken, and nothing is derived from a call without its row and its lead.
CallsSound == (part = "facts" => F!FactsSound) /\ (part = "session" => S!SessionSound)

\* DashboardOutbox: a row staged for one dashboard is never sent to another.
EventsStayWithTheirDestination == part = "outbox" => O!EventsStayWithTheirDestination

\* Neither the delivery status of a message nor the verdict on a review falls back.
VerdictsStand ==
    [][/\ part = "events" => D!StatusNeverFallsBack
       /\ part = "reviews" => E(Review, MaxAttempts, {})!VerdictStands
       /\ part = "retries" => E(Retried, MaxRetries, Mailer)!VerdictStands]_all

\* Every journal settles under the fairness of its loop: reports arrive, reviews are
\* decided, facts are delivered or expire, and a call that has begun ends.
JournalsSettle ==
    <>[](/\ part = "events" => D!Drained
         /\ part = "reviews" => E(Review, MaxAttempts, {})!Decided
         /\ part = "retries" => E(Retried, MaxRetries, Mailer)!Decided
         /\ part = "facts" => F!Delivered
         /\ part = "session" => S!Closed)

\* DashboardOutbox: no row stays pending, although operators may revive it again and again.
NothingWaitsForever == \A e \in Entry : []<>(part = "outbox" => state[e] # "pending")
=============================================================================
