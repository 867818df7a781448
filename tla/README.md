# A TLA+ model of Sophia's coordination

Sophia (REI-AGENT) is a real-estate voice agent: a FastAPI process that finds leads,
texts, e-mails and dials them, holds the conversation, and keeps what came of it in
Supabase (PostgreSQL), in local SQLite journals and in Redis.  What a test hardly reaches
in it is the coordination: several processes and schedulers work on the same rows, providers
answer late, twice or never, remote stores fail between two writes, processes die.  This
directory models that coordination.  TLC checks each model on small instances, and
TLAPS proves the safety properties for every value of the constants.

Paths below are relative to `src/`; `db.py` is `backend/lib/db.py`.

## 1. Inventory

| part | state it keeps | operations | hard because |
|---|---|---|---|
| Dashboard event outbox (`db.py` 1754-1893, `backend/karpathys/outbox.py`, `client.py`) | SQLite table `dashboard_events`: state, sequence, due time, expiry, lease, attempts | stage, claim (with three sweeps), send, finish, operator retry | several processes, leases that lapse during the request, ordering within a call, lost answers, another destination after a restart |
| Speed-to-lead touches (`db.py` 2208-2266, `backend/alerts/speed_to_lead.py`) | SQLite table `durable_jobs`; the lead's flags in PostgreSQL | stage five touches, claim, check, dial, record, hand over to the drip, settle, operator reconciliation | a dial must not be repeated although its outcome is unknown; stale claims; late workers |
| Outbound dial admission (`backend/voice/outbound.py`) | Redis: slots with expiry, owner, provider call id | acquire, bind, renew, release (Lua), `call_lead` around them | slots expire, processes die between dial and bind, callbacks come late or never |
| Provider call ledger (`supabase/migrations/20261012_call_recovery.sql`, `outbound.py`, `backend/voice/outbound_webhook.py`) | `provider_call_events`; the lead's present call, outcome and attempts | announcement of a dial, machine detection, terminal status | callbacks are repeated, reordered, contradictory, late |
| Follow-up and callback claims (same migration, `backend/api/main.py` 72-117, `db.py` 1487-1512) | `followups` and `leads.callback_*` with two-minute claims | file, agree on a time, claim a batch, dial row by row, settle | claims lapse while the batch waits; a new time is agreed during a dial; lost answers |
| Contact suppression (`db.py` 1896-2000, `alerts/drip.py`, `alerts/sms.py`, `voice/tools.py`) | SQLite journal of STOPs; remote `dnc_list`, `suppression_events` | stage, list, answer; check before each send; recovery loop | any request may fail before or after its effect; the owner of the phone has been told |
| Message intents and acceptances (`db.py` 2157-2189, 2935-2970; `alerts/sms.py`, `email.py`) | `message_intents`, bindings, acceptances | claim, bind, post, accept, log | one message per intent although the answer is lost or the sender dies |
| Delivery events (`db.py` 2657-2746, migration 20261020, `alerts/delivery.py`) | journal and table of provider statuses | stage, recover in batches, fold into one status | statuses out of order, repeated, contradictory, before their message is known |
| Inbound e-mail hold and reviewed resumption (`db.py` 2281-2375, 2539-2655) | replies, holds with cutoffs, resumption reviews | hold, review, apply, release | a reply that arrives during the review or the send |
| Bob call-fact outbox (`db.py` 1646-1739, `voice/processors/bob_fact_journal.py`) | SQLite journal of call facts | snapshot, journal, claim, deliver, settle | two flushers of one call, expiry, processes that die with the call |
| Price reviews (`db.py` 2097-2143, 2378-2500, migration 20261017) | `approval_requests` | request, two routes of decision, read by a call | what is approved is not what was shown; expiry; two operators |
| Appointments and source operations (migrations 20261011-20261018; `db.py` 1444-1452, 1538-1549; `voice/appointment_scheduler.py`) | offered slots, reservations, receipts of commands | offer, reserve, confirm, cancel, remind | two callers, one hour; a command sent twice; a reminder for a cancelled booking |
| RentCast budget (`db.py` 2758-2777, `comps/rentcast.py`, migration 20261031) | `rentcast_calls` | reserve, request, finish, save | a cap under concurrency, with answers that are paid and lost |
| Parcels, candidates and their scores (`scout/`, `lib/batchdata.py`, `db.py`) | `properties`, `leads`, source candidates | import, enrich, price, activate, review, score | writers that compute from an older copy |
| Lead sequences (`alerts/drip.py`, `alerts/email.py`, `alerts/sophia_loop.py`) | columns of the lead; message intents | tick, start, reply, STOP, pause | a tick works on a row it read before it was stopped or started anew |
| Workflow engine (`workflows/engine.py`, `db.py` 843-878) | `workflow_state`, its log, follow-ups | outcome of a call, operator's transition, pause | three requests per transition, any of which fails, in threads that overlap |
| Lead engagement (`scout/engagement.py`, `db.py` 346, 559) | scores of the lead, its list of replies | nightly refresh of three reads; append a reply | reads of three moments; appends that overwrite each other |
| Voice session (`voice/webhook.py`, `session.py`, `preloader.py`, `agent.py`, `silence_handler.py`) | context, stream, timers, work after the call | load, connect, turn, end, record | everything that may end a call, in any order; a step of the work after it fails |
| Voice tools (`voice/tools.py`, `execution_context.py`) | flags, packet, permissions; the operator's query | gate, act, tell | threads that are past their check when the call is stopped |
| Conversation (`voice/processors/`, `conversation_policy.py`, the trackers) | the context of one call | utterance through a chain of trackers; a goal and an instruction | a second utterance before the answer to the first; fields that several trackers write |
| Tenant scoping, compliance, contracts, QA, API routes, dashboard app | none, or their own tables | queries, formatting | little: sequential, or pure I/O |

**How the parts interact.**  Three of them start calls: the touches, the follow-up poller and
the API's own route.  All go through `call_lead`, which asks compliance and the lead, takes a
slot, asks the suppression check, dials, binds the slot and tells the ledger.  The provider's
callbacks tell the ledger, release the slot and may file a follow-up.  During a call, events are
staged in the dashboard outbox and facts in Bob's; a STOP goes to the suppression journal, a new
callback time to the lead row, a walkthrough to the reservations; a price needs a review.  After
the call its outcome goes to the workflow engine, which files follow-ups and starts a sequence;
the ticks of the sequences send through message intents, whose acceptances and reports the delivery
journal carries on, and a mailed reply holds the sequence.  Each part meets the others in a row
of a store, hardly ever in memory.

**What must be right.**  Of each part, the properties that make it correct are those in
section 3; `PROJECT.json` lists the hazards, each at the line where it bites, with the property
that would catch it or the reason why there is none.

## 2. Modules

Every module has one action per transaction, script, request or handler step.  A stored instant
is the time left to it, so that `Tick` is the clock of all, and a state graph stays finite; the
modules about days keep the day.  An operator marked `mutant` is used by no action: it is a
plausible faulty form of the definition below it, put in its place to see a property break.
A run breaks each of its properties with one mutant; of a property with several conjuncts, the
module has mutants for the others too.

### Dialling and stopping

- **DashboardOutbox** models the journal, and the recovery loops of several processes.
  `StageEvent`, `ClaimEvent`, `FinishEvent`, `RetryEvent` are the four functions of `db.py`, each
  one `BEGIN IMMEDIATE` transaction; `SendEvent` is the HTTP request between claim and finish;
  `Restart` kills a process and brings it back with any destination.  `ClaimEvent` contains the
  three sweeps (expired, other destination, dead call) and the `SELECT`, in their order.
- **CallFeed** is what the outbox promises, without leases, workers or clocks: rows are delivered
  once persisted, a call before its events, events of a call in order unless an operator revived
  one.  `DashboardOutbox` implements it under the mapping `Feed`.
- **SpeedTouches** models the jobs and the threads that run `recover_speed_touches`.
  `ClaimJob` is the claim with the quarantine of stale claims; `Defer`, `Check`, `Refuse`, `Place`,
  `Accept`, `LoseAcknowledgement`, `Record`, `StartDrip`, `FailWrite` are the steps of the loop
  body; `Finish` the fenced settlement; `Reconcile` and `OptOut` come from others.
- **CallSlots** models the Redis scripts, the threads in `call_lead`, and the calls that the
  provider has placed.  A dial's answer may be lost before or after the call is placed.
- **CallLedger** composes `CallSlots` (instance `Slots`) with
  `record_provider_call_outcome`: `Bind` hands a call to `Announce`, `StatusCallback` records and
  only then may `ReleaseSlot`, as in the handler.
- **DueClaims** models the two claiming functions (`FOR UPDATE SKIP LOCKED` makes each one
  action), the poller's batch, dialled row by row, and the two fenced settlements.  An operator
  may close a row at any time (`complete_followup`, `cancel_followup` look neither at its state nor
  at its claim), and a new callback time leaves the claim (`save_callback`) or clears it
  (`apply_source_callback`).  `call_lead` appears by what matters here: it places a call or not,
  and says so or not.
- **ContactSuppression** models the STOP handlers (text and voice), the check of a sender, and
  the recovery loop, all of whose remote requests may fail before or after their effect.
  `configured` says whether the journal exists: without it a STOP rests on the remote list alone.

### Messages and their journals

- **MessageIntents**: the senders of texts and mails.  `Claim` is `claim_message_intent`; `Bind`,
  `Post`, `Accept`, `Log` are the steps after it, and a sender may `Die` between any two.  A
  message is the content its intent is the digest of.
- **DeliveryEvents**: the webhooks that stage the reports (`Report`), the loop that stages
  acceptances and then works two batches of rows (`BeginRound` ... `MarkSynced`), and
  `apply_delivery_event` with the folding of all reports into one status (`Evidence`).
- **EmailReplies**: one lead.  `Receive` journals a reply, which holds its sequence at once;
  `ApplyReply` carries it to PostgreSQL; `RequestReview`, `BeginApply`, `CheckMarks`,
  `Resume`/`Refuse`/`FailApply`, `Release` are an operator's decision, which crosses both stores.
  `BarAddress` and `BarPhone` may come between any two of its steps: the local marks are looked up
  before PostgreSQL is asked, and only the phone's once more at the release (`db.py:2594`, `2605`).
  `ReadLead`, `CheckHold`, `CheckStop`, `PostMail` are a mail of the sequence under way meanwhile.
- **CallFacts**: the processor that journals each new snapshot of a call's confirmed facts and the
  two flushers of the journal, the call's own task and the recovery loop.

### What contacts a lead over the days

- **LeadSequences**: the two ticks (`TickReads`, `Process`, `Post`, `Save`), whatever starts a
  sequence (`Decide`, `Start`, `LoopText`) and whatever stops it.  All of them read the lead row,
  work on the copy, and write their own columns.  Time is in days.
- **LeadWorkflow**: `trigger_from_call_outcome` and `transition_state`, request by request
  (`ReadState`, `LogRow`, `Apply`, `Pause`, `FileFollowup`, `ReadLead`, `StartTexts`), each of which
  may fail, in threads that overlap.
- **LeadEngagement**: the points of `scout/engagement.py` (`Recency`, `Intensity`, `Pattern`,
  `Composite`) and the refresh that reads rows, calls and texts at three moments.

### Records

- **LeadBookings**: the offered hours, the exclusion constraint and the unique start of a
  reservation, the operator's commands with version and receipt, and the reminders.
- **PriceReviews**: one call, one tool.  A request, its decision from the list (fenced by what the
  page showed) or on the direct route (not fenced), its expiry, and the reads by which the tool
  tells a price.
- **RentcastBudget**: `reserve_rentcast_call` under two caps, and the batches that overlap, fail
  between request and settlement, or die.
- **ParcelRecords**: one parcel and its lead, written by importers, the enrichment, the listing
  scrapers, the paid estimate and the operator, each from a copy of its own.
- **DistressScore** is the arithmetic of `scout/scorer.py`, without state; **ScoredEvidence** lets
  the evidence of a parcel grow, and scores it again each time.

### The live call

- **CallSession**: from the webhook (`Inbound`, `Preload`) and the stream (`Accept`, `TakeContext` or
  `BuildContext`, `SetUp` or `FailSetUp`) over turns, silences, renewals and everything that ends a
  call, to the work after it (`Journal` ... `Analyse`), any step of which may fail.  `Connect` is the
  answer of the journal to the call's first event: the pipeline runs while it is awaited, so that
  turns, and the end of the call, may come before it; then Sophia speaks her opener or an apology
  (`agent.py:707-718`).
- **CallTools**: threads in `execute_tool`.  A tool reads the flags at four moments (`ReadFlags`,
  `ReadPacket`, ...) and then acts; meanwhile a stop phrase, the kill switch, a new packet, a
  refresh of permissions and the operator's answer come.
- **Conversation**: every frame processor of the pipeline in its order, as one action `Heard` on
  the fields of the context that they share; `Speak` is the model that reads the goal and the
  instruction, `Ask` a question of Sophia, `Book` a tool called by it.  The scores are in tenths,
  a recognised phrase is a cue.

### Compositions, instances and proofs

Four modules put several components side by side: **Messages** (the two journals of messages, the
mailed replies twice: two reviews side by side, and one review with retries beside the mails of
the sequence; the call facts, the session, the outbox of two dashboards),
**LeadContact** (touches, sequences, workflow), **Records** (the ledger with its slots, bookings,
reviews, budget, parcels, scores, engagement) and **LiveCall** (tools, conversation).  A behaviour
runs one of them, its `part`, and the variables of the others are `"unused"`.  The components of one
composition meet in few columns (the opt-out of a lead, the flags of a call), and each models by
free choices of its own what the others do to them, so that interleaving them would only multiply
the states.  Each property is guarded by its part.  A constant whose name another module of the
composition defines gets another name there (`Hour` for `Slot`, `Question` for `Review`, `Purchase`
for `Reservation`, `Distressed` for `Points`, `Reported` for `Status`, `Worth` for `Price`).  What a
component takes of its constants is named in it (`FactAssumption`, `BookingAssumption`, ...) and
assumed by the composition (`MessagesAssumption`, `ContactAssumption`, `RecordsAssumption`,
`LiveCallAssumption`).

`MC*` modules only give values to constants, and symmetry.  The same model values serve several
parts where symmetry is used (`MCRecords`: dialers are also operators, batchers and writers; calls
are also properties and houses), so that one group of permutations is sound for every part.
`*Proofs` modules hold the theorems, about the compositions themselves and not about instances.

## 3. Runs: what is checked

| run | instance | shows |
|---|---|---|
| `OutboxSafety` | a call with one event of each class, 2 workers, capacity 3 | one lease per call; the call before its events; nothing reported delivered that the dashboard has not; delivery in order; a live lease is nobody else's; the outbox implements `CallFeed` |
| `Touches` | 1 lead, 2 touches, 2 workers; a sequence of two steps over three days; two threads of the workflow; fair | one ring per touch; completed means rung; verdicts stand; every touch settles; every sequence ends.  `SequencesSound`, see below |
| `Slots` | 3 leads, 2 slots, 2 dialers, 3 calls | of the live calls that no dialer has taken for refused: within the limit; one per lead; each keeps its slot |
| `Claims` | 1 lead with 2 callback times, 1 follow-up, 2 pollers, fair | completed means dialled or closed by an operator; a closed row stays closed; an agreed time is struck only after its own call; claims exclude; abandoned rows are taken up |
| `Stops` | 1 phone, handler, sender, 2 workers, with and without journal, fair | no contact after an acknowledged STOP; recovered means recorded, for good; every journalled STOP is recovered |
| `Messages` | 1 text and 1 mail, 2 senders; 1 deliverer; 2 reviews, 2 replies; 2 snapshots, 2 flushers; 1 session; 2 dashboards; fair | a message is sent once, reported truly, bound and accepted; no status or verdict falls back; no mail past an unreviewed reply; no fact lost; no call goes on unjournalled; no payload to the wrong dashboard; every journal settles |
| `Records` | 1 lead, 2 dialers, 2 calls; 2 guests, 2 overlapping hours; 2 requests, 2 operators; 2 batches; 2 writers; facts in every order; a refresh among 2 contacts | each call counts once; an earlier call never comes back as the present one; outcomes stand but for voicemail; bookings, approvals, budget, parcels and scores are sound |
| `LiveCall` | 2 threads of tools, a stale packet in conflict; 4 utterances of 8 kinds | nothing is done after a stop or without leave; what is said is done; a stop is honoured; the model is told of the turn it answers |

The properties that bundle several statements of one module, in its words:

- `SequencesSound`: a template reaches the provider once, however often its sequence is started anew
  (`TemplateOnce`); after a journalled STOP at most the message past its check leaves, although a
  later start takes the opt-out back (`QuietAfterStop`); one message a day unless the progress of
  the one before was lost (`OneADay`).  Of the workflow: whatever two threads do, a lead shows a
  state of its log and every event and follow-up has its row (`EverythingIsLogged`); without a race
  or a failure the log is the history (`LogIsHistory`); an outcome files one follow-up and starts the
  texts once although two of its branches may (`OnceEach`).
- `MessagesSound`: `SentOnce`, `ReportedWasSent`, `SentIsTraceable`; `SyncedIsApplied`.
- `RepliesSound`: an operator releases the replies he reviewed and no other (`ReleasedWasReviewed`);
  a reply known to PostgreSQL pauses the lead there, whichever of reply and resumption came first
  (`KnownReplyPauses`); `NoMailPastReply`.
- `CallsSound`: `DeletedWasTaken`, `DeadWasExpired`, `SavedIsJournalled` of the facts; of the session:
  a call that is not about to end has every turn in the dashboard's outbox and, once it is greeted,
  the call itself (`GoesOnJournalled`): a refusal of the journal may be followed by an apology and
  by what is said before the end frame is through, and by nothing more.  Nothing is
  derived from a call without its lead, nor chunks, disposition or workflow without the call's row
  (`DerivedHasRow`); the stored context of a call
  goes with its stream (`ContextGoesWithCall`).
- `BookingsSound`: `NoDoubleBooking`, `ShownIsConfirmed`, `CommandOnce`.  `ReviewsSound`:
  `OnePending`, `DecidedOnce`, `DecidedAsShown`, `QuotedWasApproved`.  `BudgetSound`: `WithinBudget`,
  `ReservedRequests`, `RecordedWasPaid`.
- `RecordsSound`: `MaoFitsValue`, `ValueIsVouched`, `OneLead`, `ReviewedAsShown`; a
  price gives way only to a price, or to the 0 of an import that disqualifies the parcel
  (`PriceLostToVerdictOnly`): no late writer, whatever the age of its copy, loses it otherwise;
  no deal brings a parcel without a motive of its owner to the dialer (`CalledHasMotive`), a score does not depend on when the value came (`RescoreAgrees`), more
  evidence is not less motive; a lost reply costs a lead no standing (`LostRepliesCount`), a refresh
  of three moments lies between its first and its last (`ScoreIsOfItsTime`), contacts count.
- `ToolsSound`: `NothingAfterStop`, `BookedIsReserved`, `RemovedIsRemoved`, `AnswersCount`.
  `ConversationSound`: `FactIsBelieved`, `StopIsHonoured`, `ToldOfThisTurn`, `GoalFitsTheWords`.
- `JournalsSettle`: every report that can be bound arrives, every review is decided, every fact is
  delivered or expires, every call that has begun ends.

Four runs refute what a document of the repository says:

- `TouchUncertain`: a touch whose dial ended uncertain is closed as *skipped*
  (`alerts/speed_to_lead.py:81`); `docs/WORKFLOW-RECOVERY-ACCEPTANCE.md:3` promises quarantine.
- `TouchOptOut`: `start_lead_drip` (`db.py:306`) writes `opted_out` false over an opt-out that
  arrived during the touch; migration `20260911_tenant_and_suppression.sql:109-110` calls any
  such process a defect.
- `SlotsDisconnect`: a provider that closes the connection without an answer makes httpx raise
  `RemoteProtocolError`, which `_make_call` (`voice/outbound.py:149`) does not take for a lost
  acknowledgement: the slot of a call that may be ringing is released.
  `docs/RECOVERY-TEST-REPORT.md:28` says it is kept.
- `CallbackTwice`: a callback whose call was placed, but whose answer or settlement was lost, is
  due again and dialled again, past the cooldown (`api/main.py:108`);
  `docs/VOICE-REPAIR.md:109` requires "no early/duplicate dial".

**Behaviours of the code worth knowing.**  They were met while modelling.  No document promises
otherwise, so that no run refutes one; where the models have them, the properties are stated so
as to hold with them.

- *Sequences.*  A composed text whose answer is lost is composed and sent anew at the next tick
  (its intent is another); a template whose answer is lost blocks its sequence.  The Sophia loop
  reads `email_drip_started_at`, which nothing writes, and so starts the mails again and again
  (`sophia_loop.py:39`).  An outcome starts the mails only where `email_day` is null, and it is 0 by
  default (`engine.py:158`).
- *Workflow.*  A hot outcome of a lead that has said STOP starts its texts, which takes the opt-out
  back as in `TouchOptOut`.  The confirmation mail goes out with each later interested call.
- *Calls.*  The attribute that `TrustTracker` sets (`trust_tracker.py:93`) and
  `_business_refresh_task` (`agent.py:227`) are missing from the slots dataclass of the context.
  `SellerMemory.save` writes columns as they were at the call's start (`agent.py:786`).
  `set_disposition` schedules a task from a thread without a loop (`tools.py:694`).
- *Dialling.*  A callback of the provider before the bind leaves the slot to its expiry
  (`outbound.py:413`); repeated no-answer callbacks file a follow-up each
  (`outbound_webhook.py:134`); a row cancelled after the claim is dialled (`api/main.py:89`).
- *Parcels.*  A disqualified re-import writes a value of 0 over a paid one (`scorer.py:252-262`);
  scored again as viable without comparables, the parcel keeps the 0.
  A valuation that cannot be saved is paid for again (`rentcast.py:120`).
- *Bookings.*  An older confirmed reservation can be reserved again by its lead, and
  `walkthrough_state` "cancelled" is never reset.
- *Engagement.*  Nothing writes `call_duration_seconds`, and the refresh leaves `engagement_score`
  to nobody (`db.py:559`).

**Bounds.**  Times are 1 where only "has it run out" matters; each then runs out before, during
and after every step of its owner.  `CallSlots` needs `DialTime + CallTime < SlotTime` (the code:
timeouts, at most 3000 seconds of conversation, 3600 seconds of slot), hence 1, 1 and 3.  Two
workers, pollers, dialers, senders, operators or batches are enough for one to be late and the
other to have taken over; a third only repeats the part of the second.  `Slots` has one lead more
than slots, so that it fills up.  `MaxSeq`, `MaxDue`, `MaxWait`, `MaxDelay` and `LastTime` bound the
model only: rows ever inserted, the longest waits, and the times ever agreed with a lead; so do
`MaxReplies`, `MaxRetries`, `MaxStarts`, `MaxLapses`, `MaxFailures`, `MaxVersion`, `MaxTexts`, `MaxChanges`, `MaxJobs`,
`MaxFacts`, `MaxContacts`, `MaxCalls`, `MaxTurns`, `Retries`, `LastFact`, `LastDay` and `LastHalfDay`.
One start anew and one lost answer are what a sequence needs to go wrong, with two steps, of day 0
and day 1, on four days; texts and mails run in behaviours of their own, since they share the
opt-out only.  `Cap` 3 and `HardCap` 2 with three reservations make either the limit in turn of
the window.  Two reviews have one attempt
each; in a part of its own one review has two, so that a resumption whose answer was lost finds
its receipt.  Only the latter part has threads that work the sequence: who released a reply is
nothing to them.  `Limit` 1 makes the batch of the delivery loop smaller than its journal.  Fatigue comes
after 1 turn, is critical after 2 and at 2 short answers, so that four utterances pass every
threshold.  `BackoffCap` and `ExpCap` are 300 and 8 in the code; the proofs hold for any.
`Slots` and `Records` have both kinds of failed dial, the lost answer (`uncertain`) and the closed
connection (`disconnected`), which the code takes for a refusal.  The properties of `Slots` speak of
the calls that no dialer has taken for refused (`Known`), whatever happens to the others:
`SlotsDisconnect` shows that those may have no slot.  Symmetry is used in runs without liveness only.

**Fairness.**  Time passes.  A scheduler or loop that polls takes its step again and again while
its process lives, and each request ends, with an answer or a timeout.  Of crashes, restarts,
operators, producers and the contents of answers nothing is assumed.  Strong fairness is used in
four places.  *Touches*: a deferred touch comes due at nine in the morning, twelve hours before the
window closes, so a worker does not find it closed for ever.  *Stops*: a remote store that
fails at times answers each kind of request within a lease again and again.  *Messages*: the
delivery loop, which comes round every five seconds, is not struck down at the same step for ever,
nor does each of its requests fail.  *Claims*: claims are granted again and again.  In the runs of
several parts, each component's fairness is stated over its own variables and in the behaviours
that run it, and what settles is stated as `<>[]`, or `[]<>` where operators may revive a row.
Deadlock is checked in every run.

## 4. Theorems: what is proved

For any sets of events, leads, workers, dialers, calls, phones, messages, threads or packets and any
numbers that satisfy the named assumptions of the modules.  Each proof has one shape: an inductive
invariant that holds at the start, one lemma per action that keeps it, and the theorem that cites
both.  An invariant adds to the properties what makes them inductive, and in nearly all of them that
is the same thing: **what a thread holds in its hands is still true of the rows when it acts on it**,
although others have acted since.

- `DashboardOutboxProofs`: the type invariant; `LeaseExclusion`, `NoFalseDelivery`, `CallFirst`,
  `OrderedDelivery` from the inductive `DeliveryInv`; `LeaseProtects`, an action property; and
  `Refinement`, that the outbox implements `CallFeed`.  What is checked at the claim must still hold
  when the answer comes, although the lease may have lapsed and others have acted: `DeliveryInv`
  adds what a worker's job says of the remote side (`AnswerIsTrue`, `JobAnnounced`) and that a
  leased row has nothing unrevived before it (`LeasedInOrder`).
- `LeadContactProofs`, of the touches: the type invariant; `DialledOnce` and `CompletionIsTrue` from
  `DialInv`: a touch in a worker's hands carries its lease and is never open again, an open touch did
  not ring, and at each place of the loop body the number of rings is known; `QuarantineIsPermanent`.
  `TouchesRefined` carries them over to the composition.
- `LeadContactProofs`, of the sequences and the workflow: `SequencesAreSound`.  `SeqInv` says of a
  template whose intent is unknown that it was not given (`UnknownIsNotGiven`), of the one message
  past its check that only it can be late (`LateIsPastCheck`), and of the pace: who goes by a row
  that does not know of the last text has a lost answer or progress to show for it (`TextsPaced`);
  mails go in the order of their steps, and a row that counts all that were given knows the day of
  the last (`MailsPaced`), also the row a tick has read and a start has set back since.  `FlowInv`
  says what a thread at each place has logged (`LogIsKept`), filed (`FilesOnce`) and started
  (`StartsOnce`: once it has, the lead it reads again has its texts, so the second branch does
  nothing), and, unless transitions race or break off, that one thread at most is between its read
  and its write, and that what it read stands (`MovesAlone`).
- `CallSlotsProofs`: the type invariant; and, for failures of every kind, `OneCall`,
  `SlotOutlivesCall` and `CapacityRespected`, about the live calls that no dialer has taken for
  refused (`Known`).  A call whose connection was closed without an answer is none of these from
  the moment its dialer gives up (`call[c].denied`, which no guard reads); it still sends callbacks,
  and another call of its lead may be placed beside it.  `SlotInv`: every known call is covered by a
  slot that outlives it (`CallCovered`), every holder by one that outlives the call it may place
  (`HolderCovered`), a dialer past its dial that still owns the slot has placed the
  one known call of its lead (`PlacerKnows`), and one that
  gives its slot up has no known call (`FailureIsQuiet`).  Capacity follows by counting: known calls
  map one to one into held slots.
- `RecordsProofs`, of the ledger: `TypeCorrect`, `CountedCorrectly`, `NewestCall` and `VerdictsStand`
  from `LedgerInv`: the ledger knows only calls that were placed (`KnownPlaced`), a lead shows a call
  of the ledger (`CurrentHeard`), and no row ranks above the number of rows (`RanksBounded`), so that
  a new row is the newest.  They need no assumption on the slots.  `SlotsRefined`: the ledger
  implements `CallSlots`; `LedgerRefined`: the composition of the records implements the ledger; so
  that what is proved of the one holds in the other.
- `RecordsProofs`, of the records: `BookingsAreSound` (the constraints of the database make the
  property inductive as it stands, given types); `ReviewsAreSound` from `ReviewInv`: one request
  waits at most (`OneWaits`), a decision has its answer on the row, an approved price its decision
  (`ApprovalWasDecided`), and a desk past its check of a row that still waits was shown the property
  it decides on (`DesksSound`); `BudgetIsKept` from `BudgetInv`: a reservation is in one batch's
  hands (`HeldAlone`) and still open there (`HeldIsOpen`), what is saved was paid (`SavedWasPaid`),
  and the cap holds by counting the finite set of reservations in the window.
- `RecordsProofs`, of the parcels, their scores and the engagement: `RecordsAreSound`.  Of a parcel
  nothing need be known of the copies that the writers hold, however old: whatever they write
  (`Writable`) brings an estimate with its offer and trust, or the 0 of a disqualification with its
  verdict, or none of them reaches the row (`UpsertSound`), so that a price is lost to a verdict only.
  The score is a bounded sum, and monotone although one sign replaces another (`MotivationGrows`: each is worth no more than what replaces it).  `EngagedInv` bounds the replies
  of a lead: those on its row or read by a thread, with the threads that are about to write, are no
  more than the texts of the inbox (`RepliesSound`); and it keeps what the refresh has read between
  what was known before and what is known now (`RefreshSound`), since points never fall with a call
  or a text more (`StrengthGrows`).
- `DueClaimsProofs`: the type invariant; `CompletedOnlyWhenDialled` from `ClaimInv`: a poller that
  calls its dial a success has dialled the row (`SuccessWasDialled`), however late it is and whoever
  has taken the row over; an open follow-up has no owner; a stored time was agreed.  From it the
  action properties `ClosedFollowupsStay`, `CallbacksHonoured` (a settlement that strikes a
  time names it) and `ClaimsExclusive`.
- `MessagesProofs`: `MessagesAreSound`, `RepliesAreSound`, `CallsAreSound`, `DestinationsKept` and
  `VerdictsNeverFallBack`, by an invariant for each journal.  `IntentInv`: a message has one call at
  most that may post it, and its intent says how far that has come.  `EventInv`: the status of a
  message is what its evidence is judged to be (`EvidenceIsJudged`), and what a round carries was
  tried.  `ReplyInv`: a reply that is applied is known to PostgreSQL, a receipt and a thread at work
  have a review behind them, and the replies a mail was held against are there.  `FactInv`: a row,
  and what a flush has in hand, is a snapshot that there has been; what is given up has run out of
  time, and what is confirmed Bob has (`FlushIsTrue`).  `SessionInv`: until the
  pipeline runs nothing is said, told or derived (`Fresh`); from then on the journal has kept pace
  with the turns unless the call is about to end; and the stages past the call's row have that row
  and a lead.  `DestInv`: what
  a worker has claimed goes to where its process was configured to.
- `LiveCallProofs`: `ToolsAreSound` from `ToolsInv`: a thread past a check was called under a
  flag that was not raised, whatever is raised since, and past its reservation or its entry in a
  list that is there (`PlaceSound`, `PlacesStay`); one thread waits for the operator (`QuerySound`).  `ConversationIsSound` from
  `TalkInv`: every turn that still waits for its answer is sound against the context of now
  (`TurnSound`), although later utterances have rewritten it, and the scores stay within their scale
  through the chain of trackers.
- `ContactSuppressionProofs`: the type invariant; `StopIsFinal`, `RecoveryIsProven`,
  `RecoveryIsFinal` from `StopInv`: an acknowledged STOP has left a mark, in the journal or
  on the remote list, that no step removes; a sender that began later can have come no further than
  that mark lets it; a recoverer has written what its place says.

The type invariants of `DashboardOutbox`, `SpeedTouches`, `CallSlots`, `CallLedger`, `DueClaims` and
`ContactSuppression` are theorems of their own and no part of a run; those of the other modules are
conjuncts of their `...Sound` and `...Inv` properties, and proved with them.

Only model-checked: every liveness property (`EveryTouchSettles`, `SequencesEnd`,
`EveryStopIsRecovered`, `AbandonedIsTakenUp`, `JournalsSettle`, `NothingWaitsForever`), since liveness
under fairness and `ENABLED` are out of the prover's reach.  Every safety property of a passing run
is a theorem.

## 5. Not modelled, and plan

The touches, the poller and the suppression check each see `call_lead` by the answers it may give;
`CallSlots` and `CallLedger` model what is inside.  Left out of all: payload checks that only raise,
wording, logging, durations, and the second limit (bytes) of a journal next to its row limit.
Reads of a lead that only lead to a refusal are free refusals.  `Conversation` takes a phrase that
the patterns recognise as a cue; which words are recognised is not modelled, nor is what a language
model answers: it is a free choice.

Partly modelled: the source operations (the actions of `apply_source_operation` on columns no other
component reads are left out), the lead lifecycle (notes, escalations, alerts to the owner), the
voice runtime (the audio pipeline, and the profile and state modules that only phrase a prompt),
the scout (scrapers, parsers, geography).  Out of scope: tenant scoping (a filter of every query,
without state), compliance (reads only; a refusal is a free choice of the senders), contracts, QA and
evaluations (formatting, and scoring by a language model, offline), views of the dashboard, and the
schema beyond the functions that the modelled components call.

Next:

1. An abstract leased journal (a row is claimed, answered once, settled by its owner) of which
   `CallFeed`, `CallFacts` and `DeliveryEvents` are instances.
2. `SpeedTouches`, `DueClaims` and `CallSlots` in one composition through `call_lead`, with the dial
   as its interface.

## 6. Running it

    tlc -config OutboxSafety.cfg MCDashboardOutbox      # likewise the other runs of section 3
    tlapm DashboardOutboxProofs.tla                     # likewise the other proofs

| run | module | run | module |
|---|---|---|---|
| `OutboxSafety` | `MCDashboardOutbox` | `Messages` | `MCMessages` |
| `Touches` | `MCLeadContact` | `TouchUncertain`, `TouchOptOut` | `MCSpeedTouches` |
| `Slots`, `SlotsDisconnect` | `MCCallSlots` | `Stops` | `MCContactSuppression` |
| `Claims`, `CallbackTwice` | `MCDueClaims` | `Records` | `MCRecords` |
| `LiveCall` | `MCLiveCall` | | |
