----------------------------- MODULE CallLedger -----------------------------
(***************************************************************************)
(* What the database learns of the calls that CallSlots places: the call   *)
(* ledger of supabase/migrations/20261012_call_recovery.sql, written by    *)
(* call_lead once it has bound the slot and by the provider's callbacks    *)
(* (voice/outbound_webhook.py), in whatever order these arrive.  The       *)
(* function record_provider_call_outcome locks the lead: one action.       *)
(*                                                                         *)
(* The slots, the dials and the provider's calls take the steps of         *)
(* CallSlots, with the record of the outcome before the slot's release.    *)
(* Outcomes stand for classes: "missed" for no-answer, busy, failed and    *)
(* canceled.  Durations (the greatest one stays) are left out.             *)
(***************************************************************************)
EXTENDS Integers, FiniteSets

CONSTANTS Lead, Dialer, Call, NoCall, MaxConcurrent, SlotTime, DialTime, CallTime, Failure

ASSUME LedgerAssumption ==
    /\ IsFiniteSet(Call) /\ NoCall \notin Call
    /\ DialTime \in Nat /\ CallTime \in Nat

VARIABLES
    slot, dial, call,  \* as in CallSlots
    unsaid,    \* accepted calls of which call_lead has yet to record "initiated"
    event,     \* [Call -> outcome of its row in provider_call_events; "none": no row]
    created,   \* [Call -> rank of the row by created_at]
    current,   \* [Lead -> last_provider_call_sid; last_called_at is its created_at]
    attempts,  \* [Lead -> call_attempts]
    announced, \* history: calls whose "initiated" was recorded
    reported   \* history: calls whose terminal status was recorded

Slots == INSTANCE CallSlots

rows == <<event, created, current, attempts>>
ledger == <<unsaid, event, created, current, attempts, announced, reported>>
vars == <<slot, dial, call, unsaid, event, created, current, attempts, announced, reported>>

Outcome == {"initiated", "answered", "missed", "voicemail"}
-----------------------------------------------------------------------------
Init ==
    /\ Slots!Init
    /\ unsaid = {}
    /\ event = [c \in Call |-> "none"]
    /\ created = [c \in Call |-> 0]
    /\ current = [l \in Lead |-> NoCall]
    /\ attempts = [l \in Lead |-> 0]
    /\ announced = {}
    /\ reported = {}

(***************************************************************************)
(* record_provider_call_outcome.  The first word of a call inserts its row *)
(* and counts the attempt.  A verdict stands, but for voicemail, which the *)
(* provider may find out late.  The lead shows another call only when that *)
(* one is announced, and no row newer than its own belongs to the present. *)
(***************************************************************************)
Recorded(c) == event[c] # "none"
\* mutant
CountsAlways(c) == TRUE
Counts(c) == ~Recorded(c)
\* mutant
LastWordWins(c, outcome) == outcome
EventOutcome(c, outcome) ==
    IF event[c] = "voicemail" \/ (event[c] \notin {"none", "initiated"} /\ outcome # "voicemail")
    THEN event[c] ELSE outcome
Rank(c) == IF Recorded(c) THEN created[c] ELSE 1 + Cardinality({d \in Call : Recorded(d)})
\* mutant
AnnouncedIsNewest(c, outcome) == outcome # "initiated"
Overtaken(c, outcome) == outcome # "initiated" \/ created[current[call[c].lead]] > Rank(c)

Record(c, outcome) ==
    LET l == call[c].lead
        other == current[l] \notin {NoCall, c}
    IN  /\ event' = [event EXCEPT ![c] = EventOutcome(c, outcome)]
        /\ created' = [created EXCEPT ![c] = Rank(c)]
        /\ attempts' = [attempts EXCEPT ![l] = IF Counts(c) THEN @ + 1 ELSE @]
        /\ current' = [current EXCEPT ![l] = IF other /\ Overtaken(c, outcome) THEN @ ELSE c]

\* call_lead up to the provider's answer, and everything else that only
\* concerns slots and calls.
Dialling ==
    /\ \/ \E d \in Dialer :
            \/ \E l \in Lead : Slots!Acquire(d, l)
            \/ Slots!Place(d) \/ Slots!Reject(d) \/ Slots!LoseAnswer(d)
            \/ Slots!Accept(d) \/ Slots!Release(d) \/ Slots!Crash(d)
       \/ \E c \in Call : Slots!Renew(c) \/ Slots!End(c)
       \/ Slots!Tick
    /\ UNCHANGED ledger

\* The call is accepted and its slot bound; call_lead goes on to the ledger.
Bind(d) ==
    /\ Slots!Bind(d)
    /\ unsaid' = unsaid \cup {dial[d].call}
    /\ UNCHANGED <<rows, announced, reported>>

\* update_lead_call_outcome(lead_id, "initiated", ...): a failure is logged
\* and not repeated; the process may also die before it.
Announce(c) ==
    /\ c \in unsaid
    /\ unsaid' = unsaid \ {c}
    /\ \/ Record(c, "initiated") /\ announced' = announced \cup {c}
       \/ UNCHANGED <<rows, announced>>
    /\ UNCHANGED <<slot, dial, call, reported>>

\* handle_outbound_answered, told that a machine has taken the call.
MachineDetected(c) ==
    /\ call[c].status \in {"live", "ended"}
    /\ Record(c, "voicemail")
    /\ UNCHANGED <<slot, dial, call, unsaid, announced, reported>>

\* handle_outbound_status with a terminal status: late, again, or never.
StatusCallback(c) ==
    /\ call[c].status = "ended"
    /\ \E outcome \in {"answered", "missed"} : Record(c, outcome)
    /\ reported' = reported \cup {c}
    /\ UNCHANGED <<slot, dial, call, unsaid, announced>>

\* Only then does the handler release the slot: if the record fails it stays.
ReleaseSlot(c) ==
    /\ c \in reported
    /\ Slots!Terminal(c)
    /\ UNCHANGED ledger

Next ==
    \/ Dialling
    \/ \E d \in Dialer : Bind(d)
    \/ \E c \in Call : Announce(c) \/ MachineDetected(c) \/ StatusCallback(c) \/ ReleaseSlot(c)

Spec == Init /\ [][Next]_vars
-----------------------------------------------------------------------------
TypeOK ==
    /\ unsaid \subseteq Call
    /\ event \in [Call -> {"none"} \cup Outcome]
    /\ created \in [Call -> 0 .. Cardinality(Call)]
    /\ current \in [Lead -> Call \cup {NoCall}]
    /\ attempts \in [Lead -> Nat]
    /\ announced \subseteq Call
    /\ reported \subseteq Call

\* "A PostgreSQL event ledger counts each provider call once"
\* (docs/RECOVERY-TEST-REPORT.md): whatever is repeated, late or missing, the
\* attempts of a lead are its calls of which the ledger has heard.
CountedOnce ==
    \A l \in Lead :
        attempts[l] = Cardinality({c \in Call : Recorded(c) /\ call[c].lead = l})

\* "... and prevents older calls overwriting the current call": the lead shows
\* no call older than one that was announced, so that the cooldown is never
\* measured from an earlier call, however late the words of the earlier come.
NewestCallStands ==
    \A c \in announced :
        /\ current[call[c].lead] # NoCall
        /\ created[c] <= created[current[call[c].lead]]

\* "... preserves terminal/voicemail outcomes": no repetition, contradiction or
\* late word of the provider changes a verdict, but to voicemail.
OutcomesStand ==
    [][\A c \in Call :
          event[c] \notin {"none", "initiated"} => event'[c] \in {event[c], "voicemail"}]_vars
=============================================================================
