----------------------------- MODULE CallSlots -----------------------------
(***************************************************************************)
(* Outbound dial admission: the slots that src/backend/voice/outbound.py   *)
(* keeps in Redis (acquire, bind, renew and release are Lua scripts, so    *)
(* each is one action), the callers of call_lead, and the provider's calls *)
(* with their terminal status callbacks (outbound_webhook.py).             *)
(*                                                                         *)
(* The checks of call_lead that read the lead are not modelled: they only  *)
(* refuse.  Nor is _check_active_call, an advance look at what the acquire *)
(* script decides.  Instants are modelled by the time left to them.        *)
(***************************************************************************)
EXTENDS Integers, FiniteSets

CONSTANTS
    Lead,
    Dialer,         \* threads that run call_lead; each run has an attempt token of its own
    Call, NoCall,   \* provider call ids
    MaxConcurrent,  \* 3
    SlotTime,       \* 3600 seconds
    DialTime,       \* the timeouts between the acquire and the provider's placing the call
    CallTime,       \* longest call: VOICE_MAX_CALL_SECONDS (at most 3000) and the ringing
    Failure         \* how the answer to a dial may fail

FailureKind == {"uncertain", "disconnected"}

ASSUME SlotAssumption ==
    /\ MaxConcurrent \in Nat
    /\ SlotTime \in Nat /\ DialTime \in Nat /\ CallTime \in Nat
    /\ DialTime + CallTime < SlotTime
    /\ Failure \subseteq FailureKind
    /\ NoCall \notin Call

VARIABLES
    slot,   \* [Lead -> member of the sorted set with its owner and provider id]
    dial,   \* [Dialer -> where its call_lead stands]
    call    \* [Call -> what the provider knows of it; history: denied, its dialer
            \* has taken it for refused]

vars == <<slot, dial, call>>

NoSlot == [kind |-> "none"]
Slot == {NoSlot} \cup
        [kind : {"slot"}, left : 0 .. SlotTime, owner : Dialer, call : Call \cup {NoCall}]
Idle == [at |-> "idle"]
Dial == {Idle} \cup [at : {"holding"}, lead : Lead, left : 0 .. DialTime]
               \cup [at : {"placed", "accepted"}, lead : Lead, call : Call]
               \cup [at : {"failed"}, lead : Lead]
NoProviderCall == [status |-> "none"]
ProviderCall == {NoProviderCall} \cup
                [status : {"live", "ended"}, lead : Lead, left : 0 .. CallTime, denied : BOOLEAN]

Held(l) == slot[l].kind = "slot" /\ slot[l].left > 0
Live == {c \in Call : call[c].status = "live"}
-----------------------------------------------------------------------------
Init ==
    /\ slot = [l \in Lead |-> NoSlot]
    /\ dial = [d \in Dialer |-> Idle]
    /\ call = [c \in Call |-> NoProviderCall]

(***************************************************************************)
(* _acquire_call_slot: members that have expired go first, with owner and  *)
(* provider id.  If the reply is lost the slot is taken, and call_lead     *)
(* returns "at_capacity" all the same.                                     *)
(***************************************************************************)
\* mutant
NeverFull == FALSE
Full == Cardinality({l \in Lead : Held(l)}) >= MaxConcurrent
\* mutant
NeverBusy(l) == FALSE
Busy(l) == Held(l)

Acquire(d, l) ==
    LET kept == [m \in Lead |-> IF Held(m) THEN slot[m] ELSE NoSlot]
    IN  /\ dial[d] = Idle
        /\ \/ /\ Busy(l) \/ Full
              /\ slot' = kept
              /\ UNCHANGED dial
           \/ /\ ~Busy(l) /\ ~Full
              /\ slot' = [kept EXCEPT ![l] =
                            [kind |-> "slot", left |-> SlotTime, owner |-> d,
                             call |-> NoCall]]
              /\ \/ dial' = [dial EXCEPT ![d] =
                               [at |-> "holding", lead |-> l, left |-> DialTime]]
                 \/ UNCHANGED dial
        /\ UNCHANGED call

\* The provider receives the request of _make_call and places the call.
Place(d) ==
    /\ dial[d].at = "holding"
    /\ \E c \in Call :
        /\ call[c] = NoProviderCall
        /\ call' = [call EXCEPT ![c] = [status |-> "live", lead |-> dial[d].lead,
                                        left |-> CallTime, denied |-> FALSE]]
        /\ dial' = [dial EXCEPT ![d] = [at |-> "placed", lead |-> dial[d].lead, call |-> c]]
    /\ UNCHANGED slot

\* Suppressed by the last check, or rejected by the provider (4xx).
Reject(d) ==
    /\ dial[d].at = "holding"
    /\ dial' = [dial EXCEPT ![d] = [at |-> "failed", lead |-> dial[d].lead]]
    /\ UNCHANGED <<slot, call>>

(***************************************************************************)
(* The answer fails, before or after the provider has placed the call.     *)
(* Timeouts, network errors, server failures and answers without a valid   *)
(* call id raise ProviderCallUncertainError: the slot is kept.  A peer     *)
(* that closes the connection without answering raises httpx's             *)
(* RemoteProtocolError, which is neither a TimeoutException nor a          *)
(* NetworkError: it runs into "except Exception" and the slot is given up. *)
(***************************************************************************)
FreesSlot(f) == f = "disconnected"

LoseAnswer(d) ==
    /\ dial[d].at \in {"holding", "placed"}
    /\ \E f \in Failure :
        /\ dial' = [dial EXCEPT ![d] = IF FreesSlot(f)
                                       THEN [at |-> "failed", lead |-> dial[d].lead] ELSE Idle]
        /\ call' = IF FreesSlot(f) /\ dial[d].at = "placed"
                   THEN [call EXCEPT ![dial[d].call].denied = TRUE] ELSE call
    /\ UNCHANGED slot

Accept(d) ==
    /\ dial[d].at = "placed"
    /\ dial' = [dial EXCEPT ![d].at = "accepted"]
    /\ UNCHANGED <<slot, call>>

\* _bind_call_slot; a lost slot, or an unreachable Redis, is only logged.
Bind(d) ==
    /\ dial[d].at = "accepted"
    /\ LET l == dial[d].lead
       IN  \/ /\ slot[l].kind = "slot" /\ slot[l].owner = d
              /\ slot' = [slot EXCEPT ![l].call = dial[d].call]
           \/ UNCHANGED slot
    /\ dial' = [dial EXCEPT ![d] = Idle]
    /\ UNCHANGED call

\* _release_call_slot with the attempt token, after a dial known to have failed.
Release(d) ==
    /\ dial[d].at = "failed"
    /\ LET l == dial[d].lead
       IN  \/ /\ slot[l].kind = "slot" => slot[l].owner = d
              /\ slot' = [slot EXCEPT ![l] = NoSlot]
           \/ UNCHANGED slot
    /\ dial' = [dial EXCEPT ![d] = Idle]
    /\ UNCHANGED call

\* The process that dials dies: its slot stays until it expires.
Crash(d) ==
    /\ dial[d] # Idle
    /\ dial' = [dial EXCEPT ![d] = Idle]
    /\ UNCHANGED <<slot, call>>

\* _renew_call_slot, every 30 seconds while the call's media pipeline runs.
Renew(c) ==
    /\ call[c].status = "live"
    /\ LET l == call[c].lead
       IN  /\ Held(l) /\ slot[l].call = c
           /\ slot' = [slot EXCEPT ![l].left = SlotTime]
    /\ UNCHANGED <<dial, call>>

\* A call may end at any time: nobody answers, someone hangs up, or the
\* pipeline is cancelled because its slot could not be renewed.
End(c) ==
    /\ call[c].status = "live"
    /\ call' = [call EXCEPT ![c].status = "ended"]
    /\ UNCHANGED <<slot, dial>>

\* handle_outbound_status with a terminal status: release by the call id.  The
\* callback may overtake the bind, come late, come again, or never come.
\* mutant
ReleasesAny(c, l) == slot[l].kind = "slot"
ReleasesByCall(c, l) == slot[l].kind = "slot" /\ slot[l].call = c

Terminal(c) ==
    /\ call[c].status = "ended"
    /\ ReleasesByCall(c, call[c].lead)
    /\ slot' = [slot EXCEPT ![call[c].lead] = NoSlot]
    /\ UNCHANGED <<dial, call>>

\* Time passes for all; no call outlives CallTime, and no dial DialTime.
Decrement(n) == IF n > 0 THEN n - 1 ELSE 0

Tick ==
    /\ \E l \in Lead : slot[l] # NoSlot
    /\ \A c \in Live : call[c].left > 0
    /\ \A d \in Dialer : dial[d].at = "holding" => dial[d].left > 0
    /\ slot' = [l \in Lead |-> IF slot[l] = NoSlot THEN NoSlot
                               ELSE [slot[l] EXCEPT !.left = Decrement(@)]]
    /\ call' = [c \in Call |-> IF call[c].status = "live"
                               THEN [call[c] EXCEPT !.left = @ - 1] ELSE call[c]]
    /\ dial' = [d \in Dialer |-> IF dial[d].at = "holding"
                                 THEN [dial[d] EXCEPT !.left = @ - 1] ELSE dial[d]]

Next ==
    \/ \E d \in Dialer :
        \/ \E l \in Lead : Acquire(d, l)
        \/ Place(d) \/ Reject(d) \/ LoseAnswer(d) \/ Accept(d)
        \/ Bind(d) \/ Release(d) \/ Crash(d)
    \/ \E c \in Call : Renew(c) \/ End(c) \/ Terminal(c)
    \/ Tick

Spec == Init /\ [][Next]_vars
-----------------------------------------------------------------------------
TypeOK ==
    /\ slot \in [Lead -> Slot]
    /\ dial \in [Dialer -> Dial]
    /\ call \in [Call -> ProviderCall]

\* The live calls of which nobody was told that they were not placed.
Known == {c \in Live : ~call[c].denied}

\* Never more of them than the limit: whatever expires, crashes, is bound late,
\* reported late or taken for refused, the slots account for every one.
CapacityHeld == Cardinality(Known) <= MaxConcurrent

\* The owner of a lead is on two calls at a time only if the dialer of one took
\* it for refused.
OneCallPerLead == \A b, c \in Known : call[b].lead = call[c].lead => b = c

\* A call keeps its slot while it lives (docs/MAX-TEST-REPORT.md, "New call retains
\* its slot"): no callback or renewal of another call of its lead, a denied one
\* included, no late bind and no failing dial takes it away.
KnownCallHoldsSlot == \A c \in Known : Held(call[c].lead)

\* A call that may have been placed keeps its slot (docs/RECOVERY-TEST-REPORT.md,
\* "Lost or malformed provider acknowledgments and server failures retain the dial
\* lease"): not so when the connection is closed without an answer.
LiveCallHoldsSlot == \A c \in Live : Held(call[c].lead)
=============================================================================
