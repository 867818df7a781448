----------------------------- MODULE DueClaims -----------------------------
(***************************************************************************)
(* Agreed callbacks and call follow-ups: the claiming functions of         *)
(* supabase/migrations/20261012_call_recovery.sql (each one transaction    *)
(* with FOR UPDATE SKIP LOCKED, hence one action), and the poller          *)
(* _run_pending_followups of api/main.py, which claims a batch and dials   *)
(* its rows one after the other while their claims run out.                *)
(*                                                                         *)
(* call_lead is what CallSlots and CallLedger model; here it places a call *)
(* or not, and answers success or not.  Leads here have not opted out: the *)
(* claims pass over those that have.  Instants are modelled by the time    *)
(* left to them.                                                           *)
(***************************************************************************)
EXTENDS Integers, FiniteSets

CONSTANTS
    Lead,
    Followup,       \* rows of followups ever inserted (bound of the model)
    Poller,         \* processes that run the poller; its job runs once at a time
    NoPoller,       \* the claim token is NULL
    FollowupLimit,  \* 5
    CallbackLimit,  \* 3
    ClaimTime,      \* 2 minutes
    MaxWait,        \* bound of the model: longest time to a callback or a retry
    LastTime        \* bound of the model: callback times ever agreed with a lead

ASSUME ClaimAssumption ==
    /\ NoPoller \notin Poller
    /\ FollowupLimit \in Nat /\ CallbackLimit \in Nat
    /\ ClaimTime \in Nat /\ MaxWait \in Nat /\ LastTime \in Nat

VARIABLES
    followup,  \* [Followup -> its row]
    agreed,    \* [Lead -> number of the callback time agreed last]
    callback,  \* [Lead -> callback_scheduled_at (time 0: NULL) with its claim]
    poller,    \* [Poller -> where its run stands, with the claims still to do]
    dialled,   \* history: [follow-ups and callbacks -> calls placed for it; 2: or more]
    closed     \* history: follow-ups that an operator completed or cancelled

vars == <<followup, agreed, callback, poller, dialled, closed>>

ForFollowup(f) == [kind |-> "followup", row |-> f]
ForCallback(l, t) == [kind |-> "callback", lead |-> l, time |-> t]
Item == [kind : {"followup"}, row : Followup]
            \cup [kind : {"callback"}, lead : Lead, time : 1 .. LastTime]

Followups == [state : {"absent", "pending", "processing", "completed", "cancelled"},
              holder : Poller \cup {NoPoller}, left : Nat, due : Nat]
Callbacks == [time : 0 .. LastTime, holder : Poller \cup {NoPoller}, left : Nat, due : Nat]

Idle == [at |-> "idle"]
Run == {Idle}
    \cup [at : {"followups", "callbacks"}, todo : SUBSET Item]
    \cup [at : {"dialling"}, todo : SUBSET Item, item : Item]
    \cup [at : {"dialled"}, todo : SUBSET Item, item : Item, success : BOOLEAN]

Less(n) == IF n > 0 THEN n - 1 ELSE 0
-----------------------------------------------------------------------------
Init ==
    /\ followup = [f \in Followup |-> [state |-> "absent", holder |-> NoPoller,
                                       left |-> 0, due |-> 0]]
    /\ agreed = [l \in Lead |-> 0]
    /\ callback = [l \in Lead |-> [time |-> 0, holder |-> NoPoller, left |-> 0, due |-> 0]]
    /\ poller = [p \in Poller |-> Idle]
    /\ dialled = [i \in Item |-> 0]
    /\ closed = {}

\* create_followup: promised in a conversation, filed by an operator, or the
\* retry of a missed call.  The attempt number that _schedule_retry_for_
\* disposition is given is always 0 (the provider's form has no attempt_count),
\* so that its cap never applies, and a repeated callback files one row more.
CreateFollowup(f) ==
    /\ followup[f].state = "absent"
    /\ \E wait \in 0 .. MaxWait :
          followup' = [followup EXCEPT ![f].state = "pending", ![f].due = wait]
    /\ UNCHANGED <<agreed, callback, poller, dialled, closed>>

\* complete_followup and cancel_followup, the operator's routes: whatever the
\* row's state, and without a look at its claim, which stays.
CloseFollowup(f) ==
    /\ followup[f].state # "absent"
    /\ \E verdict \in {"completed", "cancelled"} :
          followup' = [followup EXCEPT ![f].state = verdict]
    /\ closed' = closed \cup {f}
    /\ UNCHANGED <<agreed, callback, poller, dialled>>

\* save_callback and schedule_callback overwrite the time and leave the claim;
\* apply_source_callback, which takes future times only, clears it.
ScheduleCallback(l) ==
    /\ agreed[l] < LastTime
    /\ agreed' = [agreed EXCEPT ![l] = @ + 1]
    /\ \E wait \in 0 .. MaxWait :
        \/ callback' = [callback EXCEPT ![l].time = agreed[l] + 1, ![l].due = wait]
        \/ /\ wait > 0
           /\ callback' = [callback EXCEPT ![l] = [time |-> agreed[l] + 1, holder |-> NoPoller,
                                                    left |-> 0, due |-> wait]]
    /\ UNCHANGED <<followup, poller, dialled, closed>>

(***************************************************************************)
(* The claims.  One that has lapsed is taken over.  Priority and age       *)
(* decide which rows come first when the limit is exceeded: here any may.  *)
(***************************************************************************)
\* mutant
NeverLapsed(row) == FALSE
Lapsed(row) == row.left = 0
DueFollowup(row) ==
    /\ \/ row.state = "pending"
       \/ row.state = "processing" /\ Lapsed(row)
    /\ row.due = 0
DueCallback(row) ==
    /\ row.time # 0 /\ row.due = 0
    /\ row.holder = NoPoller \/ Lapsed(row)

\* What LIMIT n leaves of the set S.
Batch(S, n) ==
    {B \in SUBSET S : Cardinality(B) <= n /\ (B = S \/ Cardinality(B) = n)}

ClaimFollowups(p) ==
    /\ poller[p] = Idle
    /\ \E B \in Batch({f \in Followup : DueFollowup(followup[f])}, FollowupLimit) :
        /\ followup' = [f \in Followup |->
               IF f \in B THEN [followup[f] EXCEPT !.state = "processing", !.holder = p,
                                                   !.left = ClaimTime]
               ELSE followup[f]]
        /\ poller' = [poller EXCEPT ![p] = [at |-> "followups",
                                            todo |-> {ForFollowup(f) : f \in B}]]
    /\ UNCHANGED <<agreed, callback, dialled, closed>>

\* After the follow-ups come the callbacks.
FollowupsDone(p) == poller[p] = [at |-> "followups", todo |-> {}]

ClaimCallbacks(p) ==
    /\ FollowupsDone(p)
    /\ \E B \in Batch({l \in Lead : DueCallback(callback[l])}, CallbackLimit) :
        /\ callback' = [l \in Lead |->
               IF l \in B THEN [callback[l] EXCEPT !.holder = p, !.left = ClaimTime]
               ELSE callback[l]]
        /\ poller' = [poller EXCEPT ![p] =
               [at |-> "callbacks", todo |-> {ForCallback(l, callback[l].time) : l \in B}]]
    /\ UNCHANGED <<followup, agreed, dialled, closed>>

\* The request fails: that batch is empty, the run goes on.
FailClaim(p) ==
    /\ \/ /\ poller[p] = Idle
          /\ poller' = [poller EXCEPT ![p] = [at |-> "followups", todo |-> {}]]
       \/ /\ FollowupsDone(p)
          /\ poller' = [poller EXCEPT ![p] = [at |-> "callbacks", todo |-> {}]]
    /\ UNCHANGED <<followup, agreed, callback, dialled, closed>>

EndRun(p) ==
    /\ poller[p] = [at |-> "callbacks", todo |-> {}]
    /\ poller' = [poller EXCEPT ![p] = Idle]
    /\ UNCHANGED <<followup, agreed, callback, dialled, closed>>

(***************************************************************************)
(* The batch, row by row: call_lead reads the lead and may refuse, surely  *)
(* so before an agreed time (callback_not_due).  Then it dials; a call may *)
(* have been placed though its answer is lost, or refused.                 *)
(***************************************************************************)
MayDial(i) ==
    i.kind = "callback" => (callback[i.lead].time # 0 => callback[i.lead].due = 0)

Dialled(p, todo, item, success) ==
    poller' = [poller EXCEPT ![p] = [at |-> "dialled", todo |-> todo, item |-> item,
                                     success |-> success]]

StartDial(p) ==
    /\ poller[p].at \in {"followups", "callbacks"}
    /\ \E i \in poller[p].todo :
        \/ Dialled(p, poller[p].todo \ {i}, i, FALSE)
        \/ /\ MayDial(i)
           /\ poller' = [poller EXCEPT ![p] = [at |-> "dialling", todo |-> @.todo \ {i},
                                               item |-> i]]
    /\ UNCHANGED <<followup, agreed, callback, dialled, closed>>

\* mutant
SucceedsAnyway(success, placed) == TRUE
Answers(success, placed) == success => placed
Dial(p) ==
    /\ poller[p].at = "dialling"
    /\ \E success \in BOOLEAN, placed \in BOOLEAN :
        /\ Answers(success, placed)
        /\ dialled' = [dialled EXCEPT ![poller[p].item] = IF placed /\ @ < 2 THEN @ + 1 ELSE @]
        /\ Dialled(p, poller[p].todo, poller[p].item, success)
    /\ UNCHANGED <<followup, agreed, callback, closed>>

(***************************************************************************)
(* finish_followup_claim and finish_callback_claim: only for the owner of  *)
(* the claim, however late, and only while the callback's time is still    *)
(* the one that was claimed.  The request may fail, which is only logged.  *)
(***************************************************************************)
\* mutant
OwnsByToken(p, f) == followup[f].holder = p
\* mutant
OwnsAnyFollowup(p, f) == followup[f].state = "processing"
OwnsFollowup(p, f) == followup[f].state = "processing" /\ followup[f].holder = p
\* mutant
OwnsAnyTime(p, i) == callback[i.lead].holder = p
OwnsCallback(p, i) == callback[i.lead].holder = p /\ callback[i.lead].time = i.time

FinishClaim(p, i, success) ==
    \/ /\ i.kind = "followup" /\ OwnsFollowup(p, i.row)
       /\ followup' = [followup EXCEPT ![i.row] =
              [@ EXCEPT !.state = IF success THEN "completed" ELSE "pending",
                        !.holder = NoPoller, !.left = 0]]
       /\ UNCHANGED callback
    \/ /\ i.kind = "callback" /\ OwnsCallback(p, i)
       /\ callback' = [callback EXCEPT ![i.lead] =
              [@ EXCEPT !.time = IF success THEN 0 ELSE callback[i.lead].time,
                        !.holder = NoPoller, !.left = 0]]
       /\ UNCHANGED followup
    \/ UNCHANGED <<followup, callback>>

Finish(p) ==
    /\ poller[p].at = "dialled"
    /\ FinishClaim(p, poller[p].item, poller[p].success)
    /\ poller' = [poller EXCEPT ![p] =
           [at |-> IF @.item.kind = "followup" THEN "followups" ELSE "callbacks",
            todo |-> @.todo]]
    /\ UNCHANGED <<agreed, dialled, closed>>

\* The process dies and comes back: its claims stay until they lapse.
Crash(p) ==
    /\ poller[p] # Idle
    /\ poller' = [poller EXCEPT ![p] = Idle]
    /\ UNCHANGED <<followup, agreed, callback, dialled, closed>>

Tick ==
    /\ \/ \E f \in Followup : followup[f].due + followup[f].left > 0
       \/ \E l \in Lead : callback[l].due + callback[l].left > 0
    /\ followup' = [f \in Followup |->
           [followup[f] EXCEPT !.due = Less(@), !.left = Less(@)]]
    /\ callback' = [l \in Lead |-> [callback[l] EXCEPT !.due = Less(@), !.left = Less(@)]]
    /\ UNCHANGED <<agreed, poller, dialled, closed>>

Step(p) == EndRun(p) \/ StartDial(p) \/ Dial(p) \/ Finish(p)

Next ==
    \/ \E f \in Followup : CreateFollowup(f) \/ CloseFollowup(f)
    \/ \E l \in Lead : ScheduleCallback(l)
    \/ \E p \in Poller :
          ClaimFollowups(p) \/ ClaimCallbacks(p) \/ FailClaim(p) \/ Step(p) \/ Crash(p)
    \/ Tick

Spec == Init /\ [][Next]_vars

\* The poller runs every half hour, each of its requests ends, and the database
\* again and again grants a claim.  The campaign is not paused for ever.
Fairness ==
    /\ WF_vars(Tick)
    /\ \A p \in Poller :
        /\ WF_vars(Step(p)) /\ WF_vars(FailClaim(p))
        /\ SF_vars(ClaimFollowups(p))

FairSpec == Spec /\ Fairness
-----------------------------------------------------------------------------
TypeOK ==
    /\ followup \in [Followup -> Followups]
    /\ agreed \in [Lead -> 0 .. LastTime]
    /\ callback \in [Lead -> Callbacks]
    /\ poller \in [Poller -> Run]
    /\ dialled \in [Item -> 0 .. 2]
    /\ closed \subseteq Followup

\* A follow-up is completed only by a call that was placed for it or by an
\* operator, whatever answers get lost and whichever poller settles it.
CompletedWasDialled ==
    \A f \in Followup :
        followup[f].state = "completed" => dialled[ForFollowup(f)] > 0 \/ f \in closed

\* What is completed or cancelled stays so: a poller that was dialling the row
\* when the operator closed it, and failed, does not put it back.
ClosedStaysClosed ==
    [][\A f \in Followup :
          followup[f].state \in {"completed", "cancelled"}
            => followup'[f].state \in {"completed", "cancelled"}]_vars

\* An agreed time is struck from the lead only after a call was placed for it:
\* a time that is agreed while an earlier one is being dialled stands.
CallbacksAreHonoured ==
    [][\A l \in Lead :
          callback[l].time # 0 /\ callback'[l].time = 0
            => dialled[ForCallback(l, callback[l].time)] > 0]_vars

\* "An expired worker cannot clear a newer claim" (docs/RECOVERY-TEST-REPORT.md):
\* within its claim's time nobody settles or takes a row but its owner; only a
\* new time for a callback may end its claim.
ClaimsAreExclusive ==
    [][\A p \in Poller :
          poller'[p] = poller[p] =>
            /\ \A f \in Followup :
                  followup[f].holder = p /\ ~Lapsed(followup[f]) => followup'[f].holder = p
            /\ \A l \in Lead :
                  /\ callback[l].holder = p /\ ~Lapsed(callback[l])
                  /\ callback'[l].time = callback[l].time
                  => callback'[l].holder = p]_vars

\* p's run has yet to settle item i.
Working(p, i) ==
    /\ poller[p] # Idle
    /\ i \in poller[p].todo \/ (poller[p].at \in {"dialling", "dialled"} /\ poller[p].item = i)
Abandoned(f) ==
    /\ followup[f].state = "processing"
    /\ ~Working(followup[f].holder, ForFollowup(f))

\* A follow-up whose poller has died, or has failed to settle it, is not lost:
\* some poller takes it up, however often pollers crash.  (For a callback that
\* also takes a poller which gets through its follow-ups.)  It holds while the
\* due rows fit the claim's limit: a refused row goes back to the head of the
\* order, so that as many hopeless rows as the limit allows block all others.
AbandonedIsTakenUp == \A f \in Followup : Abandoned(f) ~> ~Abandoned(f)

\* docs/VOICE-REPAIR.md, what is required of callbacks: "no early/duplicate dial".
CallbackDialledOnce ==
    \A l \in Lead, t \in 1 .. LastTime : dialled[ForCallback(l, t)] <= 1
=============================================================================
