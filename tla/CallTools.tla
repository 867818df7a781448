------------------------------ MODULE CallTools ------------------------------
(***************************************************************************)
(* The tools of one live call.  The model's calls of tools run in threads  *)
(* of their own (_make_tool_handler, execute_tool) while the transcript is *)
(* analysed on the event loop: there flags change, the packet of           *)
(* permissions is replaced, and the seller's own words run the stop tool   *)
(* in a thread more.  A tool reads the flags at four moments and then acts.*)
(***************************************************************************)
EXTENDS Integers, FiniteSets

CONSTANTS
    Thread,      \* threads that run a tool of the model
    Line,        \* the thread that the transcript's stop phrase runs
    Packet,      \* packets that are stored: [fresh, safe, conflicted, allowed, byOperator]
    AnswerTime,  \* 30 s: what an operator has to answer
    MaxCalls     \* bound of the model: tools called by the model

\* What the module takes of its constants; the module that instances it assumes it.
ToolsAssumption ==
    /\ Line \notin Thread /\ AnswerTime \in Nat \ {0} /\ MaxCalls \in Nat

VARIABLES
    flag,        \* flags of the CallContext: stop, ending, killed, booked, heard
    packet,      \* intel_packet
    perms,       \* the packet of conflict_active and action_permissions
    degraded,    \* fallback_mode, decided once
    thread,      \* [Thread \cup {Line} -> where it stands]
    calls,       \* tools called so far
    query,       \* the operator's query: [status, left]
    kept,        \* what is in the database: a subset of Kept
    asked,       \* approval requests filed: kinds
    said,        \* sentences returned to the model, of those that promise
    acted        \* history: the flags stop and killed, if a tool called under them had an effect

toolVars == <<flag, packet, perms, degraded, thread, calls, query, kept, asked, said, acted>>

Flag == {"stop", "ending", "killed", "booked", "heard"}
Kept == {"slot", "dnc", "optOut", "dead", "walkthrough"}
Tool == {"book", "price", "text", "ask", "transfer", "slots", "end", "stop"}
    \* price: the four that tell one; text: also callbacks, follow-ups and the disposition
SideEffect == Tool \ {"slots", "end", "stop"}
Risky == {"book", "price"}

Idle == [at |-> "idle"]
At(stage, t) == [at |-> stage, tool |-> t.tool, since |-> t.since]
Step == {Idle} \cup
    [at : {"called", "resolved", "read", "sanitized", "reread", "granted", "reserved",
           "waiting", "written", "half"},
     tool : Tool, since : SUBSET {"stop", "killed"}]

NoQuery == [status |-> "none", left |-> 0]

\* assemble_intel_packet: a fresh packet is taken as it is; of another the grants are kept,
\* and numbers that contradict each other hand the risky ones to the operator, also where
\* the packet (enriched: Bob's, or locked) keeps its state and is not called conflicted.
Assembled(p, conflict, enriched) ==
    IF p.fresh THEN p
    ELSE [p EXCEPT !.conflicted = conflict /\ ~ enriched,
                   !.allowed = IF conflict THEN @ \ Risky ELSE @,
                   !.byOperator = IF conflict THEN @ \ Risky ELSE @]

\* The packet of a call for which none could be loaded.
Fallback == [fresh |-> FALSE, safe |-> FALSE, conflicted |-> FALSE, allowed |-> {"book"},
             byOperator |-> {}]
Loaded == {Assembled(p, conflict, enriched) : p \in Packet, conflict, enriched \in BOOLEAN}
          \cup {Fallback}

\* run_sophia_agent, before the first word.
Init ==
    /\ flag = {} /\ packet \in Loaded /\ perms = packet /\ degraded = ~ packet.safe
    /\ thread = [t \in Thread \cup {Line} |-> Idle] /\ calls = 0 /\ query = NoQuery
    /\ kept = {} /\ asked = {} /\ said = {} /\ acted = {}

Up(f) == f \in flag
-----------------------------------------------------------------------------
(***************************************************************************)
(* The event loop: one turn of the seller, and the refresh of every fifth. *)
(***************************************************************************)
\* _check_kill_switch of a turn that is clear.
KillSwitch ==
    /\ ~ Up("killed") /\ flag' = flag \cup {"killed"}
    /\ UNCHANGED <<packet, perms, degraded, thread, calls, query, kept, asked, said, acted>>

\* The stop phrase, once in a call and however unclear the turn: the loop awaits the thread.
StopPhrase ==
    /\ ~ Up("heard") /\ flag' = flag \cup {"heard"}
    /\ thread' = [thread EXCEPT ![Line] = [at |-> "called", tool |-> "stop", since |-> {}]]
    /\ UNCHANGED <<packet, perms, degraded, calls, query, kept, asked, said, acted>>

\* _refresh_packet_async: of what is posted during the call, a packet not safe for it is not
\* taken; the mode stays.
RefreshPacket(p) ==
    /\ perms = packet /\ p # packet /\ p.safe /\ packet' = p
    /\ UNCHANGED <<flag, perms, degraded, thread, calls, query, kept, asked, said, acted>>

RefreshPermissions ==
    /\ perms # packet /\ perms' = packet
    /\ UNCHANGED <<flag, packet, degraded, thread, calls, query, kept, asked, said, acted>>
-----------------------------------------------------------------------------
Goes(t, step) == thread' = [thread EXCEPT ![t] = step]

\* execute_tool, to the refusals that precede the read of the lead.  owned: ownership is not
\* denied; clear: the last turn was understood; both belong to the turn the model answers.
CallTool(t, tool, owned, clear) ==
    LET refused == \/ ~ owned /\ tool \in {"book", "price"}
                   \/ ~ clear /\ tool \in SideEffect
        called == [at |-> "called", tool |-> tool, since |-> flag \cap {"stop", "killed"}]
    IN  /\ thread[t] = Idle /\ calls < MaxCalls /\ calls' = calls + 1
        /\ Goes(t, IF refused THEN Idle ELSE called)
        /\ UNCHANGED <<flag, packet, perms, degraded, query, kept, asked, said, acted>>

\* resolve, which fails without a lead, a tenant or a telephone; then the stop flag.
UnlessStopped(tool) == ~ Up("stop") \/ tool = "end"
WhateverHappened(tool) == TRUE    \* mutant: the call's stop request is not looked at

Admits(tool) == UnlessStopped(tool)

Resolve(t, found) ==
    /\ thread[t].at = "called" /\ thread[t].tool # "stop"
    /\ Goes(t, IF ~ found \/ ~ Admits(thread[t].tool) THEN Idle
               ELSE At(IF thread[t].tool = "end" THEN "granted" ELSE "resolved", thread[t]))
    /\ UNCHANGED <<flag, packet, perms, degraded, calls, query, kept, asked, said, acted>>

(***************************************************************************)
(* _preflight_gate, twice for what has an effect: first the flags of the   *)
(* context, then the packet, the prices and the threshold.  What expires   *)
(* between two reads of a packet has left its set "allowed".               *)
(***************************************************************************)
InConflict(tool) == perms.conflicted /\ tool \in Risky /\ tool \notin perms.byOperator

ReadFlags(t, enabled) ==
    LET tool == thread[t].tool
        blocked == \/ tool \in SideEffect /\ (Up("killed") \/ ~ enabled)
                   \/ degraded /\ tool \in Risky
    IN  /\ thread[t].at \in {"resolved", "sanitized"}
        /\ Goes(t, IF blocked \/ InConflict(tool) THEN Idle
                   ELSE At(IF thread[t].at = "resolved" THEN "read" ELSE "reread", thread[t]))
        /\ asked' = IF ~ blocked /\ InConflict(tool) THEN asked \cup {"conflict"} ELSE asked
        /\ UNCHANGED <<flag, packet, perms, degraded, calls, query, kept, said, acted>>

\* cleared: the property's price is approved, the last price told is under the threshold.
ReadPacket(t, cleared) ==
    LET tool == thread[t].tool
        permitted == packet.safe /\ tool \in packet.allowed
        passes == permitted /\ (cleared \/ tool \notin SideEffect)
    IN  /\ thread[t].at \in {"read", "reread"}
        /\ Goes(t, IF ~ passes THEN Idle
                   ELSE At(IF thread[t].at = "read" /\ tool \in SideEffect THEN "sanitized"
                           ELSE "granted", thread[t]))
        /\ asked' = IF permitted /\ ~ passes THEN asked \cup {"price"} ELSE asked
        /\ UNCHANGED <<flag, packet, perms, degraded, calls, query, kept, said, acted>>

Acted(t) == acted' = acted \cup thread[t].since
-----------------------------------------------------------------------------
\* _book_appointment: the answer of the reservation may be lost, and a text follows.
Reserve(t, reserved, told) ==
    /\ thread[t].at = "granted" /\ thread[t].tool = "book" /\ Acted(t)
    /\ kept' = IF reserved THEN kept \cup {"slot"} ELSE kept
    /\ Goes(t, IF reserved /\ told THEN At("reserved", thread[t]) ELSE Idle)
    /\ UNCHANGED <<flag, packet, perms, degraded, calls, query, asked, said>>

Confirm(t) ==
    /\ thread[t].at = "reserved" /\ flag' = flag \cup {"booked"} /\ said' = said \cup {"booked"}
    /\ Goes(t, Idle)
    /\ UNCHANGED <<packet, perms, degraded, calls, query, kept, asked, acted>>

\* The tools of a price and of a message do here what other modules follow.
Tell(t) ==
    /\ thread[t].at = "granted" /\ thread[t].tool = "price" /\ Acted(t) /\ Goes(t, Idle)
    /\ UNCHANGED <<flag, packet, perms, degraded, calls, query, kept, asked, said>>

Text(t) ==
    /\ thread[t].at = "granted" /\ thread[t].tool = "text" /\ Acted(t) /\ Goes(t, Idle)
    /\ UNCHANGED <<flag, packet, perms, degraded, calls, query, kept, asked, said>>

Transfer(t, accepted) ==
    /\ thread[t].at = "granted" /\ thread[t].tool = "transfer" /\ Acted(t) /\ Goes(t, Idle)
    /\ flag' = IF accepted THEN flag \cup {"ending"} ELSE flag
    /\ UNCHANGED <<packet, perms, degraded, calls, query, kept, asked, said>>

ListSlots(t) ==
    /\ thread[t].at = "granted" /\ thread[t].tool = "slots" /\ Goes(t, Idle)
    /\ UNCHANGED <<flag, packet, perms, degraded, calls, query, kept, asked, said, acted>>

\* _end_call: the stage is saved or not, the call ends.
End(t, reason, saved) ==
    LET open == reason = "booked" /\ ~ Up("booked")
        stage == IF reason = "booked" THEN {"walkthrough"}
                 ELSE IF reason = "dead" THEN {"dead"} ELSE {}
    IN  /\ thread[t].at = "granted" /\ thread[t].tool = "end"
        /\ flag' = IF open THEN flag ELSE flag \cup {"ending"}
        /\ kept' = IF open \/ ~ saved THEN kept ELSE (kept \ {"dead", "walkthrough"}) \cup stage
        /\ Goes(t, Idle)
        /\ UNCHANGED <<packet, perms, degraded, calls, query, asked, said, acted>>

(***************************************************************************)
(* _honor_stop_request: a telephone or none; the do-not-call row, then the *)
(* lead's flag; only then the flags of the call.                           *)
(***************************************************************************)
Lists(t, phone, saved) ==
    /\ thread[t].at = "called" /\ thread[t].tool = "stop"
    /\ kept' = IF phone /\ saved THEN kept \cup {"dnc"} ELSE kept
    /\ flag' = IF phone THEN flag ELSE flag \cup {"stop", "ending"}
    /\ Goes(t, IF phone THEN At(IF saved THEN "written" ELSE "half", thread[t]) ELSE Idle)
    /\ UNCHANGED <<packet, perms, degraded, calls, query, asked, said, acted>>

BothSaved(listed, saved) == listed /\ saved
ListedAlone(listed, saved) == listed    \* mutant: the lead's flag is not asked for
Removed(listed, saved) == BothSaved(listed, saved)

StopCall(t, saved) ==
    /\ thread[t].at \in {"written", "half"} /\ thread[t].tool = "stop"
    /\ kept' = IF saved THEN kept \cup {"optOut"} ELSE kept
    /\ flag' = flag \cup {"stop", "ending"}
    /\ said' = IF Removed(thread[t].at = "written", saved) THEN said \cup {"removed"} ELSE said
    /\ Goes(t, Idle)
    /\ UNCHANGED <<packet, perms, degraded, calls, query, asked, acted>>
-----------------------------------------------------------------------------
(***************************************************************************)
(* _ask_operator: the row, a text to the operator, then a look every two   *)
(* seconds until 30 s after the text was accepted.  One query is followed. *)
(***************************************************************************)
AskOperator(t, accepted) ==
    /\ thread[t].at = "granted" /\ thread[t].tool = "ask"
    /\ \/ /\ query.status = "none" /\ query' = [status |-> "pending", left |-> AnswerTime]
          /\ Acted(t) /\ Goes(t, IF accepted THEN At("waiting", thread[t]) ELSE Idle)
       \/ Goes(t, Idle) /\ UNCHANGED <<query, acted>>   \* the row is not saved
    /\ UNCHANGED <<flag, packet, perms, degraded, calls, kept, asked, said>>

\* record_operator_reply, from the operator's text: the first answer, in time.
InTime == query.left > 0
WheneverItComes == TRUE    \* mutant: an answer is taken at any time
Takes == InTime
Answer ==
    /\ query.status = "pending" /\ Takes /\ query' = [query EXCEPT !.status = "answered"]
    /\ said' = IF InTime THEN said ELSE said \cup {"late"}
    /\ UNCHANGED <<flag, packet, perms, degraded, thread, calls, kept, asked, acted>>

\* get_operator_answer and close_operator_query, either of which may fail.
Poll(t, read, closed) ==
    /\ thread[t].at = "waiting"
    /\ \/ ~ read /\ Goes(t, Idle) /\ UNCHANGED <<query, said>>
       \/ /\ read /\ query.status = "answered" /\ Goes(t, Idle)
          /\ query' = IF closed THEN [query EXCEPT !.status = "closed"] ELSE query
          /\ said' = IF closed THEN said \cup {"answer"} ELSE said
       \/ /\ read /\ query.status # "answered" /\ query.left = 0 /\ Goes(t, Idle)
          /\ said' = said \cup {"silence"} /\ UNCHANGED query
    /\ UNCHANGED <<flag, packet, perms, degraded, calls, kept, asked, acted>>

Tick ==
    /\ query.left > 0 /\ query' = [query EXCEPT !.left = @ - 1]
    /\ UNCHANGED <<flag, packet, perms, degraded, thread, calls, kept, asked, said, acted>>

\* The model calls no tool any more and none is running.
Done == calls = MaxCalls /\ (\A t \in DOMAIN thread : thread[t] = Idle) /\ UNCHANGED toolVars

Next ==
    \/ KillSwitch \/ StopPhrase \/ RefreshPermissions \/ \E p \in Packet : RefreshPacket(p)
    \/ \E t \in Thread, tool \in Tool, owned, clear \in BOOLEAN : CallTool(t, tool, owned, clear)
    \/ \E t \in Thread \cup {Line}, yes \in BOOLEAN :
        \/ Resolve(t, yes) \/ ReadFlags(t, yes) \/ ReadPacket(t, yes)
        \/ Transfer(t, yes) \/ AskOperator(t, yes) \/ StopCall(t, yes)
        \/ Tell(t) \/ Text(t) \/ ListSlots(t) \/ Confirm(t)
        \/ \E also \in BOOLEAN : Reserve(t, yes, also) \/ Lists(t, yes, also) \/ Poll(t, yes, also)
        \/ \E reason \in {"booked", "dead", "other"} : End(t, reason, yes)
    \/ Answer \/ Tick \/ Done

Spec == Init /\ [][Next]_toolVars
-----------------------------------------------------------------------------
TypeOK ==
    /\ flag \subseteq Flag /\ {packet, perms} \subseteq Loaded \cup Packet /\ degraded \in BOOLEAN
    /\ thread \in [Thread \cup {Line} -> Step] /\ calls \in 0 .. MaxCalls
    /\ query \in [status : {"none", "pending", "answered", "closed"}, left : 0 .. AnswerTime]
    /\ kept \subseteq Kept /\ asked \subseteq {"conflict", "price"}
    /\ said \subseteq {"booked", "removed", "answer", "silence", "late"}
    /\ acted \subseteq {"stop", "killed"}

\* A tool that is called after the stop request or the kill switch has no effect, whichever
\* flags and packets change while it runs.
NothingAfterStop == acted = {}

\* The seller hears of a walkthrough, and the lead is moved to it, when the slot is reserved.
BookedIsReserved == ({"booked"} \cap (said \cup flag) # {} \/ "walkthrough" \in kept) => "slot" \in kept

\* The seller hears that the number is removed when both places have it.
RemovedIsRemoved == "removed" \in said => {"dnc", "optOut"} \subseteq kept

\* An answer of the operator that reaches the seller was given in time; one that was given in
\* time is not taken for silence by the thread that waits, whose deadline is the later one.
AnswersCount ==
    /\ "late" \notin said
    /\ "answer" \in said => query.status = "closed"
    /\ "silence" \in said => query.status = "pending"

\* Of several threads and the transcript, what a tool does and says is what the flags, the
\* database and the operator allowed it.
ToolsSound == TypeOK /\ NothingAfterStop /\ BookedIsReserved /\ RemovedIsRemoved /\ AnswersCount
=============================================================================
