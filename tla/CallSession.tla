----------------------------- MODULE CallSession -----------------------------
(***************************************************************************)
(* One call from its media stream to what is kept of it: the context that  *)
(* is loaded beside the stream (voice/webhook.py), the run of the pipeline *)
(* and everything that ends it (run_sophia_agent, silence_handler.py), and *)
(* the work after it (_handle_call_end), in which any step may fail.       *)
(***************************************************************************)
EXTENDS Integers, FiniteSets

CONSTANTS
    SilenceEnd,  \* _CONSECUTIVE_SILENCE_END
    RenewEnd,    \* 3 renewals of the call slot that fail in a row
    Duration,    \* VOICE_MAX_CALL_SECONDS
    MaxTurns     \* bound of the model: turns of the conversation

\* What the module takes of its constants; the module that instances it assumes it.
SessionAssumption == {SilenceEnd, RenewEnd, Duration} \subseteq Nat \ {0} /\ MaxTurns \in Nat

VARIABLES
    session,   \* of this call, never changed: outbound, dashboard (a target is configured)
    shelf,     \* its entry in app.state.call_contexts
    loader,    \* _preload_and_store
    stream,    \* where the handler of its stream stands
    caller,    \* what the run has: "lead", "stranger" or "cold"; "none" before it
    voice,     \* [greeting, timer, silences, failures, turns, ending, elapsed]
    told,      \* what the dashboard's outbox has taken: events, turns by their index
    after,     \* what _handle_call_end has written
    memory     \* SellerMemory: what the run has loaded of it, and the row

sessionVars == <<session, shelf, loader, stream, caller, voice, told, after, memory>>
kept == <<session, loader, memory>>

Contexts == {"none", "lead", "stranger", "cold"}
Stage == {"none", "waiting", "prepared", "running", "ended", "journalled", "remembered",
          "recorded", "chunked", "disposed", "analysed", "closed"}
Works == {"row", "chunks", "disposition", "grade", "intel", "workflow", "digest"}

Greeting == {"awaited", "opener", "apology"}
Quiet == [greeting |-> "awaited", timer |-> FALSE, silences |-> 0, failures |-> 0, turns |-> 0,
          ending |-> FALSE, elapsed |-> 0]

Init ==
    /\ session \in [outbound : BOOLEAN, dashboard : BOOLEAN]
    /\ shelf = "none" /\ loader = "idle" /\ stream = "none" /\ caller = "none"
    /\ voice = Quiet /\ told = [events |-> {}, turns |-> {}] /\ after = {}
    /\ memory = [loaded |-> {}, row |-> {}]
-----------------------------------------------------------------------------
\* handle_inbound_call answers with the stream's address and loads the context beside it.
Inbound ==
    /\ ~ session.outbound /\ loader = "idle" /\ stream = "none" /\ loader' = "loading"
    /\ UNCHANGED <<session, shelf, stream, caller, voice, told, after, memory>>

\* What preload_call_context comes back with: the context of a lead, or of nobody known.
Found == {"lead", "stranger"}

Preload(found) ==
    /\ loader = "loading" /\ loader' = "done" /\ shelf' = found
    /\ UNCHANGED <<session, stream, caller, voice, told, after, memory>>

\* read_media_session: a start in time for this call, or the stream is closed.
Accept(valid) ==
    /\ stream = "none" /\ (session.outbound \/ loader # "idle")
    /\ stream' = IF valid THEN "waiting" ELSE "closed"
    /\ shelf' = IF valid THEN shelf ELSE "none"
    /\ UNCHANGED <<caller, voice, told, after>> /\ UNCHANGED kept

\* run_sophia_agent, before its pipeline: the memory of a lead is read for the whole call.
Loads(read) == [memory EXCEPT !.loaded = IF read = "lead" THEN memory.row ELSE {}]

\* inbound_voice_stream waits 5 s for the context and starts cold without.
TakeContext ==
    /\ stream = "waiting" /\ ~ session.outbound /\ stream' = "prepared"
    /\ caller' = IF shelf # "none" THEN shelf ELSE "cold"
    /\ shelf' = caller' /\ memory' = Loads(caller')
    /\ UNCHANGED <<session, loader, voice, told, after>>

\* _build_outbound_context: what the outbound stream needs it reads itself.
BuildContext(read) ==
    /\ stream = "waiting" /\ session.outbound /\ stream' = "prepared"
    /\ caller' = read /\ shelf' = read /\ memory' = Loads(read)
    /\ UNCHANGED <<session, loader, voice, told, after>>

\* The pipeline is built and runs, or what fails before it runs closes the stream.
SetUp ==
    /\ stream = "prepared" /\ stream' = "running"
    /\ UNCHANGED <<shelf, caller, voice, told, after>> /\ UNCHANGED kept

FailSetUp ==
    /\ stream = "prepared" \/ (stream = "waiting" /\ session.outbound)
    /\ stream' = "closed" /\ shelf' = "none"
    /\ UNCHANGED <<caller, voice, told, after>> /\ UNCHANGED kept

\* emit_*: taken by the outbox, if there is a dashboard and the journal can be written.
Taken(queued) == queued /\ session.dashboard
Tells(queued, event) ==
    told' = IF Taken(queued) THEN [told EXCEPT !.events = @ \cup {event}] ELSE told
Journalled(queued) == queued \/ ~ session.dashboard

\* on_connected awaits the journal beside the pipeline, which runs meanwhile; the thread
\* that writes may come to its end after the pipeline.  Then the opener, or an apology
\* and the end frame.
Connect(queued) ==
    /\ stream \notin {"none", "waiting", "prepared", "closed"} /\ voice.greeting = "awaited"
    /\ Tells(queued, "call")
    /\ voice' = IF Journalled(queued) THEN [voice EXCEPT !.greeting = "opener"]
                ELSE [voice EXCEPT !.greeting = "apology", !.ending = @ \/ stream = "running"]
    /\ UNCHANGED <<shelf, stream, caller, after>> /\ UNCHANGED kept
-----------------------------------------------------------------------------
Running == stream = "running" /\ ~ voice.ending
Talks(v) == voice' = v /\ UNCHANGED <<shelf, stream, caller, told, after>> /\ UNCHANGED kept

\* BotSpeakingMonitor and SilenceHandler: the third silence in a row ends the call.
BotStops ==
    /\ Running /\ (voice.greeting # "awaited" \/ voice.turns > 0)
    /\ Talks([voice EXCEPT !.timer = TRUE])
UserStarts == Running /\ Talks([voice EXCEPT !.timer = FALSE, !.silences = 0])

Silence ==
    /\ Running /\ voice.timer
    /\ Talks([voice EXCEPT !.timer = FALSE, !.silences = @ + 1,
                           !.ending = voice.silences + 1 >= SilenceEnd])

(***************************************************************************)
(* What either side says is a turn, the opener and the apology as well,    *)
(* and what is said between an end frame and the end.  TranscriptJournal   *)
(* puts it down first, without which the pipeline is cancelled.  The stop  *)
(* phrase ends the call.  A tool that ended it does so by the handler's    *)
(* last lines: for a call with a lead they are not reached, the attribute  *)
(* _business_refresh_task not being one of the CallContext's; neither do   *)
(* the phrases of analysis_callbacks queue an end.                         *)
(***************************************************************************)
Turn(queued, ends) ==
    /\ stream = "running" /\ voice.turns < MaxTurns
    /\ told' = IF Taken(queued) THEN [told EXCEPT !.turns = @ \cup {voice.turns}] ELSE told
    /\ voice' = [voice EXCEPT !.turns = @ + 1,
                     !.ending = \/ voice.ending \/ ~ Journalled(queued) \/ ends = "phrase"
                                \/ ends = "tool" /\ caller # "lead"]
    /\ UNCHANGED <<shelf, stream, caller, after>> /\ UNCHANGED kept

\* _monitor_call_capacity, for a call that went out to a lead.
Renew(renewed) ==
    /\ Running /\ voice.greeting = "opener" /\ session.outbound /\ caller = "lead"
    /\ Talks(IF renewed THEN [voice EXCEPT !.failures = 0]
             ELSE [voice EXCEPT !.failures = @ + 1, !.ending = voice.failures + 1 >= RenewEnd])

\* What the run leaves to _handle_call_end: its timers and counters are gone with it.
Stops ==
    /\ stream = "running" /\ stream' = "ended"
    /\ voice' = [Quiet EXCEPT !.greeting = voice.greeting, !.turns = voice.turns]

\* The pipeline stops: its end frame is through, the caller hangs up, the worker fails.
HangUp(queued) ==
    /\ Stops /\ Tells(queued, "ended")
    /\ UNCHANGED <<shelf, caller, after>> /\ UNCHANGED kept

EndFrame ==
    /\ voice.ending /\ Stops
    /\ UNCHANGED <<shelf, caller, told, after>> /\ UNCHANGED kept

LimitReached == voice.elapsed >= Duration
NeverReached == FALSE    \* mutant: the pipeline runs without its time limit
Expires == LimitReached
TimeLimit ==
    /\ Expires /\ Stops
    /\ UNCHANGED <<shelf, caller, told, after>> /\ UNCHANGED kept

\* Time passes, and changes nothing after the call.
Tick ==
    \/ stream = "running" /\ voice.elapsed < Duration /\ Talks([voice EXCEPT !.elapsed = @ + 1])
    \/ stream = "closed" /\ UNCHANGED sessionVars

\* The analysis of an earlier call of the lead, which may end at any time of this one.
EarlierCall ==
    /\ caller = "lead" /\ "topics" \notin memory.row
    /\ memory' = [memory EXCEPT !.row = @ \cup {"topics"}]
    /\ UNCHANGED <<session, shelf, loader, stream, caller, voice, told, after>>
-----------------------------------------------------------------------------
(***************************************************************************)
(* _handle_call_end: whatever raises outside a handler of its own ends it. *)
(***************************************************************************)
Proceeds(from, to) == stream = from /\ stream' = to

\* emit_transcript_completed and emit_call_completed report their failures.
Journal(queued) ==
    /\ Proceeds("ended", "journalled") /\ Tells(queued, "complete")
    /\ UNCHANGED <<shelf, caller, voice, after>> /\ UNCHANGED kept

\* SellerMemory.save writes every column as it was loaded; the facts of the call go to
\* their own journal.
Remember(saved) ==
    /\ Proceeds("journalled", "remembered")
    /\ memory' = IF saved /\ caller = "lead" /\ voice.turns > 0
                 THEN [memory EXCEPT !.row = memory.loaded \cup {"summary"}] ELSE memory
    /\ UNCHANGED <<session, loader, shelf, caller, voice, told, after>>

\* insert_call: its row, none without an error, or an error.
Record(answer) ==
    /\ stream = "remembered"
    /\ after' = IF answer = "row" THEN after \cup {"row"} ELSE after
    /\ stream' = IF answer = "error" THEN "disposed"
                 ELSE IF caller # "lead" THEN "disposed"
                 ELSE IF answer = "row" THEN "recorded" ELSE "analysed"
    /\ UNCHANGED <<shelf, caller, voice, told>> /\ UNCHANGED kept

\* The chunks of what was said, then the disposition, if a tool has set one: an error of
\* either leaves all the rest undone.
Chunk(saved) ==
    /\ stream = "recorded"
    /\ stream' = IF saved \/ voice.turns = 0 THEN "chunked" ELSE "disposed"
    /\ after' = IF saved /\ voice.turns > 0 THEN after \cup {"chunks"} ELSE after
    /\ UNCHANGED <<shelf, caller, voice, told>> /\ UNCHANGED kept

Dispose(answer) ==
    /\ stream = "chunked" /\ stream' = IF answer = "error" THEN "disposed" ELSE "analysed"
    /\ after' = IF answer = "saved" THEN after \cup {"disposition"} ELSE after
    /\ UNCHANGED <<shelf, caller, voice, told>> /\ UNCHANGED kept

WithRow(works) == "row" \in after \/ "workflow" \notin works
RowOrNot(works) == TRUE    \* mutant: the workflow does not wait for the call's row
Possible(works) == WithRow(works)

(***************************************************************************)
(* The grading and the analysis, next to one another.  Each write of them  *)
(* has a handler of its own; only an analysis that found something goes on *)
(* to the workflow, whose timeout ends it, and then to the digest and the  *)
(* packet of the lead, one of which stands for both.  The memory is loaded *)
(* anew for what was found.                                                *)
(***************************************************************************)
Analyse(graded, works, remembered) ==
    /\ stream = "analysed" /\ stream' = "disposed"
    /\ works # {} => "intel" \in works
    /\ Possible(works)
    /\ after' = after \cup works \cup (IF graded THEN {"grade"} ELSE {})
    /\ memory' = IF works # {} /\ remembered
                 THEN [memory EXCEPT !.row = memory.row \cup {"topics"}] ELSE memory
    /\ UNCHANGED <<session, loader, shelf, caller, voice, told>>

\* The handler of the stream: the entry on the shelf goes with the call.
Close ==
    /\ Proceeds("disposed", "closed") /\ shelf' = "none"
    /\ UNCHANGED <<caller, voice, told, after>> /\ UNCHANGED kept

\* handle_call_status with a terminal status, which may overtake the stream.
Status ==
    /\ shelf # "none" /\ shelf' = "none"
    /\ UNCHANGED <<stream, caller, voice, told, after>> /\ UNCHANGED kept

AfterCall ==
    \/ \E ok \in BOOLEAN : Journal(ok) \/ Remember(ok) \/ Chunk(ok)
    \/ \E answer \in {"none", "saved", "error"} : Dispose(answer)
    \/ \E answer \in {"row", "none", "error"} : Record(answer)
    \/ \E graded, remembered \in BOOLEAN, works \in SUBSET {"intel", "workflow", "digest"} :
           Analyse(graded, works, remembered)
    \/ Close

Next ==
    \/ Inbound \/ \E found \in Found : Preload(found)
    \/ TakeContext \/ \E read \in Found : BuildContext(read)
    \/ SetUp \/ FailSetUp
    \/ \E ok \in BOOLEAN : Accept(ok) \/ Connect(ok) \/ Renew(ok) \/ HangUp(ok)
    \/ \E ok \in BOOLEAN, ends \in {"no", "phrase", "tool"} : Turn(ok, ends)
    \/ BotStops \/ UserStarts \/ Silence \/ EndFrame \/ TimeLimit \/ Tick
    \/ EarlierCall \/ AfterCall \/ Status

Spec == Init /\ [][Next]_sessionVars

\* The loop of the process, which has to go on for a stream to run at all.  A stream that
\* runs needs nothing but the time: neither its journal's answer nor a word.
Progress == AfterCall \/ EndFrame \/ TimeLimit \/ Tick
            \/ TakeContext \/ (\E read \in Found : BuildContext(read)) \/ SetUp
Fairness == WF_sessionVars(Progress)
FairSpec == Spec /\ Fairness
-----------------------------------------------------------------------------
TypeOK ==
    /\ session \in [outbound : BOOLEAN, dashboard : BOOLEAN]
    /\ {shelf, caller} \subseteq Contexts /\ loader \in {"idle", "loading", "done"}
    /\ stream \in Stage
    /\ voice \in [greeting : Greeting, timer : BOOLEAN, silences : 0 .. SilenceEnd,
                  failures : 0 .. RenewEnd, turns : 0 .. MaxTurns, ending : BOOLEAN,
                  elapsed : 0 .. Duration]
    /\ told \in [events : SUBSET {"call", "ended", "complete"}, turns : SUBSET (0 .. MaxTurns - 1)]
    /\ after \subseteq Works
    /\ memory \in [loaded : SUBSET {"summary", "topics"}, row : SUBSET {"summary", "topics"}]

\* With a dashboard a conversation goes on only while all of it is journalled: its call,
\* once on_connected is through, and every turn, in whatever order they come.
GoesOnJournalled ==
    session.dashboard /\ Running =>
        /\ told.turns = 0 .. voice.turns - 1
        /\ voice.greeting # "awaited" => "call" \in told.events

\* What is derived from a call is there only with the call's row: its chunks, the move of
\* its lead, and the workflow that its analysis starts.  Nothing is derived from a call
\* that was taken without its lead, although the preloader finds the lead later.
DerivedHasRow ==
    /\ {"chunks", "disposition", "workflow"} \cap after # {} => "row" \in after
    /\ after \ {"row"} # {} => caller = "lead"

\* Whatever closes a stream takes the call's context off the shelf: what is found there
\* later the preloader has brought after it.
ContextGoesWithCall == stream = "closed" /\ shelf # "none" => loader = "done"

SessionSound == TypeOK /\ GoesOnJournalled /\ DerivedHasRow /\ ContextGoesWithCall

\* A stream that has begun comes to its end, though no tool of the model can end a call
\* with a lead: silence or the time limit do.
Closed == stream \in {"none", "closed"}
SessionEnds == <>[]Closed
=============================================================================
