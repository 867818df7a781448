------------------------------ MODULE LiveCall ------------------------------
(***************************************************************************)
(* A live call: its tools (CallTools) and its conversation (Conversation). *)
(* Each models by free choices what the other does to the context of the   *)
(* call, so that a behaviour runs one of them, its part, and the variables *)
(* of the other are unused.                                                *)
(***************************************************************************)
EXTENDS Integers, Sequences, FiniteSets

CONSTANTS Thread, Line, Packet, AnswerTime, MaxCalls,                          \* CallTools
          Utterance, Question, GraceTurns, FullTurns, ShortLimit, MaxTurns     \* Conversation

VARIABLES part,
          flag, packet, perms, degraded, thread, calls, query, kept, asked, said, acted,
          view, heard, pending, saying, read, stops

tools == <<flag, packet, perms, degraded, thread, calls, query, kept, asked, said, acted>>
talk == <<view, heard, pending, saying, read, stops>>
all == <<part, tools, talk>>

T == INSTANCE CallTools
C == INSTANCE Conversation

ASSUME LiveCallAssumption == T!ToolsAssumption /\ C!ConversationAssumption
-----------------------------------------------------------------------------
Unused == "unused"
NoTools ==
    /\ flag = Unused /\ packet = Unused /\ perms = Unused /\ degraded = Unused
    /\ thread = Unused /\ calls = Unused /\ query = Unused /\ kept = Unused
    /\ asked = Unused /\ said = Unused /\ acted = Unused
NoTalk ==
    /\ view = Unused /\ heard = Unused /\ pending = Unused
    /\ saying = Unused /\ read = Unused /\ stops = Unused

Init ==
    \/ part = "tools" /\ T!Init /\ NoTalk
    \/ part = "talk" /\ C!Init /\ NoTools

Next ==
    \/ part = "tools" /\ T!Next /\ UNCHANGED <<part, talk>>
    \/ part = "talk" /\ C!Next /\ UNCHANGED <<part, tools>>

Spec == Init /\ [][Next]_all
-----------------------------------------------------------------------------
\* CallTools: nothing is done after a stop, nor without leave, and what is said is done.
ToolsSound == part = "tools" => T!ToolsSound

\* Conversation: a stop is honoured, and the model is told of the turn it answers.
ConversationSound == part = "talk" => C!ConversationSound
=============================================================================
