--------------------------- MODULE Conversation ---------------------------
\* What one call makes of the caller's words: the chain of frame processors
\* of backend/voice/agent.py, in pipeline order, over the fields of CallContext.
\* A phrase the patterns recognise is a cue; the scores are in tenths.
EXTENDS Integers, Sequences, FiniteSets, FiniteSetsExt, SequencesExt

CONSTANTS Utterance,    \* what the caller may say: [cues, clear, words]
          Question,     \* what Sophia may ask: "owner", "walkthrough", "other"
          GraceTurns,   \* turns before fatigue is believed (5 in the code)
          FullTurns,    \* turns before it may be critical (8 in the code)
          ShortLimit,   \* short answers in a row that are critical (4)
          MaxTurns      \* bound on the frames of the call

Cue == {"stop", "ai", "human", "prove", "scam", "process", "offer", "ready", "yes", "own",
        "notOwn", "agent", "noAgent", "refuse", "think", "maybe", "sell", "grief", "repair",
        "bye", "noise", "trigger", "probe"}

\* What the module takes of its constants; the module that instances it assumes it.
ConversationAssumption ==
    /\ \A u \in Utterance : u.cues \subseteq Cue /\ u.clear \in BOOLEAN /\ u.words \in Nat
    /\ Question \subseteq {"owner", "walkthrough", "other"}
    /\ {GraceTurns, FullTurns, ShortLimit, MaxTurns} \subseteq Nat

VARIABLES view,     \* the CallContext, and what the processors keep for themselves
          heard,    \* transcription frames received
          pending,  \* the last user turn has reached the context aggregator
          saying,   \* an answer of the model is being spoken
          read,     \* what the model was given last, and of which turn
          stops     \* frames with a stop phrase that reached the context tracker

vars == <<view, heard, pending, saying, read, stops>>

----------------------------------------------------------------------------
\* Helpers

Says(u, cues) == u.cues \cap cues # {}
FirstOf(rules) == rules[Min({i \in DOMAIN rules : rules[i][1]})][2]
Within(score) == Max({0, Min({100, score})})
Points(u, cue, n) == IF cue \in u.cues THEN n ELSE 0
Asks(u) == Says(u, {"ai", "process", "offer", "prove"})
Hedged(u) == Asks(u) \/ Says(u, {"maybe"})
Negated(u) == Says(u, {"maybe", "refuse", "notOwn", "noAgent"})

NoInstruction == [kind |-> "none", of |-> 0]
Tell(c, kind) == [c EXCEPT !.instruction = [kind |-> kind, of |-> heard + 1]]

Distressed == {"GRIEVING", "DISTRESSED", "OVERWHELMED"}
Level(score) == FirstOf(<< <<score >= 85, "BLOCKING">>, <<score >= 65, "HIGH">>,
                           <<score >= 40, "MODERATE">>, <<score >= 20, "LOW">>, <<TRUE, "NONE">> >>)
Resists(c) == Level(c.resistance) \in {"HIGH", "BLOCKING"}

----------------------------------------------------------------------------
\* The processors, each from a context and an utterance to the next context

Reset(c, u) == [c EXCEPT !.instruction = NoInstruction, !.goal = "", !.uncertain = FALSE]

Understand(c, u) ==
    [c EXCEPT !.uncertain = ~u.clear,
              !.failures = CASE ~u.clear -> @ + 1 [] Says(u, {"repair"}) -> @ [] OTHER -> 0]

\* A prompt probe gets its instruction here; noise ends here (Lost).
Guard(c, u) == IF Says(u, {"probe"}) THEN Tell(c, "redirect") ELSE c

Identity(c, u) == IF Says(u, {"ai"}) THEN Tell(c, "identity") ELSE c

EmotionWeight == [GRIEVING |-> 90, HOSTILE |-> 95, SKEPTICAL |-> 70, EXCITED |-> 80, OPEN |-> 40]
EmotionOf == [grief |-> "GRIEVING", stop |-> "HOSTILE", scam |-> "SKEPTICAL", prove |-> "SKEPTICAL",
              ready |-> "EXCITED"]
Emotion(c, u) ==
    LET found == {EmotionOf[k] : k \in u.cues \cap DOMAIN EmotionOf}
        Intensity(e) == Min({100, EmotionWeight[e] + (IF e = c.emotion THEN 20 ELSE 0)})
                        - (IF u.words < 4 THEN 15 ELSE 0)
        Order == <<"GRIEVING", "HOSTILE", "SKEPTICAL", "EXCITED", "OPEN">>
        Strongest == {i \in DOMAIN Order : /\ Order[i] \in found
                                           /\ \A e \in found : Intensity(e) <= Intensity(Order[i])}
    IN [c EXCEPT !.emotion = IF found = {} THEN "NEUTRAL" ELSE Order[Min(Strongest)]]

TrustDelta(u) == Points(u, "process", 8) + Points(u, "ready", 12) - Points(u, "scam", 15)
                 - Points(u, "stop", 20) - Points(u, "ai", 12) - Points(u, "think", 3)
                 - Points(u, "prove", 10)
Challenges(c, u) == c.challenges + (IF Says(u, {"prove"}) THEN 1 ELSE 0)
\* CallContext has slots and none of them is _broke_trust_logged: the assignment
\* raises, the score is not stored, and the frame goes no further.
TrustBreaks(c, u) == Within(c.trust + TrustDelta(u)) < 20 /\ Challenges(c, u) >= 2
Trust(c, u) == [c EXCEPT !.trust = Within(@ + TrustDelta(u)), !.challenges = Challenges(c, u)]

ObjectionDelta(u) == Points(u, "stop", 30) + Points(u, "agent", 30)
                     + Points(u, "refuse", 15) + Points(u, "think", 15)
Resistance(c, u) ==
    LET objects == Says(u, {"stop", "agent", "refuse", "think"})
        softens == Says(u, {"maybe", "process", "offer"})
        raised == Min({100, c.resistance + ObjectionDelta(u)})
        softened == Max({0, raised - (IF softens THEN 30 ELSE 0)})
    IN [c EXCEPT !.resistance = Max({0, softened - (IF objects THEN 0 ELSE 5)}),
                 !.softening = (softens /\ raised > 0),
                 !.listed = (@ \/ Says(u, {"agent"})),
                 !.agent = (@ \/ c.listed \/ Says(u, {"agent"}))]

MomentumDelta(u) == Points(u, "yes", 3) + Points(u, "process", 10) + Points(u, "offer", 15)
                    + Points(u, "ready", 15) - Points(u, "stop", 20) - Points(u, "think", 10)
Momentum(c, u) ==
    LET matched == Says(u, {"yes", "process", "offer", "ready", "stop", "think"})
        delta == MomentumDelta(u) - (IF u.words < 4 /\ ~matched THEN 5 ELSE 0)
                 + (IF u.words > 12 THEN 5 ELSE 0) + (IF Asks(u) THEN 4 ELSE 0)
    IN [c EXCEPT !.momentum = Within(@ + (IF ~matched /\ delta = 0 THEN -1 ELSE delta))]

\* The turn is counted later in the chain: fatigue and microstate read the count of the turn before.
Fatigue(c, u) ==
    LET lengths == SubSeq(Append(c.lengths, u.words), Max({1, Len(c.lengths) - 3}), Len(c.lengths) + 1)
        short == IF u.words <= 4 THEN Min({ShortLimit, c.short + 1}) ELSE 0
        total == FoldSeq(+, 0, lengths)
        tired == FirstOf(<< <<short >= ShortLimit \/ total < 3 * Len(lengths), "CRITICAL">>,
                            <<total < 6 * Len(lengths), "HIGH">>, <<TRUE, "FRESH">> >>)
        level == CASE tired # "FRESH" /\ c.turn < GraceTurns -> "MILD"
                   [] tired = "CRITICAL" /\ c.turn < FullTurns -> "HIGH"
                   [] tired = "CRITICAL" /\ c.momentum >= 50 /\ Level(c.resistance) = "NONE" -> "HIGH"
                   [] OTHER -> tired
    IN [c EXCEPT !.lengths = lengths, !.short = short, !.fatigue = level]

HeatDelta(u) == Points(u, "process", 15) + Points(u, "offer", 25) + Points(u, "maybe", 5)
                - Points(u, "refuse", 30) - Points(u, "stop", 30)
Heat(c, u) ==
    LET agent == Says(u, {"agent", "noAgent"}) /\ ~c.penalised
    IN [c EXCEPT !.heat = Within(@ + HeatDelta(u) - (IF agent THEN 20 ELSE 0)),
                 !.penalised = (@ \/ agent)]

Microstate(c, u) ==
    [c EXCEPT !.microstate = FirstOf(<<
        <<Says(u, {"ready"}) /\ c.turn >= 2, "COMMITTING">>,
        <<Says(u, {"bye"}), "CLOSING">>,
        <<Says(u, {"prove"}) \/ c.trust < 35, "TESTING">>,
        <<c.softening /\ Resists(c), "SOFTENING">>,
        <<c.emotion \in Distressed /\ u.words >= 20, "VENTING">>,
        <<Resists(c) /\ ~c.softening, "VENTING">>,
        <<TRUE, "NEUTRAL">> >>)]

Refusal(c, u) ==
    IF Says(u, {"refuse"}) THEN [c EXCEPT !.intent = FALSE, !.agreed = FALSE] ELSE c

\* mutant: a denial that leaves the earlier confirmation standing
KeepsOwner(c, u) ==
    CASE Says(u, {"notOwn"}) -> [c EXCEPT !.denied = TRUE, !.person = "no",
                                          !.awaiting = FALSE, !.agreed = FALSE]
      [] Says(u, {"own"}) /\ ~Says(u, {"notOwn"}) /\ ~Hedged(u) ->
            [c EXCEPT !.owner = TRUE, !.denied = FALSE, !.person = "yes"]
      [] OTHER -> c

Ownership(c, u) ==
    CASE Says(u, {"notOwn"}) -> [c EXCEPT !.owner = FALSE, !.denied = TRUE, !.person = "no",
                                          !.awaiting = FALSE, !.agreed = FALSE]
      [] Says(u, {"own"}) /\ ~Says(u, {"notOwn"}) /\ ~Hedged(u) ->
            [c EXCEPT !.owner = TRUE, !.denied = FALSE, !.person = "yes"]
      [] OTHER -> c

Assent(c, u) ==
    IF c.asked /\ Says(u, {"yes", "ready"}) /\ ~Negated(u)
    THEN [c EXCEPT !.agreed = TRUE, !.asked = FALSE] ELSE c

Collected(c, u) ==
    [c EXCEPT !.motivated = (@ \/ Says(u, {"sell"})),
              !.intent = (@ \/ (Says(u, {"sell"}) /\ ~Says(u, {"refuse"}))),
              !.agent = CASE Says(u, {"noAgent"}) -> FALSE [] Says(u, {"agent"}) -> TRUE [] OTHER -> @]

Analyze(c, u) == Collected(Assent(Ownership(Refusal(c, u), u), u), u)

\* A bare yes to the question who is speaking.
Affirmed(c, u) ==
    IF c.awaiting /\ ~c.owner /\ u.cues = {"yes"}
    THEN [c EXCEPT !.owner = TRUE, !.awaiting = FALSE, !.person = "yes"] ELSE c

Track(c, u) == LET counted == [c EXCEPT !.turn = @ + 1]
               IN IF c.uncertain THEN counted ELSE Affirmed(Analyze(counted, u), u)

\* The first stop phrase is recorded by the context tracker, heard clearly or not,
\* and the frame ends there.
StopsHere(c, u) == Says(u, {"stop"}) /\ ~c.dnc
HonorStop(c) == [c EXCEPT !.dnc = TRUE, !.stopped = TRUE, !.ending = TRUE, !.instruction = NoInstruction]

Objective(c, u) ==
    [c EXCEPT !.objective = FirstOf(<<
        <<c.ending \/ c.booked, "STAGE_5_WRAP">>,
        <<c.trust < 30, "TRUST_REPAIR">>,
        <<c.emotion \in Distressed, "EMOTIONAL_HOLD">>,
        <<Level(c.resistance) = "BLOCKING" /\ ~c.softening, "HANDLE_OBJECTION">>,
        <<~c.owner \/ ~(c.intent \/ c.motivated), "STAGE_1_QUALIFY">>,
        <<c.agreed, "STAGE_4_CLOSE">>,
        <<TRUE, "STAGE_2_DISCOVER">> >>)]

----------------------------------------------------------------------------
\* The plan of the answer, and the instructions

Plan(c, u) == FirstOf(<<
    <<c.stopped \/ Says(u, {"stop"}), "stop">>,
    <<Says(u, {"ai"}), "identity">>,
    <<c.uncertain, "clarify_audio">>,
    <<Says(u, {"human"}), "human">>,
    <<Says(u, {"refuse"}), "decline">>,
    <<Says(u, {"bye"}), "goodbye">>,
    <<Says(u, {"repair"}), "repair">>,
    <<Asks(u), "answer">>,
    <<Says(u, {"think"}) \/ (c.asked /\ Says(u, {"maybe"})), "space">>,
    <<c.denied, "contact">>,
    <<c.emotion \in Distressed, "empathy">>,
    <<c.booked, "saved_next_step">>,
    <<c.agreed, "schedule">>,
    <<~c.owner, "contact">>,
    <<~c.intent /\ ~c.motivated, "interest">>,
    <<TRUE, "discover">> >>)

Triggers(c, u) ==
    CASE Says(u, {"stop"}) -> [c EXCEPT !.ending = TRUE]
      [] ~Says(u, {"stop"}) /\ Plan(c, u) \in {"human", "identity"} -> Tell(c, Plan(c, u))
      [] u.cues = {"bye"} /\ Plan(c, u) \notin {"human", "identity"} -> Tell(c, "goodbye")
      [] OTHER -> c

Advice(c) == FirstOf(<<
    <<c.ending \/ (c.trust < 25 /\ Resists(c)), "none">>,
    <<c.microstate = "COMMITTING" /\ c.heat >= 80, "book">>,
    <<c.trust < 35, "facts_only">>,
    <<c.microstate = "VENTING" /\ c.emotion \in Distressed, "listen">>,
    <<c.fatigue = "CRITICAL", "wrap_up">>,
    <<c.softening /\ Resists(c), "lean_in">>,
    <<c.heat >= 60 /\ c.momentum >= 60, "toward_visit">>,
    <<c.momentum < 30 /\ c.turn > GraceTurns, "tighten">>,
    <<TRUE, "none">> >>)

\* Only the instruction of the orchestrator's decision is used, and only when
\* no other is there; its end of the call, objective and length are dropped.
Orchestrate(c, u) ==
    IF c.instruction = NoInstruction /\ Advice(c) # "none" THEN Tell(c, Advice(c)) ELSE c

KillSwitch(c, u) == IF Says(u, {"trigger"}) THEN Tell([c EXCEPT !.killed = TRUE], "fallback") ELSE c

Callbacks(c, u) == IF c.uncertain THEN c ELSE KillSwitch(Orchestrate(Triggers(c, u), u), u)

Policy(c, u) ==
    [c EXCEPT !.goal = Plan(c, u), !.failures = IF Plan(c, u) = "repair" THEN @ + 1 ELSE @]

\* What every clear frame does before the context tracker sees it.
Moods(c, u) == Microstate(Heat(Fatigue(Momentum(Resistance(Trust(Emotion(c, u), u), u), u), u), u), u)

----------------------------------------------------------------------------
\* Behaviour

Init ==
    /\ view \in [instruction : {NoInstruction, [kind |-> "conflict", of |-> 0]}, goal : {""},
                 uncertain : {FALSE}, failures : {0}, emotion : {"NEUTRAL"}, trust : {50},
                 challenges : {0}, resistance : {0}, softening : {FALSE}, listed : {FALSE},
                 agent : {FALSE}, momentum : {50}, lengths : {<<>>}, short : {0}, fatigue : {"FRESH"},
                 heat : {0}, penalised : {FALSE}, microstate : {"NEUTRAL"}, turn : {0},
                 intent : {FALSE}, agreed : {FALSE}, owner : {FALSE}, denied : {FALSE},
                 person : {"none"}, awaiting : {TRUE}, asked : {FALSE}, motivated : {FALSE},
                 booked : {FALSE}, dnc : {FALSE}, stopped : {FALSE}, ending : {FALSE},
                 objective : {"STAGE_1_QUALIFY"}, killed : {FALSE}]
    /\ heard = 0 /\ stops = 0
    /\ pending = {} /\ saying = FALSE
    /\ read = [goal |-> "", instruction |-> NoInstruction, of |-> 0, cues |-> {}, clear |-> TRUE]

\* A frame the input guard takes for noise, or that breaks the trust tracker.
Lost(u) ==
    LET c == Understand(Reset(view, u), u)
        d == Emotion(Identity(Guard(c, u), u), u)
    IN /\ heard < MaxTurns
       /\ heard' = heard + 1
       /\ \/ /\ u.cues = {"noise"}
             /\ view' = c
          \/ /\ u.clear /\ TrustBreaks(d, u)
             /\ view' = [d EXCEPT !.challenges = Challenges(d, u)]
       /\ UNCHANGED <<pending, saying, read, stops>>

\* A frame that reaches the context tracker.
Heard(u) ==
    LET c == Identity(Guard(Understand(Reset(view, u), u), u), u)
        d == Track(IF c.uncertain THEN c ELSE Moods(c, u), u)
    IN /\ heard < MaxTurns
       /\ u.cues # {"noise"}
       /\ ~(u.clear /\ TrustBreaks(c, u))
       /\ heard' = heard + 1
       /\ stops' = stops + (IF Says(u, {"stop"}) THEN 1 ELSE 0)
       /\ IF StopsHere(d, u)
          THEN view' = HonorStop(d) /\ UNCHANGED pending
          ELSE /\ view' = Policy(Callbacks(Objective(d, u), u), u)
               /\ pending' = {[of |-> heard + 1, cues |-> u.cues, clear |-> u.clear]}
       /\ UNCHANGED <<saying, read>>

\* The aggregated turn goes to the model: the prefix is written from the context
\* of that moment, and the instruction is used up.
Ask ==
    /\ \E t \in pending :
          read' = [goal |-> view.goal, instruction |-> view.instruction,
                   of |-> t.of, cues |-> t.cues, clear |-> t.clear]
    /\ pending' = {}
    /\ view' = [view EXCEPT !.instruction = NoInstruction]
    /\ saying' = TRUE
    /\ UNCHANGED <<heard, stops>>

\* The answer passes the output filter and is journalled as spoken. After the kill
\* switch only the fallback is said; a creative-finance word leaves a warning.
Speak ==
    /\ saying
    /\ saying' = FALSE
    /\ \/ view.killed /\ UNCHANGED view
       \/ \E q \in Question :
             /\ ~view.killed
             /\ view' = [view EXCEPT !.asked = (q = "walkthrough"), !.awaiting = (q = "owner")]
       \/ ~view.killed /\ view' = [view EXCEPT !.instruction = [kind |-> "watch", of |-> heard]]
    /\ UNCHANGED <<heard, pending, read, stops>>

\* A booking tool called by the model while its answer is produced.
Book ==
    /\ saying /\ ~view.denied /\ ~view.uncertain /\ ~view.stopped
    /\ view' = [view EXCEPT !.booked = TRUE, !.agreed = TRUE]
    /\ UNCHANGED <<heard, pending, saying, read, stops>>

Done == heard = MaxTurns /\ pending = {} /\ ~saying /\ UNCHANGED vars

Hears == \E u \in Utterance : Lost(u) \/ Heard(u)
Next == Hears \/ Ask \/ Speak \/ Book \/ Done
Spec == Init /\ [][Next]_vars

----------------------------------------------------------------------------
\* Properties

TypeOK ==
    /\ heard \in 0..MaxTurns /\ stops \in 0..MaxTurns /\ saying \in BOOLEAN
    /\ {view.trust, view.resistance, view.momentum, view.heat} \subseteq 0..100
    /\ view.turn <= heard /\ view.failures <= 2 * heard

\* The fact that will be journalled about the person is the one Sophia acts on.
FactIsBelieved == view.person # "none" => (view.person = "yes" <=> view.owner)

\* A stop phrase that reached the tracker ends the call and stays in force.
StopIsHonoured == stops > 0 => view.stopped /\ view.ending

\* What the model is told belongs to the words it is answering: an instruction of
\* an earlier frame never reaches it.
ToldOfThisTurn == read.instruction # NoInstruction => read.instruction.of >= read.of

\* The goal it is given never guesses at words that were not understood, and never
\* passes over the question whether it is a machine.
GoalFitsTheWords ==
    /\ ~read.clear => read.goal \in {"", "stop", "identity", "clarify_audio"}
    /\ "ai" \in read.cues => read.goal \in {"stop", "identity", ""}

ConversationSound == /\ TypeOK /\ FactIsBelieved /\ StopIsHonoured /\ ToldOfThisTurn /\ GoalFitsTheWords
=============================================================================
