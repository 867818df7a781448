----------------------------- MODULE MCLiveCall -----------------------------
(***************************************************************************)
(* LiveCall for TLC: one packet, and one utterance for each of the ways    *)
(* the conversation turns.                                                 *)
(***************************************************************************)
EXTENDS LiveCall, TLC

\* A packet that is stale and in conflict, of which an operator has allowed the booking.
Packets ==
    {[fresh |-> FALSE, safe |-> TRUE, conflicted |-> TRUE, byOperator |-> {"book"},
      allowed |-> {"book", "price", "text", "ask", "transfer", "slots"}]}

\* One utterance for each of the ways the conversation turns.
Says(cues, clear, words) == [cues |-> cues, clear |-> clear, words |-> words]
Utterances ==
    {Says({"stop"}, FALSE, 3), Says({"ai", "trigger", "grief"}, TRUE, 4),
     Says({"prove", "scam"}, TRUE, 3), Says({"yes"}, TRUE, 1), Says({"noise"}, TRUE, 1),
     Says({"offer", "ready", "own", "sell", "noAgent"}, TRUE, 25),
     Says({"refuse", "human"}, FALSE, 6), Says({"notOwn", "agent", "think"}, TRUE, 9)}

\* The threads of the tools are interchangeable.
Symmetry == Permutations(Thread)
=============================================================================
