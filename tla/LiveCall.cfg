SPECIFICATION Spec
CONSTANTS
    Thread = {t1, t2}
    Line = Line
    Packet <- Packets
    AnswerTime = 1
    MaxCalls = 2
    Utterance <- Utterances
    Question = {"owner", "walkthrough"}
    GraceTurns = 1
    FullTurns = 2
    ShortLimit = 2
    MaxTurns = 4
SYMMETRY Symmetry
INVARIANTS
    ToolsSound
    ConversationSound
