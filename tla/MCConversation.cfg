SPECIFICATION Spec
CONSTANTS
    MaxOutputTokens = 64
    DefaultMaxOutputTokens = 32
    Plain <- MCPlain
    OtherWants <- MCOtherWants
    MaxRequests = 3
INVARIANTS
    TypeOK
    HistoryAccepted
    ResultsPaired
    CallsSigned
    FailuresMarked
    DemandsKept
    PromptKept
    StatusTells
    AnswerKept
    UsageKept
CHECK_DEADLOCK FALSE
