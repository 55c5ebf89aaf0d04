CONSTANTS
    AppSignals = {"panic", "longpanic"}
    InfraSignals = {"denied"}
    Buried = {"long", "longpanic"}
    Wide <- MCWide
    Builtin <- MCBuiltin
    Cases <- MCCases
    Replies <- MCReplies
SPECIFICATION Spec
INVARIANTS
    LastDefinitionWins
    BestSeedWins
    EndsAgree
    LinesRebuildLog
    VerdictHasCause
CHECK_DEADLOCK FALSE
