SPECIFICATION Spec
CONSTANTS
    Callers = {c1, c2}
    NoCaller = NoCaller
    Configs = {good}
    NoConfig = NoConfig
    GoodConfigs = {good}
    Capabilities = {plain}
    NoCapabilities = plain
    MaxFaults = 1
    QueueCapacity = 1
    MaxCalls = 1
    CallersCancel = FALSE
    HookHandle = NoCaller
    Policy = "Latch"
    HookOutcomes = {"ok", "error", "tolerate"}
    NoCommand = NoCommand
INVARIANTS
    NoCrossedReplies
