SPECIFICATION FairSpec
CONSTANTS
    Callers = {c1, c2}
    NoCaller = NoCaller
    Configs = {good, bad}
    NoConfig = NoConfig
    GoodConfigs = {good}
    Capabilities = {plain, preload}
    NoCapabilities = plain
    MaxFaults = 1
    QueueCapacity = 1
    MaxCalls = 1
    CallersCancel = FALSE
    HookHandle = c2
    Policy = "Retry"
    HookOutcomes = {"ok", "error"}
    NoCommand = NoCommand
INVARIANTS
    StatusTruthful
PROPERTIES
    EveryCallReturns
    StaysConnected
    ImplementsLifecycle
