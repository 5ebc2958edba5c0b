SPECIFICATION Spec
CONSTANTS
    Callers = {c1, c2}
    NoCaller = NoCaller
    Configs = {good, bad}
    NoConfig = NoConfig
    GoodConfigs = {good}
    Capabilities = {plain}
    NoCapabilities = plain
    MaxFaults = 1
    QueueCapacity = 2
    MaxCalls = 2
    CallersCancel = TRUE
    HookHandle = NoCaller
    Policy = "Latch"
    HookOutcomes = {"ok", "error", "timeout", "panic"}
    NoCommand = NoCommand
SYMMETRY CallerSymmetry
INVARIANTS
    TypeOK
    StatusTruthful
    LatchHolds
    StrictlySerialized
    NoCrossedReplies
    ServedUnderLatestConfig
    LateRequestsRefused
    HandshakeGate
    FatalEndsConnection
PROPERTIES
    ShutdownIsFinal
    ImplementsLifecycle
