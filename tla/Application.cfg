SPECIFICATION MCSpec
CONSTANTS
    Null = Null
    LogNames <- MCLogNames
    MDC <- MCMDC
    Signals = {"SIGINT", "SIGTERM"}
    MaxSignals = 2
    MaxPattern = 4
    t1 = t1
    t2 = t2
    k1 = k1
    k2 = k2
    r1 = r1
    r2 = r2
    r3 = r3
    Thread = {t1, t2}
    Key = {k1, k2}
    Absent = Absent
    MaxLen = 2
    MaxCmds = 2
    Width = 5
    MaxClients = 2
    BufferSize = 4
    Routine = {r1, r2, r3}
    Nil = Nil
    MaxWork = 1
    MaxDepth = 3
    Commands <- Mixed
    MaxCommands = 2
    Parts = {"process", "logging", "stream", "commands", "engine"}
INVARIANTS LoggerAsAsked ReopenExact ExecutesWhatWasSent CaughtUp GetSound ListExact OwnStack
PROPERTIES SignalEnds AppendLostByRaceOnly
CHECK_DEADLOCK FALSE
