CONSTANTS
    Turns = {t1, t2}
    ResourceAdmission = TRUE
    NoTurn = NoTurn
    Barge = Barge
    Shutdown = Shutdown
SPECIFICATION FairSpec
INVARIANTS UncancelledTurnIsCurrent LeaseHolderIsActive OnlyRacingCallsOutliveShutdown
PROPERTIES CancelledTurnsEnd BrokerCancellationEndsTurn CallsReturn
