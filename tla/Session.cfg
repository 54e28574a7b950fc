SPECIFICATION Spec
CONSTANTS
    PlaybackTail = 1
    InFlightTurns = 1
    InFlightWindow = 1
    ConversationTurns = 2
    ConversationWindow = 1
INVARIANTS
    MicrophoneGuarded
    HeardUnderItsAuthorization
    FreeTurnsAreGranted
    LossEndsAuthorization

PROPERTIES
    DeadlineIsAbsolute
    CancelledIsSilent
    RequestIsSettled
CHECK_DEADLOCK FALSE
