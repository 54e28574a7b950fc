SPECIFICATION MicrophoneSpec
CONSTANTS
    Choices = 3
    Group <- MCGroup
    MaxFaults = 5
    MinSpeech = 2
    Silence = 2
    MaxUtterance = 6
    PreRoll = 2
INVARIANTS
    HeardFromRouted
    UtteranceNotCut
    UtterancesWhole
PROPERTIES
    DevicesExclusive
    ImplementsCapture
    PreferredReturns
CHECK_DEADLOCK FALSE
