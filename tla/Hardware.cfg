SPECIFICATION MCSpec
CONSTANTS
    MaxReportBytes = 1
    IndexedPerByte = 1
    Microphones = 3
    NodeOf <- MCNodeOf
    Descriptor <- MCDescriptor
    LightChoice = "auto"
    MaxFaults = 2
    Sounds = {cue, answer}
    PlayerOf <- MCPlayerOf
    Nobody = nobody
INVARIANTS
    MicrophoneOpen
    DeviceShowsIntent
    OneSound
    ControlsPlaced
CHECK_DEADLOCK FALSE
