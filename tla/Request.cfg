SPECIFICATION Spec
CONSTANTS
    MaxChanges = 2
    HaDevices = {"lamp", "fan", "hall", "door"}
    Domain <- MCDomain
    Operations <- MCOperations
    ColorModes <- MCColorModes
    HvacModes <- MCHvacModes
    OneSetpoint = {"hall"}
    MinTemp = 16
    MaxTemp = 30
    Speakers = {"music"}
    Phones = {"phone"}
    PhoneOps = {"read", "pause", "open_app", "dial"}
    AgentControl = TRUE
    Apps = {"mail"}
    Lamps = {"strip"}
    Displays = {"tv"}
    Plans <- MCPlans
    Idle = {"old"}
    Kind <- MCKind
    Namings <- MCNamings
    Utterances <- MCUtterances
INVARIANTS
    EffectWasReal
    ActsOnMeant
    PlaybackRespected
    ReplyIsEarned
CHECK_DEADLOCK FALSE
