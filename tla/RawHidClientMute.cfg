CONSTANTS
    layer = layer
    again = again
    features = features
    NoCall = NoCall
    Pump = Pump
    Calls = {layer, again, features}
    Cmd <- MCCmd
    PushCmds = {}
    MaxPushes = 0
    Prompt = TRUE
    Mute = {features}
SPECIFICATION Spec
\* All sends settled and the stream over.
CHECK_DEADLOCK FALSE
INVARIANTS
    OnlyMuteTimesOut
