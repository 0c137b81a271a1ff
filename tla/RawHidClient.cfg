CONSTANTS
    layer = layer
    again = again
    features = features
    NoCall = NoCall
    Pump = Pump
    Calls = {layer, again, features}
    Cmd <- MCCmd
    PushCmds = {"A3", "A7"}
    MaxPushes = 1
    Prompt = FALSE
    Mute = {features}
SPECIFICATION FairSpec
\* All sends settled and the stream over.
CHECK_DEADLOCK FALSE
INVARIANTS
    OneAwaiting
    IdleOwnReply
    PumpedOwnReply
PROPERTIES
    AllSettle
